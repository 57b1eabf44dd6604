----------------------------- MODULE MCSettings -----------------------------
(***************************************************************************)
(* What is remembered: the settings of the program, and the form of a      *)
(* window and its record.  Neither knows of the other; a behaviour here is *)
(* one of one of them.                                                     *)
(***************************************************************************)
EXTENDS Settings, WindowForms

CONSTANT Parts  \* which of the two

VARIABLE part

\* Every point at which the process can be killed.
AnyPhase == Phases \ {"off"}

\* The same without the two in which config.json is truncated or missing.
SafePhases == Phases \ {"off", "resetting", "renaming"}

\* A form without a choice of ports: what is plugged in is all the same to it.
PortsDoNotMatter == \A f \in Field : panel.fields[f] # "port"

RememberedInit ==
    /\ part \in Parts
    /\ Init /\ FormInit
    /\ part = "settings" => form_kind = "Mqtt"
    /\ PortsDoNotMatter => listed = {}

SettingsStep ==
    /\ part = "settings" /\ Next
    /\ UNCHANGED <<part, formVars>>

FormStep ==
    /\ part = "form" /\ FormNext
    /\ PortsDoNotMatter => listed' = {}
    /\ UNCHANGED <<part, vars>>

RememberedNext == SettingsStep \/ FormStep

RememberedSpec == RememberedInit /\ [][RememberedNext]_<<part, vars, formVars>>

\* What is fair for the settings, see FairSpec.
FairRememberedSpec == RememberedSpec /\ WF_vars(ProcessStep) /\ WF_vars(TimerFires)
=============================================================================
