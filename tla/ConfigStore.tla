----------------------------- MODULE ConfigStore -----------------------------
(***************************************************************************)
(* What the settings manager promises its callers: a map they read and     *)
(* change one key at a time, and a saved copy of it that a later process   *)
(* starts from.                                                            *)
(***************************************************************************)
CONSTANTS Keys, Values, NoValue

VARIABLES
    store,  \* what a new process would read
    view    \* what getSetting answers

Init ==
    /\ store = [k \in Keys |-> NoValue]
    /\ view = store

\* A value is set, or removed (v = NoValue).
Change(k, v) ==
    /\ view' = [view EXCEPT ![k] = v]
    /\ UNCHANGED store

\* Everything in view is saved, and nothing else.
Save ==
    /\ store' = view
    /\ UNCHANGED view

\* The process is killed; the next one starts from the last save.
Forget ==
    /\ view' = store
    /\ UNCHANGED store

Next ==
    \/ \E k \in Keys, v \in Values \cup {NoValue} : Change(k, v)
    \/ Save
    \/ Forget

Spec == Init /\ [][Next]_<<store, view>>
=============================================================================
