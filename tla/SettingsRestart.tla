--------------------------- MODULE SettingsRestart ---------------------------
(***************************************************************************)
(* MainWindow::restartApplication (window/main_window.cpp): two processes  *)
(* with a settings manager each and one configs directory.  The new        *)
(* process is started before the old one quits, so the new one's           *)
(* saveSettings and the old one's forced save interleave.                  *)
(***************************************************************************)
CONSTANTS Keys, Values, NoValue

VARIABLES
    oldMem, oldDirty, oldTimer, oldPhase, oldClosing, oldBuf,
    newMem, newDirty, newTimer, newPhase, newClosing, newBuf,
    target, bak, temp,
    handed,   \* restartApplication was called
    expected  \* what the user's settings were then

oldVars == <<oldMem, oldDirty, oldTimer, oldPhase, oldClosing, oldBuf>>
newVars == <<newMem, newDirty, newTimer, newPhase, newClosing, newBuf>>
shared == <<target, bak, temp>>
vars == <<oldVars, newVars, shared, handed, expected>>

Old == INSTANCE Settings
    WITH mem <- oldMem, dirty <- oldDirty, timer <- oldTimer,
         phase <- oldPhase, closing <- oldClosing, buf <- oldBuf,
         Faults <- {}, CrashAt <- {}, MayEmpty <- FALSE, WholeApi <- FALSE

New == INSTANCE Settings
    WITH mem <- newMem, dirty <- newDirty, timer <- newTimer,
         phase <- newPhase, closing <- newClosing, buf <- newBuf,
         Faults <- {}, CrashAt <- {}, MayEmpty <- FALSE, WholeApi <- FALSE

Init ==
    /\ Old!Init
    /\ New!Init
    /\ handed = FALSE
    /\ expected = Old!EmptyMap

\* The old process is used until it restarts.
UseOld ==
    /\ ~handed
    /\ \/ Old!Launch
       \/ Old!TimerFires
       \/ \E k \in Keys, v \in Values : Old!SetSetting(k, v)
       \/ \E k \in Keys : Old!RemoveOneSetting(k)
    /\ UNCHANGED <<newVars, handed, expected>>

\* startDetached, then quit, which closes the window and forces a save.
restartApplication ==
    /\ ~handed
    /\ New!Launch
    /\ Old!CloseWindow
    /\ handed' = TRUE
    /\ expected' = Old!View

\* On the platforms supported a file another process has open cannot be
\* removed: calls on config.json wait here until the new process closes it.
OldRuns ==
    /\ newPhase # "resetting"
    /\ Old!ProcessStep
    /\ UNCHANGED <<newVars, handed, expected>>

NewRuns == New!ProcessStep /\ UNCHANGED <<oldVars, handed, expected>>

Next == UseOld \/ restartApplication \/ OldRuns \/ NewRuns

Spec == Init /\ [][Next]_vars

\* setting_manager.h:71: forceSave at closing stores the settings; once the
\* old process has gone and the new one is up, config.json holds them.
SavedAtClosing ==
    handed /\ oldPhase = "off" /\ newPhase = "idle"
        => Old!Parsed(target) = expected
=============================================================================
