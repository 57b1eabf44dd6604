--------------------------- MODULE SettingsProofs ---------------------------
(***************************************************************************)
(* What the program remembers.  Settings for every set of keys and values, *)
(* every kind of failure and every place of a crash: its types, what its   *)
(* files hold, and that in normal use it implements ConfigStore.  Then     *)
(* WindowForms for every panel, every port and every text: what a window   *)
(* that shows itself as saved would bring back, what the window passes on  *)
(* to its link, and what a link in use keeps on the screen.                *)
(***************************************************************************)
EXTENDS Settings, WindowForms, TLAPS

\* The empty map and the fixed files are what their names say: used
\* wherever a step makes a file absent, torn or whole.
LEMMA FixedValues ==
    /\ EmptyMap \in Maps
    /\ Absent \in Files
    /\ Torn \in Files
    /\ \A m \in Maps : Json(m) \in Files
    /\ \A f \in Files : Parsed(f) \in Maps
    /\ \A m \in Maps : Parsed(Json(m)) = m
  BY DEF EmptyMap, Maps, Absent, Torn, Json, Files, FileKinds, Parsed

\* Laying one map over another gives a map (saveSettings).
LEMMA OverlaidIsMap ==
    ASSUME NEW old \in Maps, NEW new \in Maps
    PROVE  Overlaid(old, new) \in Maps
  BY DEF Overlaid, Maps

\* What a save writes is settings_ and nothing of the old file: the merge
\* of actualSaveSettings, removals included, is an overwrite.
LEMMA MergedIsNew ==
    ASSUME NEW old \in Maps, NEW new \in Maps
    PROVE  Merged(old, new) = new
<1>1. \A k \in Keys : Merged(old, new)[k] = new[k]
  BY DEF Merged, Overlaid
<1>2. Merged(old, new) = [k \in Keys |-> Merged(old, new)[k]]
  BY DEF Merged, Overlaid
<1>3. new = [k \in Keys |-> new[k]]
  BY DEF Maps
<1> QED
  BY <1>1, <1>2, <1>3

\* Loading the file on demand leaves a map.
LEMMA LoadOutcomesAreMaps ==
    ASSUME TypeOK
    PROVE  LoadOutcomes \subseteq Maps
  BY FixedValues DEF LoadOutcomes, TypeOK

\* Initially every variable has its type.
LEMMA InitTypeOK == Init => TypeOK
  BY FixedValues DEF Init, TypeOK, Phases

\* Every step keeps every variable in its type.
LEMMA NextTypeOK == TypeOK /\ [Next]_vars => TypeOK'
<1> SUFFICES ASSUME TypeOK, [Next]_vars PROVE TypeOK'
  OBVIOUS
<1> USE DEF TypeOK, Phases, Booting, Saving, volatile, files
<1>1. CASE Launch
  BY <1>1 DEF Launch
<1>2. CASE ResetOpen
  <2>1. Overlaid(Parsed(target), mem) \in Maps
    BY FixedValues, OverlaidIsMap
  <2> QED
    BY <1>2, <2>1, FixedValues DEF ResetOpen
<1>3. CASE ResetWrite
  BY <1>3, FixedValues DEF ResetWrite
<1>4. CASE Recover
  <2>1. bak.kind = "json" => bak.map \in Maps
    BY DEF Files
  <2> QED
    BY <1>4, <2>1, FixedValues DEF Recover
<1>5. CASE RemoveBackup
  BY <1>5, FixedValues DEF RemoveBackup, GoOn, Return, Exit
<1>6. CASE CopyBackup
  BY <1>6 DEF CopyBackup, GoOn
<1>7. CASE OpenTemp
  <2>1. Merged(Parsed(target), mem) \in Maps
    BY FixedValues, MergedIsNew
  <2> QED
    BY <1>7, <2>1, FixedValues DEF OpenTemp, GoOn, Return, Exit
<1>8. CASE WriteTemp
  BY <1>8, FixedValues DEF WriteTemp, GoOn, Return, Exit
<1>9. CASE RemoveTarget
  BY <1>9, FixedValues DEF RemoveTarget, GoOn, Return, Exit
<1>10. CASE RenameTemp
  BY <1>10, FixedValues DEF RenameTemp, Return, Exit
<1>11. CASE TimerFires
  BY <1>11 DEF TimerFires
<1>12. ASSUME NEW k \in Keys, NEW v \in Values, SetSetting(k, v)
       PROVE  TypeOK'
  <2>1. \A m \in Maps : [m EXCEPT ![k] = v] \in Maps
    BY DEF Maps
  <2> QED
    BY <1>12, <2>1, LoadOutcomesAreMaps DEF SetSetting, MarkDirty
<1>13. ASSUME NEW k \in Keys, GetSetting(k) PROVE TypeOK'
  BY <1>13, LoadOutcomesAreMaps DEF GetSetting
<1>14. ASSUME NEW k \in Keys, RemoveOneSetting(k) PROVE TypeOK'
  <2>1. \A m \in Maps : [m EXCEPT ![k] = NoValue] \in Maps
    BY DEF Maps
  <2> QED
    BY <1>14, <2>1, LoadOutcomesAreMaps DEF RemoveOneSetting, MarkDirty
<1>15. ASSUME NEW added \in Maps, SetMultipleSettings(added) PROVE TypeOK'
  BY <1>15, OverlaidIsMap DEF SetMultipleSettings, MarkDirty
<1>16. CASE LoadSettings
  <2>1. target.map \in Maps
    BY DEF Files
  <2> QED
    BY <1>16, <2>1, FixedValues DEF LoadSettings
<1>17. CASE CloseWindow
  BY <1>17, FixedValues DEF CloseWindow, Exit
<1>18. CASE Crash
  BY <1>18, FixedValues DEF Crash, Exit
<1>19. CASE UNCHANGED vars
  BY <1>19 DEF vars
<1> QED
  BY <1>1, <1>2, <1>3, <1>4, <1>5, <1>6, <1>7, <1>8, <1>9, <1>10, <1>11,
     <1>12, <1>13, <1>14, <1>15, <1>16, <1>17, <1>18, <1>19
     DEF Next, ProcessStep, SaveStep, UserStep

\* Type correctness, whatever fails and wherever the process is killed.
THEOREM TypeCorrect == Spec => []TypeOK
<1>1. Init => TypeOK
  BY InitTypeOK
<1>2. TypeOK /\ [Next]_vars => TypeOK'
  BY NextTypeOK
<1> QED
  BY <1>1, <1>2, PTL DEF Spec

\* loadSettingsIfNeeded adopts the file only when settings_ was empty, so
\* a clean manager holds the file's map, or the empty one, afterwards.
LEMMA LoadKeepsClean ==
    ASSUME TypeOK, CleanMeansStored, phase = "idle", ~dirty,
           NEW m \in LoadOutcomes, m # EmptyMap
    PROVE  target = Json(m) \/ BrokenBackup
<1>1. CASE m = mem
  BY <1>1 DEF CleanMeansStored
<1>2. CASE m # mem
  <2>1. mem = EmptyMap /\ m = Parsed(target)
    BY <1>2 DEF LoadOutcomes
  <2>2. target.kind = "json" /\ m = target.map
    BY <2>1 DEF Parsed
  <2> QED
    BY <2>2 DEF TypeOK, Files, Json
<1> QED
  BY <1>1, <1>2

\* Initially nothing runs and nothing is held.
LEMMA InitSaveInvariant == Init => SaveInvariant
  BY DEF Init, SaveInvariant, NewCopyWhole, Booting, Saving

\* Every step keeps SaveInvariant, as long as every failed call reports
\* its failure.
LEMMA NextSaveInvariant ==
    ASSUME ~FlushFails
    PROVE  TypeOK /\ SaveInvariant /\ [Next]_vars => SaveInvariant'
<1> SUFFICES ASSUME TypeOK, SaveInvariant, [Next]_vars PROVE SaveInvariant'
  OBVIOUS
<1> USE DEF SaveInvariant, NewCopyWhole, Booting, Saving
<1>0. ASSUME Exit PROVE SaveInvariant'
  BY <1>0 DEF Exit
<1>a. ASSUME phase \in Saving, Return(dirty) PROVE SaveInvariant'
  <2>1. dirty = TRUE
    BY <1>a DEF TypeOK
  <2>2. CASE ~closing
    <3>1. dirty' = TRUE
      BY <1>a, <1>0, <2>1, <2>2 DEF Return
    <3>2. closing' = FALSE /\ timer' = FALSE /\ phase' = "idle"
      BY <1>a, <2>2, <3>1 DEF Return, TypeOK
    <3> QED
      BY <3>1, <3>2
  <2> QED
    BY <1>a, <1>0, <2>2 DEF Return
<1>b. ASSUME NEW next \in Saving, phase \in Saving, GoOn(next)
      PROVE  /\ phase' = next
             /\ mem' = mem
             /\ dirty'
             /\ ~closing' => ~timer'
  BY <1>b DEF GoOn, TypeOK
<1>1. CASE Launch
  BY <1>1 DEF Launch, volatile
<1>2. CASE ResetOpen
  BY <1>2 DEF ResetOpen
<1>3. CASE ResetWrite
  BY <1>3 DEF ResetWrite
<1>4. CASE Recover
  BY <1>4 DEF Recover
<1>5. CASE RemoveBackup
  <2>1. CASE Return(dirty)
    BY <1>5, <1>a, <2>1 DEF RemoveBackup
  <2>2. CASE GoOn("copying") /\ UNCHANGED buf
    BY <1>5, <1>b, <2>2 DEF RemoveBackup
  <2> QED
    BY <1>5, <2>1, <2>2 DEF RemoveBackup
<1>6. CASE CopyBackup
  BY <1>6, <1>b DEF CopyBackup
<1>7. CASE OpenTemp
  <2>1. Merged(Parsed(target), mem) = mem
    BY MergedIsNew, FixedValues DEF TypeOK
  <2> QED
    BY <1>7, <1>a, <1>b, <2>1 DEF OpenTemp
<1>8. CASE WriteTemp
  BY <1>8, <1>a, <1>b DEF WriteTemp
<1>9. CASE RemoveTarget
  BY <1>9, <1>a, <1>b DEF RemoveTarget
<1>10. CASE RenameTemp
  <2>1. CASE Return(dirty)
    BY <1>10, <1>a, <2>1 DEF RenameTemp
  <2>2. CASE Return(FALSE)
    BY <1>10, <1>0, <2>2 DEF RenameTemp, Return
  <2> QED
    BY <1>10, <2>1, <2>2 DEF RenameTemp
<1>11. CASE TimerFires
  BY <1>11 DEF TimerFires
<1>12. ASSUME NEW k \in Keys, NEW v \in Values, SetSetting(k, v)
       PROVE  SaveInvariant'
  BY <1>12 DEF SetSetting, MarkDirty
<1>13. ASSUME NEW k \in Keys, GetSetting(k) PROVE SaveInvariant'
  BY <1>13 DEF GetSetting
<1>14. ASSUME NEW k \in Keys, RemoveOneSetting(k) PROVE SaveInvariant'
  BY <1>14 DEF RemoveOneSetting, MarkDirty
<1>15. ASSUME NEW added \in Maps, SetMultipleSettings(added)
       PROVE  SaveInvariant'
  BY <1>15 DEF SetMultipleSettings, MarkDirty, files
<1>16. CASE LoadSettings
  BY <1>16 DEF LoadSettings
<1>17. CASE CloseWindow
  BY <1>17, <1>0 DEF CloseWindow
<1>18. CASE Crash
  BY <1>18, <1>0 DEF Crash
<1>19. CASE UNCHANGED vars
  BY <1>19 DEF vars, volatile, files
<1> QED
  BY <1>1, <1>2, <1>3, <1>4, <1>5, <1>6, <1>7, <1>8, <1>9, <1>10, <1>11,
     <1>12, <1>13, <1>14, <1>15, <1>16, <1>17, <1>18, <1>19
     DEF Next, ProcessStep, SaveStep, UserStep

\* Initially nothing is held.
LEMMA InitCleanInvariant == Init => CleanInvariant
  BY DEF Init, CleanInvariant, CleanMeansStored

\* Every step keeps CleanInvariant, as long as every failed call reports
\* its failure.
LEMMA NextCleanInvariant ==
    ASSUME ~FlushFails
    PROVE  TypeOK /\ SaveInvariant /\ CleanInvariant /\ [Next]_vars
              => CleanInvariant'
<1> SUFFICES ASSUME TypeOK, SaveInvariant, CleanInvariant, [Next]_vars
             PROVE  CleanInvariant'
  OBVIOUS
<1> USE DEF CleanInvariant, CleanMeansStored
<1>0. ASSUME Exit PROVE CleanInvariant'
  BY <1>0 DEF Exit
<1>a. ASSUME phase \in Saving, Return(dirty) PROVE CleanInvariant'
  <2>1. dirty = TRUE
    BY <1>a DEF SaveInvariant, TypeOK
  <2>2. Exit \/ (phase' = "idle" /\ dirty')
    BY <1>a, <2>1 DEF Return
  <2> QED
    BY <1>0, <2>2
<1>b. ASSUME phase' \in Saving PROVE CleanInvariant'
  BY <1>b DEF Saving
<1>1. CASE Launch
  BY <1>1 DEF Launch
<1>2. CASE ResetOpen \/ ResetWrite
  BY <1>2 DEF ResetOpen, ResetWrite, SaveInvariant, Booting
<1>3. CASE Recover
  <2>1. mem' # EmptyMap /\ ~dirty => target' = Json(mem') \/ BrokenBackup'
    <3>1. CASE mem' = EmptyMap
      BY <3>1
    <3>2. CASE mem' # EmptyMap /\ bak.kind = "json"
      BY <1>3, <3>2 DEF Recover, TypeOK, Files, Json
    <3>3. CASE mem' # EmptyMap /\ bak.kind # "json"
      BY <1>3, <3>3 DEF Recover, BrokenBackup
    <3> QED
      BY <3>1, <3>2, <3>3
  <2> QED
    BY <1>3, <2>1 DEF Recover
<1>4. CASE RemoveBackup \/ CopyBackup \/ OpenTemp \/ WriteTemp \/ RemoveTarget
  BY <1>4, <1>a, <1>b
     DEF RemoveBackup, CopyBackup, OpenTemp, WriteTemp, RemoveTarget, GoOn,
         Saving
<1>5. CASE RenameTemp
  <2>1. CASE Return(dirty)
    BY <1>5, <1>a, <2>1 DEF RenameTemp, Saving
  <2>2. CASE Return(FALSE) /\ target' = temp
    <3>1. temp = Json(mem)
      BY <1>5 DEF RenameTemp, SaveInvariant, NewCopyWhole
    <3> QED
      BY <1>0, <2>2, <3>1 DEF Return
  <2> QED
    BY <1>5, <2>1, <2>2 DEF RenameTemp
<1>6. CASE TimerFires
  BY <1>6 DEF TimerFires
<1>7. ASSUME NEW m \in LoadOutcomes, phase = "idle", mem' = m,
             UNCHANGED <<dirty, phase, target, bak>>
      PROVE  CleanInvariant'
  BY <1>7, LoadKeepsClean DEF BrokenBackup
<1>8. ASSUME phase = "idle", phase' = "idle", dirty' PROVE CleanInvariant'
  BY <1>8
<1>9. ASSUME NEW k \in Keys, NEW v \in Values, SetSetting(k, v)
      PROVE  CleanInvariant'
  BY <1>9, <1>7, <1>8 DEF SetSetting, MarkDirty, files
<1>10. ASSUME NEW k \in Keys, GetSetting(k) PROVE CleanInvariant'
  BY <1>10, <1>7 DEF GetSetting, files
<1>11. ASSUME NEW k \in Keys, RemoveOneSetting(k) PROVE CleanInvariant'
  <2> PICK loaded \in LoadOutcomes :
         /\ mem' = [loaded EXCEPT ![k] = NoValue]
         /\ \/ MarkDirty
            \/ loaded[k] = NoValue /\ UNCHANGED <<dirty, timer>>
    BY <1>11 DEF RemoveOneSetting
  <2>1. loaded[k] = NoValue => mem' = loaded
    BY LoadOutcomesAreMaps DEF Maps
  <2> QED
    BY <1>11, <1>7, <1>8, <2>1 DEF RemoveOneSetting, MarkDirty, files
<1>12. ASSUME NEW added \in Maps, SetMultipleSettings(added)
       PROVE  CleanInvariant'
  <2>1. CASE MarkDirty
    BY <1>12, <1>8, <2>1 DEF SetMultipleSettings, MarkDirty
  <2>2. CASE UNCHANGED <<mem, dirty, phase, target, bak>>
    BY <2>2 DEF BrokenBackup
  <2> QED
    BY <1>12, <2>1, <2>2 DEF SetMultipleSettings, files
<1>13. CASE LoadSettings
  <2>1. target.kind = "json" => target = Json(target.map)
    BY DEF TypeOK, Files, Json
  <2>2. target.kind # "json" /\ ~dirty
           => mem = EmptyMap \/ (WholeApi /\ Fails)
    BY <1>13 DEF LoadSettings, Json, BrokenBackup
  <2>3. CASE phase' = "recovering"
    BY <1>13, <2>2, <2>3 DEF LoadSettings
  <2>4. CASE phase' # "recovering" /\ target.kind = "json"
    BY <1>13, <2>1, <2>4 DEF LoadSettings, BrokenBackup
  <2>5. CASE phase' # "recovering" /\ target.kind # "json"
    BY <1>13, <2>5 DEF LoadSettings
  <2> QED
    BY <2>3, <2>4, <2>5
<1>14. CASE CloseWindow
  BY <1>14, <1>0 DEF CloseWindow
<1>15. CASE Crash
  BY <1>15, <1>0 DEF Crash
<1>16. CASE UNCHANGED vars
  BY <1>16 DEF vars, volatile, files, BrokenBackup
<1> QED
  BY <1>1, <1>2, <1>3, <1>4, <1>5, <1>6, <1>9, <1>10, <1>11, <1>12, <1>13,
     <1>14, <1>15, <1>16 DEF Next, ProcessStep, SaveStep, UserStep

\* A manager that believes it is clean is: for every set of keys and
\* values, every point of a crash and every reported failure, settings_ is
\* what config.json holds unless dirty_ is set.
THEOREM CleanIsStored ==
    ASSUME ~FlushFails
    PROVE  Spec => []CleanMeansStored
<1>1. Init => SaveInvariant /\ CleanInvariant
  BY InitSaveInvariant, InitCleanInvariant
<1>2. TypeOK /\ SaveInvariant /\ CleanInvariant /\ [Next]_vars
        => SaveInvariant' /\ CleanInvariant'
  BY NextSaveInvariant, NextCleanInvariant
<1>3. CleanInvariant => CleanMeansStored
  BY DEF CleanInvariant
<1> QED
  BY <1>1, <1>2, <1>3, TypeCorrect, PTL DEF Spec

\* While config.json is being replaced the whole of settings_ is in .temp.
THEOREM NewCopyIsWhole ==
    ASSUME ~FlushFails
    PROVE  Spec => []NewCopyWhole
<1>1. Init => SaveInvariant
  BY InitSaveInvariant
<1>2. TypeOK /\ SaveInvariant /\ [Next]_vars => SaveInvariant'
  BY NextSaveInvariant
<1>3. SaveInvariant => NewCopyWhole
  BY DEF SaveInvariant
<1> QED
  BY <1>1, <1>2, <1>3, TypeCorrect, PTL DEF Spec

\* Initially nothing is dirty and no save is under way.
LEMMA InitPendingInvariant == Init => PendingInvariant
  BY DEF Init, PendingInvariant, Booting, Saving

\* Every step keeps PendingInvariant when no call reports a failure.
LEMMA NextPendingInvariant ==
    ASSUME ~Fails
    PROVE  TypeOK /\ PendingInvariant /\ [Next]_vars => PendingInvariant'
<1> SUFFICES ASSUME TypeOK, PendingInvariant, [Next]_vars
             PROVE  PendingInvariant'
  OBVIOUS
<1> USE DEF PendingInvariant, Booting
<1>0. ASSUME Exit PROVE PendingInvariant'
  BY <1>0 DEF Exit
<1>1. CASE Launch
  BY <1>1 DEF Launch, volatile, files
<1>2. CASE ResetOpen
  BY <1>2 DEF ResetOpen
<1>3. CASE ResetWrite
  BY <1>3 DEF ResetWrite
<1>4. CASE Recover
  BY <1>4 DEF Recover
<1>5. CASE RemoveBackup
  BY <1>5 DEF RemoveBackup, GoOn, Absent
<1>6. CASE CopyBackup
  BY <1>6 DEF CopyBackup, GoOn
<1>7. CASE OpenTemp
  BY <1>7 DEF OpenTemp, GoOn, Torn
<1>8. CASE WriteTemp
  BY <1>8 DEF WriteTemp, GoOn, Json
<1>9. CASE RemoveTarget
  BY <1>9 DEF RemoveTarget, GoOn, Absent
<1>10. CASE RenameTemp
  BY <1>10, <1>0 DEF RenameTemp, CanRename, Return
<1>11. CASE TimerFires
  BY <1>11 DEF TimerFires, files
<1>12. ASSUME NEW k \in Keys, NEW v \in Values, SetSetting(k, v)
       PROVE  PendingInvariant'
  BY <1>12 DEF SetSetting, MarkDirty, files
<1>13. ASSUME NEW k \in Keys, GetSetting(k) PROVE PendingInvariant'
  BY <1>13 DEF GetSetting, files
<1>14. ASSUME NEW k \in Keys, RemoveOneSetting(k) PROVE PendingInvariant'
  BY <1>14 DEF RemoveOneSetting, MarkDirty, files
<1>15. ASSUME NEW added \in Maps, SetMultipleSettings(added)
       PROVE  PendingInvariant'
  BY <1>15 DEF SetMultipleSettings, MarkDirty, files
<1>16. CASE LoadSettings
  BY <1>16 DEF LoadSettings
<1>17. CASE CloseWindow
  BY <1>17, <1>0 DEF CloseWindow, files
<1>18. CASE Crash
  BY <1>18, <1>0 DEF Crash
<1>19. CASE UNCHANGED vars
  BY <1>19 DEF vars, volatile, files
<1> QED
  BY <1>1, <1>2, <1>3, <1>4, <1>5, <1>6, <1>7, <1>8, <1>9, <1>10, <1>11,
     <1>12, <1>13, <1>14, <1>15, <1>16, <1>17, <1>18, <1>19
     DEF Next, ProcessStep, SaveStep, UserStep

\* No change is left without a save to come, and config.json is only
\* removed when .bak is a copy of it, if no call fails.
THEOREM SavesArePendingAndBackedUp ==
    ASSUME ~Fails
    PROVE  Spec => [](SavePending /\ BackedUpBeforeRemoval)
<1>1. Init => PendingInvariant
  BY InitPendingInvariant
<1>2. TypeOK /\ PendingInvariant /\ [Next]_vars => PendingInvariant'
  BY NextPendingInvariant
<1>3. PendingInvariant => SavePending /\ BackedUpBeforeRemoval
  BY DEF PendingInvariant, SavePending, BackedUpBeforeRemoval
<1> QED
  BY <1>1, <1>2, <1>3, TypeCorrect, PTL DEF Spec

-----------------------------------------------------------------------------
(* Settings implements ConfigStore, under the conditions TLC shows to be   *)
(* needed (see NormalUse).                                                 *)

\* No file-system call fails, the process is not killed while config.json
\* is truncated or missing, the last setting is not removed and only the
\* operations the program calls are called.
NormalUse ==
    /\ ~Fails
    /\ ~FlushFails
    /\ CrashAt \cap {"resetting", "renaming"} = {}
    /\ ~MayEmpty
    /\ ~WholeApi

\* What the proof of each step uses.
RefinementInvariant ==
    /\ TypeOK
    /\ SaveInvariant
    /\ PendingInvariant
    /\ dirty => mem # EmptyMap
    /\ phase # "recovering"

\* Without settings in memory saveSettings rewrites the file as it was.
LEMMA OverlaidByNothing ==
    ASSUME NEW old \in Maps
    PROVE  Overlaid(old, EmptyMap) = old
<1>1. \A k \in Keys : Overlaid(old, EmptyMap)[k] = old[k]
  BY DEF Overlaid, EmptyMap
<1>2. Overlaid(old, EmptyMap) = [k \in Keys |-> Overlaid(old, EmptyMap)[k]]
  BY DEF Overlaid
<1>3. old = [k \in Keys |-> old[k]]
  BY DEF Maps
<1> QED
  BY <1>1, <1>2, <1>3

\* In normal use a value set is never NoValue, so that a manager with
\* something to save has something in memory.
LEMMA NextNotEmpty ==
    ASSUME NormalUse, RefinementInvariant, [Next]_vars
    PROVE  (dirty => mem # EmptyMap)'
<1> USE DEF RefinementInvariant
<1>0. ASSUME Exit PROVE ~dirty'
  BY <1>0 DEF Exit
<1>1. ASSUME mem' = mem, dirty' => dirty PROVE (dirty => mem # EmptyMap)'
  BY <1>1
<1>2. ASSUME NEW d \in {dirty, FALSE}, Return(d)
      PROVE  (dirty => mem # EmptyMap)'
  <2>1. CASE closing /\ Exit
    BY <2>1, <1>0
  <2>2. CASE mem' = mem /\ dirty' = d
    BY <2>2
  <2> QED
    BY <1>2, <2>1, <2>2 DEF Return
<1>3. CASE ProcessStep
  <2>1. ASSUME NEW n, GoOn(n) PROVE (dirty => mem # EmptyMap)'
    BY <2>1 DEF GoOn
  <2>2. CASE ResetOpen \/ ResetWrite
    BY <2>2 DEF ResetOpen, ResetWrite
  <2>3. CASE SaveStep
    BY <2>1, <2>3, <1>2
       DEF SaveStep, RemoveBackup, CopyBackup, OpenTemp, WriteTemp,
           RemoveTarget, RenameTemp
  <2>4. CASE Recover
    BY <2>4 DEF Recover
  <2> QED
    BY <1>3, <2>2, <2>3, <2>4 DEF ProcessStep
<1>4. ASSUME NEW k \in Keys, NEW v \in Values, SetSetting(k, v)
      PROVE  (dirty => mem # EmptyMap)'
  <2>1. \A m \in Maps : [m EXCEPT ![k] = v] # EmptyMap
    <3> TAKE m \in Maps
    <3>1. [m EXCEPT ![k] = v][k] = v
      BY DEF Maps
    <3>2. EmptyMap[k] = NoValue
      BY DEF EmptyMap
    <3> QED
      BY <3>1, <3>2, NoValueAssumption
  <2>2. \A m \in LoadOutcomes : mem # EmptyMap => m # EmptyMap
    BY DEF NormalUse, LoadOutcomes
  <2> QED
    BY <1>4, <2>1, <2>2, LoadOutcomesAreMaps DEF SetSetting
<1>5. ASSUME NEW k \in Keys, GetSetting(k) PROVE (dirty => mem # EmptyMap)'
  BY <1>5 DEF GetSetting, NormalUse, LoadOutcomes
<1>6. ASSUME NEW k \in Keys, RemoveOneSetting(k)
      PROVE  (dirty => mem # EmptyMap)'
  BY <1>6 DEF RemoveOneSetting, NormalUse
<1> QED
  BY <1>0, <1>3, <1>4, <1>5, <1>6
     DEF Next, UserStep, Launch, TimerFires, CloseWindow, Crash, vars,
         volatile, SetMultipleSettings, LoadSettings, NormalUse

\* RefinementInvariant is inductive.
LEMMA NextRefinementInvariant ==
    ASSUME NormalUse
    PROVE  RefinementInvariant /\ [Next]_vars => RefinementInvariant'
<1> SUFFICES ASSUME RefinementInvariant, [Next]_vars
             PROVE  RefinementInvariant'
  OBVIOUS
<1>1. TypeOK' /\ SaveInvariant' /\ PendingInvariant'
  BY NextTypeOK, NextSaveInvariant, NextPendingInvariant
     DEF NormalUse, RefinementInvariant
<1>2. (dirty => mem # EmptyMap)'
  BY NextNotEmpty
<1>3. phase' # "recovering"
  BY DEF NormalUse, RefinementInvariant, Next, ProcessStep, SaveStep, UserStep,
         Launch, ResetOpen, ResetWrite, Recover, RemoveBackup, CopyBackup,
         OpenTemp, WriteTemp, RemoveTarget, RenameTemp, TimerFires,
         SetSetting, GetSetting, RemoveOneSetting, SetMultipleSettings,
         LoadSettings, CloseWindow, Crash, GoOn, Return, Exit, vars
<1> QED
  BY <1>1, <1>2, <1>3 DEF RefinementInvariant

\* The first state of the manager is the first state of the store.
LEMMA InitImplementsStore == Init => Store!Init
  BY DEF Init, Store!Init, OnDisk, View, EmptyMap, Parsed, Absent

\* A process that ends leaves what the disk holds; nothing else can be read.
LEMMA ExitForgets ==
    ASSUME Exit, OnDisk' = OnDisk
    PROVE  Store!Forget
  BY DEF Exit, Store!Forget, View

\* A step that changes neither the file nor the map in memory is a stutter.
LEMMA NothingToSee ==
    ASSUME mem' = mem, OnDisk' = OnDisk
    PROVE  View' = View
  BY DEF View

\* Every step of the manager is a step of the store or a stutter.
LEMMA NextImplementsStore ==
    ASSUME NormalUse, RefinementInvariant, [Next]_vars
    PROVE  [Store!Next]_<<OnDisk, View>>
<1> DEFINE Stutters == OnDisk' = OnDisk /\ View' = View
<1> USE DEF RefinementInvariant
<1>0. Parsed(target) \in Maps /\ mem \in Maps
  BY FixedValues DEF TypeOK
<1>1. CASE Launch
  <2>1. Stutters
    BY <1>1, NothingToSee DEF Launch, OnDisk, volatile, files
  <2> QED
    BY <2>1
<1>2. CASE ResetOpen
  <2>1. Overlaid(Parsed(target), mem) = Parsed(target)
    BY <1>0, <1>2, OverlaidByNothing DEF ResetOpen, SaveInvariant, Booting
  <2>2. Stutters
    BY <1>2, <2>1, NothingToSee DEF ResetOpen, OnDisk, NormalUse
  <2> QED
    BY <2>2
<1>3. CASE ResetWrite
  <2>1. Parsed(Json(buf)) = buf
    BY FixedValues DEF TypeOK
  <2>2. Stutters
    BY <1>3, <2>1, NothingToSee DEF ResetWrite, OnDisk, NormalUse
  <2> QED
    BY <2>2
<1>4. CASE RemoveBackup \/ CopyBackup
  <2>1. Stutters
    BY <1>4, NothingToSee
       DEF RemoveBackup, CopyBackup, GoOn, OnDisk, NormalUse
  <2> QED
    BY <2>1
<1>5. CASE OpenTemp \/ WriteTemp
  <2>1. Stutters
    BY <1>5, NothingToSee DEF OpenTemp, WriteTemp, GoOn, OnDisk, NormalUse
  <2> QED
    BY <2>1
<1>6. CASE RemoveTarget
  <2>1. OnDisk' = mem /\ mem' = mem
    BY <1>0, <1>6, FixedValues
       DEF RemoveTarget, GoOn, OnDisk, SaveInvariant, NewCopyWhole, NormalUse
  <2>2. View = mem /\ View' = mem
    BY <1>6, <2>1 DEF View, RemoveTarget, SaveInvariant, Saving
  <2>3. Store!Save
    BY <2>1, <2>2 DEF Store!Save
  <2> QED
    BY <2>3 DEF Store!Next
<1>7. CASE RenameTemp
  <2>1. target' = temp /\ Return(FALSE)
    BY <1>7 DEF RenameTemp, CanRename, NormalUse, PendingInvariant
  <2>2. OnDisk = mem
    BY <1>0, <1>7, FixedValues
       DEF RenameTemp, OnDisk, SaveInvariant, NewCopyWhole
  <2>3. OnDisk' = OnDisk
    BY <1>7, <2>1 DEF RenameTemp, OnDisk, Return, Exit
  <2>4. CASE Exit
    BY <2>3, <2>4, ExitForgets DEF Store!Next
  <2>5. CASE mem' = mem
    BY <2>3, <2>5, NothingToSee
  <2> QED
    BY <2>1, <2>4, <2>5 DEF Return
<1>8. CASE TimerFires
  <2>1. Stutters
    BY <1>8, NothingToSee DEF TimerFires, OnDisk, files
  <2> QED
    BY <2>1
<1>9. CASE CloseWindow
  <2>1. OnDisk' = OnDisk
    BY <1>9 DEF CloseWindow, Exit, OnDisk, files
  <2>2. CASE Exit
    BY <2>1, <2>2, ExitForgets DEF Store!Next
  <2>3. CASE mem' = mem
    BY <2>1, <2>3, NothingToSee
  <2> QED
    BY <1>9, <2>2, <2>3 DEF CloseWindow
<1>10. CASE Crash
  <2>1. phase \notin {"resetting", "renaming"}
    BY <1>10 DEF Crash, NormalUse
  <2>2. OnDisk' = OnDisk
    BY <1>10, <2>1 DEF Crash, Exit, OnDisk, files
  <2> QED
    BY <1>10, <2>2, ExitForgets DEF Crash, Store!Next
<1>11. ASSUME phase = "idle", UNCHANGED <<phase, files>>
       PROVE  /\ OnDisk' = OnDisk
              /\ LoadOutcomes = {View} \/ ~NormalUse
              /\ mem' = EmptyMap => View' = OnDisk
  BY <1>11 DEF OnDisk, View, LoadOutcomes, NormalUse, files
<1>12. ASSUME NEW k \in Keys, NEW v \in Values, SetSetting(k, v)
       PROVE  [Store!Next]_<<OnDisk, View>>
  <2>1. UNCHANGED <<phase, files>> /\ phase = "idle"
    BY <1>12 DEF SetSetting
  <2>2. CASE mem' = View
    <3>1. View' = View
      BY <1>11, <2>1, <2>2 DEF View
    <3> QED
      BY <1>11, <2>1, <3>1
  <2>3. CASE mem' = [View EXCEPT ![k] = v]
    <3>1. mem' # EmptyMap
      <4>1. View \in Maps
        BY <1>0, <2>1 DEF View, OnDisk
      <4>2. mem'[k] = v
        BY <2>3, <4>1 DEF Maps
      <4> QED
        BY <4>2, NoValueAssumption DEF EmptyMap
    <3>2. View' = [View EXCEPT ![k] = v]
      BY <2>3, <3>1 DEF View
    <3>3. Store!Change(k, v)
      BY <1>11, <2>1, <3>2 DEF Store!Change
    <3> QED
      BY <3>3 DEF Store!Next
  <2> QED
    BY <1>11, <1>12, <2>1, <2>2, <2>3 DEF SetSetting
<1>13. ASSUME NEW k \in Keys, GetSetting(k)
       PROVE  [Store!Next]_<<OnDisk, View>>
  <2>1. UNCHANGED <<phase, files>> /\ phase = "idle"
    BY <1>13 DEF GetSetting
  <2>2. mem' = View
    BY <1>11, <1>13, <2>1 DEF GetSetting
  <2>3. View' = View
    BY <1>11, <2>1, <2>2 DEF View
  <2> QED
    BY <1>11, <2>1, <2>3
<1>14. ASSUME NEW k \in Keys, RemoveOneSetting(k)
       PROVE  [Store!Next]_<<OnDisk, View>>
  <2>1. UNCHANGED <<phase, files>> /\ phase = "idle" /\ mem' # EmptyMap
    BY <1>14 DEF RemoveOneSetting, NormalUse
  <2>2. mem' = [View EXCEPT ![k] = NoValue]
    BY <1>11, <1>14, <2>1 DEF RemoveOneSetting
  <2>3. View' = mem'
    BY <2>1 DEF View
  <2>4. Store!Change(k, NoValue)
    BY <1>11, <2>1, <2>2, <2>3 DEF Store!Change
  <2> QED
    BY <2>4 DEF Store!Next
<1>15. CASE UNCHANGED vars
  <2>1. Stutters
    BY <1>15, NothingToSee DEF vars, volatile, files, OnDisk
  <2> QED
    BY <2>1
<1> QED
  BY <1>1, <1>2, <1>3, <1>4, <1>5, <1>6, <1>7, <1>8, <1>9, <1>10, <1>12,
     <1>13, <1>14, <1>15
     DEF Next, ProcessStep, SaveStep, UserStep, Recover, NormalUse,
         SetMultipleSettings, LoadSettings

\* In normal use the settings manager implements the store: a change is
\* seen at once, a save stores exactly what is seen, and a killed process
\* costs no more than the changes since the last save.
THEOREM SettingsImplementStore ==
    ASSUME NormalUse
    PROVE  Spec => ImplementsStore
<1>1. Init => RefinementInvariant
  BY InitTypeOK, InitSaveInvariant, InitPendingInvariant
     DEF RefinementInvariant, Init
<1>2. RefinementInvariant /\ [Next]_vars => RefinementInvariant'
  BY NextRefinementInvariant
<1>3. RefinementInvariant /\ [Next]_vars => [Store!Next]_<<OnDisk, View>>
  BY NextImplementsStore
<1>4. Init => Store!Init
  BY InitImplementsStore
<1> QED
  BY <1>1, <1>2, <1>3, <1>4, PTL DEF Spec, ImplementsStore, Store!Spec

-----------------------------------------------------------------------------
(* What the tables of the panels have in common                             *)

Framework == {"title_", "send_type_", "display_type_"}

\* What is not lost is read under the key it was written under.
Kept ==
    /\ \A f \in Field \ Lost :
           /\ f \in DOMAIN panel.source /\ panel.source[f] = f
           /\ panel.fields[f] \notin {"bare", "number", "retain"}
    /\ \A f \in DOMAIN panel.source : panel.source[f] \in {"", f}
    /\ "" \notin Field

\* Every other change is noticed.
Noticed == \A f \in Field \ (Unnoticed \union Lost) : Marks(f) \/ f \in Framework

\* The fields the properties and the steps name.
Named ==
    /\ "title_" \in Field
    /\ "send_type_" \in Field <=> Sheeted(form_kind)
    /\ "display_type_" \in Field <=> Sheeted(form_kind)
    /\ Sheeted(form_kind) => panel.fields["display_type_"] = "list"
    /\ "auto_refresh_" \in Field => form_kind = "Modbus"
    /\ form_kind = "Modbus" => {"auto_refresh_", "refresh_interval_"} \subseteq Field
    /\ form_kind = "Serial" =>
           "serial_port_" \in Field /\ panel.fields["serial_port_"] = "port"

\* What the window hears of.
HeardFields ==
    /\ Heard \subseteq Field
    /\ Heard \intersect (Framework \union {"serial_port_"}) = {}
    /\ \A f \in Heard : panel.fields[f] # "port"
    /\ "heartbeat_interval_" \in Heard => panel.fields["heartbeat_interval_"] = "line"

\* What a link uses is locked.
InUse ==
    form_kind # "Mqtt" =>
        /\ panel.configuration \subseteq Field
        /\ panel.configuration \ Loose \subseteq panel.locked
        /\ panel.configuration \intersect (Framework \union {"refresh_interval_"}) = {}

PanelSound == Kept /\ Noticed /\ Named /\ HeardFields /\ InUse

\* The field a field is read from, where no two keys are the same.
LEMMA SourcesAre ==
    ASSUME NEW written, NEW read, NEW f \in DOMAIN read,
           \A g \in DOMAIN written : written[g] = read[f] => g = f
    PROVE  /\ f \in DOMAIN Sources(written, read)
           /\ Sources(written, read)[f] \in {"", f}
           /\ f \in DOMAIN written /\ written[f] = read[f] => Sources(written, read)[f] = f
<1> DEFINE S == {g \in DOMAIN written : written[g] = read[f]}
<1>1. Sources(written, read)[f] = IF S = {} THEN "" ELSE CHOOSE g \in S : TRUE
  BY DEF Sources
<1>2. f \in DOMAIN Sources(written, read)
  BY DEF Sources
<1>3. S \subseteq {f}
  OBVIOUS
<1>4. S # {} => (CHOOSE g \in S : TRUE) = f
  BY <1>3
<1>5. f \in DOMAIN written /\ written[f] = read[f] => f \in S
  OBVIOUS
<1> HIDE DEF S
<1> QED
  BY <1>1, <1>2, <1>4, <1>5


\* What joined tables hold, but for some fields.
LEMMA Gathered ==
    ASSUME NEW fields, NEW more, NEW but, NEW S,
           \A x \in DOMAIN fields \ but : fields[x] \in S,
           \A x \in DOMAIN more \ but : more[x] \in S
    PROVE  \A x \in DOMAIN (fields ++ more) \ but : (fields ++ more)[x] \in S
  BY DEF ++



\* The table of the serial panel.
LEMMA SerialSound ==
    ASSUME form_kind = "Serial"
    PROVE  PanelSound
<1> DEFINE fields == SerialFields ++ Sheet ++ Title
           written == SerialWritten ++ SheetKeys
           read == SerialRead ++ SheetKeys
<1>1. /\ panel.fields = fields /\ panel.watched = SerialWatched /\ panel.locked = SerialLocked
      /\ panel.configuration = SerialConfiguration
      /\ panel.source = [title_ |-> "title_"] ++ Sources(written, read)
  BY DEF panel, Panels, Framed, Panel
<1>2. \A f \in DOMAIN read, g \in DOMAIN written : written[g] = read[f] => g = f
  BY DEF ++, FramingKeys, HeartbeatKeys, SerialWritten, SerialRead, SheetKeys
<1>3. /\ DOMAIN panel.source = {"title_"} \union DOMAIN read
      /\ \A f \in DOMAIN panel.source : panel.source[f] \in {"", f}
      /\ \A f \in DOMAIN read : f \in DOMAIN written /\ written[f] = read[f] => panel.source[f] = f
      /\ panel.source["title_"] = "title_"
  <2>1. DOMAIN Sources(written, read) = DOMAIN read
    BY DEF Sources
  <2>2. /\ \A f \in DOMAIN read : Sources(written, read)[f] \in {"", f}
        /\ \A f \in DOMAIN read :
               f \in DOMAIN written /\ written[f] = read[f] => Sources(written, read)[f] = f
    BY <1>2, SourcesAre
  <2>3. "title_" \notin DOMAIN read
    BY DEF ++, FramingKeys, HeartbeatKeys, SerialWritten, SerialRead, SheetKeys
  <2> HIDE DEF written, read
  <2> QED
    BY <1>1, <2>1, <2>2, <2>3 DEF ++
<1>4. Kept
  <2>1. \A f \in Field \ (Lost \union {"title_"}) :
          f \in DOMAIN read /\ f \in DOMAIN written /\ written[f] = read[f]
    BY <1>1 DEF ++, Field, Lost, Framing, Heartbeat, Sending, SerialPort, Lines, Lists,
       SerialFields, Sheet, Title, FramingKeys, HeartbeatKeys, SerialWritten, SerialRead,
       SheetKeys
  <2>2. \A f \in Field \ Lost : panel.fields[f] \notin {"bare", "number", "retain"}
    <3> DEFINE Sound(table) ==
                   \A f \in DOMAIN table \ {"framing_model_"} :
                       table[f] \in {"list", "line", "port"}
    <3>1. /\ Sound(Framing)
          /\ Sound(Sending)
          /\ Sound(Heartbeat)
          /\ Sound(SerialPort)
          /\ Sound(Sheet)
          /\ Sound(Title)
          /\ Sound([protocol_engine_ |-> "list", serial_port_ |-> "port", line_break_ |-> "list"])
      BY DEF Framing, Sending, Heartbeat, SerialPort, Sheet, Title, Lines, Lists
    <3>4. ASSUME NEW f, NEW g, Sound(f), Sound(g)
          PROVE  Sound(f ++ g)
      BY <3>4, Gathered
    <3> HIDE DEF Sound
    <3>2. Sound(fields)
      BY <3>1, <3>4 DEF SerialFields
    <3>3. "framing_model_" \in Lost
      BY DEF Lost
    <3> HIDE DEF fields
    <3> QED
      BY <1>1, <3>2, <3>3 DEF Field, Sound
  <2>3. "" \notin Field
    BY <1>1 DEF ++, Field, Framing, Sending, Heartbeat, SerialPort, Lines, Lists, SerialFields,
       Sheet, Title
  <2> HIDE DEF fields, written, read
  <2> QED
    BY <1>3, <2>1, <2>2, <2>3 DEF Kept
<1>5. Noticed
  BY <1>1 DEF Noticed, ++, Field, Lost, Unnoticed, Marks, Framework, SerialWatched, Lists,
     Sheet, Title
<1>6. Named
  <2>1. Field = DOMAIN SerialFields \union Framework
    BY <1>1 DEF ++, Field, Sheet, Lists, Title, Framework
  <2>2. "serial_port_" \in DOMAIN SerialFields /\ "auto_refresh_" \notin DOMAIN SerialFields
    BY DEF ++, Framing, Sending, Heartbeat, SerialPort, Lines, Lists, SerialFields
  <2>3. SerialFields["serial_port_"] = "port"
    BY DEF ++, Framing, Sending, Heartbeat, SerialPort, Lines, Lists, SerialFields
  <2>4. "display_type_" \notin DOMAIN SerialFields
    BY DEF ++, Framing, Sending, Heartbeat, SerialPort, Lines, Lists, SerialFields
  <2>5. /\ panel.fields["serial_port_"] = "port"
        /\ panel.fields["display_type_"] = "list"
    BY <1>1, <2>2, <2>3, <2>4 DEF ++, Sheet, Lists
  <2> QED
    BY <2>1, <2>2, <2>5 DEF Named, Sheeted, Framework
<1>7. HeardFields
  <2>1. Heard = {"send_package_interval_", "send_package_max_size_", "heartbeat_send_type_",
                 "heartbeat_interval_", "heartbeat_content_", "protocol_engine_"}
    BY DEF Heard, HeardBy, Sent
  <2>2. "send_package_interval_" \in Field /\ panel.fields["send_package_interval_"] = "line"
    BY <1>1 DEF ++, Field, Framing, Sending, Heartbeat, SerialPort, Lines, Lists, SerialFields,
       Sheet, Title
  <2>3. "send_package_max_size_" \in Field /\ panel.fields["send_package_max_size_"] = "line"
    BY <1>1 DEF ++, Field, Framing, Sending, Heartbeat, SerialPort, Lines, Lists, SerialFields,
       Sheet, Title
  <2>4. "heartbeat_send_type_" \in Field /\ panel.fields["heartbeat_send_type_"] = "list"
    BY <1>1 DEF ++, Field, Framing, Sending, Heartbeat, SerialPort, Lines, Lists, SerialFields,
       Sheet, Title
  <2>5. "heartbeat_interval_" \in Field /\ panel.fields["heartbeat_interval_"] = "line"
    BY <1>1 DEF ++, Field, Framing, Sending, Heartbeat, SerialPort, Lines, Lists, SerialFields,
       Sheet, Title
  <2>6. "heartbeat_content_" \in Field /\ panel.fields["heartbeat_content_"] = "line"
    BY <1>1 DEF ++, Field, Framing, Sending, Heartbeat, SerialPort, Lines, Lists, SerialFields,
       Sheet, Title
  <2>7. "protocol_engine_" \in Field /\ panel.fields["protocol_engine_"] = "list"
    BY <1>1 DEF ++, Field, Framing, Sending, Heartbeat, SerialPort, Lines, Lists, SerialFields,
       Sheet, Title
  <2> QED
    BY <2>1, <2>2, <2>3, <2>4, <2>5, <2>6, <2>7 DEF HeardFields, Framework
<1>8. InUse
  <2>1. panel.configuration \subseteq DOMAIN SerialFields
    BY <1>1 DEF SerialConfiguration, ++, Framing, Sending, Heartbeat, SerialPort, Lines, Lists,
       SerialFields
  <2>2. panel.configuration \subseteq Field
    BY <1>1, <2>1 DEF ++, Field
  <2>3. panel.configuration \ Loose \subseteq panel.locked
    BY <1>1, <2>1 DEF SerialLocked, Loose, SerialConfiguration, SerialPort, Lists
  <2>4. panel.configuration \intersect (Framework \union {"refresh_interval_"}) = {}
    BY <1>1 DEF Framework, SerialConfiguration, SerialPort, Lists
  <2> QED
    BY <2>2, <2>3, <2>4 DEF InUse
<1> QED
  BY <1>4, <1>5, <1>6, <1>7, <1>8 DEF PanelSound

\* Of the TCP client; its interval is read under a key of its own, so from nowhere.
LEMMA TcpClientSound ==
    ASSUME form_kind = "TcpClient"
    PROVE  PanelSound
<1> DEFINE fields == TcpClientFields ++ Sheet ++ Title
           written == TcpClientWritten ++ SheetKeys
           read == TcpClientRead ++ SheetKeys
<1>1. /\ panel.fields = fields /\ panel.watched = TcpClientWatched /\ panel.locked = TcpClientLocked
      /\ panel.configuration = TcpClientConfiguration
      /\ panel.source = [title_ |-> "title_"] ++ Sources(written, read)
  BY DEF panel, Panels, Framed, Panel
<1>2. \A f \in DOMAIN read, g \in DOMAIN written : written[g] = read[f] => g = f
  BY DEF ++, FramingKeys, TcpClientLink, TcpClientWritten, TcpClientRead, SheetKeys
<1>3. /\ DOMAIN panel.source = {"title_"} \union DOMAIN read
      /\ \A f \in DOMAIN panel.source : panel.source[f] \in {"", f}
      /\ \A f \in DOMAIN read : f \in DOMAIN written /\ written[f] = read[f] => panel.source[f] = f
      /\ panel.source["title_"] = "title_"
  <2>1. DOMAIN Sources(written, read) = DOMAIN read
    BY DEF Sources
  <2>2. /\ \A f \in DOMAIN read : Sources(written, read)[f] \in {"", f}
        /\ \A f \in DOMAIN read :
               f \in DOMAIN written /\ written[f] = read[f] => Sources(written, read)[f] = f
    BY <1>2, SourcesAre
  <2>3. "title_" \notin DOMAIN read
    BY DEF ++, FramingKeys, TcpClientLink, TcpClientWritten, TcpClientRead, SheetKeys
  <2> HIDE DEF written, read
  <2> QED
    BY <1>1, <2>1, <2>2, <2>3 DEF ++
<1>4. Kept
  <2>1. \A f \in Field \ (Lost \union {"title_"}) :
          f \in DOMAIN read /\ f \in DOMAIN written /\ written[f] = read[f]
    BY <1>1 DEF ++, Field, Lost, Framing, Heartbeat, Sending, Lines, TcpClientFields, Sheet,
       Lists, Title, FramingKeys, TcpClientLink, TcpClientWritten, TcpClientRead, SheetKeys
  <2>2. \A f \in Field \ Lost : panel.fields[f] \notin {"bare", "number", "retain"}
    <3> DEFINE Sound(table) ==
                   \A f \in DOMAIN table \ {"framing_model_"} :
                       table[f] \in {"list", "line", "port"}
    <3>1. /\ Sound(Framing)
          /\ Sound(Sending)
          /\ Sound(Heartbeat)
          /\ Sound([target_host_ |-> "list"])
          /\ Sound(Lines({"target_port_", "self_host_", "self_port_"}))
          /\ Sound(Sheet)
          /\ Sound(Title)
      BY DEF Framing, Sending, Heartbeat, Sheet, Title, Lines, Lists
    <3>4. ASSUME NEW f, NEW g, Sound(f), Sound(g)
          PROVE  Sound(f ++ g)
      BY <3>4, Gathered
    <3> HIDE DEF Sound
    <3>2. Sound(fields)
      BY <3>1, <3>4 DEF TcpClientFields
    <3>3. "framing_model_" \in Lost
      BY DEF Lost
    <3> HIDE DEF fields
    <3> QED
      BY <1>1, <3>2, <3>3 DEF Field, Sound
  <2>3. "" \notin Field
    BY <1>1 DEF ++, Field, Framing, Sending, Heartbeat, Lines, TcpClientFields, Sheet, Lists,
       Title
  <2> HIDE DEF fields, written, read
  <2> QED
    BY <1>3, <2>1, <2>2, <2>3 DEF Kept
<1>5. Noticed
  BY <1>1 DEF Noticed, ++, Field, Lost, Unnoticed, Marks, Framework, TcpClientWatched, Lists,
     Sheet, Title
<1>6. Named
  BY <1>1 DEF Named, ++, Field, Sheeted, Framing, Sending, Heartbeat, Lines, TcpClientFields,
     Sheet, Lists, Title
<1>7. HeardFields
  <2>1. Heard = {"send_package_interval_", "send_package_max_size_", "heartbeat_send_type_",
                 "heartbeat_interval_", "heartbeat_content_"}
    BY DEF Heard, HeardBy, Sent
  <2>2. "send_package_interval_" \in Field /\ panel.fields["send_package_interval_"] = "line"
    BY <1>1 DEF ++, Field, Framing, Sending, Heartbeat, Lines, TcpClientFields, Sheet, Lists,
       Title
  <2>3. "send_package_max_size_" \in Field /\ panel.fields["send_package_max_size_"] = "line"
    BY <1>1 DEF ++, Field, Framing, Sending, Heartbeat, Lines, TcpClientFields, Sheet, Lists,
       Title
  <2>4. "heartbeat_send_type_" \in Field /\ panel.fields["heartbeat_send_type_"] = "list"
    BY <1>1 DEF ++, Field, Framing, Sending, Heartbeat, Lines, TcpClientFields, Sheet, Lists,
       Title
  <2>5. "heartbeat_interval_" \in Field /\ panel.fields["heartbeat_interval_"] = "line"
    BY <1>1 DEF ++, Field, Framing, Sending, Heartbeat, Lines, TcpClientFields, Sheet, Lists,
       Title
  <2>6. "heartbeat_content_" \in Field /\ panel.fields["heartbeat_content_"] = "line"
    BY <1>1 DEF ++, Field, Framing, Sending, Heartbeat, Lines, TcpClientFields, Sheet, Lists,
       Title
  <2> QED
    BY <2>1, <2>2, <2>3, <2>4, <2>5, <2>6 DEF HeardFields, Framework
<1>8. InUse
  <2>1. panel.configuration \subseteq DOMAIN TcpClientFields
    BY <1>1 DEF TcpClientConfiguration, ++, Framing, Sending, Heartbeat, Lines, TcpClientFields
  <2>2. panel.configuration \subseteq Field
    BY <1>1, <2>1 DEF ++, Field
  <2>3. panel.configuration \ Loose \subseteq panel.locked
    BY <1>1, <2>1 DEF TcpClientLocked, Loose, TcpClientConfiguration
  <2>4. panel.configuration \intersect (Framework \union {"refresh_interval_"}) = {}
    BY <1>1 DEF Framework, TcpClientConfiguration
  <2> QED
    BY <2>2, <2>3, <2>4 DEF InUse
<1> QED
  BY <1>4, <1>5, <1>6, <1>7, <1>8 DEF PanelSound

\* Of the TCP server.
LEMMA TcpServerSound ==
    ASSUME form_kind = "TcpServer"
    PROVE  PanelSound
<1> DEFINE fields == TcpServerFields ++ Sheet ++ Title
           written == TcpServerWritten ++ SheetKeys
           read == TcpServerRead ++ SheetKeys
<1>1. /\ panel.fields = fields /\ panel.watched = TcpServerWatched /\ panel.locked = TcpServerLocked
      /\ panel.configuration = TcpServerConfiguration
      /\ panel.source = [title_ |-> "title_"] ++ Sources(written, read)
  BY DEF panel, Panels, Framed, Panel
<1>2. \A f \in DOMAIN read, g \in DOMAIN written : written[g] = read[f] => g = f
  BY DEF ++, FramingKeys, TcpServerWritten, TcpServerRead, SheetKeys
<1>3. /\ DOMAIN panel.source = {"title_"} \union DOMAIN read
      /\ \A f \in DOMAIN panel.source : panel.source[f] \in {"", f}
      /\ \A f \in DOMAIN read : f \in DOMAIN written /\ written[f] = read[f] => panel.source[f] = f
      /\ panel.source["title_"] = "title_"
  <2>1. DOMAIN Sources(written, read) = DOMAIN read
    BY DEF Sources
  <2>2. /\ \A f \in DOMAIN read : Sources(written, read)[f] \in {"", f}
        /\ \A f \in DOMAIN read :
               f \in DOMAIN written /\ written[f] = read[f] => Sources(written, read)[f] = f
    BY <1>2, SourcesAre
  <2>3. "title_" \notin DOMAIN read
    BY DEF ++, FramingKeys, TcpServerWritten, TcpServerRead, SheetKeys
  <2> HIDE DEF written, read
  <2> QED
    BY <1>1, <2>1, <2>2, <2>3 DEF ++
<1>4. Kept
  <2>1. \A f \in Field \ (Lost \union {"title_"}) :
          f \in DOMAIN read /\ f \in DOMAIN written /\ written[f] = read[f]
    BY <1>1 DEF ++, Field, Lost, Framing, Heartbeat, TcpServerFields, Sheet, Lists, Title,
       FramingKeys, TcpServerWritten, TcpServerRead, SheetKeys
  <2>2. \A f \in Field \ Lost : panel.fields[f] \notin {"bare", "number", "retain"}
    BY <1>1 DEF ++, Field, Lost, Framing, TcpServerFields, Sheet, Lists, Title
  <2>3. "" \notin Field
    BY <1>1 DEF ++, Field, Framing, TcpServerFields, Sheet, Lists, Title
  <2> HIDE DEF fields, written, read
  <2> QED
    BY <1>3, <2>1, <2>2, <2>3 DEF Kept
<1>5. Noticed
  BY <1>1 DEF Noticed, ++, Field, Lost, Unnoticed, Marks, Framework, TcpServerWatched, Lists,
     Sheet, Title
<1>6. Named
  BY <1>1 DEF Named, ++, Field, Sheeted, Framing, TcpServerFields, Sheet, Lists, Title
<1>7. HeardFields
  BY <1>1 DEF HeardFields, Framework, ++, Field, Heard, HeardBy, Sent, Framing, TcpServerFields,
     Sheet, Lists, Title
<1>8. InUse
  <2>1. panel.configuration \subseteq DOMAIN TcpServerFields
    BY <1>1 DEF TcpServerConfiguration, ++, Framing, TcpServerFields
  <2>2. panel.configuration \subseteq Field
    BY <1>1, <2>1 DEF ++, Field
  <2>3. panel.configuration \ Loose \subseteq panel.locked
    BY <1>1, <2>1 DEF TcpServerLocked, Loose, TcpServerConfiguration
  <2>4. panel.configuration \intersect (Framework \union {"refresh_interval_"}) = {}
    BY <1>1 DEF Framework, TcpServerConfiguration
  <2> QED
    BY <2>2, <2>3, <2>4 DEF InUse
<1> QED
  BY <1>4, <1>5, <1>6, <1>7, <1>8 DEF PanelSound

\* Of the UDP client.
LEMMA UdpClientSound ==
    ASSUME form_kind = "UdpClient"
    PROVE  PanelSound
<1> DEFINE fields == UdpClientFields ++ Sheet ++ Title
           written == UdpClientWritten ++ SheetKeys
           read == UdpClientRead ++ SheetKeys
<1>1. /\ panel.fields = fields /\ panel.watched = UdpClientWatched /\ panel.locked = UdpClientLocked
      /\ panel.configuration = UdpClientConfiguration
      /\ panel.source = [title_ |-> "title_"] ++ Sources(written, read)
  BY DEF panel, Panels, Framed, Panel
<1>2. \A f \in DOMAIN read, g \in DOMAIN written : written[g] = read[f] => g = f
  BY DEF ++, FramingKeys, HeartbeatKeys, UdpClientWritten, UdpClientRead, SheetKeys
<1>3. /\ DOMAIN panel.source = {"title_"} \union DOMAIN read
      /\ \A f \in DOMAIN panel.source : panel.source[f] \in {"", f}
      /\ \A f \in DOMAIN read : f \in DOMAIN written /\ written[f] = read[f] => panel.source[f] = f
      /\ panel.source["title_"] = "title_"
  <2>1. DOMAIN Sources(written, read) = DOMAIN read
    BY DEF Sources
  <2>2. /\ \A f \in DOMAIN read : Sources(written, read)[f] \in {"", f}
        /\ \A f \in DOMAIN read :
               f \in DOMAIN written /\ written[f] = read[f] => Sources(written, read)[f] = f
    BY <1>2, SourcesAre
  <2>3. "title_" \notin DOMAIN read
    BY DEF ++, FramingKeys, HeartbeatKeys, UdpClientWritten, UdpClientRead, SheetKeys
  <2> HIDE DEF written, read
  <2> QED
    BY <1>1, <2>1, <2>2, <2>3 DEF ++
<1>4. Kept
  <2>1. \A f \in Field \ (Lost \union {"title_"}) :
          f \in DOMAIN read /\ f \in DOMAIN written /\ written[f] = read[f]
    BY <1>1 DEF ++, Field, Lost, Framing, Heartbeat, Sending, Lines, UdpClientFields, Sheet,
       Lists, Title, FramingKeys, HeartbeatKeys, UdpClientWritten, UdpClientRead, SheetKeys
  <2>2. \A f \in Field \ Lost : panel.fields[f] \notin {"bare", "number", "retain"}
    <3> DEFINE Sound(table) ==
                   \A f \in DOMAIN table \ {"framing_model_"} :
                       table[f] \in {"list", "line", "port"}
    <3>1. /\ Sound(Framing)
          /\ Sound(Sending)
          /\ Sound(Heartbeat)
          /\ Sound([mode_ |-> "list"])
          /\ Sound(Lines({"target_ip_", "target_port_", "self_ip_", "self_port_"}))
          /\ Sound(Sheet)
          /\ Sound(Title)
      BY DEF Framing, Sending, Heartbeat, Sheet, Title, Lines, Lists
    <3>4. ASSUME NEW f, NEW g, Sound(f), Sound(g)
          PROVE  Sound(f ++ g)
      BY <3>4, Gathered
    <3> HIDE DEF Sound
    <3>2. Sound(fields)
      BY <3>1, <3>4 DEF UdpClientFields
    <3>3. "framing_model_" \in Lost
      BY DEF Lost
    <3> HIDE DEF fields
    <3> QED
      BY <1>1, <3>2, <3>3 DEF Field, Sound
  <2>3. "" \notin Field
    BY <1>1 DEF ++, Field, Framing, Sending, Heartbeat, Lines, UdpClientFields, Sheet, Lists,
       Title
  <2> HIDE DEF fields, written, read
  <2> QED
    BY <1>3, <2>1, <2>2, <2>3 DEF Kept
<1>5. Noticed
  BY <1>1 DEF Noticed, ++, Field, Lost, Unnoticed, Marks, Framework, UdpClientWatched, Lists,
     Sheet, Title
<1>6. Named
  BY <1>1 DEF Named, ++, Field, Sheeted, Framing, Sending, Heartbeat, Lines, UdpClientFields,
     Sheet, Lists, Title
<1>7. HeardFields
  <2>1. Heard = {"send_package_interval_", "send_package_max_size_", "heartbeat_send_type_",
                 "heartbeat_interval_", "heartbeat_content_"}
    BY DEF Heard, HeardBy, Sent
  <2>2. "send_package_interval_" \in Field /\ panel.fields["send_package_interval_"] = "line"
    BY <1>1 DEF ++, Field, Framing, Sending, Heartbeat, Lines, UdpClientFields, Sheet, Lists,
       Title
  <2>3. "send_package_max_size_" \in Field /\ panel.fields["send_package_max_size_"] = "line"
    BY <1>1 DEF ++, Field, Framing, Sending, Heartbeat, Lines, UdpClientFields, Sheet, Lists,
       Title
  <2>4. "heartbeat_send_type_" \in Field /\ panel.fields["heartbeat_send_type_"] = "list"
    BY <1>1 DEF ++, Field, Framing, Sending, Heartbeat, Lines, UdpClientFields, Sheet, Lists,
       Title
  <2>5. "heartbeat_interval_" \in Field /\ panel.fields["heartbeat_interval_"] = "line"
    BY <1>1 DEF ++, Field, Framing, Sending, Heartbeat, Lines, UdpClientFields, Sheet, Lists,
       Title
  <2>6. "heartbeat_content_" \in Field /\ panel.fields["heartbeat_content_"] = "line"
    BY <1>1 DEF ++, Field, Framing, Sending, Heartbeat, Lines, UdpClientFields, Sheet, Lists,
       Title
  <2> QED
    BY <2>1, <2>2, <2>3, <2>4, <2>5, <2>6 DEF HeardFields, Framework
<1>8. InUse
  <2>1. panel.configuration \subseteq DOMAIN UdpClientFields
    BY <1>1 DEF UdpClientConfiguration, ++, Framing, Sending, Heartbeat, Lines, UdpClientFields
  <2>2. panel.configuration \subseteq Field
    BY <1>1, <2>1 DEF ++, Field
  <2>3. panel.configuration \ Loose \subseteq panel.locked
    BY <1>1, <2>1 DEF UdpClientLocked, Loose, UdpClientConfiguration
  <2>4. panel.configuration \intersect (Framework \union {"refresh_interval_"}) = {}
    BY <1>1 DEF Framework, UdpClientConfiguration
  <2> QED
    BY <2>2, <2>3, <2>4 DEF InUse
<1> QED
  BY <1>4, <1>5, <1>6, <1>7, <1>8 DEF PanelSound

\* Of the UDP server, whose framing is not written.
LEMMA UdpServerSound ==
    ASSUME form_kind = "UdpServer"
    PROVE  PanelSound
<1> DEFINE fields == UdpServerFields ++ Sheet ++ Title
           written == UdpServerWritten ++ SheetKeys
           read == UdpServerRead ++ SheetKeys
<1>1. /\ panel.fields = fields /\ panel.watched = UdpServerWatched /\ panel.locked = UdpServerLocked
      /\ panel.configuration = UdpServerConfiguration
      /\ panel.source = [title_ |-> "title_"] ++ Sources(written, read)
  BY DEF panel, Panels, Framed, Panel
<1>2. \A f \in DOMAIN read, g \in DOMAIN written : written[g] = read[f] => g = f
  BY DEF ++, FramingKeys, UdpServerWritten, UdpServerRead, SheetKeys
<1>3. /\ DOMAIN panel.source = {"title_"} \union DOMAIN read
      /\ \A f \in DOMAIN panel.source : panel.source[f] \in {"", f}
      /\ \A f \in DOMAIN read : f \in DOMAIN written /\ written[f] = read[f] => panel.source[f] = f
      /\ panel.source["title_"] = "title_"
  <2>1. DOMAIN Sources(written, read) = DOMAIN read
    BY DEF Sources
  <2>2. /\ \A f \in DOMAIN read : Sources(written, read)[f] \in {"", f}
        /\ \A f \in DOMAIN read :
               f \in DOMAIN written /\ written[f] = read[f] => Sources(written, read)[f] = f
    BY <1>2, SourcesAre
  <2>3. "title_" \notin DOMAIN read
    BY DEF ++, FramingKeys, UdpServerWritten, UdpServerRead, SheetKeys
  <2> HIDE DEF written, read
  <2> QED
    BY <1>1, <2>1, <2>2, <2>3 DEF ++
<1>4. Kept
  <2>1. \A f \in Field \ (Lost \union {"title_"}) :
          f \in DOMAIN read /\ f \in DOMAIN written /\ written[f] = read[f]
    BY <1>1 DEF ++, Field, Lost, Framing, Heartbeat, Lines, UdpServerFields, Sheet, Lists,
       Title, FramingKeys, UdpServerWritten, UdpServerRead, SheetKeys
  <2>2. \A f \in Field \ Lost : panel.fields[f] \notin {"bare", "number", "retain"}
    BY <1>1 DEF ++, Field, Lost, Framing, Lines, UdpServerFields, Sheet, Lists, Title
  <2>3. "" \notin Field
    BY <1>1 DEF ++, Field, Framing, Lines, UdpServerFields, Sheet, Lists, Title
  <2> HIDE DEF fields, written, read
  <2> QED
    BY <1>3, <2>1, <2>2, <2>3 DEF Kept
<1>5. Noticed
  BY <1>1 DEF Noticed, ++, Field, Lost, Unnoticed, Marks, Framework, UdpServerWatched, Lists,
     Sheet, Title
<1>6. Named
  BY <1>1 DEF Named, ++, Field, Sheeted, Framing, Lines, UdpServerFields, Sheet, Lists, Title
<1>7. HeardFields
  BY <1>1 DEF HeardFields, Framework, ++, Field, Heard, HeardBy, Sent, Framing, Lines,
     UdpServerFields, Sheet, Lists, Title
<1>8. InUse
  <2>1. panel.configuration \subseteq DOMAIN UdpServerFields
    BY <1>1 DEF UdpServerConfiguration, ++, Framing, Lines, UdpServerFields
  <2>2. panel.configuration \subseteq Field
    BY <1>1, <2>1 DEF ++, Field
  <2>3. panel.configuration \ Loose \subseteq panel.locked
    BY <1>1, <2>1 DEF UdpServerLocked, Loose, UdpServerConfiguration
  <2>4. panel.configuration \intersect (Framework \union {"refresh_interval_"}) = {}
    BY <1>1 DEF Framework, UdpServerConfiguration
  <2> QED
    BY <2>2, <2>3, <2>4 DEF InUse
<1> QED
  BY <1>4, <1>5, <1>6, <1>7, <1>8 DEF PanelSound

\* Of the Modbus master.
LEMMA ModbusSound ==
    ASSUME form_kind = "Modbus"
    PROVE  PanelSound
<1> DEFINE fields == ModbusFields ++ Title
           written == ModbusWritten
           read == ModbusRead
<1>1. /\ panel.fields = fields /\ panel.watched = ModbusWatched /\ panel.locked = ModbusLocked
      /\ panel.configuration = ModbusConfiguration
      /\ panel.source = [title_ |-> "title_"] ++ Sources(written, read)
  BY DEF panel, Panels, Panel
<1>2. \A f \in DOMAIN read, g \in DOMAIN written : written[g] = read[f] => g = f
  BY DEF ++, ModbusWritten, ModbusRead
<1>3. /\ DOMAIN panel.source = {"title_"} \union DOMAIN read
      /\ \A f \in DOMAIN panel.source : panel.source[f] \in {"", f}
      /\ \A f \in DOMAIN read : f \in DOMAIN written /\ written[f] = read[f] => panel.source[f] = f
      /\ panel.source["title_"] = "title_"
  <2>1. DOMAIN Sources(written, read) = DOMAIN read
    BY DEF Sources
  <2>2. /\ \A f \in DOMAIN read : Sources(written, read)[f] \in {"", f}
        /\ \A f \in DOMAIN read :
               f \in DOMAIN written /\ written[f] = read[f] => Sources(written, read)[f] = f
    BY <1>2, SourcesAre
  <2>3. "title_" \notin DOMAIN read
    BY DEF ++, ModbusWritten, ModbusRead
  <2> HIDE DEF written, read
  <2> QED
    BY <1>1, <2>1, <2>2, <2>3 DEF ++
<1>4. Kept
  <2>1. \A f \in Field \ (Lost \union {"title_"}) :
          f \in DOMAIN read /\ f \in DOMAIN written /\ written[f] = read[f]
    BY <1>1 DEF ++, Field, Lost, Framing, Heartbeat, ModbusSerial, Lines, Lists, ModbusFields,
       Title, ModbusWritten, ModbusRead
  <2>2. \A f \in Field \ Lost : panel.fields[f] \notin {"bare", "number", "retain"}
    BY <1>1 DEF ++, Field, Lost, ModbusSerial, Lines, Lists, ModbusFields, Title
  <2>3. "" \notin Field
    BY <1>1 DEF ++, Field, ModbusSerial, Lines, Lists, ModbusFields, Title
  <2> HIDE DEF fields, written, read
  <2> QED
    BY <1>3, <2>1, <2>2, <2>3 DEF Kept
<1>5. Noticed
  BY <1>1 DEF Noticed, ++, Field, Lost, Unnoticed, Marks, Framework, ModbusWatched, Lists, Title
<1>6. Named
  BY <1>1 DEF Named, ++, Field, Sheeted, ModbusSerial, Lines, Lists, ModbusFields, Title
<1>7. HeardFields
  BY <1>1 DEF HeardFields, Framework, ++, Field, Heard, HeardBy, Sent, ModbusSerial, Lines,
     Lists, ModbusFields, Title
<1>8. InUse
  <2>1. panel.configuration \subseteq DOMAIN ModbusFields
    BY <1>1 DEF ModbusConfiguration, ++, ModbusSerial, Lines, Lists, ModbusFields
  <2>2. panel.configuration \subseteq Field
    BY <1>1, <2>1 DEF ++, Field
  <2>3. panel.configuration \ Loose \subseteq panel.locked
    BY <1>1, <2>1 DEF ModbusLocked, Loose, ModbusConfiguration, ModbusSerial, Lists, ++
  <2>4. panel.configuration \intersect (Framework \union {"refresh_interval_"}) = {}
    BY <1>1 DEF Framework, ModbusConfiguration, ModbusSerial, Lists, ++
  <2> QED
    BY <2>2, <2>3, <2>4 DEF InUse
<1> QED
  BY <1>4, <1>5, <1>6, <1>7, <1>8 DEF PanelSound

\* Of the MQTT client.
LEMMA MqttSound ==
    ASSUME form_kind = "Mqtt"
    PROVE  PanelSound
<1> DEFINE fields == MqttFields ++ Title
           written == MqttWritten
           read == MqttRead
<1>1. /\ panel.fields = fields /\ panel.watched = MqttWatched /\ panel.locked = MqttLocked
      /\ panel.configuration = MqttConfiguration
      /\ panel.source = [title_ |-> "title_"] ++ Sources(written, read)
  BY DEF panel, Panels, Panel
<1>2. \A f \in DOMAIN read, g \in DOMAIN written : written[g] = read[f] => g = f
  BY DEF ++, MqttWritten, MqttRead
<1>3. /\ DOMAIN panel.source = {"title_"} \union DOMAIN read
      /\ \A f \in DOMAIN panel.source : panel.source[f] \in {"", f}
      /\ \A f \in DOMAIN read : f \in DOMAIN written /\ written[f] = read[f] => panel.source[f] = f
      /\ panel.source["title_"] = "title_"
  <2>1. DOMAIN Sources(written, read) = DOMAIN read
    BY DEF Sources
  <2>2. /\ \A f \in DOMAIN read : Sources(written, read)[f] \in {"", f}
        /\ \A f \in DOMAIN read :
               f \in DOMAIN written /\ written[f] = read[f] => Sources(written, read)[f] = f
    BY <1>2, SourcesAre
  <2>3. "title_" \notin DOMAIN read
    BY DEF ++, MqttWritten, MqttRead
  <2> HIDE DEF written, read
  <2> QED
    BY <1>1, <2>1, <2>2, <2>3 DEF ++
<1>4. Kept
  <2>1. \A f \in Field \ (Lost \union {"title_"}) :
          f \in DOMAIN read /\ f \in DOMAIN written /\ written[f] = read[f]
    BY <1>1 DEF ++, Field, Lost, Framing, Heartbeat, MqttLines, Lines, MqttFields, Title,
       MqttWritten, MqttRead
  <2>2. \A f \in Field \ Lost : panel.fields[f] \notin {"bare", "number", "retain"}
    BY <1>1 DEF ++, Field, Lost, MqttLines, Lines, MqttFields, Title
  <2>3. "" \notin Field
    BY <1>1 DEF ++, Field, MqttLines, Lines, MqttFields, Title
  <2> HIDE DEF fields, written, read
  <2> QED
    BY <1>3, <2>1, <2>2, <2>3 DEF Kept
<1>5. Noticed
  BY <1>1 DEF Noticed, ++, Field, Lost, Unnoticed, Marks, Framework, MqttWatched, Lists, Title
<1>6. Named
  BY <1>1 DEF Named, ++, Field, Sheeted, MqttLines, Lines, MqttFields, Title
<1>7. HeardFields
  BY <1>1 DEF HeardFields, Framework, ++, Field, Heard, HeardBy, Sent, MqttLines, Lines,
     MqttFields, Title
<1>8. InUse
  BY DEF InUse
<1> QED
  BY <1>4, <1>5, <1>6, <1>7, <1>8 DEF PanelSound

\* Of any window.
LEMMA PanelIsSound ==
    ASSUME form_kind \in Kinds
    PROVE  PanelSound
<1>1. form_kind \in {"Serial", "TcpClient", "TcpServer", "UdpClient", "UdpServer", "Modbus", "Mqtt"}
  BY FormsAssumption DEF Panels
<1> QED
  BY <1>1, SerialSound, TcpClientSound, TcpServerSound, UdpClientSound, UdpServerSound,
     ModbusSound, MqttSound

-----------------------------------------------------------------------------
(* The invariant of the forms                                               *)

\* FormTypes, one by one.
FormFlags ==
    /\ form_kind \in Kinds /\ DOMAIN form = Field /\ DOMAIN stored = Field
    /\ recorded \in BOOLEAN /\ saved_ \in BOOLEAN /\ opened_ \in BOOLEAN /\ locked \in BOOLEAN
    /\ refreshing \in BOOLEAN /\ silent \in BOOLEAN
    /\ saveColor \in {"blue", "red"} /\ pressed \subseteq {TEXT, HEX}
    /\ checked_widget_ \in {TEXT, HEX} /\ listed \subseteq Ports
    /\ DOMAIN parameters = Heard /\ beat \in Nat /\ edits \in 0..MaxEdits

\* The types of a run are those of the proof.
LEMMA FlagsAreTypes == FormTypes <=> FormFlags
  BY DEF FormTypes, FormFlags

\* Fields hold numbers, those for data one of the two formats.
FormValues ==
    /\ \A f \in Field : panel.fields[f] # "port" => form[f] \in Nat /\ stored[f] \in Nat
    /\ Sheeted(form_kind) => {form["display_type_"], stored["display_type_"]} \subseteq {TEXT, HEX}

\* The button that is down is the one that was clicked last.
DisplayShown ==
    Sheeted(form_kind) /\ "display_type_" \notin touched =>
        pressed = {form["display_type_"]} /\ checked_widget_ = form["display_type_"]

\* An interval nobody heard of is garbage, and the timer was never set.
BeatUnheard ==
    /\ touched \subseteq Heard \union {"display_type_"}
    /\ "heartbeat_interval_" \in Heard \ touched =>
           parameters["heartbeat_interval_"] \in {0, Garbage} /\ beat = 0

\* Who locks and who refreshes.
LinkInUse ==
    /\ opened_ /\ form_kind \notin {"Mqtt", "Modbus"} => locked
    /\ refreshing => form_kind = "Modbus"

\* The colour of the button that saves.
ColourTold ==
    /\ saveColor = "red" => ~saved_
    /\ saveColor = "blue" /\ ~saved_ => silent

FormInvariant ==
    /\ FormFlags /\ FormValues /\ DisplayShown /\ BeatUnheard /\ LinkInUse
    /\ SavedIsOnScreen /\ ColourTold /\ ParametersAsShown

\* The button after a change.
LEMMA ChangeIsTold ==
    ASSUME FormFlags, ColourTold, setSaveStatus(FALSE)
    PROVE  /\ saved_' = FALSE /\ saveColor' \in {"blue", "red"} /\ silent' \in BOOLEAN
           /\ saveColor' = "blue" => silent'
<1>1. saved_' = FALSE
  BY DEF setSaveStatus
<1>2. saveColor' = IF ~saved_ THEN saveColor ELSE "red"
  BY DEF setSaveStatus, FormFlags
<1>3. silent' = silent
  BY DEF setSaveStatus, FormFlags
<1> QED
  BY <1>1, <1>2, <1>3 DEF FormFlags, ColourTold

\* What does not change with the values of the fields.
LEMMA SameKind ==
    ASSUME form_kind' = form_kind
    PROVE  /\ panel' = panel /\ Field' = Field /\ Heard' = Heard /\ Unnoticed' = Unnoticed
           /\ Lost' = Lost /\ (Sheeted(form_kind)' <=> Sheeted(form_kind))
  BY DEF panel, Field, Heard, Unnoticed, Lost, Sheeted

\* What a new window shows.
LEMMA FreshIs ==
    ASSUME NEW f \in Field, panel.fields[f] # "port", NEW ports
    PROVE  /\ Fresh(f, ports) \in Nat
           /\ \A other : Fresh(f, ports) = Fresh(f, other)
           /\ f = "display_type_" => Fresh(f, ports) = TEXT
           /\ f = "heartbeat_interval_" => Fresh(f, ports) = 0
           /\ f = "auto_refresh_" => Fresh(f, ports) = 0
  BY DEF Fresh, TEXT

\* What is chosen or typed is a number.
LEMMA ChoicesAre ==
    ASSUME NEW f \in Field, panel.fields[f] # "port", NEW v \in Choices(f)
    PROVE  v \in Nat
<1>1. Texts \subseteq Nat
  BY FormsAssumption
<1>2. v \in 0..2 \/ v \in {1, 2} \/ v \in Texts \/ v \in {0, 1}
  BY DEF Choices, TEXT, HEX
<1>3. v \in Texts => v \in Nat
  BY <1>1
<1>4. v \in 0..2 \/ v \in {1, 2} \/ v \in {0, 1} => v \in Nat
  OBVIOUS
<1> QED
  BY <1>2, <1>3, <1>4

\* The interval of the heart beat is not cut.
LEMMA BeatIsPassed == \A v : Passed("heartbeat_interval_", v) = v
  BY DEF Passed, Sending, Lines

\* A step that changes what the form does not show, or a field nobody hears of.
LEMMA FrameworkStep ==
    ASSUME FormInvariant, NEW f \in Field, f \in {"title_", "send_type_", "serial_port_"},
           NEW v, panel.fields[f] = "port" \/ v \in Nat,
           form' = [form EXCEPT ![f] = v], listed' \subseteq Ports, Edit, setSaveStatus(FALSE),
           UNCHANGED <<form_kind, stored, recorded, opened_, locked, parameters, beat,
                       refreshing, pressed, checked_widget_, touched>>
    PROVE  FormInvariant'
<1> USE DEF FormInvariant
<1>0. /\ panel' = panel /\ Field' = Field /\ Heard' = Heard
      /\ Sheeted(form_kind)' <=> Sheeted(form_kind)
  BY SameKind
<1>1. PanelSound
  BY PanelIsSound DEF FormFlags
<1>2. /\ saved_' = FALSE /\ saveColor' \in {"blue", "red"} /\ silent' \in BOOLEAN
      /\ saveColor' = "blue" => silent'
  BY ChangeIsTold
<1>3. /\ DOMAIN form' = Field /\ form'[f] = v
      /\ \A g \in Field : g # f => form'[g] = form[g]
  BY DEF FormFlags
<1>4. edits' \in 0..MaxEdits
  BY FormsAssumption DEF Edit, FormFlags
<1>5. FormFlags'
  BY <1>0, <1>2, <1>3, <1>4 DEF FormFlags
<1>6. Sheeted(form_kind) => form'["display_type_"] = form["display_type_"]
  BY <1>1, <1>3 DEF PanelSound, Named
<1>7. FormValues'
  <2>1. \A g \in Field : panel.fields[g] # "port" => form'[g] \in Nat /\ stored[g] \in Nat
    BY <1>3 DEF FormValues
  <2> QED
    BY <1>0, <1>6, <2>1 DEF FormValues, TEXT, HEX
<1>8. DisplayShown'
  BY <1>0, <1>6 DEF DisplayShown
<1>9. BeatUnheard' /\ LinkInUse'
  BY <1>0 DEF BeatUnheard, LinkInUse, Garbage
<1>10. SavedIsOnScreen' /\ ColourTold'
  BY <1>2 DEF SavedIsOnScreen, ColourTold
<1>11. ParametersAsShown'
  <2>1. \A g \in Heard : g \in Field /\ panel.fields[g] # "port" /\ g # f
    BY <1>1 DEF PanelSound, HeardFields, Framework
  <2>2. \A g \in Heard : form'[g] = form[g] /\ Fresh(g, listed)' = Fresh(g, listed)
    <3> TAKE g \in Heard
    <3>1. Fresh(g, listed') = Fresh(g, listed)
      BY <2>1, FreshIs
    <3>2. Fresh(g, listed)' = Fresh(g, listed')
      BY <1>0, <2>1 DEF Fresh, TEXT
    <3> QED
      BY <1>3, <2>1, <3>1, <3>2
  <2>3. \A g \in Heard : g \in touched => parameters[g] = Passed(g, form'[g])
    BY <2>2 DEF ParametersAsShown
  <2>4. \A g \in Heard \ touched : form'[g] = Fresh(g, listed)'
    BY <2>2 DEF ParametersAsShown
  <2>5. "heartbeat_interval_" \in touched =>
            beat = form'["heartbeat_interval_"]
                \/ (beat = 0 /\ form'["heartbeat_interval_"] = Garbage)
    <3> SUFFICES ASSUME "heartbeat_interval_" \in touched
                 PROVE  form'["heartbeat_interval_"] = form["heartbeat_interval_"]
      BY DEF ParametersAsShown
    <3> QED
      BY <2>2 DEF BeatUnheard
  <2>6. refreshing => opened_ \/ form'["auto_refresh_"] = 1
    <3> SUFFICES ASSUME refreshing PROVE form'["auto_refresh_"] = form["auto_refresh_"]
      BY DEF ParametersAsShown
    <3>1. "auto_refresh_" \in Field
      BY <1>1 DEF PanelSound, Named, LinkInUse
    <3> QED
      BY <1>3, <3>1
  <2> QED
    BY <1>0, <2>3, <2>4, <2>5, <2>6 DEF ParametersAsShown, Garbage, Passed
<1> QED
  BY <1>5, <1>7, <1>8, <1>9, <1>10, <1>11

\* The title.
LEMMA TitleStep ==
    ASSUME FormInvariant, NEW v \in Texts, EditTitle(v)
    PROVE  FormInvariant'
<1>1. "title_" \in Field
  BY PanelIsSound DEF FormInvariant, FormFlags, PanelSound, Named
<1>2. v \in Nat
  BY FormsAssumption
<1>3. form' = [form EXCEPT !["title_"] = v] /\ listed' \subseteq Ports
  BY DEF EditTitle, FormInvariant, FormFlags
<1> QED
  BY <1>1, <1>2, <1>3, FrameworkStep DEF EditTitle

\* The format of what is sent.
LEMMA SendTypeStep ==
    ASSUME FormInvariant, NEW v \in {TEXT, HEX}, ChooseSendType(v)
    PROVE  FormInvariant'
<1>1. "send_type_" \in Field
  BY PanelIsSound DEF FormInvariant, FormFlags, PanelSound, Named, ChooseSendType
<1>2. v \in Nat
  BY DEF TEXT, HEX
<1>3. form' = [form EXCEPT !["send_type_"] = v] /\ listed' \subseteq Ports
  BY DEF ChooseSendType, FormInvariant, FormFlags
<1> QED
  BY <1>1, <1>2, <1>3, FrameworkStep DEF ChooseSendType

\* The list of ports is filled again.
LEMMA RefreshPortsStep ==
    ASSUME FormInvariant, NEW ports \in SUBSET Ports, RefreshPorts(ports)
    PROVE  FormInvariant'
<1>1. "serial_port_" \in Field /\ panel.fields["serial_port_"] = "port"
  BY PanelIsSound DEF FormInvariant, FormFlags, PanelSound, Named, RefreshPorts
<1>2. form' = [form EXCEPT !["serial_port_"] = First(ports)] /\ listed' \subseteq Ports
  BY DEF RefreshPorts
<1> QED
  BY <1>1, <1>2, FrameworkStep DEF RefreshPorts

\* Another format is clicked, or the same again.
LEMMA DisplayStep ==
    ASSUME FormInvariant, NEW b \in {TEXT, HEX}, ClickDisplay(b)
    PROVE  FormInvariant'
<1> USE DEF FormInvariant
<1> DEFINE display == form["display_type_"]
<1>0. /\ panel' = panel /\ Field' = Field /\ Heard' = Heard /\ Unnoticed' = Unnoticed
      /\ Lost' = Lost /\ (Sheeted(form_kind)' <=> Sheeted(form_kind))
  BY SameKind DEF ClickDisplay
<1>1. PanelSound
  BY PanelIsSound DEF FormFlags
<1>2. /\ Sheeted(form_kind) /\ form' = [form EXCEPT !["display_type_"] = b]
      /\ pressed' = IF b \in pressed /\ checked_widget_ = b THEN pressed
                    ELSE IF b \in pressed THEN pressed \ {b} ELSE {b}
      /\ checked_widget_' = IF b \in pressed THEN checked_widget_ ELSE b
      /\ saved_' = (saved_ /\ display = b) /\ silent' = (silent \/ (saved_ /\ display # b))
      /\ UNCHANGED <<form_kind, stored, recorded, listed, saveColor, opened_, locked,
                     parameters, beat, refreshing, touched>>
  <2>1. /\ Sheeted(form_kind) /\ form' = [form EXCEPT !["display_type_"] = b]
        /\ checked_widget_' = IF b \in pressed THEN checked_widget_ ELSE b
        /\ UNCHANGED <<form_kind, stored, recorded, listed, saveColor, opened_, locked,
                       parameters, beat, refreshing, touched>>
    BY DEF ClickDisplay
  <2>2. pressed' = IF b \in pressed /\ checked_widget_ = b THEN pressed
                   ELSE IF b \in pressed THEN pressed \ {b} ELSE {b}
    BY DEF ClickDisplay
  <2>3. saved_' = (saved_ /\ display = b) /\ silent' = (silent \/ (saved_ /\ display # b))
    BY Zenon DEF ClickDisplay
  <2> QED
    BY <2>1, <2>2, <2>3, Zenon
<1>3. /\ DOMAIN form' = Field /\ form'["display_type_"] = b
      /\ \A g \in Field : g # "display_type_" => form'[g] = form[g]
      /\ "display_type_" \in Field
  BY <1>1, <1>2 DEF FormFlags, PanelSound, Named
<1>4. edits' \in 0..MaxEdits
  BY FormsAssumption DEF Edit, FormFlags, ClickDisplay
<1>5. FormFlags'
  <2>1. saved_' \in BOOLEAN /\ silent' \in BOOLEAN
    BY <1>2
  <2>2. pressed' \subseteq {TEXT, HEX} /\ checked_widget_' \in {TEXT, HEX}
    BY <1>2 DEF FormFlags
  <2> QED
    BY <1>0, <1>2, <1>3, <1>4, <2>1, <2>2 DEF FormFlags
<1>6. FormValues'
  <2>1. \A g \in Field : panel.fields[g] # "port" => form'[g] \in Nat /\ stored[g] \in Nat
    BY <1>3 DEF FormValues, TEXT, HEX
  <2> QED
    BY <1>0, <1>2, <1>3, <2>1 DEF FormValues, TEXT, HEX
<1>7. DisplayShown'
  <2> SUFFICES ASSUME "display_type_" \notin touched PROVE pressed' = {b} /\ checked_widget_' = b
    BY <1>0, <1>2, <1>3 DEF DisplayShown
  <2>1. pressed = {display} /\ checked_widget_ = display
    BY <1>2 DEF DisplayShown
  <2> QED
    BY <1>2, <2>1
<1>8. BeatUnheard' /\ LinkInUse'
  BY <1>0, <1>2 DEF BeatUnheard, LinkInUse, Garbage
<1>9. SavedIsOnScreen'
  <2> SUFFICES ASSUME saved_'
               PROVE  \A g \in Field \ (Unnoticed \union Lost) :
                          \/ form'[g] = stored[g]
                          \/ panel.fields[g] = "port" /\ stored[g] \notin listed
    BY <1>0, <1>2 DEF SavedIsOnScreen
  <2>1. saved_ /\ display = b
    BY <1>2
  <2>2. \A g \in Field : form'[g] = form[g]
    BY <1>3, <2>1
  <2> QED
    BY <2>1, <2>2 DEF SavedIsOnScreen
<1>10. ColourTold'
  BY <1>2 DEF ColourTold, FormFlags
<1>11. ParametersAsShown'
  <2>1. \A g \in Heard : g \in Field /\ panel.fields[g] # "port" /\ g # "display_type_"
    BY <1>1 DEF PanelSound, HeardFields, Framework
  <2>2. \A g \in Heard : form'[g] = form[g]
    BY <1>3, <2>1
  <2>3. \A g \in Heard : g \in touched => parameters[g] = Passed(g, form'[g])
    BY <2>2 DEF ParametersAsShown
  <2>4. \A g \in Heard \ touched : form'[g] = Fresh(g, listed)'
    <3> TAKE g \in Heard \ touched
    <3>1. Fresh(g, listed)' = Fresh(g, listed)
      BY <1>0, <1>2 DEF Fresh, TEXT, First
    <3> QED
      BY <2>2, <3>1 DEF ParametersAsShown
  <2>5. "heartbeat_interval_" \in touched =>
            beat = form'["heartbeat_interval_"]
                \/ (beat = 0 /\ form'["heartbeat_interval_"] = Garbage)
    <3> SUFFICES ASSUME "heartbeat_interval_" \in touched
                 PROVE  form'["heartbeat_interval_"] = form["heartbeat_interval_"]
      BY DEF ParametersAsShown
    <3> QED
      BY <2>2 DEF BeatUnheard
  <2>6. refreshing => opened_ \/ form'["auto_refresh_"] = 1
    BY <1>2 DEF LinkInUse, Sheeted
  <2> QED
    BY <1>0, <1>2, <2>3, <2>4, <2>5, <2>6 DEF ParametersAsShown, Garbage, Passed
<1> QED
  BY <1>5, <1>6, <1>7, <1>8, <1>9, <1>10, <1>11

\* A field of the panel changes, and with it maybe the interval of refreshing.
LEMMA ChangeStep ==
    ASSUME FormInvariant, NEW f \in Field \ Framework, NEW v \in Choices(f), ChangeField(f, v)
    PROVE  FormInvariant'
<1> USE DEF FormInvariant
<1> DEFINE filled == f = "auto_refresh_" /\ form["refresh_interval_"] = 0
           changed == {f} \union IF filled THEN {"refresh_interval_"} ELSE {}
           shown == IF filled THEN [form EXCEPT ![f] = v, !["refresh_interval_"] = 100]
                    ELSE [form EXCEPT ![f] = v]
           hi == "heartbeat_interval_"
<1>0. /\ panel' = panel /\ Field' = Field /\ Heard' = Heard /\ Unnoticed' = Unnoticed
      /\ Lost' = Lost /\ (Sheeted(form_kind)' <=> Sheeted(form_kind))
  BY SameKind DEF ChangeField
<1>1. PanelSound
  BY PanelIsSound DEF FormFlags
<1>2. /\ form' = shown /\ Hear(changed, shown, parameters) /\ Edit /\ form[f] # v
      /\ touched' = touched \union (changed \intersect Heard)
      /\ refreshing' = IF f = "auto_refresh_" THEN v = 1 ELSE refreshing
      /\ UNCHANGED <<form_kind, stored, recorded, listed, opened_, locked, pressed,
                     checked_widget_>>
  BY DEF ChangeField
<1>3. IF Marks(f) THEN setSaveStatus(FALSE) ELSE UNCHANGED <<saved_, saveColor, silent>>
  BY DEF ChangeField
<1>4. filled => form_kind = "Modbus" /\ "refresh_interval_" \in Field
  BY <1>1 DEF PanelSound, Named
<1>5. /\ DOMAIN shown = Field /\ shown[f] = v
      /\ \A g \in Field : g \notin changed => shown[g] = form[g]
      /\ filled => shown["refresh_interval_"] = 100
  BY <1>4 DEF FormFlags
<1>6. f \in changed /\ changed \subseteq Field /\ changed \intersect Framework = {}
      /\ (~filled => changed = {f}) /\ (filled => changed = {f, "refresh_interval_"})
  BY <1>4 DEF Framework
<1> HIDE DEF shown, changed
<1>7. edits' \in 0..MaxEdits
  BY <1>2, FormsAssumption DEF Edit, FormFlags
<1>8. \A g \in Field : panel.fields[g] # "port" => shown[g] \in Nat
  <2> TAKE g \in Field
  <2> HAVE panel.fields[g] # "port"
  <2>1. CASE g \notin changed
    BY <1>5, <2>1 DEF FormValues
  <2>2. CASE g = f
    BY <1>5, <2>2, ChoicesAre
  <2>3. CASE filled /\ g = "refresh_interval_"
    BY <1>5, <2>3
  <2> QED
    BY <1>6, <2>1, <2>2, <2>3
<1>9. /\ parameters' = [g \in Heard |-> IF g \in changed THEN Passed(g, shown[g])
                                        ELSE parameters[g]]
      /\ beat' = IF hi \in changed /\ hi \in Heard /\ parameters[hi] # shown[hi]
                 THEN shown[hi] ELSE beat
  <2>1. parameters' = [g \in Heard |-> IF g \in changed \intersect Heard
                                       THEN Passed(g, shown[g]) ELSE parameters[g]]
    BY <1>2 DEF Hear
  <2>2. beat' = IF hi \in changed \intersect Heard /\ parameters[hi] # shown[hi]
                THEN shown[hi] ELSE beat
    BY <1>2 DEF Hear
  <2> QED
    BY <2>1, <2>2
<1>10. hi \in Heard => hi \in Field /\ panel.fields[hi] # "port"
  BY <1>1 DEF PanelSound, HeardFields
<1>11. FormFlags'
  <2>1. DOMAIN parameters' = Heard
    BY <1>9
  <2>2. beat' \in Nat
    BY <1>8, <1>9, <1>10 DEF FormFlags
  <2>3. refreshing' \in BOOLEAN
    BY <1>2 DEF FormFlags
  <2>4. saved_' \in BOOLEAN /\ silent' \in BOOLEAN /\ saveColor' \in {"blue", "red"}
    BY <1>3, ChangeIsTold DEF FormFlags
  <2> QED
    BY <1>0, <1>2, <1>5, <1>7, <2>1, <2>2, <2>3, <2>4 DEF FormFlags
<1>12. Sheeted(form_kind) => form'["display_type_"] = form["display_type_"]
  BY <1>1, <1>2, <1>5, <1>6 DEF PanelSound, Named, Framework
<1>13. FormValues'
  <2>1. \A g \in Field : panel.fields[g] # "port" => form'[g] \in Nat /\ stored[g] \in Nat
    BY <1>2, <1>8 DEF FormValues
  <2> QED
    BY <1>0, <1>2, <1>12, <2>1 DEF FormValues, TEXT, HEX
<1>14. DisplayShown'
  <2>1. "display_type_" \in touched' <=> "display_type_" \in touched
    BY <1>2, <1>6 DEF Framework
  <2> QED
    BY <1>0, <1>2, <1>12, <2>1 DEF DisplayShown
<1>15. BeatUnheard'
  <2>1. touched' \subseteq Heard \union {"display_type_"}
    BY <1>2 DEF BeatUnheard
  <2>2. ASSUME hi \in Heard \ touched'
        PROVE  parameters'[hi] \in {0, Garbage} /\ beat' = 0
    <3>1. hi \in Heard \ touched /\ hi \notin changed
      BY <1>2, <2>2
    <3> QED
      BY <1>9, <3>1 DEF BeatUnheard
  <2> QED
    BY <1>0, <2>1, <2>2 DEF BeatUnheard, Garbage
<1>16. LinkInUse'
  <2>1. f = "auto_refresh_" => form_kind = "Modbus"
    BY <1>1 DEF PanelSound, Named
  <2> QED
    BY <1>2, <2>1 DEF LinkInUse
<1>17. SavedIsOnScreen'
  <2>1. CASE Marks(f)
    BY <1>3, <2>1, ChangeIsTold DEF SavedIsOnScreen
  <2>2. CASE ~Marks(f)
    <3>1. saved_' = saved_
      BY <1>3, <2>2
    <3>2. ~filled
      BY <1>4, <2>2 DEF Marks
    <3>3. f \in Unnoticed \union Lost
      BY <1>1, <2>2 DEF PanelSound, Noticed
    <3>4. \A g \in Field \ (Unnoticed \union Lost) : form'[g] = form[g]
      BY <1>2, <1>5, <1>6, <3>2, <3>3
    <3> QED
      BY <1>0, <1>2, <3>1, <3>4 DEF SavedIsOnScreen
  <2> QED
    BY <2>1, <2>2
<1>18. ColourTold'
  BY <1>3, ChangeIsTold DEF ColourTold, FormFlags
<1>19. ParametersAsShown'
  <2>1. \A g \in Heard : g \in Field /\ panel.fields[g] # "port"
    BY <1>1 DEF PanelSound, HeardFields
  <2>2. \A g \in Heard : g \in touched' => parameters'[g] = Passed(g, form'[g])
    <3> TAKE g \in Heard
    <3>1. CASE g \in changed
      BY <1>2, <1>9, <3>1
    <3>2. CASE g \notin changed
      BY <1>2, <1>5, <1>9, <2>1, <3>2 DEF ParametersAsShown
    <3> QED
      BY <3>1, <3>2
  <2>3. \A g \in Heard \ touched' : form'[g] = Fresh(g, listed)'
    <3> TAKE g \in Heard \ touched'
    <3>1. Fresh(g, listed)' = Fresh(g, listed)
      BY <1>0, <1>2 DEF Fresh, TEXT, First
    <3>2. g \notin changed /\ g \notin touched
      BY <1>2
    <3> QED
      BY <1>2, <1>5, <2>1, <3>1, <3>2 DEF ParametersAsShown
  <2>4. ASSUME hi \in touched'
        PROVE  beat' = form'[hi] \/ (beat' = 0 /\ form'[hi] = Garbage)
    <3>1. hi \in Heard
      BY <2>4, <1>2 DEF BeatUnheard
    <3>2. CASE hi \notin changed
      BY <1>2, <1>5, <1>9, <1>10, <2>4, <3>1, <3>2 DEF ParametersAsShown
    <3>3. CASE hi \in changed /\ parameters[hi] # shown[hi]
      BY <1>2, <1>9, <3>1, <3>3
    <3>4. CASE hi \in changed /\ parameters[hi] = shown[hi]
      <4>1. f = hi /\ form[hi] # shown[hi]
        BY <1>2, <1>5, <1>6, <3>4
      <4>2. hi \notin touched
        BY <3>1, <3>4, <4>1, BeatIsPassed DEF ParametersAsShown
      <4>3. parameters[hi] \in {0, Garbage} /\ beat = 0
        BY <3>1, <4>2 DEF BeatUnheard
      <4>4. form[hi] = 0
        BY <1>10, <3>1, <4>2, FreshIs DEF ParametersAsShown
      <4> QED
        BY <1>2, <1>9, <3>4, <4>1, <4>3, <4>4
    <3> QED
      BY <3>2, <3>3, <3>4
  <2>5. ASSUME refreshing' PROVE opened_' \/ form'["auto_refresh_"] = 1
    <3>1. CASE f = "auto_refresh_"
      BY <1>2, <1>5, <2>5, <3>1
    <3>2. CASE f # "auto_refresh_"
      <4>1. refreshing /\ "auto_refresh_" \in Field /\ "auto_refresh_" \notin changed
        BY <1>1, <1>2, <1>6, <2>5, <3>2 DEF PanelSound, Named, LinkInUse
      <4> QED
        BY <1>2, <1>5, <4>1 DEF ParametersAsShown
    <3> QED
      BY <3>1, <3>2
  <2> QED
    BY <1>0, <2>2, <2>3, <2>4, <2>5 DEF ParametersAsShown, Passed, Garbage
<1> QED
  BY <1>11, <1>13, <1>14, <1>15, <1>16, <1>17, <1>18, <1>19

\* A save.
LEMMA SaveFormStep ==
    ASSUME FormInvariant, saveSetting
    PROVE  FormInvariant'
<1> USE DEF FormInvariant
<1>0. /\ panel' = panel /\ Field' = Field /\ Heard' = Heard /\ Unnoticed' = Unnoticed
      /\ Lost' = Lost /\ (Sheeted(form_kind)' <=> Sheeted(form_kind))
  BY SameKind DEF saveSetting
<1>1. /\ stored' = form /\ recorded' = TRUE
      /\ UNCHANGED <<form_kind, form, listed, opened_, locked, parameters, beat, refreshing,
                     pressed, checked_widget_, touched, edits>>
  BY DEF saveSetting
<1>2. /\ saved_' = TRUE /\ saveColor' = IF saved_ THEN saveColor ELSE "blue"
      /\ silent' = FALSE
  BY DEF saveSetting, setSaveStatus, FormFlags
<1>3. FormFlags'
  BY <1>0, <1>1, <1>2 DEF FormFlags
<1>4. FormValues' /\ DisplayShown' /\ BeatUnheard' /\ LinkInUse'
  <2>1. FormValues'
    BY <1>0, <1>1 DEF FormValues, TEXT, HEX
  <2>2. DisplayShown'
    BY <1>0, <1>1 DEF DisplayShown
  <2>3. BeatUnheard' /\ LinkInUse'
    BY <1>0, <1>1 DEF BeatUnheard, LinkInUse, Garbage
  <2> QED
    BY <2>1, <2>2, <2>3
<1>5. SavedIsOnScreen'
  BY <1>0, <1>1 DEF SavedIsOnScreen
<1>6. ColourTold'
  BY <1>2 DEF ColourTold, FormFlags
<1>7. ParametersAsShown'
  <2>1. \A g : Fresh(g, listed)' = Fresh(g, listed)
    BY <1>0, <1>1 DEF Fresh, TEXT, First
  <2> QED
    BY <1>0, <1>1, <2>1 DEF ParametersAsShown, Passed, Garbage
<1> QED
  BY <1>3, <1>4, <1>5, <1>6, <1>7

\* What a window has that heard nothing.
LEMMA UnheardIs ==
    ASSUME NEW p \in Unheard(form_kind)
    PROVE  /\ DOMAIN p = Heard
           /\ "heartbeat_interval_" \in Heard => p["heartbeat_interval_"] \in {0, Garbage}
<1>1. PICK garbage \in {0, 1} :
          p = [f \in HeardBy[form_kind] |->
                 CASE f = "heartbeat_interval_" -> Garbage * garbage
                   [] f \in {"heartbeat_send_type_", "protocol_engine_"} -> garbage
                   [] f = "graph_capacity_"     -> 1
                   [] f = "protocol_version_"   -> 2
                   [] OTHER                     -> 0]
  BY DEF Unheard
<1>2. DOMAIN p = Heard
  BY <1>1 DEF Heard
<1>3. ASSUME "heartbeat_interval_" \in Heard PROVE p["heartbeat_interval_"] = Garbage * garbage
  BY <1>1, <1>3 DEF Heard
<1>4. Garbage * garbage \in {0, Garbage}
  BY DEF Garbage
<1> QED
  BY <1>2, <1>3, <1>4

\* A new window.
LEMMA FormsBegin == FormInit => FormInvariant
<1> SUFFICES ASSUME FormInit PROVE FormInvariant
  OBVIOUS
<1>1. PICK ports \in SUBSET Ports : listed = ports /\ form = [f \in Field |-> Fresh(f, ports)]
  BY DEF FormInit
<1>2. /\ form_kind \in Kinds /\ stored = form /\ recorded = FALSE
      /\ saved_ = TRUE /\ saveColor = "blue" /\ opened_ = FALSE /\ locked = FALSE
      /\ parameters \in Unheard(form_kind) /\ beat = 0 /\ refreshing = FALSE
      /\ pressed = {TEXT} /\ checked_widget_ = TEXT
      /\ touched = {} /\ silent = FALSE /\ edits = 0
  BY DEF FormInit
<1>3. PanelSound
  BY <1>2, PanelIsSound
<1>4. DOMAIN parameters = Heard
      /\ ("heartbeat_interval_" \in Heard => parameters["heartbeat_interval_"] \in {0, Garbage})
  BY <1>2, UnheardIs
<1>5. FormFlags
  <2>1. DOMAIN form = Field /\ DOMAIN stored = Field /\ listed \subseteq Ports
    BY <1>1, <1>2
  <2>2. 0 \in 0..MaxEdits /\ 0 \in Nat
    BY FormsAssumption
  <2> QED
    BY <1>2, <1>4, <2>1, <2>2 DEF FormFlags, TEXT, HEX
<1>6. Sheeted(form_kind) => form["display_type_"] = TEXT
  BY <1>1, <1>3, FreshIs DEF PanelSound, Named
<1>7. \A f \in Field : panel.fields[f] # "port" => form[f] \in Nat /\ stored[f] \in Nat
  BY <1>1, <1>2, FreshIs
<1>8. FormValues
  BY <1>2, <1>6, <1>7 DEF FormValues
<1>9. DisplayShown /\ BeatUnheard /\ LinkInUse /\ SavedIsOnScreen /\ ColourTold
  BY <1>2, <1>4, <1>6 DEF DisplayShown, BeatUnheard, LinkInUse, SavedIsOnScreen, ColourTold
<1>10. ParametersAsShown
  BY <1>1, <1>2, <1>3 DEF ParametersAsShown, PanelSound, HeardFields
<1> QED
  BY <1>5, <1>8, <1>9, <1>10 DEF FormInvariant

\* A record fills a new form.
LEMMA ReopenStep ==
    ASSUME FormInvariant, NEW ports \in SUBSET Ports, Reopen(ports)
    PROVE  FormInvariant'
<1> USE DEF FormInvariant
<1> DEFINE hi == "heartbeat_interval_"
           display == "display_type_"
<1>0. /\ panel' = panel /\ Field' = Field /\ Heard' = Heard /\ Unnoticed' = Unnoticed
      /\ Lost' = Lost /\ (Sheeted(form_kind)' <=> Sheeted(form_kind))
  BY SameKind DEF Reopen
<1>1. PanelSound
  BY PanelIsSound DEF FormFlags
<1>2. /\ recorded /\ listed' = ports
      /\ form' = [f \in Field |-> IF f \in DOMAIN panel.source THEN Restored(f, ports)
                                  ELSE Fresh(f, ports)]
      /\ touched' = {f \in Heard : form'[f] # Fresh(f, ports)}
                       \union {f \in Field : f = display /\ form'[f] = HEX}
      /\ refreshing' = (form_kind = "Modbus" /\ form'["auto_refresh_"] = 1)
      /\ checked_widget_' = TEXT
      /\ saved_' = TRUE /\ saveColor' = "blue" /\ silent' = FALSE
      /\ opened_' = FALSE /\ locked' = FALSE
      /\ UNCHANGED <<form_kind, stored, recorded, edits>>
  BY Zenon DEF Reopen
<1>3. pressed' \subseteq {TEXT, HEX} /\ (display \notin touched' => pressed' = {TEXT})
  <2>1. pressed' = IF display \notin touched' THEN {TEXT}
                   ELSE IF form_kind \in {"UdpClient", "UdpServer"} THEN {TEXT, HEX} ELSE {HEX}
    BY Zenon DEF Reopen
  <2> QED
    BY <2>1
<1>4. PICK p \in Unheard(form_kind) :
         /\ parameters' = [f \in Heard |->
                             IF f \in touched' THEN Passed(f, form'[f]) ELSE p[f]]
         /\ beat' = IF hi \in touched' /\ p[hi] # form'[hi] THEN form'[hi] ELSE 0
  BY DEF Reopen
<1>5. hi \in Heard => p[hi] \in {0, Garbage}
  BY UnheardIs
<1>6. \A f \in Field \ Lost :
        \/ form'[f] = stored[f]
        \/ panel.fields[f] = "port" /\ stored[f] \notin ports
  <2> TAKE f \in Field \ Lost
  <2>1. /\ f \in DOMAIN panel.source /\ panel.source[f] = f /\ f # ""
        /\ panel.fields[f] \notin {"bare", "number", "retain"}
    BY <1>1 DEF PanelSound, Kept
  <2>2. form'[f] = Restored(f, ports)
    BY <1>2, <2>1
  <2>3. Written(f) = stored[f]
    BY <2>1 DEF Written
  <2>4. Restored(f, ports) = IF panel.fields[f] = "port"
                             THEN IF stored[f] \in ports THEN stored[f] ELSE Fresh(f, ports)
                             ELSE stored[f]
    BY <2>1, <2>3 DEF Restored
  <2> QED
    BY <2>2, <2>4
<1>7. \A f \in Field : panel.fields[f] # "port" => form'[f] \in Nat
  <2> TAKE f \in Field
  <2> HAVE panel.fields[f] # "port"
  <2>1. Fresh(f, ports) \in Nat /\ stored[f] \in Nat
    BY FreshIs DEF FormValues
  <2>2. CASE f \notin DOMAIN panel.source
    BY <1>2, <2>1, <2>2
  <2>3. CASE f \in DOMAIN panel.source
    <3>1. form'[f] = Restored(f, ports)
      BY <1>2, <2>3
    <3>2. Written(f) \in Nat
      BY <2>1 DEF Written
    <3>3. panel.source[f] \in {"", f}
      BY <1>1, <2>3 DEF PanelSound, Kept
    <3> DEFINE value == IF panel.source[f] = "" THEN 0 ELSE Written(panel.source[f])
    <3>4. value \in Nat
      BY <3>2, <3>3
    <3>5. \/ Restored(f, ports) = Fresh(f, ports)
          \/ Restored(f, ports) = 0
          \/ Restored(f, ports) = value
      BY DEF Restored
    <3> HIDE DEF value
    <3> QED
      BY <2>1, <3>1, <3>4, <3>5
  <2> QED
    BY <2>2, <2>3
<1>8. Sheeted(form_kind) => form'[display] = stored[display] /\ display \in Field
  <2>1. Sheeted(form_kind) => display \in Field /\ panel.fields[display] = "list"
    BY <1>1 DEF PanelSound, Named
  <2>2. display \notin Lost
    BY DEF Lost, Heartbeat, Framing
  <2> QED
    BY <1>6, <2>1, <2>2
<1>9. FormValues'
  <2>1. \A f \in Field : panel.fields[f] # "port" => form'[f] \in Nat /\ stored[f] \in Nat
    BY <1>7 DEF FormValues
  <2> QED
    BY <1>0, <1>2, <1>8, <2>1 DEF FormValues, TEXT, HEX
<1>10. \A f \in Heard : f \in Field /\ panel.fields[f] # "port" /\ f # display
  BY <1>1 DEF PanelSound, HeardFields, Framework
<1>11. FormFlags'
  <2>1. DOMAIN form' = Field /\ DOMAIN parameters' = Heard
    BY <1>2, <1>4
  <2>2. hi \in touched' => hi \in Heard
    BY <1>2
  <2>3. beat' \in Nat
    BY <1>4, <1>7, <1>10, <2>2
  <2>4. refreshing' \in BOOLEAN
    BY <1>2
  <2> QED
    BY <1>0, <1>2, <1>3, <2>1, <2>3, <2>4 DEF FormFlags, TEXT, HEX
<1>12. DisplayShown'
  <2> SUFFICES ASSUME Sheeted(form_kind), display \notin touched'
               PROVE  pressed' = {form'[display]} /\ checked_widget_' = form'[display]
    BY <1>0, <1>2 DEF DisplayShown
  <2>1. form'[display] # HEX
    BY <1>2, <1>8
  <2>2. form'[display] = TEXT
    BY <1>8, <2>1 DEF FormValues
  <2> QED
    BY <1>2, <1>3, <2>2
<1>13. BeatUnheard'
  <2>1. touched' \subseteq Heard \union {display}
    BY <1>2
  <2>2. ASSUME hi \in Heard \ touched'
        PROVE  parameters'[hi] \in {0, Garbage} /\ beat' = 0
    BY <1>4, <1>5, <2>2
  <2> QED
    BY <1>0, <2>1, <2>2 DEF BeatUnheard, Garbage
<1>14. LinkInUse' /\ ColourTold'
  BY <1>2 DEF LinkInUse, ColourTold
<1>15. SavedIsOnScreen'
  BY <1>0, <1>2, <1>6 DEF SavedIsOnScreen
<1>16. ParametersAsShown'
  <2>1. \A f \in Heard : f \in touched' => parameters'[f] = Passed(f, form'[f])
    BY <1>4
  <2>2. \A f \in Heard \ touched' : form'[f] = Fresh(f, listed)'
    <3> TAKE f \in Heard \ touched'
    <3>1. Fresh(f, listed)' = Fresh(f, ports)
      BY <1>0, <1>2 DEF Fresh, TEXT, First
    <3> QED
      BY <1>2, <3>1
  <2>3. ASSUME hi \in touched'
        PROVE  beat' = form'[hi] \/ (beat' = 0 /\ form'[hi] = Garbage)
    <3>1. hi \in Heard
      BY <1>2, <2>3
    <3>2. CASE p[hi] # form'[hi]
      BY <1>4, <2>3, <3>2
    <3>3. CASE p[hi] = form'[hi]
      BY <1>4, <1>5, <3>1, <3>3
    <3> QED
      BY <3>2, <3>3
  <2>4. refreshing' => form'["auto_refresh_"] = 1
    BY <1>2
  <2> QED
    BY <1>0, <2>1, <2>2, <2>3, <2>4 DEF ParametersAsShown, Passed, Garbage
<1> QED
  BY <1>9, <1>11, <1>12, <1>13, <1>14, <1>15, <1>16

\* A step of the link.
LEMMA LinkMoves ==
    ASSUME FormInvariant, opened_' \in BOOLEAN, locked' \in BOOLEAN, refreshing' \in BOOLEAN,
           LinkInUse', refreshing' => opened_' \/ form["auto_refresh_"] = 1,
           setSaveStatus(FALSE) \/ UNCHANGED <<saved_, saveColor, silent>>,
           UNCHANGED <<form_kind, form, stored, recorded, listed, parameters, beat, pressed,
                       checked_widget_, touched, edits>>
    PROVE  FormInvariant'
<1> USE DEF FormInvariant
<1>0. /\ panel' = panel /\ Field' = Field /\ Heard' = Heard /\ Unnoticed' = Unnoticed
      /\ Lost' = Lost /\ (Sheeted(form_kind)' <=> Sheeted(form_kind))
  BY SameKind
<1>1. /\ saved_' \in BOOLEAN /\ saveColor' \in {"blue", "red"} /\ silent' \in BOOLEAN
      /\ ColourTold' /\ SavedIsOnScreen'
  <2>1. CASE setSaveStatus(FALSE)
    BY <2>1, ChangeIsTold DEF ColourTold, SavedIsOnScreen
  <2>2. CASE UNCHANGED <<saved_, saveColor, silent>>
    BY <1>0, <2>2 DEF ColourTold, SavedIsOnScreen, FormFlags
  <2> QED
    BY <2>1, <2>2
<1>2. FormFlags'
  BY <1>0, <1>1 DEF FormFlags
<1>3. FormValues' /\ DisplayShown' /\ BeatUnheard'
  <2>1. FormValues'
    BY <1>0 DEF FormValues, TEXT, HEX
  <2>2. DisplayShown'
    BY <1>0 DEF DisplayShown
  <2>3. BeatUnheard'
    BY <1>0 DEF BeatUnheard, Garbage
  <2> QED
    BY <2>1, <2>2, <2>3
<1>4. ParametersAsShown'
  <2>1. \A f : Fresh(f, listed)' = Fresh(f, listed)
    BY <1>0 DEF Fresh, TEXT, First
  <2> QED
    BY <1>0, <2>1 DEF ParametersAsShown, Passed, Garbage
<1> QED
  BY <1>1, <1>2, <1>3, <1>4

\* The link opens, fails, breaks and closes.
LEMMA LinkStep ==
    ASSUME FormInvariant,
           ClickOn \/ OpeningFails \/ ClickOff \/ LinkFails \/ Disconnected \/ ModbusError
    PROVE  FormInvariant'
<1>1. CASE ClickOn
  <2>1. opened_' = TRUE /\ locked' \in BOOLEAN /\ refreshing' \in BOOLEAN /\ LinkInUse'
    BY <1>1 DEF ClickOn, FormInvariant, FormFlags, LinkInUse
  <2> QED
    BY <1>1, <2>1, LinkMoves DEF ClickOn
<1>2. CASE OpeningFails
  <2>1. opened_' = FALSE /\ locked' \in BOOLEAN /\ refreshing' = FALSE
    BY <1>2 DEF OpeningFails, FormInvariant, FormFlags, LinkInUse
  <2>2. LinkInUse'
    BY <2>1 DEF LinkInUse
  <2> QED
    BY <1>2, <2>1, <2>2, LinkMoves DEF OpeningFails
<1>3. CASE ClickOff
  <2>1. opened_' = FALSE /\ locked' = FALSE /\ refreshing' = FALSE
    BY <1>3 DEF ClickOff, FormInvariant, FormFlags, LinkInUse
  <2>2. LinkInUse'
    BY <2>1 DEF LinkInUse
  <2> QED
    BY <1>3, <2>1, <2>2, LinkMoves DEF ClickOff
<1>4. CASE LinkFails
  <2>1. opened_' = FALSE /\ locked' = FALSE /\ refreshing' = FALSE
    BY <1>4 DEF LinkFails, FormInvariant, FormFlags, LinkInUse
  <2>2. LinkInUse'
    BY <2>1 DEF LinkInUse
  <2> QED
    BY <1>4, <2>1, <2>2, LinkMoves DEF LinkFails
<1>5. CASE Disconnected
  <2>1. opened_' = FALSE /\ locked' \in BOOLEAN /\ refreshing' = FALSE
    BY <1>5 DEF Disconnected, FormInvariant, FormFlags, LinkInUse
  <2>2. LinkInUse'
    BY <2>1 DEF LinkInUse
  <2> QED
    BY <1>5, <2>1, <2>2, LinkMoves DEF Disconnected
<1>6. CASE ModbusError
  <2>1. opened_' \in BOOLEAN /\ locked' = FALSE /\ refreshing' = FALSE /\ LinkInUse'
    BY <1>6 DEF ModbusError, FormInvariant, FormFlags, LinkInUse
  <2> QED
    BY <1>6, <2>1, LinkMoves DEF ModbusError
<1> QED
  BY <1>1, <1>2, <1>3, <1>4, <1>5, <1>6

\* In every reachable state.
THEOREM FormInvariantAlways == FormSpec => []FormInvariant
<1>1. FormInit => FormInvariant
  BY FormsBegin
<1>2. FormInvariant /\ [FormNext]_formVars => FormInvariant'
  <2> SUFFICES ASSUME FormInvariant, [FormNext]_formVars PROVE FormInvariant'
    OBVIOUS
  <2>1. ASSUME NEW f \in Field \ {"title_", "send_type_", "display_type_"},
               NEW v \in Choices(f), ChangeField(f, v)
        PROVE  FormInvariant'
    BY <2>1, ChangeStep DEF Framework
  <2>2. ASSUME NEW ports \in SUBSET Ports, RefreshPorts(ports) \/ Reopen(ports)
        PROVE  FormInvariant'
    BY <2>2, RefreshPortsStep, ReopenStep
  <2>3. ASSUME NEW v \in Texts, EditTitle(v) PROVE FormInvariant'
    BY <2>3, TitleStep
  <2>4. ASSUME NEW b \in {TEXT, HEX}, ChooseSendType(b) \/ ClickDisplay(b)
        PROVE  FormInvariant'
    BY <2>4, SendTypeStep, DisplayStep
  <2>5. CASE saveSetting
    BY <2>5, SaveFormStep
  <2>6. CASE ClickOn \/ OpeningFails \/ ClickOff \/ LinkFails \/ Disconnected \/ ModbusError
    BY <2>6, LinkStep
  <2>7. CASE UNCHANGED formVars
    <3>1. LinkInUse'
      BY <2>7 DEF formVars, FormInvariant, LinkInUse
    <3>2. opened_' \in BOOLEAN /\ locked' \in BOOLEAN /\ refreshing' \in BOOLEAN
      BY <2>7 DEF formVars, FormInvariant, FormFlags
    <3>3. refreshing' => opened_' \/ form["auto_refresh_"] = 1
      BY <2>7 DEF formVars, FormInvariant, ParametersAsShown
    <3> QED
      BY <2>7, <3>1, <3>2, <3>3, LinkMoves DEF formVars
  <2> QED
    BY <2>1, <2>2, <2>3, <2>4, <2>5, <2>6, <2>7 DEF FormNext
<1> QED
  BY <1>1, <1>2, PTL DEF FormSpec

\* What counts as saved is what is on the screen, whatever ports are plugged in when a
\* session is opened again, and the buttons say how data is shown and what is saved.
THEOREM SavedStateIsShownAlways == FormSpec => []SavedStateIsShown
<1>1. FormInvariant => SavedStateIsShown
  <2> SUFFICES ASSUME FormInvariant PROVE SavedStateIsShown
    OBVIOUS
  <2>1. FormTypes
    BY FlagsAreTypes DEF FormInvariant
  <2>2. Sheeted(form_kind) /\ "display_type_" \notin touched => pressed = {form["display_type_"]}
    BY DEF FormInvariant, DisplayShown
  <2> QED
    BY <2>1, <2>2 DEF FormInvariant, ColourTold, SavedStateIsShown, ButtonsTellTheTruth
<1> QED
  BY <1>1, FormInvariantAlways, PTL

\* What a window works with is what its form shows.
THEOREM ParametersAsShownAlways == FormSpec => []ParametersAsShown
<1>1. FormInvariant => ParametersAsShown
  BY DEF FormInvariant
<1> QED
  BY <1>1, FormInvariantAlways, PTL

\* No step changes what an open link was configured with.
THEOREM InUseIsOnScreenAlways == FormSpec => InUseIsOnScreen
<1>1. ASSUME FormInvariant, [FormNext]_formVars, opened_, opened_', form' # form,
             form_kind # "Mqtt", form_kind = "Modbus" => locked
      PROVE  \A f \in panel.configuration \ Loose : form'[f] = form[f]
  <2>1. locked /\ DOMAIN form = Field
    <3>1. form_kind \notin {"Mqtt", "Modbus"} => locked
      BY <1>1 DEF FormInvariant, LinkInUse
    <3>2. DOMAIN form = Field
      BY <1>1 DEF FormInvariant, FormFlags
    <3> QED
      BY <1>1, <3>1, <3>2
  <2>2. /\ panel.configuration \subseteq Field
        /\ panel.configuration \ Loose \subseteq panel.locked
        /\ panel.configuration \intersect (Framework \union {"refresh_interval_"}) = {}
    BY <1>1, PanelIsSound DEF FormInvariant, FormFlags, PanelSound, InUse
  <2>3. ASSUME NEW g \in Field \ {"title_", "send_type_", "display_type_"},
               NEW v \in Choices(g), ChangeField(g, v)
        PROVE  \A f \in panel.configuration \ Loose : form'[f] = form[f]
    <3>1. g \notin panel.locked
      BY <2>1, <2>3 DEF ChangeField
    <3>2. \/ form' = [form EXCEPT ![g] = v]
          \/ form' = [form EXCEPT ![g] = v, !["refresh_interval_"] = 100]
      BY <2>3 DEF ChangeField
    <3>3. \A f \in Field : f # g /\ f # "refresh_interval_" => form'[f] = form[f]
      BY <2>1, <3>2
    <3> QED
      BY <2>2, <3>1, <3>3
  <2>4. ASSUME NEW ports, RefreshPorts(ports) \/ Reopen(ports) PROVE FALSE
    BY <1>1, <2>1, <2>4 DEF RefreshPorts, Reopen
  <2>5. ASSUME NEW g \in Framework, NEW v, form' = [form EXCEPT ![g] = v]
        PROVE  \A f \in panel.configuration \ Loose : form'[f] = form[f]
    BY <2>1, <2>2, <2>5
  <2>6. ASSUME NEW v, EditTitle(v) \/ ChooseSendType(v) \/ ClickDisplay(v)
        PROVE  \A f \in panel.configuration \ Loose : form'[f] = form[f]
    <3>1. \E g \in Framework : form' = [form EXCEPT ![g] = v]
      BY <2>6 DEF EditTitle, ChooseSendType, ClickDisplay, Framework
    <3> QED
      BY <2>5, <3>1
  <2>7. CASE saveSetting \/ ClickOn \/ OpeningFails \/ ClickOff \/ LinkFails \/ Disconnected
             \/ ModbusError \/ UNCHANGED formVars
    BY <1>1, <2>7 DEF saveSetting, ClickOn, OpeningFails, ClickOff, LinkFails, Disconnected,
       ModbusError, formVars
  <2> QED
    BY <1>1, <2>3, <2>4, <2>6, <2>7 DEF FormNext
<1>2. FormInvariant /\ [FormNext]_formVars
      => [opened_ /\ opened_' /\ form' # form /\ form_kind # "Mqtt"
            /\ (form_kind = "Modbus" => locked)
          => \A f \in panel.configuration \ Loose : form'[f] = form[f]]_formVars
  BY <1>1
<1> QED
  BY <1>2, FormInvariantAlways, PTL DEF FormSpec, InUseIsOnScreen
=============================================================================
