------------------------------ MODULE Settings ------------------------------
(***************************************************************************)
(* Storage::SettingsManager (storage/setting_manager.{h,cpp}) together     *)
(* with the two places that drive it: main(), which rewrites the file at   *)
(* start-up, and MainWindow::closeEvent, which forces a save.              *)
(*                                                                         *)
(* The settings live in memory (settings_) and in three files of the       *)
(* configs directory: config.json, its .bak and its .temp.  Every caller   *)
(* runs on the GUI thread, so an operation in memory is one step; an       *)
(* operation on files is one step per file-system call, because the        *)
(* process can be killed between two of them and each can fail.            *)
(***************************************************************************)
CONSTANTS
    Keys,      \* setting keys
    Values,    \* JSON values a key can hold
    NoValue,   \* QJsonValue::Undefined: the key is not there
    Faults,    \* the ways in which a file-system call can fail
    CrashAt,   \* the phases in which the process can be killed
    MayEmpty,  \* TRUE: the user may remove the only setting there is
    WholeApi   \* TRUE: the public operations nobody calls are called too

Maps == [Keys -> Values \cup {NoValue}]

EmptyMap == [k \in Keys |-> NoValue]

\* "starting" and "resetting" are SettingsManager::saveSettings, called by
\* main(); "backup" to "renaming" are the calls of actualSaveSettings in
\* their order; "recovering" is the middle of recoverFromBackup.
Booting == {"starting", "resetting"}
Saving == {"backup", "copying", "opening", "writing", "removing", "renaming"}
Phases == {"off", "idle", "recovering"} \cup Booting \cup Saving

ASSUME NoValueAssumption == NoValue \notin Values
ASSUME CrashAtAssumption == CrashAt \subseteq Phases \ {"off"}
ASSUME FlagsAssumption == {MayEmpty, WholeApi} \subseteq BOOLEAN

\* A call reports that it failed; or QFile::flush, whose result nobody
\* reads, cannot write what QFile::write had only put in its buffer.
ASSUME FaultsAssumption == Faults \subseteq {"reported", "silent"}

Fails == "reported" \in Faults
FlushFails == "silent" \in Faults

\* A file does not exist, holds something that is not a JSON object (it was
\* truncated and not yet written), or holds a map.
FileKinds == {"absent", "torn", "json"}
Files == [kind : FileKinds, map : Maps]
Absent == [kind |-> "absent", map |-> EmptyMap]
Torn == [kind |-> "torn", map |-> EmptyMap]
Json(m) == [kind |-> "json", map |-> m]

\* What readAll and QJsonDocument::fromJson make of a file: an object, or
\* the empty one.
Parsed(f) == IF f.kind = "json" THEN f.map ELSE EmptyMap

VARIABLES
    mem,      \* settings_
    dirty,    \* dirty_
    timer,    \* save_timer_->isActive()
    phase,    \* where the process is
    closing,  \* the save in progress was called by closeEvent
    buf,      \* existingSettings, the object a save is about to write
    target,   \* config.json
    bak,      \* config.json.bak
    temp      \* config.json.temp

volatile == <<mem, dirty, timer, closing, buf>>
files == <<target, bak, temp>>
vars == <<volatile, phase, files>>

\* A first start: nothing is installed and nothing runs.
Init ==
    /\ mem = EmptyMap
    /\ dirty = FALSE
    /\ timer = FALSE
    /\ phase = "off"
    /\ closing = FALSE
    /\ buf = EmptyMap
    /\ target = Absent
    /\ bak = Absent
    /\ temp = Absent
-----------------------------------------------------------------------------
(***************************************************************************)
(* Start-up: main() calls saveSettings() with empty settings_.             *)
(***************************************************************************)

Launch ==
    /\ phase = "off"
    /\ phase' = "starting"
    /\ UNCHANGED <<volatile, files>>

\* The content of the file under the values in memory.
Overlaid(old, new) ==
    [k \in Keys |-> IF new[k] # NoValue THEN new[k] ELSE old[k]]

\* saveSettings: read the file, lay settings_ over it, open the same file
\* with Truncate.
ResetOpen ==
    /\ phase = "starting"
    /\ \/ /\ buf' = Overlaid(Parsed(target), mem)
          /\ target' = Torn
          /\ phase' = "resetting"
       \/ /\ Fails
          /\ phase' = "idle"
          /\ UNCHANGED <<buf, target>>
    /\ UNCHANGED <<mem, dirty, timer, closing, bak, temp>>

\* saveSettings: write and close; a failed write is only reported.
ResetWrite ==
    /\ phase = "resetting"
    /\ \/ target' = Json(buf)
       \/ (Fails \/ FlushFails) /\ UNCHANGED target
    /\ buf' = EmptyMap
    /\ phase' = "idle"
    /\ UNCHANGED <<mem, dirty, timer, closing, bak, temp>>
-----------------------------------------------------------------------------
(***************************************************************************)
(* Operations in memory.                                                   *)
(***************************************************************************)

\* Mutant: does not load before a change, as setMultipleSettings does not.
LoadOutcomesNoLoad == {mem}

\* loadSettingsIfNeeded: what settings_ may be after it.
LoadOutcomes ==
    {IF mem = EmptyMap THEN Parsed(target) ELSE mem}
        \cup (IF Fails THEN {mem} ELSE {})

\* Mutant: forgets to start the timer.
MarkDirtyNoTimer ==
    /\ dirty' = TRUE
    /\ UNCHANGED timer

\* dirty_ = true; if (!save_timer_->isActive()) save_timer_->start(...)
MarkDirty ==
    /\ dirty' = TRUE
    /\ timer' = TRUE

SetSetting(k, v) ==
    /\ phase = "idle"
    /\ \E loaded \in LoadOutcomes :
          \/ /\ loaded[k] = v
             /\ mem' = loaded
             /\ UNCHANGED <<dirty, timer>>
          \/ /\ loaded[k] # v
             /\ mem' = [loaded EXCEPT ![k] = v]
             /\ MarkDirty
    /\ UNCHANGED <<phase, closing, buf, files>>

\* getSetting is const and still loads: the only change it can make.
GetSetting(k) ==
    /\ phase = "idle"
    /\ mem[k] = NoValue
    /\ mem' \in LoadOutcomes
    /\ UNCHANGED <<dirty, timer, phase, closing, buf, files>>

\* Mutant: assigns null instead of removing the key.
RemoveOneSettingToNull(k) ==
    /\ phase = "idle"
    /\ \E loaded \in LoadOutcomes :
          /\ loaded[k] # NoValue
          /\ mem' = [loaded EXCEPT ![k] = "null"]
    /\ MarkDirty
    /\ UNCHANGED <<phase, closing, buf, files>>

\* The last conjunct before UNCHANGED is an assumption about the user, who
\* leaves at least one setting unless MayEmpty.
RemoveOneSetting(k) ==
    /\ phase = "idle"
    /\ \E loaded \in LoadOutcomes :
          /\ mem' = [loaded EXCEPT ![k] = NoValue]
          /\ \/ loaded[k] # NoValue /\ MarkDirty
             \/ loaded[k] = NoValue /\ UNCHANGED <<dirty, timer>>
    /\ MayEmpty \/ mem' # EmptyMap
    /\ UNCHANGED <<phase, closing, buf, files>>

\* Nobody calls it.  Unlike setSetting it does not load the file first.
SetMultipleSettings(added) ==
    /\ WholeApi
    /\ phase = "idle"
    /\ mem' = Overlaid(mem, added)
    /\ \/ mem' # mem /\ MarkDirty
       \/ mem' = mem /\ UNCHANGED <<dirty, timer>>
    /\ UNCHANGED <<phase, closing, buf, files>>

\* Nobody calls it.  A valid file is read; an invalid one is removed when
\* there is a backup, and settings_ is emptied when there is none.
LoadSettings ==
    /\ WholeApi
    /\ phase = "idle"
    /\ \/ /\ target.kind = "json"
          /\ mem' \in {target.map} \cup (IF Fails THEN {mem} ELSE {})
          /\ UNCHANGED <<target, phase>>
       \/ /\ target.kind # "json" \/ Fails
          /\ bak.kind = "absent"
          /\ mem' = EmptyMap
          /\ UNCHANGED <<target, phase>>
       \/ /\ target.kind # "json" \/ Fails
          /\ bak.kind # "absent"
          /\ target' = Absent
          /\ phase' = "recovering"
          /\ UNCHANGED mem
    /\ UNCHANGED <<dirty, timer, closing, buf, bak, temp>>

\* recoverFromBackup copies the backup, loadSettings reads the copy; when
\* the copy fails settings_ is emptied, when it is no JSON it is left.
Recover ==
    /\ phase = "recovering"
    /\ phase' = "idle"
    /\ \/ /\ target' = bak
          /\ mem' = IF bak.kind = "json" THEN bak.map ELSE mem
       \/ Fails /\ mem' = EmptyMap /\ UNCHANGED target
    /\ UNCHANGED <<dirty, timer, closing, buf, bak, temp>>
-----------------------------------------------------------------------------
(***************************************************************************)
(* actualSaveSettings, one action per file-system call.                    *)
(***************************************************************************)

\* The process is gone: everything in memory with it.
Exit ==
    /\ phase' = "off"
    /\ mem' = EmptyMap
    /\ dirty' = FALSE
    /\ timer' = FALSE
    /\ closing' = FALSE
    /\ buf' = EmptyMap

\* Mutant: dirty_ is cleared on the way in, not after the rename.
ReturnClean(stillDirty) ==
    \/ closing /\ Exit
    \/ /\ ~closing
       /\ phase' = "idle"
       /\ dirty' = FALSE
       /\ buf' = EmptyMap
       /\ UNCHANGED <<mem, timer, closing>>

\* Every return of actualSaveSettings: closeEvent goes on to quit, the
\* timer's call goes back to the event loop.
Return(stillDirty) ==
    \/ closing /\ Exit
    \/ /\ ~closing
       /\ phase' = "idle"
       /\ dirty' = stillDirty
       /\ buf' = EmptyMap
       /\ UNCHANGED <<mem, timer, closing>>

GoOn(next) ==
    /\ phase' = next
    /\ UNCHANGED <<mem, dirty, timer, closing>>

TimerFires ==
    /\ phase = "idle"
    /\ timer
    /\ timer' = FALSE
    /\ phase' = "backup"
    /\ UNCHANGED <<mem, dirty, closing, buf, files>>

\* MainWindow::closeEvent: forceSave() saves only what is dirty.
CloseWindow ==
    /\ phase = "idle"
    /\ \/ dirty /\ closing' = TRUE /\ phase' = "backup"
          /\ UNCHANGED <<mem, dirty, timer, buf>>
       \/ ~dirty /\ Exit
    /\ UNCHANGED files

\* createBackUp: QFile::remove(backupFile), its result ignored.
RemoveBackup ==
    /\ phase = "backup"
    /\ \/ GoOn("copying") /\ bak' = Absent /\ UNCHANGED buf
       \/ Fails /\ GoOn("copying") /\ UNCHANGED <<bak, buf>>
       \/ Fails /\ Return(dirty) /\ UNCHANGED bak
    /\ UNCHANGED <<target, temp>>

\* createBackUp: QFile::copy, which refuses to overwrite; result ignored.
CopyBackup ==
    /\ phase = "copying"
    /\ \/ bak.kind = "absent" /\ bak' = target
       \/ bak.kind # "absent" /\ UNCHANGED bak
       \/ Fails /\ UNCHANGED bak
    /\ GoOn("opening")
    /\ UNCHANGED <<buf, target, temp>>

\* The file's object without the keys settings_ does not have, overlaid.
Merged(old, new) ==
    Overlaid([k \in Keys |-> IF new[k] = NoValue THEN NoValue ELSE old[k]], new)

OpenTemp ==
    /\ phase = "opening"
    /\ \/ /\ buf' = Merged(Parsed(target), mem)
          /\ temp' = Torn
          /\ GoOn("writing")
       \/ Fails /\ Return(dirty) /\ UNCHANGED temp
    /\ UNCHANGED <<target, bak>>

\* Mutant: no return after a write that failed.
WriteTempNoReturn ==
    /\ phase = "writing"
    /\ \/ temp' = Json(buf)
       \/ Fails /\ temp' = Absent
    /\ GoOn("removing")
    /\ UNCHANGED <<buf, target, bak>>

WriteTemp ==
    /\ phase = "writing"
    /\ \/ temp' = Json(buf) /\ GoOn("removing") /\ UNCHANGED buf
       \/ FlushFails /\ GoOn("removing") /\ UNCHANGED <<buf, temp>>
       \/ Fails /\ temp' \in {Absent, temp} /\ Return(dirty)
    /\ UNCHANGED <<target, bak>>

RemoveTarget ==
    /\ phase = "removing"
    /\ \/ /\ target' = Absent
          /\ GoOn("renaming")
          /\ UNCHANGED <<buf, temp>>
       \/ /\ Fails
          /\ target.kind # "absent"
          /\ temp' \in {Absent, temp}
          /\ Return(dirty)
          /\ UNCHANGED target
    /\ UNCHANGED bak

\* QFile::rename refuses to overwrite and needs its source.
CanRename == target.kind = "absent" /\ temp.kind # "absent"

RenameTemp ==
    /\ phase = "renaming"
    /\ \/ CanRename /\ target' = temp /\ temp' = Absent /\ Return(FALSE)
       \/ (Fails \/ ~CanRename) /\ Return(dirty) /\ UNCHANGED <<target, temp>>
    /\ UNCHANGED bak

\* The process is killed: a file being written stays as it is.
Crash ==
    /\ phase \in CrashAt
    /\ Exit
    /\ UNCHANGED files
-----------------------------------------------------------------------------
SaveStep ==
    \/ RemoveBackup
    \/ CopyBackup
    \/ OpenTemp
    \/ WriteTemp
    \/ RemoveTarget
    \/ RenameTemp

ProcessStep == ResetOpen \/ ResetWrite \/ Recover \/ SaveStep

UserStep ==
    \/ \E k \in Keys, v \in Values : SetSetting(k, v)
    \/ \E k \in Keys : GetSetting(k)
    \/ \E k \in Keys : RemoveOneSetting(k)
    \/ \E added \in Maps : SetMultipleSettings(added)
    \/ LoadSettings
    \/ CloseWindow

Next == Launch \/ ProcessStep \/ TimerFires \/ UserStep \/ Crash

Spec == Init /\ [][Next]_vars

\* The event loop delivers an expired timer and a started operation runs to
\* its end; the user is under no obligation.
FairSpec == Spec /\ WF_vars(ProcessStep) /\ WF_vars(TimerFires)
-----------------------------------------------------------------------------
TypeOK ==
    /\ mem \in Maps
    /\ buf \in Maps
    /\ {dirty, timer, closing} \subseteq BOOLEAN
    /\ phase \in Phases
    /\ {target, bak, temp} \subseteq Files

\* loadSettings, which nobody calls, put a backup that is no JSON in the
\* place of config.json and left settings_ as it was.
BrokenBackup == WholeApi /\ Fails /\ target = bak /\ bak.kind # "json"

\* Between two events nothing is lost by a manager that believes it is
\* clean: unless dirty_ is set, what settings_ holds is what config.json
\* holds.  (setSetting, removeOneSetting and every early return of
\* actualSaveSettings maintain dirty_; forceSave trusts it.)
CleanMeansStored ==
    phase = "idle" /\ ~dirty /\ mem # EmptyMap
        => target = Json(mem) \/ BrokenBackup

\* When actualSaveSettings removes config.json, and from then until the
\* rename, the .temp file holds the whole of settings_, whatever call
\* reported a failure on the way.
NewCopyWhole == phase \in {"removing", "renaming"} => temp = Json(mem)

\* When actualSaveSettings removes config.json, .bak is a copy of it (only
\* where file-system calls succeed: createBackUp does not look).
BackedUpBeforeRemoval ==
    phase = "removing" /\ target.kind # "absent" => bak = target

\* A change in memory always has a save to come: the manager never sits
\* idle with dirty_ set and the timer stopped.
SavePending == phase = "idle" /\ dirty => timer

\* Why NewCopyWhole holds: a save only starts dirty and writes settings_.
SaveInvariant ==
    /\ timer => dirty
    /\ phase \in Saving => dirty
    /\ phase \in Saving /\ ~closing => ~timer
    /\ phase \in {"writing", "removing", "renaming"} => buf = mem
    /\ phase \in Booting \cup {"off"} => mem = EmptyMap /\ ~dirty
    /\ phase \in {"off", "idle", "recovering"} \cup Booting => ~closing
    /\ NewCopyWhole

\* Why CleanMeansStored holds: dirty_ is cleared only after the rename, and
\* a file is recovered by a clean manager only if it read nothing from it
\* or could not read it again.
CleanInvariant ==
    /\ phase = "recovering" /\ ~dirty => mem = EmptyMap \/ (WholeApi /\ Fails)
    /\ CleanMeansStored

\* Why BackedUpBeforeRemoval and SavePending hold when no call fails: the
\* calls of a save find the files as the calls before left them.
PendingInvariant ==
    /\ phase \in {"idle", "recovering"} /\ dirty => timer
    /\ phase \in Booting \cup {"off"} => ~dirty
    /\ phase = "copying" => bak.kind = "absent"
    /\ phase \in {"opening", "writing", "removing"} /\ target.kind # "absent"
          => bak = target
    /\ phase \in {"writing", "removing", "renaming"} => temp.kind # "absent"
    /\ phase = "renaming" => target.kind = "absent"

(***************************************************************************)
(* The manager as a store: what a restart would read and what getSetting   *)
(* answers.                                                                *)
(***************************************************************************)
OnDisk ==
    IF phase = "resetting" THEN buf
    ELSE IF phase = "renaming" THEN Parsed(temp)
    ELSE Parsed(target)

View == IF mem = EmptyMap THEN OnDisk ELSE mem

Store == INSTANCE ConfigStore WITH store <- OnDisk, view <- View

\* The manager implements the store ConfigStore promises: an operation
\* changes one key, a save puts the whole of memory on disk at once, a
\* crash forgets only what was not saved.
ImplementsStore == Store!Spec

\* Every change reaches the file: the save timer is not restarted by later
\* changes, so a busy user cannot put the save off for ever.
ChangesReachDisk == (View # OnDisk) ~> (View = OnDisk)
=============================================================================
