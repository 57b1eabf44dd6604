------------------------------- MODULE Dialogs -------------------------------
(***************************************************************************)
(* The questions of the program, all asked with a modal TtContentDialog    *)
(* (lib_ui/ui/control/TtContentDialog.cpp) over a shadowed window, and     *)
(* what their answers lead to: closing a changed tab (TabWindow), leaving, *)
(* restarting with another language, saving recordings (MainWindow).       *)
(*                                                                         *)
(* exec() answers with result(), which every done() sets anew, and then    *)
(* deletes a dialog that is WA_DeleteOnClose.                              *)
(***************************************************************************)
EXTENDS FiniteSets, Naturals

CONSTANTS
    Sizes,      \* sizes of the window
    Languages,  \* translation files of the program
    Windows,    \* the serial windows that are open
    Directories, DataDirectory,  \* that can be chosen, and the one by default
    MaxAnswers  \* bound

Unset == "unset"
NoShadow == 0
None == "none"

VARIABLES
    size,           \* of the window
    question,       \* that is on the screen
    dialog,         \* its result, "closing" and clicked_type_
    shadow,         \* the size of _shadowWidget
    compiling, processedCount, menu,  \* of the language menu
    language, running,                \* in config.ini, and loaded by main
    SaveDirectory,  \* the setting
    save,           \* of the dialog for recordings, see NewSave
    files,          \* the last recordings: directory and window
    message,        \* the message bar that told of them
    last,           \* the last answer, and what came of it
    answers

vars == <<size, question, dialog, shadow, compiling, processedCount, menu, language, running,
          SaveDirectory, save, files, message, last, answers>>

mainVars == <<compiling, processedCount, menu, language, running>>
saveVars == <<SaveDirectory, save, files, message>>

NewDialog == [result |-> "Rejected", closing |-> FALSE, clicked |-> "left"]

\* The directory of the rows and of what the right button does with a copy of
\* it, and the one changePathBtn changes; the windows that are checked.
NewSave(directory, checked) ==
    [shown |-> directory, copied |-> directory, saveDirectory |-> directory, checked |-> checked]

Init ==
    /\ size \in Sizes
    /\ question = None /\ dialog = NewDialog /\ shadow = NoShadow
    /\ compiling = Languages /\ processedCount = 0 /\ menu = FALSE
    /\ language \in {"zh", "en"} /\ running = language
    /\ SaveDirectory = Unset /\ save = NewSave(Unset, {})
    /\ files = {} /\ message = None
    /\ last = [question |-> None, answer |-> None, effects |-> {}]
    /\ answers = 0

-----------------------------------------------------------------------------
(* TtContentDialog *)

\* The constructor shows the shadow, over all of the window.
Ask(q) ==
    /\ question = None /\ answers < MaxAnswers
    /\ question' = q /\ dialog' = NewDialog /\ shadow' = size

\* eventFilter: the shadow stays as large as the window.
Resize(s) ==
    /\ size' = s
    /\ shadow' = IF shadow = NoShadow THEN NoShadow ELSE s
    /\ UNCHANGED <<question, dialog, mainVars, saveVars, last, answers>>

done(d, result) == [d EXCEPT !.result = result]

onButtonClicked(d, button) ==
    done([d EXCEPT !.clicked = button], IF button = "left" THEN "Rejected" ELSE "Accepted")

\* Wrong: closing is always a rejection.
closeEventRejected(d) ==
    IF d.closing THEN d ELSE done([d EXCEPT !.closing = TRUE], "Rejected")

\* Modal, the first time: accepted, whatever the result was.
closeEvent(d) ==
    IF d.closing THEN d ELSE done([d EXCEPT !.closing = TRUE], "Accepted")

ThreeOptions == {"leave"}

Answers(q) ==
    {"left", "right", "escape", "system"} \cup IF q \in ThreeOptions THEN {"middle"} ELSE {}

\* A button, Esc (no close event reaches the dialog), or Alt-F4.  A button of a
\* dialog with two closes it as well.
Answered(d, answer) ==
    IF answer = "escape" THEN done(d, "Rejected")
    ELSE IF answer = "system" THEN closeEvent(d)
    ELSE IF question \in ThreeOptions THEN onButtonClicked(d, answer)
    ELSE closeEvent(onButtonClicked(d, answer))

\* exec returns, and the dialog is deleted, its shadow with it.
Answer(q, answer, effects) ==
    /\ question = q /\ answer \in Answers(q)
    /\ question' = None /\ dialog' = NewDialog /\ shadow' = NoShadow
    /\ last' = [question |-> q, answer |-> answer, effects |-> effects]
    /\ answers' = answers + 1
    /\ UNCHANGED size

Accepted(answer) == Answered(dialog, answer).result = "Accepted"

-----------------------------------------------------------------------------
(* Those who ask *)

\* TabWindow::handleTabClose, of a changed session that does not work.
CloseTab ==
    Ask("close tab") /\ UNCHANGED <<size, mainVars, saveVars, last, answers>>

CloseTabAnswered(answer) ==
    /\ Answer("close tab", answer, IF Accepted(answer) THEN {"saved", "closed"} ELSE {"closed"})
    /\ UNCHANGED <<mainVars, saveVars>>

Leave == Ask("leave") /\ UNCHANGED <<size, mainVars, saveVars, last, answers>>

\* Which button it was is read from a dialog that is deleted: it can be any.
LeaveAnswered(answer) ==
    /\ \E effect \in {"minimized", "left"} :
          Answer("leave", answer, IF Accepted(answer) THEN {effect} ELSE {})
    /\ UNCHANGED <<mainVars, saveVars>>

\* lrelease has ended for a file.  All have succeeded: the menu is built.
CompileFinished(file, success) ==
    /\ file \in compiling
    /\ compiling' = compiling \ {file}
    /\ LET count == IF success THEN processedCount + 1 ELSE processedCount
           all == success /\ count >= Cardinality(Languages)
       IN  /\ menu' = (menu \/ all)
           /\ processedCount' = IF all THEN 0 ELSE count
    /\ UNCHANGED <<size, question, dialog, shadow, language, running, saveVars, last, answers>>

changeLanguage(qmFile) ==
    /\ menu /\ Ask("restart")
    /\ language' = qmFile
    /\ UNCHANGED <<size, compiling, processedCount, menu, running, saveVars, last, answers>>

\* main() knows two languages.
Loaded(qmFile) == IF qmFile = "zh" THEN "zh" ELSE "en"

\* The program that is started compiles the files again.
changeLanguageAnswered(answer) ==
    /\ Answer("restart", answer, IF Accepted(answer) THEN {"restarted"} ELSE {})
    /\ IF Accepted(answer)
       THEN /\ running' = Loaded(language)
            /\ compiling' = Languages /\ processedCount' = 0 /\ menu' = FALSE
       ELSE UNCHANGED <<running, compiling, processedCount, menu>>
    /\ UNCHANGED <<language, saveVars>>

\* saveCsvFile: the first of the windows is checked.
saveCsvFile ==
    /\ Ask("save")
    /\ save' = NewSave(IF SaveDirectory = Unset THEN DataDirectory ELSE SaveDirectory,
                       {CHOOSE w \in Windows : TRUE})
    /\ UNCHANGED <<size, mainVars, SaveDirectory, files, message, last, answers>>

Check(w) ==
    /\ question = "save"
    /\ save' = [save EXCEPT !.checked = IF w \in @ THEN @ \ {w} ELSE @ \cup {w}]
    /\ UNCHANGED <<size, question, dialog, shadow, mainVars, SaveDirectory, files, message, last,
                   answers>>

\* Neither the rows nor the copy are told.
ChangePath(directory) ==
    /\ question = "save"
    /\ save' = [save EXCEPT !.saveDirectory = directory]
    /\ SaveDirectory' = directory
    /\ UNCHANGED <<size, question, dialog, shadow, mainVars, files, message, last, answers>>

\* Wrong: the right button sees what was changed.
TargetChanged == save.saveDirectory

Target == save.copied

\* SerialWindow: the path it is given is whole, so that neither SaveDirectory nor
\* the user is asked where the file goes.
saveWaveFormData(directory, w) == [directory |-> directory, window |-> w]

\* Each checked window saves its file or fails to.
Report(succeeded) ==
    IF save.checked = {} THEN "nothing selected"
    ELSE IF succeeded = save.checked THEN "saved"
    ELSE IF succeeded = {} THEN "failed"
    ELSE "partly saved"

saveCsvFileAnswered(answer) ==
    /\ IF answer # "right"
       THEN Answer("save", answer, {}) /\ UNCHANGED <<files, message>>
       ELSE \E succeeded \in SUBSET save.checked :
                /\ files' = {saveWaveFormData(Target, w) : w \in succeeded}
                /\ message' = Report(succeeded)
                /\ Answer("save", answer, {"written"})
    /\ UNCHANGED <<mainVars, SaveDirectory, save>>

Next ==
    \/ \E s \in Sizes : Resize(s)
    \/ CloseTab \/ Leave \/ saveCsvFile
    \/ \E qmFile \in Languages :
          changeLanguage(qmFile) \/ \E success \in BOOLEAN : CompileFinished(qmFile, success)
    \/ \E w \in Windows : Check(w)
    \/ \E directory \in Directories : ChangePath(directory)
    \/ \E answer \in {"left", "middle", "right", "escape", "system"} :
          \/ CloseTabAnswered(answer) \/ LeaveAnswered(answer)
          \/ changeLanguageAnswered(answer) \/ saveCsvFileAnswered(answer)

Spec == Init /\ [][Next]_vars

-----------------------------------------------------------------------------
Promised == [q \in {"close tab", "restart", "save"} |->
    CASE q = "close tab" -> "saved" [] q = "restart" -> "restarted" [] q = "save" -> "written"]

\* The right button does what it says, and Esc nothing but close a tab, although
\* the result is set two or three times on the way; a restart comes up in the
\* language chosen last; and the window is under a shadow of its own size as
\* long as something is asked, and under none after any answer.  (A left button
\* of two, which says "cancel" or "later", does what the right one does.)
AnswersAreTaken ==
    /\ last.answer = "right" /\ last.question \in DOMAIN Promised =>
          Promised[last.question] \in last.effects
    /\ last.answer = "escape" => last.effects \subseteq {"closed"}
    /\ "restarted" \in last.effects /\ question # "restart" => running = Loaded(language)
    /\ question = None <=> shadow = NoShadow
    /\ shadow \in {NoShadow, size}

\* Recordings are where their rows said they would be, in a file for each window
\* that was checked and could be saved, of which the message tells the truth,
\* even when another directory was chosen meanwhile: that one is for the next time.
FilesAreWhereTheRowsSay ==
    last.question = "save" /\ last.answer = "right" /\ question # "save" =>
        /\ \A file \in files : file.directory = save.shown /\ file.window \in save.checked
        /\ message = "saved" <=> {file.window : file \in files} = save.checked /\ files # {}
        /\ message = "failed" => files = {} /\ save.checked # {}
=============================================================================
