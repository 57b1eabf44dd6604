-------------------------- MODULE ScreenWidgetsProofs --------------------------
(***************************************************************************)
(* Proofs about the widgets of ScreenWidgets, for any windows, texts and   *)
(* bounds: the message bars line up, what the dialogs do is what was       *)
(* answered, and what the plots hold is what was received.                 *)
(***************************************************************************)
EXTENDS ScreenWidgets, FiniteSetTheorems, SequenceTheorems, WellFoundedInduction,
        TLAPS

-----------------------------------------------------------------------------
(* A widget is of one kind *)

\* A behaviour of the widgets is one of the module of each widget.
LEMMA KindsApart ==
    WidgetSpec => /\ Init /\ [][Next]_vars
                  /\ Plot!Spec /\ Modbus!Spec /\ Dialog!Spec /\ Channel!Spec /\ Mqtt!Spec
<1>1. WidgetInit => /\ Init /\ Plot!Init /\ Modbus!Init /\ Dialog!Init /\ Channel!Init
                    /\ Mqtt!Init
  BY DEF WidgetInit
<1>2. [WidgetNext]_widgetVars => [Next]_vars
  BY DEF WidgetNext, BarStep, PlotStep, ModbusStep, DialogStep, ChannelStep, MqttStep, widgetVars
<1>3. [WidgetNext]_widgetVars => [Dialog!Next]_Dialog!vars
  BY DEF WidgetNext, BarStep, PlotStep, ModbusStep, DialogStep, ChannelStep, MqttStep,
     widgetVars, dialogVars, Dialog!vars
<1>4. [WidgetNext]_widgetVars => [Channel!Next]_Channel!vars
  BY DEF WidgetNext, BarStep, PlotStep, ModbusStep, DialogStep, ChannelStep, MqttStep,
     widgetVars, channelVars, Channel!vars, Channel!store, Channel!name, Channel!mouse
<1>5. [WidgetNext]_widgetVars => [Mqtt!Next]_Mqtt!vars
  BY DEF WidgetNext, BarStep, PlotStep, ModbusStep, DialogStep, ChannelStep, MqttStep,
     widgetVars, mqttVars, Mqtt!vars, Mqtt!maskVars, Mqtt!formVars, Mqtt!propertyVars
<1>6. [WidgetNext]_widgetVars => [Plot!Next]_Plot!vars
  BY DEF WidgetNext, BarStep, PlotStep, ModbusStep, DialogStep, ChannelStep, MqttStep,
     widgetVars, plotVars, Plot!vars
<1>7. [WidgetNext]_widgetVars => [Modbus!Next]_Modbus!vars
  BY DEF WidgetNext, BarStep, PlotStep, ModbusStep, DialogStep, ChannelStep, MqttStep,
     widgetVars, modbusVars, Modbus!vars
<1> QED
  BY <1>1, <1>2, <1>3, <1>4, <1>5, <1>6, <1>7, PTL
     DEF WidgetSpec, Plot!Spec, Modbus!Spec, Dialog!Spec, Channel!Spec, Mqtt!Spec

-----------------------------------------------------------------------------
(* Dialogs *)

\* While it asks, a dialog is as it was made, and the directory it copied is the
\* one its rows show; a shadow fits the window.  What came of the last answer
\* is what that button promises.
DialogAsks ==
    /\ dialog = Dialog!NewDialog
    /\ size \in Sizes
    /\ shadow = IF question = Dialog!None THEN Dialog!NoShadow ELSE size
    /\ save.copied = save.shown

AnswersDo ==
    /\ last.answer = "right" /\ last.question \in DOMAIN Dialog!Promised =>
          Dialog!Promised[last.question] \in last.effects
    /\ last.answer = "escape" => last.effects \subseteq {"closed"}
    /\ "restarted" \in last.effects /\ question # "restart" => running = Dialog!Loaded(language)

DialogInvariant == DialogAsks /\ AnswersDo /\ Dialog!FilesAreWhereTheRowsSay

\* No step lets a dialog, while it asks, be other than it was made.
LEMMA DialogAsksStep ==
    ASSUME DialogAsks, [Dialog!Next]_Dialog!vars
    PROVE  DialogAsks'
<1> USE DEF DialogAsks
<1>1. CASE UNCHANGED Dialog!vars
  BY <1>1 DEF Dialog!vars, Dialog!NewDialog, Dialog!None, Dialog!NoShadow
<1>2. ASSUME NEW s \in Sizes, Dialog!Resize(s) PROVE DialogAsks'
  BY <1>2, DialogsAssumption
     DEF Dialog!Resize, Dialog!saveVars, Dialog!NewDialog, Dialog!None, Dialog!NoShadow
<1>3. CASE Dialog!CloseTab \/ Dialog!Leave
  BY <1>3 DEF Dialog!CloseTab, Dialog!Leave, Dialog!Ask, Dialog!saveVars, Dialog!NewDialog,
     Dialog!None, Dialog!NoShadow
<1>4. CASE Dialog!saveCsvFile
  BY <1>4 DEF Dialog!saveCsvFile, Dialog!Ask, Dialog!NewSave, Dialog!NewDialog, Dialog!None,
     Dialog!NoShadow
<1>5. ASSUME NEW q \in Languages, Dialog!changeLanguage(q) PROVE DialogAsks'
  BY <1>5 DEF Dialog!changeLanguage, Dialog!Ask, Dialog!saveVars, Dialog!NewDialog,
     Dialog!None, Dialog!NoShadow
<1>6. ASSUME NEW q \in Languages, NEW b \in BOOLEAN, Dialog!CompileFinished(q, b)
      PROVE  DialogAsks'
  BY <1>6 DEF Dialog!CompileFinished, Dialog!saveVars, Dialog!NewDialog, Dialog!None,
     Dialog!NoShadow
<1>7. ASSUME NEW w \in SerialWindows, Dialog!Check(w) PROVE DialogAsks'
  BY <1>7 DEF Dialog!Check, Dialog!NewDialog, Dialog!None, Dialog!NoShadow
<1>8. ASSUME NEW d \in Directories, Dialog!ChangePath(d) PROVE DialogAsks'
  BY <1>8 DEF Dialog!ChangePath, Dialog!NewDialog, Dialog!None, Dialog!NoShadow
<1>9. ASSUME NEW answer, \/ Dialog!CloseTabAnswered(answer) \/ Dialog!LeaveAnswered(answer)
                         \/ Dialog!changeLanguageAnswered(answer)
                         \/ Dialog!saveCsvFileAnswered(answer)
      PROVE  DialogAsks'
  <2>1. /\ dialog' = Dialog!NewDialog /\ question' = Dialog!None
        /\ shadow' = Dialog!NoShadow /\ size' = size /\ save' = save
    BY <1>9 DEF Dialog!CloseTabAnswered, Dialog!LeaveAnswered, Dialog!changeLanguageAnswered,
       Dialog!saveCsvFileAnswered, Dialog!Answer, Dialog!saveVars
  <2> QED
    BY <2>1 DEF Dialog!NewDialog, Dialog!None, Dialog!NoShadow
<1> QED
  BY <1>1, <1>2, <1>3, <1>4, <1>5, <1>6, <1>7, <1>8, <1>9 DEF Dialog!Next

\* The right button of two accepts, and Esc never does.
LEMMA RightAcceptsEscapeRejects ==
    ASSUME DialogAsks
    PROVE  /\ question \in {"close tab", "restart"} => Dialog!Accepted("right")
           /\ ~Dialog!Accepted("escape")
  BY DEF DialogAsks, Dialog!Accepted, Dialog!Answered, Dialog!NewDialog, Dialog!ThreeOptions,
     Dialog!closeEvent, Dialog!onButtonClicked, Dialog!done

\* What the right buttons of the questions promise.
LEMMA PromisesAre ==
    /\ DOMAIN Dialog!Promised = {"close tab", "restart", "save"}
    /\ Dialog!Promised["close tab"] = "saved" /\ Dialog!Promised["restart"] = "restarted"
    /\ Dialog!Promised["save"] = "written"
  BY DEF Dialog!Promised

\* No step leaves an answer that its button did not promise, or a program in
\* another language than the one it was restarted for.
LEMMA AnswersDoStep ==
    ASSUME DialogAsks, AnswersDo, [Dialog!Next]_Dialog!vars
    PROVE  AnswersDo'
<1> USE DEF AnswersDo
<1>1. CASE UNCHANGED <<last, language, running>> /\ (question # "restart" \/ question' = question)
  BY <1>1
<1>2. ASSUME NEW q \in Languages, Dialog!changeLanguage(q) PROVE AnswersDo'
  BY <1>2 DEF Dialog!changeLanguage, Dialog!Ask
<1>3. ASSUME NEW answer, Dialog!CloseTabAnswered(answer) PROVE AnswersDo'
  BY <1>3, RightAcceptsEscapeRejects, PromisesAre
     DEF Dialog!CloseTabAnswered, Dialog!Answer, Dialog!mainVars
<1>4. ASSUME NEW answer, Dialog!LeaveAnswered(answer) PROVE AnswersDo'
  <2>1. PICK effects \in SUBSET {"minimized", "left"} :
            /\ Dialog!Answer("leave", answer, effects)
            /\ effects # {} => Dialog!Accepted(answer)
    BY <1>4 DEF Dialog!LeaveAnswered
  <2>2. last' = [question |-> "leave", answer |-> answer, effects |-> effects]
    BY <2>1 DEF Dialog!Answer
  <2>3. "leave" \notin DOMAIN Dialog!Promised /\ "restarted" \notin effects
    BY PromisesAre
  <2>4. answer = "escape" => effects = {}
    BY <2>1, RightAcceptsEscapeRejects
  <2> QED
    BY <2>2, <2>3, <2>4
<1>5. ASSUME NEW answer, Dialog!changeLanguageAnswered(answer) PROVE AnswersDo'
  BY <1>5, RightAcceptsEscapeRejects, PromisesAre DEF Dialog!changeLanguageAnswered, Dialog!Answer
<1>6. ASSUME NEW answer, Dialog!saveCsvFileAnswered(answer) PROVE AnswersDo'
  <2>1. PICK effects \in SUBSET {"written"} :
            /\ Dialog!Answer("save", answer, effects)
            /\ answer = "right" <=> "written" \in effects
    <3>1. CASE answer = "right"
      BY <1>6, <3>1 DEF Dialog!saveCsvFileAnswered
    <3>2. CASE answer # "right"
      BY <1>6, <3>2 DEF Dialog!saveCsvFileAnswered
    <3> QED
      BY <3>1, <3>2
  <2>2. last' = [question |-> "save", answer |-> answer, effects |-> effects]
    BY <2>1 DEF Dialog!Answer
  <2>3. "restarted" \notin effects /\ (answer = "escape" => effects = {})
    BY <2>1
  <2> QED
    BY <2>1, <2>2, <2>3, PromisesAre
<1>7. CASE \/ \E s \in Sizes : Dialog!Resize(s)
           \/ Dialog!CloseTab \/ Dialog!Leave \/ Dialog!saveCsvFile
           \/ \E q \in Languages, b \in BOOLEAN : Dialog!CompileFinished(q, b)
           \/ \E w \in SerialWindows : Dialog!Check(w)
           \/ \E d \in Directories : Dialog!ChangePath(d)
           \/ UNCHANGED Dialog!vars
  <2>1. UNCHANGED <<last, language, running>> /\ (question # "restart" \/ question' = question)
    BY <1>7 DEF Dialog!Resize, Dialog!CloseTab, Dialog!Leave, Dialog!saveCsvFile, Dialog!Ask,
       Dialog!CompileFinished, Dialog!Check, Dialog!ChangePath, Dialog!vars, Dialog!mainVars,
       Dialog!None
  <2> QED
    BY <1>1, <2>1
<1> QED
  BY <1>2, <1>3, <1>4, <1>5, <1>6, <1>7 DEF Dialog!Next

\* What was answered is remembered.
LEMMA LastIsTheAnswer ==
    ASSUME NEW q, NEW answer, NEW effects, Dialog!Answer(q, answer, effects)
    PROVE  last'.question = q /\ last'.answer = answer /\ last'.effects = effects
<1>1. last' = [question |-> q, answer |-> answer, effects |-> effects]
  BY DEF Dialog!Answer
<1> QED
  BY <1>1

\* Files stay as they were told of until the next are asked for, and are written
\* where the rows of the dialog say.
LEMMA FilesStep ==
    ASSUME DialogAsks, Dialog!FilesAreWhereTheRowsSay, [Dialog!Next]_Dialog!vars
    PROVE  Dialog!FilesAreWhereTheRowsSay'
<1> USE DEF Dialog!FilesAreWhereTheRowsSay
<1>1. CASE UNCHANGED <<last, files, message, save>> /\ (question # "save" \/ question' = question)
  BY <1>1
<1>2. CASE question' = "save"
  BY <1>2
<1>3. CASE last'.question # "save"
  BY <1>3
<1>4. ASSUME NEW answer, Dialog!saveCsvFileAnswered(answer)
      PROVE  Dialog!FilesAreWhereTheRowsSay'
  <2>1. CASE answer # "right"
    BY <1>4, <2>1 DEF Dialog!saveCsvFileAnswered, Dialog!Answer
  <2>2. CASE answer = "right"
    <3>1. PICK succeeded \in SUBSET save.checked :
              /\ files' = {Dialog!saveWaveFormData(Dialog!Target, w) : w \in succeeded}
              /\ message' = Dialog!Report(succeeded)
      BY <1>4, <2>2 DEF Dialog!saveCsvFileAnswered
    <3>2. save' = save /\ save.copied = save.shown
      BY <1>4 DEF Dialog!saveCsvFileAnswered, DialogAsks
    <3> DEFINE file(w) == [directory |-> save.shown, window |-> w]
    <3>c. files' = {file(w) : w \in succeeded}
      BY <3>1, <3>2 DEF Dialog!saveWaveFormData, Dialog!Target
    <3>d. \A w : file(w).directory = save.shown /\ file(w).window = w
      OBVIOUS
    <3> HIDE DEF file
    <3>3. /\ \A f \in files' : f.directory = save.shown /\ f.window \in succeeded
          /\ \A w \in succeeded : \E f \in files' : f.window = w
      BY <3>c, <3>d
    <3>a. {f.window : f \in files'} = succeeded
      BY <3>3
    <3>b. files' = {} <=> succeeded = {}
      BY <3>3
    <3>4. /\ message' = "saved" <=> succeeded = save.checked /\ succeeded # {}
          /\ message' = "failed" => succeeded = {} /\ save.checked # {}
      BY <3>1 DEF Dialog!Report
    <3> QED
      BY <3>1, <3>2, <3>3, <3>4, <3>a, <3>b
  <2> QED
    BY <2>1, <2>2
<1>5. ASSUME NEW answer, \/ Dialog!CloseTabAnswered(answer) \/ Dialog!LeaveAnswered(answer)
                         \/ Dialog!changeLanguageAnswered(answer)
      PROVE  last'.question # "save"
  <2>1. \E e : \/ Dialog!Answer("close tab", answer, e) \/ Dialog!Answer("leave", answer, e)
               \/ Dialog!Answer("restart", answer, e)
    BY <1>5, Zenon DEF Dialog!CloseTabAnswered, Dialog!LeaveAnswered,
       Dialog!changeLanguageAnswered
  <2> QED
    BY <2>1, LastIsTheAnswer
<1>6. CASE \/ Dialog!saveCsvFile \/ \E w \in SerialWindows : Dialog!Check(w)
           \/ \E d \in Directories : Dialog!ChangePath(d)
  <2>1. question' = "save"
    BY <1>6 DEF Dialog!saveCsvFile, Dialog!Ask, Dialog!Check, Dialog!ChangePath
  <2> QED
    BY <1>2, <2>1
<1>7. CASE \/ \E s \in Sizes : Dialog!Resize(s)
           \/ Dialog!CloseTab \/ Dialog!Leave
           \/ \E q \in Languages :
                  Dialog!changeLanguage(q) \/ \E b \in BOOLEAN : Dialog!CompileFinished(q, b)
           \/ UNCHANGED Dialog!vars
  <2>1. UNCHANGED <<last, files, message, save>> /\ (question # "save" \/ question' = question)
    BY <1>7 DEF Dialog!Resize, Dialog!CloseTab, Dialog!Leave, Dialog!Ask, Dialog!changeLanguage,
       Dialog!CompileFinished, Dialog!vars, Dialog!saveVars, Dialog!None
  <2> QED
    BY <1>1, <2>1
<1> QED
  BY <1>3, <1>4, <1>5, <1>6, <1>7 DEF Dialog!Next

\* What dialogs do is what was answered, and recordings are where they said.
LEMMA DialogsAnswered == Dialog!Spec => [](Dialog!AnswersAreTaken /\ Dialog!FilesAreWhereTheRowsSay)
<1>1. Dialog!Init => DialogInvariant
  <2> SUFFICES ASSUME Dialog!Init PROVE DialogInvariant
    OBVIOUS
  <2>1. DialogAsks
    BY DEF Dialog!Init, DialogAsks, Dialog!NewSave, Dialog!None
  <2>2. last = [question |-> Dialog!None, answer |-> Dialog!None, effects |-> {}]
    BY DEF Dialog!Init
  <2>3. AnswersDo /\ Dialog!FilesAreWhereTheRowsSay
    BY <2>2 DEF AnswersDo, Dialog!FilesAreWhereTheRowsSay, Dialog!None
  <2> QED
    BY <2>1, <2>3 DEF DialogInvariant
<1>2. DialogInvariant /\ [Dialog!Next]_Dialog!vars => DialogInvariant'
  BY DialogAsksStep, AnswersDoStep, FilesStep DEF DialogInvariant
<1>3. DialogInvariant => Dialog!AnswersAreTaken /\ Dialog!FilesAreWhereTheRowsSay
  <2> SUFFICES ASSUME DialogInvariant PROVE Dialog!AnswersAreTaken
    BY DEF DialogInvariant
  <2>1. (question = Dialog!None <=> shadow = Dialog!NoShadow) /\ shadow \in {Dialog!NoShadow, size}
    BY DialogsAssumption DEF DialogInvariant, DialogAsks, Dialog!NoShadow
  <2> QED
    BY <2>1 DEF DialogInvariant, AnswersDo, Dialog!AnswersAreTaken
<1> QED
  BY <1>1, <1>2, <1>3, PTL DEF Dialog!Spec


-----------------------------------------------------------------------------
(* Entry and dialogs of a channel *)

ButtonTypes ==
    [text : Channel!Titles, color : Colors, is_checked : BOOLEAN, is_pressed : BOOLEAN,
     checkbox_pressed : BOOLEAN, ignore : BOOLEAN]

DialogTypes ==
    [title : Channel!Titles, m_chosenCheckBlockColor : Colors, lua_code : Channel!Codes,
     lua_code_copy : Channel!Codes]

ChannelTypes ==
    /\ channel_info_ \in Channel!Infos \cup {Nothing}
    /\ Channel!Exists => button \in ButtonTypes
    /\ channelDialog \in DialogTypes \cup {Nothing}
    /\ box \in Channel!Codes \cup {Nothing}
    /\ box # Nothing => channelDialog \in DialogTypes \ {Nothing}
    /\ rename_editor_ \in Channel!Titles \cup {Nothing}

\* The draft of a dialog is what the box showed last, and the script of a channel
\* the draft that was accepted.
ChannelDrafts ==
    /\ channelDialog # Nothing => channelDialog.lua_code_copy = displayed
    /\ Channel!Exists => /\ channel_info_.script = accepted
                         /\ accepted # Channel!NoScript => script_code = accepted
                         /\ channel_info_.color = button.color

\* A mouse button is down on an entry that is there, while no dialog is.  What
\* the entry knows of a left button is where that was pressed, or nothing, when
\* it was the second press of two.
ChannelMouse ==
    /\ held # Nothing => Channel!Exists /\ channelDialog = Nothing
    /\ enable \in BOOLEAN /\ (~Channel!Exists => enable = FALSE)
    /\ Channel!Exists =>
          /\ enable <=> button.is_checked
          /\ held = "left" /\ button.is_pressed => (button.checkbox_pressed <=> began = "box")
          /\ held = Nothing /\ before = "left" => ~button.is_pressed

ChannelInvariant == ChannelTypes /\ ChannelDrafts /\ ChannelMouse

\* The type of what a channel and its dialogs keep.
LEMMA ChannelTypesStep ==
    ASSUME ChannelTypes, [Channel!Next]_Channel!vars
    PROVE  ChannelTypes'
<1> USE ChannelAssumption DEF ChannelTypes, Channel!Exists
<1>1. ASSUME NEW b \in Channel!Buttons, NEW place \in Channel!Places,
             Channel!mousePress(b, place) \/ Channel!mouseDoubleClick(b, place)
      PROVE  ChannelTypes'
  <2>1. UNCHANGED <<channel_info_, channelDialog, box>>
    BY <1>1 DEF Channel!mousePress, Channel!mouseDoubleClick, Channel!store, Channel!name
  <2>2. rename_editor_' \in Channel!Titles \cup {Nothing}
    BY <1>1 DEF Channel!mousePress, Channel!mouseDoubleClick, Channel!store, Channel!name,
       Channel!modifyText, Channel!Reaches, ButtonTypes
  <2>3. button' \in ButtonTypes
    BY <1>1 DEF Channel!mousePress, Channel!mouseDoubleClick, Channel!Reaches, ButtonTypes
  <2> QED
    BY <2>1, <2>2, <2>3
<1>2. CASE Channel!mouseRelease
  <2>1. UNCHANGED <<channel_info_, channelDialog, box, rename_editor_>>
    BY <1>2 DEF Channel!mouseRelease, Channel!store, Channel!name
  <2>2. Channel!Exists => button' \in ButtonTypes
    BY <1>2 DEF Channel!mouseRelease, ButtonTypes
  <2> QED
    BY <2>1, <2>2
<1>3. ASSUME NEW text \in Names, Channel!Rename(text) \/ Channel!EditTitle(text)
      PROVE  ChannelTypes'
  BY <1>3 DEF Channel!Rename, Channel!EditTitle, Channel!store, Channel!name, Channel!Modal,
     DialogTypes, Channel!Titles
<1>4. CASE Channel!editingFinished
  <2>1. UNCHANGED <<channel_info_, channelDialog, box>> /\ rename_editor_' = Nothing
    BY <1>4 DEF Channel!editingFinished, Channel!store
  <2>2. Channel!Exists => button' \in ButtonTypes
    BY <1>4 DEF Channel!editingFinished, ButtonTypes
  <2> QED
    BY <2>1, <2>2
<1>5. CASE Channel!Escape
  BY <1>5 DEF Channel!Escape, Channel!store
<1>6. CASE Channel!renameAction
  BY <1>6 DEF Channel!renameAction, Channel!modifyText, Channel!store, Channel!name, ButtonTypes
<1>7. CASE Channel!deleteAction
  BY <1>7 DEF Channel!deleteAction
<1>8. CASE Channel!addAction \/ Channel!editAction
  <2>1. channelDialog' \in DialogTypes
    BY <1>8 DEF Channel!addAction, Channel!editAction, Channel!NewDialog, DialogTypes,
       Channel!Infos, Channel!Titles, Channel!Codes, ButtonTypes
  <2> QED
    BY <1>8, <2>1
       DEF Channel!addAction, Channel!editAction, Channel!Modal, Channel!store, Channel!name
<1>9. ASSUME NEW color \in Colors, Channel!ChooseColor(color) PROVE ChannelTypes'
  BY <1>9 DEF Channel!ChooseColor, Channel!store, Channel!name, Channel!Modal, DialogTypes
<1>10. CASE Channel!scriptButton
  BY <1>10 DEF Channel!scriptButton, Channel!setLuaCode, Channel!store, Channel!name,
     Channel!Modal, DialogTypes, Channel!Codes
<1>11. ASSUME NEW code \in Scripts \cup {Channel!NoScript}, Channel!EditScript(code)
       PROVE  ChannelTypes'
  BY <1>11 DEF Channel!EditScript, Channel!store, Channel!name, Channel!Codes
<1>12. CASE Channel!LeaveBox
  <2>1. /\ channelDialog' = [channelDialog EXCEPT !.lua_code_copy = box] /\ box' = Nothing
        /\ box \in Channel!Codes /\ UNCHANGED <<channel_info_, rename_editor_, button>>
    BY <1>12 DEF Channel!LeaveBox, Channel!store, Channel!name
  <2>2. channelDialog' \in DialogTypes
    BY <2>1 DEF DialogTypes
  <2> QED
    BY <2>1, <2>2
<1>13. CASE Channel!applyChanges
  <2>1. channelDialog' = Nothing /\ box' = Nothing /\ rename_editor_' = rename_editor_
    BY <1>13 DEF Channel!applyChanges, Channel!name
  <2>2. channel_info_' \in Channel!Infos
    BY <1>13 DEF Channel!applyChanges, Channel!Modal, DialogTypes, Channel!Infos
  <2>3. button' \in ButtonTypes
    <3> DEFINE color == channelDialog.m_chosenCheckBlockColor
               title == channelDialog.title
    <3>1. color \in Colors /\ title \in Channel!Titles
      BY <1>13 DEF Channel!applyChanges, Channel!Modal, DialogTypes
    <3>2. CASE Channel!Exists
      <4>1. button' = [button EXCEPT !.color = color]
        BY <1>13, <3>2 DEF Channel!applyChanges
      <4> QED
        BY <3>1, <3>2, <4>1 DEF ButtonTypes
    <3>3. CASE ~Channel!Exists
      <4>1. PICK ignore \in BOOLEAN : button' = Channel!NewButton(title, color, ignore)
        BY <1>13, <3>3 DEF Channel!applyChanges
      <4> QED
        BY <3>1, <4>1 DEF Channel!NewButton, ButtonTypes
    <3> QED
      BY <3>2, <3>3
  <2> QED
    BY <2>1, <2>2, <2>3
<1>14. CASE Channel!reject
  BY <1>14 DEF Channel!reject, Channel!store, Channel!name
<1>15. CASE UNCHANGED Channel!vars
  BY <1>15 DEF Channel!vars, Channel!store, Channel!name
<1> QED
  BY <1>1, <1>2, <1>3, <1>4, <1>5, <1>6, <1>7, <1>8, <1>9, <1>10, <1>11, <1>12, <1>13, <1>14,
     <1>15 DEF Channel!Next

\* A draft stays what was shown, and the script what was accepted.
LEMMA ChannelDraftsStep ==
    ASSUME ChannelTypes, ChannelDrafts, [Channel!Next]_Channel!vars
    PROVE  ChannelDrafts'
<1> USE ChannelAssumption DEF ChannelDrafts, Channel!Exists
<1>1. CASE /\ UNCHANGED <<channel_info_, script_code, accepted, channelDialog, displayed>>
           /\ Channel!Exists => button'.color = button.color
  BY <1>1
<1>2. ASSUME NEW b \in Channel!Buttons, NEW place \in Channel!Places,
             Channel!mousePress(b, place) \/ Channel!mouseDoubleClick(b, place)
      PROVE  ChannelDrafts'
  <2>1. UNCHANGED <<channel_info_, script_code, accepted, channelDialog, displayed>>
    BY <1>2 DEF Channel!mousePress, Channel!mouseDoubleClick, Channel!store
  <2>2. button'.color = button.color
    BY <1>2
       DEF Channel!mousePress, Channel!mouseDoubleClick, Channel!Reaches, ChannelTypes, ButtonTypes
  <2> QED
    BY <1>1, <2>1, <2>2
<1>3. CASE Channel!mouseRelease
  <2>1. UNCHANGED <<channel_info_, script_code, accepted, channelDialog, displayed>>
    BY <1>3 DEF Channel!mouseRelease, Channel!store
  <2>2. Channel!Exists => button'.color = button.color
    BY <1>3 DEF Channel!mouseRelease, ChannelTypes, ButtonTypes
  <2> QED
    BY <1>1, <2>1, <2>2
<1>4. CASE Channel!editingFinished
  <2>1. UNCHANGED <<channel_info_, script_code, accepted, channelDialog, displayed>>
    BY <1>4 DEF Channel!editingFinished, Channel!store
  <2>2. Channel!Exists => button'.color = button.color
    BY <1>4 DEF Channel!editingFinished, ChannelTypes, ButtonTypes
  <2> QED
    BY <1>1, <2>1, <2>2
<1>5. CASE \/ Channel!Escape \/ Channel!renameAction \/ Channel!scriptButton
           \/ \E text \in Names : Channel!Rename(text)
           \/ \E code \in Scripts \cup {Channel!NoScript} : Channel!EditScript(code)
           \/ UNCHANGED Channel!vars
  BY <1>1, <1>5 DEF Channel!Escape, Channel!renameAction, Channel!scriptButton, Channel!Rename,
     Channel!EditScript, Channel!store, Channel!vars
<1>6. ASSUME NEW text, NEW color, Channel!EditTitle(text) \/ Channel!ChooseColor(color)
      PROVE  ChannelDrafts'
  <2>1. UNCHANGED <<channel_info_, script_code, accepted, displayed, button>>
    BY <1>6 DEF Channel!EditTitle, Channel!ChooseColor, Channel!store
  <2>2. channelDialog # Nothing /\ channelDialog'.lua_code_copy = channelDialog.lua_code_copy
    BY <1>6 DEF Channel!EditTitle, Channel!ChooseColor, Channel!Modal, ChannelTypes, DialogTypes
  <2> QED
    BY <2>1, <2>2
<1>7. CASE Channel!deleteAction
  <2>1. channel_info_' = Nothing /\ UNCHANGED <<channelDialog, displayed>>
    BY <1>7 DEF Channel!deleteAction
  <2> QED
    BY <2>1
<1>8. CASE Channel!addAction
  <2>1. UNCHANGED <<channel_info_, script_code, accepted, button>>
    BY <1>8 DEF Channel!addAction, Channel!store
  <2>2. channelDialog'.lua_code_copy = displayed'
    BY <1>8 DEF Channel!addAction, Channel!NewDialog
  <2> QED
    BY <2>1, <2>2
<1>9. CASE Channel!editAction
  <2>1. UNCHANGED <<channel_info_, script_code, accepted, button>>
    BY <1>9 DEF Channel!editAction, Channel!store
  <2>2. channelDialog'.lua_code_copy = displayed'
    BY <1>9 DEF Channel!editAction, Channel!NewDialog
  <2> QED
    BY <2>1, <2>2
<1>10. CASE Channel!LeaveBox
  <2>1. UNCHANGED <<channel_info_, script_code, accepted, button>> /\ displayed' = box
    BY <1>10 DEF Channel!LeaveBox, Channel!store
  <2>2. channelDialog'.lua_code_copy = box
    BY <1>10 DEF Channel!LeaveBox, ChannelTypes, DialogTypes
  <2> QED
    BY <2>1, <2>2
<1>11. CASE Channel!applyChanges
  <2> DEFINE script == channelDialog.lua_code_copy
             color == channelDialog.m_chosenCheckBlockColor
  <2>1. /\ channelDialog # Nothing /\ channelDialog' = Nothing
        /\ accepted' = displayed /\ displayed' = displayed
        /\ script_code' = IF script = Channel!NoScript THEN script_code ELSE script
    BY <1>11 DEF Channel!applyChanges, Channel!Modal
  <2>2. channel_info_'.script = script /\ channel_info_'.color = color
    BY <1>11 DEF Channel!applyChanges
  <2>3. button'.color = color
    <3>1. CASE Channel!Exists
      <4>1. button' = [button EXCEPT !.color = color] /\ button \in ButtonTypes
        BY <1>11, <3>1 DEF Channel!applyChanges, ChannelTypes
      <4> QED
        BY <4>1 DEF ButtonTypes
    <3>2. CASE ~Channel!Exists
      <4>1. PICK ignore \in BOOLEAN :
                button' = Channel!NewButton(channelDialog.title, color, ignore)
        BY <1>11, <3>2 DEF Channel!applyChanges
      <4> QED
        BY <4>1 DEF Channel!NewButton
    <3> QED
      BY <3>1, <3>2
  <2> QED
    BY <2>1, <2>2, <2>3
<1>12. CASE Channel!reject
  <2>1. channelDialog' = Nothing /\ UNCHANGED <<channel_info_, script_code, accepted, button>>
    BY <1>12 DEF Channel!reject, Channel!store
  <2> QED
    BY <2>1
<1> QED
  BY <1>2, <1>3, <1>4, <1>5, <1>6, <1>7, <1>8, <1>9, <1>10, <1>11, <1>12 DEF Channel!Next

\* What the mouse did last, as the entry sees it.
LEMMA ChannelMouseStep ==
    ASSUME ChannelTypes, ChannelMouse, [Channel!Next]_Channel!vars
    PROVE  ChannelMouse'
<1> USE ChannelAssumption DEF ChannelMouse, Channel!Exists
<1>1. CASE /\ UNCHANGED <<channel_info_, enable, held, before, began>>
           /\ held # Nothing => channelDialog' = channelDialog
           /\ \/ button' = button
              \/ \E text \in Channel!Titles : button' = [button EXCEPT !.text = text]
  <2>1. Channel!Exists => /\ button'.is_checked <=> button.is_checked
                          /\ button'.is_pressed <=> button.is_pressed
                          /\ button'.checkbox_pressed <=> button.checkbox_pressed
    <3>1. CASE button' = button
      BY <3>1
    <3>2. ASSUME Channel!Exists, NEW text, button' = [button EXCEPT !.text = text]
          PROVE  /\ button'.is_checked = button.is_checked
                 /\ button'.is_pressed = button.is_pressed
                 /\ button'.checkbox_pressed = button.checkbox_pressed
      BY <3>2 DEF ChannelTypes, ButtonTypes
    <3> QED
      BY <1>1, <3>1, <3>2 DEF Channel!Titles
  <2> QED
    BY <1>1, <2>1
<1>2. CASE \/ Channel!Escape \/ Channel!renameAction \/ Channel!scriptButton
           \/ Channel!addAction \/ Channel!editAction \/ Channel!LeaveBox \/ Channel!reject
           \/ \E text \in Names : Channel!Rename(text) \/ Channel!EditTitle(text)
           \/ \E color \in Colors : Channel!ChooseColor(color)
           \/ \E code \in Scripts \cup {Channel!NoScript} : Channel!EditScript(code)
           \/ UNCHANGED Channel!vars
  <2>1. UNCHANGED <<channel_info_, enable, held, before, began, button>>
    BY <1>2 DEF Channel!Escape, Channel!renameAction, Channel!scriptButton, Channel!addAction,
       Channel!editAction, Channel!LeaveBox, Channel!reject, Channel!Rename, Channel!EditTitle,
       Channel!ChooseColor, Channel!EditScript, Channel!store, Channel!mouse, Channel!vars
  <2>2. held # Nothing => channelDialog' = channelDialog
    BY <1>2 DEF Channel!Escape, Channel!renameAction, Channel!scriptButton, Channel!addAction,
       Channel!editAction, Channel!LeaveBox, Channel!reject, Channel!Rename, Channel!EditTitle,
       Channel!ChooseColor, Channel!EditScript, Channel!vars, Channel!Modal, Channel!Exists,
       ChannelTypes
  <2> QED
    BY <1>1, <2>1, <2>2
<1>3. CASE Channel!editingFinished
  <2>1. /\ UNCHANGED <<channel_info_, enable, held, before, began, channelDialog>>
        /\ \/ button' = button
           \/ \E text \in Channel!Titles : button' = [button EXCEPT !.text = text]
    BY <1>3 DEF Channel!editingFinished, Channel!store, Channel!mouse, ChannelTypes
  <2> QED
    BY <1>1, <2>1
<1>4. ASSUME NEW b \in Channel!Buttons, NEW place \in Channel!Places, Channel!mousePress(b, place)
      PROVE  ChannelMouse'
  <2>1. /\ UNCHANGED <<channel_info_, enable, channelDialog, before>> /\ held' = b
        /\ Channel!Exists /\ channelDialog = Nothing /\ b # Nothing
    BY <1>4 DEF Channel!mousePress, Channel!Reaches, Channel!Modal, Channel!store, Channel!Buttons
  <2>2. CASE b = "left"
    <3>1. /\ button' = [button EXCEPT !.checkbox_pressed = (place = "box"), !.is_pressed = TRUE]
          /\ began' = place
      BY <1>4, <2>2 DEF Channel!mousePress
    <3>2. /\ button'.checkbox_pressed <=> place = "box"
          /\ button'.is_checked <=> button.is_checked
      BY <2>1, <3>1 DEF ChannelTypes, ButtonTypes
    <3> QED
      BY <2>1, <3>1, <3>2
  <2>3. CASE b # "left"
    <3>1. button' = button
      BY <1>4, <2>3 DEF Channel!mousePress
    <3> QED
      BY <2>1, <2>3, <3>1
  <2> QED
    BY <2>2, <2>3
<1>5. ASSUME NEW b \in Channel!Buttons, NEW place \in Channel!Places,
             Channel!mouseDoubleClick(b, place)
      PROVE  ChannelMouse'
  <2>1. /\ UNCHANGED <<channel_info_, enable, channelDialog, before, began>> /\ held' = b
        /\ Channel!Exists /\ channelDialog = Nothing /\ b # Nothing
        /\ held = Nothing /\ before = b
    BY <1>5 DEF Channel!mouseDoubleClick, Channel!Reaches, Channel!Modal, Channel!store,
       Channel!Buttons
  <2>2. button' = button \/ button' = [button EXCEPT !.ignore = TRUE]
    BY <1>5 DEF Channel!mouseDoubleClick
  <2>3. /\ button'.is_checked <=> button.is_checked
        /\ button'.is_pressed <=> button.is_pressed
    BY <2>1, <2>2 DEF ChannelTypes, ButtonTypes
  <2> QED
    BY <2>1, <2>3
<1>6. CASE Channel!mouseRelease
  <2> DEFINE pressed == button.is_pressed \/ button.ignore
             clicked == pressed /\ held = "left"
             checked == IF clicked /\ button.checkbox_pressed THEN ~button.is_checked
                        ELSE button.is_checked
  <2>1. /\ UNCHANGED <<channel_info_, channelDialog, began>> /\ held' = Nothing /\ before' = held
        /\ button' = [button EXCEPT !.ignore = FALSE, !.is_pressed = pressed /\ ~clicked,
                                    !.is_checked = checked]
        /\ enable' = IF checked # button.is_checked THEN checked ELSE enable
        /\ Channel!Exists
    BY <1>6 DEF Channel!mouseRelease, Channel!store
  <2>2. button.is_checked \in BOOLEAN /\ button.is_pressed \in BOOLEAN /\ button.ignore \in BOOLEAN
    BY <2>1 DEF ChannelTypes, ButtonTypes
  <2>3. button'.is_pressed <=> pressed /\ ~clicked
    BY <2>1 DEF ChannelTypes, ButtonTypes
  <2>4. button'.is_checked <=> checked
    BY <2>1 DEF ChannelTypes, ButtonTypes
  <2>5. enable' \in BOOLEAN /\ (enable' <=> button'.is_checked)
    BY <2>1, <2>2, <2>4
  <2>6. before' = "left" => ~button'.is_pressed
    BY <2>1, <2>3
  <2> QED
    BY <2>1, <2>5, <2>6
<1>7. CASE Channel!deleteAction
  BY <1>7 DEF Channel!deleteAction
<1>8. CASE Channel!applyChanges
  <2>1. UNCHANGED <<enable, held, before, began>> /\ held = Nothing
    BY <1>8 DEF Channel!applyChanges, Channel!Modal, Channel!mouse
  <2>2. CASE Channel!Exists
    <3>1. button' = [button EXCEPT !.color = channelDialog.m_chosenCheckBlockColor]
      BY <1>8, <2>2 DEF Channel!applyChanges
    <3>2. /\ button'.is_checked <=> button.is_checked
          /\ button'.is_pressed <=> button.is_pressed
      BY <2>2, <3>1 DEF ChannelTypes, ButtonTypes
    <3>3. channel_info_' # Nothing
      <4>1. channel_info_' \in Channel!Infos
        BY <1>8 DEF Channel!applyChanges, Channel!Modal, ChannelTypes, DialogTypes, Channel!Infos
      <4> QED
        BY <4>1
    <3> QED
      BY <2>1, <2>2, <3>2, <3>3
  <2>3. CASE ~Channel!Exists
    <3>1. \E ignore \in BOOLEAN : button' = Channel!NewButton(channelDialog.title,
                                       channelDialog.m_chosenCheckBlockColor, ignore)
      BY <1>8, <2>3 DEF Channel!applyChanges
    <3>2. button'.is_checked = FALSE /\ button'.is_pressed = FALSE
      BY <3>1 DEF Channel!NewButton
    <3> QED
      BY <2>1, <2>3, <3>2
  <2> QED
    BY <2>2, <2>3
<1> QED
  BY <1>2, <1>3, <1>4, <1>5, <1>6, <1>7, <1>8 DEF Channel!Next

\* A channel has the script that was accepted, and its rule is used while its
\* entry is ticked.
LEMMA ChannelsAccepted == Channel!Spec => []Channel!ChannelsAsAccepted
<1>1. Channel!Init => ChannelInvariant
  BY ChannelAssumption DEF Channel!Init, ChannelInvariant, ChannelTypes, ChannelDrafts,
     ChannelMouse, Channel!Exists
<1>2. ChannelInvariant /\ [Channel!Next]_Channel!vars => ChannelInvariant'
  BY ChannelTypesStep, ChannelDraftsStep, ChannelMouseStep DEF ChannelInvariant
<1>3. ChannelInvariant => Channel!ChannelsAsAccepted
  <2> SUFFICES ASSUME ChannelInvariant, Channel!Exists
               PROVE  /\ enable = button.is_checked
                      /\ ChannelDrafts /\ ChannelMouse
    BY DEF ChannelInvariant, ChannelDrafts, ChannelMouse, Channel!ChannelsAsAccepted
  <2> QED
    BY DEF ChannelInvariant, ChannelMouse, ChannelTypes, ButtonTypes
<1> QED
  BY <1>1, <1>2, <1>3, PTL DEF Channel!Spec

-----------------------------------------------------------------------------
(* Dialogs of an MQTT window *)

\* A mask on the screen shows the dialog it was given last, and no dialog is
\* shown without it.
MaskTypes ==
    /\ masked \in BOOLEAN /\ hides \in BOOLEAN /\ fade_animation_ \in {"stopped", "in", "out"}
    /\ child_widget_ \in Mqtt!Dialogs \cup {Mqtt!Nobody}
    /\ parent \in [Mqtt!Dialogs -> {"window", "mask", Mqtt!Nobody}]
    /\ originalParent \in [Mqtt!Dialogs -> {"window", "mask", Mqtt!Nobody}]

MaskShows ==
    /\ masked => /\ child_widget_ # Mqtt!Nobody /\ dialogs = {child_widget_}
                 /\ parent[child_widget_] = "mask"
                 /\ hides <=> fade_animation_ = "out"
    /\ ~masked => dialogs = {} /\ fade_animation_ = "stopped"
    /\ maskSize = windowSize
    /\ child_widget_ # Mqtt!Nobody => childSize = windowSize

\* The dialog for subscriptions is connected once from the moment it is made.
DialogsMade ==
    /\ later \in Nat /\ (later > 0 => Mqtt!Subscription \in created)
    /\ dialogs \subseteq created
    /\ Mqtt!Subscription \in created => saves = 1

TypedTopics == Topics \cup {"", Mqtt!DefaultTopic}

FormsCount == topic \in TypedTopics /\ confirmed \in Seq(TypedTopics) /\ subscribed = confirmed

\* Of sequences of numbers.
Increasing(s) == \A i, j \in 1 .. Len(s) : i < j => s[i] < s[j]
Has(s, n) == \E i \in 1 .. Len(s) : s[i] = n

\* The rows of properties, in the order in which they were made.
PropertyRows ==
    /\ made \in Nat /\ trashed \subseteq 1 .. made
    /\ Mqtt!Meta \notin created => made = 0 /\ propertyRows_ = <<>>
    /\ propertyRows_ \in Seq(Nat)
    /\ \A n : n \in (1 .. made) \ trashed <=> Has(propertyRows_, n)
    /\ Increasing(propertyRows_)

MqttInvariant == MaskTypes /\ MaskShows /\ DialogsMade /\ FormsCount /\ PropertyRows

\* Showing a dialog, and closing what is shown.
LEMMA MaskShown ==
    ASSUME MaskTypes, MaskShows, NEW d \in Mqtt!Dialogs, Mqtt!show(d), windowSize' = windowSize
    PROVE  MaskTypes' /\ MaskShows' /\ dialogs' = {d}
<1>1. /\ child_widget_' = d /\ masked' = TRUE /\ fade_animation_' = "in" /\ hides' = FALSE
      /\ maskSize' = windowSize /\ childSize' = windowSize
  BY DEF Mqtt!show, Mqtt!startFadeAnimation
<1>2. dialogs' = {d}
  BY DEF Mqtt!show, MaskShows, MaskTypes
<1>3. /\ parent' \in [Mqtt!Dialogs -> {"window", "mask", Mqtt!Nobody}]
      /\ originalParent' \in [Mqtt!Dialogs -> {"window", "mask", Mqtt!Nobody}]
      /\ parent'[d] = "mask"
  BY DEF Mqtt!show, MaskTypes
<1>4. d # Mqtt!Nobody
  BY DEF Mqtt!Dialogs, Mqtt!Subscription, Mqtt!Meta, Mqtt!Nobody
<1>5. MaskTypes'
  BY <1>1, <1>3 DEF MaskTypes
<1>6. MaskShows'
  BY <1>1, <1>2, <1>3, <1>4 DEF MaskShows
<1> QED
  BY <1>2, <1>5, <1>6

\* A mask that is closed leaves the dialogs as they are.
LEMMA MaskClosed ==
    ASSUME MaskTypes, MaskShows, Mqtt!handleCloseRequest, windowSize' = windowSize
    PROVE  MaskTypes' /\ MaskShows' /\ dialogs' = dialogs
<1>1. UNCHANGED <<masked, maskSize, childSize, child_widget_, dialogs, parent, originalParent>>
  BY DEF Mqtt!handleCloseRequest
<1>2. CASE masked
  <2>1. fade_animation_' = "out" /\ hides' = TRUE
    BY <1>2 DEF Mqtt!handleCloseRequest, Mqtt!startFadeAnimation
  <2> QED
    BY <1>1, <1>2, <2>1 DEF MaskTypes, MaskShows
<1>3. CASE ~masked
  <2>1. fade_animation_' = fade_animation_ /\ hides' = hides
    BY <1>3 DEF Mqtt!handleCloseRequest
  <2> QED
    BY <1>1, <1>3, <2>1 DEF MaskTypes, MaskShows
<1> QED
  BY <1>2, <1>3 DEF MaskTypes

\* Whatever happens, the mask covers the window and shows its dialog.
LEMMA MaskStep ==
    ASSUME MaskTypes, MaskShows, [Mqtt!Next]_Mqtt!vars
    PROVE  MaskTypes' /\ MaskShows'
<1>1. CASE Mqtt!Finished
  <2>1. /\ fade_animation_ # "stopped" /\ fade_animation_' = "stopped" /\ masked
        /\ UNCHANGED <<windowSize, maskSize, childSize, hides, child_widget_, originalParent>>
    BY <1>1 DEF Mqtt!Finished, MaskShows
  <2>2. CASE hides
    <3>1. /\ masked' = FALSE /\ dialogs' = dialogs \ {child_widget_}
          /\ parent' = [parent EXCEPT ![child_widget_] = originalParent[child_widget_]]
      BY <1>1, <2>2 DEF Mqtt!Finished
    <3>2. dialogs' = {}
      BY <2>1, <3>1 DEF MaskShows
    <3>3. parent' \in [Mqtt!Dialogs -> {"window", "mask", Mqtt!Nobody}]
      BY <2>1, <3>1 DEF MaskTypes, MaskShows
    <3> QED
      BY <2>1, <3>1, <3>2, <3>3 DEF MaskTypes, MaskShows
  <2>3. CASE ~hides
    <3>1. UNCHANGED <<masked, dialogs, parent>>
      BY <1>1, <2>3 DEF Mqtt!Finished
    <3> QED
      BY <2>1, <2>3, <3>1 DEF MaskTypes, MaskShows
  <2> QED
    BY <2>2, <2>3
<1>2. ASSUME NEW s \in Sizes, Mqtt!Resize(s) PROVE MaskTypes' /\ MaskShows'
  <2>1. /\ windowSize' = s /\ maskSize' = s
        /\ child_widget_ # Mqtt!Nobody => childSize' = s
        /\ UNCHANGED <<masked, fade_animation_, hides, child_widget_, dialogs,
                       parent, originalParent>>
    BY <1>2 DEF Mqtt!Resize
  <2> QED
    BY <2>1 DEF MaskTypes, MaskShows
<1>3. CASE Mqtt!metaButton \/ Mqtt!singleShot
  <2>1. \E d \in Mqtt!Dialogs : Mqtt!show(d) /\ windowSize' = windowSize
    BY <1>3 DEF Mqtt!metaButton, Mqtt!singleShot, Mqtt!Dialogs
  <2> QED
    BY <2>1, MaskShown
<1>4. CASE Mqtt!subscriptionButton
  <2>1. /\ windowSize' = windowSize
        /\ Mqtt!handleCloseRequest \/ Mqtt!show(Mqtt!Subscription)
        /\ Mqtt!Subscription \in Mqtt!Dialogs
    BY <1>4 DEF Mqtt!subscriptionButton, Mqtt!Dialogs
  <2> QED
    BY <2>1, MaskShown, MaskClosed
<1>5. CASE Mqtt!confirmSub \/ Mqtt!closed \/ \E d \in Mqtt!Dialogs : Mqtt!onCloseButtonClicked(d)
  <2>1. Mqtt!handleCloseRequest /\ windowSize' = windowSize
    BY <1>5 DEF Mqtt!confirmSub, Mqtt!closed, Mqtt!onCloseButtonClicked
  <2> QED
    BY <2>1, MaskClosed
<1>6. CASE \/ \E t \in Topics \cup {""} : Mqtt!EditTopic(t)
           \/ Mqtt!addProperty \/ \E i \in 1 .. MaxProperties : Mqtt!removeProperty(i)
           \/ UNCHANGED Mqtt!vars
  <2>1. /\ windowSize' = windowSize
        /\ UNCHANGED <<masked, maskSize, childSize, fade_animation_, hides, child_widget_, dialogs,
                       parent, originalParent>>
    BY <1>6 DEF Mqtt!EditTopic, Mqtt!addProperty, Mqtt!removeProperty, Mqtt!maskVars, Mqtt!vars
  <2> QED
    BY <2>1 DEF MaskTypes, MaskShows
<1> QED
  BY <1>1, <1>2, <1>3, <1>4, <1>5, <1>6 DEF Mqtt!Next

\* No step connects the dialog for subscriptions twice, or shows one not made.
LEMMA MadeStep ==
    ASSUME MaskTypes, MaskShows, DialogsMade, [Mqtt!Next]_Mqtt!vars
    PROVE  DialogsMade'
<1> USE DEF DialogsMade
<1>1. CASE UNCHANGED <<later, created, saves>> /\ dialogs' \subseteq dialogs
  BY <1>1
<1>2. CASE \/ Mqtt!Finished \/ \E s \in Sizes : Mqtt!Resize(s)
           \/ \E t \in Topics \cup {""} : Mqtt!EditTopic(t)
           \/ Mqtt!confirmSub \/ Mqtt!closed
           \/ \E d \in Mqtt!Dialogs : Mqtt!onCloseButtonClicked(d)
           \/ Mqtt!addProperty \/ \E i \in 1 .. MaxProperties : Mqtt!removeProperty(i)
           \/ UNCHANGED Mqtt!vars
  <2>1. UNCHANGED <<later, created, saves>>
    BY <1>2 DEF Mqtt!Finished, Mqtt!Resize, Mqtt!EditTopic, Mqtt!confirmSub, Mqtt!closed,
       Mqtt!onCloseButtonClicked, Mqtt!addProperty, Mqtt!removeProperty, Mqtt!vars
  <2>2. dialogs' \subseteq dialogs
    BY <1>2 DEF Mqtt!Finished, Mqtt!Resize, Mqtt!EditTopic, Mqtt!confirmSub, Mqtt!closed,
       Mqtt!onCloseButtonClicked, Mqtt!addProperty, Mqtt!removeProperty, Mqtt!vars,
       Mqtt!handleCloseRequest, Mqtt!maskVars
  <2> QED
    BY <1>1, <2>1, <2>2
<1>3. CASE Mqtt!metaButton
  <2>1. /\ UNCHANGED <<later, saves>>
        /\ created' = created \cup {Mqtt!Meta} /\ Mqtt!show(Mqtt!Meta) /\ windowSize' = windowSize
    BY <1>3 DEF Mqtt!metaButton
  <2>2. dialogs' = {Mqtt!Meta} /\ Mqtt!Meta # Mqtt!Subscription
    BY <2>1, MaskShown DEF Mqtt!Meta, Mqtt!Subscription, Mqtt!Dialogs
  <2> QED
    BY <2>1, <2>2
<1>4. CASE Mqtt!subscriptionButton
  <2>1. /\ created' = created \cup {Mqtt!Subscription} /\ saves' = 1
        /\ later' = later \/ later' = later + 1
    BY <1>4 DEF Mqtt!subscriptionButton
  <2>2. dialogs' = dialogs \/ dialogs' = {Mqtt!Subscription}
    <3>1. windowSize' = windowSize /\ Mqtt!Subscription \in Mqtt!Dialogs
      BY <1>4 DEF Mqtt!subscriptionButton, Mqtt!Dialogs
    <3>2. Mqtt!handleCloseRequest \/ Mqtt!show(Mqtt!Subscription)
      BY <1>4 DEF Mqtt!subscriptionButton
    <3> QED
      BY <3>1, <3>2, MaskShown, MaskClosed
  <2>3. later' \in Nat
    BY <2>1
  <2> QED
    BY <2>1, <2>2, <2>3
<1>5. CASE Mqtt!singleShot
  <2>1. /\ UNCHANGED <<created, saves>> /\ later > 0 /\ later' = later - 1
        /\ Mqtt!show(Mqtt!Subscription) /\ windowSize' = windowSize
    BY <1>5 DEF Mqtt!singleShot
  <2>2. dialogs' = {Mqtt!Subscription}
    BY <2>1, MaskShown DEF Mqtt!Dialogs
  <2>3. later' \in Nat /\ Mqtt!Subscription \in created
    BY <2>1
  <2> QED
    BY <2>1, <2>2, <2>3
<1> QED
  BY <1>2, <1>3, <1>4, <1>5 DEF Mqtt!Next

\* No step subscribes to what was not confirmed.
LEMMA FormsStep ==
    ASSUME DialogsMade, FormsCount, [Mqtt!Next]_Mqtt!vars
    PROVE  FormsCount'
<1> USE DEF FormsCount
<1>1. CASE UNCHANGED <<subscribed, confirmed>> /\ topic' \in TypedTopics
  BY <1>1
<1>2. CASE \/ Mqtt!Finished \/ \E s \in Sizes : Mqtt!Resize(s)
           \/ Mqtt!metaButton \/ Mqtt!singleShot \/ Mqtt!closed
           \/ \E d \in Mqtt!Dialogs : Mqtt!onCloseButtonClicked(d)
           \/ Mqtt!addProperty \/ \E i \in 1 .. MaxProperties : Mqtt!removeProperty(i)
           \/ UNCHANGED Mqtt!vars
  <2>1. UNCHANGED <<subscribed, confirmed, topic>>
    BY <1>2 DEF Mqtt!Finished, Mqtt!Resize, Mqtt!metaButton, Mqtt!singleShot, Mqtt!closed,
       Mqtt!onCloseButtonClicked, Mqtt!addProperty, Mqtt!removeProperty, Mqtt!vars, Mqtt!formVars
  <2> QED
    BY <1>1, <2>1
<1>3. CASE Mqtt!subscriptionButton \/ \E t \in Topics \cup {""} : Mqtt!EditTopic(t)
  <2>1. UNCHANGED <<subscribed, confirmed>>
    BY <1>3 DEF Mqtt!subscriptionButton, Mqtt!EditTopic
  <2>2. topic' \in TypedTopics
    BY <1>3 DEF Mqtt!subscriptionButton, Mqtt!EditTopic, Mqtt!initSubscription, TypedTopics
  <2> QED
    BY <1>1, <2>1, <2>2
<1>4. CASE Mqtt!confirmSub
  <2>1. /\ confirmed' = Append(confirmed, topic)
        /\ subscribed' = subscribed \o [i \in 1 .. saves |-> topic]
        /\ topic' = topic /\ Mqtt!Subscription \in dialogs
    BY <1>4 DEF Mqtt!confirmSub, Mqtt!Usable
  <2>2. saves = 1
    BY <2>1 DEF DialogsMade
  <2>3. [i \in 1 .. 1 |-> topic] = <<topic>>
    OBVIOUS
  <2>4. subscribed' = confirmed'
    BY <2>1, <2>2, <2>3, AppendProperties
  <2>5. confirmed' \in Seq(TypedTopics)
    BY <2>1
  <2> QED
    BY <2>1, <2>4, <2>5
<1> QED
  BY <1>2, <1>3, <1>4 DEF Mqtt!Next

\* A sequence without one of its elements.
LEMMA OneTakenOut ==
    ASSUME NEW s \in Seq(Nat), NEW k \in 1 .. Len(s)
    PROVE  /\ Mqtt!RemoveAt(s, k) \in Seq(Nat)
           /\ Len(Mqtt!RemoveAt(s, k)) = Len(s) - 1
           /\ \A i \in 1 .. (Len(s) - 1) :
                  Mqtt!RemoveAt(s, k)[i] = IF i < k THEN s[i] ELSE s[i + 1]
<1> DEFINE l == Len(s)
           a == SubSeq(s, 1, k - 1)
           b == SubSeq(s, k + 1, l)
<1>1. l \in Nat /\ k \in 1 .. l /\ \A i \in 1 .. l : s[i] \in Nat
  BY LenProperties
<1>2. a \in Seq(Nat) /\ Len(a) = k - 1 /\ \A i \in 1 .. (k - 1) : a[i] = s[i]
  BY <1>1
<1>3. b \in Seq(Nat) /\ Len(b) = l - k /\ \A i \in 1 .. (l - k) : b[i] = s[k + i]
  BY <1>1
<1>4. Mqtt!RemoveAt(s, k) = a \o b
  BY DEF Mqtt!RemoveAt
<1> HIDE DEF a, b, l
<1>5. /\ a \o b \in Seq(Nat) /\ Len(a \o b) = Len(a) + Len(b)
      /\ \A i \in 1 .. (Len(a) + Len(b)) :
             (a \o b)[i] = IF i <= Len(a) THEN a[i] ELSE b[i - Len(a)]
  BY <1>2, <1>3, ConcatProperties
<1>6. Len(a) + Len(b) = l - 1
  BY <1>1, <1>2, <1>3
<1>7. ASSUME NEW i \in 1 .. (l - 1)
      PROVE  (a \o b)[i] = IF i < k THEN s[i] ELSE s[i + 1]
  <2>1. CASE i < k
    BY <1>1, <1>2, <1>5, <1>6, <2>1
  <2>2. CASE ~(i < k)
    <3>1. i - (k - 1) \in 1 .. (l - k) /\ k + (i - (k - 1)) = i + 1 /\ ~(i <= k - 1)
      BY <1>1, <2>2
    <3>2. (a \o b)[i] = b[i - (k - 1)]
      BY <1>2, <1>5, <1>6, <3>1
    <3> QED
      BY <1>3, <2>2, <3>1, <3>2
  <2> QED
    BY <2>1, <2>2
<1> QED
  BY <1>4, <1>5, <1>6, <1>7 DEF l

\* What is left of an increasing sequence of which one element was taken out.
LEMMA IncreasingTakenOut ==
    ASSUME NEW s \in Seq(Nat), NEW k \in 1 .. Len(s), Increasing(s)
    PROVE  /\ Increasing(Mqtt!RemoveAt(s, k))
           /\ \A n : Has(Mqtt!RemoveAt(s, k), n) <=> n # s[k] /\ Has(s, n)
<1>1. PICK l \in Nat : l = Len(s)
  BY LenProperties
<1>2. PICK t : t = Mqtt!RemoveAt(s, k)
  OBVIOUS
<1>3. /\ Len(t) = l - 1 /\ k \in 1 .. l
      /\ \A i \in 1 .. (l - 1) : t[i] = IF i < k THEN s[i] ELSE s[i + 1]
      /\ \A i \in 1 .. l : s[i] \in Nat
      /\ \A i, j \in 1 .. l : i < j => s[i] < s[j]
  <2>1. \A i \in 1 .. Len(s) : s[i] \in Nat
    BY LenProperties
  <2>2. \A i, j \in 1 .. Len(s) : i < j => s[i] < s[j]
    BY DEF Increasing
  <2>3. /\ Len(t) = Len(s) - 1
        /\ \A i \in 1 .. (Len(s) - 1) : t[i] = IF i < k THEN s[i] ELSE s[i + 1]
    BY <1>2, OneTakenOut
  <2> QED
    BY <1>1, <1>2, <2>1, <2>2, <2>3
<1>4. Increasing(t)
  BY <1>1, <1>3 DEF Increasing
<1>5. \A i \in 1 .. (l - 1) : \E j \in 1 .. l : j # k /\ t[i] = s[j]
  BY <1>1, <1>3
<1>6. \A j \in 1 .. l : j # k => \E i \in 1 .. (l - 1) : t[i] = s[j]
  <2> SUFFICES ASSUME NEW j \in 1 .. l, j # k PROVE \E i \in 1 .. (l - 1) : t[i] = s[j]
    OBVIOUS
  <2>1. CASE j < k
    <3>1. j \in 1 .. (l - 1)
      BY <1>1, <1>3, <2>1
    <3> QED
      BY <1>3, <2>1, <3>1
  <2>2. CASE j > k
    <3>1. j - 1 \in 1 .. (l - 1) /\ ~(j - 1 < k) /\ (j - 1) + 1 = j
      BY <1>1, <1>3, <2>2
    <3> QED
      BY <1>3, <3>1
  <2> QED
    BY <1>1, <1>3, <2>1, <2>2
<1>7. \A j \in 1 .. l : j # k => s[j] # s[k]
  <2> SUFFICES ASSUME NEW j \in 1 .. l, j # k PROVE s[j] # s[k]
    OBVIOUS
  <2>1. s[j] \in Nat /\ s[k] \in Nat /\ (j < k \/ k < j)
    BY <1>1, <1>3
  <2>2. s[j] < s[k] \/ s[k] < s[j]
    BY <1>3, <2>1
  <2> QED
    BY <2>1, <2>2
<1>8. \A n : Has(t, n) <=> n # s[k] /\ Has(s, n)
  <2> SUFFICES ASSUME NEW n PROVE Has(t, n) <=> n # s[k] /\ Has(s, n)
    OBVIOUS
  <2>1. Has(t, n) <=> \E i \in 1 .. (l - 1) : t[i] = n
    BY <1>3 DEF Has
  <2>2. Has(s, n) <=> \E i \in 1 .. l : s[i] = n
    BY <1>1 DEF Has
  <2> QED
    BY <2>1, <2>2, <1>3, <1>5, <1>6, <1>7
<1> QED
  BY <1>2, <1>4, <1>8

\* An increasing sequence with a greater number after it.
LEMMA IncreasingAppended ==
    ASSUME NEW s \in Seq(Nat), Increasing(s), NEW m \in Nat, \A n : Has(s, n) => n < m
    PROVE  /\ Append(s, m) \in Seq(Nat) /\ Increasing(Append(s, m))
           /\ \A n : Has(Append(s, m), n) <=> n = m \/ Has(s, n)
<1>1. PICK l \in Nat : l = Len(s)
  BY LenProperties
<1>2. PICK t : t = Append(s, m)
  OBVIOUS
<1>3. /\ Len(t) = l + 1 /\ t[l + 1] = m /\ \A i \in 1 .. l : t[i] = s[i]
      /\ t \in Seq(Nat)
  BY <1>1, <1>2, AppendProperties
<1>4. \A i \in 1 .. (l + 1) : i \in 1 .. l \/ i = l + 1
  BY <1>1
<1>5. \A i \in 1 .. l : s[i] < m /\ i \in 1 .. (l + 1) /\ i # l + 1
  <2> SUFFICES ASSUME NEW i \in 1 .. l PROVE s[i] < m /\ i \in 1 .. (l + 1) /\ i # l + 1
    OBVIOUS
  <2>1. Has(s, s[i])
    BY <1>1 DEF Has
  <2> QED
    BY <1>1, <2>1
<1>6. Increasing(t)
  <2> SUFFICES ASSUME NEW i \in 1 .. (l + 1), NEW j \in 1 .. (l + 1), i < j PROVE t[i] < t[j]
    BY <1>3 DEF Increasing
  <2>1. i \in 1 .. l
    BY <1>1
  <2>2. CASE j = l + 1
    <3>1. t[j] = m /\ t[i] = s[i] /\ s[i] < m
      BY <1>3, <1>5, <2>1, <2>2
    <3> QED
      BY <3>1
  <2>3. CASE j \in 1 .. l
    <3>1. t[j] = s[j] /\ t[i] = s[i] /\ s[i] < s[j]
      BY <1>1, <1>3, <2>1, <2>3 DEF Increasing
    <3> QED
      BY <3>1
  <2> QED
    BY <1>4, <2>2, <2>3
<1>7. \A n : Has(t, n) <=> n = m \/ Has(s, n)
  <2> SUFFICES ASSUME NEW n PROVE Has(t, n) <=> n = m \/ Has(s, n)
    OBVIOUS
  <2>1. Has(t, n) <=> \E i \in 1 .. (l + 1) : t[i] = n
    BY <1>3 DEF Has
  <2>2. Has(s, n) <=> \E i \in 1 .. l : s[i] = n
    BY <1>1 DEF Has
  <2>3. l + 1 \in 1 .. (l + 1)
    BY <1>1
  <2> QED
    BY <2>1, <2>2, <2>3, <1>3, <1>4, <1>5
<1> QED
  BY <1>2, <1>3, <1>6, <1>7

\* The rows are always those that were made and not removed.
LEMMA RowsStep ==
    ASSUME DialogsMade, PropertyRows, [Mqtt!Next]_Mqtt!vars
    PROVE  PropertyRows'
<1> USE DEF PropertyRows
<1>1. CASE UNCHANGED <<propertyRows_, made, trashed>> /\ created \subseteq created'
  BY <1>1
<1>2. CASE Mqtt!metaButton
  <2>1. CASE Mqtt!Meta \in created
    <3>1. UNCHANGED <<propertyRows_, made, trashed>> /\ created \subseteq created'
      BY <1>2, <2>1 DEF Mqtt!metaButton, Mqtt!initMeta, Mqtt!propertyVars
    <3> QED
      BY <1>1, <3>1
  <2>2. CASE Mqtt!Meta \notin created
    <3>1. /\ propertyRows_' = <<1>> /\ made' = 1 /\ trashed' = trashed /\ Mqtt!Meta \in created'
      BY <1>2, <2>2 DEF Mqtt!metaButton, Mqtt!initMeta
    <3>2. trashed = {}
      BY <2>2
    <3>3. <<1>> \in Seq(Nat) /\ Increasing(<<1>>)
      BY DEF Increasing
    <3>4. \A n : n \in (1 .. 1) \ {} <=> Has(<<1>>, n)
      BY DEF Has
    <3> QED
      BY <3>1, <3>2, <3>3, <3>4
  <2> QED
    BY <2>1, <2>2
<1>3. CASE Mqtt!addProperty
  <2>1. /\ made' = made + 1 /\ propertyRows_' = Append(propertyRows_, made + 1)
        /\ trashed' = trashed /\ created' = created /\ Mqtt!Meta \in created
    BY <1>3 DEF Mqtt!addProperty, Mqtt!Usable, DialogsMade
  <2>2. \A n : Has(propertyRows_, n) => n < made + 1
    OBVIOUS
  <2>3. /\ propertyRows_' \in Seq(Nat) /\ Increasing(propertyRows_')
        /\ \A n : Has(propertyRows_', n) <=> n = made + 1 \/ Has(propertyRows_, n)
    BY <2>1, <2>2, IncreasingAppended
  <2>4. \A n : n \in (1 .. made') \ trashed' <=> n \in (1 .. made) \ trashed \/ n = made + 1
    BY <2>1
  <2>5. made' \in Nat /\ trashed' \subseteq 1 .. made'
    BY <2>1
  <2> QED
    BY <2>1, <2>3, <2>4, <2>5
<1>4. ASSUME NEW k \in 1 .. MaxProperties, Mqtt!removeProperty(k) PROVE PropertyRows'
  <2>1. /\ k \in DOMAIN propertyRows_ /\ made' = made /\ created' = created
        /\ propertyRows_' = Mqtt!RemoveAt(propertyRows_, k)
        /\ trashed' = trashed \cup {propertyRows_[k]}
        /\ Mqtt!Meta \in created
    BY <1>4 DEF Mqtt!removeProperty, Mqtt!Usable, DialogsMade
  <2>2. k \in 1 .. Len(propertyRows_)
    BY <2>1
  <2>3. /\ propertyRows_' \in Seq(Nat) /\ Increasing(propertyRows_')
        /\ \A n : Has(propertyRows_', n) <=> n # propertyRows_[k] /\ Has(propertyRows_, n)
    BY <2>1, <2>2, OneTakenOut, IncreasingTakenOut
  <2>4. propertyRows_[k] \in 1 .. made
    BY <2>2 DEF Has
  <2>5. \A n : n \in (1 .. made') \ trashed' <=> Has(propertyRows_', n)
    BY <2>1, <2>3
  <2> QED
    BY <2>1, <2>3, <2>4, <2>5
<1>5. CASE \/ Mqtt!Finished \/ \E s \in Sizes : Mqtt!Resize(s)
           \/ Mqtt!subscriptionButton \/ Mqtt!singleShot
           \/ \E t \in Topics \cup {""} : Mqtt!EditTopic(t)
           \/ Mqtt!confirmSub \/ Mqtt!closed
           \/ \E d \in Mqtt!Dialogs : Mqtt!onCloseButtonClicked(d)
           \/ UNCHANGED Mqtt!vars
  <2>1. UNCHANGED <<propertyRows_, made, trashed>> /\ created \subseteq created'
    BY <1>5 DEF Mqtt!Finished, Mqtt!Resize, Mqtt!subscriptionButton, Mqtt!singleShot,
       Mqtt!EditTopic, Mqtt!confirmSub, Mqtt!closed, Mqtt!onCloseButtonClicked,
       Mqtt!propertyVars, Mqtt!vars
  <2> QED
    BY <1>1, <2>1
<1> QED
  BY <1>2, <1>3, <1>4, <1>5 DEF Mqtt!Next

\* The mask shows the dialog that was asked for, and each confirmation counts once.
LEMMA MqttShownAndTaken == Mqtt!Spec => []Mqtt!DialogsAreShownAndTaken
<1>1. Mqtt!Init => MqttInvariant
  <2> SUFFICES ASSUME Mqtt!Init PROVE MqttInvariant
    OBVIOUS
  <2>1. MaskTypes
    BY DEF Mqtt!Init, MaskTypes
  <2>2. MaskShows
    BY DEF Mqtt!Init, MaskShows
  <2>3. DialogsMade
    <3>1. later = 0 /\ dialogs = {} /\ created = {}
      BY DEF Mqtt!Init
    <3> QED
      BY <3>1 DEF DialogsMade
  <2>f. FormsCount
    <3>1. topic = "" /\ confirmed = <<>> /\ subscribed = <<>>
      BY DEF Mqtt!Init
    <3>2. topic \in TypedTopics
      BY <3>1 DEF TypedTopics
    <3> QED
      BY <3>1, <3>2, EmptySeq DEF FormsCount
  <2>4. PropertyRows
    <3>1. <<>> \in Seq(Nat) /\ Len(<<>>) = 0
      BY EmptySeq
    <3>2. Increasing(<<>>) /\ \A n : ~Has(<<>>, n)
      BY <3>1 DEF Increasing, Has
    <3>3. propertyRows_ = <<>> /\ made = 0 /\ trashed = {}
      BY DEF Mqtt!Init
    <3> QED
      BY <3>1, <3>2, <3>3 DEF PropertyRows
  <2> QED
    BY <2>1, <2>2, <2>3, <2>4, <2>f DEF MqttInvariant
<1>2. MqttInvariant /\ [Mqtt!Next]_Mqtt!vars => MqttInvariant'
  BY MaskStep, MadeStep, FormsStep, RowsStep DEF MqttInvariant
<1>3. MqttInvariant => Mqtt!DialogsAreShownAndTaken
  <2> SUFFICES ASSUME MqttInvariant PROVE Mqtt!DialogsAreShownAndTaken
    OBVIOUS
  <2>1. Mqtt!ToSet(propertyRows_) = (1 .. made) \ trashed
    <3>1. Mqtt!ToSet(propertyRows_) = {propertyRows_[i] : i \in 1 .. Len(propertyRows_)}
      BY DEF MqttInvariant, PropertyRows, Mqtt!ToSet
    <3> QED
      BY <3>1 DEF MqttInvariant, PropertyRows, Has
  <2>2. DOMAIN propertyRows_ = 1 .. Len(propertyRows_)
    BY DEF MqttInvariant, PropertyRows
  <2> QED
    BY <2>1, <2>2 DEF MqttInvariant, MaskShows, FormsCount, PropertyRows,
       Increasing, Mqtt!DialogsAreShownAndTaken
<1> QED
  BY <1>1, <1>2, <1>3, PTL DEF Mqtt!Spec

\* Whatever is asked in dialogs: what was answered is done, a channel has the
\* script that was accepted, a mask the dialog that was asked for.
THEOREM AnswersAreTakenAlways == WidgetSpec => []AnswersAreTaken
  BY KindsApart, DialogsAnswered, ChannelsAccepted, MqttShownAndTaken, PTL DEF AnswersAreTaken

-----------------------------------------------------------------------------
(* Message bars *)

Places == 0 .. (Room - 1)
Phases == {"none", "create", "shown", "fading", "gone", "lost"}

BarTypes ==
    [phase : Phases, parent : Windows \cup {NoWindow}, time : Nat, slot : Nat,
     events : Seq(Places), moving : 0 .. Room, ready : BOOLEAN, timer : BOOLEAN]

\* What waits on a bar waits for its creation or for an animation.
Movable(bar) ==
    /\ bar.phase = "create" => bar.moving = NoMove
    /\ bar.events # <<>> => bar.phase = "create" \/ bar.moving # NoMove

DestinationOf(bar) ==
    IF bar.events # <<>> THEN bar.events[Len(bar.events)]
    ELSE IF bar.moving # NoMove THEN bar.moving ELSE bar.slot

BarsTyped(B) == B \in [Bars -> BarTypes] /\ \A b \in Bars : Movable(B[b])

\* No two bars have the same millisecond.
Distinct(B) == \A b, o \in Bars : B[b].time = B[o].time => b = o \/ B[b].time = 0

Fits(B) == \A b \in Active(B) : Cardinality(Earlier(B, b)) < Room

LinedUp(B) ==
    \A b \in Active(B) :
        B[b].phase # "lost" => DestinationOf(B[b]) = Cardinality(Earlier(B, b))

\* Bars are made one after the other, and time does not go back.
TimesGoUp(B, n) ==
    /\ \A b \in Bars : b > n => B[b] = NotYet
    /\ \A b \in Bars : b <= n => B[b].time \in 1 .. b
    /\ \A b, o \in Bars : b < o /\ o <= n => B[b].time <= B[o].time

BarsOK(B) == BarsTyped(B) /\ Fits(B) /\ (Distinct(B) => LinedUp(B))

BarsInvariant == shown \in 0 .. MaxBars /\ TimesGoUp(bars, shown) /\ BarsOK(bars)

\* Bars can be counted, and fewer of them are no more.
LEMMA BarsAreFinite ==
    ASSUME NEW S \in SUBSET Bars
    PROVE  /\ IsFiniteSet(S) /\ Cardinality(S) \in Nat
           /\ \A T \in SUBSET S : Cardinality(T) <= Cardinality(S)
<1>1. MaxBars \in Nat /\ Room \in Nat
  BY BarsAssumption
<1>2. IsFiniteSet(Bars)
  BY <1>1, FS_Interval DEF Bars
<1>3. IsFiniteSet(S)
  BY <1>2, FS_Subset
<1> QED
  BY <1>3, FS_CardinalityType, FS_Subset

\* What a bar needs to be of its type.
LEMMA NotYetTyped == NotYet \in BarTypes /\ Movable(NotYet)
<1>1. <<>> \in Seq(Places)
  BY EmptySeq
<1>2. Room \in Nat
  BY BarsAssumption
<1> QED
  BY <1>1, <1>2 DEF NotYet, BarTypes, Phases, NoMove, Movable

\* A bar that has ended keeps its time and its window, and nothing else.
LEMMA OverTyped ==
    ASSUME NEW bar \in BarTypes, NEW phase \in Phases \ {"create"}
    PROVE  /\ Over(bar, phase) \in BarTypes /\ Movable(Over(bar, phase))
           /\ Over(bar, phase).phase = phase /\ Over(bar, phase).time = bar.time
           /\ Over(bar, phase).parent = bar.parent
<1>1. NotYet \in BarTypes
  BY NotYetTyped
<1>2. Over(bar, phase) = [NotYet EXCEPT !.phase = phase, !.parent = bar.parent, !.time = bar.time]
  BY DEF Over
<1>3. /\ Over(bar, phase).events = <<>> /\ Over(bar, phase).phase = phase
      /\ Over(bar, phase).time = bar.time /\ Over(bar, phase).parent = bar.parent
  BY <1>1, <1>2 DEF NotYet
<1>4. Over(bar, phase) \in BarTypes
  BY <1>1, <1>2 DEF BarTypes
<1> QED
  BY <1>3, <1>4 DEF Movable

\* A bar that is told to move is bound for that place.
LEMMA PostedGoes ==
    ASSUME NEW bar \in BarTypes, Movable(bar), NEW target \in Places
    PROVE  LET told == Posted(bar, target) IN
           /\ told \in BarTypes /\ Movable(told) /\ DestinationOf(told) = target
           /\ told.phase = bar.phase /\ told.time = bar.time
<1> DEFINE told == Posted(bar, target)
           waiting == Append(bar.events, target)
<1>1. Room \in Nat /\ target \in 0 .. Room /\ target # NoMove
  BY BarsAssumption DEF Places, NoMove
<1>2. bar.events \in Seq(Places)
  BY DEF BarTypes
<1>3. /\ waiting \in Seq(Places) /\ waiting # <<>> /\ Len(waiting) = Len(bar.events) + 1
      /\ waiting[Len(waiting)] = target
  BY <1>2, AppendProperties
<1>4. <<target>> \in Seq(Places) /\ <<target>> # <<>> /\ <<target>>[Len(<<target>>)] = target
  OBVIOUS
<1> HIDE DEF waiting
<1>5. CASE bar.phase = "create"
  <2>1. told = [bar EXCEPT !.events = <<target>>]
    BY <1>5 DEF Posted
  <2>2. told \in BarTypes /\ told.events = <<target>> /\ told.phase = bar.phase
        /\ told.time = bar.time /\ told.moving = bar.moving
    BY <2>1, <1>4 DEF BarTypes
  <2> QED
    BY <1>4, <1>5, <2>2 DEF Movable, DestinationOf
<1>6. CASE bar.phase # "create" /\ bar.moving # NoMove
  <2>1. told = [bar EXCEPT !.events = waiting]
    BY <1>6 DEF Posted, waiting
  <2>2. told \in BarTypes /\ told.events = waiting /\ told.phase = bar.phase
        /\ told.time = bar.time /\ told.moving = bar.moving
    BY <2>1, <1>3 DEF BarTypes
  <2> QED
    BY <1>3, <1>6, <2>2 DEF Movable, DestinationOf
<1>7. CASE bar.phase # "create" /\ bar.moving = NoMove
  <2>1. bar.events = <<>>
    BY <1>7 DEF Movable
  <2>2. Head(waiting) = target /\ Tail(waiting) = <<>>
    BY <2>1 DEF waiting
  <2>3. told = [bar EXCEPT !.moving = target, !.events = <<>>]
    BY <1>7, <2>2 DEF Posted, waiting
  <2>4. <<>> \in Seq(Places)
    BY EmptySeq
  <2>5. told \in BarTypes /\ told.events = <<>> /\ told.phase = bar.phase
        /\ told.time = bar.time /\ told.moving = target
    BY <1>1, <2>3, <2>4 DEF BarTypes
  <2> QED
    BY <1>1, <1>7, <2>5 DEF Movable, DestinationOf
<1> QED
  BY <1>5, <1>6, <1>7

\* A bar that takes up the oldest of its moves is bound for the same place.
LEMMA HeadTaken ==
    ASSUME NEW bar \in BarTypes, bar.phase # "create", bar.events # <<>>
    PROVE  LET moved == [bar EXCEPT !.moving = Head(bar.events), !.events = Tail(bar.events)] IN
           /\ moved \in BarTypes /\ Movable(moved) /\ DestinationOf(moved) = DestinationOf(bar)
           /\ moved.phase = bar.phase /\ moved.time = bar.time
<1> DEFINE moved == [bar EXCEPT !.moving = Head(bar.events), !.events = Tail(bar.events)]
           s == bar.events
<1>1. Room \in Nat
  BY BarsAssumption
<1>2. s \in Seq(Places) /\ s # <<>>
  BY DEF BarTypes
<1>3. PICK n \in Nat : n = Len(s) /\ n > 0
  BY <1>2, EmptySeq
<1>4. /\ Head(s) = s[1] /\ Tail(s) \in Seq(Places) /\ Len(Tail(s)) = n - 1
      /\ \A i \in 1 .. (n - 1) : Tail(s)[i] = s[i + 1]
      /\ \A i \in 1 .. n : s[i] \in Places
  BY <1>2, <1>3, HeadTailProperties, LenProperties
<1>5. Head(s) \in 0 .. Room /\ Head(s) # NoMove
  BY <1>1, <1>3, <1>4 DEF Places, NoMove
<1>6. /\ moved \in BarTypes /\ moved.events = Tail(s) /\ moved.moving = Head(s)
      /\ moved.phase = bar.phase /\ moved.time = bar.time
  BY <1>4, <1>5 DEF BarTypes
<1>7. Movable(moved)
  BY <1>5, <1>6 DEF Movable
<1>8. DestinationOf(bar) = s[n]
  BY <1>2, <1>3 DEF DestinationOf
<1> HIDE DEF moved, s
<1>9. CASE n = 1
  <2>1. moved.events = <<>> /\ moved.moving = s[n]
    BY <1>2, <1>3, <1>4, <1>6, <1>9, EmptySeq
  <2> QED
    BY <1>5, <1>6, <1>7, <1>8, <2>1 DEF DestinationOf, moved
<1>10. CASE n # 1
  <2>1. /\ n - 1 \in 1 .. (n - 1) /\ (n - 1) + 1 = n
    BY <1>3, <1>10
  <2>2. Tail(s)[n - 1] = s[n]
    BY <1>4, <2>1
  <2>3. Tail(s) # <<>> /\ Tail(s)[Len(Tail(s))] = s[n]
    <3>1. Len(Tail(s)) \in 1 .. Len(Tail(s)) /\ Len(Tail(s)) # 0
      BY <1>4, <2>1
    <3>2. Len(<<>>) = 0
      BY EmptySeq
    <3> QED
      BY <1>4, <2>2, <3>1, <3>2
  <2> QED
    BY <1>6, <1>7, <1>8, <2>3 DEF DestinationOf, moved
<1> QED
  BY <1>9, <1>10

\* A step after which the same bars are listed, with their times.
SameList(B, C) ==
    \A b \in Bars : /\ C[b].time = B[b].time
                    /\ b \in Active(C) <=> b \in Active(B)

\* With the same list, bars that are bound for the same places stay lined up.
LEMMA SameListKeeps ==
    ASSUME NEW B, NEW C, BarsOK(B), BarsTyped(C), SameList(B, C),
           \A b \in Active(C) : C[b].phase # "lost" =>
               B[b].phase # "lost" /\ DestinationOf(C[b]) = DestinationOf(B[b])
    PROVE  BarsOK(C)
<1>1. Active(C) = Active(B) /\ Active(B) \subseteq Bars
  BY DEF SameList, Active
<1>2. \A b \in Bars : Earlier(C, b) = Earlier(B, b)
  BY <1>1 DEF Earlier, SameList
<1>3. Distinct(C) <=> Distinct(B)
  BY DEF Distinct, SameList
<1>4. Fits(C)
  BY <1>1, <1>2 DEF BarsOK, Fits
<1>5. LinedUp(B) => LinedUp(C)
  BY <1>1, <1>2 DEF LinedUp
<1> QED
  BY <1>3, <1>4, <1>5 DEF BarsOK

\* A bar leaves the list, and those after it move up.
LEMMA EndKeeps ==
    ASSUME NEW B, BarsOK(B), NEW b \in Active(B)
    PROVE  /\ BarsOK(postMessageBarEndEvent(B, b))
           /\ \A o \in Bars : postMessageBarEndEvent(B, b)[o].time = B[o].time
           /\ \A o \in Bars : B[o] = NotYet => postMessageBarEndEvent(B, b)[o] = NotYet
<1> DEFINE left == [B EXCEPT ![b] = Over(B[b], "fading")]
           C == postMessageBarEndEvent(B, b)
           behind(o) == o \in Active(left) /\ B[b].time < left[o].time
<1>1. /\ B \in [Bars -> BarTypes] /\ b \in Bars /\ Active(B) \subseteq Bars
      /\ \A o \in Bars : B[o] \in BarTypes /\ Movable(B[o])
  BY DEF BarsOK, BarsTyped, Active
<1>2. Over(B[b], "fading") \in BarTypes /\ Movable(Over(B[b], "fading"))
      /\ Over(B[b], "fading").phase = "fading" /\ Over(B[b], "fading").time = B[b].time
  BY <1>1, OverTyped DEF Phases
<1>3. /\ left \in [Bars -> BarTypes] /\ \A o \in Bars : Movable(left[o]) /\ left[o].time = B[o].time
      /\ left[b].phase = "fading" /\ \A o \in Bars : o # b => left[o] = B[o]
  BY <1>1, <1>2
<1>4. C = [o \in Bars |-> IF behind(o) THEN Posted(left[o], Cardinality(Earlier(left, o)))
                          ELSE left[o]]
  BY DEF postMessageBarEndEvent
<1> HIDE DEF left, C
<1>5. Active(left) = Active(B) \ {b}
  BY <1>1, <1>3 DEF Active
<1>6. \A o \in Bars : Earlier(left, o) = Earlier(B, o) \ {b}
  BY <1>1, <1>3, <1>5 DEF Earlier
<1>7. \A o \in Active(left) : Cardinality(Earlier(left, o)) \in Places
  <2> SUFFICES ASSUME NEW o \in Active(left) PROVE Cardinality(Earlier(left, o)) \in Places
    OBVIOUS
  <2>1. Cardinality(Earlier(B, o)) < Room /\ o \in Bars
    BY <1>1, <1>5 DEF BarsOK, Fits
  <2>2. Earlier(B, o) \in SUBSET Bars /\ Earlier(left, o) \in SUBSET Earlier(B, o)
    BY <1>1, <1>6, <2>1 DEF Earlier
  <2>3. /\ Cardinality(Earlier(B, o)) \in Nat /\ Cardinality(Earlier(left, o)) \in Nat
        /\ Cardinality(Earlier(left, o)) <= Cardinality(Earlier(B, o))
    BY <2>2, BarsAreFinite
  <2> QED
    BY <2>1, <2>3, BarsAssumption DEF Places
<1>8. \A o \in Bars :
          /\ C[o] \in BarTypes /\ Movable(C[o]) /\ C[o].phase = left[o].phase
          /\ C[o].time = B[o].time
          /\ IF behind(o) THEN DestinationOf(C[o]) = Cardinality(Earlier(left, o))
             ELSE C[o] = left[o]
  <2> SUFFICES ASSUME NEW o \in Bars
               PROVE  /\ C[o] \in BarTypes /\ Movable(C[o]) /\ C[o].phase = left[o].phase
                      /\ C[o].time = B[o].time
                      /\ IF behind(o) THEN DestinationOf(C[o]) = Cardinality(Earlier(left, o))
                         ELSE C[o] = left[o]
    OBVIOUS
  <2>1. CASE behind(o)
    <3>1. C[o] = Posted(left[o], Cardinality(Earlier(left, o)))
      BY <1>4, <2>1
    <3>2. left[o] \in BarTypes /\ Movable(left[o]) /\ Cardinality(Earlier(left, o)) \in Places
      BY <1>3, <1>7, <2>1
    <3> QED
      BY <1>3, <2>1, <3>1, <3>2, PostedGoes
  <2>2. CASE ~behind(o)
    BY <1>3, <1>4, <2>2
  <2> QED
    BY <2>1, <2>2
<1>9. C \in [Bars -> BarTypes]
  BY <1>4, <1>8
<1>10. Active(C) = Active(left)
  BY <1>8 DEF Active
<1>11. \A o \in Bars : Earlier(C, o) = Earlier(left, o)
  BY <1>3, <1>8, <1>10, <1>5, <1>1 DEF Earlier
<1>12. Fits(C)
  BY <1>1, <1>5, <1>7, <1>10, <1>11, BarsAssumption DEF Fits, Places
<1>13. Distinct(C) => Distinct(B)
  BY <1>8 DEF Distinct
<1>14. ASSUME LinedUp(B) PROVE LinedUp(C)
  <2> SUFFICES ASSUME NEW o \in Active(C), C[o].phase # "lost"
               PROVE  DestinationOf(C[o]) = Cardinality(Earlier(C, o))
    BY DEF LinedUp
  <2>1. o \in Active(left) /\ o \in Active(B) /\ o # b /\ o \in Bars
    BY <1>1, <1>5, <1>10
  <2>2. CASE behind(o)
    BY <1>8, <1>11, <2>1, <2>2
  <2>3. CASE ~behind(o)
    <3>1. ~(B[b].time < B[o].time)
      BY <1>3, <2>1, <2>3
    <3>2. Earlier(left, o) = Earlier(B, o)
      BY <1>6, <2>1, <3>1 DEF Earlier
    <3>3. C[o] = B[o]
      BY <1>3, <1>8, <2>1, <2>3
    <3> QED
      BY <1>11, <1>14, <2>1, <3>2, <3>3 DEF LinedUp
  <2> QED
    BY <2>2, <2>3
<1>15. \A o \in Bars : B[o] = NotYet => C[o] = NotYet
  <2> SUFFICES ASSUME NEW o \in Bars, B[o] = NotYet PROVE C[o] = NotYet
    OBVIOUS
  <2>1. o \notin Active(B)
    BY <1>1 DEF Active, NotYet
  <2>2. o # b /\ ~behind(o)
    BY <1>5, <2>1
  <2> QED
    BY <1>3, <1>8, <2>2
<1> QED
  BY <1>8, <1>9, <1>12, <1>13, <1>14, <1>15 DEF BarsOK, BarsTyped, C

\* Whether the bars are still lined up, each with the time it has.
GoesOn(B, C) ==
    /\ BarsOK(C)
    /\ \A b \in Bars : C[b].time = B[b].time /\ (B[b] = NotYet => C[b] = NotYet)

\* One bar changes, and is bound for the same place.
LEMMA OneChanged ==
    ASSUME NEW B, BarsOK(B), NEW b \in Active(B), B[b].phase # "lost",
           NEW bar \in BarTypes, Movable(bar), bar.time = B[b].time,
           bar.phase \in {"create", "shown"}, DestinationOf(bar) = DestinationOf(B[b])
    PROVE  GoesOn(B, [B EXCEPT ![b] = bar])
<1> DEFINE C == [B EXCEPT ![b] = bar]
<1>1. /\ B \in [Bars -> BarTypes] /\ b \in Bars /\ B[b].phase \in {"create", "shown", "lost"}
      /\ \A o \in Bars : Movable(B[o])
  BY DEF BarsOK, BarsTyped, Active
<1>2. C \in [Bars -> BarTypes] /\ C[b] = bar /\ \A o \in Bars : o # b => C[o] = B[o]
  BY <1>1
<1> HIDE DEF C
<1>3. BarsTyped(C)
  BY <1>1, <1>2 DEF BarsTyped
<1>4. SameList(B, C)
  BY <1>1, <1>2 DEF SameList, Active
<1>5. \A o \in Active(C) : C[o].phase # "lost" =>
          B[o].phase # "lost" /\ DestinationOf(C[o]) = DestinationOf(B[o])
  BY <1>2 DEF Active
<1>6. BarsOK(C)
  BY <1>3, <1>4, <1>5, SameListKeeps
<1>7. B[b] # NotYet
  BY <1>1 DEF NotYet
<1>8. \A o \in Bars : C[o].time = B[o].time /\ (B[o] = NotYet => C[o] = NotYet)
  BY <1>2, <1>7
<1> QED
  BY <1>6, <1>8 DEF GoesOn, C

\* One step after the other.
LEMMA GoesOnTwice ==
    ASSUME NEW B, NEW C, NEW D, GoesOn(B, C), GoesOn(C, D)
    PROVE  GoesOn(B, D)
  BY DEF GoesOn

\* The oldest of its events is taken up by a bar, however it comes to do so.
LEMMA TakesUp ==
    ASSUME NEW B, BarsOK(B), NEW b \in Active(B), B[b].phase # "lost",
           NEW bar \in BarTypes, bar.time = B[b].time, bar.phase = "shown",
           bar.events = B[b].events, bar.events # <<>>
    PROVE  /\ GoesOn(B, requestMessageBarEvent([B EXCEPT ![b] = bar], b))
           /\ requestMessageBarEvent([B EXCEPT ![b] = bar], b)[b].phase = "shown"
<1> DEFINE here == [B EXCEPT ![b] = bar]
           moved == [bar EXCEPT !.moving = Head(bar.events), !.events = Tail(bar.events)]
<1>1. B \in [Bars -> BarTypes] /\ b \in Bars
  BY DEF BarsOK, BarsTyped, Active
<1>2. here[b] = bar
  BY <1>1
<1>3. requestMessageBarEvent(here, b)
          = [here EXCEPT ![b].moving = Head(here[b].events), ![b].events = Tail(here[b].events)]
  BY <1>2 DEF requestMessageBarEvent
<1>4. requestMessageBarEvent(here, b) = [B EXCEPT ![b] = moved]
  BY <1>1, <1>2, <1>3
<1>5. /\ moved \in BarTypes /\ Movable(moved) /\ DestinationOf(moved) = DestinationOf(bar)
      /\ moved.phase = bar.phase /\ moved.time = bar.time
  BY HeadTaken
<1>6. DestinationOf(bar) = DestinationOf(B[b])
  BY DEF DestinationOf
<1> HIDE DEF moved, here
<1>7. GoesOn(B, [B EXCEPT ![b] = moved])
  BY <1>5, <1>6, OneChanged
<1>8. [B EXCEPT ![b] = moved][b] = moved
  BY <1>1
<1> QED
  BY <1>4, <1>5, <1>7, <1>8 DEF here

\* A shown bar does the oldest of its events, or ends.
LEMMA RequestKeeps ==
    ASSUME NEW B, BarsOK(B), NEW b \in Bars, B[b].phase = "shown"
    PROVE  GoesOn(B, requestMessageBarEvent(B, b))
<1>1. B \in [Bars -> BarTypes] /\ B[b] \in BarTypes /\ b \in Active(B)
  BY DEF BarsOK, BarsTyped, Active
<1>2. CASE B[b].events = <<>>
  BY <1>1, <1>2, EndKeeps DEF requestMessageBarEvent, GoesOn
<1>3. CASE B[b].events # <<>>
  <2>1. [B EXCEPT ![b] = B[b]] = B
    BY <1>1
  <2> QED
    BY <1>1, <1>3, <2>1, TakesUp
<1> QED
  BY <1>2, <1>3

-----------------------------------------------------------------------------
\* What has slid in takes up what waits.
LEMMA CreateFinishedKeeps ==
    ASSUME BarsOK(bars), NEW b \in Bars, CreateFinished(b)
    PROVE  GoesOn(bars, bars')
<1> DEFINE bar == [bars[b] EXCEPT !.phase = "shown", !.timer = TRUE]
<1>1. bars \in [Bars -> BarTypes] /\ bars[b] \in BarTypes /\ bars[b].phase = "create"
      /\ b \in Active(bars) /\ Movable(bars[b])
  BY DEF BarsOK, BarsTyped, Active, CreateFinished
<1>2. [bars EXCEPT ![b].phase = "shown", ![b].timer = TRUE] = [bars EXCEPT ![b] = bar]
  BY <1>1
<1>3. /\ bar \in BarTypes /\ bar.time = bars[b].time /\ bar.phase = "shown"
      /\ bar.events = bars[b].events /\ bar.moving = bars[b].moving /\ bar.slot = bars[b].slot
  BY <1>1 DEF BarTypes, Phases
<1> HIDE DEF bar
<1>4. bars' = IF bars[b].events # <<>> THEN requestMessageBarEvent([bars EXCEPT ![b] = bar], b)
              ELSE [bars EXCEPT ![b] = bar]
  BY <1>2 DEF CreateFinished
<1>5. CASE bars[b].events # <<>>
  BY <1>1, <1>3, <1>4, <1>5, TakesUp
<1>6. CASE bars[b].events = <<>>
  <2>1. Movable(bar) /\ DestinationOf(bar) = DestinationOf(bars[b])
    BY <1>3, <1>6 DEF Movable, DestinationOf
  <2>2. GoesOn(bars, [bars EXCEPT ![b] = bar])
    BY <1>1, <1>3, <2>1, OneChanged
  <2> QED
    BY <1>4, <1>6, <2>2
<1> QED
  BY <1>5, <1>6

\* The bars after an ending, or the same if the program crashed.
LEMMA EndsKeeps ==
    ASSUME BarsOK(bars), NEW B, GoesOn(bars, B), NEW b, Ends(B, b)
    PROVE  GoesOn(bars, bars')
<1>1. GoesOn(bars, bars)
  BY DEF GoesOn
<1> QED
  BY <1>1 DEF Ends

\* A bar whose time is over does the oldest of its events, or ends.
LEMMA TimeOutKeeps ==
    ASSUME BarsOK(bars), NEW b \in Bars, TimeOut(b)
    PROVE  GoesOn(bars, bars')
<1> DEFINE bar == [bars[b] EXCEPT !.ready = TRUE, !.timer = FALSE]
           here == [bars EXCEPT ![b] = bar]
<1>1. bars \in [Bars -> BarTypes] /\ bars[b] \in BarTypes /\ bars[b].phase = "shown"
      /\ b \in Active(bars) /\ Movable(bars[b])
  BY DEF BarsOK, BarsTyped, Active, TimeOut
<1>2. [bars EXCEPT ![b].ready = TRUE, ![b].timer = FALSE] = here
  BY <1>1
<1>3. /\ bar \in BarTypes /\ bar.time = bars[b].time /\ bar.phase = "shown"
      /\ bar.events = bars[b].events /\ bar.moving = bars[b].moving /\ bar.slot = bars[b].slot
  BY <1>1 DEF BarTypes, Phases
<1>4. here[b] = bar
  BY <1>1
<1> HIDE DEF bar
<1>5. Movable(bar) /\ DestinationOf(bar) = DestinationOf(bars[b])
  BY <1>1, <1>3 DEF Movable, DestinationOf
<1>6. GoesOn(bars, here)
  BY <1>1, <1>3, <1>5, OneChanged
<1> HIDE DEF here
<1>7. GoesOn(here, requestMessageBarEvent(here, b))
  BY <1>3, <1>4, <1>6, RequestKeeps DEF GoesOn
<1>8. Ends(requestMessageBarEvent(here, b), b)
  BY <1>2 DEF TimeOut
<1> QED
  BY <1>6, <1>7, <1>8, GoesOnTwice, EndsKeeps

\* A bar that has moved goes on with what waits, and ends if its time was over.
LEMMA MoveFinishedKeeps ==
    ASSUME BarsOK(bars), NEW b \in Bars, MoveFinished(b)
    PROVE  GoesOn(bars, bars')
<1> DEFINE bar == [bars[b] EXCEPT !.slot = bars[b].moving, !.moving = NoMove]
           there == [bars EXCEPT ![b] = bar]
           next == IF bars[b].events # <<>> THEN requestMessageBarEvent(there, b) ELSE there
<1>1. /\ bars \in [Bars -> BarTypes] /\ bars[b] \in BarTypes /\ bars[b].phase = "shown"
      /\ b \in Active(bars) /\ bars[b].moving # NoMove /\ bars[b].moving \in 0 .. Room
  BY DEF BarsOK, BarsTyped, Active, MoveFinished, BarTypes
<1>2. [bars EXCEPT ![b].slot = bars[b].moving, ![b].moving = NoMove] = there
  BY <1>1
<1>3. /\ bar \in BarTypes /\ bar.time = bars[b].time /\ bar.phase = "shown"
      /\ bar.events = bars[b].events /\ bar.moving = NoMove /\ bar.slot = bars[b].moving
  <2>1. Room \in Nat
    BY BarsAssumption
  <2>2. NoMove \in 0 .. Room /\ bars[b].moving \in Nat
    BY <1>1, <2>1 DEF NoMove
  <2> QED
    BY <1>1, <2>2 DEF BarTypes
<1>4. there[b] = bar
  BY <1>1
<1> HIDE DEF bar
<1>5. GoesOn(bars, next) /\ next[b].phase = "shown"
  <2>1. CASE bars[b].events # <<>>
    BY <1>1, <1>3, <2>1, TakesUp
  <2>2. CASE bars[b].events = <<>>
    <3>1. Movable(bar) /\ DestinationOf(bar) = DestinationOf(bars[b])
      BY <1>1, <1>3, <2>2 DEF Movable, DestinationOf
    <3>2. GoesOn(bars, there)
      BY <1>1, <1>3, <3>1, OneChanged
    <3> QED
      BY <1>3, <1>4, <2>2, <3>2
  <2> QED
    BY <2>1, <2>2
<1> DEFINE after == IF bars[b].ready THEN requestMessageBarEvent(next, b) ELSE next
<1>6. Ends(after, b)
  BY <1>2 DEF MoveFinished
<1> HIDE DEF next
<1>7. GoesOn(next, requestMessageBarEvent(next, b))
  BY <1>5, RequestKeeps DEF GoesOn
<1>8. GoesOn(bars, after)
  <2>1. GoesOn(bars, requestMessageBarEvent(next, b))
    BY <1>5, <1>7, GoesOnTwice
  <2> QED
    BY <1>5, <2>1
<1> QED
  BY <1>6, <1>8, EndsKeeps

\* A bar that is closed ends, whatever waits.
LEMMA ClosedKeeps ==
    ASSUME BarsOK(bars), NEW b \in Bars, onCloseButtonClicked(b)
    PROVE  GoesOn(bars, bars')
<1> DEFINE bar == [bars[b] EXCEPT !.ready = TRUE]
           here == [bars EXCEPT ![b] = bar]
<1>1. bars \in [Bars -> BarTypes] /\ bars[b] \in BarTypes
      /\ bars[b].phase \in {"create", "shown"} /\ b \in Active(bars) /\ Movable(bars[b])
  BY DEF BarsOK, BarsTyped, Active, onCloseButtonClicked
<1>2. [bars EXCEPT ![b].ready = TRUE] = here
  BY <1>1
<1>3. /\ bar \in BarTypes /\ bar.time = bars[b].time /\ bar.phase = bars[b].phase
      /\ bar.events = bars[b].events /\ bar.moving = bars[b].moving /\ bar.slot = bars[b].slot
  BY <1>1 DEF BarTypes
<1>4. here[b] = bar
  BY <1>1
<1> HIDE DEF bar
<1>5. Movable(bar) /\ DestinationOf(bar) = DestinationOf(bars[b])
  BY <1>1, <1>3 DEF Movable, DestinationOf
<1>6. GoesOn(bars, here)
  BY <1>1, <1>3, <1>5, OneChanged
<1>7. b \in Active(here)
  BY <1>1, <1>3, <1>4 DEF Active
<1> HIDE DEF here
<1>8. GoesOn(here, postMessageBarEndEvent(here, b))
  BY <1>6, <1>7, EndKeeps DEF GoesOn
<1>9. Ends(postMessageBarEndEvent(here, b), b)
  BY <1>2 DEF onCloseButtonClicked
<1> QED
  BY <1>6, <1>8, <1>9, GoesOnTwice, EndsKeeps

\* A bar that has faded, or went with its window, is told nothing any more.
LEMMA FadedKeeps ==
    ASSUME BarsOK(bars), NEW b \in Bars, Faded(b)
    PROVE  GoesOn(bars, bars')
<1>1. bars \in [Bars -> BarTypes] /\ bars[b] \in BarTypes /\ bars[b].phase = "fading"
      /\ \A o \in Bars : Movable(bars[o])
  BY DEF BarsOK, BarsTyped, Faded
<1> DEFINE bar == Over(bars[b], "gone")
<1>2. bar \in BarTypes /\ Movable(bar) /\ bar.phase = "gone" /\ bar.time = bars[b].time
  BY <1>1, OverTyped DEF Phases
<1>3. bars' = [bars EXCEPT ![b] = bar]
  BY DEF Faded
<1> HIDE DEF bar
<1>4. bars' \in [Bars -> BarTypes] /\ bars'[b] = bar /\ \A o \in Bars : o # b => bars'[o] = bars[o]
  BY <1>1, <1>2, <1>3
<1>5. BarsTyped(bars')
  BY <1>1, <1>2, <1>4 DEF BarsTyped
<1>6. SameList(bars, bars')
  BY <1>1, <1>2, <1>4 DEF SameList, Active
<1>7. \A o \in Active(bars') : bars'[o] = bars[o]
  BY <1>2, <1>4 DEF Active
<1>8. BarsOK(bars')
  BY <1>5, <1>6, <1>7, SameListKeeps
<1>9. bars[b] # NotYet
  BY <1>1 DEF NotYet
<1> QED
  BY <1>2, <1>4, <1>8, <1>9 DEF GoesOn

\* With a window its bars are lost: they stay listed, with their times.
LEMMA WindowDestroyedKeeps ==
    ASSUME BarsOK(bars), NEW w \in Sessions, WindowDestroyed(w)
    PROVE  GoesOn(bars, bars')
<1> DEFINE end(b) == IF b \in Active(bars) THEN "lost" ELSE "gone"
<1>1. bars \in [Bars -> BarTypes] /\ \A o \in Bars : bars[o] \in BarTypes /\ Movable(bars[o])
  BY DEF BarsOK, BarsTyped
<1>2. bars' = [b \in Bars |-> IF bars[b].parent # w THEN bars[b] ELSE Over(bars[b], end(b))]
  BY DEF WindowDestroyed
<1>3. \A b \in Bars : end(b) \in Phases \ {"create"}
  BY DEF Phases
<1>4. \A b \in Bars : /\ bars'[b] \in BarTypes /\ Movable(bars'[b]) /\ bars'[b].time = bars[b].time
                      /\ \/ bars'[b] = bars[b]
                         \/ bars'[b].phase = end(b) /\ bars[b].parent = w
  <2> SUFFICES ASSUME NEW b \in Bars
               PROVE  /\ bars'[b] \in BarTypes /\ Movable(bars'[b]) /\ bars'[b].time = bars[b].time
                      /\ \/ bars'[b] = bars[b]
                         \/ bars'[b].phase = end(b) /\ bars[b].parent = w
    OBVIOUS
  <2> HIDE DEF end
  <2>1. CASE bars[b].parent # w
    BY <1>1, <1>2, <2>1
  <2>2. CASE bars[b].parent = w
    <3>1. bars'[b] = Over(bars[b], end(b))
      BY <1>2, <2>2
    <3> QED
      BY <1>1, <1>3, <2>2, <3>1, OverTyped
  <2> QED
    BY <2>1, <2>2
<1>5. BarsTyped(bars')
  <2>1. bars' \in [Bars -> BarTypes]
    BY <1>2, <1>4
  <2> QED
    BY <1>4, <2>1 DEF BarsTyped
<1>6. SameList(bars, bars')
  BY <1>4 DEF SameList, Active
<1>7. \A o \in Active(bars') : bars'[o].phase # "lost" => bars'[o] = bars[o]
  BY <1>4 DEF Active
<1>8. BarsOK(bars')
  BY <1>5, <1>6, <1>7, SameListKeeps
<1>9. \A b \in Bars : bars[b] = NotYet => bars'[b] = NotYet
  <2>1. NotYet.parent # w
    BY BarsAssumption DEF NotYet
  <2> QED
    BY <1>2, <2>1
<1> QED
  BY <1>4, <1>8, <1>9 DEF GoesOn

-----------------------------------------------------------------------------
\* A step of the bars that are there keeps the order of their times.
LEMMA TimesKept ==
    ASSUME NEW B, NEW C, NEW n \in Nat, TimesGoUp(B, n), GoesOn(B, C)
    PROVE  TimesGoUp(C, n)
  BY DEF TimesGoUp, GoesOn

\* The time of the last bar there is.
LastTime(t) == (\E b \in Bars : bars[b].time = t) /\ (\A b \in Bars : bars[b].time <= t)

\* There is a last time, none before the first bar.
LEMMA LastTimeIs ==
    ASSUME BarsInvariant, shown < MaxBars
    PROVE  LET latest == CHOOSE t \in 0 .. MaxBars : LastTime(t) IN
           latest \in 0 .. shown /\ LastTime(latest)
<1> DEFINE latest == CHOOSE t \in 0 .. MaxBars : LastTime(t)
<1>1. MaxBars \in Nat /\ shown \in Nat /\ Bars = 1 .. MaxBars /\ shown + 1 \in Bars
  BY BarsAssumption DEF BarsInvariant, Bars
<1>2. NotYet.time = 0
  BY DEF NotYet
<1>3. /\ \A b \in Bars : b > shown => bars[b].time = 0
      /\ \A b \in Bars : b <= shown => bars[b].time \in 1 .. b
      /\ \A b, o \in Bars : b < o /\ o <= shown => bars[b].time <= bars[o].time
  BY <1>2 DEF BarsInvariant, TimesGoUp
<1>4. \E t \in 0 .. MaxBars : LastTime(t)
  <2>1. CASE shown = 0
    <3>1. \A b \in Bars : bars[b].time = 0
      BY <1>1, <1>3, <2>1
    <3>2. LastTime(0)
      BY <1>1, <3>1 DEF LastTime
    <3> QED
      BY <1>1, <3>2
  <2>2. CASE shown # 0
    <3>1. shown \in Bars /\ bars[shown].time \in 1 .. shown
      BY <1>1, <1>3, <2>2
    <3>2. \A b \in Bars : bars[b].time <= bars[shown].time
      BY <1>1, <1>3, <3>1
    <3>3. LastTime(bars[shown].time)
      BY <3>1, <3>2 DEF LastTime
    <3> QED
      BY <1>1, <3>1, <3>3
  <2> QED
    BY <2>1, <2>2
<1>5. latest \in 0 .. MaxBars /\ LastTime(latest)
  BY <1>4, Zenon
<1> HIDE DEF latest
<1>6. PICK b \in Bars : bars[b].time = latest
  BY <1>5 DEF LastTime
<1>7. latest <= shown
  BY <1>1, <1>3, <1>5, <1>6
<1> QED
  BY <1>1, <1>5, <1>7 DEF latest

\* A new bar goes below all that are there; the others stay where they are.
LEMMA NewBarKeeps ==
    ASSUME BarsInvariant, shown < MaxBars, NEW w \in Windows,
           NEW time \in 1 .. (shown + 1), \A b \in Bars : bars[b].time <= time,
           NewBar(shown + 1, w, time)
    PROVE  BarsOK(bars') /\ TimesGoUp(bars', shown + 1)
<1> DEFINE n == shown + 1
           below == Cardinality(Active(bars))
           bar == [NotYet EXCEPT !.parent = w, !.time = time]
           new == IF below < Room THEN [bar EXCEPT !.phase = "create", !.slot = below]
                  ELSE Over(bar, "gone")
<1>1. MaxBars \in Nat /\ shown \in Nat /\ Bars = 1 .. MaxBars /\ n \in Bars /\ Room \in Nat
  BY BarsAssumption DEF BarsInvariant, Bars
<1>2. /\ bars \in [Bars -> BarTypes] /\ \A b \in Bars : Movable(bars[b])
      /\ \A b \in Bars : bars[b].time \in Nat
  BY DEF BarsInvariant, BarsOK, BarsTyped, BarTypes
<1>3. Active(bars) \in SUBSET Bars /\ below \in Nat
  <2>1. Active(bars) \in SUBSET Bars
    BY DEF Active
  <2> QED
    BY <2>1, BarsAreFinite
<1>4. bars[n] = NotYet /\ NotYet.time = 0 /\ NotYet.phase = "none"
  <2>1. n > shown
    BY <1>1
  <2>2. bars[n] = NotYet
    BY <1>1, <2>1 DEF BarsInvariant, TimesGoUp
  <2> QED
    BY <2>2 DEF NotYet
<1>5. n \notin Active(bars)
  BY <1>4 DEF Active
<1>6. bars' = [bars EXCEPT ![n] = new]
  BY DEF NewBar
<1>7. /\ bar \in BarTypes /\ bar.time = time /\ bar.phase = "none" /\ bar.events = <<>>
      /\ bar.moving = NoMove
  <2>1. NotYet \in BarTypes /\ NotYet.events = <<>> /\ NotYet.moving = NoMove
    BY NotYetTyped DEF NotYet
  <2>2. time \in Nat /\ w \in Windows \cup {NoWindow}
    BY <1>1
  <2> QED
    BY <1>4, <2>1, <2>2 DEF BarTypes
<1> HIDE DEF bar
<1>8. /\ new \in BarTypes /\ Movable(new) /\ new.time = time
      /\ IF below < Room THEN new.phase = "create" /\ DestinationOf(new) = below
         ELSE new.phase = "gone"
  <2>1. CASE below < Room
    <3>1. new = [bar EXCEPT !.phase = "create", !.slot = below]
      BY <2>1
    <3>2. /\ new \in BarTypes /\ new.time = time /\ new.phase = "create" /\ new.slot = below
          /\ new.events = <<>> /\ new.moving = NoMove
      BY <1>3, <1>7, <3>1 DEF BarTypes, Phases
    <3> QED
      BY <2>1, <3>2 DEF Movable, DestinationOf
  <2>2. CASE ~(below < Room)
    BY <1>7, <2>2, OverTyped DEF Phases
  <2> QED
    BY <2>1, <2>2
<1> HIDE DEF new
<1>9. bars' \in [Bars -> BarTypes] /\ bars'[n] = new /\ \A b \in Bars : b # n => bars'[b] = bars[b]
  BY <1>1, <1>2, <1>6, <1>8
<1>10. BarsTyped(bars')
  BY <1>2, <1>8, <1>9 DEF BarsTyped
<1>11. \A o \in Bars : o \in Active(bars) => o # n /\ bars'[o] = bars[o] /\ o \in Active(bars')
  BY <1>5, <1>9 DEF Active
<1>12. \A o \in Active(bars') : o = n \/ o \in Active(bars)
  BY <1>9 DEF Active
<1>13. \A o \in Active(bars) : Earlier(bars', o) = Earlier(bars, o)
  <2> SUFFICES ASSUME NEW o \in Active(bars) PROVE Earlier(bars', o) = Earlier(bars, o)
    OBVIOUS
  <2>1. o \in Bars /\ bars'[o] = bars[o] /\ bars[o].time \in Nat /\ bars[o].time <= time
    BY <1>2, <1>3, <1>11
  <2>2. ~(bars'[n].time < bars'[o].time)
    BY <1>1, <1>8, <1>9, <2>1
  <2>3. \A p \in Bars : p \in Earlier(bars', o) <=> p \in Earlier(bars, o)
    BY <1>1, <1>11, <1>12, <2>1, <2>2 DEF Earlier
  <2>4. Earlier(bars', o) \subseteq Bars /\ Earlier(bars, o) \subseteq Bars
    BY DEF Earlier, Active
  <2> QED
    BY <2>3, <2>4
<1>14. n \in Active(bars') => below < Room /\ DestinationOf(bars'[n]) = below
  BY <1>8, <1>9 DEF Active
<1>15. Earlier(bars', n) \in SUBSET Active(bars)
  <2> SUFFICES ASSUME NEW p \in Earlier(bars', n) PROVE p \in Active(bars)
    OBVIOUS
  <2>1. p \in Active(bars') /\ bars'[p].time < bars'[n].time
    BY DEF Earlier
  <2>2. bars'[n].time \in Nat
    BY <1>1, <1>8, <1>9
  <2> QED
    BY <1>12, <2>1, <2>2
<1>16. Cardinality(Earlier(bars', n)) \in Nat /\ Cardinality(Earlier(bars', n)) <= below
  <2>1. Earlier(bars', n) \in SUBSET Bars
    BY <1>3, <1>15
  <2> QED
    BY <1>3, <1>15, <2>1, BarsAreFinite
<1>17. Fits(bars')
  <2> SUFFICES ASSUME NEW o \in Active(bars') PROVE Cardinality(Earlier(bars', o)) < Room
    BY DEF Fits
  <2>1. CASE o = n
    BY <1>1, <1>3, <1>14, <1>16, <2>1
  <2>2. CASE o \in Active(bars)
    BY <1>13, <2>2 DEF BarsInvariant, BarsOK, Fits
  <2> QED
    BY <1>12, <2>1, <2>2
<1>18. ASSUME Distinct(bars') PROVE LinedUp(bars')
  <2>1. Distinct(bars)
    <3> SUFFICES ASSUME NEW b \in Bars, NEW o \in Bars, bars[b].time = bars[o].time
                 PROVE  b = o \/ bars[b].time = 0
      BY DEF Distinct
    <3>1. CASE b = n \/ o = n
      BY <1>4, <3>1
    <3>2. CASE b # n /\ o # n
      BY <1>9, <1>18, <3>2 DEF Distinct
    <3> QED
      BY <3>1, <3>2
  <2>2. LinedUp(bars)
    BY <2>1 DEF BarsInvariant, BarsOK
  <2>3. \A p \in Active(bars) : bars'[p].time < bars'[n].time
    <3> SUFFICES ASSUME NEW p \in Active(bars) PROVE bars'[p].time < bars'[n].time
      OBVIOUS
    <3>1. p \in Bars /\ p # n /\ bars'[p] = bars[p] /\ bars[p].time \in Nat /\ bars[p].time <= time
      BY <1>2, <1>3, <1>11
    <3>2. bars'[n].time = time /\ time \in Nat /\ time # 0
      BY <1>1, <1>8, <1>9
    <3>3. bars'[p].time # bars'[n].time
      BY <1>1, <1>18, <3>1, <3>2 DEF Distinct
    <3> QED
      BY <3>1, <3>2, <3>3
  <2>4. Earlier(bars', n) = Active(bars)
    BY <1>3, <1>11, <1>15, <2>3 DEF Earlier
  <2> SUFFICES ASSUME NEW o \in Active(bars'), bars'[o].phase # "lost"
               PROVE  DestinationOf(bars'[o]) = Cardinality(Earlier(bars', o))
    BY DEF LinedUp
  <2>5. CASE o = n
    BY <1>14, <2>4, <2>5
  <2>6. CASE o \in Active(bars)
    BY <1>3, <1>11, <1>13, <2>2, <2>6 DEF LinedUp
  <2> QED
    BY <1>12, <2>5, <2>6
<1>19. TimesGoUp(bars', n)
  <2>1. \A b \in Bars : b > n => bars'[b] = NotYet
    BY <1>1, <1>9 DEF BarsInvariant, TimesGoUp
  <2>2. \A b \in Bars : b <= n => bars'[b].time \in 1 .. b
    <3> SUFFICES ASSUME NEW b \in Bars, b <= n PROVE bars'[b].time \in 1 .. b
      OBVIOUS
    <3>1. CASE b = n
      BY <1>8, <1>9, <3>1
    <3>2. CASE b # n
      <4>1. b <= shown
        BY <1>1, <3>2
      <4> QED
        BY <1>9, <3>2, <4>1 DEF BarsInvariant, TimesGoUp
    <3> QED
      BY <3>1, <3>2
  <2>3. \A b, o \in Bars : b < o /\ o <= n => bars'[b].time <= bars'[o].time
    <3> SUFFICES ASSUME NEW b \in Bars, NEW o \in Bars, b < o, o <= n
                 PROVE  bars'[b].time <= bars'[o].time
      OBVIOUS
    <3>1. b # n /\ bars'[b] = bars[b]
      BY <1>1, <1>9
    <3>2. CASE o = n
      BY <1>8, <1>9, <3>1, <3>2
    <3>3. CASE o # n
      <4>1. o <= shown
        BY <1>1, <3>3
      <4> QED
        BY <1>9, <3>1, <3>3, <4>1 DEF BarsInvariant, TimesGoUp
    <3> QED
      BY <3>2, <3>3
  <2> QED
    BY <2>1, <2>2, <2>3 DEF TimesGoUp
<1> HIDE DEF n
<1> QED
  BY <1>10, <1>17, <1>18, <1>19 DEF BarsOK, n

\* A message adds a bar, or crashes the program, or is shown nowhere.
LEMMA ShowKeeps ==
    ASSUME BarsInvariant, NEW k, NEW w, w \in Windows \cup {NoWindow}, Show(k, w)
    PROVE  BarsInvariant'
<1> DEFINE latest == CHOOSE t \in 0 .. MaxBars : LastTime(t)
<1>1. shown \in Nat /\ shown < MaxBars /\ MaxBars \in Nat
  BY BarsAssumption DEF Show, BarsInvariant
<1>2. latest \in 0 .. shown /\ LastTime(latest)
  BY <1>1, LastTimeIs
<1>3. CASE UNCHANGED <<bars, shown>>
  BY <1>3 DEF BarsInvariant
<1>4. CASE ~(UNCHANGED <<bars, shown>>)
  <2>1. ParentOf(k, w) \in Windows
    BY <1>4 DEF Show, ParentOf, Windows
  <2>2. PICK later1 \in {0, 1} :
            /\ shown' = shown + 1 /\ latest + later1 > 0
            /\ NewBar(shown + 1, ParentOf(k, w), latest + later1)
    BY <1>4 DEF Show, LastTime
  <2> HIDE DEF latest
  <2>3. latest + later1 \in 1 .. (shown + 1)
    BY <1>1, <1>2, <2>2
  <2>4. \A b \in Bars : bars[b].time <= latest + later1
    <3>1. \A b \in Bars : bars[b].time \in Nat
      BY DEF BarsInvariant, BarsOK, BarsTyped, BarTypes
    <3> QED
      BY <1>1, <1>2, <2>2, <3>1 DEF LastTime
  <2>5. BarsOK(bars') /\ TimesGoUp(bars', shown + 1)
    BY <1>1, <2>1, <2>2, <2>3, <2>4, NewBarKeeps
  <2> QED
    BY <1>1, <2>2, <2>5 DEF BarsInvariant
<1> QED
  BY <1>3, <1>4

\* The invariant of the bars is inductive, and implies the property.
LEMMA BarsLinedUp == Init /\ [][Next]_vars => []BarsLineUp
<1>1. Init => BarsInvariant
  <2> SUFFICES ASSUME Init PROVE BarsInvariant
    OBVIOUS
  <2>1. MaxBars \in Nat /\ Bars = 1 .. MaxBars /\ shown = 0 /\ bars = [b \in Bars |-> NotYet]
    BY BarsAssumption DEF Init, Bars
  <2>2. TimesGoUp(bars, 0)
    BY <2>1 DEF TimesGoUp
  <2>3. BarsTyped(bars)
    BY <2>1, NotYetTyped DEF BarsTyped
  <2>4. Active(bars) = {}
    BY <2>1 DEF Active, NotYet
  <2> QED
    BY <2>1, <2>2, <2>3, <2>4 DEF BarsInvariant, BarsOK, Fits, LinedUp
<1>2. BarsInvariant /\ [Next]_vars => BarsInvariant'
  <2> SUFFICES ASSUME BarsInvariant, [Next]_vars PROVE BarsInvariant'
    OBVIOUS
  <2>1. BarsOK(bars) /\ shown \in Nat /\ TimesGoUp(bars, shown)
    BY BarsAssumption DEF BarsInvariant
  <2>2. ASSUME GoesOn(bars, bars'), UNCHANGED shown PROVE BarsInvariant'
    <3>1. TimesGoUp(bars', shown)
      BY <2>1, <2>2, TimesKept
    <3> QED
      BY <2>2, <3>1 DEF BarsInvariant, GoesOn
  <2>3. CASE UNCHANGED vars
    BY <2>3 DEF vars, BarsInvariant
  <2>4. ASSUME NEW k, NEW w \in Windows \cup {NoWindow}, Show(k, w) PROVE BarsInvariant'
    BY <2>4, ShowKeeps
  <2>5. ASSUME NEW b \in Bars, Step(b) \/ onCloseButtonClicked(b) PROVE BarsInvariant'
    <3>1. UNCHANGED shown
      BY <2>5 DEF Step, CreateFinished, TimeOut, MoveFinished, Faded, onCloseButtonClicked, Ends
    <3>2. GoesOn(bars, bars')
      BY <2>1, <2>5, CreateFinishedKeeps, TimeOutKeeps, MoveFinishedKeeps, FadedKeeps, ClosedKeeps
         DEF Step
    <3> QED
      BY <2>2, <3>1, <3>2
  <2>6. ASSUME NEW w \in Sessions, WindowDestroyed(w) PROVE BarsInvariant'
    <3>1. UNCHANGED shown
      BY <2>6 DEF WindowDestroyed
    <3>2. GoesOn(bars, bars')
      BY <2>1, <2>6, WindowDestroyedKeeps
    <3> QED
      BY <2>2, <3>1, <3>2
  <2> QED
    BY <2>3, <2>4, <2>5, <2>6 DEF Next
<1>3. BarsInvariant => BarsLineUp
  <2> SUFFICES ASSUME BarsInvariant, Distinct(bars), NEW b \in Active(bars),
                      bars[b].phase # "lost"
               PROVE  Destination(b) = Cardinality(Earlier(bars, b))
    BY DEF BarsLineUp, Distinct
  <2>1. LinedUp(bars)
    BY DEF BarsInvariant, BarsOK
  <2> QED
    BY <2>1 DEF LinedUp, Destination, DestinationOf
<1> QED
  BY <1>1, <1>2, <1>3, PTL

\* Whatever ends in whatever order, the bars on the screen are bound for places
\* one below the other, in the order of their creation.
THEOREM BarsLineUpAlways == WidgetSpec => []BarsLineUp
  BY KindsApart, BarsLinedUp, PTL

-----------------------------------------------------------------------------
(* Induction, which the library has for well-founded relations *)

\* A set of natural numbers that is not empty has a least element.
LEMMA LeastNat ==
    ASSUME NEW S \in SUBSET Nat, S # {}
    PROVE  \E n \in S : \A m \in S : n <= m
<1> DEFINE R == {ss \in Nat \X Nat : ss[1] < ss[2]}
<1>1. IsWellFoundedOn(R, Nat)
  <2>1. R = OpToRel(<, Nat)
    BY Zenon DEF OpToRel
  <2> QED
    BY <2>1, NatLessThanWellFounded
<1>2. \A m, n \in Nat : m < n => <<m, n>> \in R
  OBVIOUS
<1> HIDE DEF R
<1>3. PICK n \in S : \A m \in S : <<m, n>> \notin R
  BY <1>1, WFMin, Zenon
<1>4. \A m \in S : ~(m < n)
  BY <1>2, <1>3
<1> QED
  BY <1>4

\* Induction: a set with 0, and with the successor of each of its numbers, has all.
LEMMA EveryNat ==
    ASSUME NEW S, 0 \in S, \A n \in Nat : n \in S => n + 1 \in S
    PROVE  \A n \in Nat : n \in S
<1> SUFFICES ASSUME Nat \ S # {} PROVE FALSE
  OBVIOUS
<1>1. PICK n \in Nat \ S : \A m \in Nat \ S : n <= m
  BY LeastNat, Nat \ S \in SUBSET Nat
<1>2. n - 1 \in Nat /\ n - 1 \notin Nat \ S
  BY <1>1
<1> QED
  BY <1>1, <1>2, n - 1 + 1 = n

\* Half of a number is not more than it.
LEMMA HalfIsLess ==
    ASSUME NEW d \in Nat
    PROVE  d \div 2 \in 0 .. d
  OBVIOUS

-----------------------------------------------------------------------------
(* The searches of both plots *)

\* Times in the order they came in.
InOrder(list) == \A i, j \in DOMAIN list : i <= j => list[i] <= list[j]

\* Before place n the times are below x, from there on they are not.
Splits(list, n, x) ==
    /\ n \in 1 .. Len(list) + 1
    /\ \A i \in 1 .. n - 1 : list[i] < x
    /\ \A i \in n .. Len(list) : x <= list[i]

\* Times in order have such a place.
LEMMA PlaceExists ==
    ASSUME NEW list \in Seq(Int), InOrder(list), NEW x \in Int
    PROVE  \E n \in 1 .. Len(list) + 1 : Splits(list, n, x)
<1> DEFINE S == {n \in 1 .. Len(list) + 1 : n = Len(list) + 1 \/ x <= list[n]}
<1>0. /\ Len(list) \in Nat /\ DOMAIN list = 1 .. Len(list)
      /\ \A i \in 1 .. Len(list) : list[i] \in Int
  OBVIOUS
<1>1. PICK n \in S : \A m \in S : n <= m
  <2>1. S \in SUBSET Nat /\ Len(list) + 1 \in S
    BY <1>0
  <2> HIDE DEF S
  <2> QED
    BY <2>1, LeastNat
<1>2. \A i \in 1 .. n - 1 : list[i] < x
  BY <1>0, <1>1
<1>3. \A i \in n .. Len(list) : x <= list[i]
  <2> SUFFICES ASSUME NEW i \in n .. Len(list) PROVE x <= list[i]
    OBVIOUS
  <2>1. x <= list[n] /\ list[n] <= list[i]
    BY <1>0, <1>1 DEF InOrder
  <2> QED
    BY <1>0, <1>1, <2>1
<1> QED
  BY <1>1, <1>2, <1>3 DEF Splits

\* The binary search of the serial plot finds it.
LEMMA SerialSearch ==
    ASSUME NEW list \in Seq(Int), InOrder(list), NEW x \in Int
    PROVE  Splits(list, Plot!LowerBound(list, x), x)
<1> DEFINE N == Len(list)
           Spans == (1 .. N + 1) \X (0 .. N)
           Mid(span) == span[1] + (span[2] - span[1]) \div 2
           Halved(f) == [span \in Spans |->
               IF span[1] > span[2] THEN span[1]
               ELSE IF list[Mid(span)] < x THEN f[<<Mid(span) + 1, span[2]>>]
               ELSE f[<<span[1], Mid(span) - 1>>]]
           search == CHOOSE f : f = Halved(f)
<1>0. N \in Nat /\ DOMAIN list = 1 .. N /\ \A i \in 1 .. N : list[i] \in Int
  OBVIOUS
<1>1. PICK n \in 1 .. N + 1 : Splits(list, n, x)
  BY PlaceExists
<1>2. \A i \in 1 .. N : (list[i] < x) <=> (i < n)
  <2> TAKE i \in 1 .. N
  <2>1. CASE i < n
    BY <1>0, <1>1, <2>1 DEF Splits
  <2>2. CASE i >= n
    <3>1. x <= list[i]
      BY <1>0, <1>1, <2>2 DEF Splits
    <3> QED
      BY <1>0, <2>2, <3>1
  <2> QED
    BY <1>0, <1>1, <2>1, <2>2
<1>3. Plot!LowerBound(list, x) = search[<<1, N>>]
  BY DEF Plot!LowerBound
<1>4. ASSUME NEW span \in Spans, span[1] <= span[2]
      PROVE  /\ Mid(span) \in 1 .. N /\ span[1] <= Mid(span) /\ Mid(span) <= span[2]
             /\ <<Mid(span) + 1, span[2]>> \in Spans /\ <<span[1], Mid(span) - 1>> \in Spans
  <2>1. span[1] \in 1 .. N + 1 /\ span[2] \in 0 .. N
    BY <1>0
  <2>2. span[2] - span[1] \in Nat
    BY <1>0, <1>4, <2>1
  <2>3. (span[2] - span[1]) \div 2 \in 0 .. span[2] - span[1]
    BY <2>2, HalfIsLess
  <2>4. Mid(span) \in 1 .. N /\ span[1] <= Mid(span) /\ Mid(span) <= span[2]
    BY <1>0, <1>4, <2>1, <2>3
  <2> HIDE DEF Mid
  <2>5. Mid(span) + 1 \in 1 .. N + 1 /\ Mid(span) - 1 \in 0 .. N
    BY <1>0, <2>1, <2>4
  <2> QED
    BY <2>1, <2>4, <2>5
<1> DEFINE Found(span) == IF span[1] > span[2] THEN span[1]
                          ELSE IF n < span[1] THEN span[1]
                          ELSE IF n > span[2] + 1 THEN span[2] + 1 ELSE n
           found == [span \in Spans |-> Found(span)]
<1>5. ASSUME NEW span \in Spans, span[1] <= span[2]
      PROVE  IF list[Mid(span)] < x THEN Found(<<Mid(span) + 1, span[2]>>) = Found(span)
             ELSE Found(<<span[1], Mid(span) - 1>>) = Found(span)
  <2>1. span[1] \in 1 .. N + 1 /\ span[2] \in 0 .. N
    BY <1>0
  <2>2. (list[Mid(span)] < x) <=> (Mid(span) < n)
    BY <1>2, <1>4, <1>5
  <2>3. Mid(span) \in 1 .. N /\ span[1] <= Mid(span) /\ Mid(span) <= span[2]
    BY <1>4, <1>5
  <2> DEFINE mid == Mid(span)
  <2> HIDE DEF Mid
  <2>4. CASE mid < n
    BY <1>0, <1>5, <2>1, <2>2, <2>3, <2>4
  <2>5. CASE ~(mid < n)
    BY <1>0, <1>5, <2>1, <2>2, <2>3, <2>5
  <2> QED
    BY <2>4, <2>5
<1> HIDE DEF Mid, Found
<1>6. found = Halved(found)
  <2>1. \A span \in Spans : found[span] = Halved(found)[span]
    <3> TAKE span \in Spans
    <3>1. CASE span[1] > span[2]
      BY <3>1 DEF Found
    <3>2. CASE ~(span[1] > span[2])
      <4>1. span[1] <= span[2]
        BY <1>0, <3>2
      <4> QED
        BY <1>4, <1>5, <3>2, <4>1
    <3> QED
      BY <3>1, <3>2
  <2> QED
    BY <2>1
<1> HIDE DEF found
<1>7. search = Halved(search)
  <2> HIDE DEF Halved
  <2> QED
    BY <1>6
<1> HIDE DEF search
<1>11. \A span \in Spans :
          search[span] = IF span[1] > span[2] THEN span[1]
                         ELSE IF list[Mid(span)] < x THEN search[<<Mid(span) + 1, span[2]>>]
                         ELSE search[<<span[1], Mid(span) - 1>>]
  <2> DEFINE halved == Halved(search)
  <2>1. \A span \in Spans :
          halved[span] = IF span[1] > span[2] THEN span[1]
                         ELSE IF list[Mid(span)] < x THEN search[<<Mid(span) + 1, span[2]>>]
                         ELSE search[<<span[1], Mid(span) - 1>>]
    OBVIOUS
  <2> HIDE DEF halved
  <2>2. search = halved
    BY <1>7 DEF halved
  <2> QED
    BY <2>1, <2>2
<1> HIDE DEF Halved
<1> DEFINE S == {d \in Nat : \A span \in Spans :
                    span[2] - span[1] + 1 <= d => search[span] = Found(span)}
<1>8. 0 \in S
  <2> SUFFICES ASSUME NEW span \in Spans, span[2] - span[1] + 1 <= 0
               PROVE  search[span] = Found(span)
    OBVIOUS
  <2>1. span[1] > span[2]
    BY <1>0
  <2> QED
    BY <1>11, <2>1 DEF Found
<1>9. ASSUME NEW d \in Nat, d \in S PROVE d + 1 \in S
  <2> SUFFICES ASSUME NEW span \in Spans, span[2] - span[1] + 1 <= d + 1
               PROVE  search[span] = Found(span)
    OBVIOUS
  <2>0. span[1] \in 1 .. N + 1 /\ span[2] \in 0 .. N
    BY <1>0
  <2>1. CASE span[1] > span[2]
    BY <1>11, <2>1 DEF Found
  <2>2. CASE ~(span[1] > span[2])
    <3>1. span[1] <= span[2]
      BY <2>0, <2>2
    <3>2. /\ Mid(span) \in 1 .. N /\ span[1] <= Mid(span) /\ Mid(span) <= span[2]
          /\ <<Mid(span) + 1, span[2]>> \in Spans /\ <<span[1], Mid(span) - 1>> \in Spans
      BY <1>4, <3>1
    <3>3. /\ span[2] - (Mid(span) + 1) + 1 <= d
          /\ Mid(span) - 1 - span[1] + 1 <= d
      <4>1. \A a, b, m \in Int : b - a + 1 <= d + 1 /\ a <= m /\ m <= b =>
                b - (m + 1) + 1 <= d /\ m - 1 - a + 1 <= d
        OBVIOUS
      <4>2. span[1] \in Int /\ span[2] \in Int /\ Mid(span) \in Int
        BY <1>0, <2>0, <3>2
      <4> QED
        BY <3>2, <4>1, <4>2
    <3>4. /\ search[<<Mid(span) + 1, span[2]>>] = Found(<<Mid(span) + 1, span[2]>>)
          /\ search[<<span[1], Mid(span) - 1>>] = Found(<<span[1], Mid(span) - 1>>)
      BY <1>9, <3>2, <3>3
    <3>5. search[span] = IF list[Mid(span)] < x THEN search[<<Mid(span) + 1, span[2]>>]
                         ELSE search[<<span[1], Mid(span) - 1>>]
      BY <1>11, <2>2
    <3> QED
      BY <1>5, <3>1, <3>4, <3>5
  <2> QED
    BY <2>1, <2>2
<1>10. N \in S
  <2> HIDE DEF S
  <2> QED
    BY <1>0, <1>8, <1>9, EveryNat
<1>12. search[<<1, N>>] = n
  <2>1. <<1, N>> \in Spans /\ <<1, N>>[2] - <<1, N>>[1] + 1 <= N
    BY <1>0
  <2>2. search[<<1, N>>] = Found(<<1, N>>)
    BY <1>10, <2>1
  <2>3. Found(<<1, N>>) = n
    BY <1>0, <1>1 DEF Found
  <2> QED
    BY <2>2, <2>3
<1> QED
  BY <1>1, <1>3, <1>12

\* std::lower_bound, for the Modbus plot, finds it too.
LEMMA ModbusSearch ==
    ASSUME NEW list \in Seq(Int), InOrder(list), NEW x \in Int
    PROVE  Splits(list, Modbus!LowerBound(list, x), x)
<1> DEFINE N == Len(list)
           Spans == {s \in (1 .. N + 1) \X (0 .. N) : s[1] + s[2] <= N + 1}
           Mid(span) == span[1] + span[2] \div 2
           Halved(f) == [span \in Spans |->
               IF span[2] = 0 THEN span[1]
               ELSE IF list[Mid(span)] < x
                    THEN f[<<Mid(span) + 1, span[2] - span[2] \div 2 - 1>>]
               ELSE f[<<span[1], span[2] \div 2>>]]
           search == CHOOSE f : f = Halved(f)
<1>0. N \in Nat /\ DOMAIN list = 1 .. N /\ \A i \in 1 .. N : list[i] \in Int
  OBVIOUS
<1>1. PICK n \in 1 .. N + 1 : Splits(list, n, x)
  BY PlaceExists
<1>2. \A i \in 1 .. N : (list[i] < x) <=> (i < n)
  <2> TAKE i \in 1 .. N
  <2>1. CASE i < n
    BY <1>0, <1>1, <2>1 DEF Splits
  <2>2. CASE i >= n
    <3>1. x <= list[i]
      BY <1>0, <1>1, <2>2 DEF Splits
    <3> QED
      BY <1>0, <2>2, <3>1
  <2> QED
    BY <1>0, <1>1, <2>1, <2>2
<1>3. Modbus!LowerBound(list, x) = search[<<1, N>>]
  BY DEF Modbus!LowerBound
<1> DEFINE After(span) == <<Mid(span) + 1, span[2] - span[2] \div 2 - 1>>
           Before(span) == <<span[1], span[2] \div 2>>
<1>4. ASSUME NEW span \in Spans, span[2] # 0
      PROVE  /\ Mid(span) \in 1 .. N /\ span[1] <= Mid(span) /\ Mid(span) < span[1] + span[2]
             /\ After(span) \in Spans /\ Before(span) \in Spans
             /\ After(span)[1] = Mid(span) + 1
             /\ After(span)[1] + After(span)[2] = span[1] + span[2]
             /\ Before(span)[1] = span[1]
             /\ Before(span)[1] + Before(span)[2] = Mid(span)
             /\ After(span)[2] < span[2] /\ Before(span)[2] < span[2]
  <2>1. span[1] \in 1 .. N + 1 /\ span[2] \in 1 .. N /\ span[1] + span[2] <= N + 1
    BY <1>0, <1>4
  <2>2. span[2] \div 2 \in 0 .. span[2] - 1
    BY <2>1
  <2>3. Mid(span) \in 1 .. N /\ span[1] <= Mid(span) /\ Mid(span) < span[1] + span[2]
    BY <1>0, <2>1, <2>2
  <2> DEFINE half == span[2] \div 2
  <2>4. /\ span[2] - half - 1 \in 0 .. N /\ Mid(span) + 1 \in 1 .. N + 1
        /\ Mid(span) + 1 + (span[2] - half - 1) = span[1] + span[2]
        /\ span[2] - half - 1 < span[2] /\ half < span[2] /\ half \in 0 .. N
    <3>1. half \in Int /\ 0 <= half /\ half <= span[2] - 1
      BY <2>1, <2>2
    <3>2. Mid(span) = span[1] + half
      OBVIOUS
    <3>3. \A a, c, h \in Int : 0 <= h /\ h <= c - 1 /\ 1 <= a /\ a + c <= N + 1 =>
              /\ c - h - 1 \in 0 .. N /\ a + h + 1 \in 1 .. N + 1
              /\ a + h + 1 + (c - h - 1) = a + c
              /\ c - h - 1 < c /\ h < c /\ h \in 0 .. N
      BY <1>0
    <3>4. span[1] \in Int /\ span[2] \in Int /\ 1 <= span[1]
      BY <1>0, <2>1
    <3> HIDE DEF half, Mid
    <3> QED
      BY <2>1, <3>1, <3>2, <3>3, <3>4
  <2>5. /\ After(span)[1] = Mid(span) + 1 /\ After(span)[2] = span[2] - half - 1
        /\ Before(span)[1] = span[1] /\ Before(span)[2] = half
        /\ Mid(span) = span[1] + half
    OBVIOUS
  <2>6. Before(span) \in Spans
    <3>1. <<span[1], half>> \in (1 .. N + 1) \X (0 .. N)
      BY <2>1, <2>4
    <3>2. span[1] + half <= N + 1
      BY <1>0, <2>1, <2>3, <2>5
    <3> QED
      BY <2>5, <3>1, <3>2
  <2>7. After(span) \in Spans
    <3>1. After(span) \in (1 .. N + 1) \X (0 .. N)
      BY <2>4
    <3>2. After(span)[1] + After(span)[2] <= N + 1
      BY <2>1, <2>4, <2>5
    <3> QED
      BY <3>1, <3>2
  <2> HIDE DEF half, After, Before, Mid, Spans
  <2> QED
    BY <2>3, <2>4, <2>5, <2>6, <2>7
<1> DEFINE Found(span) == IF n < span[1] THEN span[1]
                          ELSE IF n > span[1] + span[2] THEN span[1] + span[2] ELSE n
           found == [span \in Spans |-> Found(span)]
<1>5. ASSUME NEW span \in Spans, span[2] # 0
      PROVE  IF list[Mid(span)] < x THEN Found(After(span)) = Found(span)
             ELSE Found(Before(span)) = Found(span)
  <2>1. span[1] \in 1 .. N + 1 /\ span[2] \in 0 .. N
    BY <1>0
  <2>2. (list[Mid(span)] < x) <=> (Mid(span) < n)
    BY <1>2, <1>4, <1>5
  <2> DEFINE mid == Mid(span)  right == After(span)  left == Before(span)
  <2>3. /\ mid \in 1 .. N /\ span[1] <= mid /\ mid < span[1] + span[2]
        /\ right[1] = mid + 1 /\ right[1] + right[2] = span[1] + span[2]
        /\ left[1] = span[1] /\ left[1] + left[2] = mid
    BY <1>4, <1>5
  <2> HIDE DEF Mid, After, Before, mid, right, left
  <2>4. CASE mid < n
    <3>1. Found(right) = Found(span)
      BY <1>0, <2>1, <2>3, <2>4
    <3> QED
      BY <2>2, <2>4, <3>1 DEF mid, right
  <2>5. CASE ~(mid < n)
    <3>1. Found(left) = Found(span)
      BY <1>0, <2>1, <2>3, <2>5
    <3> QED
      BY <2>2, <2>5, <3>1 DEF mid, left
  <2> QED
    BY <2>4, <2>5
<1>6. ASSUME NEW span \in Spans, span[2] = 0 PROVE Found(span) = span[1]
  BY <1>0, <1>6
<1> HIDE DEF Found
<1>7. found = Halved(found)
  <2>1. \A span \in Spans : found[span] = Halved(found)[span]
    <3> TAKE span \in Spans
    <3>1. CASE span[2] = 0
      BY <1>6, <3>1
    <3>2. CASE span[2] # 0
      <4>1. After(span) \in Spans /\ Before(span) \in Spans
        BY <1>4, <3>2
      <4> HIDE DEF Spans
      <4>2. found[After(span)] = Found(After(span)) /\ found[Before(span)] = Found(Before(span))
        BY <4>1
      <4> QED
        BY <1>5, <3>2, <4>2
    <3> QED
      BY <3>1, <3>2
  <2> QED
    BY <2>1
<1> HIDE DEF found
<1>8. search = Halved(search)
  <2> HIDE DEF Halved
  <2> QED
    BY <1>7
<1> HIDE DEF search
<1>9. \A span \in Spans :
          search[span] = IF span[2] = 0 THEN span[1]
                         ELSE IF list[Mid(span)] < x THEN search[After(span)]
                         ELSE search[Before(span)]
  <2> DEFINE halved == Halved(search)
  <2>1. \A span \in Spans :
          halved[span] = IF span[2] = 0 THEN span[1]
                         ELSE IF list[Mid(span)] < x THEN search[After(span)]
                         ELSE search[Before(span)]
    OBVIOUS
  <2> HIDE DEF halved
  <2>2. search = halved
    BY <1>8 DEF halved
  <2> QED
    BY <2>1, <2>2
<1>10. <<1, N>> \in Spans
  BY <1>0
<1>11. \A span \in Spans : span[2] \in Nat
  BY <1>0
<1> HIDE DEF Halved, Mid, After, Before, Spans
<1> DEFINE S == {d \in Nat : \A span \in Spans : span[2] <= d => search[span] = Found(span)}
<1>12. 0 \in S
  <2> SUFFICES ASSUME NEW span \in Spans, span[2] <= 0 PROVE search[span] = Found(span)
    OBVIOUS
  <2>1. span[2] = 0
    BY <1>11
  <2> QED
    BY <1>6, <1>9, <2>1
<1>13. ASSUME NEW d \in Nat, d \in S PROVE d + 1 \in S
  <2> SUFFICES ASSUME NEW span \in Spans, span[2] <= d + 1 PROVE search[span] = Found(span)
    OBVIOUS
  <2>1. CASE span[2] = 0
    BY <1>6, <1>9, <2>1
  <2>2. CASE span[2] # 0
    <3>1. /\ After(span) \in Spans /\ Before(span) \in Spans
          /\ After(span)[2] <= d /\ Before(span)[2] <= d
      BY <1>4, <1>11, <2>2
    <3>2. search[After(span)] = Found(After(span)) /\ search[Before(span)] = Found(Before(span))
      BY <1>13, <3>1
    <3> QED
      BY <1>5, <1>9, <2>2, <3>2
  <2> QED
    BY <2>1, <2>2
<1>14. N \in S
  <2> HIDE DEF S
  <2> QED
    BY <1>0, <1>12, <1>13, EveryNat
<1>15. search[<<1, N>>] = n
  <2>1. search[<<1, N>>] = Found(<<1, N>>)
    BY <1>0, <1>10, <1>14
  <2>2. Found(<<1, N>>) = n
    BY <1>0, <1>1 DEF Found
  <2> QED
    BY <2>1, <2>2
<1> QED
  BY <1>1, <1>3, <1>15

-----------------------------------------------------------------------------
(* SerialPlot *)

\* Of times in order findNearestPoint finds one no other is nearer than.
LEMMA NearestIsFound ==
    ASSUME NEW list \in Seq(Int), InOrder(list), list # <<>>, NEW x \in Int
    PROVE  /\ Plot!findNearestPoint(list, x) \in 1 .. Len(list)
           /\ \A i \in 1 .. Len(list) :
                 Plot!Distance(x, list[Plot!findNearestPoint(list, x)]) <= Plot!Distance(x, list[i])
<1> DEFINE N == Len(list)
           n == Plot!LowerBound(list, x)
           idx == IF n > N THEN N ELSE n
           k == IF idx > 1 /\ x - list[idx - 1] < list[idx] - x THEN idx - 1 ELSE idx
<1>1. Plot!findNearestPoint(list, x) = k
  BY DEF Plot!findNearestPoint
<1>2. N \in Nat \ {0} /\ DOMAIN list = 1 .. N /\ \A i \in 1 .. N : list[i] \in Int
  OBVIOUS
<1>3. Splits(list, n, x)
  BY SerialSearch
<1> HIDE DEF n
<1>4. /\ n \in 1 .. N + 1
      /\ \A i \in 1 .. n - 1 : list[i] < x
      /\ \A i \in n .. N : x <= list[i]
  BY <1>3 DEF Splits
<1>5. \A i, j \in 1 .. N : i <= j => list[i] <= list[j]
  BY <1>2 DEF InOrder
<1>6. k \in 1 .. N
  BY <1>2, <1>4
<1>7. ASSUME NEW i \in 1 .. N PROVE Plot!Distance(x, list[k]) <= Plot!Distance(x, list[i])
  <2>0. list[i] \in Int /\ list[k] \in Int
    BY <1>2, <1>6
  <2> HIDE DEF N
  <2>1. CASE n > N
    <3>1. idx = N /\ list[N] < x /\ list[i] < x /\ list[i] <= list[N] /\ list[N] \in Int
      BY <1>2, <1>4, <1>5, <2>1
    <3>2. k = N
      <4>1. CASE N > 1
        <5>1. list[N - 1] <= list[N] /\ list[N - 1] \in Int
          BY <1>2, <1>5, <4>1
        <5>2. ~(x - list[N - 1] < list[N] - x)
          BY <3>1, <5>1
        <5> QED
          BY <3>1, <5>2
      <4>2. CASE ~(N > 1)
        BY <3>1, <4>2
      <4> QED
        BY <4>1, <4>2
    <3> HIDE DEF k
    <3> QED
      BY <2>0, <3>1, <3>2 DEF Plot!Distance
  <2>2. CASE ~(n > N)
    <3>1. idx = n /\ n \in 1 .. N /\ x <= list[n] /\ list[n] \in Int
      BY <1>2, <1>4, <2>2
    <3>2. CASE i >= n
      <4>1. x <= list[i] /\ list[n] <= list[i]
        BY <1>2, <1>4, <1>5, <3>1, <3>2
      <4>2. CASE k = n
        <5> HIDE DEF k
        <5> QED
          BY <2>0, <3>1, <4>1, <4>2 DEF Plot!Distance
      <4>3. CASE k # n
        <5>1. n > 1 /\ k = n - 1 /\ x - list[n - 1] < list[n] - x
          BY <3>1, <4>3
        <5>2. list[n - 1] < x /\ list[n - 1] \in Int
          BY <1>2, <1>4, <3>1, <5>1
        <5> HIDE DEF k
        <5> QED
          BY <2>0, <3>1, <4>1, <5>1, <5>2 DEF Plot!Distance
      <4> QED
        BY <4>2, <4>3
    <3>3. CASE i < n
      <4>1. n > 1 /\ n - 1 \in 1 .. N /\ list[n - 1] \in Int
        BY <1>2, <3>1, <3>3
      <4>2. list[i] < x /\ list[i] <= list[n - 1] /\ list[n - 1] < x
        BY <1>2, <1>4, <1>5, <3>1, <3>3, <4>1
      <4>3. k = IF x - list[n - 1] < list[n] - x THEN n - 1 ELSE n
        BY <3>1, <4>1
      <4> HIDE DEF k
      <4>4. CASE x - list[n - 1] < list[n] - x
        BY <2>0, <3>1, <4>1, <4>2, <4>3, <4>4 DEF Plot!Distance
      <4>5. CASE ~(x - list[n - 1] < list[n] - x)
        BY <2>0, <3>1, <4>1, <4>2, <4>3, <4>5 DEF Plot!Distance
      <4> QED
        BY <4>4, <4>5
    <3> QED
      BY <1>4, <3>1, <3>2, <3>3
  <2> QED
    BY <2>1, <2>2
<1> QED
  BY <1>1, <1>6, <1>7

-----------------------------------------------------------------------------
(* The plot of a serial window *)

\* The samples of a channel among those that have arrived.
OfChannel(arrived, c) == {n \in DOMAIN arrived : arrived[n].channel = c}

\* A curve has samples of its channel, in order and with their times, and leaves out
\* only older ones, and those only when it has more than Points.
Recorded(values_, times_, arrived, c) ==
    /\ Len(times_) = Len(values_)
    /\ \A i \in 1 .. Len(values_) : /\ values_[i] \in OfChannel(arrived, c)
                                    /\ times_[i] = arrived[values_[i]].time
    /\ \A i, j \in 1 .. Len(values_) : i < j => values_[i] < values_[j]
    /\ \A n \in OfChannel(arrived, c) :
          \/ \E i \in 1 .. Len(values_) : values_[i] = n
          \/ Len(values_) > Points /\ \A i \in 1 .. Len(values_) : n < values_[i]

\* One sample more, of this channel: the oldest may go.
LEMMA RecordedMore ==
    ASSUME NEW arrived \in Seq([time : Nat, channel : Nat]), NEW c \in Nat, NEW t \in Nat,
           NEW values_ \in Seq(Nat), NEW times_ \in Seq(Nat), Recorded(values_, times_, arrived, c),
           NEW k \in {0, 1}, k = 1 <=> Len(times_) > Points,
           NEW left \in Seq(Nat), left = IF k = 1 THEN Tail(values_) ELSE values_,
           NEW leftTimes \in Seq(Nat), leftTimes = IF k = 1 THEN Tail(times_) ELSE times_
    PROVE  Recorded(Append(left, Len(arrived) + 1), Append(leftTimes, t),
                    Append(arrived, [time |-> t, channel |-> c]), c)
<1> DEFINE new == Len(arrived) + 1
           more == Append(arrived, [time |-> t, channel |-> c])
           vs == Append(left, new)
           ts == Append(leftTimes, t)
           N == Len(values_)
<1>0. N \in Nat /\ Len(times_) = N /\ Points \in Nat \ {0} /\ DOMAIN values_ = 1 .. N
      /\ DOMAIN times_ = 1 .. N /\ Len(arrived) \in Nat /\ DOMAIN arrived = 1 .. Len(arrived)
  BY PlotAssumption DEF Recorded
<1>1. Len(left) = N - k /\ \A i \in 1 .. N - k : left[i] = values_[i + k]
  <2>1. CASE k = 0
    BY <1>0, <2>1
  <2>2. CASE k = 1
    <3>1. values_ # <<>>
      BY <1>0, <2>2
    <3> QED
      BY <1>0, <2>2, <3>1, HeadTailProperties
  <2> QED
    BY <2>1, <2>2
<1>2. Len(leftTimes) = N - k /\ \A i \in 1 .. N - k : leftTimes[i] = times_[i + k]
  <2>1. CASE k = 0
    BY <1>0, <2>1
  <2>2. CASE k = 1
    <3>1. times_ # <<>>
      BY <1>0, <2>2
    <3> QED
      BY <1>0, <2>2, <3>1, HeadTailProperties
  <2> QED
    BY <2>1, <2>2
<1>3. /\ Len(vs) = N - k + 1 /\ vs[N - k + 1] = new
      /\ \A i \in 1 .. N - k : vs[i] = values_[i + k]
  <2>1. new \in Nat
    BY <1>0
  <2>2. /\ Len(vs) = Len(left) + 1 /\ vs[Len(left) + 1] = new
        /\ \A i \in 1 .. Len(left) : vs[i] = left[i]
    BY <2>1, AppendProperties
  <2> HIDE DEF vs, new
  <2> QED
    BY <1>1, <2>2
<1>4. /\ Len(ts) = N - k + 1 /\ ts[N - k + 1] = t
      /\ \A i \in 1 .. N - k : ts[i] = times_[i + k]
  <2>1. /\ Len(ts) = Len(leftTimes) + 1 /\ ts[Len(leftTimes) + 1] = t
        /\ \A i \in 1 .. Len(leftTimes) : ts[i] = leftTimes[i]
    BY AppendProperties
  <2> HIDE DEF ts
  <2> QED
    BY <1>2, <2>1
<1>5. /\ Len(more) = new /\ DOMAIN more = 1 .. new /\ more[new] = [time |-> t, channel |-> c]
      /\ \A n \in 1 .. Len(arrived) : more[n] = arrived[n]
  <2> DEFINE Samples == [time : Nat, channel : Nat]
             sample == [time |-> t, channel |-> c]
  <2>1. sample \in Samples /\ arrived \in Seq(Samples)
    OBVIOUS
  <2> HIDE DEF Samples, sample
  <2>2. Append(arrived, sample) \in Seq(Samples) /\ Len(Append(arrived, sample)) = new
        /\ Append(arrived, sample)[new] = sample
        /\ \A n \in 1 .. Len(arrived) : Append(arrived, sample)[n] = arrived[n]
    BY <2>1, AppendProperties
  <2>3. more = Append(arrived, sample)
    BY DEF sample
  <2>4. DOMAIN more = 1 .. new
    BY <2>2, <2>3, LenProperties
  <2> HIDE DEF more
  <2> QED
    BY <2>2, <2>3, <2>4 DEF sample
<1>6. OfChannel(more, c) = OfChannel(arrived, c) \cup {new}
  <2>1. new \in 1 .. new /\ new \notin 1 .. Len(arrived)
        /\ 1 .. new = 1 .. Len(arrived) \cup {new}
    BY <1>0
  <2>2. more[new].channel = c
    BY <1>5
  <2>3. \A n \in 1 .. Len(arrived) : more[n] = arrived[n]
    BY <1>5
  <2>4. DOMAIN more = 1 .. Len(arrived) \cup {new}
    BY <1>5, <2>1
  <2> HIDE DEF more, new
  <2> QED
    BY <1>0, <2>1, <2>2, <2>3, <2>4, Zenon DEF OfChannel
<1>7. OfChannel(arrived, c) \subseteq 1 .. Len(arrived)
  BY <1>0 DEF OfChannel
<1>8. N - k \in Nat
  BY <1>0
<1> HIDE DEF more, vs, ts, N, new
<1>9. new \in Nat /\ new = Len(arrived) + 1
  BY <1>0 DEF new
<1>10. \A i \in 1 .. N - k : i + k \in 1 .. N
  BY <1>0, <1>8
<1>11. \A i \in 1 .. Len(vs) : vs[i] \in OfChannel(more, c) /\ ts[i] = more[vs[i]].time
  <2> TAKE i \in 1 .. Len(vs)
  <2>1. CASE i = N - k + 1
    BY <1>3, <1>4, <1>5, <1>6, <2>1
  <2>2. CASE i # N - k + 1
    <3>1. i \in 1 .. N - k
      BY <1>3, <1>8, <2>2
    <3>2. /\ vs[i] = values_[i + k] /\ ts[i] = times_[i + k]
          /\ values_[i + k] \in OfChannel(arrived, c)
          /\ times_[i + k] = arrived[values_[i + k]].time
      BY <1>3, <1>4, <1>10, <3>1 DEF Recorded, N
    <3> QED
      BY <1>5, <1>6, <1>7, <3>2
  <2> QED
    BY <2>1, <2>2
<1>12. \A i, j \in 1 .. Len(vs) : i < j => vs[i] < vs[j]
  <2> SUFFICES ASSUME NEW i \in 1 .. Len(vs), NEW j \in 1 .. Len(vs), i < j PROVE vs[i] < vs[j]
    OBVIOUS
  <2>1. i \in 1 .. N - k /\ vs[i] = values_[i + k] /\ i + k \in 1 .. N
    BY <1>3, <1>8, <1>10
  <2>2. values_[i + k] \in 1 .. Len(arrived)
    BY <1>7, <2>1 DEF Recorded, N
  <2>3. CASE j = N - k + 1
    BY <1>0, <1>3, <1>9, <2>1, <2>2, <2>3
  <2>4. CASE j # N - k + 1
    <3>1. j \in 1 .. N - k
      BY <1>3, <1>8, <2>4
    <3>2. vs[j] = values_[j + k] /\ j + k \in 1 .. N /\ i + k < j + k
      BY <1>0, <1>3, <1>10, <3>1
    <3> QED
      BY <2>1, <3>2 DEF Recorded, N
  <2> QED
    BY <2>3, <2>4
<1>13. ASSUME NEW n \in OfChannel(more, c)
       PROVE  \/ \E i \in 1 .. Len(vs) : vs[i] = n
              \/ Len(vs) > Points /\ \A i \in 1 .. Len(vs) : n < vs[i]
  <2>1. CASE n = new
    <3>1. N - k + 1 \in 1 .. Len(vs)
      BY <1>3, <1>8
    <3> QED
      BY <1>3, <2>1, <3>1
  <2>2. CASE n # new
    <3>1. n \in OfChannel(arrived, c) /\ n \in 1 .. Len(arrived)
      BY <1>6, <1>7, <2>2
    <3>2. \/ \E i \in 1 .. N : values_[i] = n
          \/ N > Points /\ \A i \in 1 .. N : n < values_[i]
      BY <3>1 DEF Recorded, N
    <3>3. ASSUME NEW i \in 1 .. N, values_[i] = n
          PROVE  \/ \E j \in 1 .. Len(vs) : vs[j] = n
                 \/ Len(vs) > Points /\ \A j \in 1 .. Len(vs) : n < vs[j]
      <4>1. CASE i - k \in 1 .. N - k
        <5>1. vs[i - k] = values_[(i - k) + k]
          BY <1>3, <4>1
        <5>2. (i - k) + k = i /\ i - k \in 1 .. N - k + 1
          BY <1>0, <1>8, <4>1
        <5> QED
          BY <1>3, <3>3, <5>1, <5>2
      <4>2. CASE i - k \notin 1 .. N - k
        <5>1. k = 1 /\ i = 1
          BY <1>0, <4>2
        <5>2. Len(vs) > Points
          BY <1>0, <1>3, <5>1
        <5>3. \A j \in 1 .. Len(vs) : n < vs[j]
          <6> TAKE j \in 1 .. Len(vs)
          <6>1. CASE j = N - k + 1
            BY <1>0, <1>3, <1>9, <3>1, <6>1
          <6>2. CASE j # N - k + 1
            <7>1. j \in 1 .. N - k /\ vs[j] = values_[j + k] /\ j + k \in 1 .. N /\ i < j + k
              BY <1>3, <1>8, <1>10, <5>1, <6>2
            <7> QED
              BY <3>3, <7>1 DEF Recorded, N
          <6> QED
            BY <6>1, <6>2
        <5> QED
          BY <5>2, <5>3
      <4> QED
        BY <4>1, <4>2
    <3>4. ASSUME N > Points, \A i \in 1 .. N : n < values_[i]
          PROVE  Len(vs) > Points /\ \A j \in 1 .. Len(vs) : n < vs[j]
      <4>1. k = 1 /\ Len(vs) = N
        BY <1>0, <1>3, <3>4
      <4>2. \A j \in 1 .. Len(vs) : n < vs[j]
        <5> TAKE j \in 1 .. Len(vs)
        <5>1. CASE j = N - k + 1
          BY <1>0, <1>3, <1>9, <3>1, <5>1
        <5>2. CASE j # N - k + 1
          <6>1. j \in 1 .. N - k
            BY <1>3, <1>8, <5>2
          <6>2. vs[j] = values_[j + k] /\ j + k \in 1 .. N
            BY <1>3, <1>10, <6>1
          <6> QED
            BY <3>4, <6>2
        <5> QED
          BY <5>1, <5>2
      <4> QED
        BY <3>4, <4>1, <4>2
    <3> QED
      BY <3>2, <3>3, <3>4
  <2> QED
    BY <2>1, <2>2
<1>14. Len(ts) = Len(vs)
  BY <1>3, <1>4
<1>15. Recorded(vs, ts, more, c)
  BY <1>11, <1>12, <1>13, <1>14 DEF Recorded
<1> QED
  BY <1>15 DEF vs, ts, more, new

Samples == [time : Nat, channel : Nat]

\* What is in the variables of the plot.
SerialTypes ==
    /\ added \in 0 .. Channels /\ curves \subseteq 1 .. added
    /\ tracer \in curves \cup {Plot!NoGraph}
    /\ samples \in Seq(Samples)
    /\ \A n \in DOMAIN samples : samples[n].channel \in 1 .. added
    /\ \A m, n \in DOMAIN samples : m <= n => samples[m].time <= samples[n].time
    /\ timeData \in [1 .. Channels -> Seq(Nat)] /\ valueData \in [1 .. Channels -> Seq(Nat)]
    /\ \A c \in 1 .. Channels : c \notin curves => timeData[c] = <<>> /\ valueData[c] = <<>>

SerialCurves == \A c \in curves : Recorded(valueData[c], timeData[c], samples, c)

SerialInvariant == SerialTypes /\ SerialCurves

\* The samples are numbered, and have times.
LEMMA SamplesAre ==
    ASSUME SerialInvariant
    PROVE  /\ samples \in Seq(Samples) /\ Len(samples) \in Nat
           /\ DOMAIN samples = 1 .. Len(samples) /\ DOMAIN samples \subseteq Nat
           /\ \A n \in DOMAIN samples : samples[n].time \in Nat
<1>1. samples \in Seq(Samples)
  BY DEF SerialInvariant, SerialTypes
<1>2. Len(samples) \in Nat /\ DOMAIN samples = 1 .. Len(samples)
  BY <1>1, LenProperties
<1>3. \A n \in DOMAIN samples : samples[n] \in Samples
  BY <1>1, <1>2, ElementOfSeq
<1> QED
  BY <1>1, <1>2, <1>3 DEF Samples

\* The times of a curve are in order.
LEMMA SerialInOrder ==
    ASSUME SerialInvariant, NEW c \in curves
    PROVE  timeData[c] \in Seq(Nat) /\ timeData[c] \in Seq(Int) /\ InOrder(timeData[c])
<1>1. c \in 1 .. Channels /\ timeData[c] \in Seq(Nat) /\ valueData[c] \in Seq(Nat)
  <2>1. added \in 0 .. Channels /\ c \in 1 .. added /\ Channels \in Nat
    BY PlotAssumption DEF SerialInvariant, SerialTypes
  <2> QED
    BY <2>1 DEF SerialInvariant, SerialTypes
<1>2. Recorded(valueData[c], timeData[c], samples, c)
  BY DEF SerialInvariant, SerialCurves
<1>3. /\ Len(timeData[c]) = Len(valueData[c]) /\ Len(timeData[c]) \in Nat
      /\ \A i \in 1 .. Len(timeData[c]) :
            valueData[c][i] \in DOMAIN samples /\ timeData[c][i] = samples[valueData[c][i]].time
      /\ \A i, j \in 1 .. Len(timeData[c]) : i < j => valueData[c][i] < valueData[c][j]
  BY <1>1, <1>2 DEF Recorded, OfChannel
<1>4. \A m, n \in DOMAIN samples : m <= n => samples[m].time <= samples[n].time
  BY DEF SerialInvariant, SerialTypes
<1>5. DOMAIN samples \subseteq Nat /\ \A m \in DOMAIN samples : samples[m].time \in Nat
  BY SamplesAre
<1>6. ASSUME NEW i \in 1 .. Len(timeData[c]), NEW j \in 1 .. Len(timeData[c]), i <= j
      PROVE  timeData[c][i] <= timeData[c][j]
  <2>1. CASE i = j
    BY <1>3, <1>5, <2>1
  <2>2. CASE i < j
    <3>1. valueData[c][i] <= valueData[c][j]
      BY <1>3, <1>5, <2>2
    <3> QED
      BY <1>3, <1>4, <3>1
  <2> QED
    BY <1>3, <1>6, <2>1, <2>2
<1>7. DOMAIN timeData[c] = 1 .. Len(timeData[c]) /\ timeData[c] \in Seq(Int)
  BY <1>1
<1> QED
  BY <1>1, <1>6, <1>7 DEF InOrder

\* Of the curves with data ActiveGraph takes one that is as near as any.
LEMMA ActiveIsNearest ==
    ASSUME SerialInvariant, Plot!WithData # {}, NEW x \in Int
    PROVE  /\ Plot!ActiveGraph(x) \in Plot!WithData
           /\ \A d \in Plot!WithData :
                 Plot!Distance(x, Plot!NearestTime(Plot!ActiveGraph(x), x))
                    <= Plot!Distance(x, Plot!NearestTime(d, x))
<1> DEFINE near(c) == Plot!Distance(x, Plot!NearestTime(c, x))
           best(c) == \A d \in Plot!WithData : near(c) < near(d) \/ (near(c) = near(d) /\ c <= d)
<1>1. \A c \in Plot!WithData : near(c) \in Nat /\ c \in Nat
  <2> TAKE c \in Plot!WithData
  <2>1. c \in curves /\ timeData[c] # <<>> /\ c \in Nat
    BY PlotAssumption DEF Plot!WithData, SerialInvariant, SerialTypes
  <2>2. timeData[c] \in Seq(Int) /\ timeData[c] \in Seq(Nat) /\ InOrder(timeData[c])
    BY <2>1, SerialInOrder
  <2>3. Plot!findNearestPoint(timeData[c], x) \in 1 .. Len(timeData[c])
    BY <2>1, <2>2, NearestIsFound
  <2>4. Plot!NearestTime(c, x) \in Int
    BY <2>2, <2>3 DEF Plot!NearestTime
  <2> QED
    BY <2>1, <2>4 DEF Plot!Distance
<1>2. PICK low \in {near(c) : c \in Plot!WithData} :
          \A n \in {near(c) : c \in Plot!WithData} : low <= n
  <2>1. {near(c) : c \in Plot!WithData} \in SUBSET Nat /\ {near(c) : c \in Plot!WithData} # {}
    BY <1>1
  <2> HIDE DEF near
  <2> QED
    BY <2>1, LeastNat
<1> HIDE DEF near
<1> DEFINE lowest == {c \in Plot!WithData : near(c) = low}
<1>3. PICK c \in lowest : \A d \in lowest : c <= d
  <2>1. lowest \in SUBSET Nat /\ lowest # {}
    BY <1>1, <1>2
  <2> HIDE DEF lowest
  <2> QED
    BY <2>1, LeastNat
<1>4. best(c)
  <2> TAKE d \in Plot!WithData
  <2>1. near(c) \in Nat /\ near(d) \in Nat /\ near(c) <= near(d)
    BY <1>1, <1>2, <1>3
  <2> QED
    BY <1>3, <2>1
<1>5. Plot!ActiveGraph(x) = CHOOSE a \in Plot!WithData : best(a)
  BY DEF Plot!ActiveGraph, near
<1> HIDE DEF best
<1>6. Plot!ActiveGraph(x) \in Plot!WithData /\ best(Plot!ActiveGraph(x))
  BY <1>3, <1>4, <1>5
<1>7. \A d \in Plot!WithData : near(Plot!ActiveGraph(x)) <= near(d)
  BY <1>1, <1>6 DEF best
<1> QED
  BY <1>6, <1>7 DEF near

\* Every step keeps the types.
LEMMA SerialTypesStep == SerialInvariant /\ [Plot!Next]_(Plot!vars) => SerialTypes'
<1> SUFFICES ASSUME SerialInvariant, [Plot!Next]_(Plot!vars) PROVE SerialTypes'
  OBVIOUS
<1> USE PlotAssumption
<1>1. CASE UNCHANGED Plot!vars
  BY <1>1, Zenon DEF Plot!vars, SerialInvariant, SerialTypes
<1>2. CASE Plot!addGraphs
  <2>1. /\ added < Channels /\ added' = added + 1 /\ curves' = curves \cup {added + 1}
        /\ UNCHANGED <<timeData, valueData, tracer, visible, samples>>
    BY <1>2 DEF Plot!addGraphs
  <2>2. added \in 0 .. Channels /\ Channels \in Nat /\ curves \subseteq 1 .. added
    BY DEF SerialInvariant, SerialTypes
  <2>3. added' \in 0 .. Channels /\ curves' \subseteq 1 .. added' /\ curves \subseteq curves'
    BY <2>1, <2>2
  <2>4. \A n \in DOMAIN samples : samples[n].channel \in 1 .. added'
    <3>1. 1 .. added \subseteq 1 .. added'
      BY <2>1, <2>2
    <3> QED
      BY <3>1, Zenon DEF SerialInvariant, SerialTypes
  <2>5. tracer' \in curves' \cup {Plot!NoGraph}
    BY <2>1, <2>3 DEF SerialInvariant, SerialTypes
  <2>6. \A c \in 1 .. Channels : c \notin curves' => timeData'[c] = <<>> /\ valueData'[c] = <<>>
    BY <2>1 DEF SerialInvariant, SerialTypes
  <2>7. samples' = samples /\ timeData' = timeData /\ valueData' = valueData
    BY <2>1
  <2> QED
    BY <2>3, <2>4, <2>5, <2>6, <2>7, Zenon DEF SerialInvariant, SerialTypes
<1>3. ASSUME NEW c \in curves, Plot!removeGraphs(c) PROVE SerialTypes'
  <2>1. c \in 1 .. Channels /\ <<>> \in Seq(Nat) /\ UNCHANGED <<added, samples>>
    BY <1>3 DEF Plot!removeGraphs, SerialInvariant, SerialTypes
  <2>2. timeData' \in [1 .. Channels -> Seq(Nat)] /\ valueData' \in [1 .. Channels -> Seq(Nat)]
    BY <1>3, <2>1 DEF Plot!removeGraphs, SerialInvariant, SerialTypes
  <2>3. \A o \in 1 .. Channels : o \notin curves' => timeData'[o] = <<>> /\ valueData'[o] = <<>>
    BY <1>3, <2>1 DEF Plot!removeGraphs, SerialInvariant, SerialTypes
  <2>4. curves' \subseteq 1 .. added /\ tracer' \in curves' \cup {Plot!NoGraph}
    BY <1>3 DEF Plot!removeGraphs, SerialInvariant, SerialTypes
  <2> QED
    BY <2>1, <2>2, <2>3, <2>4 DEF SerialInvariant, SerialTypes
<1>4. ASSUME NEW c \in curves, Plot!addData(c) PROVE SerialTypes'
  <2>1. c \in 1 .. Channels /\ c \in 1 .. added /\ UNCHANGED <<added, curves, tracer>>
    BY <1>4 DEF Plot!addData, SerialInvariant, SerialTypes
  <2>2. PICK time \in Plot!Now :
            /\ timeData' = [timeData EXCEPT ![c] = Append(Plot!Trimmed(c)[1], time)]
            /\ valueData' = [valueData EXCEPT ![c] = Append(Plot!Trimmed(c)[2], Len(samples) + 1)]
            /\ samples' = Append(samples, [time |-> time, channel |-> c])
    BY <1>4 DEF Plot!addData
  <2>3. samples \in Seq(Samples) /\ Len(samples) \in Nat
        /\ DOMAIN samples = 1 .. Len(samples)
        /\ \A n \in 1 .. Len(samples) : samples[n].time \in Nat
    BY SamplesAre
  <2>4. time \in Nat /\ \A n \in 1 .. Len(samples) : samples[n].time <= time
    <3>1. CASE samples = <<>>
      BY <2>2, <2>3, <3>1 DEF Plot!Now
    <3>2. CASE samples # <<>>
      <4> DEFINE last_ == samples[Len(samples)].time
      <4>1. Len(samples) \in 1 .. Len(samples) /\ last_ \in Nat
        BY <2>3, <3>2
      <4>2. time \in Nat /\ last_ <= time
        BY <2>2, <3>2, <4>1 DEF Plot!Now, Plot!Millisecond
      <4>3. \A n \in 1 .. Len(samples) : samples[n].time <= last_
        <5>1. \A m, n \in 1 .. Len(samples) : m <= n => samples[m].time <= samples[n].time
          BY <2>3 DEF SerialInvariant, SerialTypes
        <5>2. \A n \in 1 .. Len(samples) : n <= Len(samples)
          BY <2>3
        <5> QED
          BY <4>1, <5>1, <5>2
      <4> HIDE DEF last_
      <4> QED
        BY <2>3, <4>1, <4>2, <4>3
    <3> QED
      BY <3>1, <3>2
  <2>5. Plot!Trimmed(c)[1] \in Seq(Nat) /\ Plot!Trimmed(c)[2] \in Seq(Nat)
    <3>1. /\ timeData[c] \in Seq(Nat) /\ valueData[c] \in Seq(Nat)
          /\ Len(timeData[c]) = Len(valueData[c])
      BY <2>1 DEF SerialInvariant, SerialTypes, SerialCurves, Recorded
    <3>2. CASE Len(timeData[c]) > Points
      <4>1. timeData[c] # <<>> /\ valueData[c] # <<>>
        BY <3>1, <3>2
      <4> QED
        BY <3>1, <3>2, <4>1, HeadTailProperties DEF Plot!Trimmed
    <3>3. CASE ~(Len(timeData[c]) > Points)
      BY <3>1, <3>3 DEF Plot!Trimmed
    <3> QED
      BY <3>2, <3>3
  <2>6. timeData' \in [1 .. Channels -> Seq(Nat)] /\ valueData' \in [1 .. Channels -> Seq(Nat)]
    <3>1. /\ Append(Plot!Trimmed(c)[1], time) \in Seq(Nat)
          /\ Append(Plot!Trimmed(c)[2], Len(samples) + 1) \in Seq(Nat)
      BY <2>3, <2>4, <2>5, AppendProperties
    <3> QED
      BY <2>2, <3>1 DEF SerialInvariant, SerialTypes
  <2>7. \A o \in 1 .. Channels : o \notin curves => timeData'[o] = <<>> /\ valueData'[o] = <<>>
    BY <2>1, <2>2 DEF SerialInvariant, SerialTypes
  <2>8. [time |-> time, channel |-> c] \in Samples
    BY <2>1, <2>4 DEF Samples
  <2>9. /\ samples' \in Seq(Samples)
        /\ Len(samples') = Len(samples) + 1 /\ DOMAIN samples' = 1 .. Len(samples) + 1
        /\ \A n \in 1 .. Len(samples) : samples'[n] = samples[n]
        /\ samples'[Len(samples) + 1] = [time |-> time, channel |-> c]
    BY <2>2, <2>3, <2>8, AppendProperties, LenProperties
  <2>10. \A n \in DOMAIN samples' : samples'[n].channel \in 1 .. added
    <3> TAKE n \in DOMAIN samples'
    <3>1. CASE n = Len(samples) + 1
      BY <2>1, <2>9, <3>1
    <3>2. CASE n # Len(samples) + 1
      <4>1. n \in 1 .. Len(samples) /\ samples'[n] = samples[n]
        BY <2>3, <2>9, <3>2
      <4> QED
        BY <2>3, <4>1 DEF SerialInvariant, SerialTypes
    <3> QED
      BY <3>1, <3>2
  <2>11. \A m, n \in DOMAIN samples' : m <= n => samples'[m].time <= samples'[n].time
    <3> SUFFICES ASSUME NEW m \in DOMAIN samples', NEW n \in DOMAIN samples', m <= n
                 PROVE  samples'[m].time <= samples'[n].time
      OBVIOUS
    <3>1. CASE m = Len(samples) + 1
      <4>1. n = Len(samples) + 1
        BY <2>3, <2>9, <3>1
      <4> QED
        BY <2>4, <2>9, <3>1, <4>1
    <3>2. CASE m # Len(samples) + 1
      <4>1. m \in 1 .. Len(samples) /\ samples'[m] = samples[m]
        BY <2>3, <2>9, <3>2
      <4>2. CASE n = Len(samples) + 1
        BY <2>4, <2>9, <4>1, <4>2
      <4>3. CASE n # Len(samples) + 1
        <5>1. n \in 1 .. Len(samples) /\ samples'[n] = samples[n]
          BY <2>3, <2>9, <4>3
        <5> QED
          BY <2>3, <4>1, <5>1 DEF SerialInvariant, SerialTypes
      <4> QED
        BY <4>2, <4>3
    <3> QED
      BY <3>1, <3>2
  <2> QED
    BY <2>1, <2>6, <2>7, <2>9, <2>10, <2>11 DEF SerialInvariant, SerialTypes
<1>5. ASSUME NEW x \in Plot!Times, Plot!updateTracerPosition(x) PROVE SerialTypes'
  <2>1. x \in Int
    BY DEF Plot!Times, Plot!Millisecond
  <2>2. UNCHANGED <<added, curves, timeData, valueData, samples>>
    BY <1>5 DEF Plot!updateTracerPosition
  <2>3. tracer' \in curves \cup {Plot!NoGraph}
    <3>1. CASE Plot!WithData # {} /\ tracer' = Plot!ActiveGraph(x)
      <4>1. Plot!ActiveGraph(x) \in Plot!WithData
        BY <2>1, <3>1, ActiveIsNearest
      <4> QED
        BY <3>1, <4>1 DEF Plot!WithData
    <3>2. CASE UNCHANGED tracer
      BY <3>2 DEF SerialInvariant, SerialTypes
    <3> QED
      BY <1>5, <3>1, <3>2 DEF Plot!updateTracerPosition
  <2> QED
    BY <2>2, <2>3, Zenon DEF SerialInvariant, SerialTypes
<1> QED
  BY <1>1, <1>2, <1>3, <1>4, <1>5 DEF Plot!Next

\* A sample of another channel, or none, leaves a curve what it is.
LEMMA RecordedOther ==
    ASSUME NEW arrived \in Seq(Samples), NEW other \in Nat, NEW t \in Nat, NEW c \in Nat, other # c,
           NEW values_, NEW times_, Recorded(values_, times_, arrived, c)
    PROVE  Recorded(values_, times_, Append(arrived, [time |-> t, channel |-> other]), c)
<1> DEFINE sample == [time |-> t, channel |-> other]
           more == Append(arrived, sample)
<1>1. sample \in Samples /\ sample.channel = other
  BY DEF Samples
<1>2. Len(arrived) \in Nat /\ DOMAIN arrived = 1 .. Len(arrived)
  BY LenProperties
<1>3. /\ Len(more) = Len(arrived) + 1 /\ DOMAIN more = 1 .. Len(arrived) + 1
      /\ more[Len(arrived) + 1] = sample
      /\ \A n \in 1 .. Len(arrived) : more[n] = arrived[n]
  <2> HIDE DEF sample
  <2> QED
    BY <1>1, AppendProperties, LenProperties
<1> HIDE DEF more, sample
<1>4. OfChannel(more, c) = OfChannel(arrived, c)
  BY <1>1, <1>2, <1>3 DEF OfChannel
<1>5. \A n \in OfChannel(arrived, c) : more[n] = arrived[n]
  BY <1>2, <1>3 DEF OfChannel
<1>6. Recorded(values_, times_, more, c)
  BY <1>4, <1>5, Zenon DEF Recorded
<1> QED
  BY <1>6 DEF more, sample

\* Every step keeps what the curves hold.
LEMMA SerialCurvesStep == SerialInvariant /\ [Plot!Next]_(Plot!vars) => SerialCurves'
<1> SUFFICES ASSUME SerialInvariant, [Plot!Next]_(Plot!vars) PROVE SerialCurves'
  OBVIOUS
<1>0. /\ added \in Nat /\ Channels \in Nat /\ added <= Channels
      /\ curves \subseteq 1 .. added /\ curves \subseteq 1 .. Channels
  BY PlotAssumption DEF SerialInvariant, SerialTypes
<1>1. \A c \in curves : Recorded(valueData[c], timeData[c], samples, c)
  BY DEF SerialInvariant, SerialCurves
<1>2. CASE UNCHANGED <<curves, timeData, valueData, samples>>
  BY <1>1, <1>2, Zenon DEF SerialCurves
<1>3. CASE Plot!addGraphs
  <2>1. /\ curves' = curves \cup {added + 1} /\ added + 1 \in 1 .. Channels
        /\ added + 1 \notin curves /\ UNCHANGED <<timeData, valueData, samples>>
    BY <1>0, <1>3 DEF Plot!addGraphs
  <2>2. OfChannel(samples, added + 1) = {}
    BY <1>0 DEF OfChannel, SerialInvariant, SerialTypes
  <2>3. valueData[added + 1] = <<>> /\ timeData[added + 1] = <<>>
    BY <2>1 DEF SerialInvariant, SerialTypes
  <2>4. Recorded(<<>>, <<>>, samples, added + 1)
    BY <2>2 DEF Recorded
  <2> QED
    BY <1>1, <2>1, <2>3, <2>4 DEF SerialCurves
<1>4. ASSUME NEW c \in curves, Plot!removeGraphs(c) PROVE SerialCurves'
  <2>1. /\ curves' = curves \ {c} /\ UNCHANGED samples
        /\ \A o \in curves' : timeData'[o] = timeData[o] /\ valueData'[o] = valueData[o]
    BY <1>0, <1>4 DEF Plot!removeGraphs, SerialInvariant, SerialTypes
  <2> QED
    BY <1>1, <2>1 DEF SerialCurves
<1>5. ASSUME NEW c \in curves, Plot!addData(c) PROVE SerialCurves'
  <2>1. PICK time \in Plot!Now :
            /\ timeData' = [timeData EXCEPT ![c] = Append(Plot!Trimmed(c)[1], time)]
            /\ valueData' = [valueData EXCEPT ![c] = Append(Plot!Trimmed(c)[2], Len(samples) + 1)]
            /\ samples' = Append(samples, [time |-> time, channel |-> c])
    BY <1>5 DEF Plot!addData
  <2>2. UNCHANGED curves /\ c \in Nat /\ c \in 1 .. Channels
    BY <1>0, <1>5 DEF Plot!addData
  <2>3. time \in Nat
    <3>1. CASE samples = <<>>
      BY <2>1, <3>1 DEF Plot!Now
    <3>2. CASE samples # <<>>
      <4>1. Len(samples) \in DOMAIN samples
        BY <3>2, SamplesAre
      <4>2. samples[Len(samples)].time \in Nat
        BY <4>1, SamplesAre
      <4> QED
        BY <2>1, <3>2, <4>2 DEF Plot!Now, Plot!Millisecond
    <3> QED
      BY <3>1, <3>2
  <2>4. valueData[c] \in Seq(Nat) /\ timeData[c] \in Seq(Nat)
    BY <2>2 DEF SerialInvariant, SerialTypes
  <2>5. Recorded(valueData[c], timeData[c], samples, c)
    BY <1>1
  <2>6. Len(timeData[c]) = Len(valueData[c]) /\ Points \in Nat
    BY <2>5, PlotAssumption DEF Recorded
  <2> DEFINE k == IF Len(timeData[c]) > Points THEN 1 ELSE 0
  <2>7. /\ Plot!Trimmed(c)[1] = IF k = 1 THEN Tail(timeData[c]) ELSE timeData[c]
        /\ Plot!Trimmed(c)[2] = IF k = 1 THEN Tail(valueData[c]) ELSE valueData[c]
    BY DEF Plot!Trimmed
  <2>8. Plot!Trimmed(c)[1] \in Seq(Nat) /\ Plot!Trimmed(c)[2] \in Seq(Nat)
    <3>1. CASE k = 1
      <4>1. timeData[c] # <<>> /\ valueData[c] # <<>>
        BY <2>4, <2>6, <3>1
      <4> QED
        BY <2>4, <2>7, <3>1, <4>1, HeadTailProperties
    <3>2. CASE k # 1
      BY <2>4, <2>7, <3>2
    <3> QED
      BY <3>1, <3>2
  <2>9. Recorded(valueData'[c], timeData'[c], samples', c)
    <3>1. samples \in Seq([time : Nat, channel : Nat])
      BY SamplesAre DEF Samples
    <3>2. k \in {0, 1} /\ (k = 1 <=> Len(timeData[c]) > Points)
      OBVIOUS
    <3> HIDE DEF k
    <3>3. Recorded(Append(Plot!Trimmed(c)[2], Len(samples) + 1), Append(Plot!Trimmed(c)[1], time),
                   Append(samples, [time |-> time, channel |-> c]), c)
      BY <2>2, <2>3, <2>4, <2>5, <2>7, <2>8, <3>1, <3>2, RecordedMore
    <3>4. /\ valueData'[c] = Append(Plot!Trimmed(c)[2], Len(samples) + 1)
          /\ timeData'[c] = Append(Plot!Trimmed(c)[1], time)
      BY <2>1, <2>2 DEF SerialInvariant, SerialTypes
    <3> QED
      BY <2>1, <3>3, <3>4
  <2>10. ASSUME NEW o \in curves, o # c PROVE Recorded(valueData'[o], timeData'[o], samples', o)
    <3>1. valueData'[o] = valueData[o] /\ timeData'[o] = timeData[o] /\ o \in Nat
      BY <1>0, <2>1, <2>10 DEF SerialInvariant, SerialTypes
    <3>2. samples \in Seq(Samples)
      BY SamplesAre
    <3>3. Recorded(valueData[o], timeData[o], Append(samples, [time |-> time, channel |-> c]), o)
      BY <1>1, <2>2, <2>3, <2>10, <3>1, <3>2, RecordedOther
    <3> QED
      BY <2>1, <3>1, <3>3
  <2> QED
    BY <2>2, <2>9, <2>10 DEF SerialCurves
<1>6. ASSUME NEW x \in Plot!Times, Plot!updateTracerPosition(x) PROVE SerialCurves'
  BY <1>2, <1>6 DEF Plot!updateTracerPosition
<1> QED
  BY <1>2, <1>3, <1>4, <1>5, <1>6 DEF Plot!Next, Plot!vars

\* A sample that is still in its curve has its own time.
LEMMA InCurve ==
    ASSUME SerialInvariant, NEW c \in curves
    PROVE  /\ DOMAIN timeData[c] = 1 .. Len(timeData[c]) /\ Len(timeData[c]) \in Nat
           /\ Len(valueData[c]) = Len(timeData[c])
           /\ \A i \in DOMAIN timeData[c] :
                 /\ valueData[c][i] \in Plot!SamplesOf(c)
                 /\ timeData[c][i] = samples[valueData[c][i]].time /\ timeData[c][i] \in Nat
           /\ \A i, j \in DOMAIN timeData[c] : i < j => valueData[c][i] < valueData[c][j]
<1>1. timeData[c] \in Seq(Nat)
  BY SerialInOrder
<1>2. Recorded(valueData[c], timeData[c], samples, c)
  BY DEF SerialInvariant, SerialCurves
<1>3. OfChannel(samples, c) = Plot!SamplesOf(c)
  BY DEF OfChannel, Plot!SamplesOf
<1> QED
  BY <1>1, <1>2, <1>3 DEF Recorded

\* The last Points samples of a curve are in it.
LEMMA LatestAreKept ==
    ASSUME SerialInvariant, NEW c \in curves, NEW n \in Plot!Latest(c)
    PROVE  \E i \in DOMAIN timeData[c] : valueData[c][i] = n
<1> SUFFICES ASSUME ~ \E i \in DOMAIN timeData[c] : valueData[c][i] = n
             PROVE  FALSE
  OBVIOUS
<1> DEFINE later_ == {m \in Plot!SamplesOf(c) : m > n}
           size_ == Len(timeData[c])
<1>1. n \in Plot!SamplesOf(c) /\ Cardinality(later_) < Points
  <2>1. n \in {k \in Plot!SamplesOf(c) : Cardinality({m \in Plot!SamplesOf(c) : m > k}) < Points}
    BY DEF Plot!Latest, Plot!Cardinality, Cardinality
  <2> QED
    BY <2>1
<1>2. size_ \in Nat /\ DOMAIN timeData[c] = 1 .. size_ /\ Len(valueData[c]) = size_
  BY InCurve
<1>3. Recorded(valueData[c], timeData[c], samples, c) /\ OfChannel(samples, c) = Plot!SamplesOf(c)
  BY DEF SerialInvariant, SerialCurves, OfChannel, Plot!SamplesOf
<1>4. size_ > Points /\ \A i \in 1 .. size_ : n < valueData[c][i]
  BY <1>1, <1>2, <1>3 DEF Recorded
<1>5. IsFiniteSet(later_)
  <2>1. IsFiniteSet(1 .. Len(samples))
    BY SamplesAre, FS_Interval
  <2>2. later_ \subseteq 1 .. Len(samples)
    BY SamplesAre DEF Plot!SamplesOf
  <2> QED
    BY <2>1, <2>2, FS_Subset
<1>6. /\ \A i \in 1 .. size_ : valueData[c][i] \in later_
      /\ \A i, j \in 1 .. size_ : i < j => valueData[c][i] < valueData[c][j]
  BY <1>2, <1>4, InCurve
<1>7. \A m \in later_ : m \in Nat
  BY SamplesAre DEF Plot!SamplesOf
<1> HIDE DEF later_, size_
<1>8. \E f : f \in Injection(1 .. size_, later_)
  <2> DEFINE f == [i \in 1 .. size_ |-> valueData[c][i]]
  <2>1. f \in [1 .. size_ -> later_]
    BY <1>6
  <2>2. \A i, j \in 1 .. size_ : f[i] = f[j] => i = j
    <3> SUFFICES ASSUME NEW i \in 1 .. size_, NEW j \in 1 .. size_, i # j PROVE f[i] # f[j]
      OBVIOUS
    <3>1. f[i] = valueData[c][i] /\ f[j] = valueData[c][j] /\ f[i] \in Nat /\ f[j] \in Nat
      BY <1>6, <1>7
    <3>2. i < j \/ j < i
      BY <1>2
    <3>3. f[i] < f[j] \/ f[j] < f[i]
      BY <1>6, <3>1, <3>2
    <3> HIDE DEF f
    <3> QED
      BY <3>1, <3>3
  <2> HIDE DEF f
  <2>3. f \in Injection(1 .. size_, later_)
    BY <2>1, <2>2 DEF Injection, IsInjective
  <2> QED
    BY <2>3
<1>9. Cardinality(1 .. size_) <= Cardinality(later_)
  <2>1. PICK f : f \in Injection(1 .. size_, later_)
    BY <1>8
  <2> QED
    BY <1>5, <2>1, FS_Injection
<1>10. Cardinality(1 .. size_) = size_
  BY <1>2, FS_Interval
<1>11. Cardinality(later_) \in Nat
  BY <1>5, FS_CardinalityType
<1> QED
  BY <1>1, <1>2, <1>4, <1>9, <1>10, <1>11, PlotAssumption

\* What is written in a row of a recording is of its channel and time, and every one
\* of the last samples is there.
LEMMA RecordingsAreTrue == SerialInvariant => Plot!RecordingIsTrue
<1> SUFFICES ASSUME SerialInvariant PROVE Plot!RecordingIsTrue
  OBVIOUS
<1>1. ASSUME NEW t \in Plot!TimePoints, NEW c \in curves, NEW n \in Plot!Written(t, c)
      PROVE  samples[n].channel = c /\ Plot!Distance(samples[n].time, t) <= Plot!Millisecond
  <2>1. PICK i \in DOMAIN timeData[c] :
            n = valueData[c][i] /\ Plot!Distance(timeData[c][i], t) <= Plot!Millisecond
    BY DEF Plot!Written
  <2> QED
    BY <2>1, InCurve DEF Plot!SamplesOf
<1>2. ASSUME NEW c \in curves, NEW n \in Plot!Latest(c)
      PROVE  \E m \in Plot!Written(samples[n].time, c) : samples[m].time = samples[n].time
  <2> DEFINE t == samples[n].time
             same == {i \in DOMAIN timeData[c] : timeData[c][i] = t}
             near == {i \in DOMAIN timeData[c] :
                         Plot!Distance(timeData[c][i], t) <= Plot!Millisecond}
  <2>1. PICK k \in DOMAIN timeData[c] : valueData[c][k] = n
    BY LatestAreKept
  <2>2. timeData[c][k] = t /\ t \in Nat
    BY <2>1, InCurve
  <2>3. PICK i \in same : \A j \in same : i <= j
    <3>1. k \in same /\ same \in SUBSET Nat
      BY <2>1, <2>2, InCurve
    <3> HIDE DEF same
    <3> QED
      BY <3>1, LeastNat
  <2>4. i \in DOMAIN timeData[c] /\ timeData[c][i] = t /\ i \in near
    BY <2>2, <2>3 DEF Plot!Distance, Plot!Millisecond
  <2>5. \A j \in near : \/ Plot!Distance(timeData[c][i], t) < Plot!Distance(timeData[c][j], t)
                        \/ /\ Plot!Distance(timeData[c][i], t) = Plot!Distance(timeData[c][j], t)
                           /\ i <= j
    <3> TAKE j \in near
    <3>1. timeData[c][j] \in Nat /\ Plot!Distance(timeData[c][i], t) = 0
      BY <2>2, <2>4, InCurve DEF Plot!Distance
    <3>2. CASE timeData[c][j] = t
      BY <2>2, <2>3, <2>4, <3>1, <3>2 DEF Plot!Distance
    <3>3. CASE timeData[c][j] # t
      <4>1. Plot!Distance(timeData[c][j], t) > 0
        BY <2>2, <3>1, <3>3 DEF Plot!Distance
      <4> QED
        BY <3>1, <4>1
    <3> QED
      BY <3>2, <3>3
  <2>6. valueData[c][i] \in Plot!Written(t, c)
    BY <2>4, <2>5 DEF Plot!Written
  <2>7. samples[valueData[c][i]].time = t
    BY <2>4, InCurve
  <2> QED
    BY <2>6, <2>7
<1> QED
  BY <1>1, <1>2 DEF Plot!RecordingIsTrue

\* The tracer is on a curve that is there, and no point is nearer than the one found.
LEMMA TracersFindTheNearest == SerialInvariant => Plot!TracerFindsTheNearest
<1> SUFFICES ASSUME SerialInvariant PROVE Plot!TracerFindsTheNearest
  OBVIOUS
<1>1. tracer \in curves \cup {Plot!NoGraph}
  BY DEF SerialInvariant, SerialTypes
<1>2. ASSUME NEW c \in Plot!WithData, NEW x \in Int, NEW i \in DOMAIN timeData[c]
      PROVE  Plot!Distance(x, Plot!NearestTime(Plot!ActiveGraph(x), x))
                <= Plot!Distance(x, timeData[c][i])
  <2> DEFINE active_ == Plot!ActiveGraph(x)
  <2>1. active_ \in Plot!WithData
        /\ Plot!Distance(x, Plot!NearestTime(active_, x))
              <= Plot!Distance(x, Plot!NearestTime(c, x))
    BY ActiveIsNearest
  <2>2. ASSUME NEW d \in Plot!WithData
        PROVE  /\ Plot!NearestTime(d, x) \in Int
               /\ \A j \in DOMAIN timeData[d] :
                     /\ timeData[d][j] \in Int
                     /\ Plot!Distance(x, Plot!NearestTime(d, x)) <= Plot!Distance(x, timeData[d][j])
    <3>1. d \in curves /\ timeData[d] # <<>>
      BY DEF Plot!WithData
    <3>2. /\ timeData[d] \in Seq(Int) /\ InOrder(timeData[d])
          /\ DOMAIN timeData[d] = 1 .. Len(timeData[d])
      BY <3>1, SerialInOrder, InCurve
    <3>3. /\ Plot!findNearestPoint(timeData[d], x) \in 1 .. Len(timeData[d])
          /\ \A j \in 1 .. Len(timeData[d]) : Plot!Distance(x, Plot!NearestTime(d, x))
                                                <= Plot!Distance(x, timeData[d][j])
      BY <3>1, <3>2, NearestIsFound DEF Plot!NearestTime
    <3> QED
      BY <3>2, <3>3 DEF Plot!NearestTime
  <2> HIDE DEF active_
  <2>3. \A y \in Int : Plot!Distance(x, y) \in Int
    BY DEF Plot!Distance
  <2> QED
    BY <2>1, <2>2, <2>3 DEF active_
<1>3. \A x \in {t - 1 : t \in Plot!Times} \cup Plot!Times : x \in Int
  BY DEF Plot!Times, Plot!Millisecond
<1> QED
  BY <1>1, <1>2, <1>3 DEF Plot!TracerFindsTheNearest

\* The invariant of the serial plot is inductive, and implies both properties.
LEMMA SerialPlotIsTrue ==
    Plot!Init /\ [][Plot!Next]_(Plot!vars) => [](Plot!RecordingIsTrue /\ Plot!TracerFindsTheNearest)
<1>1. Plot!Init => SerialInvariant
  <2> SUFFICES ASSUME Plot!Init PROVE SerialInvariant
    OBVIOUS
  <2>1. Channels \in Nat /\ <<>> \in Seq(Nat) /\ <<>> \in Seq(Samples)
    BY PlotAssumption
  <2>2. SerialTypes
    BY <2>1 DEF Plot!Init, SerialTypes
  <2> QED
    BY <2>2 DEF Plot!Init, SerialInvariant, SerialCurves
<1>2. SerialInvariant /\ [Plot!Next]_(Plot!vars) => SerialInvariant'
  BY SerialTypesStep, SerialCurvesStep DEF SerialInvariant
<1> QED
  BY <1>1, <1>2, RecordingsAreTrue, TracersFindTheNearest, PTL

-----------------------------------------------------------------------------
(* The plot of a Modbus window *)

\* A curve has numbers out of those received, in order, leaves out only older ones,
\* and is not empty when there are some.
KeepsLatest(held_, received_) ==
    /\ \A i \in 1 .. Len(held_) : held_[i] \in received_
    /\ \A i, j \in 1 .. Len(held_) : i < j => held_[i] < held_[j]
    /\ \A n \in received_ : \/ \E i \in 1 .. Len(held_) : held_[i] = n
                            \/ \A i \in 1 .. Len(held_) : n < held_[i]
    /\ received_ # {} => Len(held_) > 0

\* So it does when the first ones go.
LEMMA CutKeepsLatest ==
    ASSUME NEW received_ \in SUBSET Nat, NEW held_ \in Seq(Nat), KeepsLatest(held_, received_),
           NEW k \in Nat, k = 0 \/ k < Len(held_),
           NEW left \in Seq(Nat), Len(left) = Len(held_) - k,
           \A i \in 1 .. Len(left) : left[i] = held_[i + k]
    PROVE  KeepsLatest(left, received_)
<1> DEFINE N == Len(held_)
           M == Len(left)
<1>0. N \in Nat /\ M \in Nat /\ M = N - k
  OBVIOUS
<1>1. \A i \in 1 .. M : left[i] = held_[i + k] /\ i + k \in 1 .. N
  <2>1. \A i \in 1 .. M : left[i] = held_[i + k]
    OBVIOUS
  <2> HIDE DEF N, M
  <2>2. \A i \in 1 .. M : i + k \in 1 .. N
    BY <1>0
  <2> QED
    BY <2>1, <2>2
<1>2. /\ \A i \in 1 .. N : held_[i] \in received_
      /\ \A i, j \in 1 .. N : i < j => held_[i] < held_[j]
      /\ \A n \in received_ : \/ \E i \in 1 .. N : held_[i] = n
                              \/ \A i \in 1 .. N : n < held_[i]
      /\ received_ # {} => N > 0
  BY DEF KeepsLatest
<1>3. received_ # {} => M > 0
  BY <1>0, <1>2
<1> HIDE DEF N, M
<1>4. \A i, j \in 1 .. M : i < j => left[i] < left[j]
  <2> TAKE i, j \in 1 .. M
  <2> HAVE i < j
  <2>1. i + k \in 1 .. N /\ j + k \in 1 .. N /\ i + k < j + k
    BY <1>0, <1>1
  <2> QED
    BY <1>1, <1>2, <2>1
<1>5. ASSUME NEW n \in received_
      PROVE  (\E i \in 1 .. M : left[i] = n) \/ \A i \in 1 .. M : n < left[i]
  <2>1. ASSUME NEW i \in 1 .. N, held_[i] = n
        PROVE  (\E j \in 1 .. M : left[j] = n) \/ \A j \in 1 .. M : n < left[j]
    <3>1. CASE i > k
      <4>1. i - k \in 1 .. M /\ i - k + k = i
        BY <1>0, <3>1
      <4> QED
        BY <1>1, <2>1, <4>1
    <3>2. CASE ~(i > k)
      <4>1. \A j \in 1 .. M : j + k \in 1 .. N /\ i < j + k
        BY <1>0, <1>1, <3>2
      <4> QED
        BY <1>1, <1>2, <2>1, <4>1
    <3> QED
      BY <3>1, <3>2
  <2>2. ASSUME \A i \in 1 .. N : n < held_[i] PROVE \A j \in 1 .. M : n < left[j]
    BY <1>1, <2>2
  <2> QED
    BY <1>2, <2>1, <2>2
<1>6. \A i \in 1 .. M : left[i] \in received_
  BY <1>1, <1>2
<1> QED
  BY <1>3, <1>4, <1>5, <1>6 DEF KeepsLatest, M

\* And when one more comes that is later than all.
LEMMA MoreKeepsLatest ==
    ASSUME NEW received_ \in SUBSET Nat, NEW held_ \in Seq(Nat), KeepsLatest(held_, received_),
           NEW new \in Nat, \A n \in received_ : n < new
    PROVE  KeepsLatest(Append(held_, new), received_ \cup {new})
<1> DEFINE N == Len(held_)
           more == Append(held_, new)
<1>0. /\ N \in Nat /\ Len(more) = N + 1 /\ more[N + 1] = new
      /\ \A i \in 1 .. N : more[i] = held_[i]
  BY AppendProperties
<1>1. /\ \A i \in 1 .. N : held_[i] \in received_
      /\ \A i, j \in 1 .. N : i < j => held_[i] < held_[j]
      /\ \A n \in received_ : \/ \E i \in 1 .. N : held_[i] = n
                              \/ \A i \in 1 .. N : n < held_[i]
  BY DEF KeepsLatest
<1> HIDE DEF N, more
<1>2. \A i \in 1 .. N + 1 : i = N + 1 \/ i \in 1 .. N
  BY <1>0
<1>3. N + 1 \in 1 .. N + 1 /\ \A i \in 1 .. N : i \in 1 .. N + 1
  BY <1>0
<1>4. \A i \in 1 .. N + 1 : more[i] \in received_ \cup {new}
  BY <1>0, <1>1, <1>2
<1>5. \A i, j \in 1 .. N + 1 : i < j => more[i] < more[j]
  <2> TAKE i, j \in 1 .. N + 1
  <2> HAVE i < j
  <2>1. i \in 1 .. N
    BY <1>0
  <2> QED
    BY <1>0, <1>1, <1>2, <2>1
<1>6. \A n \in received_ \cup {new} : \/ \E i \in 1 .. N + 1 : more[i] = n
                                      \/ \A i \in 1 .. N + 1 : n < more[i]
  <2> TAKE n \in received_ \cup {new}
  <2>1. CASE n = new
    BY <1>0, <1>3, <2>1
  <2>2. CASE n # new
    <3>1. n \in received_ /\ n < new
      BY <2>2
    <3>2. CASE \E i \in 1 .. N : held_[i] = n
      BY <1>0, <1>3, <3>2
    <3>3. CASE \A i \in 1 .. N : n < held_[i]
      BY <1>0, <1>2, <3>1, <3>3
    <3> QED
      BY <1>1, <3>1, <3>2, <3>3
  <2> QED
    BY <2>1, <2>2
<1>7. N + 1 > 0
  BY <1>0
<1> QED
  BY <1>0, <1>4, <1>5, <1>6, <1>7 DEF KeepsLatest, more

\* What is in the variables of the plot.
ModbusTypes ==
    /\ address \in [Rows -> Addresses \cup {Modbus!NoAddress}]
    /\ m_curves \subseteq Addresses
    /\ times \in [Addresses -> Seq(Int)] /\ values \in [Addresses -> Seq(Nat)]
    /\ points_nums_ \in Nat \ {0}
    /\ m_startTime \in Nat
    /\ since \in [Addresses -> Nat] /\ \A a \in Addresses : since[a] <= Len(replies)

\* The replies have times, and came in their order.
RepliesInOrder ==
    /\ \E S : replies \in Seq(S)
    /\ \A n \in DOMAIN replies : replies[n].time \in Nat
    /\ \A m, n \in DOMAIN replies : m <= n => replies[m].time <= replies[n].time

\* What a curve holds; while no curve was joined by another, with the times of the
\* replies, counted from the start time.
CurveHolds(a) ==
    /\ Len(times[a]) = Len(values[a]) /\ Len(values[a]) <= points_nums_ + 1
    /\ KeepsLatest(values[a], Modbus!Received(a))
    /\ ~joined => \A i \in 1 .. Len(values[a]) :
                     times[a][i] = replies[values[a][i]].time - m_startTime

ModbusInvariant ==
    /\ ModbusTypes /\ RepliesInOrder
    /\ \A a \in m_curves : CurveHolds(a)
    /\ \A a \in Addresses \ m_curves : times[a] = <<>> /\ values[a] = <<>>

\* The replies are numbered.
LEMMA RepliesAre ==
    ASSUME RepliesInOrder
    PROVE  /\ Len(replies) \in Nat /\ DOMAIN replies = 1 .. Len(replies)
           /\ DOMAIN replies \subseteq Nat
<1>1. PICK S : replies \in Seq(S)
  BY DEF RepliesInOrder
<1> QED
  BY <1>1, LenProperties

\* A reply is received at its address only.
LEMMA ReceivedAre ==
    ASSUME RepliesInOrder, NEW a
    PROVE  /\ Modbus!Received(a) \in SUBSET Nat
           /\ Modbus!Received(a) \subseteq 1 .. Len(replies)
  BY RepliesAre DEF Modbus!Received

\* In a curve that no other joined the times are in order.
LEMMA ModbusInOrder ==
    ASSUME ModbusInvariant, ~joined, NEW a \in m_curves
    PROVE  /\ times[a] \in Seq(Int) /\ InOrder(times[a])
           /\ Len(times[a]) = Len(values[a]) /\ Len(values[a]) \in Nat
           /\ DOMAIN times[a] = 1 .. Len(values[a])
           /\ \A i \in 1 .. Len(values[a]) :
                 /\ values[a][i] \in DOMAIN replies
                 /\ replies[values[a][i]].time \in Nat
                 /\ times[a][i] = replies[values[a][i]].time - m_startTime
<1> DEFINE N == Len(values[a])
<1>1. a \in Addresses /\ times[a] \in Seq(Int) /\ values[a] \in Seq(Nat) /\ CurveHolds(a)
      /\ RepliesInOrder /\ m_startTime \in Nat
  BY DEF ModbusInvariant, ModbusTypes
<1>2. /\ N \in Nat /\ Len(times[a]) = N /\ DOMAIN times[a] = 1 .. N
      /\ \A i \in 1 .. N : times[a][i] = replies[values[a][i]].time - m_startTime
  BY <1>1 DEF CurveHolds
<1>3. \A i \in 1 .. N : values[a][i] \in Modbus!Received(a)
  BY <1>1 DEF CurveHolds, KeepsLatest
<1>4. \A i \in 1 .. N : values[a][i] \in DOMAIN replies /\ values[a][i] \in Nat
  BY <1>1, <1>3, ReceivedAre, RepliesAre
<1>5. \A i \in 1 .. N : replies[values[a][i]].time \in Nat
  BY <1>1, <1>4 DEF RepliesInOrder
<1> HIDE DEF N
<1>6. \A i, j \in 1 .. N : i <= j => times[a][i] <= times[a][j]
  <2> TAKE i, j \in 1 .. N
  <2> HAVE i <= j
  <2>1. values[a][i] <= values[a][j]
    <3>1. CASE i = j
      BY <1>4, <3>1
    <3>2. CASE i < j
      <4>1. values[a][i] < values[a][j]
        BY <1>1, <3>2 DEF CurveHolds, KeepsLatest, N
      <4> QED
        BY <1>4, <4>1
    <3> QED
      BY <1>2, <3>1, <3>2
  <2>2. replies[values[a][i]].time <= replies[values[a][j]].time
    BY <1>1, <1>4, <2>1 DEF RepliesInOrder
  <2>3. \A s, t, u \in Nat : s <= t => s - u <= t - u
    OBVIOUS
  <2> QED
    BY <1>1, <1>2, <1>5, <2>2, <2>3
<1> QED
  BY <1>1, <1>2, <1>4, <1>5, <1>6 DEF InOrder, N

\* The index the tooltip takes has the nearest time of all, for a time that is shown.
LEMMA TooltipIsNearest ==
    ASSUME NEW list \in Seq(Int), InOrder(list), list # <<>>,
           NEW x \in list[1] .. list[Len(list)]
    PROVE  LET next == Modbus!LowerBound(list, x)
               idx == IF next > 1 /\ (next > Len(list) \/ x - list[next - 1] < list[next] - x)
                      THEN next - 1 ELSE next
           IN  /\ idx \in 1 .. Len(list)
               /\ \A i \in 1 .. Len(list) :
                     Modbus!Distance(list[idx], x) <= Modbus!Distance(list[i], x)
<1> DEFINE next == Modbus!LowerBound(list, x)
           N == Len(list)
           idx == IF next > 1 /\ (next > N \/ x - list[next - 1] < list[next] - x)
                  THEN next - 1 ELSE next
<1>0. N \in Nat \ {0} /\ DOMAIN list = 1 .. N /\ \A i \in 1 .. N : list[i] \in Int
  OBVIOUS
<1>1. x \in Int /\ x <= list[N]
  BY <1>0
<1>2. /\ next \in 1 .. N + 1
      /\ \A i \in 1 .. next - 1 : list[i] < x
      /\ \A i \in next .. N : x <= list[i]
  BY <1>1, ModbusSearch DEF Splits
<1>3. \A i, j \in 1 .. N : i <= j => list[i] <= list[j]
  BY <1>0 DEF InOrder
<1> HIDE DEF next, N
<1>4. next \in 1 .. N
  <2>1. ASSUME next = N + 1 PROVE FALSE
    <3>1. N \in 1 .. next - 1
      BY <1>0, <2>1
    <3>2. list[N] < x /\ list[N] \in Int
      BY <1>0, <1>2, <3>1
    <3> QED
      BY <1>1, <3>2
  <2> QED
    BY <1>0, <1>2, <2>1
<1>5. ASSUME NEW i \in 1 .. N PROVE /\ idx \in 1 .. N
                                    /\ Modbus!Distance(list[idx], x) <= Modbus!Distance(list[i], x)
  <2>1. x <= list[next] /\ list[next] \in Int /\ list[i] \in Int
    BY <1>0, <1>2, <1>4
  <2>2. CASE next > 1 /\ x - list[next - 1] < list[next] - x
    <3>1. idx = next - 1 /\ next - 1 \in 1 .. N
      BY <1>0, <1>4, <2>2
    <3>2. list[next - 1] < x /\ list[next - 1] \in Int
      BY <1>0, <1>2, <1>4, <3>1
    <3>3. IF i < next THEN list[i] <= list[next - 1] ELSE list[next] <= list[i]
      BY <1>0, <1>3, <1>4, <3>1
    <3> HIDE DEF idx
    <3> QED
      BY <1>1, <2>1, <2>2, <3>1, <3>2, <3>3 DEF Modbus!Distance
  <2>3. CASE ~(next > 1 /\ x - list[next - 1] < list[next] - x)
    <3>1. idx = next
      BY <1>0, <1>4, <2>3
    <3>2. CASE i >= next
      <4>1. list[next] <= list[i]
        BY <1>0, <1>3, <1>4, <3>2
      <4> HIDE DEF idx
      <4> QED
        BY <1>1, <1>4, <2>1, <3>1, <4>1 DEF Modbus!Distance
    <3>3. CASE i < next
      <4>1. next > 1 /\ next - 1 \in 1 .. N /\ i \in 1 .. next - 1
        BY <1>0, <1>4, <3>3
      <4>2. /\ list[i] <= list[next - 1] /\ list[next - 1] < x /\ list[next - 1] \in Int
            /\ list[next] - x <= x - list[next - 1]
        BY <1>0, <1>1, <1>2, <1>3, <2>1, <2>3, <4>1
      <4> HIDE DEF idx
      <4> QED
        BY <1>1, <1>4, <2>1, <3>1, <4>2 DEF Modbus!Distance
    <3> QED
      BY <1>0, <1>4, <3>2, <3>3
  <2> QED
    BY <2>2, <2>3
<1>6. idx \in 1 .. N
  BY <1>0, <1>5
<1> QED
  BY <1>5, <1>6 DEF next, N

\* So the invariant says what a curve is to be.
LEMMA ModbusCurvesAreTrue == ModbusInvariant => Modbus!CurvesKeepTheLatest
<1> SUFFICES ASSUME ModbusInvariant, NEW a \in m_curves
             PROVE  LET held_ == values[a] IN
                    /\ Len(held_) = Len(times[a]) /\ Len(held_) <= points_nums_ + 1
                    /\ \A i \in DOMAIN held_ : held_[i] \in Modbus!Received(a)
                    /\ \A i, j \in DOMAIN held_ : i < j => held_[i] < held_[j]
                    /\ \A n \in Modbus!Received(a) \ Modbus!ToSet(held_), i \in DOMAIN held_ :
                           n < held_[i]
                    /\ Modbus!Received(a) # {} => held_ # <<>>
                    /\ ~joined /\ held_ # <<>> =>
                          \A x \in Modbus!Shown(a), i \in Modbus!ToSet(held_) :
                             Modbus!Distance(replies[Modbus!Tooltip(a, x)].time, m_startTime + x)
                                <= Modbus!Distance(replies[i].time, m_startTime + x)
  BY Zenon DEF Modbus!CurvesKeepTheLatest
<1> DEFINE held_ == values[a]
           N == Len(held_)
<1>1. /\ a \in Addresses /\ held_ \in Seq(Nat) /\ CurveHolds(a) /\ RepliesInOrder
      /\ m_startTime \in Nat
  BY DEF ModbusInvariant, ModbusTypes
<1>2. N \in Nat /\ DOMAIN held_ = 1 .. N
  BY <1>1
<1>3. /\ \A i \in 1 .. N : held_[i] \in Modbus!Received(a)
      /\ \A i, j \in 1 .. N : i < j => held_[i] < held_[j]
      /\ \A n \in Modbus!Received(a) : \/ \E i \in 1 .. N : held_[i] = n
                                       \/ \A i \in 1 .. N : n < held_[i]
      /\ Modbus!Received(a) # {} => N > 0
  BY <1>1 DEF CurveHolds, KeepsLatest
<1>4. Len(held_) = Len(times[a]) /\ Len(held_) <= points_nums_ + 1
  BY <1>1 DEF CurveHolds
<1>5. \A n : n \in Modbus!ToSet(held_) <=> \E i \in 1 .. N : held_[i] = n
  BY <1>2 DEF Modbus!ToSet
<1>6. \A n \in Modbus!Received(a) \ Modbus!ToSet(held_), i \in DOMAIN held_ : n < held_[i]
  BY <1>2, <1>3, <1>5
<1>7. Modbus!Received(a) # {} => held_ # <<>>
  BY <1>1, <1>3
<1>8. ASSUME ~joined, held_ # <<>>, NEW x \in Modbus!Shown(a), NEW n \in Modbus!ToSet(held_)
      PROVE  Modbus!Distance(replies[Modbus!Tooltip(a, x)].time, m_startTime + x)
                <= Modbus!Distance(replies[n].time, m_startTime + x)
  <2> DEFINE list == times[a]
             next == Modbus!LowerBound(list, x)
             idx == IF next > 1 /\ (next > Len(list) \/ x - list[next - 1] < list[next] - x)
                    THEN next - 1 ELSE next
  <2>1. PICK i \in 1 .. N : held_[i] = n
    BY <1>5, <1>8
  <2>2. /\ list \in Seq(Int) /\ InOrder(list) /\ Len(list) = N
        /\ \A j \in 1 .. N : /\ replies[held_[j]].time \in Nat
                             /\ list[j] = replies[held_[j]].time - m_startTime
    BY <1>8, ModbusInOrder
  <2>3. list # <<>> /\ x \in list[1] .. list[Len(list)]
    BY <1>1, <1>8, <2>2 DEF Modbus!Shown
  <2>4. list[1] \in Int /\ list[Len(list)] \in Int
    BY <1>1, <1>8, <2>2, <2>3
  <2>5. x \in Int
    BY <2>3, <2>4
  <2>6. idx \in 1 .. N /\ Modbus!Distance(list[idx], x) <= Modbus!Distance(list[i], x)
    BY <2>1, <2>2, <2>3, TooltipIsNearest
  <2>7. Modbus!Tooltip(a, x) = held_[idx]
    BY DEF Modbus!Tooltip
  <2> HIDE DEF idx
  <2>8. \A s, t \in Int : Modbus!Distance(t - s, x) = Modbus!Distance(t, s + x)
    BY <2>5 DEF Modbus!Distance
  <2>9. /\ Modbus!Distance(list[idx], x)
              = Modbus!Distance(replies[held_[idx]].time, m_startTime + x)
        /\ Modbus!Distance(list[i], x) = Modbus!Distance(replies[held_[i]].time, m_startTime + x)
    <3>1. \A j \in 1 .. N : Modbus!Distance(list[j], x)
                                = Modbus!Distance(replies[held_[j]].time, m_startTime + x)
      <4> TAKE j \in 1 .. N
      <4>1. /\ list[j] = replies[held_[j]].time - m_startTime
            /\ replies[held_[j]].time \in Int /\ m_startTime \in Int
        BY <1>1, <2>2
      <4> HIDE DEF list, held_
      <4> QED
        BY <2>8, <4>1
    <3> HIDE DEF list, held_
    <3> QED
      BY <2>6, <3>1
  <2> QED
    BY <2>1, <2>6, <2>7, <2>9
<1> QED
  BY <1>2, <1>3, <1>4, <1>6, <1>7, <1>8

\* What a plot without replies is.
LEMMA ModbusStarts == Modbus!Init => ModbusInvariant
<1> SUFFICES ASSUME Modbus!Init PROVE ModbusInvariant
  OBVIOUS
<1>1. /\ address = [r \in Rows |-> Modbus!NoAddress] /\ m_curves = {}
      /\ times = [a \in Addresses |-> <<>>] /\ values = times
      /\ m_startTime = 0 /\ points_nums_ = Capacity /\ replies = <<>>
      /\ since = [a \in Addresses |-> 0]
  BY DEF Modbus!Init
<1>2. <<>> \in Seq(Int) /\ <<>> \in Seq(Nat) /\ Len(<<>>) = 0
  OBVIOUS
<1>3. times \in [Addresses -> Seq(Int)] /\ values \in [Addresses -> Seq(Nat)]
  BY <1>1, <1>2
<1>4. ModbusTypes
  BY <1>1, <1>2, <1>3, ModbusPlotAssumption DEF ModbusTypes
<1>5. RepliesInOrder
  BY <1>1, <1>2 DEF RepliesInOrder
<1> QED
  BY <1>1, <1>4, <1>5 DEF ModbusInvariant

\* A step that leaves the curves and replies alone.
LEMMA ModbusElsewhere ==
    ASSUME ModbusInvariant, address' \in [Rows -> Addresses \cup {Modbus!NoAddress}],
           UNCHANGED <<m_curves, times, values, m_startTime, points_nums_, replies, since, joined>>
    PROVE  ModbusInvariant'
<1>1. ModbusTypes'
  BY Zenon DEF ModbusInvariant, ModbusTypes
<1>2. RepliesInOrder'
  BY Zenon DEF ModbusInvariant, RepliesInOrder
<1>3. \A a \in m_curves' : CurveHolds(a)'
  BY Zenon DEF ModbusInvariant, CurveHolds, Modbus!Received
<1> QED
  BY <1>1, <1>2, <1>3, Zenon DEF ModbusInvariant

\* The button of a row: its curve comes empty, or goes.
LEMMA ModbusButton ==
    ASSUME ModbusInvariant, NEW r \in Rows, Modbus!requestShowGraph(r)
    PROVE  ModbusInvariant'
<1>0. PICK a : a = address[r]
  OBVIOUS
<1>1. /\ a # Modbus!NoAddress
      /\ UNCHANGED <<address, m_startTime, points_nums_, replies, joined>>
      /\ IF graph[r] THEN Modbus!removeGraphs(a) ELSE Modbus!addGraphs(a)
  BY <1>0 DEF Modbus!requestShowGraph
<1>2. a \in Addresses /\ ModbusTypes /\ RepliesInOrder
  BY <1>0, <1>1 DEF ModbusInvariant, ModbusTypes
<1>3. RepliesInOrder'
  BY <1>1, <1>2, Zenon DEF RepliesInOrder
<1>4. Len(replies) \in Nat
  BY <1>2, RepliesAre
<1>5. ASSUME NEW o \in m_curves, times'[o] = times[o], values'[o] = values[o], since'[o] = since[o]
      PROVE  CurveHolds(o)'
  <2>1. CurveHolds(o)
    BY DEF ModbusInvariant
  <2> QED
    BY <1>1, <1>5, <2>1 DEF CurveHolds, Modbus!Received
<1>6. CASE Modbus!removeGraphs(a)
  <2>1. /\ m_curves' = m_curves \ {a}
        /\ times' = [times EXCEPT ![a] = <<>>] /\ values' = [values EXCEPT ![a] = <<>>]
        /\ since' = [since EXCEPT ![a] = 0]
    BY <1>6 DEF Modbus!removeGraphs
  <2>2. ModbusTypes'
    <3>1. <<>> \in Seq(Int) /\ <<>> \in Seq(Nat)
      OBVIOUS
    <3>2. times' \in [Addresses -> Seq(Int)] /\ values' \in [Addresses -> Seq(Nat)]
      BY <1>2, <2>1, <3>1 DEF ModbusTypes
    <3>3. since' \in [Addresses -> Nat] /\ \A o \in Addresses : since'[o] <= Len(replies)
      BY <1>2, <1>4, <2>1 DEF ModbusTypes
    <3> QED
      BY <1>1, <1>2, <2>1, <3>2, <3>3 DEF ModbusTypes
  <2>3. \A o \in Addresses : o # a =>
            times'[o] = times[o] /\ values'[o] = values[o] /\ since'[o] = since[o]
    BY <1>2, <2>1 DEF ModbusTypes
  <2>4. times'[a] = <<>> /\ values'[a] = <<>>
    BY <1>2, <2>1 DEF ModbusTypes
  <2>5. m_curves \subseteq Addresses
    BY <1>2 DEF ModbusTypes
  <2>6. \A o \in m_curves' : CurveHolds(o)'
    BY <1>5, <2>1, <2>3, <2>5
  <2>7. \A o \in Addresses \ m_curves' : times'[o] = <<>> /\ values'[o] = <<>>
    BY <2>1, <2>3, <2>4 DEF ModbusInvariant
  <2> QED
    BY <1>3, <2>2, <2>6, <2>7, Zenon DEF ModbusInvariant
<1>7. CASE Modbus!addGraphs(a)
  <2>1. /\ m_curves' = m_curves \cup {a} /\ UNCHANGED <<times, values>>
        /\ since' = IF a \in m_curves THEN since ELSE [since EXCEPT ![a] = Len(replies)]
    BY <1>7 DEF Modbus!addGraphs
  <2>2. ModbusTypes'
    <3>1. since' \in [Addresses -> Nat] /\ \A o \in Addresses : since'[o] <= Len(replies)
      BY <1>2, <1>4, <2>1 DEF ModbusTypes
    <3> QED
      BY <1>1, <1>2, <2>1, <3>1 DEF ModbusTypes
  <2>3. \A o \in m_curves : since'[o] = since[o]
    BY <1>2, <2>1 DEF ModbusTypes
  <2>4. \A o \in m_curves : CurveHolds(o)'
    BY <1>5, <2>1, <2>3
  <2>5. ASSUME a \notin m_curves PROVE CurveHolds(a)'
    <3>1. times'[a] = <<>> /\ values'[a] = <<>>
      BY <1>2, <2>1, <2>5 DEF ModbusInvariant
    <3>2. since'[a] = Len(replies)
      BY <1>2, <2>1, <2>5 DEF ModbusTypes
    <3>3. Modbus!Received(a)' = {}
      <4>1. DOMAIN replies = 1 .. Len(replies)
        BY <1>2, RepliesAre
      <4> QED
        BY <1>1, <1>4, <3>2, <4>1 DEF Modbus!Received
    <3>4. points_nums_ \in Nat /\ points_nums_' = points_nums_
      BY <1>1, <1>2 DEF ModbusTypes
    <3>5. Len(values'[a]) = 0 /\ Len(times'[a]) = 0 /\ 1 .. 0 = {}
      BY <3>1
    <3>7. 0 <= points_nums_ + 1
      BY <3>4
    <3>6. KeepsLatest(values[a], Modbus!Received(a))'
      BY <3>1, <3>3, <3>5 DEF KeepsLatest
    <3> QED
      BY <3>1, <3>4, <3>5, <3>6, <3>7 DEF CurveHolds
  <2>6. \A o \in Addresses \ m_curves' : times'[o] = <<>> /\ values'[o] = <<>>
    BY <2>1 DEF ModbusInvariant
  <2> QED
    BY <1>3, <2>1, <2>2, <2>4, <2>5, <2>6, Zenon DEF ModbusInvariant
<1> QED
  BY <1>1, <1>6, <1>7

\* Another capacity: of the curves with more the oldest go.
LEMMA ModbusCapacity ==
    ASSUME ModbusInvariant, NEW n \in Capacities, Modbus!setGraphsPointCapacity(n)
    PROVE  ModbusInvariant'
<1> DEFINE Cut(list) == IF Len(list) > n THEN SubSeq(list, Len(list) - n + 1, Len(list)) ELSE list
<1>1. /\ n > 0 /\ points_nums_' = n
      /\ times' = [a \in Addresses |-> Cut(times[a])]
      /\ values' = [a \in Addresses |-> Cut(values[a])]
      /\ UNCHANGED <<address, m_curves, m_startTime, replies, since, joined>>
  BY DEF Modbus!setGraphsPointCapacity, Modbus!LastOf
<1>2. n \in Nat \ {0} /\ ModbusTypes /\ RepliesInOrder
  BY <1>1, ModbusPlotAssumption DEF ModbusInvariant
<1>3. ASSUME NEW S, NEW list \in Seq(S)
      PROVE  \E k \in Nat : /\ k = (IF Len(list) > n THEN Len(list) - n ELSE 0)
                            /\ Cut(list) \in Seq(S) /\ Len(Cut(list)) = Len(list) - k
                            /\ Len(Cut(list)) <= n
                            /\ \A i \in 1 .. Len(Cut(list)) : Cut(list)[i] = list[i + k]
  <2>0. Len(list) \in Nat /\ \A i \in 1 .. Len(list) : list[i] \in S
    OBVIOUS
  <2>1. CASE Len(list) > n
    <3> DEFINE k == Len(list) - n
               left == SubSeq(list, k + 1, Len(list))
    <3>1. k \in Nat /\ k + 1 \in Int /\ Len(list) \in Int /\ k + 1 <= Len(list)
          /\ Len(list) - (k + 1) + 1 = n
      BY <1>2, <2>0, <2>1
    <3>2. \A i \in k + 1 .. Len(list) : list[i] \in S
      BY <2>0, <3>1
    <3>3. Cut(list) = left
      BY <2>1
    <3> HIDE DEF k
    <3>4. /\ left \in Seq(S) /\ Len(left) = n
          /\ \A i \in 1 .. n : left[i] = list[k + 1 + i - 1]
      BY <3>1, <3>2, SubSeqProperties
    <3> HIDE DEF left
    <3>5. \A i \in 1 .. n : left[i] = list[i + k]
      <4> TAKE i \in 1 .. n
      <4>1. k + 1 + i - 1 = i + k
        BY <3>1
      <4> QED
        BY <3>4, <4>1
    <3>6. k = (IF Len(list) > n THEN Len(list) - n ELSE 0) /\ Len(left) = Len(list) - k
      BY <1>2, <2>0, <2>1, <3>4 DEF k
    <3> HIDE DEF Cut
    <3>7. /\ Cut(list) \in Seq(S) /\ Len(Cut(list)) = Len(list) - k /\ Len(Cut(list)) <= n
          /\ \A i \in 1 .. Len(Cut(list)) : Cut(list)[i] = list[i + k]
      BY <1>2, <3>3, <3>4, <3>5, <3>6
    <3> QED
      BY <3>1, <3>6, <3>7
  <2>2. CASE ~(Len(list) > n)
    <3>1. Cut(list) = list /\ 0 = (IF Len(list) > n THEN Len(list) - n ELSE 0)
      BY <2>2
    <3> HIDE DEF Cut
    <3> QED
      BY <1>2, <2>0, <2>2, <3>1
  <2> QED
    BY <2>1, <2>2
<1> HIDE DEF Cut
<1>4. ModbusTypes'
  <2>1. \A a \in Addresses : times[a] \in Seq(Int) /\ values[a] \in Seq(Nat)
    BY <1>2 DEF ModbusTypes
  <2>2. \A a \in Addresses : Cut(times[a]) \in Seq(Int)
    BY <1>3, <2>1
  <2>3. \A a \in Addresses : Cut(values[a]) \in Seq(Nat)
    BY <1>3, <2>1
  <2>4. times' \in [Addresses -> Seq(Int)]
    BY <1>1, <2>2
  <2>5. values' \in [Addresses -> Seq(Nat)]
    BY <1>1, <2>3
  <2> QED
    BY <1>1, <1>2, <2>4, <2>5, Zenon DEF ModbusTypes
<1>5. RepliesInOrder'
  BY <1>1, <1>2, Zenon DEF RepliesInOrder
<1>6. ASSUME NEW a \in m_curves PROVE CurveHolds(a)'
  <2>1. /\ a \in Addresses /\ times[a] \in Seq(Int) /\ values[a] \in Seq(Nat) /\ CurveHolds(a)
    BY <1>2 DEF ModbusInvariant, ModbusTypes
  <2>2. times'[a] = Cut(times[a]) /\ values'[a] = Cut(values[a])
    BY <1>1, <2>1
  <2> DEFINE N == Len(values[a])
             k == IF N > n THEN N - n ELSE 0
  <2>3. N \in Nat /\ Len(times[a]) = N
    BY <2>1 DEF CurveHolds
  <2>4. /\ values'[a] \in Seq(Nat) /\ Len(values'[a]) = N - k /\ N - k <= n
        /\ \A i \in 1 .. N - k : values'[a][i] = values[a][i + k]
    <3>1. PICK m \in Nat : /\ m = (IF N > n THEN N - n ELSE 0)
                           /\ Cut(values[a]) \in Seq(Nat) /\ Len(Cut(values[a])) = N - m
                           /\ Len(Cut(values[a])) <= n
                           /\ \A i \in 1 .. Len(Cut(values[a])) :
                                 Cut(values[a])[i] = values[a][i + m]
      BY <1>3, <2>1
    <3>2. m = k
      BY <3>1
    <3> HIDE DEF k
    <3> QED
      BY <2>2, <3>1, <3>2
  <2>5. /\ Len(times'[a]) = N - k
        /\ \A i \in 1 .. N - k : times'[a][i] = times[a][i + k]
    <3>1. PICK m \in Nat : /\ m = (IF Len(times[a]) > n THEN Len(times[a]) - n ELSE 0)
                           /\ Cut(times[a]) \in Seq(Int)
                           /\ Len(Cut(times[a])) = Len(times[a]) - m
                           /\ Len(Cut(times[a])) <= n
                           /\ \A i \in 1 .. Len(Cut(times[a])) :
                                 Cut(times[a])[i] = times[a][i + m]
      BY <1>3, <2>1
    <3>2. m = k
      BY <2>3, <3>1
    <3> HIDE DEF k
    <3> QED
      BY <2>2, <2>3, <3>1, <3>2
  <2>6. k \in Nat /\ (k = 0 \/ k < N) /\ N - k \in Nat
    BY <1>2, <2>3
  <2> HIDE DEF k
  <2>7. KeepsLatest(values'[a], Modbus!Received(a))
    <3>1. KeepsLatest(values[a], Modbus!Received(a)) /\ Modbus!Received(a) \in SUBSET Nat
      BY <1>2, <2>1, ReceivedAre DEF CurveHolds
    <3> QED
      BY <2>1, <2>4, <2>6, <3>1, CutKeepsLatest
  <2>8. Modbus!Received(a)' = Modbus!Received(a)
    BY <1>1, Zenon DEF Modbus!Received
  <2>9. ASSUME ~joined, NEW i \in 1 .. N - k
        PROVE  times'[a][i] = replies[values'[a][i]].time - m_startTime
    <3>1. i + k \in 1 .. N
      BY <2>3, <2>6
    <3>2. times[a][i + k] = replies[values[a][i + k]].time - m_startTime
      BY <2>1, <2>9, <3>1 DEF CurveHolds
    <3> QED
      BY <2>4, <2>5, <3>2
  <2>10. Len(values'[a]) <= points_nums_' + 1
    BY <1>1, <1>2, <2>4, <2>6
  <2> QED
    BY <1>1, <2>4, <2>5, <2>7, <2>8, <2>9, <2>10 DEF CurveHolds
<1>7. \A a \in Addresses \ m_curves' : times'[a] = <<>> /\ values'[a] = <<>>
  <2> TAKE a \in Addresses \ m_curves'
  <2>1. times[a] = <<>> /\ values[a] = <<>>
    BY <1>1 DEF ModbusInvariant
  <2>2. Cut(<<>>) = <<>>
    BY <1>2 DEF Cut
  <2> QED
    BY <1>1, <2>1, <2>2
<1> QED
  BY <1>1, <1>4, <1>5, <1>6, <1>7 DEF ModbusInvariant

\* A reply comes, and goes to the curve of its address, if there is one.
LEMMA ModbusReply ==
    ASSUME ModbusInvariant, Modbus!sloveDataReceived
    PROVE  ModbusInvariant'
<1> DEFINE new == Len(replies) + 1
<1>1. PICK a : a = Head(asked)
  OBVIOUS
<1>2. PICK time \in Modbus!Now :
          /\ replies' = Append(replies, [time |-> time, address |-> a])
          /\ IF a \in m_curves THEN Modbus!addData(a, time, new)
             ELSE UNCHANGED <<times, values, m_startTime, joined>>
  BY <1>1 DEF Modbus!sloveDataReceived
<1>3. UNCHANGED <<address, m_curves, points_nums_, since>>
  BY DEF Modbus!sloveDataReceived
<1>4. ModbusTypes /\ RepliesInOrder
  BY DEF ModbusInvariant
<1>5. /\ Len(replies) \in Nat /\ DOMAIN replies = 1 .. Len(replies) /\ new \in Nat
      /\ \A n \in 1 .. Len(replies) : replies[n].time \in Nat
      /\ \A m, n \in 1 .. Len(replies) : m <= n => replies[m].time <= replies[n].time
  BY <1>4, RepliesAre DEF RepliesInOrder
<1>6. time \in Nat /\ \A n \in 1 .. Len(replies) : replies[n].time <= time
  <2>1. CASE replies = <<>>
    BY <1>2, <1>5, <2>1 DEF Modbus!Now
  <2>2. CASE replies # <<>>
    <3> DEFINE last_ == replies[Len(replies)].time
    <3>1. Len(replies) \in 1 .. Len(replies) /\ last_ \in Nat
      <4>1. PICK S : replies \in Seq(S)
        BY <1>4 DEF RepliesInOrder
      <4>2. Len(replies) \in 1 .. Len(replies)
        BY <2>2, <4>1
      <4> QED
        BY <1>5, <4>2
    <3>2. time \in Nat /\ last_ <= time
      BY <1>2, <2>2, <3>1 DEF Modbus!Now
    <3>3. \A n \in 1 .. Len(replies) : replies[n].time <= last_
      <4>1. \A n \in 1 .. Len(replies) : n <= Len(replies)
        BY <1>5
      <4> QED
        BY <1>5, <3>1, <4>1
    <3> HIDE DEF last_
    <3> QED
      BY <1>5, <3>1, <3>2, <3>3
  <2> QED
    BY <2>1, <2>2
<1>7. /\ \E S : replies' \in Seq(S)
      /\ Len(replies') = new /\ DOMAIN replies' = 1 .. new
      /\ replies'[new] = [time |-> time, address |-> a]
      /\ \A n \in 1 .. Len(replies) : replies'[n] = replies[n]
  <2> DEFINE reply == [time |-> time, address |-> a]
  <2>1. PICK S : replies \in Seq(S)
    BY <1>4 DEF RepliesInOrder
  <2> DEFINE T == S \cup {reply}
  <2>2. replies \in Seq(T) /\ reply \in T
    BY <2>1
  <2> HIDE DEF T, reply
  <2>3. /\ Append(replies, reply) \in Seq(T)
        /\ Len(Append(replies, reply)) = new /\ Append(replies, reply)[new] = reply
        /\ \A n \in 1 .. Len(replies) : Append(replies, reply)[n] = replies[n]
    BY <2>2, AppendProperties
  <2>4. replies' = Append(replies, reply)
    BY <1>2 DEF reply
  <2>5. DOMAIN replies' = 1 .. new
    BY <2>3, <2>4, LenProperties
  <2> QED
    BY <2>3, <2>4, <2>5 DEF reply
<1>8. 1 .. new = 1 .. Len(replies) \cup {new} /\ new \notin 1 .. Len(replies)
  BY <1>5
<1> HIDE DEF new
<1>9. RepliesInOrder'
  <2>1. \A n \in 1 .. new : replies'[n].time \in Nat
    BY <1>5, <1>6, <1>7, <1>8
  <2>2. \A m, n \in 1 .. new : m <= n => replies'[m].time <= replies'[n].time
    <3> TAKE m, n \in 1 .. new
    <3> HAVE m <= n
    <3>1. CASE n \in 1 .. Len(replies)
      <4>1. m \in 1 .. Len(replies)
        BY <1>5, <3>1
      <4> QED
        BY <1>5, <1>7, <3>1, <4>1
    <3>2. CASE n = new /\ m \in 1 .. Len(replies)
      BY <1>6, <1>7, <3>2
    <3>3. CASE n = new /\ m = new
      BY <1>6, <1>7, <3>3
    <3> QED
      BY <1>8, <3>1, <3>2, <3>3
  <2> QED
    BY <1>7, <2>1, <2>2 DEF RepliesInOrder
<1>10. \A o \in Addresses : since[o] <= Len(replies') /\ since[o] < new
  <2>1. \A n \in Nat : n <= Len(replies) => n <= new /\ n < new
    BY <1>5 DEF new
  <2> QED
    BY <1>4, <1>7, <2>1 DEF ModbusTypes
<1>11. ASSUME NEW o \in Addresses
       PROVE  Modbus!Received(o)' = Modbus!Received(o) \cup (IF o = a THEN {new} ELSE {})
  <2>1. \A n \in 1 .. new : n \in Modbus!Received(o)'
                              <=> n > since[o] /\ replies'[n].address = o
    BY <1>3, <1>7 DEF Modbus!Received
  <2>2. \A n : n \in Modbus!Received(o)' => n \in 1 .. new
    BY <1>7 DEF Modbus!Received
  <2>3. \A n : n \in Modbus!Received(o)
                 <=> n \in 1 .. Len(replies) /\ n > since[o] /\ replies[n].address = o
    BY <1>5 DEF Modbus!Received
  <2>4. new > since[o] /\ replies'[new].address = a
    BY <1>4, <1>5, <1>7, <1>10 DEF ModbusTypes
  <2>5. \A n \in 1 .. Len(replies) : n \in Modbus!Received(o)' <=> n \in Modbus!Received(o)
    BY <1>7, <1>8, <2>1, <2>3
  <2>6. new \in Modbus!Received(o)' <=> o = a
    BY <1>8, <2>1, <2>4
  <2> QED
    BY <1>8, <2>2, <2>3, <2>5, <2>6
<1>12. ASSUME NEW o \in m_curves, o # a, times'[o] = times[o], values'[o] = values[o],
              joined' \/ m_startTime' = m_startTime \/ values[o] = <<>>, ~joined' => ~joined
       PROVE  CurveHolds(o)'
  <2>1. o \in Addresses /\ CurveHolds(o) /\ values[o] \in Seq(Nat)
    BY <1>4 DEF ModbusInvariant, ModbusTypes
  <2>2. Modbus!Received(o)' = Modbus!Received(o)
    BY <1>11, <1>12, <2>1
  <2>3. \A i \in 1 .. Len(values[o]) : values[o][i] \in 1 .. Len(replies)
    BY <1>4, <2>1, ReceivedAre DEF CurveHolds, KeepsLatest
  <2>4. ASSUME ~joined', NEW i \in 1 .. Len(values[o])
        PROVE  times'[o][i] = replies'[values'[o][i]].time - m_startTime'
    <3>1. times[o][i] = replies[values[o][i]].time - m_startTime
      BY <1>12, <2>1, <2>4 DEF CurveHolds
    <3>2. values[o] # <<>>
      BY <2>4
    <3>3. replies'[values[o][i]] = replies[values[o][i]]
      BY <1>7, <2>3
    <3> QED
      BY <1>12, <2>4, <3>1, <3>2, <3>3
  <2>5. KeepsLatest(values[o], Modbus!Received(o))'
    BY <1>12, <2>1, <2>2 DEF CurveHolds
  <2>6. Len(times'[o]) = Len(values'[o]) /\ Len(values'[o]) <= points_nums_' + 1
    BY <1>3, <1>12, <2>1 DEF CurveHolds
  <2> QED
    BY <1>12, <2>4, <2>5, <2>6 DEF CurveHolds
<1>13. CASE a \notin m_curves
  <2>1. UNCHANGED <<times, values, m_startTime, joined>>
    BY <1>2, <1>13
  <2>2. ModbusTypes'
    BY <1>3, <1>4, <1>10, <2>1 DEF ModbusTypes
  <2>3. \A o \in m_curves' : CurveHolds(o)'
    BY <1>3, <1>12, <1>13, <2>1
  <2>4. \A o \in Addresses \ m_curves' : times'[o] = <<>> /\ values'[o] = <<>>
    BY <1>3, <2>1 DEF ModbusInvariant
  <2> QED
    BY <1>9, <2>2, <2>3, <2>4, Zenon DEF ModbusInvariant
<1>14. CASE a \in m_curves
  <2> DEFINE start == IF times[a] = <<>> THEN time ELSE m_startTime
             N == Len(values[a])
             k == IF N > points_nums_ THEN 1 ELSE 0
  <2>1. /\ m_startTime' = start
        /\ times' = [times EXCEPT ![a] = Append(Modbus!Trimmed(times[a]), time - start)]
        /\ values' = [values EXCEPT ![a] = Append(Modbus!Trimmed(values[a]), new)]
        /\ joined' = (joined \/ (times[a] = <<>> /\ \E o \in m_curves : times[o] # <<>>))
    BY <1>2, <1>14 DEF Modbus!addData
  <2>2. /\ a \in Addresses /\ times[a] \in Seq(Int) /\ values[a] \in Seq(Nat) /\ CurveHolds(a)
        /\ m_startTime \in Nat /\ points_nums_ \in Nat \ {0} /\ start \in Nat
    BY <1>4, <1>6, <1>14 DEF ModbusInvariant, ModbusTypes
  <2>3. N \in Nat /\ Len(times[a]) = N /\ N <= points_nums_ + 1
    BY <2>2 DEF CurveHolds
  <2>4. k \in {0, 1} /\ (k = 0 \/ k < N) /\ N - k \in Nat /\ N - k <= points_nums_
    BY <2>2, <2>3
  <2>5. ASSUME NEW S, NEW list \in Seq(S), Len(list) = N
        PROVE  /\ Modbus!Trimmed(list) \in Seq(S) /\ Len(Modbus!Trimmed(list)) = N - k
               /\ \A i \in 1 .. N - k : Modbus!Trimmed(list)[i] = list[i + k]
    <3>1. CASE N > points_nums_
      <4>1. list # <<>> /\ k = 1 /\ Modbus!Trimmed(list) = Tail(list)
        BY <2>2, <2>3, <2>5, <3>1 DEF Modbus!Trimmed
      <4> HIDE DEF k
      <4> QED
        BY <2>5, <4>1, HeadTailProperties
    <3>2. CASE ~(N > points_nums_)
      <4>1. k = 0 /\ Modbus!Trimmed(list) = list
        BY <2>5, <3>2 DEF Modbus!Trimmed
      <4> HIDE DEF k
      <4> QED
        BY <2>3, <2>5, <4>1
    <3> QED
      BY <3>1, <3>2
  <2> DEFINE left == Modbus!Trimmed(values[a])
             leftTimes == Modbus!Trimmed(times[a])
  <2>6. /\ left \in Seq(Nat) /\ Len(left) = N - k
        /\ \A i \in 1 .. N - k : left[i] = values[a][i + k]
    BY <2>2, <2>5
  <2>7. /\ leftTimes \in Seq(Int) /\ Len(leftTimes) = N - k
        /\ \A i \in 1 .. N - k : leftTimes[i] = times[a][i + k]
    BY <2>2, <2>3, <2>5
  <2>8. /\ values'[a] = Append(left, new) /\ times'[a] = Append(leftTimes, time - start)
        /\ \A o \in Addresses : o # a => times'[o] = times[o] /\ values'[o] = values[o]
    BY <1>4, <2>1, <2>2 DEF ModbusTypes
  <2> HIDE DEF k, start, left, leftTimes
  <2>9. /\ values'[a] \in Seq(Nat) /\ Len(values'[a]) = N - k + 1
        /\ values'[a][N - k + 1] = new
        /\ \A i \in 1 .. N - k : values'[a][i] = values[a][i + k]
    BY <1>5, <2>6, <2>8, AppendProperties
  <2>10. /\ times'[a] \in Seq(Int) /\ Len(times'[a]) = N - k + 1
         /\ times'[a][N - k + 1] = time - start
         /\ \A i \in 1 .. N - k : times'[a][i] = times[a][i + k]
    <3>1. time - start \in Int
      BY <1>6, <2>2
    <3> QED
      BY <2>7, <2>8, <3>1, AppendProperties
  <2>11. ModbusTypes'
    <3>1. times' \in [Addresses -> Seq(Int)]
      BY <1>4, <2>1, <2>8, <2>10 DEF ModbusTypes
    <3>2. values' \in [Addresses -> Seq(Nat)]
      BY <1>4, <2>1, <2>8, <2>9 DEF ModbusTypes
    <3> QED
      BY <1>3, <1>4, <1>10, <2>1, <2>2, <3>1, <3>2 DEF ModbusTypes
  <2>12. KeepsLatest(values'[a], Modbus!Received(a)')
    <3>1. KeepsLatest(values[a], Modbus!Received(a)) /\ Modbus!Received(a) \in SUBSET Nat
          /\ Modbus!Received(a) \subseteq 1 .. Len(replies)
      BY <1>4, <2>2, ReceivedAre DEF CurveHolds
    <3>2. KeepsLatest(left, Modbus!Received(a))
      <4>1. k \in Nat /\ (k = 0 \/ k < Len(values[a])) /\ Len(left) = Len(values[a]) - k
            /\ \A i \in 1 .. Len(left) : left[i] = values[a][i + k]
        BY <2>4, <2>6
      <4> HIDE DEF N
      <4> QED
        BY <2>2, <2>6, <3>1, <4>1, CutKeepsLatest
    <3>3. \A n \in Modbus!Received(a) : n < new
      BY <1>5, <3>1 DEF new
    <3>4. Modbus!Received(a)' = Modbus!Received(a) \cup {new}
      BY <1>11, <2>2
    <3> QED
      BY <1>5, <2>6, <2>8, <3>1, <3>2, <3>3, <3>4, MoreKeepsLatest
  <2>13. ASSUME ~joined', NEW i \in 1 .. N - k + 1
         PROVE  times'[a][i] = replies'[values'[a][i]].time - m_startTime'
    <3>1. CASE i = N - k + 1
      BY <1>7, <2>1, <2>9, <2>10, <3>1
    <3>2. CASE i # N - k + 1
      <4>1. i \in 1 .. N - k /\ i + k \in 1 .. N
        BY <2>3, <2>4, <3>2
      <4>2. times[a] # <<>> /\ start = m_startTime
        BY <2>2, <2>3, <4>1 DEF start
      <4>3. times[a][i + k] = replies[values[a][i + k]].time - m_startTime
        BY <2>1, <2>2, <2>13, <4>1 DEF CurveHolds
      <4>4. values[a][i + k] \in 1 .. Len(replies)
        BY <1>4, <2>2, <4>1, ReceivedAre DEF CurveHolds, KeepsLatest
      <4> QED
        BY <1>7, <2>1, <2>9, <2>10, <4>1, <4>2, <4>3, <4>4
    <3> QED
      BY <2>3, <2>4, <3>1, <3>2
  <2>14. CurveHolds(a)'
    <3>1. Len(values'[a]) <= points_nums_' + 1
      BY <1>3, <2>2, <2>4, <2>9
    <3> QED
      BY <2>9, <2>10, <2>12, <2>13, <3>1 DEF CurveHolds
  <2>15. ASSUME NEW o \in m_curves, o # a PROVE CurveHolds(o)'
    <3>1. o \in Addresses /\ values[o] \in Seq(Nat) /\ times[o] \in Seq(Int)
          /\ Len(times[o]) = Len(values[o])
      BY <1>4 DEF ModbusInvariant, ModbusTypes, CurveHolds
    <3>2. joined' \/ m_startTime' = m_startTime \/ values[o] = <<>>
      <4>1. CASE times[a] # <<>>
        BY <2>1, <4>1 DEF start
      <4>2. CASE times[a] = <<>> /\ times[o] # <<>>
        BY <2>1, <4>2
      <4>3. CASE times[o] = <<>>
        BY <3>1, <4>3
      <4> QED
        BY <4>1, <4>2, <4>3
    <3> QED
      BY <1>12, <2>1, <2>8, <2>15, <3>1, <3>2
  <2>16. \A o \in Addresses \ m_curves' : times'[o] = <<>> /\ values'[o] = <<>>
    BY <1>3, <1>14, <2>8 DEF ModbusInvariant
  <2> QED
    BY <1>3, <1>9, <2>11, <2>14, <2>15, <2>16, Zenon DEF ModbusInvariant
<1> QED
  BY <1>13, <1>14

\* The invariant of the Modbus plot is inductive, and implies the property.
LEMMA ModbusPlotIsTrue == Modbus!Init /\ [][Modbus!Next]_(Modbus!vars)
                             => []Modbus!CurvesKeepTheLatest
<1>1. ModbusInvariant /\ [Modbus!Next]_(Modbus!vars) => ModbusInvariant'
  <2> SUFFICES ASSUME ModbusInvariant, [Modbus!Next]_(Modbus!vars) PROVE ModbusInvariant'
    OBVIOUS
  <2>0. address \in [Rows -> Addresses \cup {Modbus!NoAddress}]
    BY DEF ModbusInvariant, ModbusTypes
  <2>1. CASE UNCHANGED Modbus!vars
    BY <2>0, <2>1, ModbusElsewhere DEF Modbus!vars
  <2>2. CASE Modbus!OnOff
    BY <2>0, <2>2, ModbusElsewhere DEF Modbus!OnOff
  <2>3. CASE Modbus!Poll
    BY <2>0, <2>3, ModbusElsewhere DEF Modbus!Poll
  <2>4. ASSUME NEW r \in Rows, NEW a \in Addresses \cup {Modbus!NoAddress}, Modbus!EditRow(r, a)
        PROVE  ModbusInvariant'
    BY <2>0, <2>4, ModbusElsewhere DEF Modbus!EditRow
  <2> QED
    BY <2>1, <2>2, <2>3, <2>4, ModbusButton, ModbusCapacity, ModbusReply DEF Modbus!Next
<1> QED
  BY <1>1, ModbusStarts, ModbusCurvesAreTrue, PTL

\* After any samples and replies, of curves that come and go and capacities that
\* change: a recording has what was received and nothing else, the tracer is at the
\* nearest point of a curve that is there, and a curve of a Modbus window holds the
\* latest values of its address, which its tooltip tells.
THEOREM PlotsAreTrueAlways == WidgetSpec => []PlotsAreTrue
<1>1. Plot!RecordingIsTrue /\ Plot!TracerFindsTheNearest /\ Modbus!CurvesKeepTheLatest
          => PlotsAreTrue
  BY DEF PlotsAreTrue
<1> QED
  BY <1>1, KindsApart, SerialPlotIsTrue, ModbusPlotIsTrue, PTL DEF Plot!Spec, Modbus!Spec
=============================================================================
