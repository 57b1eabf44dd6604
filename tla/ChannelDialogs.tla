---------------------------- MODULE ChannelDialogs ----------------------------
(***************************************************************************)
(* How a channel of a serial window is edited: its entry in the list of    *)
(* channels, which is ticked and renamed in place                          *)
(* (ui/controls/TtChannelButton.cpp), the dialog of the channel            *)
(* (TtChannelButtonEditorDialog.cpp) and the box for its script, which the *)
(* dialog opens (TtLuaInputBox.cpp).  What becomes of channels otherwise   *)
(* is in SerialChannels; here there is at most one.                        *)
(*                                                                         *)
(* Dialog and box are modal.  Neither ends an editing of the name, which   *)
(* only the keys and another widget do.                                    *)
(***************************************************************************)
EXTENDS Naturals

CONSTANTS Names, Scripts, Colors, Nothing

NoScript == "no script"
functionTemplate == "template"
Untitled == "Untitled"

VARIABLES
    channel_info_,  \* of the channel: what its dialog was left with
    script_code,    \* its script in lua_script_codes_
    enable,         \* of its rule
    button,         \* its entry, see NewButton
    rename_editor_, original_text_,
    dialog,         \* the dialog of a new channel or of this one, see NewDialog
    box,            \* the text in the box
    held, before,   \* the mouse button that is down, and the one that was last
    accepted,       \* the script the box showed last before the dialog was accepted
    displayed,          \* the script the box showed last in this dialog
    began           \* where the mouse was pressed last

mouse == <<held, before, began>>
name == <<rename_editor_, original_text_>>
store == <<channel_info_, script_code, accepted>>
vars == <<store, enable, button, name, dialog, box, mouse, displayed>>

Titles == Names \cup {Untitled}
Codes == Scripts \cup {NoScript, functionTemplate}
Infos == [title : Titles, color : Colors, script : Codes]

Exists == channel_info_ # Nothing
Modal == dialog # Nothing

\* ignore_next_release_ has no initial value.
NewButton(text, color, ignore) ==
    [text |-> text, color |-> color, is_checked |-> FALSE, is_pressed |-> FALSE,
     checkbox_pressed |-> FALSE, ignore |-> ignore]

Init ==
    /\ channel_info_ = Nothing /\ script_code = NoScript /\ enable = FALSE /\ button = Nothing
    /\ rename_editor_ = Nothing /\ original_text_ = Nothing
    /\ dialog = Nothing /\ box = Nothing
    /\ held = Nothing /\ before = Nothing /\ began = Nothing
    /\ accepted = NoScript /\ displayed = NoScript

-----------------------------------------------------------------------------
(* TtChannelButton *)

Places == {"box", "text"}
Buttons == {"left", "right"}

\* The editor covers the text.
Reaches(place) == Exists /\ ~Modal /\ (place = "text" => rename_editor_ = Nothing)

mousePress(b, place) ==
    /\ Reaches(place) /\ held = Nothing /\ held' = b
    /\ IF b = "left"
       THEN /\ button' = [button EXCEPT !.checkbox_pressed = (place = "box"),
                                        !.is_pressed = TRUE]
            /\ began' = place
       ELSE UNCHANGED <<button, began>>
    /\ UNCHANGED <<store, enable, name, dialog, box, before, displayed>>

\* A release that is to be ignored counts as one of a pressed button.  What is
\* ticked decides whether the rule of the channel is used.
mouseRelease ==
    /\ held # Nothing /\ ~Modal
    /\ LET pressed == button.is_pressed \/ button.ignore
           clicked == pressed /\ held = "left"
           checked == IF clicked /\ button.checkbox_pressed THEN ~button.is_checked
                      ELSE button.is_checked
       IN  /\ button' = [button EXCEPT !.ignore = FALSE, !.is_pressed = pressed /\ ~clicked,
                                       !.is_checked = checked]
           /\ enable' = IF checked # button.is_checked THEN checked ELSE enable
    /\ held' = Nothing /\ before' = held
    /\ UNCHANGED <<store, name, dialog, box, began, displayed>>

modifyText ==
    IF rename_editor_ = Nothing
    THEN rename_editor_' = button.text /\ original_text_' = button.text
    ELSE UNCHANGED name

\* The second press of a double click, with either button.
mouseDoubleClick(b, place) ==
    /\ Reaches(place) /\ held = Nothing /\ before = b /\ held' = b
    /\ IF place = "box" THEN button' = [button EXCEPT !.ignore = TRUE] /\ UNCHANGED name
       ELSE /\ IF b = "left" THEN modifyText ELSE UNCHANGED name
            /\ UNCHANGED button
    /\ UNCHANGED <<store, enable, dialog, box, before, began, displayed>>

Rename(text) ==
    /\ rename_editor_ # Nothing /\ ~Modal
    /\ rename_editor_' = text
    /\ UNCHANGED <<store, enable, button, original_text_, dialog, box, mouse, displayed>>

\* The return key, or another widget is used: nobody but the entry is told.
editingFinished ==
    /\ rename_editor_ # Nothing /\ ~Modal
    /\ button' = IF rename_editor_ # original_text_ THEN [button EXCEPT !.text = rename_editor_]
                 ELSE button
    /\ rename_editor_' = Nothing
    /\ UNCHANGED <<store, enable, original_text_, dialog, box, mouse, displayed>>

Escape ==
    /\ rename_editor_ # Nothing /\ ~Modal
    /\ rename_editor_' = Nothing
    /\ UNCHANGED <<store, enable, button, original_text_, dialog, box, mouse, displayed>>

-----------------------------------------------------------------------------
(* The menu of the list *)

renameAction ==
    /\ Exists /\ ~Modal /\ held = Nothing /\ modifyText
    /\ UNCHANGED <<store, enable, button, dialog, box, mouse, displayed>>

deleteAction ==
    /\ Exists /\ ~Modal /\ held = Nothing
    /\ channel_info_' = Nothing /\ script_code' = NoScript /\ accepted' = NoScript
    /\ enable' = FALSE /\ button' = Nothing
    /\ rename_editor_' = Nothing /\ original_text_' = Nothing
    /\ before' = Nothing /\ began' = Nothing
    /\ UNCHANGED <<dialog, box, held, displayed>>

-----------------------------------------------------------------------------
(* TtChannelButtonEditorDialog, TtLuaInputBox *)

NewDialog(title, color, script) ==
    [title |-> title, m_chosenCheckBlockColor |-> color,
     lua_code |-> script, lua_code_copy |-> script]

\* A dialog for a new channel has a colour drawn by lot; one for a channel the
\* colour of its entry, and by setMetaInfo what it was left with.
addAction ==
    /\ ~Exists /\ ~Modal
    /\ \E color \in Colors : dialog' = NewDialog(Untitled, color, NoScript)
    /\ displayed' = NoScript
    /\ UNCHANGED <<store, enable, button, name, box, mouse>>

editAction ==
    /\ Exists /\ ~Modal /\ held = Nothing
    /\ dialog' = NewDialog(channel_info_.title, button.color, channel_info_.script)
    /\ displayed' = channel_info_.script
    /\ UNCHANGED <<store, enable, button, name, box, mouse>>

EditTitle(title) ==
    /\ Modal /\ box = Nothing
    /\ dialog' = [dialog EXCEPT !.title = title]
    /\ UNCHANGED <<store, enable, button, name, box, mouse, displayed>>

ChooseColor(color) ==
    /\ Modal /\ box = Nothing
    /\ dialog' = [dialog EXCEPT !.m_chosenCheckBlockColor = color]
    /\ UNCHANGED <<store, enable, button, name, box, mouse, displayed>>

\* setLuaCode, of a box that is new and empty.
setLuaCode(code) == IF code = NoScript THEN functionTemplate ELSE code

scriptButton ==
    /\ Modal /\ box = Nothing
    /\ box' = setLuaCode(dialog.lua_code_copy)
    /\ UNCHANGED <<store, enable, button, name, dialog, mouse, displayed>>

EditScript(code) ==
    /\ box # Nothing /\ box' = code
    /\ UNCHANGED <<store, enable, button, name, dialog, mouse, displayed>>

\* The box has no buttons of its own, and its text is taken however it is left.
LeaveBox ==
    /\ box # Nothing
    /\ dialog' = [dialog EXCEPT !.lua_code_copy = box]
    /\ displayed' = box /\ box' = Nothing
    /\ UNCHANGED <<store, enable, button, name, mouse>>

\* addChannel of a new one, HandleDialogData of one there is: a script that was
\* emptied is stored with the channel, and the one before goes on being used.
\* The name in the list stays as it is.
applyChanges ==
    /\ Modal /\ box = Nothing
    /\ LET script == dialog.lua_code_copy  color == dialog.m_chosenCheckBlockColor IN
       /\ channel_info_' = [title |-> dialog.title, color |-> color, script |-> script]
       /\ script_code' = IF script = NoScript THEN script_code ELSE script
       /\ IF Exists THEN button' = [button EXCEPT !.color = color]
          ELSE \E ignore \in BOOLEAN : button' = NewButton(dialog.title, color, ignore)
    /\ accepted' = displayed /\ dialog' = Nothing
    /\ UNCHANGED <<enable, name, box, mouse, displayed>>

reject ==
    /\ Modal /\ box = Nothing /\ dialog' = Nothing
    /\ UNCHANGED <<store, enable, button, name, box, mouse, displayed>>

Next ==
    \/ \E b \in Buttons, place \in Places : mousePress(b, place) \/ mouseDoubleClick(b, place)
    \/ mouseRelease \/ editingFinished \/ Escape
    \/ \E text \in Names : Rename(text) \/ EditTitle(text)
    \/ renameAction \/ deleteAction \/ addAction \/ editAction
    \/ \E color \in Colors : ChooseColor(color)
    \/ scriptButton \/ LeaveBox \/ \E code \in Scripts \cup {NoScript} : EditScript(code)
    \/ applyChanges \/ reject

Spec == Init /\ [][Next]_vars

-----------------------------------------------------------------------------
\* A channel has the script the box showed last before its dialog was accepted,
\* whichever way the box was left, and nothing of a dialog that was given up;
\* that script is used, or the one before if it was emptied.  The colour of the
\* entry is the stored one.  A rule is used exactly while its entry is ticked,
\* whatever was clicked once or twice with either button.
ChannelsAsAccepted ==
    Exists =>
        /\ channel_info_.script = accepted
        /\ accepted # NoScript => script_code = accepted
        /\ channel_info_.color = button.color
        /\ enable = button.is_checked
        /\ held = "left" /\ button.is_pressed => (button.checkbox_pressed <=> began = "box")
=============================================================================
