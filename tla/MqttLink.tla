-------------------------------- MODULE MqttLink -------------------------------
(***************************************************************************)
(* An MQTT session: the window (window/mqtt_window.cpp) and the client     *)
(* (core/mqtt_client.cpp), which wraps a QMqttClient.  Everything runs in  *)
(* the GUI thread.  The client library tells of a connection made or lost; *)
(* the window sets opened_ by the clicks alone, and the button by both.    *)
(***************************************************************************)
EXTENDS Integers, Sequences, SequencesExt

CONSTANTS
    Topics,   \* the topics a user subscribes to
    MaxRows,  \* bound: the rows of the list of subscriptions
    MaxChat   \* bound: the messages in the chat view

VARIABLES
    opened,      \* opened_
    checked,     \* on_off_btn_ is checked
    state,       \* client_->state()
    dialog,      \* the dialog for a subscription, which fades away when closed
    rows,        \* the list of subscriptions
    subscribed,  \* the topics the broker sends in this connection
    chat,        \* who sent the messages in the chat view
    refused,     \* the last attempt failed before the library was asked
    deleted      \* the topics whose rows were deleted in this connection

vars == <<opened, checked, state, dialog, rows, subscribed, chat, refused, deleted>>

Init ==
    /\ opened = FALSE /\ checked = FALSE
    /\ state = "Disconnected"
    /\ dialog = "closed"
    /\ rows = <<>> /\ subscribed = {}
    /\ chat = <<>>
    /\ refused = FALSE /\ deleted = {}

-----------------------------------------------------------------------------
(* The connection *)

\* The library starts an attempt, unless one is under way or has succeeded;
\* without a host or with a bad port it is not asked.
connectToHost ==
    \/ /\ state' = IF state = "Disconnected" THEN "Connecting" ELSE state
       /\ refused' = FALSE
    \/ /\ refused' = TRUE
       /\ UNCHANGED state

\* The button is pressed on a closed window: whatever became of the attempt,
\* the window counts as open and the button is checked.
ClickOn ==
    /\ ~opened
    /\ connectToHost
    /\ opened' = TRUE /\ checked' = TRUE
    /\ UNCHANGED <<dialog, rows, subscribed, chat, deleted>>

\* The slots for an end of the connection, and for the error that goes with it.
disconnected ==
    /\ state' = "Disconnected"
    /\ checked' = FALSE
    /\ subscribed' = {} /\ deleted' = {}

\* The button is pressed on an open window: a connection is ended, an attempt
\* is not.
ClickOff ==
    /\ opened
    /\ opened' = FALSE
    /\ \/ /\ state = "Connected"
          /\ disconnected
       \/ /\ state # "Connected"
          /\ checked' = FALSE
          /\ UNCHANGED <<state, subscribed, deleted>>
    /\ UNCHANGED <<dialog, rows, chat, refused>>

\* The broker accepts.  Nobody subscribes again to what is in the list.
connected ==
    /\ state = "Connecting"
    /\ state' = "Connected"
    /\ checked' = TRUE
    /\ UNCHANGED <<opened, dialog, rows, subscribed, chat, refused, deleted>>

\* The broker refuses, or the connection breaks: opened_ stays.
Breaks ==
    /\ state # "Disconnected"
    /\ disconnected
    /\ UNCHANGED <<opened, dialog, rows, chat, refused>>

-----------------------------------------------------------------------------
(* Subscriptions and messages *)

OpenDialog ==
    /\ dialog = "closed"
    /\ dialog' = "open"
    /\ UNCHANGED <<opened, checked, state, rows, subscribed, chat, refused, deleted>>

\* Saved or given up; a dialog that is fading away can still be saved again.
CloseDialog ==
    /\ dialog = "open"
    /\ dialog' = "fading"
    /\ UNCHANGED <<opened, checked, state, rows, subscribed, chat, refused, deleted>>

DialogGone ==
    /\ dialog = "fading"
    /\ dialog' = "closed"
    /\ UNCHANGED <<opened, checked, state, rows, subscribed, chat, refused, deleted>>

\* The library refuses to subscribe without a connection, which only a log
\* line tells.
subscribe(topic) ==
    subscribed' = IF state = "Connected" THEN subscribed \cup {topic} ELSE subscribed

\* The dialog is saved: a row for the topic, whether or not it could be
\* subscribed to.
saveConfigToManager ==
    /\ dialog \in {"open", "fading"}
    /\ Len(rows) < MaxRows
    /\ \E topic \in Topics :
           /\ rows' = Append(rows, topic)
           /\ subscribe(topic)
    /\ dialog' = "fading"
    /\ UNCHANGED <<opened, checked, state, chat, refused, deleted>>

\* A row is deleted; the topic stays subscribed to.
deleteAction ==
    /\ rows # <<>>
    /\ \E row \in DOMAIN rows :
           /\ rows' = RemoveAt(rows, row)
           /\ deleted' = deleted \cup {rows[row]}
    /\ UNCHANGED <<opened, checked, state, dialog, subscribed, chat, refused>>

\* The numbers a message may get: a positive one on the quality levels 1 and 2,
\* 0 on the others, a negative one when the library refuses it.
publishMessage == {-1, 0, 1}

\* The send button: nothing without a connection or a topic; a message whose
\* number is not positive is taken for one that was not sent.
Publish ==
    /\ state = "Connected"
    /\ Len(chat) < MaxChat
    /\ \E id \in publishMessage :
           chat' = IF id > 0 THEN Append(chat, "me") ELSE chat
    /\ UNCHANGED <<opened, checked, state, dialog, rows, subscribed, refused, deleted>>

dataReceived ==
    /\ subscribed # {}
    /\ Len(chat) < MaxChat
    /\ chat' = Append(chat, "broker")
    /\ UNCHANGED <<opened, checked, state, dialog, rows, subscribed, refused, deleted>>

-----------------------------------------------------------------------------
Next ==
    \/ ClickOn \/ ClickOff \/ connected \/ Breaks
    \/ OpenDialog \/ CloseDialog \/ DialogGone
    \/ saveConfigToManager \/ deleteAction
    \/ Publish \/ dataReceived

Spec == Init /\ [][Next]_vars

-----------------------------------------------------------------------------
(* Properties *)

\* Types.
TypeOK ==
    /\ opened \in BOOLEAN /\ checked \in BOOLEAN /\ refused \in BOOLEAN
    /\ state \in {"Disconnected", "Connecting", "Connected"}
    /\ dialog \in {"closed", "open", "fading"}
    /\ rows \in Seq(Topics) /\ Len(rows) <= MaxRows
    /\ subscribed \subseteq Topics /\ deleted \subseteq Topics
    /\ chat \in Seq({"me", "broker"}) /\ Len(chat) <= MaxChat

\* While no attempt is under way the button shows whether there is a
\* connection, although clicks, answers and breaks set it in any order, and
\* opened_, which says what the next click does, may be wrong by then; unless
\* the last attempt was refused without asking the library.  And what the
\* broker sends is in the list, or was deleted from it.
ButtonShowsTheConnection ==
    /\ TypeOK
    /\ state # "Connecting" /\ ~refused => checked = (state = "Connected")
    /\ subscribed \subseteq ToSet(rows) \cup deleted
    /\ subscribed # {} => state = "Connected"
=============================================================================
