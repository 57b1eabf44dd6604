------------------------------ MODULE MqttDialogs ------------------------------
(***************************************************************************)
(* The dialogs of an MQTT window: the one for a new subscription           *)
(* (widget/subscripition_widget.cpp) and the one for the properties sent   *)
(* with a message (widget/mqtt_meta_setting_widget.cpp).  Both are made    *)
(* once and shown by one mask over the window                              *)
(* (lib_ui/ui/control/TtMaskWidget.cpp), which fades in and out; the       *)
(* window (window/mqtt_window.cpp) shows one after the other by a timer.   *)
(*                                                                         *)
(* The mask keeps the mouse from the window but not the keys: the button   *)
(* that has the focus can be pressed again.                                *)
(***************************************************************************)
EXTENDS Integers, Sequences, SequencesExt

CONSTANTS
    Topics,        \* that are typed; "" is none
    Sizes,         \* sizes of the window
    MaxConfirmed,  \* bound: subscriptions
    MaxLater,      \* bound: timers, and calls that are queued, at a time
    MaxProperties  \* bound: rows of properties that are made

Subscription == "subscription"
Meta == "meta"
Dialogs == {Subscription, Meta}
Nobody == "nobody"
DefaultTopic == "testtopic/#"

VARIABLES
    size,           \* of the window
    masked,         \* mask_widget_ is on the screen
    maskSize, childSize,  \* the size of the mask, and the one child_widget_ fits
    fade_animation_,  \* "stopped", "in" or "out"
    hides,          \* the mask is hidden when the animation has finished
    child_widget_,
    created,        \* the dialogs that were made
    visible,        \* those that are not hidden
    parent, originalParent,  \* of each dialog
    saves,          \* how often saveConfigToManager is connected
    later,          \* timers that will show the dialog for a subscription
    queued,         \* closed() that are to be emitted
    topic, error,   \* topic_edit_ is, and error_label_ is on the screen
    subscribed,     \* what was put into the list, and subscribed to
    confirmed,      \* what the user confirmed
    propertyRows_, made, trashed  \* rows of properties, all and removed ones

maskVars == <<masked, maskSize, childSize, fade_animation_, hides, child_widget_, visible,
              parent, originalParent>>
formVars == <<topic, error, subscribed, confirmed>>
propertyVars == <<propertyRows_, made, trashed>>
vars == <<size, maskVars, created, saves, later, queued, formVars, propertyVars>>

Init ==
    /\ size \in Sizes /\ maskSize = size /\ childSize = 0
    /\ masked = FALSE /\ fade_animation_ = "stopped" /\ hides = FALSE
    /\ child_widget_ = Nobody /\ created = {} /\ visible = {}
    /\ parent = [d \in Dialogs |-> "window"] /\ originalParent = [d \in Dialogs |-> Nobody]
    /\ saves = 0 /\ later = 0 /\ queued = 0
    /\ topic = "" /\ error = FALSE /\ subscribed = <<>> /\ confirmed = <<>>
    /\ propertyRows_ = <<>> /\ made = 0 /\ trashed = {}

-----------------------------------------------------------------------------
(* TtMaskWidget *)

\* What the last animation was to do when finished is disconnected.
startFadeAnimation(isShow) ==
    /\ fade_animation_' = IF isShow THEN "in" ELSE "out"
    /\ hides' = ~isShow

\* processChildWidget, updateMaskGeometry: the dialog before is hidden, and stays
\* on the mask.  One that is there already has the mask for its original parent.
show(d) ==
    /\ child_widget_' = d
    /\ visible' = (visible \ {child_widget_}) \cup {d}
    /\ originalParent' = [originalParent EXCEPT ![d] = parent[d]]
    /\ parent' = [parent EXCEPT ![d] = "mask"]
    /\ maskSize' = size /\ childSize' = size
    /\ masked' = TRUE /\ startFadeAnimation(TRUE)

handleCloseRequest ==
    /\ IF masked THEN startFadeAnimation(FALSE) ELSE UNCHANGED <<fade_animation_, hides>>
    /\ UNCHANGED <<masked, maskSize, childSize, child_widget_, visible, parent, originalParent>>

\* The dialog goes back to where it came from, to be used again.
Finished ==
    /\ fade_animation_ # "stopped" /\ fade_animation_' = "stopped"
    /\ IF hides
       THEN /\ masked' = FALSE /\ visible' = visible \ {child_widget_}
            /\ parent' = [parent EXCEPT ![child_widget_] = originalParent[child_widget_]]
       ELSE UNCHANGED <<masked, visible, parent>>
    /\ UNCHANGED <<size, maskSize, childSize, hides, child_widget_, originalParent,
                   created, saves, later, queued, formVars, propertyVars>>

\* eventFilter: the mask is as large as the window, its dialog fits it.
Resize(s) ==
    /\ size' = s /\ maskSize' = s
    /\ childSize' = IF child_widget_ = Nobody THEN childSize ELSE s
    /\ UNCHANGED <<masked, fade_animation_, hides, child_widget_, visible, parent,
                   originalParent, created, saves, later, queued, formVars, propertyVars>>

-----------------------------------------------------------------------------
(* The buttons of the window *)

\* init of the dialogs, when they are made: a topic is there from the start, and
\* one row of properties.
initSubscription ==
    IF Subscription \in created THEN UNCHANGED <<topic, error>>
    ELSE topic' = DefaultTopic /\ error' = FALSE

initMeta ==
    IF Meta \in created THEN UNCHANGED propertyVars
    ELSE propertyRows_' = <<1>> /\ made' = 1 /\ UNCHANGED trashed

\* A mask that is on the screen is closed and shown again at once.
metaButton ==
    /\ initMeta /\ created' = created \cup {Meta}
    /\ show(Meta)
    /\ UNCHANGED <<size, saves, later, queued, formVars>>

\* A mask that is on the screen is closed, and 300 ms later shown again.  What
\* was connected the last time is disconnected first.
subscriptionButton ==
    /\ initSubscription /\ created' = created \cup {Subscription}
    /\ saves' = 1
    /\ IF masked THEN later < MaxLater /\ later' = later + 1 /\ handleCloseRequest
       ELSE show(Subscription) /\ UNCHANGED later
    /\ UNCHANGED <<size, queued, subscribed, confirmed, propertyVars>>

singleShot ==
    /\ later > 0 /\ later' = later - 1
    /\ show(Subscription)
    /\ UNCHANGED <<size, created, saves, queued, formVars, propertyVars>>

-----------------------------------------------------------------------------
(* SubscripitionWidget *)

Usable(d) == masked /\ d \in visible

\* validateTopicInput
EditTopic(t) ==
    /\ Usable(Subscription) /\ t # topic
    /\ topic' = t /\ error' = (t = "")
    /\ UNCHANGED <<size, maskVars, created, saves, later, queued, subscribed, confirmed,
                   propertyVars>>

\* A dialog that is fading away can be confirmed again.  Each connection puts the
\* topic into the list and closes the dialog, which closes once more later.
confirmSub ==
    /\ Usable(Subscription) /\ topic # ""
    /\ Len(confirmed) < MaxConfirmed /\ queued < MaxLater
    /\ confirmed' = Append(confirmed, topic)
    /\ subscribed' = subscribed \o [i \in 1 .. saves |-> topic]
    /\ handleCloseRequest
    /\ queued' = queued + 1
    /\ UNCHANGED <<size, created, saves, later, topic, error, propertyVars>>

closed ==
    /\ queued > 0 /\ queued' = queued - 1
    /\ handleCloseRequest
    /\ UNCHANGED <<size, created, saves, later, formVars, propertyVars>>

\* Cancel, the cross, and both buttons of the other dialog: what was typed stays
\* in the dialog.
onCloseButtonClicked(d) ==
    /\ Usable(d) /\ handleCloseRequest
    /\ UNCHANGED <<size, created, saves, later, queued, formVars, propertyVars>>

-----------------------------------------------------------------------------
(* MqttMetaSettingWidget *)

addProperty ==
    /\ Usable(Meta) /\ made < MaxProperties
    /\ made' = made + 1 /\ propertyRows_' = Append(propertyRows_, made + 1)
    /\ UNCHANGED <<size, maskVars, created, saves, later, queued, formVars, trashed>>

\* The row whose button it is, wherever it is by now.
removeProperty(i) ==
    /\ Usable(Meta) /\ i \in DOMAIN propertyRows_
    /\ propertyRows_' = RemoveAt(propertyRows_, i)
    /\ trashed' = trashed \cup {propertyRows_[i]}
    /\ UNCHANGED <<size, maskVars, created, saves, later, queued, formVars, made>>

Next ==
    \/ Finished \/ \E s \in Sizes : Resize(s)
    \/ metaButton \/ subscriptionButton \/ singleShot
    \/ \E t \in Topics \cup {""} : EditTopic(t)
    \/ confirmSub \/ closed
    \/ \E d \in Dialogs : onCloseButtonClicked(d)
    \/ addProperty \/ \E i \in 1 .. MaxProperties : removeProperty(i)

Spec == Init /\ [][Next]_vars

-----------------------------------------------------------------------------
\* The window is covered only by a mask with a dialog on it, the one that was
\* asked for last, in the window's size; it goes away by itself only when it is
\* fading out, however a dialog was closed or replaced while another was fading.
\* Each confirmation subscribes once, although the dialog is opened again and
\* again.  The rows of properties are those whose button was not pressed.
DialogsAreShownAndTaken ==
    /\ masked => /\ child_widget_ # Nobody /\ visible = {child_widget_}
                 /\ parent[child_widget_] = "mask"
                 /\ maskSize = size /\ childSize = size
                 /\ hides <=> fade_animation_ = "out"
    /\ ~masked => visible = {}
    /\ subscribed = confirmed
    /\ ToSet(propertyRows_) = (1 .. made) \ trashed
    /\ \A i, j \in DOMAIN propertyRows_ : i < j => propertyRows_[i] < propertyRows_[j]
=============================================================================
