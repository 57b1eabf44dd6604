------------------------------- MODULE WindowForms -------------------------------
(***************************************************************************)
(* A session window as its form sees it (window/*_window.cpp and           *)
(* window/frame_window.cpp): the form of its kind, the record a save       *)
(* writes and a reopening restores, the parameters of sending the window   *)
(* keeps beside the form, the configuration of an open link, the button    *)
(* that saves and those that choose how data is shown.  What the links do  *)
(* with their configurations is the matter of their own modules.           *)
(***************************************************************************)
EXTENDS SettingPanels

CONSTANTS
    Kinds,     \* the kinds of windows
    Ports,     \* the serial ports there may be
    Texts,     \* the numbers typed into lines of text, 0 for none
    MaxEdits   \* bound on what a user changes

ASSUME FormsAssumption ==
    /\ Kinds \subseteq DOMAIN Panels
    /\ Ports \subseteq Nat \ {0}
    /\ 0 \in Texts /\ Texts \subseteq Nat /\ MaxEdits \in Nat

VARIABLES
    form_kind,   \* the kind of the window
    form,        \* what each field of the form shows
    stored,      \* the form when it was last saved, or first shown
    recorded,    \* there is a record
    listed,      \* the ports in the list of ports
    saved_, saveColor,    \* FrameWindow::saved_, and the colour of the button that saves
    opened_, locked,      \* a link is open; the panel is disabled
    parameters,  \* what the window heard from the form
    beat,        \* interval of heartbeat_timer_
    refreshing,  \* refresh_timer_ of a Modbus window runs
    pressed, checked_widget_,   \* the buttons TEXT and HEX of the display
    touched,     \* heard since the window exists; the display type, if HEX was restored
    silent,      \* not saved any more, and no signal said so
    edits

formVars == <<form_kind, form, stored, recorded, listed, saved_, saveColor, opened_, locked,
              parameters, beat, refreshing, pressed, checked_widget_, touched, silent,
              edits>>

-----------------------------------------------------------------------------
(* Fields and their values *)

panel == Panels[form_kind]
Sheeted(kind) == kind \notin {"Modbus", "Mqtt"}
TEXT == 1
HEX == 2

Field == DOMAIN panel.fields

First(ports) == IF ports = {} THEN 0 ELSE CHOOSE p \in ports : \A q \in ports : p <= q

\* A new window: the first items, empty lines, the first port there is.
Fresh(f, ports) ==
    CASE panel.fields[f] = "port"               -> First(ports)
      [] f \in {"send_type_", "display_type_"} -> TEXT
      [] f = "protocol_version_"               -> 2
      [] OTHER                                 -> 0

Choices(f) ==
    CASE f \in {"framing_model_", "link_type_", "heartbeat_send_type_", "protocol_version_",
               "mode_"}                -> 0..2
      [] f = "send_type_"              -> {TEXT, HEX}
      [] panel.fields[f] = "line" -> Texts
      [] panel.fields[f] = "port" -> listed
      [] OTHER                         -> {0, 1}

\* Fields that other fields hide.
Visible(f) ==
    /\ f = "framing_timeout_" => form.framing_model_ = 1
    /\ f = "framing_fixed_length_" => form.framing_model_ = 2
    /\ f \in {"heartbeat_interval_", "heartbeat_content_"} => form.heartbeat_send_type_ # 0
    /\ form_kind = "UdpClient" /\ f \in {"self_ip_", "self_port_"} => form.mode_ = 0
    /\ form_kind = "Modbus" /\ f \in DOMAIN ModbusSerial => form.link_type_ # 2
    /\ form_kind = "Modbus" /\ f \in {"host_", "port_"} => form.link_type_ = 2

\* What the record of the last save holds for a field: of the retain box, that
\* it can be ticked.
Written(f) == IF panel.fields[f] = "retain" THEN 1 ELSE stored[f]

\* setOldSettings of the panel, and setSetting of the window: what a field of a
\* new window shows; 0 or nothing when nothing was written under its key.
Restored(f, ports) ==
    LET source == panel.source[f]
        value == IF source = "" THEN 0 ELSE Written(source)
    IN  CASE panel.fields[f] = "bare"   -> Fresh(f, ports)
          [] panel.fields[f] = "number" -> 0
          [] panel.fields[f] = "port"   -> IF value \in ports THEN value ELSE Fresh(f, ports)
          [] OTHER                      -> value

-----------------------------------------------------------------------------
(* What the window hears *)

Sent == {"send_package_interval_", "send_package_max_size_", "heartbeat_send_type_",
         "heartbeat_interval_", "heartbeat_content_"}
HeardBy ==
    [Serial |-> {"protocol_engine_"} \union Sent, TcpClient |-> Sent, TcpServer |-> {},
     UdpClient |-> Sent, UdpServer |-> {},
     Modbus |-> {"refresh_interval_", "graph_capacity_"}, Mqtt |-> {"protocol_version_"}]
Heard == HeardBy[form_kind]

\* The signals of package size and interval carry 16 bits; toUShort gives 0
\* when the capacity does not fit.
Passed(f, v) ==
    CASE f \in DOMAIN Sending    -> v % 65536
      [] f = "graph_capacity_"   -> IF v > 65535 THEN 0 ELSE v
      [] OTHER                   -> v

\* Wrong: the interval is kept before it is compared, and never set.
HearTooEarly(changed, shown, before) ==
    LET heard == changed \intersect Heard
    IN  /\ parameters' = [f \in Heard |->
                            IF f \in heard THEN Passed(f, shown[f]) ELSE before[f]]
        /\ beat' = beat

\* The slots: each keeps what it hears; the one of the heart beat sets its timer
\* only when the interval is not the one it has.
Hear(changed, shown, before) ==
    LET heard == changed \intersect Heard
    IN  /\ parameters' = [f \in Heard |->
                            IF f \in heard THEN Passed(f, shown[f]) ELSE before[f]]
        /\ beat' = IF /\ "heartbeat_interval_" \in heard
                      /\ before["heartbeat_interval_"] # shown["heartbeat_interval_"]
                   THEN shown["heartbeat_interval_"] ELSE beat

Garbage == 100

\* A window that heard nothing yet: heartbeat_interval_, heart_beat_type_ and
\* protocol_ are not initialized, and zero or not.
Unheard(kind) ==
    {[f \in HeardBy[kind] |-> CASE f = "heartbeat_interval_" -> Garbage * garbage
                              [] f \in {"heartbeat_send_type_", "protocol_engine_"} -> garbage
                              [] f = "graph_capacity_"     -> 1
                              [] f = "protocol_version_"   -> 2
                              [] OTHER                     -> 0] : garbage \in {0, 1}}

\* Wrong: the button is not told.
setSaveStatusUntold(state) ==
    /\ saved_' = state
    /\ silent' = (silent /\ ~state)
    /\ UNCHANGED saveColor

\* FrameWindow::setSaveStatus: the button follows a change only.
setSaveStatus(state) ==
    /\ saved_' = state
    /\ saveColor' = IF saved_ = state THEN saveColor ELSE IF state THEN "blue" ELSE "red"
    /\ silent' = (silent /\ ~state)

Marks(f) ==
    \/ f \in panel.watched
    \/ form_kind = "Modbus" /\ f \in {"refresh_interval_", "auto_refresh_", "graph_capacity_"}

-----------------------------------------------------------------------------
FormInit ==
    /\ form_kind \in Kinds
    /\ \E ports \in SUBSET Ports :
         /\ listed = ports
         /\ form = [f \in Field |-> Fresh(f, ports)]
    /\ stored = form /\ recorded = FALSE
    /\ saved_ = TRUE /\ saveColor = "blue"
    /\ opened_ = FALSE /\ locked = FALSE
    /\ parameters \in Unheard(form_kind)
    /\ beat = 0 /\ refreshing = FALSE
    /\ pressed = {TEXT} /\ checked_widget_ = TEXT
    /\ touched = {} /\ silent = FALSE /\ edits = 0

Edit == edits < MaxEdits /\ edits' = edits + 1

\* The user changes a field of the panel.  Switching the refreshing on or off
\* fills an empty interval, and starts or stops the timer.
ChangeField(f, v) ==
    LET filled == f = "auto_refresh_" /\ form.refresh_interval_ = 0
        changed == {f} \union IF filled THEN {"refresh_interval_"} ELSE {}
        shown == IF filled THEN [form EXCEPT ![f] = v, !.refresh_interval_ = 100]
                 ELSE [form EXCEPT ![f] = v]
    IN  /\ Edit
        /\ form[f] # v /\ Visible(f)
        /\ locked => f \notin panel.locked
        /\ form' = shown
        /\ Hear(changed, shown, parameters)
        /\ touched' = touched \union (changed \intersect Heard)
        /\ refreshing' = IF f = "auto_refresh_" THEN v = 1 ELSE refreshing
        /\ IF Marks(f) THEN setSaveStatus(FALSE) ELSE UNCHANGED <<saved_, saveColor, silent>>
        /\ UNCHANGED <<form_kind, stored, recorded, listed, opened_, locked, pressed,
                       checked_widget_>>

\* SerialSetting: the button beside the ports fills their list anew.
RefreshPorts(ports) ==
    /\ form_kind = "Serial" /\ ~locked /\ Edit
    /\ listed \union ports # {}
    /\ listed' = ports
    /\ form' = [form EXCEPT !.serial_port_ = First(ports)]
    /\ setSaveStatus(FALSE)
    /\ UNCHANGED <<form_kind, stored, recorded, opened_, locked, parameters, beat,
                   refreshing, pressed, checked_widget_, touched>>

\* The title, once it is not empty, even when it did not change.
EditTitle(v) ==
    /\ Edit
    /\ v # 0
    /\ form' = [form EXCEPT !.title_ = v]
    /\ setSaveStatus(FALSE)
    /\ UNCHANGED <<form_kind, stored, recorded, listed, opened_, locked, parameters,
                   beat, refreshing, pressed, checked_widget_, touched>>

ChooseSendType(v) ==
    /\ Edit /\ Sheeted(form_kind)
    /\ form.send_type_ # v
    /\ form' = [form EXCEPT !.send_type_ = v]
    /\ setSaveStatus(FALSE)
    /\ UNCHANGED <<form_kind, stored, recorded, listed, opened_, locked, parameters,
                   beat, refreshing, pressed, checked_widget_, touched>>

\* TtWidgetGroup, exclusive and holding: the checked button stays; another one
\* changes, and then setDisplayType, which tells nobody that the window is not
\* saved.
ClickDisplay(b) ==
    LET holds == b \in pressed /\ checked_widget_ = b
    IN  /\ Edit /\ Sheeted(form_kind)
        /\ pressed' = IF holds THEN pressed ELSE IF b \in pressed THEN pressed \ {b} ELSE {b}
        /\ checked_widget_' = IF b \in pressed THEN checked_widget_ ELSE b
        /\ form' = [form EXCEPT !.display_type_ = b]
        /\ saved_' = (saved_ /\ form.display_type_ = b)
        /\ silent' = (silent \/ (saved_ /\ form.display_type_ # b))
        /\ UNCHANGED <<form_kind, stored, recorded, listed, saveColor, opened_, locked, parameters, beat, refreshing, touched>>

saveSetting ==
    /\ stored' = form /\ recorded' = TRUE
    /\ setSaveStatus(TRUE)
    /\ UNCHANGED <<form_kind, form, listed, opened_, locked, parameters, beat, refreshing,
                   pressed, checked_widget_, touched, edits>>

\* The window is gone, and the session opened again from its record: a new
\* window, which hears of the fields that change as they are restored.
Reopen(ports) ==
    /\ recorded
    /\ listed' = ports
    /\ form' = [f \in Field |-> IF f \in DOMAIN panel.source THEN Restored(f, ports)
                                ELSE Fresh(f, ports)]
    /\ touched' = {f \in Heard : form'[f] # Fresh(f, ports)}
                     \union {f \in Field : f = "display_type_" /\ form'[f] = HEX}
    /\ \E p \in Unheard(form_kind) :
         /\ parameters' = [f \in Heard |->
                             IF f \in touched' THEN Passed(f, form'[f]) ELSE p[f]]
         /\ beat' = IF /\ "heartbeat_interval_" \in touched'
                       /\ p["heartbeat_interval_"] # form'["heartbeat_interval_"]
                    THEN form'["heartbeat_interval_"] ELSE 0
    /\ refreshing' = (form_kind = "Modbus" /\ form'.auto_refresh_ = 1)
    /\ pressed' = IF "display_type_" \notin touched' THEN {TEXT}
                  ELSE IF form_kind \in {"UdpClient", "UdpServer"} THEN {TEXT, HEX} ELSE {HEX}
    /\ checked_widget_' = TEXT
    /\ saved_' = TRUE /\ saveColor' = "blue" /\ silent' = FALSE
    /\ opened_' = FALSE /\ locked' = FALSE
    /\ UNCHANGED <<form_kind, stored, recorded, edits>>

-----------------------------------------------------------------------------
(* The link *)

\* The button that opens and closes: the panel gives its configuration away.
ClickOn ==
    /\ ~opened_
    /\ opened_' = TRUE
    /\ locked' = (form_kind # "Mqtt")
    /\ refreshing' = (refreshing \/ form_kind = "Modbus")
    /\ UNCHANGED <<form_kind, form, stored, recorded, listed, saved_, saveColor, parameters,
                   beat, pressed, checked_widget_, touched, silent, edits>>

\* An opening that fails at once: a UDP window locks its panel all the same.
OpeningFails ==
    /\ ~opened_
    /\ form_kind \in {"UdpClient", "UdpServer", "Modbus"}
    /\ locked' = (form_kind # "Modbus")
    /\ refreshing' = (refreshing /\ form_kind # "Modbus")
    /\ UNCHANGED <<form_kind, form, stored, recorded, listed, saved_, saveColor, opened_, parameters, beat, pressed, checked_widget_, touched, silent, edits>>

ClickOff ==
    /\ opened_
    /\ opened_' = FALSE
    /\ locked' = FALSE
    /\ refreshing' = (refreshing /\ form_kind # "Modbus")
    /\ UNCHANGED <<form_kind, form, stored, recorded, listed, saved_, saveColor, parameters,
                   beat, pressed, checked_widget_, touched, silent, edits>>

\* errorOccurred of the link.
LinkFails ==
    /\ opened_ /\ form_kind \in {"Serial", "TcpClient", "UdpClient", "UdpServer"}
    /\ opened_' = FALSE
    /\ locked' = FALSE
    /\ UNCHANGED <<form_kind, form, stored, recorded, listed, saved_, saveColor, refreshing,
                   parameters, beat, pressed, checked_widget_, touched, silent, edits>>

\* disconnected of a TCP client: its panel stays locked.
Disconnected ==
    /\ opened_ /\ form_kind = "TcpClient"
    /\ opened_' = FALSE
    /\ UNCHANGED <<form_kind, form, stored, recorded, listed, saved_, saveColor, locked,
                   refreshing, parameters, beat, pressed, checked_widget_, touched, silent, edits>>

\* errorOccurred of a Modbus master, which goes on.
ModbusError ==
    /\ form_kind = "Modbus"
    /\ locked' = FALSE /\ refreshing' = FALSE
    /\ setSaveStatus(FALSE)
    /\ UNCHANGED <<form_kind, form, stored, recorded, listed, opened_, parameters, beat,
                   pressed, checked_widget_, touched, edits>>

FormNext ==
    \/ \E f \in Field \ {"title_", "send_type_", "display_type_"} : \E v \in Choices(f) : ChangeField(f, v)
    \/ \E ports \in SUBSET Ports : RefreshPorts(ports) \/ Reopen(ports)
    \/ \E v \in Texts : EditTitle(v)
    \/ \E b \in {TEXT, HEX} : ChooseSendType(b) \/ ClickDisplay(b)
    \/ saveSetting
    \/ ClickOn \/ OpeningFails \/ ClickOff \/ LinkFails \/ Disconnected \/ ModbusError

FormSpec == FormInit /\ [][FormNext]_formVars

-----------------------------------------------------------------------------
(* Properties *)

FormTypes ==
    /\ form_kind \in Kinds /\ {DOMAIN form, DOMAIN stored} = {Field}
    /\ {recorded, saved_, opened_, locked, refreshing, silent} \subseteq BOOLEAN
    /\ saveColor \in {"blue", "red"} /\ pressed \subseteq {TEXT, HEX}
    /\ checked_widget_ \in {TEXT, HEX} /\ listed \subseteq Ports
    /\ DOMAIN parameters = Heard /\ beat \in Nat /\ edits \in 0..MaxEdits

\* Fields that can change without anybody noticing.
Unnoticed ==
    CASE form_kind = "UdpClient" -> {"target_ip_", "self_ip_"}
      [] form_kind = "Modbus"    -> {"data_bit_", "stop_bit_"}
      [] OTHER                   -> {}

\* Fields a record does not bring back.
Lost ==
    {"framing_model_"} \union
    CASE form_kind = "TcpClient" -> DOMAIN Heartbeat \union {"send_package_interval_"}
      [] form_kind = "UdpServer" -> DOMAIN Framing
      [] form_kind = "Modbus"    -> {"graph_capacity_"}
      [] form_kind = "Mqtt"      -> {"qos_", "retain_"}
      [] OTHER                   -> {}

\* A window that counts as saved shows what was on the screen at the last save,
\* through any closing and reopening: every change of the form is noticed, and
\* every field is written and restored under the same key.  What is known not to
\* be noticed or restored is named above; a port that is not plugged in is not
\* chosen again.
SavedIsOnScreen ==
    saved_ => \A f \in Field \ (Unnoticed \union Lost) :
                \/ form[f] = stored[f]
                \/ panel.fields[f] = "port" /\ stored[f] \notin listed

\* What the window works with is what the form shows, except that a package size
\* or interval is cut to 16 bits, a capacity that does not fit counts as none, a
\* field nobody touched may stand for garbage, and a heart beat that happens to
\* equal the garbage leaves the timer at 0.  Only an open or a refreshing window
\* of a Modbus master polls.
ParametersAsShown ==
    /\ \A f \in Heard :
         f \in touched => parameters[f] = Passed(f, form[f])
    /\ \A f \in Heard \ touched : form[f] = Fresh(f, listed)
    /\ "heartbeat_interval_" \in touched =>
           beat = form.heartbeat_interval_ \/ (beat = 0 /\ form.heartbeat_interval_ = Garbage)
    /\ refreshing => opened_ \/ form.auto_refresh_ = 1

\* While a link is open, the form goes on showing the configuration it was opened
\* with: what it used is locked.  Not so the mode of a UDP client, the form of an
\* MQTT session, and that of a Modbus master once it reported an error.
Loose == IF form_kind = "UdpClient" THEN {"mode_"} ELSE {}
InUseIsOnScreen ==
    [][opened_ /\ opened_' /\ form' # form /\ form_kind # "Mqtt"
         /\ (form_kind = "Modbus" => locked)
         => \A f \in panel.configuration \ Loose : form'[f] = form[f]]_formVars

\* The button that saves is red only when there is something to save, and blue
\* then only when the display was switched; the buttons of the display show how
\* data is shown, unless HEX was restored.
ButtonsTellTheTruth ==
    /\ FormTypes
    /\ saveColor = "red" => ~saved_
    /\ saveColor = "blue" /\ ~saved_ => silent
    /\ Sheeted(form_kind) /\ "display_type_" \notin touched => pressed = {form.display_type_}

\* Both: what counts as saved is what is on the screen, and the buttons say so.
SavedStateIsShown == SavedIsOnScreen /\ ButtonsTellTheTruth
=============================================================================
