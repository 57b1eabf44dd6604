------------------------------ MODULE SerialLink ------------------------------
(***************************************************************************)
(* A serial port: SerialPortWorker, which lives in a thread of its own     *)
(* (core/serial_port.cpp), and the window that drives it in the GUI thread *)
(* (window/serial_window.cpp).                                             *)
(*                                                                         *)
(* The window posts calls to the worker, which answers with signals queued *)
(* to the GUI thread.  A write takes two posts: sendData only queues the   *)
(* chunk and posts handleWriteRequest behind what already waits.           *)
(*                                                                         *)
(* A chunk is a record: the session it was typed for, the session in which *)
(* the window showed it as sent, its number there, and whether it was      *)
(* encoded as it was typed.                                                *)
(***************************************************************************)
EXTENDS Naturals, Sequences

CONSTANTS
    MaxSessions,  \* bound: clicks that open the port
    MaxShown,     \* bound: chunks shown as sent in a session
    MaxPosted,    \* bound: calls waiting for the worker before another chunk
    MaxEvents     \* bound: calls queued to the GUI thread before data or faults

ASSUME BoundsAssumption ==
    {MaxSessions, MaxShown, MaxPosted, MaxEvents} \subseteq Nat \ {0}

VARIABLES
    gui,         \* in its event loop, or where ~SerialWindow is
    opened,      \* opened_
    checked,     \* on_off_btn_ is checked
    ticking,     \* send_package_timer_ is active
    locked,      \* SetControlState(false): settings locked, sending allowed
    queue,       \* msg_queue_, each chunk with its session and format
    delayed,     \* the sessions instruction rows with a running delay are for
    panel,       \* package_size_ > 0, and the heartbeat is sent in HEX
    sendHex,     \* send_type_ is HEX
    session,     \* how often the port was opened
    shown,       \* the chunks shown as sent in this session
    worker,      \* the worker's thread
    port,        \* the session for which serial_ was opened, or Closed
    readers,     \* the connections of readyRead to readData
    sendQueue,   \* send_queue_
    toWorker,    \* calls posted to the worker
    toGui,       \* calls queued to the window
    wire,        \* what was written since the port was opened
    careless     \* "crossed": a click or a fault has met calls under way;
                 \* "mixed": typed for one format or session, taken up in another

window == <<opened, checked, ticking, locked, queue>>
device == <<worker, port, readers, sendQueue, wire>>
typing == <<delayed, panel, sendHex>>
vars == <<gui, window, typing, session, shown, device, toWorker, toGui, careless>>

Closed == 0

Init ==
    /\ gui = "running"
    /\ opened = FALSE /\ checked = FALSE /\ ticking = FALSE /\ locked = FALSE
    /\ queue = <<>> /\ delayed = {}
    /\ panel \in [packaged : BOOLEAN, beatHex : BOOLEAN]
    /\ sendHex = FALSE
    /\ session = 0 /\ shown = 0
    /\ worker = "running" /\ port = Closed /\ readers = 0
    /\ sendQueue = <<>> /\ wire = <<>>
    /\ toWorker = <<>> /\ toGui = <<>>
    /\ careless = {}

-----------------------------------------------------------------------------
(* Chunks, and who waits for what *)

Chunk(for, number, faithful) ==
    [for |-> for, at |-> session, no |-> number, faithful |-> faithful]

Write == <<"handleWriteRequest">>

\* The window shows the chunks and posts one sendData for each.
Show(fors, faithful) ==
    /\ Len(toWorker) < MaxPosted
    /\ shown + Len(fors) <= MaxShown
    /\ shown' = shown + Len(fors)
    /\ toWorker' = toWorker \o
           [i \in DOMAIN fors |-> <<"sendData", Chunk(fors[i], shown + i, faithful)>>]

\* Nothing is under way that will change what the window shows or writes.
Settled ==
    /\ toWorker = <<>> /\ sendQueue = <<>>
    /\ \A i \in DOMAIN toGui : toGui[i] # "error"

Remember(what, when) == careless' = careless \cup (IF when THEN {what} ELSE {})

\* A patient user waits for one click to take effect before the next one, and
\* lets no session end while a row of it still waits for its delay.
Click ==
    careless' = careless \cup (IF Settled THEN {} ELSE {"crossed"})
                         \cup (IF delayed = {} THEN {} ELSE {"mixed"})

-----------------------------------------------------------------------------
(* The GUI thread: the user and the timers *)

ClickOn ==
    /\ gui = "running" /\ ~opened
    /\ session < MaxSessions
    /\ session' = session + 1 /\ shown' = 0
    /\ opened' = TRUE /\ checked' = TRUE /\ ticking' = TRUE /\ locked' = TRUE
    /\ toWorker' = Append(toWorker, <<"openSerialPort">>)
    /\ Click
    /\ UNCHANGED <<gui, queue, typing, device, toGui>>

\* What every end of a session does to the window.
ShowClosed ==
    /\ opened' = FALSE /\ checked' = FALSE /\ ticking' = FALSE /\ locked' = FALSE
    /\ queue' = <<>>

ClickOff ==
    /\ gui = "running" /\ opened
    /\ ShowClosed
    /\ toWorker' = Append(toWorker, <<"closeSerialPort">>)
    /\ Click
    /\ UNCHANGED <<gui, typing, session, shown, device, toGui>>

\* The package size or the format of the heartbeat is edited.
settingChanged ==
    /\ gui = "running" /\ ~locked
    /\ panel' \in [packaged : BOOLEAN, beatHex : BOOLEAN] \ {panel}
    /\ UNCHANGED <<gui, window, delayed, sendHex, session, shown, device, toWorker, toGui,
                   careless>>

\* The TEXT and HEX buttons next to the editor can be pressed at any time.
toggled ==
    /\ gui = "running"
    /\ sendHex' = ~sendHex
    /\ Remember("mixed", queue # <<>>)
    /\ UNCHANGED <<gui, window, delayed, panel, session, shown, device, toWorker, toGui>>

\* The send button: one chunk at once, or two through msg_queue_.  Bound: a
\* message is only cut up when the one before it has been taken up.
sendMessageToPort ==
    /\ gui = "running" /\ opened
    /\ \/ /\ panel.packaged /\ queue = <<>>
          /\ queue' = [i \in 1 .. 2 |-> [for |-> session, hex |-> sendHex]]
          /\ Remember("mixed", panel.beatHex /\ ~sendHex)
          /\ UNCHANGED <<shown, toWorker>>
       \/ /\ ~panel.packaged
          /\ Show(<<session>>, TRUE)
          /\ UNCHANGED <<queue, careless>>
    /\ UNCHANGED <<gui, opened, checked, ticking, locked, typing, session, device, toGui>>

\* send_package_timer_ takes up one chunk, and reads it in the format that is
\* chosen by now.
sendPackageTimeout ==
    /\ gui = "running" /\ ticking /\ opened
    /\ queue # <<>>
    /\ queue' = Tail(queue)
    /\ Show(<<Head(queue).for>>, Head(queue).hex = (sendHex \/ panel.beatHex))
    /\ UNCHANGED <<gui, opened, checked, ticking, locked, typing, session, device, toGui,
                   careless>>

\* A heartbeat, or a row whose delay is over: not kept when the port is not
\* open, and cut up on the spot.
sendPackagedData(for) ==
    IF opened THEN Show(IF panel.packaged THEN <<for, for>> ELSE <<for>>, TRUE)
    ELSE UNCHANGED <<shown, toWorker>>

heartbeatTimeout ==
    /\ gui = "running" /\ opened
    /\ sendPackagedData(session)
    /\ UNCHANGED <<gui, window, typing, session, device, toGui, careless>>

\* A row of the instruction table is sent; its delay starts to run.
sendInstructionTableContent ==
    /\ gui = "running" /\ opened
    /\ delayed' = delayed \cup {session}
    /\ UNCHANGED <<gui, window, panel, sendHex, session, shown, device, toWorker, toGui, careless>>

delayOver ==
    /\ gui = "running"
    /\ \E for \in delayed :
          /\ delayed' = delayed \ {for}
          /\ sendPackagedData(for)
    /\ UNCHANGED <<gui, window, panel, sendHex, session, device, toGui, careless>>

\* Wrong: the chunks that wait in msg_queue_ stay there.
showErrorMessageKeeping ==
    /\ opened' = FALSE /\ checked' = FALSE /\ ticking' = FALSE /\ locked' = FALSE
    /\ UNCHANGED <<queue, toWorker>>

\* An error of the port ends the session in the window; nobody closes the port.
showErrorMessage == ShowClosed /\ UNCHANGED toWorker

\* The GUI thread takes up a queued call; what arrived goes to the parsers.
QueuedCall ==
    /\ gui = "running"
    /\ toGui # <<>>
    /\ toGui' = Tail(toGui)
    /\ \/ Head(toGui) = "error" /\ showErrorMessage
          /\ Remember("mixed", delayed # {})
       \/ Head(toGui) \in {"data", "empty"} /\ UNCHANGED <<window, toWorker, careless>>
    /\ UNCHANGED <<gui, typing, session, shown, device>>

-----------------------------------------------------------------------------
(* ~SerialWindow, in the GUI thread *)

\* Wrong: the thread is told to leave its event loop before the call is posted.
DestroyQuitting ==
    /\ gui = "running"
    /\ gui' = "closing"
    /\ worker' = "leaving"
    /\ toWorker' = Append(toWorker, <<"closeBlocking">>)
    /\ ticking' = FALSE
    /\ delayed' = {}
    /\ UNCHANGED <<opened, checked, locked, queue, panel, sendHex, session, shown, port, readers,
                   sendQueue, wire, toGui, careless>>

\* closeSerialPort is posted, and the thread blocks until it has been called.
Destroy ==
    /\ gui = "running"
    /\ gui' = "closing"
    /\ toWorker' = Append(toWorker, <<"closeBlocking">>)
    /\ ticking' = FALSE
    /\ delayed' = {}
    /\ UNCHANGED <<opened, checked, locked, queue, panel, sendHex, session, shown, device, toGui,
                   careless>>

\* quit(), and wait(): what is still posted to the worker is not called.
quit ==
    /\ gui = "quitting"
    /\ gui' = "waiting"
    /\ worker' = "leaving"
    /\ UNCHANGED <<window, typing, session, shown, port, readers, sendQueue, wire, toWorker,
                   toGui, careless>>

waitOver ==
    /\ gui = "waiting" /\ worker = "gone"
    /\ gui' = "gone"
    /\ queue' = <<>> /\ toGui' = <<>>
    /\ UNCHANGED <<opened, checked, ticking, locked, typing, session, shown, device, toWorker,
                   careless>>

-----------------------------------------------------------------------------
(* The worker's thread *)

\* open() refuses a port that is open already, and can fail on another one.
openSerialPort ==
    \/ /\ port = Closed
       /\ port' = session
       /\ readers' = readers + 1
       /\ wire' = <<>>
       /\ UNCHANGED toGui
    \/ /\ toGui' = Append(toGui, "error")
       /\ UNCHANGED <<port, readers, wire>>

closeSerialPort == port' = Closed

sendData(chunk) ==
    /\ sendQueue' = Append(sendQueue, chunk)
    /\ toWorker' = Append(Tail(toWorker), Write)

\* Wrong: what is queued is written last in, first out.
handleWriteRequestReversed ==
    /\ sendQueue' = <<>>
    /\ wire' = IF port = Closed THEN wire
               ELSE wire \o [i \in DOMAIN sendQueue |-> sendQueue[Len(sendQueue) + 1 - i]]

\* Writes what is queued; a port that is closed takes nothing.
handleWriteRequest ==
    /\ sendQueue' = <<>>
    /\ wire' = IF port = Closed THEN wire ELSE wire \o sendQueue

\* The event loop takes up a posted call.
PostedCall ==
    /\ worker = "running"
    /\ toWorker # <<>>
    /\ LET call == Head(toWorker) IN
       \/ /\ call = <<"openSerialPort">> /\ openSerialPort
          /\ toWorker' = Tail(toWorker)
          /\ UNCHANGED <<gui, sendQueue>>
       \/ /\ call = <<"closeSerialPort">> /\ closeSerialPort
          /\ toWorker' = Tail(toWorker)
          /\ UNCHANGED <<gui, sendQueue, readers, wire, toGui>>
       \/ /\ call = <<"closeBlocking">> /\ closeSerialPort
          /\ toWorker' = Tail(toWorker)
          /\ gui' = "quitting"
          /\ UNCHANGED <<sendQueue, readers, wire, toGui>>
       \/ /\ call = Write /\ handleWriteRequest
          /\ toWorker' = Tail(toWorker)
          /\ UNCHANGED <<gui, port, readers, toGui>>
       \/ /\ Head(call) = "sendData"
          /\ sendData(call[2])
          /\ UNCHANGED <<gui, port, readers, wire, toGui>>
    /\ UNCHANGED <<window, typing, session, shown, worker, careless>>

\* One call of readData; there is nothing left for the second one.
readData(available) == IF available THEN <<"data">> ELSE <<>>

\* Data arrives: readData is called once for every time the port was opened.
DataArrives ==
    /\ worker = "running" /\ port # Closed
    /\ Len(toGui) < MaxEvents
    /\ toGui' = toGui \o readData(TRUE)
                      \o (IF readers > 1 THEN readData(FALSE) ELSE <<>>)
    /\ UNCHANGED <<gui, window, typing, session, shown, device, toWorker, careless>>

\* The open port reports an error: the device is unplugged, a write fails.
Fault ==
    /\ worker = "running" /\ port # Closed
    /\ Len(toGui) < MaxEvents
    /\ toGui' = Append(toGui, "error")
    /\ careless' = careless \cup {"crossed"}
    /\ UNCHANGED <<gui, window, typing, session, shown, device, toWorker>>

\* The thread leaves its event loop; the worker is deleted in it.
finished ==
    /\ worker = "leaving"
    /\ worker' = "gone"
    /\ port' = Closed
    /\ sendQueue' = <<>>
    /\ UNCHANGED <<gui, window, typing, session, shown, readers, wire, toWorker, toGui, careless>>

-----------------------------------------------------------------------------
GuiStep ==
    \/ ClickOn \/ ClickOff \/ settingChanged \/ toggled
    \/ sendMessageToPort \/ sendPackageTimeout \/ heartbeatTimeout
    \/ sendInstructionTableContent \/ delayOver
    \/ QueuedCall
    \/ Destroy \/ quit \/ waitOver

WorkerStep == PostedCall \/ DataArrives \/ Fault \/ finished

Next == GuiStep \/ WorkerStep

Spec == Init /\ [][Next]_vars

\* Both threads run: posted calls are taken up, and ~SerialWindow goes on.
FairSpec ==
    /\ Spec
    /\ WF_vars(PostedCall)
    /\ WF_vars(finished)
    /\ WF_vars(quit \/ waitOver)

-----------------------------------------------------------------------------
Chunks ==
    [for : 1 .. MaxSessions, at : 1 .. MaxSessions, no : 1 .. MaxShown, faithful : BOOLEAN]
Calls ==
    {<<"openSerialPort">>, <<"closeSerialPort">>, <<"closeBlocking">>, Write}
        \cup ({"sendData"} \X Chunks)

\* Types; the port is open only while the worker's thread runs, and a chunk in
\* send_queue_ always has a handleWriteRequest on its way.
TypeOK ==
    /\ gui \in {"running", "closing", "quitting", "waiting", "gone"}
    /\ opened \in BOOLEAN /\ checked \in BOOLEAN /\ ticking \in BOOLEAN
    /\ locked \in BOOLEAN /\ sendHex \in BOOLEAN
    /\ queue \in Seq([for : 1 .. MaxSessions, hex : BOOLEAN]) /\ Len(queue) <= 2
    /\ delayed \subseteq 1 .. MaxSessions
    /\ panel \in [packaged : BOOLEAN, beatHex : BOOLEAN]
    /\ session \in 0 .. MaxSessions
    /\ shown \in 0 .. MaxShown
    /\ worker \in {"running", "leaving", "gone"}
    /\ port \in 0 .. MaxSessions
    /\ readers \in Nat
    /\ sendQueue \in Seq(Chunks)
    /\ wire \in Seq(Chunks)
    /\ toWorker \in Seq(Calls)
    /\ toGui \in Seq({"error", "data"})
    /\ careless \subseteq {"crossed", "mixed"}
    /\ port # Closed => worker # "gone"
    /\ worker = "running" /\ sendQueue # <<>> => \E i \in DOMAIN toWorker : toWorker[i] = Write

\* What goes over the wire in a session is what the window showed as sent in
\* it, in that order and with nothing left out, typed for that session and
\* encoded as it was typed.  For a user who waits for clicks to take effect
\* and for the delays of rows, does not mix formats, and a port without faults.
WireFollowsScreen ==
    /\ TypeOK
    /\ careless = {} =>
        \A i \in DOMAIN wire :
            wire[i] = [for |-> wire[i].at, at |-> wire[1].at, no |-> i, faithful |-> TRUE]

\* No call waits for either thread.
Quiet == gui = "running" /\ toWorker = <<>> /\ toGui = <<>>

\* When everything has come to rest the window shows whether the port is open,
\* and every chunk shown has been written: whatever the port refused, and as
\* long as nobody clicked too early and the open port reported no fault.
RestShowsTheTruth ==
    Quiet /\ "crossed" \notin careless =>
        /\ opened = (port # Closed)
        /\ opened => port = session /\ Len(wire) = shown
        /\ checked = opened /\ ticking = opened /\ locked = opened
        /\ ~opened => queue = <<>>

\* ~SerialWindow comes to its end, and the port is free then.
PortIsReleased == gui = "closing" ~> gui = "gone" /\ port = Closed
=============================================================================
