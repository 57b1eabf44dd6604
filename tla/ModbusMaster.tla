---------------------------- MODULE ModbusMaster ----------------------------
(***************************************************************************)
(* Core::ModbusMaster and Core::ModbusWorker (core/modbus_client.{h,cpp})  *)
(* with the part of Window::ModbusWindow that drives them: the request     *)
(* pump that keeps at most MaxParallel reads in flight, the on/off button, *)
(* the refresh timer, writes from the register tables, and the disconnect  *)
(* that a worker thread carries out on objects of the GUI thread.          *)
(*                                                                         *)
(* Two threads act.  A handler of the GUI thread is one step, or, where    *)
(* the worker can come in between, the steps named by gui: "read" (in the  *)
(* loop over the addresses of a refresh), "check", "send" and "register"   *)
(* (the parts of processNextRequest).  The worker runs                     *)
(* ModbusWorker::disconnectModbus one call at a time.  What it posts to    *)
(* the GUI thread waits in the FIFO events.                                *)
(***************************************************************************)
EXTENDS Integers, Sequences, FiniteSets

CONSTANTS
    Slots,        \* QModbusReply objects, recycled once nothing refers to them
    MaxParallel,  \* MAX_PARALLEL_REQUESTS
    BatchMax,     \* bound: the reads one refresh asks for
    QueueMax,     \* bound: the requests waiting in request_queue_
    AskMax,       \* bound: the disconnects asked for and the posts not yet handled
    Patient,      \* TRUE: the user waits for a disconnect to finish, or closes the window
    RaceAt        \* the points of a GUI handler where the worker may run too

ASSUME ParallelAssumption == MaxParallel \in Nat \ {0}
ASSUME SlotsAssumption == IsFiniteSet(Slots)
ASSUME BoundsAssumption == {BatchMax, QueueMax, AskMax} \subseteq Nat \ {0}
ASSUME UserAssumption == Patient \in BOOLEAN
ASSUME RaceAssumption == RaceAt \subseteq {"read", "check", "send", "register"}

VARIABLES
    device,    \* modbusDevice: "none" is nullptr, otherwise its state()
    queued,    \* request_queue_.size()
    active,    \* active_replies_
    sent,      \* the replies the device still owes an answer
    fresh,     \* a reply just sent: not yet in active_replies_, nor connected
    posted,    \* replies that finished in the worker thread: their lambdas wait
    write,     \* a write reply: "none", "sent" or "posted"
    gui,       \* where the GUI thread is
    batch,     \* the reads the refresh under way has still to ask for
    worker,    \* where the worker thread is in disconnectModbus
    asked,     \* disconnectModbus calls in the worker's event queue
    events,    \* what the worker has posted to the GUI thread, in order
    dialog,    \* disconnect_progress_ is shown: it is modal
    control,   \* the state setControlState was last given
    editable,  \* a value cell of a register table can be edited
    timer,     \* refresh_timer_ is active
    opened     \* opened_

replies == <<active, sent, fresh, posted>>
master == <<device, queued, replies, write>>
guiVars == <<gui, batch>>
workerVars == <<worker, asked>>
window == <<dialog, control, editable, timer, opened>>
vars == <<master, guiVars, workerVars, events, window>>

DeviceStates == {"none", "unconnected", "connecting", "connected"}
Crashed == {"null_device", "empty_queue"}
Handlers == {"read", "check", "send", "register"}
GuiPlaces == {"loop", "closing", "closed"} \cup Handlers \cup Crashed
WorkerPlaces == {"idle", "disconnect", "replies", "queue", "finish"}
Posts == {"started", "replies", "finished"}

Init ==
    /\ device = "none" /\ queued = 0
    /\ active = {} /\ sent = {} /\ fresh = {} /\ posted = {} /\ write = "none"
    /\ gui = "loop" /\ batch = 0
    /\ worker = "idle" /\ asked = 0
    /\ events = <<>>
    /\ dialog = FALSE /\ control = TRUE /\ timer = FALSE /\ opened = FALSE
    /\ editable = FALSE

-----------------------------------------------------------------------------
(* Helpers                                                                  *)

isConnected == device = "connected"

\* A disconnect has been asked for and the GUI has not yet heard of its end.
Disconnecting == asked > 0 \/ worker # "idle" \/ events # <<>>

\* The GUI thread takes a click: not behind the modal dialog, and, of a
\* patient user, not before the last disconnect is over.
UserActs == gui = "loop" /\ ~dialog /\ (Patient => ~Disconnecting)

\* setControlState also enables or disables the value cells of every row.
setControlState(state) ==
    control' = state /\ editable' = ~state /\ timer' = ~state

\* ModbusWindow's slot for ModbusMaster::errorOccurred.
errorOccurred == setControlState(TRUE) /\ UNCHANGED <<dialog, opened>>

\* Back from processNextRequest: to the refresh that called it, or to the
\* event loop.
Return(left) == gui' = (IF left = 0 THEN "loop" ELSE "read") /\ batch' = left

FreeSlots == Slots \ (active \cup sent \cup fresh \cup posted)

\* connectDevice: at once (serial port), later (TCP), or not at all.
ConnectOutcomes == {"unconnected", "connecting", "connected"}

-----------------------------------------------------------------------------
(* The on/off button                                                        *)

\* Connected: the worker is asked to disconnect, the window closes at once.
ClickOff ==
    /\ UserActs /\ isConnected /\ asked + Len(events) < AskMax
    /\ asked' = asked + 1
    /\ setControlState(TRUE)
    /\ opened' = FALSE
    /\ UNCHANGED <<master, guiVars, worker, events, dialog>>

\* setupConfiguration deletes the old device, and with it its replies;
\* neither request_queue_ nor active_replies_ is touched.
setupConfiguration == sent' = {} /\ write' = "none" /\ UNCHANGED <<queued, active, fresh, posted>>

\* Not connected: a new device is set up and connected.
ClickOn ==
    /\ UserActs /\ ~isConnected
    /\ setupConfiguration
    /\ device' \in ConnectOutcomes
    /\ opened' = (device' # "unconnected")
    /\ setControlState(device' = "unconnected")
    /\ UNCHANGED <<guiVars, workerVars, events, dialog>>

\* The settings are enabled while control is: the auto-refresh switch
\* starts or stops the timer, connected or not.
AutoRefresh ==
    /\ UserActs /\ control
    /\ timer' \in BOOLEAN
    /\ UNCHANGED <<master, guiVars, workerVars, events, dialog, control, editable, opened>>

\* A row added to a table comes with its editors enabled.
AddRow ==
    /\ UserActs /\ control
    /\ editable' = TRUE
    /\ UNCHANGED <<master, guiVars, workerVars, events, dialog, control, timer, opened>>

-----------------------------------------------------------------------------
(* Reading                                                                  *)

\* The timer, or the refresh button, reads the addresses of the tables.
Refresh ==
    /\ gui = "loop" /\ isConnected
    /\ timer \/ (UserActs /\ ~control)
    /\ batch' \in {n \in 1..BatchMax : queued + n <= QueueMax}
    /\ gui' = "read"
    /\ UNCHANGED <<master, workerVars, events, window>>

\* Mutant: the unit is enqueued twice.
ReadAcceptedTwice ==
    /\ gui = "read" /\ isConnected
    /\ queued' = queued + 2
    /\ batch' = batch - 1
    /\ gui' = "check"
    /\ UNCHANGED <<device, replies, write, workerVars, events, window>>

\* readModbusData enqueues the unit and pumps.
ReadAccepted ==
    /\ gui = "read" /\ isConnected
    /\ queued' = queued + 1
    /\ batch' = batch - 1
    /\ gui' = "check"
    /\ UNCHANGED <<device, replies, write, workerVars, events, window>>

\* It refuses a range of more than 125 addresses, and every unit when the
\* worker has disconnected the device in the meantime.
ReadRefused ==
    /\ gui = "read"
    /\ errorOccurred
    /\ Return(batch - 1)
    /\ UNCHANGED <<master, workerVars, events>>

\* Mutant: > in place of >= in the test against MAX_PARALLEL_REQUESTS.
CheckOneTooMany ==
    /\ gui = "check"
    /\ IF queued = 0 \/ Cardinality(active) > MaxParallel
       THEN Return(batch) /\ UNCHANGED queued
       ELSE IF isConnected
            THEN gui' = "send" /\ UNCHANGED <<queued, batch>>
            ELSE queued' = 0 /\ Return(batch)
    /\ UNCHANGED <<device, replies, write, workerVars, events, window>>

\* processNextRequest, up to the decision to send.
Check ==
    /\ gui = "check"
    /\ \/ /\ queued = 0 \/ Cardinality(active) >= MaxParallel
          /\ Return(batch)
          /\ UNCHANGED queued
       \/ /\ queued > 0 /\ Cardinality(active) < MaxParallel /\ ~isConnected
          /\ queued' = 0
          /\ Return(batch)
       \/ /\ queued > 0 /\ Cardinality(active) < MaxParallel /\ isConnected
          /\ gui' = "send"
          /\ UNCHANGED <<queued, batch>>
    /\ UNCHANGED <<device, replies, write, workerVars, events, window>>

\* Dequeue and send.  sendReadRequest answers nullptr when the device is no
\* longer connected.
Send ==
    /\ gui = "send" /\ queued > 0
    /\ queued' = queued - 1
    /\ \/ /\ isConnected
          /\ \E s \in FreeSlots : sent' = sent \cup {s} /\ fresh' = {s}
          /\ gui' = "register"
          /\ UNCHANGED <<batch, window>>
       \/ /\ ~isConnected
          /\ errorOccurred
          /\ Return(batch)
          /\ UNCHANGED <<sent, fresh>>
    /\ UNCHANGED <<device, active, posted, write, workerVars, events>>

\* Remember the reply, connect its lambda, and go round again.
Register ==
    /\ gui = "register"
    /\ active' = active \cup fresh
    /\ fresh' = {}
    /\ gui' = "check"
    /\ UNCHANGED <<device, queued, sent, posted, write, batch, workerVars, events, window>>

\* QQueue::dequeue on a queue the worker has cleared since the check.
SendFromEmpty ==
    /\ gui = "send" /\ queued = 0
    /\ gui' = "empty_queue"
    /\ UNCHANGED <<master, batch, workerVars, events, window>>

\* Mutant: the lambda does not call processNextRequest.
ReplyFinishesSilently ==
    /\ gui = "loop"
    /\ \E s \in sent : sent' = sent \ {s} /\ active' = active \ {s}
    /\ UNCHANGED <<device, queued, fresh, posted, write, guiVars, workerVars, events, window>>

\* An answer, a timeout (setTimeout) or an error: the reply's lambda runs in
\* the GUI thread and pumps.
ReplyFinishes ==
    /\ gui = "loop"
    /\ \E s \in sent : sent' = sent \ {s} /\ active' = active \ {s}
    /\ gui' = "check"
    /\ UNCHANGED <<device, queued, fresh, posted, write, batch, workerVars, events, window>>

-----------------------------------------------------------------------------
(* Writing, from a confirmed cell of a register table                       *)

CanWrite == UserActs /\ editable

\* writeModbusData sends the request.
WriteSent ==
    /\ CanWrite /\ isConnected /\ write = "none"
    /\ write' = "sent"
    /\ UNCHANGED <<device, queued, replies, guiVars, workerVars, events, window>>

\* sendWriteRequest gives no reply: reported at once.
WriteRefused ==
    /\ CanWrite /\ isConnected
    /\ errorOccurred
    /\ UNCHANGED <<master, guiVars, workerVars, events>>

\* Not connected: it connects the device instead, and the window is not
\* told.  (Only the coil table asks isConnected first.)
WriteReconnects ==
    /\ CanWrite /\ device \in {"unconnected", "connecting"}
    /\ device' \in (IF device = "connecting" THEN {device} ELSE ConnectOutcomes)
    /\ UNCHANGED <<queued, replies, write, guiVars, workerVars, events, window>>

\* modbusDevice->state() when no device was ever set up.
WriteWithoutDevice ==
    /\ CanWrite /\ device = "none"
    /\ gui' = "null_device"
    /\ UNCHANGED <<master, batch, workerVars, events, window>>

\* The write reply's lambda: an exception of the slave is reported.
WriteFinishes ==
    /\ gui = "loop" /\ write = "sent"
    /\ write' = "none"
    /\ errorOccurred \/ UNCHANGED window
    /\ UNCHANGED <<device, queued, replies, guiVars, workerVars, events>>

-----------------------------------------------------------------------------
(* The device                                                               *)

Connected ==
    /\ gui = "loop" /\ device = "connecting"
    /\ device' \in {"unconnected", "connected"}
    /\ UNCHANGED <<queued, replies, write, guiVars, workerVars, events, window>>

\* Mutant: processNextRequest returns without clearing the queue when the
\* device is not connected.
ConnectionLostQueueKept ==
    /\ gui = "loop" /\ isConnected
    /\ device' = "unconnected"
    /\ active' = active \ sent
    /\ sent' = {}
    /\ write' = (IF write = "sent" THEN "none" ELSE write)
    /\ IF write = "sent" THEN errorOccurred ELSE UNCHANGED window
    /\ UNCHANGED <<queued, fresh, posted, guiVars, workerVars, events>>

\* Every reply finishes with an error, and the first lambda to pump finds
\* the device gone and clears the queue.  Nobody else listens to the device.
ConnectionLost ==
    /\ gui = "loop" /\ isConnected
    /\ device' = "unconnected"
    /\ active' = active \ sent
    /\ sent' = {}
    /\ queued' = (IF sent = {} THEN queued ELSE 0)
    /\ write' = (IF write = "sent" THEN "none" ELSE write)
    /\ IF write = "sent" THEN errorOccurred ELSE UNCHANGED window
    /\ UNCHANGED <<fresh, posted, guiVars, workerVars, events>>

-----------------------------------------------------------------------------
(* ModbusWorker::disconnectModbus, in the worker thread                     *)

WorkerStarts ==
    /\ worker = "idle" /\ asked > 0 /\ gui \notin {"closing", "closed"}
    /\ asked' = asked - 1
    /\ events' = Append(events, "started")
    /\ worker' = "disconnect"
    /\ UNCHANGED <<master, guiVars, window>>

\* The worker does not wait for the GUI thread: RaceAt only restricts which
\* interleavings are looked at.
WorkerMayTouch == gui \in Handlers => gui \in RaceAt

\* Mutant: disconnectDevice is left to whoever connects next.
WorkerDisconnectsNot ==
    /\ worker = "disconnect" /\ WorkerMayTouch
    /\ worker' = "replies"
    /\ UNCHANGED <<master, asked, events, guiVars, window>>

\* disconnectDevice finishes every pending reply.  Their lambdas belong to
\* an object of the GUI thread, so they are posted there; a reply that is
\* not connected yet finishes unheard.
WorkerDisconnects ==
    /\ worker = "disconnect" /\ WorkerMayTouch
    /\ device' = (IF device = "none" THEN "none" ELSE "unconnected")
    /\ posted' = posted \cup (sent \ fresh)
    /\ sent' = {}
    /\ write' = (IF write = "sent" THEN "posted" ELSE write)
    /\ events' = IF sent \ fresh = {} /\ write # "sent" THEN events ELSE Append(events, "replies")
    /\ worker' = "replies"
    /\ UNCHANGED <<queued, active, fresh, asked, guiVars, window>>

\* deleteLater on every active reply, then active_replies_.clear().
WorkerForgetsReplies ==
    /\ worker = "replies" /\ WorkerMayTouch
    /\ active' = {}
    /\ worker' = "queue"
    /\ UNCHANGED <<device, queued, sent, fresh, posted, write, asked, guiVars, events, window>>

WorkerClearsQueue ==
    /\ worker = "queue" /\ WorkerMayTouch
    /\ queued' = 0
    /\ worker' = "finish"
    /\ UNCHANGED <<device, replies, write, asked, guiVars, events, window>>

\* Mutant: disconnectFinished through a blocking queued connection.
WorkerFinishesBlocking ==
    /\ worker = "finish" /\ gui = "loop"
    /\ events' = Append(events, "finished")
    /\ worker' = "idle"
    /\ UNCHANGED <<master, guiVars, asked, window>>

\* After msleep(100): disconnectFinished.
WorkerFinishes ==
    /\ worker = "finish"
    /\ events' = Append(events, "finished")
    /\ worker' = "idle"
    /\ UNCHANGED <<master, guiVars, asked, window>>

-----------------------------------------------------------------------------
(* What the worker posted, in the GUI thread                                *)

NextEvent(e) == gui = "loop" /\ events # <<>> /\ Head(events) = e

\* onDisconnectStarted shows the progress dialog, which cannot be cancelled.
HandleStarted ==
    /\ NextEvent("started")
    /\ dialog' = TRUE
    /\ events' = Tail(events)
    /\ UNCHANGED <<master, guiVars, workerVars, control, editable, timer, opened>>

\* One lambda of the posted replies; the event goes with the last of them.
HandleReply ==
    /\ NextEvent("replies")
    /\ \/ /\ posted # {}
          /\ \E s \in posted : posted' = posted \ {s} /\ active' = active \ {s}
          /\ gui' = "check"
          /\ UNCHANGED <<write, window>>
       \/ /\ write = "posted"
          /\ write' = "none"
          /\ errorOccurred
          /\ UNCHANGED <<posted, active, gui>>
       \/ /\ posted = {} /\ write # "posted"
          /\ UNCHANGED <<posted, active, write, gui, window>>
    /\ events' = IF posted' = {} /\ write' # "posted" THEN Tail(events) ELSE events
    /\ UNCHANGED <<device, queued, sent, fresh, batch, workerVars>>

\* onDisconnectFinished.
HandleFinished ==
    /\ NextEvent("finished")
    /\ dialog' = FALSE
    /\ setControlState(TRUE)
    /\ opened' = FALSE
    /\ events' = Tail(events)
    /\ UNCHANGED <<master, guiVars, workerVars>>

-----------------------------------------------------------------------------
(* Closing the window: ~ModbusWindow quits the worker thread and waits for  *)
(* it, then ~ModbusMaster disconnects.  What is posted is never delivered.  *)

CloseWindow ==
    /\ gui = "loop" /\ ~dialog
    /\ gui' = "closing"
    /\ UNCHANGED <<master, batch, workerVars, events, window>>

Closed ==
    /\ gui = "closing" /\ worker = "idle"
    /\ gui' = "closed"
    /\ device' = "none" /\ queued' = 0 /\ write' = "none"
    /\ active' = {} /\ sent' = {} /\ fresh' = {} /\ posted' = {}
    /\ asked' = 0 /\ events' = <<>>
    /\ UNCHANGED <<batch, worker, window>>

-----------------------------------------------------------------------------
UserStep ==
    \/ ClickOff \/ ClickOn \/ AutoRefresh \/ AddRow \/ CloseWindow
    \/ WriteSent \/ WriteRefused \/ WriteReconnects \/ WriteWithoutDevice

PumpStep == ReadAccepted \/ ReadRefused \/ Check \/ Send \/ SendFromEmpty \/ Register

DeviceStep == ReplyFinishes \/ WriteFinishes \/ Connected \/ ConnectionLost

WorkerStep ==
    \/ WorkerStarts \/ WorkerDisconnects \/ WorkerForgetsReplies
    \/ WorkerClearsQueue \/ WorkerFinishes

EventStep == HandleStarted \/ HandleReply \/ HandleFinished

Next == UserStep \/ Refresh \/ PumpStep \/ DeviceStep \/ WorkerStep \/ EventStep \/ Closed

Spec == Init /\ [][Next]_vars

\* A handler that has started returns, a thread is scheduled, and the event
\* loop does not pass over a posted event for ever in favour of the timer.
FairSpec ==
    /\ Spec
    /\ WF_vars(PumpStep) /\ WF_vars(WorkerStep) /\ WF_vars(Closed)
    /\ SF_vars(EventStep)

-----------------------------------------------------------------------------
(* Properties                                                               *)

TypeOK ==
    /\ device \in DeviceStates
    /\ queued \in 0..QueueMax
    /\ active \cup sent \cup fresh \cup posted \subseteq Slots
    /\ write \in {"none", "sent", "posted"}
    /\ gui \in GuiPlaces /\ batch \in 0..BatchMax
    /\ worker \in WorkerPlaces /\ asked \in 0..AskMax
    /\ events \in Seq(Posts)
    /\ {dialog, control, editable, timer, opened} \subseteq BOOLEAN

\* However the two threads interleave, processNextRequest never has more
\* than MAX_PARALLEL_REQUESTS replies in active_replies_.
AtMostMaxParallel == Cardinality(active) <= MaxParallel

\* Nothing else starts the pump: whenever the event loop is idle on a
\* connected device, waiting requests imply a reply that will pump them.
NoRequestIsStranded ==
    gui = "loop" /\ isConnected /\ queued > 0 => active \cap sent # {}

\* setupConfiguration deletes the device and its replies while neither
\* active_replies_, nor a posted lambda, nor request_queue_ still holds
\* anything of the old session.
SessionsDoNotMix ==
    [][ClickOn => active = {} /\ posted = {} /\ write = "none" /\ queued = 0]_vars

\* "确保完全断开并清理资源": when the window learns that the disconnect has
\* finished, the device is not connected, nothing is queued or in flight and
\* no lambda of the old session is still to run.
FullyDisconnected ==
    [][HandleFinished =>
        /\ device \notin {"connecting", "connected"}
        /\ active = {} /\ sent = {} /\ posted = {} /\ write = "none" /\ queued = 0]_vars

\* Nobody waits for ever: the modal dialog, which has no cancel button, goes
\* away, unless the process does, and ~ModbusWindow, which waits for the
\* worker thread, comes to its end.
WaitingEnds ==
    /\ dialog ~> (~dialog \/ gui \in Crashed)
    /\ (gui = "closing") ~> (gui = "closed")
=============================================================================
