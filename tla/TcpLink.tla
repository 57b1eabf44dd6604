------------------------------- MODULE TcpLink -------------------------------
(***************************************************************************)
(* A TCP connection: the client, a thread with an event loop and a socket  *)
(* of its own (core/tcp_client.cpp), and the window that drives it in the  *)
(* GUI thread (window/tcp_window.cpp, role Client).                        *)
(*                                                                         *)
(* The TcpClient object lives in the GUI thread: what the socket reports   *)
(* is queued to the GUI thread, and what the window wants of the socket is *)
(* posted to the socket's thread.  A chunk of a message is the session in  *)
(* which it was typed.                                                     *)
(***************************************************************************)
EXTENDS Naturals, Sequences

CONSTANTS
    MaxSessions,  \* bound: clicks that open the connection
    MaxPosted,    \* bound: sends waiting for the socket's thread
    MaxEvents     \* bound: calls queued to the GUI thread before data or sends

ASSUME BoundsAssumption == {MaxSessions, MaxPosted, MaxEvents} \subseteq Nat \ {0}

VARIABLES
    opened,    \* opened_
    checked,   \* on_off_btn_ is checked
    controls,  \* setControlState: never called yet, settings locked or free
    ticking,   \* send_package_timer_ is active
    queue,     \* msg_queue_
    packaged,  \* package_size_ > 0
    session,   \* how often the connection was opened
    thread,    \* "idle" unless isRunning()
    quitNow,   \* quit() was called since the thread was started
    socket,    \* *socket_, or "none" for a null pointer
    toSocket,  \* calls posted to socket_
    toGui,     \* calls queued to the TcpClient and the window
    crashed,   \* a null socket_ was used
    careless   \* what the user has done so far that the window does not expect

window == <<opened, checked, controls, ticking, queue>>
worker == <<thread, quitNow, socket, toSocket>>
vars == <<window, packaged, session, worker, toGui, crashed, careless>>

Init ==
    /\ opened = FALSE /\ checked = FALSE /\ ticking = FALSE
    /\ controls = "fresh"
    /\ queue = <<>>
    /\ packaged \in BOOLEAN
    /\ session = 0
    /\ thread = "idle" /\ quitNow = FALSE
    /\ socket = "none" /\ toSocket = <<>> /\ toGui = <<>>
    /\ crashed = FALSE
    /\ careless = {}

-----------------------------------------------------------------------------
(* What the user and the timers do *)

\* The call that makes the socket's thread abort and delete its socket; the
\* other calls write a chunk.
Abort == 0

\* What is typed before the first session is meant for it.
Current == IF session = 0 THEN 1 ELSE session

Events == {toGui[i] : i \in DOMAIN toGui}

\* Nothing is under way that will change what the window shows.
Settled ==
    /\ Events \subseteq {"readyRead"}
    /\ \/ thread = "idle"
       \/ /\ thread = "running" /\ ~quitNow /\ socket = "connected"
          /\ \A i \in DOMAIN toSocket : toSocket[i] # Abort

\* An orderly user waits for one click to take effect before the next one.
Click(also) ==
    careless' = careless \cup also \cup (IF Settled THEN {} ELSE {"impatient"})

\* The button is pressed on a closed window.  Whatever connectToServer found,
\* the window is open afterwards; an error it reports has cleared the queue.
ClickOn ==
    /\ ~opened
    /\ session < MaxSessions
    /\ session' = session + 1
    /\ opened' = TRUE /\ checked' = TRUE /\ ticking' = TRUE
    /\ controls' = "locked"
    /\ \/ /\ thread = "idle"
          /\ thread' = "starting"
          /\ Click({})
          /\ UNCHANGED queue
       \/ /\ thread # "idle"   \* the client is still running
          /\ queue' = <<>>
          /\ Click({})
          /\ UNCHANGED thread
       \/ /\ queue' = <<>>     \* an invalid address or port, or one in use
          /\ Click({"invalid"})
          /\ UNCHANGED thread
    /\ UNCHANGED <<packaged, quitNow, socket, toSocket, toGui, crashed>>

Post(calls) == toSocket' = IF socket = "none" THEN toSocket ELSE toSocket \o calls

\* The button is pressed on an open window.
ClickOff ==
    /\ opened
    /\ opened' = FALSE /\ checked' = FALSE /\ ticking' = FALSE
    /\ controls' = "free"
    /\ queue' = <<>>
    /\ Post(<<Abort>>)
    /\ Click({})
    /\ UNCHANGED <<packaged, session, thread, quitNow, socket, toGui, crashed>>

\* The package size is edited.
sendPackageMaxSizeChanged ==
    /\ controls # "locked"
    /\ packaged' = ~packaged
    /\ UNCHANGED <<window, session, worker, toGui, crashed, careless>>

\* An orderly user does not send before the connection is established.
Send(chunks) ==
    /\ Post(chunks)
    /\ careless' = careless \cup
           (IF thread = "starting" \/ socket = "connecting" THEN {"early"} ELSE {})
    /\ UNCHANGED <<thread, quitNow, socket>>

HasRoom == Len(toSocket) < MaxPosted /\ Len(toGui) < MaxEvents

\* The send button; a message is one chunk, or two when it is cut up.  Bound:
\* a message is only cut up when the one before it has been taken up.
sendMessage ==
    /\ controls # "free"
    /\ HasRoom
    /\ \/ /\ packaged
          /\ queue = <<>>
          /\ queue' = <<Current, Current>>
          /\ UNCHANGED <<worker, careless>>
       \/ /\ ~packaged /\ opened
          /\ Send(<<Current>>)
          /\ UNCHANGED queue
    /\ UNCHANGED <<opened, checked, controls, ticking, packaged, session, toGui, crashed>>

\* Sent at once, cut up or not.
sendPackagedData ==
    /\ opened
    /\ HasRoom
    /\ Send(IF packaged THEN <<Current, Current>> ELSE <<Current>>)
    /\ UNCHANGED <<window, packaged, session, toGui, crashed>>

\* heartbeat_timer_ sends what there is to send; with an interval it is started
\* and stopped together with send_package_timer_.
setHeartbeartContent == ticking /\ sendPackagedData

\* The delay of a row of the instruction table is over, one clicked in an
\* earlier session included.
sendInstructionTableContent == sendPackagedData

\* send_package_timer_ takes up one chunk.
sendPackageTimeout ==
    /\ ticking
    /\ queue # <<>>
    /\ \/ ~opened /\ queue' = <<>> /\ UNCHANGED <<worker, careless>>
       \/ opened /\ queue' = Tail(queue) /\ Send(<<Head(queue)>>)
    /\ UNCHANGED <<opened, checked, controls, ticking, packaged, session, toGui, crashed>>

-----------------------------------------------------------------------------
(* The thread of the socket *)

\* run(): the socket is created and told to connect.
runStarts ==
    /\ thread = "starting"
    /\ thread' = "running"
    /\ socket' = "connecting"
    /\ UNCHANGED <<window, packaged, session, quitNow, toSocket, toGui, crashed, careless>>

\* The state of the socket changes, and it emits signals.
Reports(from, to, signals) ==
    /\ socket = from
    /\ socket' = to
    /\ toGui' = toGui \o signals
    /\ UNCHANGED <<window, packaged, session, thread, quitNow, toSocket, crashed, careless>>

Connects == Reports("connecting", "connected", <<"connected">>)
ConnectFails == Reports("connecting", "unconnected", <<"error">>)
PeerCloses == Reports("connected", "unconnected", <<"error", "disconnected">>)
DataArrives == Len(toGui) < MaxEvents /\ Reports("connected", "connected", <<"readyRead">>)

\* A connected socket says so when it is aborted or deleted.
DeleteSocket ==
    /\ socket' = "none"
    /\ toSocket' = <<>>
    /\ toGui' = IF socket = "connected" THEN Append(toGui, "disconnected") ELSE toGui

\* The event loop takes up a posted call; calls to a deleted socket are lost.
PostedCall ==
    /\ thread = "running"
    /\ toSocket # <<>>
    /\ IF Head(toSocket) = Abort
       THEN DeleteSocket
       ELSE /\ toSocket' = Tail(toSocket)
            /\ toGui' = IF socket = "connected" THEN toGui ELSE Append(toGui, "refused")
            /\ UNCHANGED socket
    /\ UNCHANGED <<window, packaged, session, thread, quitNow, crashed, careless>>

\* exec() returns, and run() deletes the socket if it is still there.
execReturns ==
    /\ thread = "running" /\ quitNow
    /\ thread' = "ending"
    /\ DeleteSocket
    /\ UNCHANGED <<window, packaged, session, quitNow, crashed, careless>>

runEnds ==
    /\ thread = "ending"
    /\ thread' = "idle"
    /\ quitNow' = FALSE
    /\ UNCHANGED <<window, packaged, session, socket, toSocket, toGui, crashed, careless>>

-----------------------------------------------------------------------------
(* The slots, called in the GUI thread *)

quit == quitNow' = (thread # "idle")

\* Wrong: what waits in msg_queue_ stays there.
errorOccurredKeeping ==
    /\ opened' = FALSE /\ checked' = FALSE /\ ticking' = FALSE
    /\ controls' = "free"
    /\ UNCHANGED queue

\* The window's slot for an error.
errorOccurred ==
    /\ opened' = FALSE /\ checked' = FALSE /\ ticking' = FALSE
    /\ controls' = "free"
    /\ queue' = <<>>

onSocketConnected ==
    /\ opened' = TRUE
    /\ UNCHANGED <<checked, controls, ticking, queue, quitNow, crashed>>

onSocketDisconnected ==
    /\ opened' = FALSE
    /\ quit
    /\ UNCHANGED <<checked, controls, ticking, queue, crashed>>

\* Reads from socket_.
onSocketReadyRead ==
    /\ crashed' = (socket = "none")
    /\ UNCHANGED <<window, quitNow>>

\* Wrong: the event loop is not left.
onSocketErrorStaying ==
    \/ /\ socket = "none"
       /\ crashed' = TRUE
       /\ UNCHANGED <<window, quitNow>>
    \/ /\ socket # "none"
       /\ errorOccurred
       /\ UNCHANGED <<quitNow, crashed>>

\* Asks socket_ for the text of the error.
onSocketError ==
    \/ /\ socket = "none"
       /\ crashed' = TRUE
       /\ UNCHANGED <<window, quitNow>>
    \/ /\ socket # "none"
       /\ errorOccurred
       /\ quit
       /\ UNCHANGED crashed

\* The GUI thread takes up a queued call.
QueuedCall ==
    /\ toGui # <<>>
    /\ toGui' = Tail(toGui)
    /\ \/ Head(toGui) = "connected" /\ onSocketConnected
       \/ Head(toGui) = "disconnected" /\ onSocketDisconnected
       \/ Head(toGui) = "readyRead" /\ onSocketReadyRead
       \/ Head(toGui) = "error" /\ onSocketError
       \/ Head(toGui) = "refused" /\ errorOccurred /\ UNCHANGED <<quitNow, crashed>>
    /\ UNCHANGED <<packaged, session, thread, socket, toSocket, careless>>

-----------------------------------------------------------------------------
GuiStep ==
    \/ ClickOn \/ ClickOff \/ sendPackageMaxSizeChanged
    \/ sendMessage \/ setHeartbeartContent \/ sendInstructionTableContent
    \/ sendPackageTimeout
    \/ QueuedCall

SocketStep ==
    \/ runStarts
    \/ Connects \/ ConnectFails \/ PeerCloses \/ DataArrives
    \/ PostedCall
    \/ execReturns \/ runEnds

Next == ~crashed /\ (GuiStep \/ SocketStep)

Spec == Init /\ [][Next]_vars

\* Both threads run and take up their calls, the timer fires, and an attempt
\* to connect is answered or times out.
Fairness ==
    /\ WF_vars(~crashed /\ QueuedCall)
    /\ WF_vars(~crashed /\ sendPackageTimeout)
    /\ WF_vars(~crashed /\ (runStarts \/ execReturns \/ runEnds))
    /\ WF_vars(~crashed /\ PostedCall)
    /\ WF_vars(~crashed /\ (Connects \/ ConnectFails))

FairSpec == Spec /\ Fairness

-----------------------------------------------------------------------------
Signals == {"connected", "disconnected", "readyRead", "error", "refused"}

Chunks == 1 .. MaxSessions
Calls == Chunks \cup {Abort}

\* Types; the socket exists only in a thread that runs, and calls wait only
\* for a socket.
TypeOK ==
    /\ opened \in BOOLEAN /\ checked \in BOOLEAN /\ ticking \in BOOLEAN
    /\ packaged \in BOOLEAN /\ quitNow \in BOOLEAN /\ crashed \in BOOLEAN
    /\ controls \in {"fresh", "locked", "free"}
    /\ session \in 0 .. MaxSessions
    /\ queue \in Seq(Chunks) /\ Len(queue) <= 2
    /\ thread \in {"idle", "starting", "running", "ending"}
    /\ socket \in {"none", "unconnected", "connecting", "connected"}
    /\ toSocket \in Seq(Calls)
    /\ toGui \in Seq(Signals)
    /\ careless \subseteq {"invalid", "impatient", "early"}
    /\ socket # "none" => thread = "running"
    /\ toSocket # <<>> => socket # "none"

\* What was typed for one session is never sent in a later one: every way a
\* session ends empties msg_queue_, and the calls that wait at its socket are
\* lost with it.  Only for a user who lets one session end before the next.
SentInItsSession ==
    /\ TypeOK
    /\ "impatient" \notin careless =>
        /\ \A i \in DOMAIN queue : queue[i] = Current
        /\ \A i \in DOMAIN toSocket : toSocket[i] \in {Abort, Current}

\* No call waits for either thread and no attempt is being made.
Quiet ==
    /\ toGui = <<>> /\ toSocket = <<>>
    /\ thread \in {"idle", "running"} /\ ~quitNow
    /\ socket # "connecting"

\* When everything has come to rest, the button, the controls, the timer and
\* opened_ show what there is: a connection, or no thread, so that the next
\* click can connect again.
RestShowsTheTruth ==
    Quiet /\ ~crashed /\ careless = {} =>
        /\ opened = (socket = "connected")
        /\ opened = (thread = "running")
        /\ checked = opened /\ ticking = opened
        /\ (controls = "locked") = opened

\* A closed connection lets go of its thread, however it was closed.
ClosingEnds == ~opened /\ careless = {} ~> thread = "idle" \/ careless # {} \/ crashed

\* tcp_client.cpp:270: "有关 socket 的操作都需要在 run 方法中运行", whatever
\* has to do with the socket must run in run(): so no slot of the GUI thread
\* ever finds the socket deleted, whatever an orderly user does.
SocketIsThere == careless = {} => ~crashed
=============================================================================
