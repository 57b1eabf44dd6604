---------------------------- MODULE TcpServerPool ----------------------------
(***************************************************************************)
(* A TCP server: TcpServer, which listens in the GUI thread, one           *)
(* SocketTask per client in a thread of QThreadPool (core/tcp_server.cpp), *)
(* and the window that starts and stops it (window/tcp_window.cpp, role    *)
(* Server).                                                                *)
(*                                                                         *)
(* A SocketTask belongs to the GUI thread, where it was created, and its   *)
(* socket to the pool's thread: the slots of the task run in the GUI       *)
(* thread, as calls queued to it that do nothing once the pool has deleted *)
(* the task.  A deleteLater of the socket waits for the pool's thread.     *)
(***************************************************************************)
EXTENDS Naturals, Sequences, FiniteSets, SequencesExt

CONSTANTS
    Clients,     \* the connections clients make
    MaxThreads,  \* maxThreadCount of the pool
    MaxStarts,   \* bound: clicks that start the server
    MaxCalls     \* bound: calls waiting for a thread before data or sends

VARIABLES
    opened,           \* opened_ of the window
    starts,           \* how often the server was started
    listening,        \* isListening()
    gui,              \* the GUI thread: in its event loop, or in stopServer
    stopping,         \* the clients stopServer has yet to look at
    waitsFor,         \* the client whose waitForDisconnected comes next
    client_sockets_,
    waiting,          \* tasks in the queue of the pool
    task,             \* where the SocketTask of a client is
    socket,           \* the socket of a client
    toPool,           \* calls posted to the thread of a client
    toGui,            \* calls queued to the GUI thread
    crashed,          \* what used an object that is not there, or "no"
    hungUp,           \* clients that disconnected by themselves
    late              \* clients accepted but not registered at a stop

server == <<opened, starts, listening, gui, stopping, waitsFor, client_sockets_>>
pool == <<waiting, task, socket, toPool>>
vars == <<server, pool, toGui, crashed, hungUp, late>>

Init ==
    /\ opened = FALSE /\ starts = 0 /\ listening = FALSE
    /\ gui = "loop" /\ stopping = <<>> /\ waitsFor = {}
    /\ client_sockets_ = <<>>
    /\ waiting = <<>>
    /\ task = [c \in Clients |-> "none"]
    /\ socket = [c \in Clients |-> "none"]
    /\ toPool = [c \in Clients |-> <<>>]
    /\ toGui = <<>>
    /\ crashed = "no"
    /\ hungUp = {} /\ late = {}

Create(c) == [call |-> "create", client |-> c]
Read(c) == [call |-> "read", client |-> c]
DeleteLater(c) == [call |-> "deleteLater", client |-> c]

\* The threads of the pool that are taken.
Busy == {c \in Clients : task[c] \in {"starting", "running", "quitting"}}

Queued(call) == \E i \in DOMAIN toGui : toGui[i] = call

-----------------------------------------------------------------------------
(* The GUI thread *)

\* The button is pressed on a closed window, which is open afterwards.  If
\* listen failed, the slot for the error has used the settings of a client,
\* which a server does not have.
ClickOn ==
    /\ gui = "loop" /\ ~opened
    /\ starts < MaxStarts
    /\ starts' = starts + 1
    /\ opened' = TRUE
    /\ \/ listening' = TRUE /\ UNCHANGED crashed
       \/ listening' = FALSE /\ crashed' = "refused"
    /\ UNCHANGED <<gui, stopping, waitsFor, client_sockets_, pool, toGui, hungUp, late>>

\* Accepted, and not in client_sockets_ yet.
OnTheirWay == {c \in Clients : task[c] \in {"waiting", "starting"} \/ Queued(Create(c))}

\* The button is pressed on an open window: stopServer stops listening and
\* goes through its clients.
ClickOff ==
    /\ gui = "loop" /\ opened
    /\ opened' = FALSE
    /\ listening' = FALSE
    /\ gui' = "stopping"
    /\ stopping' = client_sockets_
    /\ late' = late \cup OnTheirWay
    /\ UNCHANGED <<starts, waitsFor, client_sockets_, pool, toGui, crashed, hungUp>>

\* The socket reports its end in the GUI thread: it is to be deleted by its
\* own thread, whose event loop is then asked to quit.
DisconnectedHere(c) ==
    /\ socket' = [socket EXCEPT ![c] = "unconnected"]
    /\ toPool' = [toPool EXCEPT ![c] = @ \o <<"delete", "quit">>]

\* Wrong: the client is only forgotten.
disconnectFromHostNot(c) ==
    /\ waitsFor' = {}
    /\ UNCHANGED <<socket, toPool>>

\* disconnectFromHost ends the connection at once, or has data to write first.
disconnectFromHost(c) ==
    /\ waitsFor' = {c}
    /\ \/ DisconnectedHere(c)
       \/ socket' = [socket EXCEPT ![c] = "closing"] /\ UNCHANGED toPool

\* stopServer looks at the next client, and disconnects it if it is connected.
StopNext ==
    /\ gui = "stopping" /\ stopping # <<>> /\ waitsFor = {}
    /\ stopping' = Tail(stopping)
    /\ LET c == Head(stopping) IN
       \/ /\ socket[c] = "deleted"
          /\ crashed' = "stop"
          /\ UNCHANGED <<waitsFor, socket, toPool>>
       \/ /\ socket[c] = "connected"
          /\ disconnectFromHost(c)
          /\ UNCHANGED crashed
       \/ /\ socket[c] \in {"closing", "unconnected"}
          /\ UNCHANGED <<waitsFor, socket, toPool, crashed>>
    /\ UNCHANGED <<opened, starts, listening, gui, client_sockets_, waiting, task,
                   toGui, hungUp, late>>

\* What is to be written goes, or not within a second.
waitForDisconnected ==
    /\ \E c \in waitsFor :
       \/ /\ socket[c] = "deleted"
          /\ crashed' = "stop"
          /\ UNCHANGED <<socket, toPool>>
       \/ /\ socket[c] = "closing"
          /\ DisconnectedHere(c) \/ UNCHANGED <<socket, toPool>>
          /\ UNCHANGED crashed
       \/ /\ socket[c] = "unconnected"
          /\ UNCHANGED <<socket, toPool, crashed>>
    /\ waitsFor' = {}
    /\ UNCHANGED <<opened, starts, listening, gui, stopping, client_sockets_, waiting,
                   task, toGui, hungUp, late>>

\* Wrong: stopServer leaves the list as it is.
StopEndsKeeping ==
    /\ gui = "stopping" /\ stopping = <<>> /\ waitsFor = {}
    /\ gui' = "loop"
    /\ UNCHANGED <<opened, starts, listening, stopping, waitsFor, client_sockets_, pool,
                   toGui, crashed, hungUp, late>>

StopEnds ==
    /\ gui = "stopping" /\ stopping = <<>> /\ waitsFor = {}
    /\ gui' = "loop"
    /\ client_sockets_' = <<>>
    /\ UNCHANGED <<opened, starts, listening, stopping, waitsFor, pool, toGui,
                   crashed, hungUp, late>>

Registered == ToSet(client_sockets_)

\* A message, a heartbeat or an instruction goes to every client in the list:
\* a write is posted to the thread of each that is connected.
sendMessageToClients ==
    /\ gui = "loop" /\ opened
    /\ Registered # {}
    /\ \A c \in Registered : Len(toPool[c]) < MaxCalls
    /\ IF \E c \in Registered : socket[c] = "deleted"
       THEN crashed' = "send" /\ UNCHANGED toPool
       ELSE /\ toPool' = [c \in Clients |->
                   IF c \in Registered /\ socket[c] = "connected"
                   THEN Append(toPool[c], "write") ELSE toPool[c]]
            /\ UNCHANGED crashed
    /\ UNCHANGED <<server, waiting, task, socket, toGui, hungUp, late>>

\* A client has connected; its task is started, or waits for a thread.
incomingConnection(c) ==
    /\ gui = "loop" /\ listening
    /\ task[c] = "none"
    /\ IF Cardinality(Busy) < MaxThreads
       THEN task' = [task EXCEPT ![c] = "starting"] /\ UNCHANGED waiting
       ELSE task' = [task EXCEPT ![c] = "waiting"] /\ waiting' = Append(waiting, c)
    /\ UNCHANGED <<server, socket, toPool, toGui, crashed, hungUp, late>>

\* The GUI thread takes up a queued call: the socket is registered, or read,
\* or told to be deleted.  The last two are slots of the task, and are dropped
\* with it.
QueuedCall ==
    /\ gui = "loop" /\ toGui # <<>>
    /\ toGui' = Tail(toGui)
    /\ LET c == Head(toGui).client IN
       \/ /\ Head(toGui).call = "create"
          /\ client_sockets_' = Append(client_sockets_, c)
          /\ UNCHANGED <<toPool, crashed>>
       \/ /\ Head(toGui).call # "create" /\ task[c] = "done"
          /\ UNCHANGED <<client_sockets_, toPool, crashed>>
       \/ /\ Head(toGui).call = "read" /\ task[c] # "done"
          /\ crashed' = IF socket[c] = "deleted" THEN "read" ELSE crashed
          /\ UNCHANGED <<client_sockets_, toPool>>
       \/ /\ Head(toGui).call = "deleteLater" /\ task[c] # "done"
          /\ toPool' = [toPool EXCEPT ![c] = Append(@, "delete")]
          /\ UNCHANGED <<client_sockets_, crashed>>
    /\ UNCHANGED <<opened, starts, listening, gui, stopping, waitsFor, waiting, task,
                   socket, hungUp, late>>

-----------------------------------------------------------------------------
(* The threads of the pool *)

\* The task of c is over and the pool deletes it; its thread takes the next
\* task.
Over(c) ==
    /\ LET others == IF waiting = <<>> THEN {} ELSE {Head(waiting)} IN
       /\ task' = [d \in Clients |->
              IF d = c THEN "done" ELSE IF d \in others THEN "starting" ELSE task[d]]
       /\ waiting' = IF waiting = <<>> THEN <<>> ELSE Tail(waiting)

\* run(): the socket takes the connection over; if it cannot, it is deleted.
run(c) ==
    /\ task[c] = "starting"
    /\ \/ /\ socket' = [socket EXCEPT ![c] = "connected"]
          /\ task' = [task EXCEPT ![c] = "running"]
          /\ toGui' = Append(toGui, Create(c))
          /\ UNCHANGED waiting
       \/ /\ socket' = [socket EXCEPT ![c] = "deleted"]
          /\ Over(c)
          /\ UNCHANGED toGui
    /\ UNCHANGED <<server, toPool, crashed, hungUp, late>>

DataArrives(c) ==
    /\ task[c] = "running" /\ socket[c] = "connected"
    /\ Len(toGui) < MaxCalls
    /\ toGui' = Append(toGui, Read(c))
    /\ UNCHANGED <<server, pool, crashed, hungUp, late>>

\* Wrong: the event loop is not told.
DisconnectsUnnoticed(c) ==
    /\ task[c] = "running" /\ socket[c] \in {"connected", "closing"}
    /\ socket' = [socket EXCEPT ![c] = "unconnected"]
    /\ toGui' = Append(toGui, DeleteLater(c))
    /\ hungUp' = IF socket[c] = "connected" THEN hungUp \cup {c} ELSE hungUp
    /\ UNCHANGED <<server, task, waiting, toPool, crashed, late>>

\* The client hangs up, or the last data was written to one being closed: the
\* event loop quits, and the slot of the task is queued to the GUI thread.
Disconnects(c) ==
    /\ task[c] = "running" /\ socket[c] \in {"connected", "closing"}
    /\ socket' = [socket EXCEPT ![c] = "unconnected"]
    /\ task' = [task EXCEPT ![c] = "quitting"]
    /\ toGui' = Append(toGui, DeleteLater(c))
    /\ hungUp' = IF socket[c] = "connected" THEN hungUp \cup {c} ELSE hungUp
    /\ UNCHANGED <<server, waiting, toPool, crashed, late>>

\* The event loop of c takes up a posted call; with the socket go the writes
\* and deletions posted to it, but not the call to the loop itself.
PostedCall(c) ==
    /\ task[c] = "running" /\ toPool[c] # <<>>
    /\ toPool' = [toPool EXCEPT ![c] =
           IF Head(@) # "delete" THEN Tail(@)
           ELSE IF "quit" \in ToSet(@) THEN <<"quit">> ELSE <<>>]
    /\ socket' = IF Head(toPool[c]) = "delete" THEN [socket EXCEPT ![c] = "deleted"] ELSE socket
    /\ task' = IF Head(toPool[c]) = "quit" THEN [task EXCEPT ![c] = "quitting"] ELSE task
    /\ UNCHANGED <<server, waiting, toGui, crashed, hungUp, late>>

\* run() returns.
runEnds(c) ==
    /\ task[c] = "quitting"
    /\ Over(c)
    /\ UNCHANGED <<server, socket, toPool, toGui, crashed, hungUp, late>>

\* A thread deletes what its last task has left, in its next event loop or
\* when it ends.
Collected(c) ==
    /\ task[c] = "done"
    /\ "delete" \in ToSet(toPool[c])
    /\ socket' = [socket EXCEPT ![c] = "deleted"]
    /\ toPool' = [toPool EXCEPT ![c] = <<>>]
    /\ UNCHANGED <<server, waiting, task, toGui, crashed, hungUp, late>>

-----------------------------------------------------------------------------
GuiStep ==
    \/ ClickOn \/ ClickOff
    \/ StopNext \/ waitForDisconnected \/ StopEnds
    \/ sendMessageToClients \/ QueuedCall
    \/ \E c \in Clients : incomingConnection(c)

PoolStep ==
    \E c \in Clients :
        \/ run(c) \/ DataArrives(c) \/ Disconnects(c)
        \/ PostedCall(c) \/ runEnds(c) \/ Collected(c)

Next == crashed = "no" /\ (GuiStep \/ PoolStep)

Spec == Init /\ [][Next]_vars

\* The threads run: posted calls are taken up, and stopServer goes on.
Fairness ==
    /\ WF_vars(crashed = "no" /\ QueuedCall)
    /\ WF_vars(crashed = "no" /\ (StopNext \/ waitForDisconnected \/ StopEnds))
    /\ \A c \in Clients :
           /\ WF_vars(crashed = "no" /\ run(c))
           /\ WF_vars(crashed = "no" /\ PostedCall(c))
           /\ WF_vars(crashed = "no" /\ runEnds(c))

FairSpec == Spec /\ Fairness

-----------------------------------------------------------------------------
(* Properties *)

\* Types; the pool keeps to its threads, and lets none idle while tasks wait.
TypeOK ==
    /\ opened \in BOOLEAN /\ listening \in BOOLEAN /\ starts \in 0 .. MaxStarts
    /\ gui \in {"loop", "stopping"}
    /\ stopping \in Seq(Clients) /\ client_sockets_ \in Seq(Clients) /\ waiting \in Seq(Clients)
    /\ waitsFor \subseteq Clients /\ hungUp \subseteq Clients /\ late \subseteq Clients
    /\ task \in [Clients -> {"none", "waiting", "starting", "running", "quitting", "done"}]
    /\ socket \in [Clients -> {"none", "connected", "closing", "unconnected", "deleted"}]
    /\ toPool \in [Clients -> Seq({"write", "delete", "quit"})]
    /\ toGui \in Seq([call : {"create", "read", "deleteLater"}, client : Clients])
    /\ crashed \in {"no", "refused", "stop", "send", "read"}
    /\ Cardinality(Busy) <= MaxThreads
    /\ waiting # <<>> => Cardinality(Busy) = MaxThreads

\* Nobody has to do anything for the server any more.
Quiet ==
    /\ gui = "loop" /\ toGui = <<>>
    /\ \A c \in Clients : toPool[c] = <<>> /\ task[c] \notin {"starting", "quitting"}

\* Once a stopped server has come to rest it serves nobody, and has given its
\* threads back, but for a client whose last data could not be written in time
\* and for clients that were still on their way at a stop: the tasks that wait
\* for a thread are not cancelled, and their sockets are registered later.
StoppedServesNobody ==
    /\ TypeOK
    /\ crashed = "no" /\ Quiet /\ ~listening =>
        \A c \in Clients \ late : task[c] \in {"none", "done"} \/ socket[c] = "closing"

\* A message never goes to a socket that was deleted, however often the server
\* is stopped and started: unless a client has hung up, which nobody takes out
\* of client_sockets_.
SendsFindTheirSockets == crashed = "send" => hungUp # {}

\* The thread of a client that is gone comes free, for the next one that waits.
ThreadsComeFree ==
    \A c \in Clients :
        task[c] = "running" /\ socket[c] \in {"unconnected", "deleted"}
            ~> task[c] = "done" \/ crashed # "no"
=============================================================================
