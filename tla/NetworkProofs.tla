----------------------------- MODULE NetworkProofs -----------------------------
(***************************************************************************)
(* NetworkWindows, proved for any clients, threads, sessions, starts and   *)
(* signals.  Of a TCP client: nothing typed for one session is sent in     *)
(* another, and when both threads have come to rest the window shows what  *)
(* there is.  The TCP server keeps to its threads, serves nobody once it   *)
(* was stopped, and sends to no socket that is gone; UDP and MQTT windows  *)
(* show the link they have; and what holds of each kind of link holds of a *)
(* window of any kind.                                                     *)
(***************************************************************************)
EXTENDS NetworkWindows, SequenceTheorems, FiniteSetTheorems, TLAPS

-----------------------------------------------------------------------------
(* The order of calls in a queue *)

Has(s, e) == \E i \in 1..Len(s) : s[i] = e

\* Each b has an a before it.
Preceded(s, a, b) ==
    \A i \in 1..Len(s) : s[i] = b => \E j \in 1..Len(s) : j < i /\ s[j] = a

\* Each a has a b after it.
Followed(s, a, b) ==
    \A i \in 1..Len(s) : s[i] = a => \E j \in 1..Len(s) : i < j /\ s[j] = b

\* No a has a b after it.
Never(s, a, b) ==
    \A i, j \in 1..Len(s) : i < j /\ s[i] = a => s[j] # b

LEMMA EmptyQueue ==
    ASSUME NEW a, NEW b
    PROVE  /\ ~Has(<<>>, a)
           /\ Preceded(<<>>, a, b) /\ Followed(<<>>, a, b) /\ Never(<<>>, a, b)
  BY DEF Has, Preceded, Followed, Never

LEMMA QueueAppend ==
    ASSUME NEW S, NEW s \in Seq(S), NEW x \in S, NEW a, NEW b, a # b
    PROVE  /\ Has(Append(s, x), a) <=> Has(s, a) \/ x = a
           /\ Preceded(s, a, b) /\ (x # b \/ Has(s, a)) => Preceded(Append(s, x), a, b)
           /\ Followed(s, a, b) /\ x # a => Followed(Append(s, x), a, b)
           /\ x = b => Followed(Append(s, x), a, b)
           /\ Never(s, a, b) /\ (x # b \/ ~Has(s, a)) => Never(Append(s, x), a, b)
<1> DEFINE t == Append(s, x)
           n == Len(s)
<1>1. n \in Nat /\ Len(t) = n + 1 /\ t[n + 1] = x /\ \A i \in 1..n : t[i] = s[i]
  OBVIOUS
<1> HIDE DEF t, n
<1>2. \A i : i \in 1..(n + 1) <=> i \in 1..n \/ i = n + 1
  BY <1>1
<1>3. \A e : Has(s, e) <=> \E i \in 1..n : s[i] = e
  BY DEF Has, n
<1>4. Has(t, a) <=> Has(s, a) \/ x = a
  BY <1>1, <1>2, <1>3 DEF Has
<1>5. Preceded(s, a, b) /\ (x # b \/ Has(s, a)) => Preceded(t, a, b)
  BY <1>1, <1>2, <1>3 DEF Preceded, n
<1>6. Followed(s, a, b) /\ x # a => Followed(t, a, b)
  BY <1>1, <1>2 DEF Followed, n
<1>8. x = b => Followed(t, a, b)
  BY <1>1, <1>2 DEF Followed, n
<1>7. Never(s, a, b) /\ (x # b \/ ~Has(s, a)) => Never(t, a, b)
  BY <1>1, <1>2, <1>3 DEF Never, n
<1> QED
  BY <1>4, <1>5, <1>6, <1>7, <1>8 DEF t

\* What taking up a call does to the order of the others.
LEMMA QueueTail ==
    ASSUME NEW S, NEW s \in Seq(S), s # <<>>, NEW a, NEW b, a # b
    PROVE  /\ Tail(s) \in Seq(S) /\ Head(s) \in S
           /\ Has(s, a) <=> Head(s) = a \/ Has(Tail(s), a)
           /\ Preceded(s, a, b) /\ Head(s) # a => Preceded(Tail(s), a, b)
           /\ Preceded(s, a, b) => Head(s) # b
           /\ Followed(s, a, b) => Followed(Tail(s), a, b)
           /\ Followed(s, a, b) /\ Head(s) = a => Has(Tail(s), b)
           /\ Never(s, a, b) => Never(Tail(s), a, b)
           /\ Never(s, a, b) /\ Head(s) = a => ~Has(Tail(s), b)
<1> DEFINE t == Tail(s)
           n == Len(s)
<1>1. /\ n \in Nat \ {0} /\ Len(t) = n - 1
      /\ \A i \in 1..(n - 1) : t[i] = s[i + 1]
      /\ Head(s) = s[1] /\ t \in Seq(S) /\ s[1] \in S
  BY EmptySeq
<1> HIDE DEF t, n
<1>2. \A i \in 1..n : i = 1 \/ (i - 1 \in 1..(n - 1) /\ t[i - 1] = s[i])
  BY <1>1
<1>3. \A i \in 1..(n - 1) : i + 1 \in 1..n /\ t[i] = s[i + 1] /\ 1 < i + 1
  BY <1>1
<1>4. 1 \in 1..n /\ n \in Nat
  BY <1>1
<1>5. Has(s, a) <=> Head(s) = a \/ Has(t, a)
  BY <1>1, <1>2, <1>3, <1>4 DEF Has, n
<1>6. Preceded(s, a, b) /\ Head(s) # a => Preceded(t, a, b)
  <2> SUFFICES ASSUME Preceded(s, a, b), Head(s) # a,
                      NEW i \in 1..(n - 1), t[i] = b
               PROVE  \E j \in 1..(n - 1) : j < i /\ t[j] = a
    BY <1>1 DEF Preceded
  <2> PICK j \in 1..n : j < i + 1 /\ s[j] = a
    BY <1>3 DEF Preceded, n
  <2>1. j # 1
    BY <1>1
  <2> QED
    BY <2>1, <1>2, <1>4
<1>7. Preceded(s, a, b) => Head(s) # b
  BY <1>1, <1>4 DEF Preceded, n
<1>8. Followed(s, a, b) => Followed(t, a, b)
  <2> SUFFICES ASSUME Followed(s, a, b), NEW i \in 1..(n - 1), t[i] = a
               PROVE  \E j \in 1..(n - 1) : i < j /\ t[j] = b
    BY <1>1 DEF Followed
  <2> PICK j \in 1..n : i + 1 < j /\ s[j] = b
    BY <1>3 DEF Followed, n
  <2> QED
    BY <1>2, <1>4
<1>9. Followed(s, a, b) /\ Head(s) = a => Has(t, b)
  <2> SUFFICES ASSUME Followed(s, a, b), Head(s) = a
               PROVE  \E j \in 1..(n - 1) : t[j] = b
    BY <1>1 DEF Has
  <2> PICK j \in 1..n : 1 < j /\ s[j] = b
    BY <1>1, <1>4 DEF Followed, n
  <2> QED
    BY <1>2, <1>4
<1>10. Never(s, a, b) => Never(t, a, b)
  <2> SUFFICES ASSUME Never(s, a, b),
                      NEW i \in 1..(n - 1), NEW j \in 1..(n - 1), i < j, t[i] = a
               PROVE  t[j] # b
    BY <1>1 DEF Never
  <2>1. i + 1 < j + 1
    BY <1>4
  <2> QED
    BY <1>3, <2>1 DEF Never, n
<1>11. Never(s, a, b) /\ Head(s) = a => ~Has(t, b)
  BY <1>1, <1>3, <1>4 DEF Never, Has, n
<1> QED
  BY <1>1, <1>5, <1>6, <1>7, <1>8, <1>9, <1>10, <1>11 DEF t

\* A queue has what was in it and what was added, its head and what its tail has.
LEMMA QueueHas ==
    ASSUME NEW S, NEW s \in Seq(S), NEW x \in S, NEW e
    PROVE  /\ Has(Append(s, x), e) <=> Has(s, e) \/ x = e
           /\ s # <<>> => (Has(s, e) <=> Head(s) = e \/ Has(Tail(s), e))
<1>1. \E f : f # e
  <2>1. CASE e = {}
    BY <2>1, {{}} # {}
  <2>2. CASE e # {}
    BY <2>2
  <2> QED
    BY <2>1, <2>2
<1> PICK f : f # e
  BY <1>1
<1>2. Has(Append(s, x), e) <=> Has(s, e) \/ x = e
  BY QueueAppend
<1>3. s # <<>> => (Has(s, e) <=> Head(s) = e \/ Has(Tail(s), e))
  BY QueueTail
<1> QED
  BY <1>2, <1>3

-----------------------------------------------------------------------------
(* A TCP client: types *)

LEMMA EmptyTypes ==
    /\ <<>> \in Seq(Chunks) /\ <<>> \in Seq(Calls) /\ <<>> \in Seq(Signals)
    /\ Len(<<>>) = 0
  BY EmptySeq

LEMMA SomeSignal == "error" \in Signals
  BY DEF Signals

LEMMA AbortType == Abort \in Calls /\ <<Abort>> \in Seq(Calls)
<1>1. Abort \in Calls
  BY DEF Calls
<1> QED
  BY <1>1

LEMMA CurrentType ==
    ASSUME TypeOK
    PROVE  /\ Current \in Chunks /\ Current \in Calls
           /\ <<Current>> \in Seq(Calls) /\ <<Current, Current>> \in Seq(Calls)
<1>1. session \in 0..MaxSessions
  BY DEF TypeOK
<1>2. Current \in Chunks /\ Current \in Calls
  BY <1>1, BoundsAssumption DEF Current, Chunks, Calls
<1> QED
  BY <1>2

\* The calls a message is posted as.
LEMMA PostType ==
    ASSUME TypeOK, NEW calls \in Seq(Calls), Post(calls)
    PROVE  /\ toSocket' \in Seq(Calls)
           /\ toSocket' # <<>> => socket # "none"
  BY DEF Post, TypeOK

LEMMA SendType ==
    ASSUME TypeOK, NEW calls \in Seq(Calls), Send(calls)
    PROVE  /\ toSocket' \in Seq(Calls)
           /\ toSocket' # <<>> => socket # "none"
           /\ careless' \subseteq {"invalid", "impatient", "early"}
           /\ UNCHANGED <<thread, quitNow, socket>>
  BY PostType DEF Send, TypeOK

\* The types, in three parts that need different provers.
FlagsOK ==
    /\ opened \in BOOLEAN /\ checked \in BOOLEAN /\ ticking \in BOOLEAN
    /\ packaged \in BOOLEAN /\ quitNow \in BOOLEAN /\ crashed \in BOOLEAN

QueuesOK ==
    /\ queue \in Seq(Chunks) /\ Len(queue) <= 2
    /\ toSocket \in Seq(Calls)
    /\ toGui \in Seq(Signals)

StatesOK ==
    /\ controls \in {"fresh", "locked", "free"}
    /\ session \in 0..MaxSessions
    /\ thread \in {"idle", "starting", "running", "ending"}
    /\ socket \in {"none", "unconnected", "connecting", "connected"}
    /\ careless \subseteq {"invalid", "impatient", "early"}
    /\ socket # "none" => thread = "running"
    /\ toSocket # <<>> => socket # "none"

LEMMA TypeParts == TypeOK <=> FlagsOK /\ QueuesOK /\ StatesOK
  BY DEF TypeOK, FlagsOK, QueuesOK, StatesOK

LEMMA TypeInit == Init => TypeOK
<1> SUFFICES ASSUME Init PROVE FlagsOK /\ QueuesOK /\ StatesOK
  BY TypeParts
<1>1. FlagsOK
  BY DEF Init, FlagsOK
<1>2. QueuesOK
  BY EmptyTypes DEF Init, QueuesOK
<1>3. StatesOK
  BY BoundsAssumption DEF Init, StatesOK
<1> QED
  BY <1>1, <1>2, <1>3

LEMMA FlagsStep == TypeOK /\ [Next]_vars => FlagsOK'
  BY DEF Next, GuiStep, SocketStep, ClickOn, ClickOff, sendPackageMaxSizeChanged,
     sendMessage, setHeartbeartContent, sendInstructionTableContent, sendPackagedData,
     sendPackageTimeout, Send, runStarts, Connects, ConnectFails, PeerCloses,
     DataArrives, Reports, PostedCall, execReturns, runEnds, QueuedCall,
     onSocketConnected, onSocketDisconnected, onSocketReadyRead, onSocketError,
     errorOccurred, quit, window, worker, vars, TypeOK, FlagsOK

\* A queue that is left alone or cleared keeps its type.
LEMMA KeptOrCleared ==
    ASSUME NEW S, NEW p \in Seq(S), NEW q, q = <<>> \/ q = p
    PROVE  q \in Seq(S) /\ (Len(p) <= 2 => Len(q) <= 2)
<1>1. CASE q = <<>>
  BY <1>1
<1>2. CASE q = p
  BY <1>2
<1> QED
  BY <1>1, <1>2

\* The signals of the socket, one after the other.
LEMMA SignalsQueued ==
    ASSUME TypeOK
    PROVE  /\ Connects => toGui' = Append(toGui, "connected")
           /\ ConnectFails => toGui' = Append(toGui, "error")
           /\ PeerCloses => toGui' = Append(Append(toGui, "error"), "disconnected")
           /\ DataArrives => toGui' = Append(toGui, "readyRead")
           /\ Connects \/ ConnectFails \/ PeerCloses \/ DataArrives => toGui' \in Seq(Signals)
<1>1. toGui \in Seq(Signals)
  BY DEF TypeOK
<1>2. \A x, y \in Signals : /\ toGui \o <<x>> = Append(toGui, x)
                            /\ toGui \o <<x, y>> = Append(Append(toGui, x), y)
                            /\ Append(toGui, x) \in Seq(Signals)
                            /\ Append(Append(toGui, x), y) \in Seq(Signals)
  BY <1>1
<1>3. {"connected", "error", "disconnected", "readyRead"} \subseteq Signals
  BY DEF Signals
<1>4. \A x, y \in Signals : /\ toGui' = toGui \o <<x>> => toGui' = Append(toGui, x) /\ toGui' \in Seq(Signals)
                            /\ toGui' = toGui \o <<x, y>> => 
                                 toGui' = Append(Append(toGui, x), y) /\ toGui' \in Seq(Signals)
  BY <1>2
<1> QED
  BY <1>3, <1>4 DEF Connects, ConnectFails, PeerCloses, DataArrives, Reports

LEMMA QueuesStep == TypeOK /\ [Next]_vars => QueuesOK'
<1> SUFFICES ASSUME QueuesOK, TypeOK, [Next]_vars PROVE QueuesOK'
  BY TypeParts
<1> USE DEF window, worker
<1>1. CASE UNCHANGED vars \/ sendPackageMaxSizeChanged \/ runStarts \/ runEnds
  BY <1>1 DEF vars, sendPackageMaxSizeChanged, runStarts, runEnds, QueuesOK
<1>2. CASE ClickOn
  <2>1. queue' = <<>> \/ queue' = queue
    BY <1>2 DEF ClickOn
  <2>2. UNCHANGED <<toSocket, toGui>>
    BY <1>2 DEF ClickOn
  <2> QED
    BY <2>1, <2>2, KeptOrCleared DEF QueuesOK
<1>3. CASE ClickOff
  <2>1. queue' = <<>> /\ toGui' = toGui /\ Post(<<Abort>>)
    BY <1>3 DEF ClickOff
  <2>2. toSocket' \in Seq(Calls)
    BY <2>1, PostType, AbortType
  <2> QED
    BY <2>1, <2>2, EmptyTypes DEF QueuesOK
<1>4. CASE sendMessage
  <2>1. CASE packaged
    <3>1. queue' = <<Current, Current>> /\ UNCHANGED <<toSocket, toGui>>
      BY <1>4, <2>1 DEF sendMessage
    <3> QED
      BY <3>1, CurrentType DEF QueuesOK
  <2>2. CASE ~packaged
    <3>1. Send(<<Current>>) /\ UNCHANGED <<queue, toGui>>
      BY <1>4, <2>2 DEF sendMessage
    <3> QED
      BY <3>1, CurrentType, SendType DEF QueuesOK
  <2> QED
    BY <2>1, <2>2
<1>5. CASE sendPackagedData
  <2>1. UNCHANGED <<queue, toGui>>
        /\ (Send(<<Current, Current>>) \/ Send(<<Current>>))
    BY <1>5 DEF sendPackagedData
  <2>2. toSocket' \in Seq(Calls)
    BY <2>1, CurrentType, SendType
  <2> QED
    BY <2>1, <2>2 DEF QueuesOK
<1>6. CASE sendPackageTimeout
  <2>1. queue \in Seq(Chunks) /\ queue # <<>> /\ Len(queue) <= 2 /\ toGui' = toGui
    BY <1>6 DEF sendPackageTimeout, QueuesOK
  <2>2. Head(queue) \in Calls /\ Tail(queue) \in Seq(Chunks) /\ Len(Tail(queue)) <= 2
    BY <2>1, HeadTailProperties, EmptySeq DEF Calls
  <2>3. CASE queue' = <<>> /\ UNCHANGED worker
    BY <2>1, <2>3, EmptyTypes DEF QueuesOK
  <2>4. CASE queue' = Tail(queue) /\ Send(<<Head(queue)>>)
    <3>1. <<Head(queue)>> \in Seq(Calls)
      BY <2>2
    <3>2. toSocket' \in Seq(Calls)
      BY <2>4, <3>1, SendType
    <3> QED
      BY <2>1, <2>2, <2>4, <3>2 DEF QueuesOK
  <2> QED
    BY <1>6, <2>3, <2>4 DEF sendPackageTimeout
<1>7. CASE Connects \/ ConnectFails \/ PeerCloses \/ DataArrives
  <2>1. queue' = queue /\ toSocket' = toSocket
    BY <1>7 DEF Connects, ConnectFails, PeerCloses, DataArrives, Reports
  <2>2. toGui' \in Seq(Signals)
    BY <1>7, SignalsQueued
  <2> QED
    BY <2>1, <2>2 DEF QueuesOK
<1>8. ASSUME DeleteSocket PROVE toSocket' \in Seq(Calls) /\ toGui' \in Seq(Signals)
  BY <1>8, EmptyTypes DEF DeleteSocket, QueuesOK, Signals
<1>9. CASE PostedCall
  <2>1. queue' = queue /\ toSocket \in Seq(Calls) /\ toSocket # <<>> /\ toGui \in Seq(Signals)
    BY <1>9 DEF PostedCall, QueuesOK
  <2>2. CASE DeleteSocket
    BY <2>1, <2>2, <1>8 DEF QueuesOK
  <2>3. CASE /\ toSocket' = Tail(toSocket)
             /\ toGui' = toGui \/ toGui' = Append(toGui, "refused")
    <3>1. Tail(toSocket) \in Seq(Calls)
      BY <2>1, HeadTailProperties
    <3>2. toGui' \in Seq(Signals)
      BY <2>1, <2>3 DEF Signals
    <3> QED
      BY <2>1, <2>3, <3>1, <3>2 DEF QueuesOK
  <2> QED
    BY <1>9, <2>2, <2>3 DEF PostedCall
<1>10. CASE execReturns
  BY <1>10, <1>8 DEF execReturns, QueuesOK
<1>11. CASE QueuedCall
  <2>1. queue' = <<>> \/ queue' = queue
    BY <1>11 DEF QueuedCall, onSocketConnected, onSocketDisconnected, onSocketReadyRead,
       onSocketError, errorOccurred
  <2>2. toSocket' = toSocket /\ toGui' = Tail(toGui) /\ toGui # <<>>
    BY <1>11 DEF QueuedCall
  <2>3. Tail(toGui) \in Seq(Signals)
    BY <2>2, HeadTailProperties DEF QueuesOK
  <2> QED
    BY <2>1, <2>2, <2>3, KeptOrCleared DEF QueuesOK
<1> QED
  BY <1>1, <1>2, <1>3, <1>4, <1>5, <1>6, <1>7, <1>9, <1>10, <1>11
     DEF Next, GuiStep, SocketStep, setHeartbeartContent, sendInstructionTableContent

LEMMA StatesStep == TypeOK /\ [Next]_vars => StatesOK'
<1> SUFFICES ASSUME StatesOK, TypeOK, [Next]_vars PROVE StatesOK'
  BY TypeParts
<1> USE DEF window, worker
<1>1. CASE UNCHANGED vars \/ sendPackageMaxSizeChanged \/ runStarts \/ runEnds
  BY <1>1 DEF vars, sendPackageMaxSizeChanged, runStarts, runEnds, StatesOK
<1>2. CASE ClickOn
  <2>1. session < MaxSessions /\ session' = session + 1
    BY <1>2 DEF ClickOn
  <2>2. session' \in 0..MaxSessions
    BY <2>1, BoundsAssumption DEF StatesOK
  <2> QED
    BY <1>2, <2>2 DEF ClickOn, Click, StatesOK
<1>3. CASE ClickOff
  BY <1>3 DEF ClickOff, Post, Click, StatesOK
<1>4. CASE sendMessage \/ sendPackagedData \/ sendPackageTimeout
  BY <1>4 DEF sendMessage, sendPackagedData, sendPackageTimeout, Send, Post, StatesOK
<1>5. CASE Connects \/ ConnectFails \/ PeerCloses \/ DataArrives
  BY <1>5 DEF Connects, ConnectFails, PeerCloses, DataArrives, Reports, StatesOK
<1>6. CASE PostedCall
  BY <1>6 DEF PostedCall, DeleteSocket, StatesOK
<1>7. CASE execReturns
  BY <1>7 DEF execReturns, DeleteSocket, StatesOK
<1>8. CASE QueuedCall
  BY <1>8 DEF QueuedCall, onSocketConnected, onSocketDisconnected, onSocketReadyRead,
     onSocketError, errorOccurred, StatesOK
<1> QED
  BY <1>1, <1>2, <1>3, <1>4, <1>5, <1>6, <1>7, <1>8
     DEF Next, GuiStep, SocketStep, setHeartbeartContent, sendInstructionTableContent

LEMMA TypeStep == TypeOK /\ [Next]_vars => TypeOK'
  BY FlagsStep, QueuesStep, StatesStep DEF TypeOK, FlagsOK, QueuesOK, StatesOK

\* The types of the client and its window, and that calls wait only for a
\* socket, which only a running thread has.
THEOREM TypeCorrect == Spec => []TypeOK
  BY TypeInit, TypeStep, PTL DEF Spec

-----------------------------------------------------------------------------
(* A TCP client: what is typed for a session is sent in it *)

Connecting == thread = "starting" \/ socket = "connecting"

\* The button, the controls and the timer are set together, and settings that
\* were freed come with an empty queue.
WindowOK ==
    /\ checked = ticking /\ checked = (controls = "locked")
    /\ session > 0 => controls # "fresh"
    /\ controls = "free" => queue = <<>>

\* Of a user who waits: the settings are locked only while the window is open,
\* and the signal that a connection ended comes after they were freed, or
\* after the error that will free them.
EndsAreSeen ==
    /\ controls = "locked" => opened
    /\ Has(toSocket, Abort) => controls = "free"
    /\ controls = "free" \/ Preceded(toGui, "error", "disconnected")

\* An attempt to connect, and a connection, belong to a thread that was not
\* told to quit; no end of an earlier one is still on its way to the window.
ConnectionIsNew ==
    /\ thread = "idle" \/ Connecting \/ socket = "connected" => ~quitNow
    /\ Connecting => ~Has(toGui, "connected")
    /\ Connecting \/ socket = "connected" =>
           ~Has(toGui, "error") /\ ~Has(toGui, "disconnected")

\* The window knows of a connection, or will, or has asked for its end.
ConnectionIsKnown ==
    socket = "connected" =>
        /\ Followed(toGui, "refused", "connected")
        /\ opened \/ Has(toSocket, Abort) \/ Has(toGui, "connected")

ChunksAreCurrent ==
    /\ \A i \in 1..Len(queue) : queue[i] = Current
    /\ \A i \in 1..Len(toSocket) : toSocket[i] \in {Abort, Current}

Patient == "impatient" \notin careless

LinkIsSeen == EndsAreSeen /\ ConnectionIsNew /\ ConnectionIsKnown

SessionInvariant ==
    TypeOK /\ WindowOK /\ (Patient => ChunksAreCurrent /\ (~crashed => LinkIsSeen))

LEMMA WindowStep == TypeOK /\ WindowOK /\ [Next]_vars => WindowOK'
<1> SUFFICES ASSUME TypeOK, WindowOK, [Next]_vars PROVE WindowOK'
  OBVIOUS
<1> USE DEF window
<1>1. CASE UNCHANGED vars
  BY <1>1 DEF vars, WindowOK
<1>2. CASE ClickOn \/ ClickOff
  BY <1>2 DEF ClickOn, ClickOff, WindowOK
<1>3. CASE sendMessage \/ sendPackageTimeout
  BY <1>3 DEF sendMessage, sendPackageTimeout, WindowOK
<1>4. CASE SocketStep \/ sendPackageMaxSizeChanged \/ sendPackagedData
  BY <1>4 DEF SocketStep, sendPackageMaxSizeChanged, sendPackagedData, runStarts, Connects,
     ConnectFails, PeerCloses, DataArrives, Reports, PostedCall, execReturns, runEnds, WindowOK
<1>5. CASE QueuedCall
  BY <1>5 DEF QueuedCall, onSocketConnected, onSocketDisconnected, onSocketReadyRead,
     onSocketError, errorOccurred, WindowOK
<1> QED
  BY <1>1, <1>2, <1>3, <1>4, <1>5
     DEF Next, GuiStep, setHeartbeartContent, sendInstructionTableContent

\* Only a user who has waited still waits.
LEMMA PatientBefore == TypeOK /\ [Next]_vars /\ Patient' => Patient
  BY DEF Next, GuiStep, SocketStep, ClickOn, ClickOff, sendPackageMaxSizeChanged, Click,
     sendMessage, setHeartbeartContent, sendInstructionTableContent, sendPackagedData,
     sendPackageTimeout, Send, runStarts, Connects, ConnectFails, PeerCloses,
     DataArrives, Reports, PostedCall, execReturns, runEnds, QueuedCall,
     window, worker, vars, Patient
\* A user who waits and opens the connection finds no thread and no call that
\* could still change what the window shows.
LEMMA NothingUnderWay ==
    ASSUME TypeOK, WindowOK, LinkIsSeen, Settled, ~opened
    PROVE  /\ thread = "idle" /\ socket = "none" /\ toSocket = <<>> /\ ~quitNow
           /\ \A e : e # "readyRead" => ~Has(toGui, e)
           /\ session > 0 => queue = <<>>
<1>1. \A e : e # "readyRead" => ~Has(toGui, e)
  <2>1. toGui \in Seq(Signals)
    BY DEF TypeOK
  <2>2. \A i \in 1..Len(toGui) : toGui[i] \in Events
    BY <2>1 DEF Events
  <2> QED
    BY <2>2 DEF Settled, Has
<1>2. CASE thread = "running" /\ socket = "connected"
           /\ \A i \in DOMAIN toSocket : toSocket[i] # Abort
  <2>1. toSocket \in Seq(Calls)
    BY DEF TypeOK
  <2>2. ~Has(toSocket, Abort)
    BY <1>2, <2>1 DEF Has
  <2> QED
    BY <1>1, <1>2, <2>2 DEF LinkIsSeen, ConnectionIsKnown
<1>3. CASE thread = "idle"
  BY <1>1, <1>3 DEF TypeOK, WindowOK, LinkIsSeen, EndsAreSeen, ConnectionIsNew
<1> QED
  BY <1>2, <1>3 DEF Settled

\* Sending posts no abort, and nothing of another session.
LEMMA SentIsCurrent ==
    ASSUME TypeOK, ChunksAreCurrent,
           Send(<<Current>>) \/ Send(<<Current, Current>>)
    PROVE  /\ \A i \in 1..Len(toSocket') : toSocket'[i] \in {Abort, Current}
           /\ Has(toSocket', Abort) <=> Has(toSocket, Abort)
           /\ UNCHANGED <<thread, quitNow, socket>>
<1>1. toSocket \in Seq(Calls) /\ Current \in Calls /\ Current # Abort
  <2>1. Current # Abort
    BY CurrentType DEF Chunks, Abort
  <2> QED
    BY <2>1, CurrentType DEF TypeOK
<1>2. UNCHANGED <<thread, quitNow, socket>>
  BY DEF Send
<1>3. CASE toSocket' = toSocket
  BY <1>2, <1>3 DEF ChunksAreCurrent
<1>4. CASE toSocket' = toSocket \o <<Current>>
  BY <1>1, <1>2, <1>4 DEF ChunksAreCurrent, Has
<1>5. CASE toSocket' = toSocket \o <<Current, Current>>
  <2>1. \A i \in 1..Len(toSocket) : i \in 1..Len(toSocket') /\ toSocket'[i] = toSocket[i]
    BY <1>1, <1>5
  <2>2. \A i \in 1..Len(toSocket') :
            \/ i \in 1..Len(toSocket) /\ toSocket'[i] = toSocket[i]
            \/ toSocket'[i] = Current
    BY <1>1, <1>5
  <2> QED
    BY <1>1, <1>2, <2>1, <2>2 DEF ChunksAreCurrent, Has
<1> QED
  <2>1. \/ toSocket' = toSocket
        \/ toSocket' = toSocket \o <<Current>>
        \/ toSocket' = toSocket \o <<Current, Current>>
    BY DEF Send, Post
  <2> QED
    BY <1>3, <1>4, <1>5, <2>1
LEMMA ChunksStep ==
    ASSUME SessionInvariant, Next, Patient' PROVE ChunksAreCurrent'
<1>1. TypeOK /\ WindowOK /\ Patient /\ ChunksAreCurrent /\ ~crashed /\ LinkIsSeen
  BY PatientBefore DEF SessionInvariant, Next
<1> USE <1>1 DEF window, worker
<1>2. CASE ClickOn
  <2>1. Settled /\ ~opened /\ session' = session + 1 /\ toSocket' = toSocket
        /\ (queue' = <<>> \/ queue' = queue)
    BY <1>2 DEF ClickOn, Click, Patient
  <2>2. session \in Nat
    BY DEF TypeOK
  <2>3. toSocket' = <<>> /\ (queue' = <<>> \/ session = 0)
    BY <2>1, <2>2, NothingUnderWay
  <2>4. CASE queue' = <<>>
    BY <2>3, <2>4 DEF ChunksAreCurrent
  <2>5. CASE session = 0 /\ queue' = queue
    <3>1. Current' = Current
      BY <2>1, <2>5 DEF Current
    <3> QED
      BY <2>3, <2>5, <3>1 DEF ChunksAreCurrent
  <2> QED
    BY <2>1, <2>3, <2>4, <2>5
<1>3. ASSUME session' = session PROVE Current' = Current
  BY <1>3 DEF Current
<1>4. CASE ClickOff
  <2>1. queue' = <<>> /\ session' = session /\ Post(<<Abort>>)
    BY <1>4 DEF ClickOff
  <2>2. toSocket \in Seq(Calls) /\ Abort \in Calls
    BY AbortType DEF TypeOK
  <2>3. CASE toSocket' = toSocket
    BY <2>1, <2>3, <1>3 DEF ChunksAreCurrent
  <2>4. CASE toSocket' = toSocket \o <<Abort>>
    BY <2>1, <2>2, <2>4, <1>3 DEF ChunksAreCurrent
  <2> QED
    BY <2>1, <2>3, <2>4 DEF Post
<1>5. CASE sendMessage
  <2>1. session' = session
    BY <1>5 DEF sendMessage
  <2>2. CASE queue' = <<Current, Current>> /\ toSocket' = toSocket
    BY <2>1, <2>2, <1>3 DEF ChunksAreCurrent
  <2>3. CASE Send(<<Current>>) /\ queue' = queue
    BY <2>1, <2>3, <1>3, SentIsCurrent DEF ChunksAreCurrent
  <2> QED
    BY <1>5, <2>2, <2>3 DEF sendMessage
<1>6. CASE sendPackagedData
  <2>1. session' = session /\ queue' = queue
        /\ (Send(<<Current>>) \/ Send(<<Current, Current>>))
    BY <1>6 DEF sendPackagedData
  <2> QED
    BY <2>1, <1>3, SentIsCurrent DEF ChunksAreCurrent
<1>7. CASE sendPackageTimeout
  <2>1. session' = session /\ queue # <<>> /\ queue \in Seq(Chunks)
    BY <1>7 DEF sendPackageTimeout, TypeOK
  <2>2. Head(queue) = Current
        /\ \A i \in 1..Len(Tail(queue)) : Tail(queue)[i] = Current
    BY <2>1 DEF ChunksAreCurrent
  <2>3. CASE queue' = <<>> /\ toSocket' = toSocket
    BY <2>1, <2>3, <1>3 DEF ChunksAreCurrent
  <2>4. CASE queue' = Tail(queue) /\ Send(<<Head(queue)>>)
    BY <2>1, <2>2, <2>4, <1>3, SentIsCurrent DEF ChunksAreCurrent
  <2> QED
    BY <1>7, <2>3, <2>4 DEF sendPackageTimeout
<1>8. CASE PostedCall
  <2>1. session' = session /\ queue' = queue /\ toSocket # <<>> /\ toSocket \in Seq(Calls)
        /\ (toSocket' = <<>> \/ toSocket' = Tail(toSocket))
    BY <1>8 DEF PostedCall, DeleteSocket, TypeOK
  <2>2. \A i \in 1..Len(Tail(toSocket)) : Tail(toSocket)[i] \in {Abort, Current}
    BY <2>1 DEF ChunksAreCurrent
  <2>3. CASE toSocket' = <<>>
    BY <2>1, <2>3, <1>3 DEF ChunksAreCurrent
  <2>4. CASE toSocket' = Tail(toSocket)
    BY <2>1, <2>2, <2>4, <1>3 DEF ChunksAreCurrent
  <2> QED
    BY <2>1, <2>3, <2>4
<1>9. CASE execReturns
  <2>1. session' = session /\ queue' = queue /\ toSocket' = <<>>
    BY <1>9 DEF execReturns, DeleteSocket
  <2> QED
    BY <2>1, <1>3 DEF ChunksAreCurrent
<1>10. CASE sendPackageMaxSizeChanged \/ runStarts \/ runEnds \/ Connects \/ ConnectFails
            \/ PeerCloses \/ DataArrives
  <2>1. UNCHANGED <<session, queue, toSocket>>
    BY <1>10 DEF sendPackageMaxSizeChanged, runStarts, runEnds, Connects, ConnectFails,
       PeerCloses, DataArrives, Reports
  <2> QED
    BY <2>1, <1>3 DEF ChunksAreCurrent
<1>11. CASE QueuedCall
  <2>1. UNCHANGED <<session, toSocket>> /\ (queue' = <<>> \/ queue' = queue)
    BY <1>11 DEF QueuedCall, onSocketConnected, onSocketDisconnected, onSocketReadyRead,
       onSocketError, errorOccurred
  <2>2. CASE queue' = <<>>
    BY <2>1, <2>2, <1>3 DEF ChunksAreCurrent
  <2>3. CASE queue' = queue
    BY <2>1, <2>3, <1>3 DEF ChunksAreCurrent
  <2> QED
    BY <2>1, <2>2, <2>3
<1> QED
  BY <1>2, <1>4, <1>5, <1>6, <1>7, <1>8, <1>9, <1>10, <1>11
     DEF Next, GuiStep, SocketStep, setHeartbeartContent, sendInstructionTableContent
LEMMA LinkStep ==
    ASSUME SessionInvariant, Next, Patient', ~crashed' PROVE LinkIsSeen'
<1>1. TypeOK /\ WindowOK /\ Patient /\ ChunksAreCurrent /\ ~crashed
  BY PatientBefore DEF SessionInvariant, Next
<1>2. EndsAreSeen /\ ConnectionIsNew /\ ConnectionIsKnown
  BY <1>1 DEF SessionInvariant, LinkIsSeen
<1>3. toGui \in Seq(Signals) /\ toSocket \in Seq(Calls)
  BY <1>1 DEF TypeOK
<1> SUFFICES EndsAreSeen' /\ ConnectionIsNew' /\ ConnectionIsKnown'
  BY DEF LinkIsSeen
<1> USE <1>1 DEF window, worker
<1>4. CASE ClickOn
  <2>1. Settled /\ ~opened /\ LinkIsSeen
    BY <1>2, <1>4 DEF ClickOn, Click, Patient, LinkIsSeen
  <2>2. /\ socket' = "none" /\ toSocket' = <<>> /\ ~quitNow' /\ toGui' = toGui
        /\ opened'
    BY <1>4, <2>1, NothingUnderWay DEF ClickOn
  <2>3. \A e : e # "readyRead" => ~Has(toGui', e)
    BY <2>1, <2>2, NothingUnderWay
  <2>4. ~Has(toSocket', Abort)
    BY <2>2, EmptyQueue
  <2>5. Preceded(toGui', "error", "disconnected")
    BY <2>3 DEF Preceded, Has
  <2>6. EndsAreSeen'
    BY <2>2, <2>4, <2>5 DEF EndsAreSeen
  <2>7. ConnectionIsNew' /\ ConnectionIsKnown'
    BY <2>2, <2>3 DEF ConnectionIsNew, ConnectionIsKnown
  <2> QED
    BY <2>6, <2>7
<1>5. CASE ClickOff
  <2>1. /\ Post(<<Abort>>) /\ controls' = "free" /\ ~opened'
        /\ UNCHANGED <<thread, quitNow, socket, toGui>>
    BY <1>5 DEF ClickOff
  <2>2. socket # "none" => Has(toSocket', Abort)
    BY <1>3, <2>1 DEF Post, Has
  <2>3. EndsAreSeen' /\ ConnectionIsNew' /\ ConnectionIsKnown'
    BY <1>2, <2>1, <2>2 DEF EndsAreSeen, ConnectionIsNew, ConnectionIsKnown, Connecting
  <2> QED
    BY <2>3
<1>6. CASE sendMessage \/ sendPackagedData \/ sendPackageTimeout
  <2>1. UNCHANGED <<opened, controls, toGui>>
    BY <1>6 DEF sendMessage, sendPackagedData, sendPackageTimeout
  <2>2. UNCHANGED <<thread, quitNow, socket, toSocket>>
        \/ Send(<<Current>>) \/ Send(<<Current, Current>>)
    <3>1. CASE sendPackageTimeout
      <4>1. queue # <<>> /\ queue \in Seq(Chunks)
        BY <3>1 DEF sendPackageTimeout, TypeOK
      <4>2. Head(queue) = Current
        BY <4>1 DEF ChunksAreCurrent
      <4> QED
        BY <3>1, <4>2 DEF sendPackageTimeout
    <3> QED
      BY <1>6, <3>1 DEF sendMessage, sendPackagedData
  <2>3. /\ Has(toSocket', Abort) <=> Has(toSocket, Abort)
        /\ UNCHANGED <<thread, quitNow, socket>>
    BY <2>2, SentIsCurrent
  <2> QED
    BY <1>2, <2>1, <2>3 DEF EndsAreSeen, ConnectionIsNew, ConnectionIsKnown, Connecting
<1>7. CASE sendPackageMaxSizeChanged \/ runStarts \/ runEnds
  BY <1>2, <1>7 DEF sendPackageMaxSizeChanged, runStarts, runEnds, EndsAreSeen,
     ConnectionIsNew, ConnectionIsKnown, Connecting, TypeOK
<1>8. CASE Connects
  <2>1. /\ socket = "connecting" /\ socket' = "connected"
        /\ UNCHANGED <<opened, controls, thread, quitNow, toSocket>>
        /\ toGui' = Append(toGui, "connected")
    BY <1>8, SignalsQueued DEF Connects, Reports
  <2>2. thread = "running"
    BY <2>1 DEF TypeOK
  <2>3. "connected" \in Signals
    BY DEF Signals
  <2>4. /\ \A e : e # "connected" => (Has(toGui', e) <=> Has(toGui, e))
        /\ Has(toGui', "connected")
        /\ Followed(toGui', "refused", "connected")
        /\ Preceded(toGui, "error", "disconnected") => Preceded(toGui', "error", "disconnected")
    BY <1>3, <2>1, <2>3, QueueAppend, QueueHas
  <2> QED
    BY <1>2, <2>1, <2>2, <2>4 DEF EndsAreSeen, ConnectionIsNew, ConnectionIsKnown, Connecting
<1>9. CASE ConnectFails
  <2>1. /\ socket = "connecting" /\ socket' = "unconnected"
        /\ UNCHANGED <<opened, controls, thread, quitNow, toSocket>>
        /\ toGui' = Append(toGui, "error")
    BY <1>9, SignalsQueued DEF ConnectFails, Reports
  <2>2. thread = "running" /\ "error" \in Signals
    BY <2>1 DEF TypeOK, Signals
  <2>3. Preceded(toGui, "error", "disconnected") => Preceded(toGui', "error", "disconnected")
    BY <1>3, <2>1, <2>2, QueueAppend, QueueHas
  <2> QED
    BY <1>2, <2>1, <2>2, <2>3 DEF EndsAreSeen, ConnectionIsNew, ConnectionIsKnown, Connecting
<1>10. CASE PeerCloses
  <2>1. /\ socket = "connected" /\ socket' = "unconnected"
        /\ UNCHANGED <<opened, controls, thread, quitNow, toSocket>>
        /\ toGui' = Append(Append(toGui, "error"), "disconnected")
    BY <1>10, SignalsQueued DEF PeerCloses, Reports
  <2>2. thread = "running" /\ {"error", "disconnected"} \subseteq Signals
    BY <2>1 DEF TypeOK, Signals
  <2>3. /\ Append(toGui, "error") \in Seq(Signals)
        /\ Has(Append(toGui, "error"), "error")
        /\ Preceded(toGui, "error", "disconnected")
               => Preceded(Append(toGui, "error"), "error", "disconnected")
    BY <1>3, <2>2, QueueAppend
  <2>4. Preceded(toGui, "error", "disconnected") => Preceded(toGui', "error", "disconnected")
    BY <2>1, <2>2, <2>3, QueueAppend
  <2> QED
    BY <1>2, <2>1, <2>2, <2>4 DEF EndsAreSeen, ConnectionIsNew, ConnectionIsKnown, Connecting
<1>11. CASE DataArrives
  <2>1. /\ socket = "connected" /\ socket' = "connected"
        /\ UNCHANGED <<opened, controls, thread, quitNow, toSocket>>
        /\ toGui' = Append(toGui, "readyRead")
    BY <1>11, SignalsQueued DEF DataArrives, Reports
  <2>2. thread = "running" /\ "readyRead" \in Signals
    BY <2>1 DEF TypeOK, Signals
  <2>3. /\ \A e : e # "readyRead" => (Has(toGui', e) <=> Has(toGui, e))
        /\ Followed(toGui, "refused", "connected") => Followed(toGui', "refused", "connected")
        /\ Preceded(toGui, "error", "disconnected") => Preceded(toGui', "error", "disconnected")
    BY <1>3, <2>1, <2>2, QueueAppend, QueueHas
  <2> QED
    BY <1>2, <2>1, <2>2, <2>3 DEF EndsAreSeen, ConnectionIsNew, ConnectionIsKnown, Connecting
<1>12. CASE PostedCall
  <2>1. /\ thread = "running" /\ toSocket # <<>>
        /\ UNCHANGED <<opened, controls, thread, quitNow>>
    BY <1>12 DEF PostedCall
  <2>2. /\ Has(toSocket, Abort) <=> Head(toSocket) = Abort \/ Has(Tail(toSocket), Abort)
        /\ Has(toSocket, Abort) => controls = "free"
    BY <1>2, <1>3, <2>1, AbortType, QueueHas DEF EndsAreSeen
  <2>3. CASE Head(toSocket) = Abort
    <3>1. socket' = "none" /\ ~Has(toSocket', Abort) /\ controls' = "free"
      BY <1>12, <2>1, <2>2, <2>3, EmptyQueue DEF PostedCall, DeleteSocket
    <3> QED
      BY <1>2, <2>1, <3>1 DEF EndsAreSeen, ConnectionIsNew, ConnectionIsKnown, Connecting
  <2>4. CASE Head(toSocket) # Abort
    <3>1. /\ socket' = socket /\ toSocket' = Tail(toSocket)
          /\ \/ socket = "connected" /\ toGui' = toGui
             \/ socket # "connected" /\ toGui' = Append(toGui, "refused")
      BY <1>12, <2>4 DEF PostedCall
    <3>2. Has(toSocket', Abort) <=> Has(toSocket, Abort)
      BY <2>2, <2>4, <3>1
    <3>3. "refused" \in Signals
      BY DEF Signals
    <3>4. /\ \A e : e # "refused" => (Has(toGui', e) <=> Has(toGui, e))
          /\ Preceded(toGui, "error", "disconnected") => Preceded(toGui', "error", "disconnected")
      <4>1. CASE toGui' = toGui
        BY <4>1
      <4>2. CASE toGui' = Append(toGui, "refused")
        BY <1>3, <3>3, <4>2, QueueAppend, QueueHas
      <4> QED
        BY <3>1, <4>1, <4>2
    <3> QED
      BY <1>2, <2>1, <3>1, <3>2, <3>4
         DEF EndsAreSeen, ConnectionIsNew, ConnectionIsKnown, Connecting
  <2> QED
    BY <2>3, <2>4
<1>13. CASE execReturns
  <2>1. /\ quitNow /\ thread' = "ending" /\ socket' = "none" /\ toSocket' = <<>>
        /\ UNCHANGED <<opened, controls, quitNow>>
    BY <1>13 DEF execReturns, DeleteSocket
  <2>2. toGui' = toGui
    BY <1>2, <1>13, <2>1 DEF execReturns, DeleteSocket, ConnectionIsNew
  <2>3. ~Has(toSocket', Abort)
    BY <2>1, EmptyQueue
  <2> QED
    BY <1>2, <2>1, <2>2, <2>3 DEF EndsAreSeen, ConnectionIsNew, ConnectionIsKnown, Connecting
<1>14. CASE QueuedCall
  <2>1. /\ toGui # <<>> /\ toGui' = Tail(toGui)
        /\ UNCHANGED <<thread, socket, toSocket>>
    BY <1>14 DEF QueuedCall
  <2>2. \A e : Has(toGui, e) <=> Head(toGui) = e \/ Has(toGui', e)
    BY <1>3, <2>1, SomeSignal, QueueHas
  <2>3. /\ Head(toGui) # "error" => controls = "free" \/ Preceded(toGui', "error", "disconnected")
        /\ Head(toGui) = "disconnected" => controls = "free"
    BY <1>2, <1>3, <2>1, QueueTail DEF EndsAreSeen
  <2>4. /\ Followed(toGui, "refused", "connected") => Followed(toGui', "refused", "connected")
        /\ Followed(toGui, "refused", "connected") /\ Head(toGui) = "refused"
               => Has(toGui', "connected")
    BY <1>3, <2>1, QueueTail
  <2>5. CASE Head(toGui) = "connected" /\ onSocketConnected
    BY <1>2, <2>1, <2>2, <2>3, <2>4, <2>5
       DEF onSocketConnected, EndsAreSeen, ConnectionIsNew, ConnectionIsKnown, Connecting
  <2>6. CASE Head(toGui) = "disconnected" /\ onSocketDisconnected
    BY <1>2, <2>1, <2>2, <2>3, <2>4, <2>6
       DEF onSocketDisconnected, quit, EndsAreSeen, ConnectionIsNew, ConnectionIsKnown, Connecting
  <2>7. CASE Head(toGui) = "readyRead" /\ onSocketReadyRead
    BY <1>2, <2>1, <2>2, <2>3, <2>4, <2>7
       DEF onSocketReadyRead, EndsAreSeen, ConnectionIsNew, ConnectionIsKnown, Connecting
  <2>8. CASE Head(toGui) = "error" /\ onSocketError
    BY <1>2, <2>1, <2>2, <2>3, <2>4, <2>8
       DEF onSocketError, errorOccurred, quit, EndsAreSeen, ConnectionIsNew,
           ConnectionIsKnown, Connecting
  <2>9. CASE Head(toGui) = "refused" /\ errorOccurred /\ UNCHANGED <<quitNow, crashed>>
    BY <1>2, <2>1, <2>2, <2>3, <2>4, <2>9
       DEF errorOccurred, EndsAreSeen, ConnectionIsNew, ConnectionIsKnown, Connecting
  <2> QED
    BY <1>14, <2>5, <2>6, <2>7, <2>8, <2>9 DEF QueuedCall
<1> QED
  BY <1>4, <1>5, <1>6, <1>7, <1>8, <1>9, <1>10, <1>11, <1>12, <1>13, <1>14
     DEF Next, GuiStep, SocketStep, setHeartbeartContent, sendInstructionTableContent

LEMMA SessionInit == Init => SessionInvariant
<1> SUFFICES ASSUME Init PROVE SessionInvariant
  OBVIOUS
<1>1. WindowOK
  <2>1. checked = ticking /\ checked = (controls = "locked")
    BY DEF Init
  <2>2. session = 0 /\ controls = "fresh"
    BY DEF Init
  <2> QED
    BY <2>1, <2>2 DEF WindowOK
<1>2. ChunksAreCurrent
  BY EmptyTypes DEF Init, ChunksAreCurrent
<1>3. LinkIsSeen
  <2>1. /\ controls = "fresh" /\ ~quitNow /\ thread = "idle" /\ socket = "none"
        /\ toSocket = <<>> /\ toGui = <<>>
    BY DEF Init
  <2>2. /\ Preceded(toGui, "error", "disconnected") /\ ~Has(toSocket, Abort)
    BY <2>1, EmptyQueue
  <2> QED
    BY <2>1, <2>2 DEF LinkIsSeen, EndsAreSeen, ConnectionIsNew, ConnectionIsKnown, Connecting
<1> QED
  BY TypeInit, <1>1, <1>2, <1>3 DEF SessionInvariant

LEMMA SessionStep == SessionInvariant /\ [Next]_vars => SessionInvariant'
<1> SUFFICES ASSUME SessionInvariant, [Next]_vars PROVE SessionInvariant'
  OBVIOUS
<1>1. TypeOK' /\ WindowOK'
  BY TypeStep, WindowStep DEF SessionInvariant
<1>2. CASE UNCHANGED vars
  BY <1>1, <1>2 DEF SessionInvariant, vars, window, worker, Patient, ChunksAreCurrent,
     Current, LinkIsSeen, EndsAreSeen, ConnectionIsNew, ConnectionIsKnown, Connecting
<1>3. CASE Next
  BY <1>1, <1>3, ChunksStep, LinkStep DEF SessionInvariant
<1> QED
  BY <1>2, <1>3

\* What was typed for one session is never sent in a later one, for a user who
\* lets one session end before the next: proved with the button, the settings
\* and the signals that are on their way, since it is by them that the user
\* knows that it has ended.
THEOREM SentInItsSessionAlways == Spec => []SentInItsSession
<1>1. SessionInvariant => SentInItsSession
  <2> SUFFICES ASSUME SessionInvariant PROVE SentInItsSession
    OBVIOUS
  <2>1. DOMAIN queue = 1..Len(queue) /\ DOMAIN toSocket = 1..Len(toSocket)
    BY DEF SessionInvariant, TypeOK
  <2> QED
    BY <2>1 DEF SessionInvariant, Patient, ChunksAreCurrent, SentInItsSession
<1> QED
  BY SessionInit, SessionStep, <1>1, PTL DEF Spec

-----------------------------------------------------------------------------
(* A TCP client: at rest the window shows what there is *)

\* Nothing is sent before the connection is there.
AttemptIsAlone == Connecting => toSocket = <<>> /\ ~Has(toGui, "refused")

\* The signal that a connection is there is not overtaken by its end, ...
NewsInOrder ==
    Never(toGui, "refused", "connected") /\ Never(toGui, "error", "connected")

\* ... and comes true unless the end is on its way behind it.
NewsIsTrue ==
    Has(toGui, "connected") /\ socket # "connected" =>
        socket = "unconnected" /\ Has(toGui, "error")

\* An open window has a connection, or will have, or will hear of the failure.
OpenIsMeant ==
    /\ opened => \/ Connecting \/ socket = "connected"
                 \/ Has(toGui, "error") /\ socket = "unconnected"
    /\ quitNow => ~opened /\ ~Has(toGui, "connected")

\* A thread without a connection was told to quit, or will be.
ThreadWillEnd ==
    thread = "running" /\ ~Connecting /\ socket # "connected" =>
        quitNow \/ Has(toGui, "error") \/ Has(toGui, "disconnected")

LockedIsMeant ==
    Connecting \/ Has(toGui, "connected") \/ opened => controls = "locked"

Orderly == careless = {} /\ ~crashed

RestOK ==
    /\ AttemptIsAlone /\ NewsInOrder /\ NewsIsTrue
    /\ OpenIsMeant /\ ThreadWillEnd /\ LockedIsMeant

RestInvariant == SessionInvariant /\ (Orderly => RestOK)

\* Only an orderly user still is one.
LEMMA OrderlyBefore ==
    ASSUME TypeOK, Next, Orderly' PROVE Orderly /\ Patient /\ Patient'
<1>1. careless = {}
  BY DEF Next, GuiStep, SocketStep, ClickOn, ClickOff, sendPackageMaxSizeChanged, Click,
     sendMessage, setHeartbeartContent, sendInstructionTableContent, sendPackagedData,
     sendPackageTimeout, Send, runStarts, Connects, ConnectFails, PeerCloses,
     DataArrives, Reports, PostedCall, execReturns, runEnds, QueuedCall,
     window, worker, vars, Orderly
<1> QED
  BY <1>1 DEF Next, Orderly, Patient

LEMMA RestStep ==
    ASSUME RestInvariant, Next, Orderly' PROVE RestOK'
<1>1. TypeOK /\ WindowOK /\ ChunksAreCurrent /\ LinkIsSeen /\ RestOK
      /\ Orderly /\ Patient /\ Patient'
  BY OrderlyBefore DEF RestInvariant, SessionInvariant, Orderly
<1>2. EndsAreSeen /\ ConnectionIsNew /\ ConnectionIsKnown
  BY <1>1 DEF LinkIsSeen
<1>3. /\ AttemptIsAlone /\ NewsInOrder /\ NewsIsTrue
      /\ OpenIsMeant /\ ThreadWillEnd /\ LockedIsMeant
  BY <1>1 DEF RestOK
<1>4. toGui \in Seq(Signals) /\ toSocket \in Seq(Calls)
  BY <1>1 DEF TypeOK
<1> SUFFICES /\ AttemptIsAlone' /\ NewsInOrder' /\ NewsIsTrue'
             /\ OpenIsMeant' /\ ThreadWillEnd' /\ LockedIsMeant'
  BY DEF RestOK
<1> USE <1>1 DEF window, worker
<1>5. CASE ClickOn
  <2>1. Settled /\ ~opened
    BY <1>5 DEF ClickOn, Click, Patient
  <2>2. /\ thread = "idle" /\ socket = "none" /\ toSocket = <<>> /\ ~quitNow
        /\ \A e : e # "readyRead" => ~Has(toGui, e)
    BY <2>1, NothingUnderWay
  <2>3. /\ thread' = "starting" /\ controls' = "locked"
        /\ UNCHANGED <<quitNow, socket, toSocket, toGui>>
    BY <1>5, <2>2 DEF ClickOn, Click, Orderly
  <2> QED
    BY <1>3, <2>2, <2>3 DEF AttemptIsAlone, NewsInOrder, NewsIsTrue, OpenIsMeant, ThreadWillEnd, LockedIsMeant, Connecting
<1>6. CASE ClickOff
  <2>1. Settled /\ opened /\ ~opened' /\ UNCHANGED <<thread, quitNow, socket, toGui>>
    BY <1>6 DEF ClickOff, Click, Patient
  <2>2. thread = "idle" \/ socket = "connected"
    BY <2>1 DEF Settled
  <2>3. ~Has(toGui, "connected")
    <3>1. \A i \in 1..Len(toGui) : toGui[i] \in Events
      BY <1>4 DEF Events
    <3> QED
      BY <2>1, <3>1 DEF Settled, Has
  <2>4. ~Connecting
    BY <2>2 DEF Connecting, TypeOK
  <2> QED
    BY <1>3, <2>1, <2>2, <2>3, <2>4 DEF AttemptIsAlone, NewsInOrder, NewsIsTrue, OpenIsMeant, ThreadWillEnd, LockedIsMeant, Connecting
<1>7. CASE sendMessage \/ sendPackagedData \/ sendPackageTimeout
  <2>1. UNCHANGED <<opened, controls, toGui>>
    BY <1>7 DEF sendMessage, sendPackagedData, sendPackageTimeout
  <2>2. /\ UNCHANGED <<thread, quitNow, socket>>
        /\ Connecting => toSocket' = toSocket
    BY <1>7 DEF sendMessage, sendPackagedData, sendPackageTimeout, Send, Connecting, Orderly
  <2> QED
    BY <1>3, <2>1, <2>2 DEF AttemptIsAlone, NewsInOrder, NewsIsTrue, OpenIsMeant, ThreadWillEnd, LockedIsMeant, Connecting
<1>8. CASE sendPackageMaxSizeChanged \/ runStarts \/ runEnds
  BY <1>2, <1>3, <1>8 DEF sendPackageMaxSizeChanged, runStarts, runEnds, TypeOK,
     ConnectionIsNew, AttemptIsAlone, NewsInOrder, NewsIsTrue, OpenIsMeant, ThreadWillEnd, LockedIsMeant, Connecting
<1>9. CASE Connects
  <2>1. /\ socket = "connecting" /\ socket' = "connected" /\ Connecting
        /\ UNCHANGED <<opened, controls, thread, quitNow, toSocket>>
        /\ toGui' = Append(toGui, "connected")
    BY <1>9, SignalsQueued DEF Connects, Reports, Connecting
  <2>2. thread = "running" /\ "connected" \in Signals
    BY <2>1 DEF TypeOK, Signals
  <2>3. ~Has(toGui, "refused") /\ ~Has(toGui, "error")
    BY <1>2, <1>3, <2>1 DEF AttemptIsAlone, ConnectionIsNew
  <2>4. /\ Has(toGui', "connected")
        /\ Has(toGui', "error") <=> Has(toGui, "error")
        /\ NewsInOrder'
    BY <1>3, <1>4, <2>1, <2>2, <2>3, QueueAppend, QueueHas DEF NewsInOrder
  <2>5. ~quitNow /\ controls = "locked"
    BY <1>2, <1>3, <2>1 DEF ConnectionIsNew, LockedIsMeant
  <2> QED
    BY <2>1, <2>2, <2>4, <2>5 DEF AttemptIsAlone, NewsIsTrue, OpenIsMeant, ThreadWillEnd,
       LockedIsMeant, Connecting
<1>10. CASE ConnectFails
  <2>1. /\ socket = "connecting" /\ socket' = "unconnected" /\ Connecting
        /\ UNCHANGED <<opened, controls, thread, quitNow, toSocket>>
        /\ toGui' = Append(toGui, "error")
    BY <1>10, SignalsQueued DEF ConnectFails, Reports, Connecting
  <2>2. thread = "running" /\ "error" \in Signals
    BY <2>1 DEF TypeOK, Signals
  <2>3. /\ Has(toGui', "error")
        /\ Has(toGui', "connected") <=> Has(toGui, "connected")
        /\ NewsInOrder'
    BY <1>3, <1>4, <2>1, <2>2, QueueAppend, QueueHas DEF NewsInOrder
  <2>4. ~quitNow
    BY <1>2, <2>1 DEF ConnectionIsNew
  <2> QED
    BY <1>3, <2>1, <2>2, <2>3, <2>4 DEF AttemptIsAlone, NewsIsTrue, OpenIsMeant,
       ThreadWillEnd, LockedIsMeant, Connecting
<1>11. CASE PeerCloses
  <2>1. /\ socket = "connected" /\ socket' = "unconnected"
        /\ UNCHANGED <<opened, controls, thread, quitNow, toSocket>>
        /\ toGui' = Append(Append(toGui, "error"), "disconnected")
    BY <1>11, SignalsQueued DEF PeerCloses, Reports
  <2>2. thread = "running" /\ "error" \in Signals /\ "disconnected" \in Signals
    BY <2>1 DEF TypeOK, Signals
  <2> DEFINE told == Append(toGui, "error")
  <2>3. /\ told \in Seq(Signals) /\ Has(told, "error")
        /\ Has(told, "connected") <=> Has(toGui, "connected")
        /\ Never(told, "refused", "connected") /\ Never(told, "error", "connected")
    BY <1>3, <1>4, <2>2, QueueAppend, QueueHas DEF NewsInOrder
  <2>4. toGui' = Append(told, "disconnected")
    BY <2>1
  <2> HIDE DEF told
  <2>5. /\ Has(toGui', "error")
        /\ Has(toGui', "connected") <=> Has(toGui, "connected")
        /\ NewsInOrder'
    BY <2>2, <2>3, <2>4, QueueAppend, QueueHas DEF NewsInOrder
  <2>6. ~quitNow
    BY <1>2, <2>1 DEF ConnectionIsNew
  <2> QED
    BY <1>3, <2>1, <2>2, <2>5, <2>6 DEF AttemptIsAlone, NewsInOrder, NewsIsTrue, OpenIsMeant,
       ThreadWillEnd, LockedIsMeant, Connecting
<1>12. CASE DataArrives
  <2>1. /\ socket = "connected" /\ socket' = "connected"
        /\ UNCHANGED <<opened, controls, thread, quitNow, toSocket>>
        /\ toGui' = Append(toGui, "readyRead")
    BY <1>12, SignalsQueued DEF DataArrives, Reports
  <2>2. "readyRead" \in Signals
    BY DEF Signals
  <2>3. /\ \A e : e # "readyRead" => (Has(toGui', e) <=> Has(toGui, e))
        /\ NewsInOrder'
    BY <1>3, <1>4, <2>1, <2>2, QueueAppend, QueueHas DEF NewsInOrder
  <2> QED
    BY <1>3, <2>1, <2>3 DEF AttemptIsAlone, NewsIsTrue, OpenIsMeant, ThreadWillEnd,
       LockedIsMeant, Connecting
<1>13. CASE PostedCall
  <2>1. /\ thread = "running" /\ toSocket # <<>>
        /\ UNCHANGED <<opened, controls, thread, quitNow>>
    BY <1>13 DEF PostedCall
  <2>2. ~Connecting
    BY <1>3, <2>1 DEF AttemptIsAlone
  <2>3. CASE Head(toSocket) = Abort
    <3>1. controls = "free"
      BY <1>2, <1>4, <2>1, <2>3, AbortType, QueueHas DEF EndsAreSeen
    <3>2. ~opened /\ ~Has(toGui, "connected")
      BY <1>3, <3>1 DEF LockedIsMeant
    <3>3. /\ socket' = "none" /\ toSocket' = <<>>
          /\ \/ socket = "connected" /\ toGui' = Append(toGui, "disconnected")
             \/ socket # "connected" /\ toGui' = toGui
      BY <1>13, <2>3 DEF PostedCall, DeleteSocket
    <3>4. "disconnected" \in Signals
      BY DEF Signals
    <3>5. CASE socket = "connected"
      <4>1. toGui' = Append(toGui, "disconnected")
        BY <3>3, <3>5
      <4>2. /\ Has(toGui', "disconnected")
            /\ Has(toGui', "connected") <=> Has(toGui, "connected")
            /\ NewsInOrder'
        BY <1>3, <1>4, <3>4, <4>1, QueueAppend, QueueHas DEF NewsInOrder
      <4> QED
        BY <1>3, <2>1, <2>2, <3>2, <3>3, <4>2 DEF AttemptIsAlone, NewsInOrder, NewsIsTrue, OpenIsMeant, ThreadWillEnd, LockedIsMeant, Connecting
    <3>6. CASE socket # "connected"
      BY <1>3, <2>1, <2>2, <3>2, <3>3, <3>6 DEF AttemptIsAlone, NewsInOrder, NewsIsTrue, OpenIsMeant, ThreadWillEnd, LockedIsMeant, Connecting
    <3> QED
      BY <3>5, <3>6
  <2>4. CASE Head(toSocket) # Abort
    <3>1. /\ socket' = socket
          /\ \/ socket = "connected" /\ toGui' = toGui
             \/ socket # "connected" /\ toGui' = Append(toGui, "refused")
      BY <1>13, <2>4 DEF PostedCall
    <3>2. CASE socket = "connected"
      BY <1>3, <2>1, <2>2, <3>1, <3>2 DEF AttemptIsAlone, NewsInOrder, NewsIsTrue, OpenIsMeant, ThreadWillEnd, LockedIsMeant, Connecting
    <3>3. CASE socket # "connected"
      <4>1. toGui' = Append(toGui, "refused") /\ "refused" \in Signals
        BY <3>1, <3>3 DEF Signals
      <4>2. /\ \A e : e # "refused" => (Has(toGui', e) <=> Has(toGui, e))
            /\ NewsInOrder'
        BY <1>3, <1>4, <4>1, QueueAppend, QueueHas DEF NewsInOrder
      <4> QED
        BY <1>3, <2>1, <2>2, <3>1, <3>3, <4>2 DEF AttemptIsAlone, NewsInOrder, NewsIsTrue, OpenIsMeant, ThreadWillEnd, LockedIsMeant, Connecting
    <3> QED
      BY <3>2, <3>3
  <2> QED
    BY <2>3, <2>4
<1>14. CASE execReturns
  <2>1. /\ quitNow /\ thread' = "ending" /\ socket' = "none" /\ toSocket' = <<>>
        /\ UNCHANGED <<opened, controls, quitNow>>
    BY <1>14 DEF execReturns, DeleteSocket
  <2>2. toGui' = toGui
    BY <1>2, <1>14, <2>1 DEF execReturns, DeleteSocket, ConnectionIsNew
  <2> QED
    BY <1>3, <2>1, <2>2 DEF AttemptIsAlone, NewsInOrder, NewsIsTrue, OpenIsMeant, ThreadWillEnd, LockedIsMeant, Connecting
<1>15. CASE QueuedCall
  <2>1. /\ toGui # <<>> /\ toGui' = Tail(toGui)
        /\ UNCHANGED <<thread, socket, toSocket>>
    BY <1>15 DEF QueuedCall
  <2>2. \A e : Has(toGui, e) <=> Head(toGui) = e \/ Has(toGui', e)
    BY <1>4, <2>1, SomeSignal, QueueHas
  <2>3. /\ NewsInOrder'
        /\ Head(toGui) \in {"refused", "error"} => ~Has(toGui', "connected")
    BY <1>3, <1>4, <2>1, QueueTail DEF NewsInOrder
  <2>4. Head(toGui) = "disconnected" => controls = "free"
    BY <1>2, <1>4, <2>1, QueueTail DEF EndsAreSeen
  <2>5. ~crashed'
    BY DEF Orderly
  <2>6. CASE Head(toGui) = "connected" /\ onSocketConnected
    BY <1>2, <1>3, <2>1, <2>2, <2>3, <2>6 DEF onSocketConnected, ConnectionIsNew, AttemptIsAlone, NewsInOrder, NewsIsTrue, OpenIsMeant, ThreadWillEnd, LockedIsMeant, Connecting
  <2>7. CASE Head(toGui) = "disconnected" /\ onSocketDisconnected
    BY <1>2, <1>3, <2>1, <2>2, <2>3, <2>4, <2>7
       DEF onSocketDisconnected, quit, ConnectionIsNew, AttemptIsAlone, NewsInOrder, NewsIsTrue, OpenIsMeant, ThreadWillEnd, LockedIsMeant, Connecting
  <2>8. CASE Head(toGui) = "readyRead" /\ onSocketReadyRead
    BY <1>2, <1>3, <2>1, <2>2, <2>3, <2>8 DEF onSocketReadyRead, ConnectionIsNew, AttemptIsAlone, NewsInOrder, NewsIsTrue, OpenIsMeant, ThreadWillEnd, LockedIsMeant, Connecting
  <2>9. CASE Head(toGui) = "error" /\ onSocketError
    BY <1>2, <1>3, <2>1, <2>2, <2>3, <2>5, <2>9
       DEF onSocketError, errorOccurred, quit, ConnectionIsNew, AttemptIsAlone, NewsInOrder, NewsIsTrue, OpenIsMeant, ThreadWillEnd, LockedIsMeant, Connecting
  <2>10. CASE Head(toGui) = "refused" /\ errorOccurred /\ UNCHANGED <<quitNow, crashed>>
    BY <1>2, <1>3, <2>1, <2>2, <2>3, <2>10 DEF errorOccurred, ConnectionIsNew, AttemptIsAlone, NewsInOrder, NewsIsTrue, OpenIsMeant, ThreadWillEnd, LockedIsMeant, Connecting
  <2> QED
    BY <1>15, <2>6, <2>7, <2>8, <2>9, <2>10 DEF QueuedCall
<1> QED
  BY <1>5, <1>6, <1>7, <1>8, <1>9, <1>10, <1>11, <1>12, <1>13, <1>14, <1>15
     DEF Next, GuiStep, SocketStep, setHeartbeartContent, sendInstructionTableContent
\* When both threads have come to rest, opened_, the button, the settings and
\* the timer of an orderly user's window show whether there is a connection,
\* and there is a thread only if there is one.
THEOREM RestShowsTheTruthAlways == Spec => []RestShowsTheTruth
<1>1. Init => RestInvariant
  <2> SUFFICES ASSUME Init PROVE SessionInvariant /\ RestOK
    BY DEF RestInvariant
  <2>1. SessionInvariant
    BY SessionInit
  <2>2. /\ ~opened /\ ~quitNow /\ thread = "idle" /\ socket = "none" /\ toGui = <<>>
    BY DEF Init
  <2>3. \A a, b : ~Has(toGui, a) /\ Never(toGui, a, b)
    BY <2>2, EmptyQueue
  <2> QED
    BY <2>1, <2>2, <2>3 DEF RestOK, AttemptIsAlone, NewsInOrder, NewsIsTrue, OpenIsMeant,
       ThreadWillEnd, LockedIsMeant, Connecting
<1>2. RestInvariant /\ [Next]_vars => RestInvariant'
  <2> SUFFICES ASSUME RestInvariant, [Next]_vars PROVE RestInvariant'
    OBVIOUS
  <2>1. SessionInvariant'
    BY SessionStep DEF RestInvariant
  <2>2. CASE UNCHANGED vars
    BY <2>1, <2>2 DEF RestInvariant, vars, window, worker, Orderly, RestOK, AttemptIsAlone,
       NewsInOrder, NewsIsTrue, OpenIsMeant, ThreadWillEnd, LockedIsMeant, Connecting
  <2>3. CASE Next
    BY <2>1, <2>3, RestStep DEF RestInvariant
  <2> QED
    BY <2>2, <2>3
<1>3. RestInvariant => RestShowsTheTruth
  <2> SUFFICES ASSUME RestInvariant, Quiet, Orderly PROVE
             /\ opened = (socket = "connected")
             /\ opened = (thread = "running")
             /\ checked = opened /\ ticking = opened
             /\ (controls = "locked") = opened
    BY DEF RestShowsTheTruth, Orderly
  <2>1. TypeOK /\ WindowOK /\ LinkIsSeen /\ RestOK
    BY DEF RestInvariant, SessionInvariant, Orderly, Patient
  <2>2. \A e : ~Has(toGui, e) /\ ~Has(toSocket, e)
    BY EmptyQueue DEF Quiet
  <2>3. ~Connecting /\ ~quitNow
    BY DEF Quiet, Connecting
  <2>4. opened <=> socket = "connected"
    BY <2>1, <2>2, <2>3 DEF RestOK, OpenIsMeant, LinkIsSeen, ConnectionIsKnown
  <2>5. opened <=> thread = "running"
    BY <2>1, <2>2, <2>3, <2>4 DEF RestOK, ThreadWillEnd, TypeOK
  <2>6. opened <=> controls = "locked"
    BY <2>1 DEF RestOK, LockedIsMeant, LinkIsSeen, EndsAreSeen
  <2> QED
    BY <2>1, <2>4, <2>5, <2>6 DEF TypeOK, WindowOK
<1> QED
  BY <1>1, <1>2, <1>3, PTL DEF Spec

-----------------------------------------------------------------------------
(* The bounds of windows of all kinds *)

LEMMA Bounds == MaxClicks \in Nat \ {0} /\ MaxRows \in Nat \ {0} /\ MaxChat \in Nat \ {0}
                /\ MaxThreads \in Nat \ {0} /\ MaxStarts \in Nat \ {0}
  BY KindsAssumption

-----------------------------------------------------------------------------
(* What is in a queue once *)

Once(s, e) == \A i, j \in 1..Len(s) : s[i] = e /\ s[j] = e => i = j

LEMMA OnceAppend ==
    ASSUME NEW S, NEW s \in Seq(S), NEW x \in S, NEW e, Once(s, e), x # e \/ ~Has(s, e)
    PROVE  Once(Append(s, x), e)
<1> DEFINE t == Append(s, x)
           n == Len(s)
<1>1. n \in Nat /\ Len(t) = n + 1 /\ t[n + 1] = x /\ \A i \in 1..n : t[i] = s[i]
  OBVIOUS
<1> HIDE DEF t, n
<1>2. \A i : i \in 1..(n + 1) <=> i \in 1..n \/ i = n + 1
  BY <1>1
<1>3. Once(t, e)
  BY <1>1, <1>2 DEF Once, Has, n
<1> QED
  BY <1>3 DEF t

LEMMA OnceTail ==
    ASSUME NEW S, NEW s \in Seq(S), s # <<>>, NEW e, Once(s, e)
    PROVE  /\ Once(Tail(s), e)
           /\ Head(s) = e => ~Has(Tail(s), e)
<1> DEFINE t == Tail(s)
           n == Len(s)
<1>1. /\ n \in Nat \ {0} /\ Len(t) = n - 1
      /\ \A i \in 1..(n - 1) : t[i] = s[i + 1]
      /\ Head(s) = s[1]
  BY EmptySeq
<1> HIDE DEF t, n
<1>2. \A i \in 1..(n - 1) : i + 1 \in 1..n /\ t[i] = s[i + 1] /\ 1 # i + 1
  BY <1>1
<1>3. \A i, j \in 1..(n - 1) : i + 1 = j + 1 => i = j
  BY <1>1
<1>4. 1 \in 1..n
  BY <1>1
<1>5. Once(t, e)
  BY <1>1, <1>2, <1>3 DEF Once, n
<1>6. Head(s) = e => ~Has(t, e)
  BY <1>1, <1>2, <1>4 DEF Once, Has, n
<1> QED
  BY <1>5, <1>6 DEF t

LEMMA HasOne == ASSUME NEW x, NEW e PROVE Has(<<x>>, e) <=> x = e
<1>1. Len(<<x>>) = 1 /\ <<x>>[1] = x
  OBVIOUS
<1>2. \A i : i \in 1..1 <=> i = 1
  OBVIOUS
<1> QED
  BY <1>1, <1>2 DEF Has

LEMMA InSet == ASSUME NEW S, NEW s \in Seq(S), NEW e PROVE e \in Server!ToSet(s) <=> Has(s, e)
  BY DEF Server!ToSet, Has

-----------------------------------------------------------------------------
(* The TCP server: types *)

ServerFlags == serverOpened \in BOOLEAN /\ listening \in BOOLEAN

ServerData ==
    /\ starts \in 0 .. MaxStarts
    /\ gui \in {"loop", "stopping"}
    /\ waitsFor \subseteq Clients /\ hungUp \subseteq Clients /\ late \subseteq Clients
    /\ serverCrashed \in {"no", "refused", "stop", "send", "read"}

ServerLists ==
    /\ stopping \in Seq(Clients) /\ client_sockets_ \in Seq(Clients)
    /\ waiting \in Seq(Clients)
    /\ serverToGui \in Seq([call : {"create", "read", "deleteLater"}, client : Clients])

Tasks == {"none", "waiting", "starting", "running", "quitting", "done"}
Sockets == {"none", "connected", "closing", "unconnected", "deleted"}
Posts == {"write", "delete", "quit"}

ServerTasks ==
    /\ task \in [Clients -> Tasks]
    /\ clientSocket \in [Clients -> Sockets]
    /\ toPool \in [Clients -> Seq(Posts)]

ServerTypes == ServerFlags /\ ServerData /\ ServerLists /\ ServerTasks

\* The pool keeps to its threads, and a task waits in its queue at most once.
PoolOK ==
    /\ IsFiniteSet(Server!Busy) /\ Cardinality(Server!Busy) <= MaxThreads
    /\ waiting # <<>> => Cardinality(Server!Busy) = MaxThreads
    /\ \A c \in Clients : Has(waiting, c) => task[c] = "waiting" /\ Once(waiting, c)

LEMMA SameCount == ASSUME NEW S PROVE Server!Cardinality(S) = Cardinality(S)
  BY DEF Server!Cardinality, Cardinality

LEMMA ServerInit == Server!Init => ServerTypes /\ PoolOK
<1> SUFFICES ASSUME Server!Init PROVE ServerTypes /\ PoolOK
  OBVIOUS
<1>1. ServerFlags
  BY DEF Server!Init, ServerFlags
<1>2. ServerData
  BY Bounds DEF Server!Init, ServerData
<1>3. ServerLists
  BY EmptySeq DEF Server!Init, ServerLists
<1>4. ServerTasks
  BY EmptySeq DEF Server!Init, ServerTasks, Tasks, Sockets
<1>5. PoolOK
  <2>1. Server!Busy = {}
    BY DEF Server!Init, Server!Busy
  <2>2. \A c : ~Has(waiting, c)
    BY DEF Server!Init, Has
  <2> QED
    BY <2>1, <2>2, Bounds, FS_EmptySet DEF Server!Init, PoolOK
<1> QED
  BY <1>1, <1>2, <1>3, <1>4, <1>5 DEF ServerTypes

\* The names of the steps, for the proofs that go through all of them.
LEMMA ServerSteps ==
    ASSUME [Server!Next]_Server!vars
    PROVE  \/ UNCHANGED Server!vars
           \/ /\ serverCrashed = "no"
              /\ \/ Server!ClickOn \/ Server!ClickOff \/ Server!StopNext
                 \/ Server!waitForDisconnected \/ Server!StopEnds
                 \/ Server!sendMessageToClients \/ Server!QueuedCall
                 \/ \E c \in Clients :
                        \/ Server!incomingConnection(c) \/ Server!run(c)
                        \/ Server!DataArrives(c) \/ Server!Disconnects(c)
                        \/ Server!PostedCall(c) \/ Server!runEnds(c) \/ Server!Collected(c)
  BY DEF Server!Next, Server!GuiStep, Server!PoolStep

LEMMA ServerFlagsStep ==
    ASSUME ServerFlags, [Server!Next]_Server!vars PROVE ServerFlags'
<1> USE DEF ServerFlags, Server!vars, Server!server
<1>1. CASE \E c \in Clients :
              \/ Server!incomingConnection(c) \/ Server!run(c)
              \/ Server!DataArrives(c) \/ Server!Disconnects(c)
              \/ Server!PostedCall(c) \/ Server!runEnds(c) \/ Server!Collected(c)
  BY <1>1 DEF Server!incomingConnection, Server!run, Server!DataArrives, Server!Disconnects,
     Server!PostedCall, Server!runEnds, Server!Collected
<1>2. CASE \/ Server!ClickOn \/ Server!ClickOff \/ Server!StopNext
           \/ Server!waitForDisconnected \/ Server!StopEnds
           \/ Server!sendMessageToClients \/ Server!QueuedCall
  BY <1>2 DEF Server!ClickOn, Server!ClickOff, Server!StopNext, Server!waitForDisconnected,
     Server!StopEnds, Server!sendMessageToClients, Server!QueuedCall
<1>3. CASE UNCHANGED Server!vars
  BY <1>3
<1> QED
  BY <1>1, <1>2, <1>3, ServerSteps

LEMMA ServerDataStep ==
    ASSUME ServerTypes, [Server!Next]_Server!vars PROVE ServerData'
<1> USE DEF ServerData, ServerTypes, Server!vars, Server!server
<1>1. CASE \E c \in Clients :
              \/ Server!incomingConnection(c) \/ Server!run(c)
              \/ Server!DataArrives(c) \/ Server!Disconnects(c)
              \/ Server!PostedCall(c) \/ Server!runEnds(c) \/ Server!Collected(c)
  BY <1>1 DEF Server!incomingConnection, Server!run, Server!DataArrives, Server!Disconnects,
     Server!PostedCall, Server!runEnds, Server!Collected
<1>2. CASE Server!ClickOn
  BY <1>2, Bounds DEF Server!ClickOn
<1>3. CASE Server!ClickOff
  BY <1>3 DEF Server!ClickOff, Server!OnTheirWay
<1>4. CASE Server!StopNext
  <2>1. stopping \in Seq(Clients) /\ stopping # <<>>
    BY <1>4 DEF ServerLists, Server!StopNext
  <2>2. Head(stopping) \in Clients
    BY <2>1, EmptySeq
  <2> QED
    BY <1>4, <2>2 DEF Server!StopNext, Server!disconnectFromHost
<1>5. CASE Server!waitForDisconnected \/ Server!StopEnds \/ Server!sendMessageToClients
           \/ Server!QueuedCall
  BY <1>5 DEF Server!waitForDisconnected, Server!StopEnds, Server!sendMessageToClients,
     Server!QueuedCall
<1>6. CASE UNCHANGED Server!vars
  BY <1>6
<1> QED
  BY <1>1, <1>2, <1>3, <1>4, <1>5, <1>6, ServerSteps

\* The task of c is over: it is done, and the first that waits is started.
Starts == IF waiting = <<>> THEN {} ELSE {Head(waiting)}

LEMMA OverStep ==
    ASSUME ServerTypes, PoolOK, NEW c \in Clients,
           task[c] \in {"starting", "quitting"}, Server!Over(c)
    PROVE  /\ task' \in [Clients -> Tasks] /\ waiting' \in Seq(Clients)
           /\ PoolOK'
           /\ task'[c] = "done"
           /\ \A d \in Clients \ {c} :
                  \/ task'[d] = task[d]
                  \/ task[d] = "waiting" /\ task'[d] = "starting"
<1>1. /\ task \in [Clients -> Tasks] /\ waiting \in Seq(Clients)
      /\ IsFiniteSet(Server!Busy) /\ Cardinality(Server!Busy) <= MaxThreads
      /\ waiting # <<>> => Cardinality(Server!Busy) = MaxThreads
      /\ \A d \in Clients : Has(waiting, d) => task[d] = "waiting" /\ Once(waiting, d)
      /\ MaxThreads \in Nat
  BY Bounds DEF ServerTypes, ServerTasks, ServerLists, PoolOK
<1>2. /\ task' = [d \in Clients |->
             IF d = c THEN "done" ELSE IF d \in Starts THEN "starting" ELSE task[d]]
      /\ waiting' = IF waiting = <<>> THEN <<>> ELSE Tail(waiting)
  BY DEF Server!Over, Starts
<1>3. c \in Server!Busy /\ ~Has(waiting, c)
  BY <1>1 DEF Server!Busy
<1>4. \A d \in Starts : d \in Clients /\ task[d] = "waiting" /\ d # c
  <2> SUFFICES ASSUME waiting # <<>> PROVE Head(waiting) \in Clients /\ Has(waiting, Head(waiting))
    BY <1>1, <1>3 DEF Starts
  <2> QED
    BY <1>1, QueueHas, EmptySeq
<1>5. /\ task' \in [Clients -> Tasks] /\ task'[c] = "done"
      /\ \A d \in Clients \ {c} :
             task'[d] = IF d \in Starts THEN "starting" ELSE task[d]
  BY <1>1, <1>2 DEF Tasks
<1>6. waiting' \in Seq(Clients)
  BY <1>1, <1>2, EmptySeq
<1>7. Server!Busy' = (Server!Busy \ {c}) \cup Starts
  BY <1>1, <1>4, <1>5 DEF Server!Busy
<1>8. /\ IsFiniteSet(Server!Busy \ {c})
      /\ Cardinality(Server!Busy \ {c}) = Cardinality(Server!Busy) - 1
      /\ Cardinality(Server!Busy) \in Nat
  BY <1>1, <1>3, FS_RemoveElement, FS_CardinalityType
<1>9. PoolOK'
  <2>1. CASE waiting = <<>>
    <3>1. waiting' = <<>> /\ Server!Busy' = Server!Busy \ {c} /\ \A d : ~Has(waiting', d)
      BY <1>2, <1>7, <2>1 DEF Starts, Has
    <3> QED
      BY <1>1, <1>8, <3>1 DEF PoolOK
  <2>2. CASE waiting # <<>>
    <3>1. /\ waiting' = Tail(waiting) /\ Starts = {Head(waiting)}
          /\ Head(waiting) \notin Server!Busy \ {c}
      BY <1>2, <1>4, <2>2 DEF Starts, Server!Busy
    <3>2. /\ IsFiniteSet(Server!Busy')
          /\ Cardinality(Server!Busy') = Cardinality(Server!Busy)
      <4>1. /\ IsFiniteSet((Server!Busy \ {c}) \cup {Head(waiting)})
            /\ Cardinality((Server!Busy \ {c}) \cup {Head(waiting)})
                   = Cardinality(Server!Busy \ {c}) + 1
        BY <1>8, <3>1, FS_AddElement
      <4> QED
        BY <1>7, <1>8, <3>1, <4>1
    <3>3. ASSUME NEW d \in Clients, Has(waiting', d)
          PROVE  task'[d] = "waiting" /\ Once(waiting', d)
      <4>1. Has(waiting, d) /\ Once(waiting, d) /\ task[d] = "waiting"
        BY <1>1, <2>2, <3>1, <3>3, QueueHas
      <4>2. Once(waiting', d) /\ d # Head(waiting)
        BY <1>1, <2>2, <3>1, <3>3, <4>1, OnceTail
      <4>3. d # c
        BY <1>3, <4>1
      <4> QED
        BY <1>5, <3>1, <4>1, <4>2, <4>3
    <3> QED
      BY <1>1, <2>2, <3>2, <3>3 DEF PoolOK
  <2> QED
    BY <2>1, <2>2
<1> QED
  BY <1>4, <1>5, <1>6, <1>9

\* A task that waits for nothing may change among the states that take a thread.
LEMMA PoolKept ==
    ASSUME ServerTypes, PoolOK, waiting' = waiting,
           \A c \in Clients : \/ task'[c] = task[c]
                              \/ /\ task[c] \in {"starting", "running", "quitting"}
                                 /\ task'[c] \in {"starting", "running", "quitting"}
    PROVE  PoolOK'
<1>1. Server!Busy' = Server!Busy
  BY DEF Server!Busy
<1> QED
  BY <1>1 DEF PoolOK

ServerCalls == [call : {"create", "read", "deleteLater"}, client : Clients]

LEMMA CallTypes ==
    ASSUME NEW c \in Clients
    PROVE  /\ Server!Create(c) \in ServerCalls /\ Server!Read(c) \in ServerCalls
           /\ Server!DeleteLater(c) \in ServerCalls
  BY DEF ServerCalls, Server!Create, Server!Read, Server!DeleteLater

LEMMA QueueMoves ==
    ASSUME NEW S, NEW s \in Seq(S), NEW t,
           t = s \/ t = <<>> \/ (s # <<>> /\ t = Tail(s)) \/ \E x \in S : t = Append(s, x)
    PROVE  t \in Seq(S)
<1>1. CASE t = s
  BY <1>1
<1>2. CASE t = <<>>
  BY <1>2, EmptySeq
<1>3. CASE s # <<>> /\ t = Tail(s)
  BY <1>3, EmptySeq
<1>4. CASE \E x \in S : t = Append(s, x)
  BY <1>4
<1> QED
  BY <1>1, <1>2, <1>3, <1>4

LEMMA ServerListsStep ==
    ASSUME ServerTypes, PoolOK, [Server!Next]_Server!vars PROVE ServerLists'
<1> DEFINE Lists == <<stopping, client_sockets_, waiting, serverToGui>>
<1>1. /\ stopping \in Seq(Clients) /\ client_sockets_ \in Seq(Clients)
      /\ waiting \in Seq(Clients) /\ serverToGui \in Seq(ServerCalls)
  BY DEF ServerTypes, ServerLists, ServerCalls
<1> SUFFICES /\ stopping' \in Seq(Clients) /\ client_sockets_' \in Seq(Clients)
             /\ waiting' \in Seq(Clients) /\ serverToGui' \in Seq(ServerCalls)
  BY DEF ServerLists, ServerCalls
<1>2. CASE UNCHANGED Lists
  BY <1>1, <1>2
<1>3. CASE Server!ClickOff
  <2>1. stopping' = client_sockets_ /\ UNCHANGED <<client_sockets_, waiting, serverToGui>>
    BY <1>3 DEF Server!ClickOff, Server!pool
  <2> QED
    BY <1>1, <2>1
<1>4. CASE Server!StopNext
  <2>1. /\ stopping # <<>> /\ stopping' = Tail(stopping)
        /\ UNCHANGED <<client_sockets_, waiting, serverToGui>>
    BY <1>4 DEF Server!StopNext
  <2> QED
    BY <1>1, <2>1, EmptySeq
<1>5. CASE Server!StopEnds
  <2>1. client_sockets_' = <<>> /\ UNCHANGED <<stopping, waiting, serverToGui>>
    BY <1>5 DEF Server!StopEnds, Server!pool
  <2> QED
    BY <1>1, <2>1, EmptySeq
<1>6. CASE Server!QueuedCall
  <2>1. /\ serverToGui # <<>> /\ serverToGui' = Tail(serverToGui)
        /\ UNCHANGED <<stopping, waiting>>
        /\ \/ client_sockets_' = client_sockets_
           \/ client_sockets_' = Append(client_sockets_, Head(serverToGui).client)
    BY <1>6 DEF Server!QueuedCall
  <2>2. Head(serverToGui) \in ServerCalls /\ Tail(serverToGui) \in Seq(ServerCalls)
    BY <1>1, <2>1, EmptySeq
  <2>3. Head(serverToGui).client \in Clients
    BY <2>2 DEF ServerCalls
  <2>4. client_sockets_' \in Seq(Clients)
    BY <1>1, <2>1, <2>3, QueueMoves
  <2> QED
    BY <1>1, <2>1, <2>2, <2>4
<1>7. CASE \E c \in Clients : Server!incomingConnection(c)
  <2>1. /\ UNCHANGED <<stopping, client_sockets_, serverToGui>>
        /\ waiting' = waiting \/ \E c \in Clients : waiting' = Append(waiting, c)
    BY <1>7 DEF Server!incomingConnection, Server!server
  <2>2. waiting' \in Seq(Clients)
    BY <1>1, <2>1, QueueMoves
  <2> QED
    BY <1>1, <2>1, <2>2
<1>8. CASE \E c \in Clients : Server!run(c)
  <2>1. PICK c \in Clients : Server!run(c)
    BY <1>8
  <2>2. /\ task[c] = "starting" /\ UNCHANGED <<stopping, client_sockets_>>
        /\ \/ serverToGui' = Append(serverToGui, Server!Create(c)) /\ UNCHANGED waiting
           \/ Server!Over(c) /\ UNCHANGED serverToGui
    BY <2>1 DEF Server!run, Server!server
  <2>3. waiting' \in Seq(Clients)
    BY <1>1, <2>2, OverStep
  <2>4. serverToGui' \in Seq(ServerCalls)
    BY <1>1, <2>2, CallTypes, QueueMoves
  <2> QED
    BY <1>1, <2>2, <2>3, <2>4
<1>9. CASE \E c \in Clients : Server!DataArrives(c) \/ Server!Disconnects(c)
  <2>1. PICK c \in Clients : Server!DataArrives(c) \/ Server!Disconnects(c)
    BY <1>9
  <2>2. /\ UNCHANGED <<stopping, client_sockets_, waiting>>
        /\ \E e \in ServerCalls : serverToGui' = Append(serverToGui, e)
    BY <2>1, CallTypes DEF Server!DataArrives, Server!Disconnects, Server!server, Server!pool
  <2> QED
    BY <1>1, <2>2
<1>10. CASE \E c \in Clients : Server!runEnds(c)
  <2>1. PICK c \in Clients : Server!runEnds(c)
    BY <1>10
  <2>2. /\ task[c] = "quitting" /\ UNCHANGED <<stopping, client_sockets_, serverToGui>>
        /\ Server!Over(c)
    BY <2>1 DEF Server!runEnds, Server!server
  <2> QED
    BY <1>1, <2>2, OverStep
<1>11. CASE \/ Server!ClickOn \/ Server!waitForDisconnected \/ Server!sendMessageToClients
            \/ \E c \in Clients : Server!PostedCall(c) \/ Server!Collected(c)
            \/ UNCHANGED Server!vars
  <2>1. UNCHANGED Lists
    BY <1>11 DEF Server!ClickOn, Server!waitForDisconnected, Server!sendMessageToClients,
       Server!PostedCall, Server!Collected, Server!vars, Server!server, Server!pool
  <2> QED
    BY <1>2, <2>1
<1> QED
  BY <1>3, <1>4, <1>5, <1>6, <1>7, <1>8, <1>9, <1>10, <1>11, ServerSteps

\* What a disconnection seen by the GUI thread does to the tables of the pool.
LEMMA DisconnectedTypes ==
    ASSUME ServerTasks, NEW c \in Clients, Server!DisconnectedHere(c)
    PROVE  /\ clientSocket' \in [Clients -> Sockets] /\ toPool' \in [Clients -> Seq(Posts)]
           /\ clientSocket' = [clientSocket EXCEPT ![c] = "unconnected"]
           /\ \A d \in Clients : toPool'[d] =
                  IF d = c THEN Append(Append(toPool[c], "delete"), "quit") ELSE toPool[d]
<1>1. toPool[c] \in Seq(Posts) /\ <<"delete", "quit">> \in Seq(Posts)
  BY DEF ServerTasks, Posts
<1>2. toPool[c] \o <<"delete", "quit">> = Append(Append(toPool[c], "delete"), "quit")
  BY <1>1
<1>3. toPool[c] \o <<"delete", "quit">> \in Seq(Posts)
  BY <1>1
<1>4. toPool' = [toPool EXCEPT ![c] = toPool[c] \o <<"delete", "quit">>]
  BY DEF Server!DisconnectedHere
<1>5. clientSocket' \in [Clients -> Sockets]
  BY DEF Server!DisconnectedHere, ServerTasks, Sockets
<1>6. toPool' \in [Clients -> Seq(Posts)]
  BY <1>3, <1>4 DEF ServerTasks
<1> QED
  BY <1>2, <1>4, <1>5, <1>6 DEF Server!DisconnectedHere, ServerTasks

\* With the socket go the calls posted to it, but for the one to its loop.
LEMMA PostedCallTypes ==
    ASSUME ServerTasks, NEW c \in Clients, Server!PostedCall(c)
    PROVE  /\ toPool' \in [Clients -> Seq(Posts)]
           /\ \A d \in Clients \ {c} : toPool'[d] = toPool[d]
           /\ toPool[c] # <<>> /\ toPool[c] \in Seq(Posts)
           /\ Head(toPool[c]) # "delete" => toPool'[c] = Tail(toPool[c])
           /\ Head(toPool[c]) = "delete" =>
                  /\ ~Has(toPool'[c], "delete")
                  /\ Has(toPool'[c], "quit") <=> Has(toPool[c], "quit")
<1> DEFINE left == IF Head(toPool[c]) # "delete" THEN Tail(toPool[c])
                   ELSE IF Has(toPool[c], "quit") THEN <<"quit">> ELSE <<>>
<1>1. toPool[c] \in Seq(Posts) /\ toPool[c] # <<>> /\ "quit" \in Posts
  BY DEF ServerTasks, Posts, Server!PostedCall
<1>2. Tail(toPool[c]) \in Seq(Posts) /\ <<"quit">> \in Seq(Posts) /\ <<>> \in Seq(Posts)
  BY <1>1, EmptySeq
<1>3. left \in Seq(Posts)
  BY <1>2
<1>4. "quit" \in Server!ToSet(toPool[c]) <=> Has(toPool[c], "quit")
  BY <1>1, InSet
<1>5. toPool' = [toPool EXCEPT ![c] = left]
  BY <1>4 DEF Server!PostedCall
<1>6. Head(toPool[c]) = "delete" =>
          /\ ~Has(left, "delete")
          /\ Has(left, "quit") <=> Has(toPool[c], "quit")
  <2> SUFFICES ASSUME Head(toPool[c]) = "delete"
               PROVE  /\ ~Has(left, "delete")
                      /\ Has(left, "quit") <=> Has(toPool[c], "quit")
    OBVIOUS
  <2>1. CASE Has(toPool[c], "quit")
    <3>1. left = <<"quit">>
      BY <2>1
    <3>2. Has(<<"quit">>, "quit") /\ ~Has(<<"quit">>, "delete")
      BY HasOne
    <3> QED
      BY <2>1, <3>1, <3>2
  <2>2. CASE ~Has(toPool[c], "quit")
    <3>1. left = <<>>
      BY <2>2
    <3>2. ~Has(<<>>, "quit") /\ ~Has(<<>>, "delete")
      BY DEF Has
    <3> QED
      BY <2>2, <3>1, <3>2
  <2> QED
    BY <2>1, <2>2
<1>7. Head(toPool[c]) # "delete" => left = Tail(toPool[c])
  OBVIOUS
<1> HIDE DEF left
<1>8. /\ toPool' \in [Clients -> Seq(Posts)] /\ toPool'[c] = left
      /\ \A d \in Clients \ {c} : toPool'[d] = toPool[d]
  BY <1>3, <1>5 DEF ServerTasks
<1> QED
  BY <1>1, <1>6, <1>7, <1>8

\* What the calls of disconnectFromHost leave of the tables of the pool.
EndedHere(c) ==
    \/ Server!DisconnectedHere(c)
    \/ UNCHANGED <<clientSocket, toPool>>
    \/ /\ clientSocket[c] = "connected"
       /\ clientSocket' = [clientSocket EXCEPT ![c] = "closing"]
       /\ UNCHANGED toPool

LEMMA StoppingTypes ==
    ASSUME ServerTypes, Server!StopNext \/ Server!waitForDisconnected
    PROVE  /\ UNCHANGED <<task, waiting>>
           /\ \E c \in Clients : EndedHere(c)
<1>1. CASE Server!StopNext
  <2>1. Head(stopping) \in Clients
    BY <1>1, EmptySeq DEF Server!StopNext, ServerTypes, ServerLists
  <2>2. EndedHere(Head(stopping))
    BY <1>1 DEF Server!StopNext, Server!disconnectFromHost, EndedHere
  <2>3. UNCHANGED <<task, waiting>>
    BY <1>1 DEF Server!StopNext
  <2> QED
    BY <2>1, <2>2, <2>3
<1>2. CASE Server!waitForDisconnected
  <2>1. PICK c \in waitsFor : Server!DisconnectedHere(c) \/ UNCHANGED <<clientSocket, toPool>>
    BY <1>2 DEF Server!waitForDisconnected
  <2>2. c \in Clients /\ EndedHere(c)
    BY <2>1 DEF ServerTypes, ServerData, EndedHere
  <2>3. UNCHANGED <<task, waiting>>
    BY <1>2 DEF Server!waitForDisconnected
  <2> QED
    BY <2>2, <2>3
<1> QED
  BY <1>1, <1>2

LEMMA ServerTasksStep ==
    ASSUME ServerTypes, PoolOK, [Server!Next]_Server!vars PROVE ServerTasks'
<1>1. /\ task \in [Clients -> Tasks] /\ clientSocket \in [Clients -> Sockets]
      /\ toPool \in [Clients -> Seq(Posts)] /\ ServerTasks
  BY DEF ServerTypes, ServerTasks
<1> SUFFICES /\ task' \in [Clients -> Tasks] /\ clientSocket' \in [Clients -> Sockets]
             /\ toPool' \in [Clients -> Seq(Posts)]
  BY DEF ServerTasks
<1>2. CASE Server!StopNext \/ Server!waitForDisconnected
  <2>1. UNCHANGED task /\ \E c \in Clients : EndedHere(c)
    BY <1>2, StoppingTypes
  <2>2. PICK c \in Clients : EndedHere(c)
    BY <2>1
  <2>3. CASE Server!DisconnectedHere(c)
    BY <1>1, <2>1, <2>3, DisconnectedTypes
  <2>4. CASE UNCHANGED <<clientSocket, toPool>>
    BY <1>1, <2>1, <2>4
  <2>5. CASE clientSocket' = [clientSocket EXCEPT ![c] = "closing"] /\ UNCHANGED toPool
    BY <1>1, <2>1, <2>5 DEF Sockets
  <2> QED
    BY <2>2, <2>3, <2>4, <2>5 DEF EndedHere
<1>3. CASE Server!sendMessageToClients
  <2>1. UNCHANGED <<task, clientSocket>>
    BY <1>3 DEF Server!sendMessageToClients
  <2>2. toPool' \in [Clients -> Seq(Posts)]
    <3>1. \A c \in Clients : toPool[c] \in Seq(Posts) /\ Append(toPool[c], "write") \in Seq(Posts)
      BY <1>1 DEF Posts
    <3> QED
      BY <1>1, <1>3, <3>1 DEF Server!sendMessageToClients
  <2> QED
    BY <1>1, <2>1, <2>2
<1>4. CASE Server!QueuedCall
  <2>1. UNCHANGED <<task, clientSocket>>
    BY <1>4 DEF Server!QueuedCall
  <2>2. Head(serverToGui).client \in Clients
    <3>1. serverToGui \in Seq(ServerCalls) /\ serverToGui # <<>>
      BY <1>4 DEF ServerTypes, ServerLists, ServerCalls, Server!QueuedCall
    <3>2. Head(serverToGui) \in ServerCalls
      BY <3>1, EmptySeq
    <3> QED
      BY <3>2 DEF ServerCalls
  <2>3. toPool' \in [Clients -> Seq(Posts)]
    <3>1. PICK c \in Clients : \/ toPool' = toPool
                               \/ toPool' = [toPool EXCEPT ![c] = Append(toPool[c], "delete")]
      BY <1>4, <2>2 DEF Server!QueuedCall
    <3>2. Append(toPool[c], "delete") \in Seq(Posts)
      BY <1>1 DEF Posts
    <3>3. CASE toPool' = toPool
      BY <1>1, <3>3
    <3>4. CASE toPool' = [toPool EXCEPT ![c] = Append(toPool[c], "delete")]
      BY <1>1, <3>2, <3>4
    <3> QED
      BY <3>1, <3>3, <3>4
  <2> QED
    BY <1>1, <2>1, <2>3
<1>5. CASE \E c \in Clients : Server!incomingConnection(c) \/ Server!Disconnects(c)
  <2>1. UNCHANGED toPool
    BY <1>5 DEF Server!incomingConnection, Server!Disconnects
  <2>2. task' \in [Clients -> Tasks]
    BY <1>1, <1>5 DEF Server!incomingConnection, Server!Disconnects, Tasks
  <2>3. clientSocket' \in [Clients -> Sockets]
    BY <1>1, <1>5 DEF Server!incomingConnection, Server!Disconnects, Sockets
  <2> QED
    BY <1>1, <2>1, <2>2, <2>3
<1>6. CASE \E c \in Clients : Server!run(c) \/ Server!runEnds(c)
  <2>1. PICK c \in Clients : Server!run(c) \/ Server!runEnds(c)
    BY <1>6
  <2>2. UNCHANGED toPool
    BY <2>1 DEF Server!run, Server!runEnds
  <2>3. clientSocket' \in [Clients -> Sockets]
    BY <1>1, <2>1 DEF Server!run, Server!runEnds, Sockets
  <2>4. \/ task' = [task EXCEPT ![c] = "running"]
        \/ task[c] \in {"starting", "quitting"} /\ Server!Over(c)
    BY <2>1 DEF Server!run, Server!runEnds
  <2>5. task' \in [Clients -> Tasks]
    BY <1>1, <2>4, OverStep DEF Tasks
  <2> QED
    BY <1>1, <2>2, <2>3, <2>5
<1>7. CASE \E c \in Clients : Server!PostedCall(c)
  <2>1. PICK c \in Clients : Server!PostedCall(c)
    BY <1>7
  <2>2. toPool' \in [Clients -> Seq(Posts)]
    BY <1>1, <2>1, PostedCallTypes
  <2>3. task' = task \/ task' = [task EXCEPT ![c] = "quitting"]
    BY <2>1 DEF Server!PostedCall
  <2>4. clientSocket' = clientSocket \/ clientSocket' = [clientSocket EXCEPT ![c] = "deleted"]
    BY <2>1 DEF Server!PostedCall
  <2> QED
    BY <1>1, <2>2, <2>3, <2>4 DEF Tasks, Sockets
<1>8. CASE \E c \in Clients : Server!Collected(c)
  <2>1. PICK c \in Clients : Server!Collected(c)
    BY <1>8
  <2>2. toPool' \in [Clients -> Seq(Posts)]
    BY <1>1, <2>1, EmptySeq DEF Server!Collected
  <2>3. UNCHANGED task /\ clientSocket' \in [Clients -> Sockets]
    BY <1>1, <2>1 DEF Server!Collected, Sockets
  <2> QED
    BY <1>1, <2>2, <2>3
<1>9. CASE \/ Server!ClickOn \/ Server!ClickOff \/ Server!StopEnds
           \/ \E c \in Clients : Server!DataArrives(c)
           \/ UNCHANGED Server!vars
  <2>1. UNCHANGED <<task, clientSocket, toPool>>
    BY <1>9 DEF Server!ClickOn, Server!ClickOff, Server!StopEnds, Server!DataArrives,
       Server!vars, Server!pool
  <2> QED
    BY <1>1, <2>1
<1> QED
  BY <1>2, <1>3, <1>4, <1>5, <1>6, <1>7, <1>8, <1>9, ServerSteps

LEMMA PoolStep ==
    ASSUME ServerTypes, PoolOK, [Server!Next]_Server!vars PROVE PoolOK'
<1>1. CASE \E c \in Clients : Server!incomingConnection(c)
  <2>1. PICK c \in Clients : Server!incomingConnection(c)
    BY <1>1
  <2>2. /\ task \in [Clients -> Tasks] /\ waiting \in Seq(Clients) /\ task[c] = "none"
        /\ MaxThreads \in Nat
    BY <2>1, Bounds DEF ServerTypes, ServerTasks, ServerLists, Server!incomingConnection
  <2>3. /\ IsFiniteSet(Server!Busy) /\ Cardinality(Server!Busy) \in Nat
        /\ Cardinality(Server!Busy) <= MaxThreads
        /\ waiting # <<>> => Cardinality(Server!Busy) = MaxThreads
        /\ \A d \in Clients : Has(waiting, d) => task[d] = "waiting" /\ Once(waiting, d)
        /\ ~Has(waiting, c)
    BY <2>2, FS_CardinalityType DEF PoolOK
  <2>4. CASE Cardinality(Server!Busy) < MaxThreads
    <3>1. task' = [task EXCEPT ![c] = "starting"] /\ waiting' = waiting
      BY <2>1, <2>4, SameCount DEF Server!incomingConnection
    <3>2. Server!Busy' = Server!Busy \cup {c} /\ c \notin Server!Busy
      BY <2>2, <3>1 DEF Server!Busy
    <3>3. /\ IsFiniteSet(Server!Busy')
          /\ Cardinality(Server!Busy') = Cardinality(Server!Busy) + 1
      BY <2>3, <3>2, FS_AddElement
    <3>4. waiting' = <<>>
      BY <2>3, <2>4, <3>1
    <3>5. \A d : ~Has(waiting', d)
      BY <3>4 DEF Has
    <3>6. Cardinality(Server!Busy') <= MaxThreads
      BY <2>2, <2>3, <2>4, <3>3
    <3> QED
      BY <3>3, <3>4, <3>5, <3>6 DEF PoolOK
  <2>5. CASE ~(Cardinality(Server!Busy) < MaxThreads)
    <3>1. task' = [task EXCEPT ![c] = "waiting"] /\ waiting' = Append(waiting, c)
      BY <2>1, <2>5, SameCount DEF Server!incomingConnection
    <3>2. Server!Busy' = Server!Busy
      BY <2>2, <3>1 DEF Server!Busy
    <3>3. Cardinality(Server!Busy) = MaxThreads
      BY <2>2, <2>3, <2>5
    <3>4. ASSUME NEW d \in Clients, Has(waiting', d)
          PROVE  task'[d] = "waiting" /\ Once(waiting', d)
      <4>1. Has(waiting, d) \/ d = c
        BY <2>2, <3>1, <3>4, QueueHas
      <4>2. Once(waiting, d)
        BY <2>3, <4>1 DEF Once, Has
      <4>3. Once(waiting', d)
        BY <2>2, <2>3, <3>1, <4>1, <4>2, OnceAppend
      <4> QED
        BY <2>2, <2>3, <3>1, <4>1, <4>3
    <3>5. Cardinality(Server!Busy') <= MaxThreads
      BY <2>2, <3>2, <3>3
    <3> QED
      BY <2>3, <3>2, <3>3, <3>4, <3>5 DEF PoolOK
  <2> QED
    BY <2>4, <2>5
<1>2. CASE \E c \in Clients : Server!run(c) \/ Server!runEnds(c)
  <2>1. PICK c \in Clients : Server!run(c) \/ Server!runEnds(c)
    BY <1>2
  <2>2. \/ task[c] \in {"starting", "quitting"} /\ Server!Over(c)
        \/ /\ task[c] = "starting" /\ waiting' = waiting
           /\ task' = [task EXCEPT ![c] = "running"]
    BY <2>1 DEF Server!run, Server!runEnds
  <2> QED
    BY <2>2, OverStep, PoolKept DEF ServerTypes, ServerTasks
<1>3. CASE \E c \in Clients : Server!Disconnects(c) \/ Server!PostedCall(c)
  <2>1. PICK c \in Clients : Server!Disconnects(c) \/ Server!PostedCall(c)
    BY <1>3
  <2>2. /\ waiting' = waiting /\ task[c] = "running"
        /\ task' = task \/ task' = [task EXCEPT ![c] = "quitting"]
    BY <2>1 DEF Server!Disconnects, Server!PostedCall
  <2> QED
    BY <2>2, PoolKept DEF ServerTypes, ServerTasks
<1>4. CASE \/ Server!ClickOn \/ Server!ClickOff \/ Server!StopNext
           \/ Server!waitForDisconnected \/ Server!StopEnds
           \/ Server!sendMessageToClients \/ Server!QueuedCall
           \/ \E c \in Clients : Server!DataArrives(c) \/ Server!Collected(c)
           \/ UNCHANGED Server!vars
  <2>1. waiting' = waiting /\ task' = task
    BY <1>4 DEF Server!ClickOn, Server!ClickOff, Server!StopNext, Server!waitForDisconnected,
       Server!StopEnds, Server!sendMessageToClients, Server!QueuedCall, Server!DataArrives,
       Server!Collected, Server!vars, Server!pool
  <2> QED
    BY <2>1, PoolKept
<1> QED
  BY <1>1, <1>2, <1>3, <1>4, ServerSteps

-----------------------------------------------------------------------------
(* The TCP server: what becomes of a client *)

CallCreate(c) == Has(serverToGui, Server!Create(c))
CallDelete(c) == Has(serverToGui, Server!DeleteLater(c))
ToDelete(c) == Has(toPool[c], "delete")
ToQuit(c) == Has(toPool[c], "quit")
Known(c) == Has(client_sockets_, c)
ToStop(c) == Has(stopping, c)

\* A server listens while its window is open, and stopServer goes through
\* clients that are in the list.
GuiOK ==
    /\ serverOpened = listening
    /\ gui = "stopping" => ~listening
    /\ gui = "loop" => stopping = <<>> /\ waitsFor = {}
    /\ \A c \in Clients : ToStop(c) \/ c \in waitsFor => Known(c)

\* A client has no socket before its task runs.
NotYetRun(c) ==
    task[c] \in {"none", "waiting", "starting"} =>
        /\ clientSocket[c] = "none" /\ ~ToDelete(c)
        /\ ~CallCreate(c) /\ ~CallDelete(c) /\ ~Known(c)

\* One that is connected is known or soon will be, and is disconnected when
\* the server stops.
WillBeStopped(c) ==
    task[c] = "running" /\ clientSocket[c] = "connected" /\ c \notin late =>
        /\ CallCreate(c) \/ Known(c)
        /\ listening \/ (gui = "stopping" /\ ToStop(c))

\* The thread of a client whose socket has ended is told to quit.
WillQuit(c) ==
    task[c] = "running" =>
        /\ clientSocket[c] # "none"
        /\ clientSocket[c] \in {"unconnected", "deleted"} \/ ToDelete(c) => ToQuit(c)

\* Who comes after a stop was on the way at that stop.
WasOnTheWay(c) ==
    ~listening /\ (task[c] \in {"waiting", "starting"} \/ CallCreate(c)) => c \in late

\* A socket is deleted when it has ended, and in a list as long as nobody has
\* hung up only if it is there.
DeletedAtTheEnd(c) ==
    /\ CallDelete(c) => task[c] \in {"quitting", "done"} /\ clientSocket[c] # "connected"
    /\ clientSocket[c] = "connected" => ~ToDelete(c)
    /\ hungUp = {} /\ (CallCreate(c) \/ (Known(c) /\ gui = "loop")) =>
           clientSocket[c] = "connected"
    /\ CallCreate(c) => ~Known(c) /\ Once(serverToGui, Server!Create(c))

ClientOK(c) ==
    NotYetRun(c) /\ WillBeStopped(c) /\ WillQuit(c) /\ WasOnTheWay(c) /\ DeletedAtTheEnd(c)

ClientsOK == GuiOK /\ \A c \in Clients : ClientOK(c)

LEMMA CallsDiffer ==
    ASSUME NEW c, NEW d
    PROVE  /\ Server!Create(c) = Server!Create(d) <=> c = d
           /\ Server!DeleteLater(c) = Server!DeleteLater(d) <=> c = d
           /\ Server!Create(c) # Server!DeleteLater(d) /\ Server!Create(c) # Server!Read(d)
           /\ Server!DeleteLater(c) # Server!Read(d)
  BY DEF Server!Create, Server!DeleteLater, Server!Read

LEMMA ListsKept ==
    /\ UNCHANGED serverToGui => \A c : /\ CallCreate(c)' = CallCreate(c)
                                       /\ CallDelete(c)' = CallDelete(c)
                                       /\ Once(serverToGui, Server!Create(c))'
                                              = Once(serverToGui, Server!Create(c))
    /\ UNCHANGED toPool => \A c : ToDelete(c)' = ToDelete(c) /\ ToQuit(c)' = ToQuit(c)
    /\ UNCHANGED client_sockets_ => \A c : Known(c)' = Known(c)
    /\ UNCHANGED stopping => \A c : ToStop(c)' = ToStop(c)
  BY DEF CallCreate, CallDelete, ToDelete, ToQuit, Known, ToStop, Server!Create,
     Server!DeleteLater

LEMMA OnTheWay ==
    ASSUME ServerTypes
    PROVE  Server!OnTheirWay =
               {c \in Clients : task[c] \in {"waiting", "starting"} \/ CallCreate(c)}
<1>1. \A c : Server!Queued(Server!Create(c)) <=> CallCreate(c)
  <2>1. DOMAIN serverToGui = 1..Len(serverToGui)
    BY DEF ServerTypes, ServerLists
  <2> QED
    BY <2>1 DEF Server!Queued, CallCreate, Has
<1> QED
  BY <1>1 DEF Server!OnTheirWay

LEMMA ClickStep ==
    ASSUME ServerTypes, ClientsOK, Server!ClickOn \/ Server!ClickOff, serverCrashed' = "no"
    PROVE  ClientsOK'
<1> USE DEF ClientsOK, GuiOK, ClientOK, NotYetRun, WillBeStopped, WillQuit, WasOnTheWay,
   DeletedAtTheEnd
<1>1. UNCHANGED <<serverToGui, toPool, client_sockets_, task, clientSocket, hungUp, waitsFor>>
  BY DEF Server!ClickOn, Server!ClickOff, Server!pool
<1>2. \A c : /\ CallCreate(c)' = CallCreate(c) /\ CallDelete(c)' = CallDelete(c)
             /\ Once(serverToGui, Server!Create(c))' = Once(serverToGui, Server!Create(c))
             /\ ToDelete(c)' = ToDelete(c) /\ ToQuit(c)' = ToQuit(c)
             /\ Known(c)' = Known(c)
  BY <1>1, ListsKept
<1>3. CASE Server!ClickOn
  <2>1. /\ gui = "loop" /\ gui' = gui /\ serverOpened' = TRUE /\ listening' = TRUE
        /\ stopping' = stopping /\ late' = late
    BY <1>3 DEF Server!ClickOn
  <2>2. \A c : ToStop(c)' = ToStop(c)
    BY <2>1, ListsKept
  <2> QED
    BY <1>1, <1>2, <2>1, <2>2
<1>4. CASE Server!ClickOff
  <2>1. /\ gui = "loop" /\ gui' = "stopping" /\ serverOpened /\ ~serverOpened' /\ ~listening'
        /\ listening' \in BOOLEAN /\ serverOpened' \in BOOLEAN
        /\ stopping' = client_sockets_ /\ late' = late \cup Server!OnTheirWay
    BY <1>4 DEF Server!ClickOff
  <2>2. \A c : ToStop(c)' = Known(c)
    BY <2>1 DEF ToStop, Known
  <2>3. \A c \in Clients : c \in late' <=> c \in late \/ task[c] \in {"waiting", "starting"}
                                           \/ CallCreate(c)
    BY <2>1, OnTheWay
  <2>4. GuiOK'
    BY <1>1, <1>2, <2>1, <2>2
  <2> QED
    BY <1>1, <1>2, <2>1, <2>2, <2>3, <2>4
<1> QED
  BY <1>3, <1>4

LEMMA StopEndsStep ==
    ASSUME ServerTypes, ClientsOK, Server!StopEnds PROVE ClientsOK'
<1> USE DEF ClientsOK, GuiOK, ClientOK, NotYetRun, WillBeStopped, WillQuit, WasOnTheWay,
   DeletedAtTheEnd
<1>1. /\ gui = "stopping" /\ gui' = "loop" /\ stopping = <<>> /\ waitsFor = {}
      /\ client_sockets_' = <<>>
      /\ UNCHANGED <<serverOpened, listening, stopping, waitsFor, serverToGui, toPool, task,
                     clientSocket, hungUp, late>>
  BY DEF Server!StopEnds, Server!pool
<1>2. \A c : /\ CallCreate(c)' = CallCreate(c) /\ CallDelete(c)' = CallDelete(c)
             /\ Once(serverToGui, Server!Create(c))' = Once(serverToGui, Server!Create(c))
             /\ ToDelete(c)' = ToDelete(c) /\ ToQuit(c)' = ToQuit(c)
  BY <1>1, ListsKept
<1>3. \A c : ~Known(c)' /\ ~ToStop(c) /\ ~ToStop(c)'
  BY <1>1 DEF Known, ToStop, Has
<1> QED
  BY <1>1, <1>2, <1>3

LEMMA SendStep ==
    ASSUME ServerTypes, ClientsOK, Server!sendMessageToClients, serverCrashed' = "no"
    PROVE  ClientsOK'
<1> USE DEF ClientsOK, GuiOK, ClientOK, NotYetRun, WillBeStopped, WillQuit, WasOnTheWay,
   DeletedAtTheEnd
<1>1. UNCHANGED <<serverOpened, listening, gui, stopping, waitsFor, client_sockets_, serverToGui,
                  task, clientSocket, hungUp, late>>
  BY DEF Server!sendMessageToClients, Server!server
<1>2. \A c : /\ CallCreate(c)' = CallCreate(c) /\ CallDelete(c)' = CallDelete(c)
             /\ Once(serverToGui, Server!Create(c))' = Once(serverToGui, Server!Create(c))
             /\ Known(c)' = Known(c) /\ ToStop(c)' = ToStop(c)
  BY <1>1, ListsKept
<1>3. \A c \in Clients : ToDelete(c)' = ToDelete(c) /\ ToQuit(c)' = ToQuit(c)
  <2> SUFFICES ASSUME NEW c \in Clients
               PROVE  ToDelete(c)' = ToDelete(c) /\ ToQuit(c)' = ToQuit(c)
    OBVIOUS
  <2>1. toPool'[c] = toPool[c] \/ toPool'[c] = Append(toPool[c], "write")
    BY DEF Server!sendMessageToClients
  <2>2. toPool[c] \in Seq(Posts) /\ "write" \in Posts
    BY DEF ServerTypes, ServerTasks, Posts
  <2>3. /\ Has(Append(toPool[c], "write"), "delete") <=> Has(toPool[c], "delete")
        /\ Has(Append(toPool[c], "write"), "quit") <=> Has(toPool[c], "quit")
    BY <2>2, QueueHas
  <2>4. Has(toPool[c], "delete") \in BOOLEAN /\ Has(toPool[c], "quit") \in BOOLEAN
        /\ Has(toPool'[c], "delete") \in BOOLEAN /\ Has(toPool'[c], "quit") \in BOOLEAN
    BY DEF Has
  <2> QED
    BY <2>1, <2>3, <2>4 DEF ToDelete, ToQuit
<1> QED
  BY <1>1, <1>2, <1>3

\* The socket of c is disconnected by the GUI thread, or about to be.
LEMMA EndedSocket ==
    ASSUME ServerTypes, NEW c \in Clients, EndedHere(c)
    PROVE  /\ \A d \in Clients \ {c} : /\ clientSocket'[d] = clientSocket[d]
                                       /\ ToDelete(d)' = ToDelete(d) /\ ToQuit(d)' = ToQuit(d)
           /\ \/ clientSocket'[c] = "unconnected" /\ ToDelete(c)' /\ ToQuit(c)'
              \/ /\ clientSocket'[c] = clientSocket[c]
                 /\ ToDelete(c)' = ToDelete(c) /\ ToQuit(c)' = ToQuit(c)
              \/ /\ clientSocket[c] = "connected" /\ clientSocket'[c] = "closing"
                 /\ ToDelete(c)' = ToDelete(c) /\ ToQuit(c)' = ToQuit(c)
<1>1. clientSocket \in [Clients -> Sockets] /\ toPool[c] \in Seq(Posts) /\ ServerTasks
  BY DEF ServerTypes, ServerTasks
<1>2. CASE Server!DisconnectedHere(c)
  <2>1. /\ clientSocket' = [clientSocket EXCEPT ![c] = "unconnected"]
        /\ \A d \in Clients : toPool'[d] =
               IF d = c THEN Append(Append(toPool[c], "delete"), "quit") ELSE toPool[d]
    BY <1>1, <1>2, DisconnectedTypes
  <2>2. Append(toPool[c], "delete") \in Seq(Posts) /\ {"delete", "quit"} \subseteq Posts
    BY <1>1 DEF Posts
  <2>3. /\ Has(Append(toPool[c], "delete"), "delete")
        /\ Has(Append(Append(toPool[c], "delete"), "quit"), "delete")
        /\ Has(Append(Append(toPool[c], "delete"), "quit"), "quit")
    BY <1>1, <2>2, QueueHas
  <2> QED
    BY <1>1, <2>1, <2>3 DEF ToDelete, ToQuit
<1>3. CASE UNCHANGED <<clientSocket, toPool>>
  BY <1>3, ListsKept
<1>4. CASE /\ clientSocket[c] = "connected"
           /\ clientSocket' = [clientSocket EXCEPT ![c] = "closing"] /\ UNCHANGED toPool
  BY <1>1, <1>4, ListsKept
<1> QED
  BY <1>2, <1>3, <1>4 DEF EndedHere

LEMMA StoppingStep ==
    ASSUME ServerTypes, ClientsOK, Server!StopNext \/ Server!waitForDisconnected,
           serverCrashed = "no", serverCrashed' = "no"
    PROVE  ClientsOK'
<1> USE DEF ClientsOK, GuiOK, ClientOK, NotYetRun, WillBeStopped, WillQuit, WasOnTheWay,
   DeletedAtTheEnd
<1>1. /\ gui = "stopping"
      /\ UNCHANGED <<serverOpened, listening, gui, client_sockets_, serverToGui, task, hungUp, late>>
  BY DEF Server!StopNext, Server!waitForDisconnected, ServerTypes, ServerData
<1>2. \A c : /\ CallCreate(c)' = CallCreate(c) /\ CallDelete(c)' = CallDelete(c)
             /\ Once(serverToGui, Server!Create(c))' = Once(serverToGui, Server!Create(c))
             /\ Known(c)' = Known(c)
  BY <1>1, ListsKept
<1>3. PICK c \in Clients :
          /\ EndedHere(c) /\ Known(c) /\ clientSocket[c] # "none"
          /\ clientSocket'[c] # "connected"
          /\ \A d \in Clients : ToStop(d)' \/ d \in waitsFor' => ToStop(d) \/ d \in waitsFor
          /\ \A d \in Clients \ {c} : ToStop(d) => ToStop(d)'
  <2>1. CASE Server!StopNext
    <3> DEFINE c == Head(stopping)
    <3>1. stopping \in Seq(Clients) /\ stopping # <<>> /\ c \in Clients
      BY <2>1, EmptySeq DEF Server!StopNext, ServerTypes, ServerLists
    <3>2. \A d : ToStop(d) <=> c = d \/ Has(Tail(stopping), d)
      BY <3>1, QueueHas DEF ToStop
    <3>3. /\ stopping' = Tail(stopping)
          /\ waitsFor' = waitsFor \/ waitsFor' = {c}
          /\ EndedHere(c)
      BY <2>1 DEF Server!StopNext, Server!disconnectFromHost, EndedHere
    <3>4. \/ clientSocket[c] = "connected" /\ Server!disconnectFromHost(c)
          \/ clientSocket[c] \in {"closing", "unconnected"} /\ UNCHANGED clientSocket
      BY <2>1 DEF Server!StopNext
    <3>5. clientSocket[c] # "none" /\ clientSocket'[c] # "connected"
      BY <3>1, <3>4 DEF Server!disconnectFromHost, Server!DisconnectedHere, ServerTypes, ServerTasks
    <3>6. \A d : ToStop(d)' <=> Has(Tail(stopping), d)
      BY <3>3 DEF ToStop
    <3> QED
      BY <3>1, <3>2, <3>3, <3>5, <3>6
  <2>2. CASE Server!waitForDisconnected
    <3>1. PICK c \in waitsFor :
              \/ /\ clientSocket[c] = "closing"
                 /\ Server!DisconnectedHere(c) \/ UNCHANGED <<clientSocket, toPool>>
              \/ clientSocket[c] = "unconnected" /\ UNCHANGED <<clientSocket, toPool>>
      BY <2>2 DEF Server!waitForDisconnected
    <3>2. c \in Clients /\ EndedHere(c) /\ stopping' = stopping /\ waitsFor' = {}
      BY <2>2, <3>1 DEF ServerTypes, ServerData, EndedHere, Server!waitForDisconnected
    <3>3. clientSocket[c] # "none" /\ clientSocket'[c] # "connected"
      BY <3>1, <3>2 DEF Server!DisconnectedHere, ServerTypes, ServerTasks
    <3>4. \A d : ToStop(d)' <=> ToStop(d)
      BY <3>2 DEF ToStop
    <3> QED
      BY <3>1, <3>2, <3>3, <3>4
  <2> QED
    BY <2>1, <2>2
<1>4. /\ \A d \in Clients \ {c} : /\ clientSocket'[d] = clientSocket[d]
                                  /\ ToDelete(d)' = ToDelete(d) /\ ToQuit(d)' = ToQuit(d)
      /\ \/ clientSocket'[c] = "unconnected" /\ ToDelete(c)' /\ ToQuit(c)'
         \/ /\ clientSocket'[c] = clientSocket[c]
            /\ ToDelete(c)' = ToDelete(c) /\ ToQuit(c)' = ToQuit(c)
         \/ /\ clientSocket[c] = "connected" /\ clientSocket'[c] = "closing"
            /\ ToDelete(c)' = ToDelete(c) /\ ToQuit(c)' = ToQuit(c)
  BY <1>3, EndedSocket
<1>5. GuiOK'
  BY <1>1, <1>2, <1>3
<1>6. ClientOK(c)'
  BY <1>1, <1>2, <1>3, <1>4
<1>7. \A d \in Clients \ {c} : ClientOK(d)'
  BY <1>1, <1>2, <1>3, <1>4
<1> QED
  BY <1>5, <1>6, <1>7

\* A call is queued to the GUI thread.
LEMMA CallQueued ==
    ASSUME ServerTypes, NEW e \in ServerCalls, serverToGui' = Append(serverToGui, e)
    PROVE  \A c \in Clients :
               /\ CallCreate(c)' <=> CallCreate(c) \/ e = Server!Create(c)
               /\ CallDelete(c)' <=> CallDelete(c) \/ e = Server!DeleteLater(c)
               /\ Once(serverToGui, Server!Create(c)) /\ e # Server!Create(c) =>
                      Once(serverToGui', Server!Create(c))
               /\ ~CallCreate(c) => Once(serverToGui', Server!Create(c))
<1>1. serverToGui \in Seq(ServerCalls)
  BY DEF ServerTypes, ServerLists, ServerCalls
<1> SUFFICES ASSUME NEW c \in Clients
             PROVE  /\ CallCreate(c)' <=> CallCreate(c) \/ e = Server!Create(c)
                    /\ CallDelete(c)' <=> CallDelete(c) \/ e = Server!DeleteLater(c)
                    /\ Once(serverToGui, Server!Create(c)) /\ e # Server!Create(c) =>
                           Once(serverToGui', Server!Create(c))
                    /\ ~CallCreate(c) => Once(serverToGui', Server!Create(c))
  OBVIOUS
<1>2. CallCreate(c)' <=> CallCreate(c) \/ e = Server!Create(c)
  BY <1>1, QueueHas DEF CallCreate, Server!Create
<1>3. CallDelete(c)' <=> CallDelete(c) \/ e = Server!DeleteLater(c)
  BY <1>1, QueueHas DEF CallDelete, Server!DeleteLater
<1>4. ASSUME Once(serverToGui, Server!Create(c)), e # Server!Create(c)
      PROVE  Once(serverToGui', Server!Create(c))
  BY <1>1, <1>4, OnceAppend
<1>5. ASSUME ~CallCreate(c) PROVE Once(serverToGui', Server!Create(c))
  <2>1. Once(serverToGui, Server!Create(c)) /\ ~Has(serverToGui, Server!Create(c))
    BY <1>5 DEF CallCreate, Once, Has
  <2> QED
    BY <1>1, <2>1, OnceAppend
<1> QED
  BY <1>2, <1>3, <1>4, <1>5

LEMMA QueuedStep ==
    ASSUME ServerTypes, ClientsOK, Server!QueuedCall PROVE ClientsOK'
<1> USE DEF ClientsOK, GuiOK, ClientOK, NotYetRun, WillBeStopped, WillQuit, WasOnTheWay,
   DeletedAtTheEnd
<1>1. /\ gui = "loop" /\ serverToGui \in Seq(ServerCalls) /\ serverToGui # <<>>
      /\ serverToGui' = Tail(serverToGui)
      /\ UNCHANGED <<serverOpened, listening, gui, stopping, waitsFor, task, clientSocket,
                     hungUp, late>>
  BY DEF Server!QueuedCall, ServerTypes, ServerLists, ServerCalls
<1>2. PICK call \in ServerCalls : call = Head(serverToGui)
  BY <1>1, EmptySeq
<1>3. PICK c \in Clients : c = call.client
  BY <1>2 DEF ServerCalls
<1>4. /\ client_sockets_ \in Seq(Clients)
      /\ toPool \in [Clients -> Seq(Posts)] /\ "delete" \in Posts
  BY DEF ServerTypes, ServerLists, ServerTasks, Posts
<1>5. \A d \in Clients :
          /\ CallCreate(d) <=> call = Server!Create(d) \/ CallCreate(d)'
          /\ CallDelete(d) <=> call = Server!DeleteLater(d) \/ CallDelete(d)'
  <2>1. \A e : Has(serverToGui, e) <=> call = e \/ Has(serverToGui', e)
    BY <1>1, <1>2, QueueHas
  <2>2. \A d \in Clients : CallCreate(d) <=> call = Server!Create(d) \/ CallCreate(d)'
    BY <2>1 DEF CallCreate, Server!Create
  <2>3. \A d \in Clients : CallDelete(d) <=> call = Server!DeleteLater(d) \/ CallDelete(d)'
    BY <2>1 DEF CallDelete, Server!DeleteLater
  <2> QED
    BY <2>2, <2>3
<1>6. \A d \in Clients : Once(serverToGui, Server!Create(d)) =>
          /\ Once(serverToGui, Server!Create(d))'
          /\ call = Server!Create(d) => ~CallCreate(d)'
  <2>1. \A e : Once(serverToGui, e) =>
            Once(serverToGui', e) /\ (call = e => ~Has(serverToGui', e))
    BY <1>1, <1>2, OnceTail
  <2> QED
    BY <2>1 DEF CallCreate, Server!Create
<1>7. \A d : ToStop(d)' = ToStop(d)
  BY <1>1, ListsKept
<1>8. CASE call.call = "create" /\ client_sockets_' = Append(client_sockets_, c)
           /\ UNCHANGED toPool
  <2>1. call = Server!Create(c)
    BY <1>3, <1>8 DEF ServerCalls, Server!Create
  <2>2. \A d \in Clients : Known(d)' <=> Known(d) \/ c = d
    BY <1>3, <1>4, <1>8, QueueHas DEF Known
  <2>3. \A d : ToDelete(d)' = ToDelete(d) /\ ToQuit(d)' = ToQuit(d)
    BY <1>8, ListsKept
  <2>4. \A d \in Clients : /\ CallCreate(d)' => CallCreate(d) /\ d # c
                           /\ CallCreate(d) /\ ~CallCreate(d)' => d = c
                           /\ CallDelete(d)' <=> CallDelete(d)
    <3>1. \A d \in Clients : /\ CallCreate(d) <=> d = c \/ CallCreate(d)'
                             /\ CallDelete(d)' <=> CallDelete(d)
      BY <1>5, <2>1, CallsDiffer
    <3>2. ~CallCreate(c)'
      BY <1>6, <2>1, <3>1
    <3> QED
      BY <3>1, <3>2
  <2>5. CallCreate(c)
    BY <1>3, <1>5, <2>1
  <2>6. GuiOK'
    BY <1>1, <1>7, <2>2
  <2>7. ClientOK(c)'
    BY <1>1, <1>3, <1>6, <1>7, <2>2, <2>3, <2>4, <2>5
  <2>8. \A d \in Clients \ {c} : ClientOK(d)'
    BY <1>1, <1>3, <1>6, <1>7, <2>2, <2>3, <2>4, <2>5
  <2> QED
    BY <2>6, <2>7, <2>8
<1>9. CASE /\ call.call # "create" /\ UNCHANGED client_sockets_
           /\ \/ UNCHANGED toPool
              \/ /\ call.call = "deleteLater"
                 /\ toPool' = [toPool EXCEPT ![c] = Append(toPool[c], "delete")]
  <2>1. \A d \in Clients : call # Server!Create(d)
    BY <1>9 DEF Server!Create
  <2>2. \A d : Known(d)' = Known(d)
    BY <1>9, ListsKept
  <2>3. \A d \in Clients : /\ CallCreate(d)' <=> CallCreate(d)
                           /\ CallDelete(d)' => CallDelete(d)
    BY <1>5, <2>1
  <2>4. \A d \in Clients : /\ ToQuit(d)' <=> ToQuit(d)
                           /\ ToDelete(d)' => ToDelete(d) \/ CallDelete(d)
    <3>1. CASE UNCHANGED toPool
      BY <3>1, ListsKept
    <3>2. CASE /\ call.call = "deleteLater"
               /\ toPool' = [toPool EXCEPT ![c] = Append(toPool[c], "delete")]
      <4>1. call = Server!DeleteLater(c) /\ CallDelete(c)
        BY <1>2, <1>3, <1>5, <3>2 DEF ServerCalls, Server!DeleteLater
      <4>2. Has(Append(toPool[c], "delete"), "quit") <=> Has(toPool[c], "quit")
        BY <1>3, <1>4, QueueHas
      <4> QED
        BY <1>3, <1>4, <3>2, <4>1, <4>2 DEF ToQuit, ToDelete
    <3> QED
      BY <1>9, <3>1, <3>2
  <2>5. GuiOK'
    BY <1>1, <1>7, <2>2
  <2>6. \A d \in Clients : ClientOK(d)'
    BY <1>1, <1>6, <1>7, <2>2, <2>3, <2>4
  <2> QED
    BY <2>5, <2>6
<1> QED
  BY <1>2, <1>3, <1>8, <1>9 DEF Server!QueuedCall

\* A client that is accepted has had nothing to do with the server so far.
LEMMA IncomingStep ==
    ASSUME ServerTypes, ClientsOK, NEW c \in Clients, Server!incomingConnection(c)
    PROVE  ClientsOK'
<1> USE DEF ClientsOK, GuiOK, ClientOK, NotYetRun, WillBeStopped, WillQuit, WasOnTheWay,
   DeletedAtTheEnd
<1>1. /\ listening /\ task[c] = "none"
      /\ \A d \in Clients \ {c} : task'[d] = task[d]
      /\ task'[c] \in {"starting", "waiting"}
      /\ UNCHANGED <<serverOpened, listening, gui, stopping, waitsFor, client_sockets_,
                     clientSocket, toPool, serverToGui, hungUp, late>>
  BY DEF Server!incomingConnection, ServerTypes, ServerTasks, Server!server
<1>2. \A d : /\ CallCreate(d)' = CallCreate(d) /\ CallDelete(d)' = CallDelete(d)
             /\ Once(serverToGui, Server!Create(d))' = Once(serverToGui, Server!Create(d))
             /\ ToDelete(d)' = ToDelete(d) /\ ToQuit(d)' = ToQuit(d)
             /\ Known(d)' = Known(d) /\ ToStop(d)' = ToStop(d)
  BY <1>1, ListsKept
<1>3. GuiOK'
  BY <1>1, <1>2
<1>4. ClientOK(c)'
  BY <1>1, <1>2
<1>5. \A d \in Clients \ {c} : ClientOK(d)'
  BY <1>1, <1>2
<1> QED
  BY <1>3, <1>4, <1>5

\* The task of c is over, whose socket is not connected, and another may start.
LEMMA OverClients ==
    ASSUME ServerTypes, PoolOK, ClientsOK, NEW c \in Clients, Server!Over(c),
           \/ task[c] = "starting" /\ clientSocket' = [clientSocket EXCEPT ![c] = "deleted"]
           \/ task[c] = "quitting" /\ UNCHANGED clientSocket,
           UNCHANGED <<serverOpened, listening, gui, stopping, waitsFor, client_sockets_,
                       toPool, serverToGui, hungUp, late>>
    PROVE  ClientsOK'
<1> USE DEF ClientsOK, GuiOK, ClientOK, NotYetRun, WillBeStopped, WillQuit, WasOnTheWay,
   DeletedAtTheEnd
<1>1. /\ task'[c] = "done"
      /\ \A d \in Clients \ {c} : \/ task'[d] = task[d]
                                  \/ task[d] = "waiting" /\ task'[d] = "starting"
  BY OverStep
<1>2. \A d : /\ CallCreate(d)' = CallCreate(d) /\ CallDelete(d)' = CallDelete(d)
             /\ Once(serverToGui, Server!Create(d))' = Once(serverToGui, Server!Create(d))
             /\ ToDelete(d)' = ToDelete(d) /\ ToQuit(d)' = ToQuit(d)
             /\ Known(d)' = Known(d) /\ ToStop(d)' = ToStop(d)
  BY ListsKept
<1>3. GuiOK'
  BY <1>2
<1>4. /\ \/ clientSocket'[c] = clientSocket[c] /\ task[c] = "quitting"
         \/ clientSocket'[c] = "deleted" /\ task[c] = "starting"
      /\ \A d \in Clients \ {c} : clientSocket'[d] = clientSocket[d]
  BY DEF ServerTypes, ServerTasks
<1>5. ClientOK(c)'
  BY <1>1, <1>2, <1>4
<1>6. \A d \in Clients \ {c} : ClientOK(d)'
  BY <1>1, <1>2, <1>4
<1> QED
  BY <1>3, <1>5, <1>6

LEMMA RunStep ==
    ASSUME ServerTypes, PoolOK, ClientsOK, NEW c \in Clients, Server!run(c) \/ Server!runEnds(c)
    PROVE  ClientsOK'
<1> USE DEF ClientsOK, GuiOK, ClientOK, NotYetRun, WillBeStopped, WillQuit, WasOnTheWay,
   DeletedAtTheEnd
<1>1. UNCHANGED <<serverOpened, listening, gui, stopping, waitsFor, client_sockets_, toPool,
                  hungUp, late>>
  BY DEF Server!run, Server!runEnds, Server!server
<1>2. CASE Server!Over(c) /\ UNCHANGED serverToGui
  BY <1>1, <1>2, OverClients DEF Server!run, Server!runEnds
<1>3. CASE /\ task[c] = "starting"
           /\ clientSocket' = [clientSocket EXCEPT ![c] = "connected"]
           /\ task' = [task EXCEPT ![c] = "running"]
           /\ serverToGui' = Append(serverToGui, Server!Create(c))
  <2>1. /\ clientSocket'[c] = "connected" /\ task'[c] = "running"
        /\ \A d \in Clients \ {c} : clientSocket'[d] = clientSocket[d] /\ task'[d] = task[d]
    BY <1>3 DEF ServerTypes, ServerTasks
  <2>2. \A d : /\ ToDelete(d)' = ToDelete(d) /\ ToQuit(d)' = ToQuit(d)
               /\ Known(d)' = Known(d) /\ ToStop(d)' = ToStop(d)
    BY <1>1, ListsKept
  <2>3. \A d \in Clients : /\ CallCreate(d)' <=> CallCreate(d) \/ d = c
                           /\ CallDelete(d)' <=> CallDelete(d)
                           /\ CallCreate(d)' => Once(serverToGui, Server!Create(d))'
    <3>1. /\ \A d \in Clients : /\ CallCreate(d)' <=> CallCreate(d) \/ d = c
                                /\ CallDelete(d)' <=> CallDelete(d)
      BY <1>3, CallTypes, CallQueued, CallsDiffer
    <3>2. Once(serverToGui', Server!Create(c))
      BY <1>3, CallTypes, CallQueued
    <3>3. \A d \in Clients \ {c} : CallCreate(d) => Once(serverToGui', Server!Create(d))
      BY <1>3, CallTypes, CallQueued, CallsDiffer
    <3> QED
      BY <3>1, <3>2, <3>3 DEF Server!Create
  <2>4. GuiOK'
    BY <1>1, <2>2
  <2>5. ClientOK(c)'
    BY <1>1, <1>3, <2>1, <2>2, <2>3
  <2>6. \A d \in Clients \ {c} : ClientOK(d)'
    BY <1>1, <1>3, <2>1, <2>2, <2>3
  <2> QED
    BY <2>4, <2>5, <2>6
<1> QED
  BY <1>2, <1>3 DEF Server!run, Server!runEnds

LEMMA SocketSignalStep ==
    ASSUME ServerTypes, ClientsOK, NEW c \in Clients,
           Server!DataArrives(c) \/ Server!Disconnects(c)
    PROVE  ClientsOK'
<1> USE DEF ClientsOK, GuiOK, ClientOK, NotYetRun, WillBeStopped, WillQuit, WasOnTheWay,
   DeletedAtTheEnd
<1>1. /\ task[c] = "running"
      /\ UNCHANGED <<serverOpened, listening, gui, stopping, waitsFor, client_sockets_, toPool,
                     late>>
  BY DEF Server!DataArrives, Server!Disconnects, Server!server, Server!pool
<1>2. \A d : /\ ToDelete(d)' = ToDelete(d) /\ ToQuit(d)' = ToQuit(d)
             /\ Known(d)' = Known(d) /\ ToStop(d)' = ToStop(d)
  BY <1>1, ListsKept
<1>3. GuiOK'
  BY <1>1, <1>2
<1>4. CASE Server!DataArrives(c)
  <2>1. /\ serverToGui' = Append(serverToGui, Server!Read(c))
        /\ UNCHANGED <<task, clientSocket, hungUp>>
    BY <1>4 DEF Server!DataArrives, Server!pool
  <2>2. \A d \in Clients : /\ CallCreate(d)' <=> CallCreate(d)
                           /\ CallDelete(d)' <=> CallDelete(d)
                           /\ Once(serverToGui, Server!Create(d)) =>
                                  Once(serverToGui, Server!Create(d))'
    <3>1. \A d \in Clients : /\ CallCreate(d)' <=> CallCreate(d)
                             /\ CallDelete(d)' <=> CallDelete(d)
                             /\ Once(serverToGui, Server!Create(d)) =>
                                    Once(serverToGui', Server!Create(d))
      BY <2>1, CallTypes, CallQueued, CallsDiffer
    <3> QED
      BY <3>1 DEF Server!Create
  <2>3. \A d \in Clients : ClientOK(d)'
    BY <1>1, <1>2, <2>1, <2>2
  <2> QED
    BY <1>3, <2>3
<1>5. CASE Server!Disconnects(c)
  <2>1. /\ serverToGui' = Append(serverToGui, Server!DeleteLater(c))
        /\ clientSocket[c] = "connected" => hungUp' # {}
        /\ hungUp \subseteq hungUp'
        /\ clientSocket[c] \in {"connected", "closing"}
    BY <1>5 DEF Server!Disconnects
  <2>2. /\ clientSocket'[c] = "unconnected" /\ task'[c] = "quitting"
        /\ \A d \in Clients \ {c} : clientSocket'[d] = clientSocket[d] /\ task'[d] = task[d]
    BY <1>5 DEF Server!Disconnects, ServerTypes, ServerTasks
  <2>3. \A d \in Clients : /\ CallCreate(d)' <=> CallCreate(d)
                           /\ CallDelete(d)' <=> CallDelete(d) \/ d = c
                           /\ Once(serverToGui, Server!Create(d)) =>
                                  Once(serverToGui, Server!Create(d))'
    <3>1. \A d \in Clients : /\ CallCreate(d)' <=> CallCreate(d)
                             /\ CallDelete(d)' <=> CallDelete(d) \/ d = c
                             /\ Once(serverToGui, Server!Create(d)) =>
                                    Once(serverToGui', Server!Create(d))
      BY <2>1, CallTypes, CallQueued, CallsDiffer
    <3> QED
      BY <3>1 DEF Server!Create
  <2>4. ClientOK(c)'
    BY <1>1, <1>2, <2>1, <2>2, <2>3
  <2>5. \A d \in Clients \ {c} : ClientOK(d)'
    BY <1>1, <1>2, <2>1, <2>2, <2>3
  <2> QED
    BY <1>3, <2>4, <2>5
<1> QED
  BY <1>4, <1>5

LEMMA PostedStep ==
    ASSUME ServerTypes, ClientsOK, NEW c \in Clients,
           Server!PostedCall(c) \/ Server!Collected(c)
    PROVE  ClientsOK'
<1> USE DEF ClientsOK, GuiOK, ClientOK, NotYetRun, WillBeStopped, WillQuit, WasOnTheWay,
   DeletedAtTheEnd
<1>1. UNCHANGED <<serverOpened, listening, gui, stopping, waitsFor, client_sockets_, serverToGui,
                  hungUp, late>>
  BY DEF Server!PostedCall, Server!Collected, Server!server
<1>2. \A d : /\ CallCreate(d)' = CallCreate(d) /\ CallDelete(d)' = CallDelete(d)
             /\ Once(serverToGui, Server!Create(d))' = Once(serverToGui, Server!Create(d))
             /\ Known(d)' = Known(d) /\ ToStop(d)' = ToStop(d)
  BY <1>1, ListsKept
<1>3. GuiOK'
  BY <1>1, <1>2
<1>4. CASE Server!PostedCall(c)
  <2>1. /\ toPool' \in [Clients -> Seq(Posts)]
        /\ \A d \in Clients \ {c} : toPool'[d] = toPool[d]
        /\ toPool[c] # <<>> /\ toPool[c] \in Seq(Posts)
        /\ Head(toPool[c]) # "delete" => toPool'[c] = Tail(toPool[c])
        /\ Head(toPool[c]) = "delete" =>
               /\ ~Has(toPool'[c], "delete")
               /\ Has(toPool'[c], "quit") <=> Has(toPool[c], "quit")
    BY <1>4, PostedCallTypes DEF ServerTypes
  <2>2. \A d \in Clients \ {c} :
            /\ ToDelete(d)' = ToDelete(d) /\ ToQuit(d)' = ToQuit(d)
            /\ task'[d] = task[d] /\ clientSocket'[d] = clientSocket[d]
    BY <1>4, <2>1 DEF Server!PostedCall, ServerTypes, ServerTasks, ToDelete, ToQuit
  <2>3. \A e : Has(toPool[c], e) <=> Head(toPool[c]) = e \/ Has(Tail(toPool[c]), e)
    BY <2>1, QueueHas
  <2>4. /\ task[c] = "running" /\ clientSocket[c] \in Sockets
        /\ task'[c] = IF Head(toPool[c]) = "quit" THEN "quitting" ELSE task[c]
        /\ clientSocket'[c] = IF Head(toPool[c]) = "delete" THEN "deleted" ELSE clientSocket[c]
    BY <1>4 DEF Server!PostedCall, ServerTypes, ServerTasks
  <2>5. CASE Head(toPool[c]) = "delete"
    <3>1. ToDelete(c) /\ ~ToDelete(c)' /\ (ToQuit(c)' <=> ToQuit(c))
      BY <2>1, <2>3, <2>5 DEF ToDelete, ToQuit
    <3>2. ClientOK(c)'
      BY <1>1, <1>2, <2>4, <2>5, <3>1
    <3>3. \A d \in Clients \ {c} : ClientOK(d)'
      BY <1>1, <1>2, <2>2
    <3> QED
      BY <1>3, <3>2, <3>3
  <2>6. CASE Head(toPool[c]) # "delete"
    <3>1. /\ ToDelete(c)' <=> ToDelete(c)
          /\ ToQuit(c) => ToQuit(c)' \/ Head(toPool[c]) = "quit"
      BY <2>1, <2>3, <2>6 DEF ToDelete, ToQuit
    <3>2. ClientOK(c)'
      BY <1>1, <1>2, <2>4, <2>6, <3>1
    <3>3. \A d \in Clients \ {c} : ClientOK(d)'
      BY <1>1, <1>2, <2>2
    <3> QED
      BY <1>3, <3>2, <3>3
  <2> QED
    BY <2>5, <2>6
<1>5. CASE Server!Collected(c)
  <2>1. /\ task' = task /\ task[c] = "done"
        /\ clientSocket'[c] = "deleted" /\ toPool'[c] = <<>>
        /\ \A d \in Clients \ {c} : clientSocket'[d] = clientSocket[d] /\ toPool'[d] = toPool[d]
        /\ toPool[c] \in Seq(Posts) /\ "delete" \in Server!ToSet(toPool[c])
    BY <1>5 DEF Server!Collected, ServerTypes, ServerTasks
  <2>2. ToDelete(c) /\ ~ToDelete(c)' /\ ~ToQuit(c)'
    <3>1. Has(toPool[c], "delete")
      BY <2>1, InSet
    <3> QED
      BY <2>1, <3>1 DEF ToDelete, ToQuit, Has
  <2>3. \A d \in Clients \ {c} : ToDelete(d)' = ToDelete(d) /\ ToQuit(d)' = ToQuit(d)
    BY <2>1 DEF ToDelete, ToQuit
  <2>4. ClientOK(c)'
    BY <1>1, <1>2, <2>1, <2>2
  <2>5. \A d \in Clients \ {c} : ClientOK(d)'
    BY <1>1, <1>2, <2>1, <2>3
  <2> QED
    BY <1>3, <2>4, <2>5
<1> QED
  BY <1>4, <1>5

-----------------------------------------------------------------------------
(* The TCP server: who is served *)

ServerInvariant ==
    /\ ServerTypes /\ PoolOK
    /\ serverCrashed = "no" => ClientsOK
    /\ Server!SendsFindTheirSockets

LEMMA ServerStart == Server!Init => ServerInvariant
<1> SUFFICES ASSUME Server!Init PROVE ServerInvariant
  OBVIOUS
<1>1. \A c \in Clients : /\ ~CallCreate(c) /\ ~CallDelete(c) /\ ~ToDelete(c) /\ ~Known(c)
                         /\ ~ToStop(c) /\ task[c] = "none" /\ clientSocket[c] = "none"
  BY DEF Server!Init, CallCreate, CallDelete, ToDelete, Known, ToStop, Has
<1>2. serverOpened = listening /\ gui = "loop" /\ stopping = <<>> /\ waitsFor = {}
      /\ serverCrashed = "no"
  BY DEF Server!Init
<1>3. GuiOK
  BY <1>1, <1>2 DEF GuiOK
<1>4. \A c \in Clients : ClientOK(c)
  BY <1>1 DEF ClientOK, NotYetRun, WillBeStopped, WillQuit, WasOnTheWay, DeletedAtTheEnd
<1> QED
  BY <1>2, <1>3, <1>4, ServerInit DEF ServerInvariant, ClientsOK, Server!SendsFindTheirSockets

LEMMA SendsStep ==
    ASSUME ServerInvariant, [Server!Next]_Server!vars PROVE Server!SendsFindTheirSockets'
<1> SUFFICES ASSUME serverCrashed' = "send" PROVE hungUp' # {}
  BY DEF Server!SendsFindTheirSockets
<1>1. CASE Server!sendMessageToClients /\ serverCrashed = "no"
  <2>1. PICK c \in Server!Registered : clientSocket[c] = "deleted"
    BY <1>1 DEF Server!sendMessageToClients
  <2>2. client_sockets_ \in Seq(Clients)
    BY DEF ServerInvariant, ServerTypes, ServerLists
  <2>3. Known(c) /\ c \in Clients
    <3>1. Has(client_sockets_, c)
      BY <2>1, <2>2, InSet DEF Server!Registered
    <3> QED
      BY <2>2, <3>1, ElementOfSeq DEF Known, Has
  <2>4. gui = "loop" /\ hungUp' = hungUp
    BY <1>1 DEF Server!sendMessageToClients
  <2> QED
    BY <1>1, <2>1, <2>3, <2>4 DEF ServerInvariant, ClientsOK, ClientOK, DeletedAtTheEnd
<1>2. CASE UNCHANGED Server!vars
  BY <1>2 DEF Server!vars, ServerInvariant, Server!SendsFindTheirSockets
<1>3. CASE /\ serverCrashed = "no"
           /\ \/ Server!ClickOn \/ Server!ClickOff \/ Server!StopNext
              \/ Server!waitForDisconnected \/ Server!StopEnds \/ Server!QueuedCall
              \/ \E c \in Clients :
                     \/ Server!incomingConnection(c) \/ Server!run(c)
                     \/ Server!DataArrives(c) \/ Server!Disconnects(c)
                     \/ Server!PostedCall(c) \/ Server!runEnds(c) \/ Server!Collected(c)
  <2>1. serverCrashed' \in {"no", "refused", "stop", "read"}
    BY <1>3 DEF Server!ClickOn, Server!ClickOff, Server!StopNext, Server!waitForDisconnected,
       Server!StopEnds, Server!QueuedCall, Server!incomingConnection, Server!run,
       Server!DataArrives, Server!Disconnects, Server!PostedCall, Server!runEnds,
       Server!Collected
  <2> QED
    BY <2>1
<1> QED
  BY <1>1, <1>2, <1>3, ServerSteps

LEMMA ServerInvariantStep ==
    ASSUME ServerInvariant, [Server!Next]_Server!vars PROVE ServerInvariant'
<1>1. ServerTypes /\ PoolOK
  BY DEF ServerInvariant
<1>2. ServerTypes' /\ PoolOK'
  BY <1>1, ServerFlagsStep, ServerDataStep, ServerListsStep, ServerTasksStep, PoolStep
     DEF ServerTypes
<1>3. ASSUME serverCrashed' = "no" PROVE ClientsOK'
  <2>1. CASE UNCHANGED Server!vars
    <3>1. ClientsOK
      BY <1>3, <2>1 DEF ServerInvariant, Server!vars
    <3> QED
      BY <2>1, <3>1, ListsKept DEF ClientsOK, GuiOK, ClientOK, NotYetRun, WillBeStopped, WillQuit,
         WasOnTheWay, DeletedAtTheEnd, Server!vars, Server!server, Server!pool
  <2>2. CASE serverCrashed = "no"
    <3>1. ClientsOK
      BY <2>2 DEF ServerInvariant
    <3> QED
      BY <1>1, <1>3, <2>1, <2>2, <3>1, ServerSteps, ClickStep, StopEndsStep, SendStep,
         StoppingStep, QueuedStep, IncomingStep, RunStep, SocketSignalStep, PostedStep
  <2> QED
    BY <2>1, <2>2, ServerSteps
<1> QED
  BY <1>2, <1>3, SendsStep DEF ServerInvariant

LEMMA ServerTypeOK == ServerInvariant => Server!TypeOK
<1> SUFFICES ASSUME ServerTypes, PoolOK PROVE Server!TypeOK
  BY DEF ServerInvariant
<1>1. ServerFlags /\ ServerData /\ ServerLists /\ ServerTasks
  BY DEF ServerTypes
<1>2. /\ Server!Cardinality(Server!Busy) <= MaxThreads
      /\ waiting # <<>> => Server!Cardinality(Server!Busy) = MaxThreads
  BY SameCount DEF PoolOK
<1> QED
  BY <1>1, <1>2 DEF Server!TypeOK, ServerFlags, ServerData, ServerLists, ServerTasks, Tasks,
     Sockets, Posts

\* At rest no thread has anything left to do for a client of a stopped server.
LEMMA ServedByNobody ==
    ASSUME ServerInvariant, serverCrashed = "no", Server!Quiet, ~listening
    PROVE  \A c \in Clients \ late : task[c] \in {"none", "done"} \/ clientSocket[c] = "closing"
<1> SUFFICES ASSUME NEW c \in Clients, c \notin late, task[c] \notin {"none", "done"}
             PROVE  clientSocket[c] = "closing"
  OBVIOUS
<1>1. ClientOK(c) /\ task \in [Clients -> Tasks] /\ clientSocket \in [Clients -> Sockets]
  BY DEF ServerInvariant, ClientsOK, ServerTypes, ServerTasks
<1>2. /\ gui = "loop" /\ toPool[c] = <<>> /\ task[c] \notin {"starting", "quitting"}
  BY DEF Server!Quiet
<1>3. ~ToQuit(c)
  BY <1>2 DEF ToQuit, Has
<1>4. task[c] = "running"
  BY <1>1, <1>2 DEF ClientOK, WasOnTheWay, Tasks
<1>5. clientSocket[c] \notin {"none", "unconnected", "deleted", "connected"}
  BY <1>1, <1>2, <1>3, <1>4 DEF ClientOK, WillQuit, WillBeStopped
<1> QED
  BY <1>1, <1>5 DEF Sockets

\* A server that was stopped serves nobody once it has come to rest, and no
\* message goes to a socket that was deleted unless a client has hung up.
LEMMA ServerSafe ==
    Server!Spec => [](Server!StoppedServesNobody /\ Server!SendsFindTheirSockets)
<1>1. ServerInvariant => Server!StoppedServesNobody /\ Server!SendsFindTheirSockets
  <2> SUFFICES ASSUME ServerInvariant
               PROVE  Server!StoppedServesNobody /\ Server!SendsFindTheirSockets
    OBVIOUS
  <2>1. Server!SendsFindTheirSockets
    BY DEF ServerInvariant
  <2>2. Server!StoppedServesNobody
    BY ServerTypeOK, ServedByNobody DEF Server!StoppedServesNobody
  <2> QED
    BY <2>1, <2>2
<1>2. ServerInvariant /\ [Server!Next]_Server!vars => ServerInvariant'
  BY ServerInvariantStep
<1> QED
  BY <1>1, <1>2, ServerStart, PTL DEF Server!Spec

-----------------------------------------------------------------------------
(* A window is of one kind *)

LEMMA KindsApart == AnySpec => Spec /\ Server!Spec /\ Udp!Spec /\ Mqtt!Spec
<1> DEFINE everything == <<kind, vars, serverVars, udpVars, mqttVars>>
<1>1. AnyInit => Init /\ Server!Init /\ Udp!Init /\ Mqtt!Init
  BY DEF AnyInit
<1>2. [AnyNext]_everything => [Next]_vars
  BY DEF AnyNext, ClientStep, ServerStep, UdpStep, MqttStep
<1>3. [AnyNext]_everything => [Server!Next]_Server!vars
  BY DEF AnyNext, ClientStep, ServerStep, UdpStep, MqttStep, serverVars, Server!vars,
     Server!server, Server!pool
<1>4. [AnyNext]_everything => [Udp!Next]_Udp!vars
  BY DEF AnyNext, ClientStep, ServerStep, UdpStep, MqttStep, udpVars, Udp!vars, Udp!window
<1>5. [AnyNext]_everything => [Mqtt!Next]_Mqtt!vars
  BY DEF AnyNext, ClientStep, ServerStep, UdpStep, MqttStep, mqttVars, Mqtt!vars
<1> QED
  BY <1>1, <1>2, <1>3, <1>4, <1>5, PTL DEF AnySpec, Spec, Server!Spec, Udp!Spec, Mqtt!Spec
-----------------------------------------------------------------------------
(* UDP *)

UdpFlags ==
    /\ udpOpened \in BOOLEAN /\ udpTicking \in BOOLEAN /\ beating \in BOOLEAN
    /\ udpPackaged \in BOOLEAN /\ marked \in BOOLEAN /\ bound \in BOOLEAN

UdpData ==
    /\ udpOpened => clicks # 0
    /\ udpControls \in {"fresh", "locked", "free"}
    /\ clicks \in 0 .. MaxClicks
    /\ udpQueue \in Seq(1 .. MaxClicks) /\ Len(udpQueue) <= 2
    /\ known_clients_ \subseteq Peers

\* Only a link that somebody has clicked on is open.
UdpWindow ==
    /\ role \in {"Client", "Server"}
    /\ role = "Server" => ~udpPackaged /\ ~udpTicking /\ ~beating
    /\ ended \in {"never", "refused", "click", "error"}
    /\ udpOpened => bound /\ marked /\ udpControls = "locked" /\ (udpTicking = (role = "Client"))
    /\ ~udpOpened => ~udpTicking /\ ~beating /\ udpQueue = <<>>
    /\ ~udpOpened /\ ended = "click" => ~bound
    /\ ~udpOpened /\ ended \in {"click", "error"} => ~marked /\ udpControls = "free"

UdpInvariant == UdpFlags /\ UdpData /\ UdpWindow

\* Every action that sends leaves all but the queue alone, or reports an error.
UdpSending ==
    \/ UNCHANGED <<udpOpened, udpControls, udpTicking, beating, marked, ended>>
    \/ Udp!errorOccurred /\ ended' = "error"

LEMMA UdpSends ==
    ASSUME Udp!sendMessage \/ Udp!sendPackagedData \/ Udp!sendPackageTimeout
    PROVE  /\ UdpSending
           /\ UNCHANGED <<role, udpPackaged, clicks, bound, known_clients_>>
  BY DEF UdpSending, Udp!sendMessage, Udp!sendPackagedData, Udp!sendPackageTimeout,
     Udp!writePendingDatagrams

LEMMA UdpWindowStep ==
    ASSUME UdpFlags, UdpWindow, [Udp!Next]_Udp!vars PROVE UdpFlags' /\ UdpWindow'
<1> USE DEF Udp!window
<1>1. CASE Udp!ClickOn
  <2>1. /\ marked' = TRUE /\ udpControls' = "locked" /\ UNCHANGED <<role, udpPackaged>>
        /\ Udp!connectToOther \/ Udp!listen
    BY <1>1 DEF Udp!ClickOn, Udp!setControlState
  <2>2. CASE Udp!connectToOther
    <3>1. UdpFlags'
      BY <2>1, <2>2 DEF Udp!connectToOther, Udp!connected, Udp!StaysClosed, UdpFlags
    <3>2. UdpWindow'
      BY <2>1, <2>2 DEF Udp!connectToOther, Udp!connected, Udp!StaysClosed, UdpWindow
    <3> QED
      BY <3>1, <3>2
  <2>3. CASE Udp!listen
    <3>1. UdpFlags'
      BY <2>1, <2>3 DEF Udp!listen, Udp!StaysClosed, UdpFlags
    <3>2. UdpWindow'
      BY <2>1, <2>3 DEF Udp!listen, Udp!StaysClosed, UdpFlags, UdpWindow
    <3> QED
      BY <3>1, <3>2
  <2> QED
    BY <2>1, <2>2, <2>3
<1>2. CASE Udp!ClickOff
  <2>1. UdpFlags'
    BY <1>2 DEF Udp!ClickOff, Udp!close, Udp!errorOccurred, UdpFlags
  <2>2. UdpWindow'
    BY <1>2 DEF Udp!ClickOff, Udp!close, Udp!errorOccurred, Udp!setControlState, UdpWindow
  <2> QED
    BY <2>1, <2>2
<1>3. CASE Udp!sendPackageMaxSizeChanged \/ Udp!readPendingDatagrams \/ UNCHANGED Udp!vars
  <2>1. UdpFlags'
    BY <1>3 DEF Udp!sendPackageMaxSizeChanged, Udp!readPendingDatagrams, Udp!vars, UdpFlags
  <2>2. UdpWindow'
    BY <1>3 DEF Udp!sendPackageMaxSizeChanged, Udp!readPendingDatagrams, Udp!vars, UdpWindow
  <2> QED
    BY <2>1, <2>2
<1>4. CASE Udp!sendMessage \/ Udp!sendPackagedData \/ Udp!sendPackageTimeout
  <2>1. CASE Udp!errorOccurred /\ ended' = "error"
    <3>1. UdpFlags'
      BY <1>4, <2>1, UdpSends DEF Udp!errorOccurred, UdpFlags
    <3>2. UdpWindow'
      BY <1>4, <2>1, UdpSends DEF Udp!errorOccurred, Udp!setControlState, UdpWindow
    <3> QED
      BY <3>1, <3>2
  <2>2. CASE UNCHANGED <<udpOpened, udpControls, udpTicking, beating, marked, ended>>
    <3>1. udpOpened
      BY <1>4 DEF Udp!sendMessage, Udp!sendPackagedData, Udp!sendPackageTimeout, UdpWindow
    <3>2. UNCHANGED <<role, udpPackaged, bound>> /\ udpOpened'
      BY <1>4, <2>2, <3>1, UdpSends
    <3>3. UdpFlags'
      BY <2>2, <3>2 DEF UdpFlags
    <3>4. UdpWindow'
      BY <2>2, <3>1, <3>2 DEF UdpWindow
    <3> QED
      BY <3>3, <3>4
  <2> QED
    BY <1>4, <2>1, <2>2, UdpSends DEF UdpSending
<1> QED
  BY <1>1, <1>2, <1>3, <1>4
     DEF Udp!Next, Udp!setHeartbeartContent, Udp!sendInstructionTableContent

LEMMA UdpDataStep ==
    ASSUME UdpInvariant, [Udp!Next]_Udp!vars PROVE UdpData'
<1>1. /\ udpControls \in {"fresh", "locked", "free"} /\ clicks \in 0..MaxClicks
      /\ udpQueue \in Seq(1..MaxClicks) /\ Len(udpQueue) <= 2
      /\ known_clients_ \subseteq Peers /\ (udpOpened => clicks # 0)
      /\ MaxClicks \in Nat
  BY Bounds DEF UdpInvariant, UdpData
<1>2. udpControls' \in {"fresh", "locked", "free"}
  BY <1>1 DEF Udp!Next, Udp!ClickOn, Udp!ClickOff, Udp!sendPackageMaxSizeChanged,
     Udp!sendMessage, Udp!setHeartbeartContent, Udp!sendInstructionTableContent,
     Udp!sendPackagedData, Udp!sendPackageTimeout, Udp!readPendingDatagrams,
     Udp!writePendingDatagrams, Udp!errorOccurred, Udp!setControlState, Udp!vars, Udp!window
<1>3. known_clients_' \subseteq Peers
  BY <1>1 DEF Udp!Next, Udp!ClickOn, Udp!ClickOff, Udp!sendPackageMaxSizeChanged,
     Udp!sendMessage, Udp!setHeartbeartContent, Udp!sendInstructionTableContent,
     Udp!sendPackagedData, Udp!sendPackageTimeout, Udp!readPendingDatagrams, Udp!vars
<1>4. /\ clicks' \in 0..MaxClicks
      /\ clicks' = clicks \/ clicks' # 0
  <2>1. clicks' = clicks \/ (clicks < MaxClicks /\ clicks' = clicks + 1)
    BY DEF Udp!Next, Udp!ClickOn, Udp!ClickOff, Udp!sendPackageMaxSizeChanged,
       Udp!sendMessage, Udp!setHeartbeartContent, Udp!sendInstructionTableContent,
       Udp!sendPackagedData, Udp!sendPackageTimeout, Udp!readPendingDatagrams, Udp!vars
  <2> QED
    BY <1>1, <2>1
<1>5. udpOpened' => udpOpened \/ clicks' # 0
  <2>1. udpOpened' => udpOpened \/ (clicks' = clicks + 1)
    BY DEF Udp!Next, Udp!ClickOn, Udp!ClickOff, Udp!sendPackageMaxSizeChanged,
       Udp!sendMessage, Udp!setHeartbeartContent, Udp!sendInstructionTableContent,
       Udp!sendPackagedData, Udp!sendPackageTimeout, Udp!readPendingDatagrams,
       Udp!writePendingDatagrams, Udp!errorOccurred, Udp!vars, Udp!window
  <2> QED
    BY <1>1, <2>1
<1>6. \/ udpQueue' = udpQueue \/ udpQueue' = <<>>
      \/ udpOpened /\ udpQueue' = <<clicks, clicks>>
      \/ udpQueue # <<>> /\ udpQueue' = Tail(udpQueue)
  BY DEF Udp!Next, Udp!ClickOn, Udp!ClickOff, Udp!connectToOther, Udp!listen, Udp!connected,
     Udp!StaysClosed, Udp!sendPackageMaxSizeChanged, Udp!sendMessage,
     Udp!setHeartbeartContent, Udp!sendInstructionTableContent, Udp!sendPackagedData,
     Udp!sendPackageTimeout, Udp!readPendingDatagrams, Udp!writePendingDatagrams,
     Udp!errorOccurred, Udp!vars, Udp!window
<1>7. udpQueue' \in Seq(1..MaxClicks) /\ Len(udpQueue') <= 2
  <2>1. CASE udpQueue' = udpQueue
    BY <1>1, <2>1
  <2>2. CASE udpQueue' = <<>>
    BY <2>2
  <2>3. CASE udpOpened /\ udpQueue' = <<clicks, clicks>>
    <3>1. clicks \in 1..MaxClicks
      BY <1>1, <2>3
    <3> QED
      BY <2>3, <3>1
  <2>4. CASE udpQueue # <<>> /\ udpQueue' = Tail(udpQueue)
    BY <1>1, <2>4, HeadTailProperties, EmptySeq
  <2> QED
    BY <1>6, <2>1, <2>2, <2>3, <2>4
<1> QED
  BY <1>1, <1>2, <1>3, <1>4, <1>5, <1>7 DEF UdpData

\* The window of a UDP link shows what became of its socket.
LEMMA UdpShown == Udp!Spec => []Udp!WindowShowsTheSocket
<1>1. Udp!Init => UdpInvariant
  <2> SUFFICES ASSUME Udp!Init PROVE UdpFlags /\ UdpData /\ UdpWindow
    BY DEF UdpInvariant
  <2>1. UdpFlags
    BY DEF Udp!Init, UdpFlags
  <2>2. UdpData
    BY Bounds, EmptySeq DEF Udp!Init, UdpData
  <2>3. UdpWindow
    BY DEF Udp!Init, UdpWindow
  <2> QED
    BY <2>1, <2>2, <2>3
<1>2. UdpInvariant /\ [Udp!Next]_Udp!vars => UdpInvariant'
  BY UdpWindowStep, UdpDataStep DEF UdpInvariant
<1>3. UdpInvariant => Udp!WindowShowsTheSocket
  BY DEF UdpInvariant, UdpFlags, UdpData, UdpWindow, Udp!WindowShowsTheSocket, Udp!TypeOK
<1> QED
  BY <1>1, <1>2, <1>3, PTL DEF Udp!Spec
-----------------------------------------------------------------------------
(* MQTT *)

MqttData ==
    /\ rows \in Seq(Topics) /\ Len(rows) <= MaxRows
    /\ chat \in Seq({"me", "broker"}) /\ Len(chat) <= MaxChat

MqttButton ==
    /\ mqttOpened \in BOOLEAN /\ mqttChecked \in BOOLEAN /\ refused \in BOOLEAN
    /\ state \in {"Disconnected", "Connecting", "Connected"}
    /\ dialog \in {"closed", "open", "fading"}
    /\ state # "Connecting" /\ ~refused => mqttChecked = (state = "Connected")
    /\ subscribed # {} => state = "Connected"

Listed == {rows[i] : i \in 1..Len(rows)}

MqttTopics ==
    /\ subscribed \subseteq Topics /\ deleted \subseteq Topics
    /\ subscribed \subseteq Listed \cup deleted

MqttInvariant == MqttData /\ MqttButton /\ MqttTopics

LEMMA MqttButtonStep ==
    ASSUME MqttInvariant, [Mqtt!Next]_Mqtt!vars PROVE MqttButton'
  BY DEF MqttInvariant, MqttButton, Mqtt!Next, Mqtt!ClickOn, Mqtt!ClickOff, Mqtt!connected,
     Mqtt!Breaks, Mqtt!disconnected, Mqtt!connectToHost, Mqtt!OpenDialog, Mqtt!CloseDialog,
     Mqtt!DialogGone, Mqtt!saveConfigToManager, Mqtt!subscribe, Mqtt!deleteAction,
     Mqtt!Publish, Mqtt!dataReceived, Mqtt!vars

\* A row that is removed is the only one that is gone.
LEMMA RemovedRow ==
    ASSUME NEW S, NEW s \in Seq(S), NEW i \in 1..Len(s)
    PROVE  /\ Mqtt!RemoveAt(s, i) \in Seq(S)
           /\ Len(Mqtt!RemoveAt(s, i)) = Len(s) - 1
           /\ \A j \in 1..Len(s) :
                  j = i \/ \E k \in 1..(Len(s) - 1) : Mqtt!RemoveAt(s, i)[k] = s[j]
<1> DEFINE n == Len(s)
           a == SubSeq(s, 1, i - 1)
           b == SubSeq(s, i + 1, n)
<1>1. n \in Nat /\ i \in 1..n
  OBVIOUS
<1>2. /\ a \in Seq(S) /\ Len(a) = i - 1 /\ \A k \in 1..(i - 1) : a[k] = s[k]
  BY <1>1, ElementOfSeq
<1>3. /\ b \in Seq(S) /\ Len(b) = n - i /\ \A k \in 1..(n - i) : b[k] = s[i + k]
  BY <1>1, ElementOfSeq
<1>4. Mqtt!RemoveAt(s, i) = a \o b
  BY DEF Mqtt!RemoveAt
<1> HIDE DEF a, b
<1>5. /\ a \o b \in Seq(S) /\ Len(a \o b) = n - 1
      /\ \A k \in 1..(n - 1) : (a \o b)[k] = IF k < i THEN s[k] ELSE s[k + 1]
  <2>1. /\ a \o b \in Seq(S) /\ Len(a \o b) = (i - 1) + (n - i)
        /\ \A k \in 1..((i - 1) + (n - i)) :
               (a \o b)[k] = IF k <= i - 1 THEN a[k] ELSE b[k - (i - 1)]
    <3>1. /\ a \o b \in Seq(S) /\ Len(a \o b) = Len(a) + Len(b)
          /\ \A k \in 1..(Len(a) + Len(b)) :
                 (a \o b)[k] = IF k <= Len(a) THEN a[k] ELSE b[k - Len(a)]
      BY <1>2, <1>3, ConcatProperties
    <3> QED
      BY <1>2, <1>3, <3>1
  <2>2. (i - 1) + (n - i) = n - 1
    BY <1>1
  <2>3. ASSUME NEW k \in 1..(n - 1)
        PROVE  (a \o b)[k] = IF k < i THEN s[k] ELSE s[k + 1]
    <3>1. CASE k < i
      BY <1>1, <1>2, <2>1, <2>2, <3>1
    <3>2. CASE ~(k < i)
      <4>1. k - (i - 1) \in 1..(n - i) /\ i + (k - (i - 1)) = k + 1 /\ ~(k <= i - 1)
        BY <1>1, <3>2
      <4> QED
        BY <1>3, <2>1, <2>2, <3>2, <4>1
    <3> QED
      BY <3>1, <3>2
  <2> QED
    BY <2>1, <2>2, <2>3
<1>6. ASSUME NEW j \in 1..n, j # i
      PROVE  \E k \in 1..(n - 1) : (a \o b)[k] = s[j]
  <2>1. CASE j < i
    <3>1. j \in 1..(n - 1) /\ (a \o b)[j] = s[j]
      BY <1>1, <1>5, <2>1
    <3> QED
      BY <3>1
  <2>2. CASE j > i
    <3>1. j - 1 \in 1..(n - 1) /\ ~(j - 1 < i) /\ (j - 1) + 1 = j
      BY <1>1, <2>2
    <3>2. (a \o b)[j - 1] = s[j]
      BY <1>5, <3>1
    <3> QED
      BY <3>1, <3>2
  <2> QED
    BY <1>1, <1>6, <2>1, <2>2, j < i \/ j > i
<1> QED
  BY <1>4, <1>5, <1>6

LEMMA MqttDataStep ==
    ASSUME MqttInvariant, [Mqtt!Next]_Mqtt!vars PROVE MqttData' /\ MqttTopics'
<1>1. /\ rows \in Seq(Topics) /\ Len(rows) <= MaxRows
      /\ chat \in Seq({"me", "broker"}) /\ Len(chat) <= MaxChat
      /\ subscribed \subseteq Topics /\ deleted \subseteq Topics
      /\ subscribed \subseteq Listed \cup deleted
      /\ MaxRows \in Nat /\ MaxChat \in Nat
      /\ subscribed # {} => state = "Connected"
  BY Bounds DEF MqttInvariant, MqttData, MqttTopics, MqttButton
<1>2. chat' \in Seq({"me", "broker"}) /\ Len(chat') <= MaxChat
  <2>1. \/ chat' = chat
        \/ Len(chat) < MaxChat /\ chat' = Append(chat, "me")
        \/ Len(chat) < MaxChat /\ chat' = Append(chat, "broker")
    BY DEF Mqtt!Next, Mqtt!ClickOn, Mqtt!ClickOff, Mqtt!connected, Mqtt!Breaks,
       Mqtt!OpenDialog, Mqtt!CloseDialog, Mqtt!DialogGone, Mqtt!saveConfigToManager,
       Mqtt!deleteAction, Mqtt!Publish, Mqtt!dataReceived, Mqtt!vars
  <2>2. CASE chat' = chat
    BY <1>1, <2>2
  <2>3. CASE Len(chat) < MaxChat /\ chat' = Append(chat, "me")
    BY <1>1, <2>3
  <2>4. CASE Len(chat) < MaxChat /\ chat' = Append(chat, "broker")
    BY <1>1, <2>4
  <2> QED
    BY <2>1, <2>2, <2>3, <2>4
<1>3. CASE Mqtt!saveConfigToManager
  <2>1. PICK topic \in Topics : /\ rows' = Append(rows, topic) /\ Len(rows) < MaxRows
                               /\ subscribed' \subseteq subscribed \cup {topic}
                               /\ deleted' = deleted
    BY <1>3 DEF Mqtt!saveConfigToManager, Mqtt!subscribe
  <2>2. rows' \in Seq(Topics) /\ Len(rows') <= MaxRows
    BY <1>1, <2>1
  <2>3. Listed \cup {topic} \subseteq Listed'
    <3>1. /\ Len(rows') = Len(rows) + 1 /\ rows'[Len(rows) + 1] = topic
          /\ \A i \in 1..Len(rows) : rows'[i] = rows[i]
      BY <1>1, <2>1
    <3> QED
      BY <1>1, <3>1 DEF Listed
  <2> QED
    BY <1>1, <1>2, <2>1, <2>2, <2>3 DEF MqttData, MqttTopics
<1>4. CASE Mqtt!deleteAction
  <2>1. PICK row \in 1..Len(rows) : /\ rows' = Mqtt!RemoveAt(rows, row)
                                  /\ deleted' = deleted \cup {rows[row]}
    BY <1>1, <1>4 DEF Mqtt!deleteAction
  <2>2. subscribed' = subscribed
    BY <1>4 DEF Mqtt!deleteAction
  <2>3. /\ rows' \in Seq(Topics) /\ Len(rows') = Len(rows) - 1
        /\ Listed \subseteq Listed' \cup {rows[row]}
    <3>1. /\ rows' \in Seq(Topics) /\ Len(rows') = Len(rows) - 1
          /\ \A j \in 1..Len(rows) :
                 j = row \/ \E k \in 1..(Len(rows) - 1) : rows'[k] = rows[j]
      BY <1>1, <2>1, RemovedRow
    <3> QED
      BY <3>1 DEF Listed
  <2>4. rows[row] \in Topics /\ Len(rows') <= MaxRows
    BY <1>1, <2>3, ElementOfSeq
  <2> QED
    BY <1>1, <1>2, <2>1, <2>2, <2>3, <2>4 DEF MqttData, MqttTopics
<1>5. CASE /\ rows' = rows
           /\ \/ UNCHANGED <<subscribed, deleted>>
              \/ subscribed' = {} /\ deleted' = {}
  BY <1>1, <1>2, <1>5 DEF MqttData, MqttTopics, Listed
<1>6. CASE \/ Mqtt!Next /\ ~Mqtt!saveConfigToManager /\ ~Mqtt!deleteAction
           \/ UNCHANGED Mqtt!vars
  BY <1>5, <1>6 DEF Mqtt!Next, Mqtt!ClickOn, Mqtt!ClickOff, Mqtt!connected, Mqtt!Breaks,
     Mqtt!disconnected, Mqtt!OpenDialog, Mqtt!CloseDialog, Mqtt!DialogGone, Mqtt!Publish,
     Mqtt!dataReceived, Mqtt!vars
<1> QED
  BY <1>3, <1>4, <1>6

\* The button of an MQTT window shows the connection, and its list what is heard.
LEMMA MqttShown == Mqtt!Spec => []Mqtt!ButtonShowsTheConnection
<1>1. Mqtt!Init => MqttInvariant
  <2> SUFFICES ASSUME Mqtt!Init PROVE MqttData /\ MqttButton /\ MqttTopics
    BY DEF MqttInvariant
  <2>1. MqttData
    BY Bounds, EmptySeq DEF Mqtt!Init, MqttData
  <2>2. MqttButton /\ MqttTopics
    BY DEF Mqtt!Init, MqttButton, MqttTopics
  <2> QED
    BY <2>1, <2>2
<1>2. MqttInvariant /\ [Mqtt!Next]_Mqtt!vars => MqttInvariant'
  BY MqttButtonStep, MqttDataStep DEF MqttInvariant
<1>3. MqttInvariant => Mqtt!ButtonShowsTheConnection
  <2> SUFFICES ASSUME MqttInvariant PROVE Mqtt!ButtonShowsTheConnection
    OBVIOUS
  <2>1. Listed = Mqtt!ToSet(rows)
    BY DEF MqttInvariant, MqttData, Listed, Mqtt!ToSet
  <2> QED
    BY <2>1 DEF MqttInvariant, MqttData, MqttButton, MqttTopics,
       Mqtt!ButtonShowsTheConnection, Mqtt!TypeOK
<1> QED
  BY <1>1, <1>2, <1>3, PTL DEF Mqtt!Spec

\* Of each kind of window: what it shows of its link is true.
THEOREM WindowsShowTheLinkAlways == AnySpec => []WindowsShowTheLink
  BY KindsApart, RestShowsTheTruthAlways, UdpShown, MqttShown, PTL DEF WindowsShowTheLink

\* A stopped server serves nobody, and no message goes to a socket that is gone.
THEOREM StoppedServesNobodyAlways == AnySpec => []StoppedServesNobody
  BY KindsApart, ServerSafe, PTL DEF StoppedServesNobody

\* Nothing that was typed for one session is sent in another.
THEOREM SentInItsSessionInAny == AnySpec => []SentInItsSession
  BY KindsApart, SentInItsSessionAlways, PTL
=============================================================================
