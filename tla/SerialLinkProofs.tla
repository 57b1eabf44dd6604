---------------------------- MODULE SerialLinkProofs ----------------------------
(***************************************************************************)
(* The serial port and its window, proved for any number of sessions,      *)
(* chunks and calls under way: what goes over the wire is what the window  *)
(* showed as sent, and a window at rest shows the truth.                   *)
(*                                                                         *)
(* The invariant follows the calls posted to the worker: for an orderly    *)
(* user openSerialPort and closeSerialPort come first, and the chunks in   *)
(* the calls, in send_queue_ and on the wire are numbered through.         *)
(***************************************************************************)
EXTENDS SerialLink, TLAPS

-----------------------------------------------------------------------------
(* Queues *)

LEMMA QueueTail ==
    ASSUME NEW S, NEW s \in Seq(S), s # <<>>
    PROVE  /\ Len(s) \in Nat /\ Len(s) >= 1 /\ Head(s) = s[1] /\ Head(s) \in S
           /\ Tail(s) \in Seq(S) /\ Len(Tail(s)) = Len(s) - 1
           /\ \A i \in 1 .. Len(s) - 1 : Tail(s)[i] = s[i + 1]
           /\ \A i \in 2 .. Len(s) : s[i] = Tail(s)[i - 1]
  OBVIOUS

LEMMA QueueAppend ==
    ASSUME NEW S, NEW s \in Seq(S), NEW x \in S
    PROVE  /\ Len(s) \in Nat
           /\ Append(s, x) \in Seq(S) /\ Len(Append(s, x)) = Len(s) + 1
           /\ Append(s, x)[Len(s) + 1] = x
           /\ \A i \in 1 .. Len(s) : Append(s, x)[i] = s[i]
  OBVIOUS

LEMMA QueueConcat ==
    ASSUME NEW S, NEW s \in Seq(S), NEW t \in Seq(S)
    PROVE  /\ Len(s) \in Nat /\ Len(t) \in Nat
           /\ s \o t \in Seq(S) /\ Len(s \o t) = Len(s) + Len(t)
           /\ \A i \in 1 .. Len(s) : (s \o t)[i] = s[i]
           /\ \A i \in 1 .. Len(t) : (s \o t)[Len(s) + i] = t[i]
  OBVIOUS

LEMMA QueueEmpty ==
    ASSUME NEW S
    PROVE  <<>> \in Seq(S) /\ Len(<<>>) = 0 /\ \A s \in Seq(S) : s = <<>> <=> Len(s) = 0
  OBVIOUS

-----------------------------------------------------------------------------
(* The calls posted to the worker *)

Opening == <<"openSerialPort">>
Closing == <<"closeSerialPort">>
Blocking == <<"closeBlocking">>
SendOf(chunk) == <<"sendData", chunk>>
IsSend(call) == call[1] = "sendData"

LEMMA CallKinds ==
    /\ Opening \in Calls /\ Closing \in Calls /\ Blocking \in Calls /\ Write \in Calls
    /\ Opening # Closing /\ Opening # Blocking /\ Opening # Write
    /\ Closing # Blocking /\ Closing # Write /\ Blocking # Write
    /\ ~IsSend(Opening) /\ ~IsSend(Closing) /\ ~IsSend(Blocking) /\ ~IsSend(Write)
    /\ \A chunk \in Chunks :
           SendOf(chunk) \in Calls /\ IsSend(SendOf(chunk)) /\ SendOf(chunk)[2] = chunk
    /\ \A call \in Calls : \/ call \in {Opening, Closing, Blocking, Write}
                           \/ IsSend(call) /\ call[2] \in Chunks /\ call = SendOf(call[2])
  BY DEF Calls, Opening, Closing, Blocking, Write, SendOf, IsSend

LEMMA ChunkType ==
    ASSUME NEW for \in 1 .. MaxSessions, NEW number \in 1 .. MaxShown,
           NEW faithful \in BOOLEAN, session \in 1 .. MaxSessions
    PROVE  /\ Chunk(for, number, faithful) \in Chunks
           /\ Chunk(for, number, faithful).for = for
           /\ Chunk(for, number, faithful).at = session
           /\ Chunk(for, number, faithful).no = number
           /\ Chunk(for, number, faithful).faithful = faithful
  BY DEF Chunk, Chunks

LEMMA ChunkFields ==
    ASSUME NEW chunk \in Chunks
    PROVE  /\ chunk.for \in 1 .. MaxSessions /\ chunk.at \in 1 .. MaxSessions
           /\ chunk.no \in 1 .. MaxShown /\ chunk.faithful \in BOOLEAN
           /\ chunk = [for |-> chunk.for, at |-> chunk.at, no |-> chunk.no,
                       faithful |-> chunk.faithful]
  BY DEF Chunks

-----------------------------------------------------------------------------
(* Types *)

\* The types, in parts that need different provers.
FlagsOK ==
    /\ opened \in BOOLEAN /\ checked \in BOOLEAN /\ ticking \in BOOLEAN
    /\ locked \in BOOLEAN /\ sendHex \in BOOLEAN
    /\ panel \in [packaged : BOOLEAN, beatHex : BOOLEAN]

StatesOK ==
    /\ gui \in {"running", "closing", "quitting", "waiting", "gone"}
    /\ delayed \subseteq 1 .. MaxSessions
    /\ session \in 0 .. MaxSessions
    /\ shown \in 0 .. MaxShown
    /\ worker \in {"running", "leaving", "gone"}
    /\ port \in 0 .. MaxSessions
    /\ readers \in Nat
    /\ careless \subseteq {"crossed", "mixed"}
    /\ port # Closed => worker # "gone"

QueueOK ==
    queue \in Seq([for : 1 .. MaxSessions, hex : BOOLEAN]) /\ Len(queue) <= 2

CallsOK ==
    /\ sendQueue \in Seq(Chunks)
    /\ wire \in Seq(Chunks)
    /\ toWorker \in Seq(Calls)
    /\ toGui \in Seq({"error", "data"})

WritePending ==
    worker = "running" /\ sendQueue # <<>> => \E i \in DOMAIN toWorker : toWorker[i] = Write

LEMMA TypeParts == TypeOK <=> FlagsOK /\ StatesOK /\ QueueOK /\ CallsOK /\ WritePending
  BY DEF TypeOK, FlagsOK, StatesOK, QueueOK, CallsOK, WritePending

\* What the window does when a posted call is taken up, by the kind of call.
Taken(call) ==
    /\ worker = "running" /\ toWorker # <<>> /\ Head(toWorker) = call
    /\ UNCHANGED <<window, typing, session, shown, worker, careless>>

TakesOpening ==
    /\ Taken(Opening) /\ openSerialPort
    /\ toWorker' = Tail(toWorker) /\ UNCHANGED <<gui, sendQueue>>
TakesClosing ==
    /\ Taken(Closing) /\ port' = Closed
    /\ toWorker' = Tail(toWorker) /\ UNCHANGED <<gui, sendQueue, readers, wire, toGui>>
TakesBlocking ==
    /\ Taken(Blocking) /\ port' = Closed /\ gui' = "quitting"
    /\ toWorker' = Tail(toWorker) /\ UNCHANGED <<sendQueue, readers, wire, toGui>>
TakesWrite ==
    /\ Taken(Write) /\ handleWriteRequest
    /\ toWorker' = Tail(toWorker) /\ UNCHANGED <<gui, port, readers, toGui>>
TakesSend ==
    \E chunk \in Chunks :
        /\ Taken(SendOf(chunk))
        /\ sendQueue' = Append(sendQueue, chunk)
        /\ toWorker' = Append(Tail(toWorker), Write)
        /\ UNCHANGED <<gui, port, readers, wire, toGui>>

LEMMA PostedCases ==
    ASSUME CallsOK, PostedCall
    PROVE  TakesOpening \/ TakesClosing \/ TakesBlocking \/ TakesWrite \/ TakesSend
<1>1. toWorker # <<>> /\ worker = "running" /\ UNCHANGED <<window, typing, session, shown, worker, careless>>
  BY DEF PostedCall
<1>2. Head(toWorker) \in Calls
  BY <1>1, QueueTail DEF CallsOK
<1> PICK call \in Calls : call = Head(toWorker)
  BY <1>2
<1>3. /\ call = <<"openSerialPort">> <=> call = Opening
      /\ call = <<"closeSerialPort">> <=> call = Closing
      /\ call = <<"closeBlocking">> <=> call = Blocking
  BY DEF Opening, Closing, Blocking
<1>4. Head(call) = call[1]
  BY DEF Calls, Write
<1>5. CASE call = Opening /\ openSerialPort /\ toWorker' = Tail(toWorker)
           /\ UNCHANGED <<gui, sendQueue>>
  BY <1>1, <1>5 DEF TakesOpening, Taken
<1>6. CASE call = Closing /\ closeSerialPort /\ toWorker' = Tail(toWorker)
           /\ UNCHANGED <<gui, sendQueue, readers, wire, toGui>>
  BY <1>1, <1>6 DEF TakesClosing, Taken, closeSerialPort
<1>7. CASE call = Blocking /\ closeSerialPort /\ toWorker' = Tail(toWorker)
           /\ gui' = "quitting" /\ UNCHANGED <<sendQueue, readers, wire, toGui>>
  BY <1>1, <1>7 DEF TakesBlocking, Taken, closeSerialPort
<1>8. CASE call = Write /\ handleWriteRequest /\ toWorker' = Tail(toWorker)
           /\ UNCHANGED <<gui, port, readers, toGui>>
  BY <1>1, <1>8 DEF TakesWrite, Taken
<1>9. CASE Head(call) = "sendData" /\ sendData(call[2])
           /\ UNCHANGED <<gui, port, readers, wire, toGui>>
  <2>1. IsSend(call)
    BY <1>4, <1>9 DEF IsSend
  <2>2. call[2] \in Chunks /\ call = SendOf(call[2])
    BY <2>1, CallKinds
  <2> QED
    BY <1>1, <1>9, <2>2 DEF TakesSend, Taken, sendData
<1> QED
  BY <1>3, <1>5, <1>6, <1>7, <1>8, <1>9, Zenon DEF PostedCall

\* What Show adds to the posted calls.
Adds(fors, faithful) ==
    /\ Len(fors) >= 1 /\ shown' = shown + Len(fors) /\ shown' \in 0 .. MaxShown
    /\ toWorker' \in Seq(Calls) /\ Len(toWorker') = Len(toWorker) + Len(fors)
    /\ \A i \in 1 .. Len(toWorker) : toWorker'[i] = toWorker[i]
    /\ \A i \in 1 .. Len(fors) :
           /\ IsSend(toWorker'[Len(toWorker) + i])
           /\ toWorker'[Len(toWorker) + i][2] \in Chunks
           /\ toWorker'[Len(toWorker) + i][2] = Chunk(fors[i], shown + i, faithful)

LEMMA ShowAdds ==
    ASSUME StatesOK, CallsOK, session # 0,
           NEW fors \in Seq(1 .. MaxSessions), Len(fors) >= 1,
           NEW faithful \in BOOLEAN, Show(fors, faithful)
    PROVE  Adds(fors, faithful)
<1> DEFINE sent == [i \in DOMAIN fors |-> <<"sendData", Chunk(fors[i], shown + i, faithful)>>]
<1>0. \A S : \A s \in Seq(S) : /\ Len(s) \in Nat /\ DOMAIN s = 1 .. Len(s)
                               /\ \A i \in 1 .. Len(s) : s[i] \in S
  OBVIOUS
<1>1. /\ Len(fors) \in Nat /\ DOMAIN fors = 1 .. Len(fors)
      /\ \A i \in 1 .. Len(fors) : fors[i] \in 1 .. MaxSessions
  BY <1>0
<1>2. shown + Len(fors) <= MaxShown /\ shown \in 0 .. MaxShown /\ MaxShown \in Nat
  BY BoundsAssumption DEF Show, StatesOK
<1>3. \A i \in 1 .. Len(fors) : shown + i \in 1 .. MaxShown
  BY <1>1, <1>2
<1>4. session \in 1 .. MaxSessions
  BY BoundsAssumption DEF StatesOK
<1>5. \A i \in 1 .. Len(fors) :
          /\ sent[i] = SendOf(Chunk(fors[i], shown + i, faithful))
          /\ Chunk(fors[i], shown + i, faithful) \in Chunks
  BY <1>1, <1>3, <1>4, ChunkType DEF SendOf
<1>6. \A i \in 1 .. Len(fors) :
          /\ sent[i] \in Calls /\ IsSend(sent[i])
          /\ sent[i][2] = Chunk(fors[i], shown + i, faithful)
  BY <1>5, CallKinds
<1>7. sent \in Seq(Calls) /\ Len(sent) = Len(fors)
  <2>1. sent \in [1 .. Len(fors) -> Calls]
    BY <1>1, <1>6
  <2> HIDE DEF sent
  <2> QED
    BY <1>1, <2>1
<1>8. toWorker' = toWorker \o sent /\ toWorker \in Seq(Calls)
  BY DEF Show, CallsOK
<1> HIDE DEF sent
<1>9. /\ Len(toWorker') = Len(toWorker) + Len(fors) /\ toWorker' \in Seq(Calls)
      /\ \A i \in 1 .. Len(toWorker) : toWorker'[i] = toWorker[i]
      /\ \A i \in 1 .. Len(fors) : toWorker'[Len(toWorker) + i] = sent[i]
  <2>1. \A s, t \in Seq(Calls) :
            /\ s \o t \in Seq(Calls) /\ Len(s \o t) = Len(s) + Len(t)
            /\ \A i \in 1 .. Len(s) : (s \o t)[i] = s[i]
            /\ \A i \in 1 .. Len(t) : (s \o t)[Len(s) + i] = t[i]
    BY QueueConcat
  <2> QED
    BY <1>7, <1>8, <2>1
<1>10. shown' = shown + Len(fors) /\ shown' \in 0 .. MaxShown
  BY <1>1, <1>2 DEF Show
<1> QED
  BY <1>5, <1>6, <1>9, <1>10 DEF Adds

\* Who is shown: the open session, or the session a row waited for.
LEMMA ForsTypes ==
    ASSUME NEW for \in 1 .. MaxSessions
    PROVE  /\ <<for>> \in Seq(1 .. MaxSessions) /\ Len(<<for>>) = 1 /\ <<for>>[1] = for
           /\ <<for, for>> \in Seq(1 .. MaxSessions) /\ Len(<<for, for>>) = 2
           /\ \A i \in 1 .. 1 : <<for>>[i] = for
           /\ \A i \in 1 .. 2 : <<for, for>>[i] = for
  OBVIOUS

\* Some chunks for one session are shown, or none.
Sends(for, faithful) ==
    \/ UNCHANGED <<shown, toWorker>>
    \/ opened /\ \E fors \in Seq(1 .. MaxSessions) :
           (\A i \in 1 .. Len(fors) : fors[i] = for) /\ Adds(fors, faithful)

LEMMA PackagedSends ==
    ASSUME StatesOK, CallsOK, opened => session # 0,
           NEW for \in 1 .. MaxSessions, sendPackagedData(for)
    PROVE  Sends(for, TRUE)
<1>1. CASE ~opened
  BY <1>1 DEF sendPackagedData, Sends
<1>2. CASE opened
  <2>1. PICK fors \in {<<for>>, <<for, for>>} : Show(fors, TRUE)
    BY <1>2 DEF sendPackagedData
  <2>2. /\ fors \in Seq(1 .. MaxSessions) /\ Len(fors) >= 1
        /\ \A i \in 1 .. Len(fors) : fors[i] = for
    <3>1. CASE fors = <<for>>
      BY <3>1, ForsTypes
    <3>2. CASE fors = <<for, for>>
      BY <3>2, ForsTypes
    <3> QED
      BY <2>1, <3>1, <3>2
  <2> QED
    BY <1>2, <2>1, <2>2, ShowAdds DEF Sends
<1> QED
  BY <1>1, <1>2

-----------------------------------------------------------------------------
(* The life of the window and of the worker's thread *)

Early == gui \in {"running", "closing"}

\* A running window's buttons and timers are those of an open or of a closed
\* port.
ButtonsOK ==
    /\ gui = "running" => (checked <=> opened) /\ (ticking <=> opened) /\ (locked <=> opened)
    /\ gui = "running" /\ ~opened => queue = <<>>

\* The thread ends when ~SerialWindow waits for it.
ThreadOK ==
    /\ worker # "running" => gui \in {"waiting", "gone"}
    /\ opened => session # 0
    /\ ~Early => port = Closed

\* The call that closes the port then is the last one but for the writes.
LastCallOK ==
    /\ ~Early => \A i \in 1 .. Len(toWorker) : toWorker[i] = Write
    /\ \A i \in 1 .. Len(toWorker) : toWorker[i] = Blocking =>
          gui = "closing" /\ \A j \in 1 .. Len(toWorker) : i < j => toWorker[j] = Write

LifeOK == ButtonsOK /\ ThreadOK /\ LastCallOK

\* The four ways to send: at once, from msg_queue_, a heartbeat, and a row.
LEMMA SendCases ==
    ASSUME TypeOK, LifeOK
    PROVE  /\ sendMessageToPort =>
                  \/ panel.packaged /\ UNCHANGED <<shown, toWorker>>
                  \/ Sends(session, TRUE) /\ UNCHANGED <<queue, careless>>
           /\ sendPackageTimeout =>
                  /\ queue # <<>> /\ Head(queue) \in [for : 1 .. MaxSessions, hex : BOOLEAN]
                  /\ Sends(Head(queue).for, Head(queue).hex = (sendHex \/ panel.beatHex))
           /\ heartbeatTimeout => Sends(session, TRUE)
           /\ \A for \in delayed : sendPackagedData(for) => Sends(for, TRUE)
<1>1. StatesOK /\ CallsOK /\ QueueOK /\ (opened => session # 0)
  BY TypeParts DEF LifeOK, ThreadOK
<1>2. opened => session \in 1 .. MaxSessions
  BY <1>1, BoundsAssumption DEF StatesOK
<1>3. \A for \in 1 .. MaxSessions, faithful \in BOOLEAN :
          opened /\ Show(<<for>>, faithful) => Sends(for, faithful)
  <2> SUFFICES ASSUME NEW for \in 1 .. MaxSessions, NEW faithful \in BOOLEAN,
                      opened, Show(<<for>>, faithful)
               PROVE  Sends(for, faithful)
    OBVIOUS
  <2>1. /\ <<for>> \in Seq(1 .. MaxSessions) /\ Len(<<for>>) >= 1
        /\ \A i \in 1 .. Len(<<for>>) : <<for>>[i] = for
    BY ForsTypes
  <2>2. Adds(<<for>>, faithful)
    BY <1>1, <2>1, ShowAdds
  <2> QED
    BY <2>1, <2>2 DEF Sends
<1>4. \A for \in delayed : sendPackagedData(for) => Sends(for, TRUE)
  BY <1>1, PackagedSends DEF StatesOK
<1>5. heartbeatTimeout => Sends(session, TRUE)
  BY <1>1, <1>2, PackagedSends DEF heartbeatTimeout
<1>6. sendMessageToPort => \/ panel.packaged /\ UNCHANGED <<shown, toWorker>>
                           \/ Sends(session, TRUE) /\ UNCHANGED <<queue, careless>>
  BY <1>2, <1>3 DEF sendMessageToPort
<1>7. ASSUME sendPackageTimeout
      PROVE  /\ queue # <<>> /\ Head(queue) \in [for : 1 .. MaxSessions, hex : BOOLEAN]
             /\ Sends(Head(queue).for, Head(queue).hex = (sendHex \/ panel.beatHex))
  <2>1. queue # <<>> /\ opened
    BY <1>7 DEF sendPackageTimeout
  <2>2. Head(queue) \in [for : 1 .. MaxSessions, hex : BOOLEAN]
    BY <1>1, <2>1, QueueTail DEF QueueOK
  <2>3. Head(queue).for \in 1 .. MaxSessions
    BY <2>2
  <2>4. Show(<<Head(queue).for>>, Head(queue).hex = (sendHex \/ panel.beatHex))
    BY <1>7 DEF sendPackageTimeout
  <2>5. (Head(queue).hex = (sendHex \/ panel.beatHex)) \in BOOLEAN
    OBVIOUS
  <2> QED
    BY <1>3, <2>1, <2>2, <2>3, <2>4, <2>5
<1> QED
  BY <1>4, <1>5, <1>6, <1>7

LEMMA SendsType ==
    ASSUME StatesOK, CallsOK, NEW for, NEW faithful, Sends(for, faithful)
    PROVE  /\ shown' \in 0 .. MaxShown /\ toWorker' \in Seq(Calls)
           /\ (\E i \in DOMAIN toWorker : toWorker[i] = Write)
                  => \E i \in DOMAIN toWorker' : toWorker'[i] = Write
<1>1. CASE UNCHANGED <<shown, toWorker>>
  BY <1>1 DEF StatesOK, CallsOK
<1>2. CASE \E fors \in Seq(1 .. MaxSessions) : Adds(fors, faithful)
  <2> PICK fors \in Seq(1 .. MaxSessions) : Adds(fors, faithful)
    BY <1>2
  <2>1. Len(fors) \in Nat /\ Len(toWorker) \in Nat /\ DOMAIN toWorker = 1 .. Len(toWorker)
    BY DEF CallsOK
  <2>2. toWorker' \in Seq(Calls) /\ DOMAIN toWorker' = 1 .. Len(toWorker) + Len(fors)
    BY DEF Adds
  <2> QED
    BY <2>1, <2>2 DEF Adds
<1> QED
  BY <1>1, <1>2 DEF Sends

LEMMA TypeInit == Init => TypeOK
<1> SUFFICES ASSUME Init PROVE TypeOK
  OBVIOUS
<1>1. FlagsOK
  BY DEF Init, FlagsOK
<1>2. StatesOK
  BY BoundsAssumption DEF Init, StatesOK, Closed
<1>3. QueueOK
  BY QueueEmpty DEF Init, QueueOK
<1>4. CallsOK
  BY QueueEmpty DEF Init, CallsOK
<1>5. WritePending
  BY DEF Init, WritePending
<1> QED
  BY <1>1, <1>2, <1>3, <1>4, <1>5, TypeParts

LEMMA FlagsStep == FlagsOK /\ [Next]_vars => FlagsOK'
<1> SUFFICES ASSUME FlagsOK, [Next]_vars PROVE FlagsOK'
  OBVIOUS
<1>1. CASE settingChanged
  BY <1>1 DEF FlagsOK, settingChanged, window
<1>2. CASE \/ ClickOn \/ ClickOff \/ toggled \/ QueuedCall \/ Destroy
  BY <1>2 DEF FlagsOK, ClickOn, ClickOff, toggled, QueuedCall, Destroy, ShowClosed,
              showErrorMessage, window, typing
<1>3. CASE \/ sendMessageToPort \/ sendPackageTimeout \/ heartbeatTimeout
           \/ sendInstructionTableContent \/ delayOver \/ quit \/ waitOver
           \/ UNCHANGED vars
  BY <1>3 DEF FlagsOK, sendMessageToPort, sendPackageTimeout, heartbeatTimeout,
              sendInstructionTableContent, delayOver, quit, waitOver, window, typing, vars
<1>4. CASE WorkerStep
  BY <1>4 DEF FlagsOK, WorkerStep, PostedCall, DataArrives, Fault, finished, window, typing
<1> QED
  BY <1>1, <1>2, <1>3, <1>4 DEF Next, GuiStep

LEMMA QueueStep == QueueOK /\ LifeOK /\ StatesOK /\ FlagsOK /\ [Next]_vars => QueueOK'
<1> SUFFICES ASSUME QueueOK, LifeOK, StatesOK, FlagsOK, [Next]_vars PROVE QueueOK'
  OBVIOUS
<1> DEFINE Waiting == [for : 1 .. MaxSessions, hex : BOOLEAN]
<1>1. CASE sendMessageToPort
  <2>1. CASE UNCHANGED queue
    BY <2>1 DEF QueueOK
  <2>2. CASE queue' = [i \in 1 .. 2 |-> [for |-> session, hex |-> sendHex]]
    <3>1. session \in 1 .. MaxSessions
      BY <1>1, BoundsAssumption DEF sendMessageToPort, LifeOK, ThreadOK, StatesOK
    <3>2. [for |-> session, hex |-> sendHex] \in Waiting
      BY <3>1 DEF FlagsOK
    <3> PICK v \in Waiting : queue' = [i \in 1 .. 2 |-> v]
      BY <2>2, <3>2
    <3> QED
      BY DEF QueueOK
  <2> QED
    BY <1>1, <2>1, <2>2 DEF sendMessageToPort
<1>2. CASE sendPackageTimeout
  BY <1>2, QueueTail DEF sendPackageTimeout, QueueOK
<1>3. CASE queue' = <<>>
  BY <1>3, QueueEmpty DEF QueueOK
<1>4. CASE UNCHANGED queue
  BY <1>4 DEF QueueOK
<1>5. [Next]_vars => sendMessageToPort \/ sendPackageTimeout \/ queue' = <<>> \/ UNCHANGED queue
  BY DEF Next, GuiStep, WorkerStep, ClickOn, ClickOff, toggled, QueuedCall, Destroy, ShowClosed,
              showErrorMessage, window, settingChanged, heartbeatTimeout, vars,
              sendInstructionTableContent, delayOver, quit, waitOver, PostedCall, DataArrives,
              Fault, finished
<1> QED
  BY <1>1, <1>2, <1>3, <1>4, <1>5

LEMMA StatesStep == TypeOK /\ LifeOK /\ [Next]_vars => StatesOK'
<1> SUFFICES ASSUME TypeOK, LifeOK, [Next]_vars PROVE StatesOK'
  OBVIOUS
<1> USE TypeParts, BoundsAssumption
<1>1. CASE ClickOn \/ ClickOff \/ settingChanged \/ toggled \/ sendInstructionTableContent
  BY <1>1 DEF StatesOK, ClickOn, ClickOff, settingChanged, toggled, window, device, typing,
              sendInstructionTableContent, Click, Remember, Closed, LifeOK, ThreadOK
<1>2. CASE sendMessageToPort
  <2>1. shown' \in 0 .. MaxShown
    BY <1>2, SendCases, SendsType DEF StatesOK
  <2> QED
    BY <1>2, <2>1 DEF StatesOK, sendMessageToPort, typing, device, Remember
<1>3. CASE sendPackageTimeout \/ heartbeatTimeout
  <2>1. shown' \in 0 .. MaxShown
    BY <1>3, SendCases, SendsType
  <2> QED
    BY <1>3, <2>1 DEF StatesOK, sendPackageTimeout, heartbeatTimeout, typing, device, window
<1>4. CASE delayOver
  <2>1. shown' \in 0 .. MaxShown
    BY <1>4, SendCases, SendsType DEF delayOver
  <2> QED
    BY <1>4, <2>1 DEF StatesOK, delayOver, device, window
<1>5. CASE QueuedCall \/ Destroy \/ quit \/ waitOver
  BY <1>5 DEF StatesOK, QueuedCall, Destroy, quit, waitOver, window, device, typing, Remember,
              showErrorMessage, ShowClosed
<1>6. CASE PostedCall
  BY <1>6 DEF StatesOK, PostedCall, openSerialPort, closeSerialPort, handleWriteRequest,
              sendData, window, typing, Closed
<1>7. CASE DataArrives \/ Fault \/ finished
  <2>1. CASE DataArrives
    BY <2>1 DEF StatesOK, DataArrives, window, typing, device
  <2>2. CASE Fault
    BY <2>2 DEF StatesOK, Fault, window, typing, device
  <2>3. CASE finished
    BY <2>3 DEF StatesOK, finished, window, typing, Closed
  <2> QED
    BY <1>7, <2>1, <2>2, <2>3
<1>8. CASE UNCHANGED vars
  BY <1>8 DEF StatesOK, vars, window, typing, device
<1> QED
  BY <1>1, <1>2, <1>3, <1>4, <1>5, <1>6, <1>7, <1>8 DEF Next, GuiStep, WorkerStep

LEMMA CallsStep == TypeOK /\ LifeOK /\ [Next]_vars => CallsOK' /\ WritePending'
<1> SUFFICES ASSUME TypeOK, LifeOK, [Next]_vars PROVE CallsOK' /\ WritePending'
  OBVIOUS
<1>0. StatesOK /\ CallsOK /\ WritePending
  BY TypeParts
<1>1. CASE ClickOn \/ ClickOff \/ Destroy
  <2>1. \E call \in Calls : toWorker' = Append(toWorker, call)
    BY <1>1, CallKinds DEF ClickOn, ClickOff, Destroy, Opening, Closing, Blocking
  <2> PICK call \in Calls : toWorker' = Append(toWorker, call)
    BY <2>1
  <2>2. UNCHANGED <<worker, sendQueue, wire, toGui>>
    BY <1>1 DEF ClickOn, ClickOff, Destroy, device
  <2>3. CallsOK'
    BY <1>0, <2>2, QueueAppend DEF CallsOK
  <2>4. DOMAIN toWorker = 1 .. Len(toWorker) /\ DOMAIN toWorker' = 1 .. Len(toWorker')
    BY <1>0, <2>3 DEF CallsOK
  <2> QED
    BY <1>0, <2>2, <2>3, <2>4, QueueAppend DEF WritePending, CallsOK
<1>2. CASE sendMessageToPort \/ sendPackageTimeout \/ heartbeatTimeout \/ delayOver
  <2>1. \/ UNCHANGED <<shown, toWorker>>
        \/ \E for, faithful : Sends(for, faithful)
    BY <1>2, SendCases DEF delayOver
  <2>2. UNCHANGED <<worker, sendQueue, wire, toGui>>
    BY <1>2 DEF sendMessageToPort, sendPackageTimeout, heartbeatTimeout, delayOver, device
  <2>3. toWorker' \in Seq(Calls)
    BY <1>0, <2>1, SendsType DEF CallsOK
  <2>4. CallsOK'
    BY <1>0, <2>2, <2>3 DEF CallsOK
  <2> QED
    BY <1>0, <2>1, <2>2, <2>4, SendsType DEF WritePending
<1>3. CASE \/ settingChanged \/ toggled \/ sendInstructionTableContent \/ quit
           \/ UNCHANGED vars
  BY <1>0, <1>3 DEF CallsOK, WritePending, settingChanged, toggled, window, device, typing,
                    sendInstructionTableContent, quit, vars
<1>4. CASE QueuedCall
  BY <1>0, <1>4, QueueTail DEF CallsOK, WritePending, QueuedCall, device, showErrorMessage
<1>5. CASE waitOver
  BY <1>0, <1>5, QueueEmpty DEF CallsOK, WritePending, waitOver, device
<1>6. CASE PostedCall
  <2>0. DOMAIN toWorker = 1 .. Len(toWorker)
    BY <1>0 DEF CallsOK
  <2>1. CASE \E call \in {Opening, Closing, Blocking} :
                 Taken(call) /\ toWorker' = Tail(toWorker) /\ UNCHANGED sendQueue
             /\ (UNCHANGED wire \/ wire' = <<>>)
             /\ (UNCHANGED toGui \/ toGui' = Append(toGui, "error"))
    <3> PICK call \in {Opening, Closing, Blocking} :
                 Taken(call) /\ toWorker' = Tail(toWorker) /\ UNCHANGED sendQueue
             /\ (UNCHANGED wire \/ wire' = <<>>)
             /\ (UNCHANGED toGui \/ toGui' = Append(toGui, "error"))
      BY <2>1
    <3>1. call # Write
      BY CallKinds
    <3>2. toWorker' \in Seq(Calls)
      BY <1>0, QueueTail DEF CallsOK, Taken
    <3>3. wire' \in Seq(Chunks)
      BY <1>0, QueueEmpty DEF CallsOK
    <3>4. toGui' \in Seq({"error", "data"})
      BY <1>0, QueueAppend DEF CallsOK
    <3>5. DOMAIN toWorker' = 1 .. Len(toWorker')
      BY <3>2
    <3>6. ASSUME NEW i \in 1 .. Len(toWorker), toWorker[i] = Write
          PROVE  i - 1 \in 1 .. Len(toWorker') /\ toWorker'[i - 1] = Write
      <4>1. i # 1
        BY <1>0, <3>1, <3>6, QueueTail DEF CallsOK, Taken
      <4> QED
        BY <1>0, <3>6, <4>1, QueueTail DEF CallsOK, Taken
    <3> QED
      BY <1>0, <2>0, <3>2, <3>3, <3>4, <3>5, <3>6 DEF CallsOK, WritePending, Taken
  <2>2. CASE TakesWrite
    <3>1. toWorker' \in Seq(Calls) /\ sendQueue' = <<>> /\ UNCHANGED toGui
      BY <1>0, <2>2, QueueTail DEF CallsOK, TakesWrite, Taken, handleWriteRequest
    <3>2. wire' \in Seq(Chunks)
      BY <1>0, <2>2, QueueConcat DEF CallsOK, TakesWrite, handleWriteRequest
    <3> QED
      BY <1>0, <3>1, <3>2, QueueEmpty DEF CallsOK, WritePending
  <2>3. CASE TakesSend
    <3> PICK chunk \in Chunks : /\ Taken(SendOf(chunk))
                                /\ sendQueue' = Append(sendQueue, chunk)
                                /\ toWorker' = Append(Tail(toWorker), Write)
                                /\ UNCHANGED <<gui, port, readers, wire, toGui>>
      BY <2>3 DEF TakesSend
    <3>1. Tail(toWorker) \in Seq(Calls) /\ Write \in Calls
      BY <1>0, CallKinds, QueueTail DEF CallsOK, Taken
    <3>2. toWorker' \in Seq(Calls) /\ toWorker'[Len(toWorker')] = Write /\ Len(toWorker') >= 1
          /\ Len(toWorker') \in Nat
      BY <3>1, QueueAppend
    <3>3. sendQueue' \in Seq(Chunks)
      BY <1>0, QueueAppend DEF CallsOK
    <3>4. DOMAIN toWorker' = 1 .. Len(toWorker')
      BY <3>2
    <3>5. Len(toWorker') \in DOMAIN toWorker'
      BY <3>2, <3>4
    <3> QED
      BY <1>0, <3>2, <3>3, <3>5 DEF CallsOK, WritePending
  <2> QED
    BY <1>0, <1>6, <2>1, <2>2, <2>3, PostedCases
       DEF TakesOpening, TakesClosing, TakesBlocking, openSerialPort
<1>7. CASE DataArrives
  <2>1. PICK more \in {<<>>, <<"data">>} : toGui' = toGui \o more
    <3>1. toGui' = toGui \o <<"data">> \o <<>>
      BY <1>7 DEF DataArrives, readData
    <3> QED
      BY <1>0, <3>1 DEF CallsOK
  <2>2. more \in Seq({"error", "data"})
    <3>1. <<"data">> \in Seq({"error", "data"}) /\ <<>> \in Seq({"error", "data"})
      OBVIOUS
    <3> QED
      BY <3>1
  <2> QED
    BY <1>0, <1>7, <2>1, <2>2, QueueConcat DEF CallsOK, WritePending, DataArrives, device
<1>8. CASE Fault
  BY <1>0, <1>8, QueueAppend DEF CallsOK, WritePending, Fault, device
<1>9. CASE finished
  BY <1>0, <1>9, QueueEmpty DEF CallsOK, WritePending, finished
<1> QED
  BY <1>1, <1>2, <1>3, <1>4, <1>5, <1>6, <1>7, <1>8, <1>9 DEF Next, GuiStep, WorkerStep

LEMMA TypeStep == TypeOK /\ LifeOK /\ [Next]_vars => TypeOK'
<1> SUFFICES ASSUME TypeOK, LifeOK, [Next]_vars PROVE TypeOK'
  OBVIOUS
<1>1. FlagsOK' /\ StatesOK' /\ QueueOK' /\ CallsOK' /\ WritePending'
  BY TypeParts, FlagsStep, StatesStep, QueueStep, CallsStep
<1>2. FlagsOK' /\ StatesOK' /\ QueueOK' /\ CallsOK' /\ WritePending' => TypeOK'
  BY DEF TypeOK, FlagsOK, StatesOK, QueueOK, CallsOK, WritePending
<1> QED
  BY <1>1, <1>2

-----------------------------------------------------------------------------
(* What the posted calls become *)

\* A call that comes in last, and one that is taken up.
Comes(call) ==
    /\ toWorker' \in Seq(Calls) /\ Len(toWorker') = Len(toWorker) + 1
    /\ toWorker'[Len(toWorker) + 1] = call
    /\ \A i \in 1 .. Len(toWorker) : toWorker'[i] = toWorker[i]

Goes(call) ==
    /\ Len(toWorker) >= 1 /\ toWorker[1] = call
    /\ toWorker' \in Seq(Calls) /\ Len(toWorker') = Len(toWorker) - 1
    /\ \A i \in 1 .. Len(toWorker') : toWorker'[i] = toWorker[i + 1]

\* One is taken up and Write comes in.
GoesForWrite(call) ==
    /\ Len(toWorker) >= 1 /\ toWorker[1] = call
    /\ toWorker' \in Seq(Calls) /\ Len(toWorker') = Len(toWorker)
    /\ \A i \in 1 .. Len(toWorker) - 1 : toWorker'[i] = toWorker[i + 1]
    /\ toWorker'[Len(toWorker)] = Write

LEMMA CallMoves ==
    ASSUME CallsOK
    PROVE  /\ Len(toWorker) \in Nat /\ (toWorker = <<>> <=> Len(toWorker) = 0)
           /\ \A call \in Calls : toWorker' = Append(toWorker, call) => Comes(call)
           /\ \A call : Taken(call) /\ toWorker' = Tail(toWorker) => Goes(call)
           /\ \A call : Taken(call) /\ toWorker' = Append(Tail(toWorker), Write)
                            => GoesForWrite(call)
<1>1. Len(toWorker) \in Nat /\ (toWorker = <<>> <=> Len(toWorker) = 0)
  BY QueueEmpty DEF CallsOK
<1>2. \A call \in Calls : toWorker' = Append(toWorker, call) => Comes(call)
  BY QueueAppend DEF CallsOK, Comes
<1>3. \A call : Taken(call) /\ toWorker' = Tail(toWorker) => Goes(call)
  BY QueueTail DEF CallsOK, Goes, Taken
<1>4. ASSUME NEW call, Taken(call), toWorker' = Append(Tail(toWorker), Write)
      PROVE  GoesForWrite(call)
  <2>1. /\ Tail(toWorker) \in Seq(Calls) /\ Len(Tail(toWorker)) = Len(toWorker) - 1
        /\ Len(toWorker) >= 1 /\ toWorker[1] = call
        /\ \A i \in 1 .. Len(toWorker) - 1 : Tail(toWorker)[i] = toWorker[i + 1]
    BY <1>4, QueueTail DEF CallsOK, Taken
  <2> PICK rest \in Seq(Calls) : rest = Tail(toWorker)
    BY <2>1
  <2>2. /\ Append(rest, Write) \in Seq(Calls) /\ Len(Append(rest, Write)) = Len(rest) + 1
        /\ Append(rest, Write)[Len(rest) + 1] = Write
        /\ \A i \in 1 .. Len(rest) : Append(rest, Write)[i] = rest[i]
    BY QueueAppend, CallKinds
  <2>3. toWorker' = Append(rest, Write)
    BY <1>4
  <2> QED
    BY <1>1, <2>1, <2>2, <2>3 DEF GoesForWrite
<1> QED
  BY <1>1, <1>2, <1>3, <1>4

LEMMA LifeInit == Init => LifeOK
<1> SUFFICES ASSUME Init PROVE LifeOK
  OBVIOUS
<1>1. Len(toWorker) = 0
  BY QueueEmpty DEF Init
<1>2. LastCallOK
  BY <1>1 DEF LastCallOK, Init, Early
<1>3. ButtonsOK /\ ThreadOK
  BY DEF ButtonsOK, ThreadOK, Init, Early
<1> QED
  BY <1>2, <1>3 DEF LifeOK

LEMMA ButtonsStep == FlagsOK /\ ButtonsOK /\ [Next]_vars => ButtonsOK'
<1> SUFFICES ASSUME FlagsOK, ButtonsOK, [Next]_vars PROVE ButtonsOK'
  OBVIOUS
<1>1. CASE ClickOn \/ ClickOff
  BY <1>1 DEF ButtonsOK, ClickOn, ClickOff, ShowClosed
<1>2. CASE settingChanged \/ toggled \/ sendInstructionTableContent \/ delayOver \/ heartbeatTimeout
  BY <1>2 DEF ButtonsOK, settingChanged, toggled, sendInstructionTableContent, delayOver,
              heartbeatTimeout, window
<1>3. CASE sendMessageToPort \/ sendPackageTimeout
  BY <1>3 DEF ButtonsOK, sendMessageToPort, sendPackageTimeout
<1>4. CASE QueuedCall
  <2>1. CASE UNCHANGED <<gui, window>>
    BY <2>1 DEF ButtonsOK, window
  <2>2. CASE ShowClosed
    BY <2>2 DEF ButtonsOK, ShowClosed
  <2> QED
    BY <1>4, <2>1, <2>2 DEF QueuedCall, showErrorMessage
<1>5. CASE Destroy \/ quit \/ waitOver
  BY <1>5 DEF ButtonsOK, Destroy, quit, waitOver
<1>6. CASE PostedCall
  <2>1. UNCHANGED <<opened, checked, ticking, locked, queue>> /\ (gui' = "running" => gui = "running")
    BY <1>6 DEF PostedCall, window
  <2> QED
    BY <2>1 DEF ButtonsOK
<1>7. CASE DataArrives \/ Fault \/ finished \/ UNCHANGED vars
  <2>1. UNCHANGED <<gui, opened, checked, ticking, locked, queue>>
    BY <1>7 DEF DataArrives, Fault, finished, vars, window
  <2> QED
    BY <2>1 DEF ButtonsOK
<1> QED
  BY <1>1, <1>2, <1>3, <1>4, <1>5, <1>6, <1>7 DEF Next, GuiStep, WorkerStep

LEMMA ThreadStep == TypeOK /\ LifeOK /\ [Next]_vars => ThreadOK'
<1> SUFFICES ASSUME TypeOK, LifeOK, [Next]_vars PROVE ThreadOK'
  OBVIOUS
<1>0. StatesOK /\ CallsOK /\ ThreadOK
  BY TypeParts DEF LifeOK
<1>1. CASE ClickOn
  <2>1. session' # 0
    BY <1>0, <1>1 DEF ClickOn, StatesOK
  <2> QED
    BY <1>0, <1>1, <2>1 DEF ClickOn, ThreadOK, Early, device
<1>2. CASE ClickOff \/ Destroy \/ QueuedCall
  <2>1. /\ opened' = FALSE \/ UNCHANGED opened
        /\ UNCHANGED <<session, worker, port>> /\ (Early' <=> Early)
        /\ gui' = gui \/ gui = "running"
    BY <1>2 DEF ClickOff, ShowClosed, Destroy, QueuedCall, showErrorMessage, window, device, Early
  <2> QED
    BY <1>0, <2>1 DEF ThreadOK
<1>3. CASE sendMessageToPort \/ sendPackageTimeout \/ heartbeatTimeout \/ delayOver
  <2>1. UNCHANGED <<gui, opened, session, worker, port>>
    BY <1>3 DEF sendMessageToPort, sendPackageTimeout, heartbeatTimeout, delayOver, window, device
  <2> QED
    BY <1>0, <2>1 DEF ThreadOK, Early
<1>4. CASE settingChanged \/ toggled \/ sendInstructionTableContent
  <2>1. UNCHANGED <<gui, opened, session, worker, port>>
    BY <1>4 DEF settingChanged, toggled, sendInstructionTableContent, window, device
  <2> QED
    BY <1>0, <2>1 DEF ThreadOK, Early
<1>5. CASE quit \/ waitOver
  BY <1>0, <1>5 DEF quit, waitOver, window, device, ThreadOK, Early
<1>6. CASE PostedCall
  <2>1. worker = "running" /\ UNCHANGED <<opened, session, worker>>
    BY <1>6 DEF PostedCall, window
  <2>2. CASE Early /\ gui' = gui
    BY <1>0, <2>1, <2>2 DEF ThreadOK, Early
  <2>3. CASE ~Early
    <3>1. toWorker # <<>> /\ Head(toWorker) = toWorker[1] /\ 1 \in 1 .. Len(toWorker)
      BY <1>0, <1>6, QueueTail DEF PostedCall, CallsOK
    <3>2. Head(toWorker) = Write
      BY <2>3, <3>1 DEF LifeOK, LastCallOK
    <3>3. TakesWrite
      BY <1>0, <1>6, <3>2, PostedCases, CallKinds
         DEF TakesOpening, TakesClosing, TakesBlocking, TakesSend, Taken
    <3> QED
      BY <1>0, <2>1, <2>3, <3>3 DEF TakesWrite, ThreadOK, Early
  <2>4. CASE gui' # gui
    <3>1. port' = Closed
      BY <1>0, <1>6, <2>4, PostedCases
         DEF TakesOpening, TakesClosing, TakesBlocking, TakesWrite, TakesSend
    <3> QED
      BY <1>0, <2>1, <3>1 DEF ThreadOK
  <2> QED
    BY <2>2, <2>3, <2>4
<1>7. CASE DataArrives \/ Fault
  <2>1. UNCHANGED <<gui, opened, session, worker, port>>
    BY <1>7 DEF DataArrives, Fault, window, device
  <2> QED
    BY <1>0, <2>1 DEF ThreadOK, Early
<1>8. CASE finished \/ UNCHANGED vars
  BY <1>0, <1>8 DEF finished, vars, window, device, ThreadOK, Early
<1> QED
  BY <1>1, <1>2, <1>3, <1>4, <1>5, <1>6, <1>7, <1>8 DEF Next, GuiStep, WorkerStep

\* Calls that are neither openSerialPort nor the last one.
LEMMA AddsNoLastCall ==
    ASSUME CallsOK, NEW for, NEW faithful, Sends(for, faithful),
           \A i \in 1 .. Len(toWorker) : toWorker[i] # Blocking
    PROVE  \A i \in 1 .. Len(toWorker') : toWorker'[i] # Blocking
<1>1. CASE UNCHANGED toWorker
  BY <1>1
<1>2. CASE \E fors \in Seq(1 .. MaxSessions) : Adds(fors, faithful)
  <2> PICK fors \in Seq(1 .. MaxSessions) : Adds(fors, faithful)
    BY <1>2
  <2>1. Len(fors) \in Nat /\ Len(toWorker) \in Nat
    BY CallMoves
  <2> SUFFICES ASSUME NEW i \in 1 .. Len(toWorker') PROVE toWorker'[i] # Blocking
    OBVIOUS
  <2>2. CASE i <= Len(toWorker)
    BY <2>1, <2>2 DEF Adds
  <2>3. CASE i > Len(toWorker)
    <3>1. i - Len(toWorker) \in 1 .. Len(fors) /\ i = Len(toWorker) + (i - Len(toWorker))
      BY <2>1, <2>3 DEF Adds
    <3>2. IsSend(toWorker'[i])
      BY <3>1 DEF Adds
    <3> QED
      BY <3>2, CallKinds
  <2> QED
    BY <2>1, <2>2, <2>3
<1> QED
  BY <1>1, <1>2 DEF Sends

LEMMA LastCallStep == TypeOK /\ LifeOK /\ [Next]_vars => LastCallOK'
<1> SUFFICES ASSUME TypeOK, LifeOK, [Next]_vars PROVE LastCallOK'
  OBVIOUS
<1>0. FlagsOK /\ StatesOK /\ CallsOK /\ LastCallOK /\ Len(toWorker) \in Nat
  BY TypeParts, CallMoves DEF LifeOK
<1>a. gui = "running" => \A i \in 1 .. Len(toWorker) : toWorker[i] # Blocking
  BY <1>0 DEF LastCallOK
<1>b. gui' = "running" /\ (\A i \in 1 .. Len(toWorker') : toWorker'[i] # Blocking) => LastCallOK'
  BY DEF LastCallOK, Early
<1>1. CASE ClickOn \/ ClickOff
  <2>1. \E call \in {Opening, Closing} : Comes(call)
    BY <1>0, <1>1, CallMoves, CallKinds DEF ClickOn, ClickOff, Opening, Closing
  <2>2. \A i \in 1 .. Len(toWorker') : toWorker'[i] # Blocking
    BY <1>0, <1>1, <1>a, <2>1, CallKinds DEF ClickOn, ClickOff, Comes
  <2> QED
    BY <1>1, <1>b, <2>2 DEF ClickOn, ClickOff
<1>3. CASE Destroy
  <2>1. Comes(Blocking)
    BY <1>0, <1>3, CallMoves, CallKinds DEF Destroy, Blocking
  <2>2. \A i \in 1 .. Len(toWorker) : toWorker[i] # Blocking
    BY <1>3, <1>a DEF Destroy
  <2>3. \A i \in 1 .. Len(toWorker') : toWorker'[i] = Blocking => i = Len(toWorker')
    BY <1>0, <2>1, <2>2, CallKinds DEF Comes
  <2>4. Len(toWorker') \in Nat
    BY <1>0, <2>1 DEF Comes
  <2> QED
    BY <1>3, <2>3, <2>4 DEF Destroy, LastCallOK, Early
<1>4. CASE sendMessageToPort \/ sendPackageTimeout \/ heartbeatTimeout \/ delayOver
  <2>1. gui = "running" /\ UNCHANGED gui
    BY <1>4 DEF sendMessageToPort, sendPackageTimeout, heartbeatTimeout, delayOver
  <2>2. \/ UNCHANGED <<shown, toWorker>>
        \/ \E for, faithful : Sends(for, faithful)
    BY <1>4, SendCases DEF delayOver
  <2>3. \A i \in 1 .. Len(toWorker') : toWorker'[i] # Blocking
    BY <1>0, <1>a, <2>1, <2>2, AddsNoLastCall
  <2> QED
    BY <1>b, <2>1, <2>3
<1>5. CASE \/ settingChanged \/ toggled \/ sendInstructionTableContent \/ DataArrives \/ Fault
           \/ QueuedCall \/ quit \/ waitOver \/ finished \/ UNCHANGED vars
  <2>1. UNCHANGED toWorker /\ (Early' <=> Early) /\ (gui = "closing" <=> gui' = "closing")
    BY <1>5 DEF Early, settingChanged, toggled, sendInstructionTableContent, DataArrives,
              Fault, QueuedCall, showErrorMessage, quit, waitOver, finished, vars
  <2> QED
    BY <1>0, <2>1 DEF LastCallOK
<1>9. CASE TakesOpening \/ TakesClosing \/ TakesWrite
  <2>1. PICK call \in {Opening, Closing, Write} : Goes(call)
    BY <1>0, <1>9, CallMoves DEF TakesOpening, TakesClosing, TakesWrite
  <2>2. UNCHANGED gui
    BY <1>9 DEF TakesOpening, TakesClosing, TakesWrite
  <2>5. ~Early => \A i \in 1 .. Len(toWorker') : toWorker'[i] = Write
    BY <1>0, <2>1 DEF LastCallOK, Goes
  <2>6. ASSUME NEW i \in 1 .. Len(toWorker'), toWorker'[i] = Blocking
        PROVE  gui = "closing" /\ \A j \in 1 .. Len(toWorker') : i < j => toWorker'[j] = Write
    <3>1. i + 1 \in 1 .. Len(toWorker) /\ toWorker[i + 1] = Blocking
      BY <1>0, <2>1, <2>6 DEF Goes
    <3>2. \A j \in 1 .. Len(toWorker') : i < j => /\ j + 1 \in 1 .. Len(toWorker) /\ i + 1 < j + 1
                                                 /\ toWorker'[j] = toWorker[j + 1]
      BY <1>0, <2>1 DEF Goes
    <3> QED
      BY <1>0, <3>1, <3>2 DEF LastCallOK
  <2> QED
    BY <2>2, <2>5, <2>6 DEF LastCallOK, Early
<1>10. CASE TakesBlocking
  <2>1. Goes(Blocking)
    BY <1>0, <1>10, CallMoves DEF TakesBlocking
  <2>2. \A i \in 1 .. Len(toWorker') : toWorker'[i] = Write
    <3>1. 1 \in 1 .. Len(toWorker) /\ toWorker[1] = Blocking
      BY <1>0, <2>1 DEF Goes
    <3>2. \A j \in 1 .. Len(toWorker) : 1 < j => toWorker[j] = Write
      BY <1>0, <3>1 DEF LastCallOK
    <3> QED
      BY <1>0, <2>1, <3>2 DEF Goes
  <2> QED
    BY <2>2, CallKinds DEF LastCallOK
<1>11. CASE TakesSend
  <2> PICK chunk \in Chunks : /\ Taken(SendOf(chunk))
                              /\ toWorker' = Append(Tail(toWorker), Write)
                              /\ UNCHANGED <<gui, port, readers, wire, toGui>>
    BY <1>11 DEF TakesSend
  <2>1. GoesForWrite(SendOf(chunk)) /\ SendOf(chunk) # Write
    BY <1>0, CallMoves, CallKinds
  <2>2. Early
    BY <1>0, <2>1 DEF LastCallOK, GoesForWrite
  <2>3. ASSUME NEW i \in 1 .. Len(toWorker'), toWorker'[i] = Blocking
        PROVE  gui = "closing" /\ \A j \in 1 .. Len(toWorker') : i < j => toWorker'[j] = Write
    <3>0. i # Len(toWorker')
      BY <2>1, <2>3, CallKinds DEF GoesForWrite
    <3>1. i + 1 \in 1 .. Len(toWorker) /\ toWorker[i + 1] = Blocking
      <4>1. PICK n \in Nat : n = Len(toWorker) /\ n = Len(toWorker')
        BY <1>0, <2>1 DEF GoesForWrite
      <4>2. i \in 1 .. n - 1 /\ i + 1 \in 1 .. n
        BY <2>3, <3>0, <4>1
      <4>3. \A k \in 1 .. n - 1 : toWorker'[k] = toWorker[k + 1]
        BY <2>1, <4>1 DEF GoesForWrite
      <4> QED
        BY <2>3, <4>1, <4>2, <4>3
    <3>2. ASSUME NEW j \in 1 .. Len(toWorker'), i < j PROVE toWorker'[j] = Write
      <4>1. CASE j = Len(toWorker)
        BY <2>1, <4>1 DEF GoesForWrite
      <4>2. CASE j # Len(toWorker)
        <5>1. /\ j + 1 \in 1 .. Len(toWorker) /\ i + 1 < j + 1 /\ toWorker'[j] = toWorker[j + 1]
          BY <1>0, <2>1, <3>2, <4>2 DEF GoesForWrite
        <5> QED
          BY <1>0, <3>1, <5>1 DEF LastCallOK
      <4> QED
        BY <4>1, <4>2
    <3> QED
      BY <1>0, <3>1, <3>2 DEF LastCallOK
  <2> QED
    BY <2>2, <2>3 DEF LastCallOK, Early
<1> QED
  BY <1>0, <1>1, <1>3, <1>4, <1>5, <1>9, <1>10, <1>11, PostedCases
     DEF Next, GuiStep, WorkerStep

LEMMA LifeStep == TypeOK /\ LifeOK /\ [Next]_vars => LifeOK'
<1> SUFFICES ASSUME TypeOK, LifeOK, [Next]_vars PROVE LifeOK'
  OBVIOUS
<1> QED
  BY TypeParts, ButtonsStep, ThreadStep, LastCallStep DEF LifeOK

-----------------------------------------------------------------------------
(* The port follows the clicks *)

Waits(call) == \E i \in 1 .. Len(toWorker) : toWorker[i] = call
Refused == \E i \in 1 .. Len(toGui) : toGui[i] = "error"
Once == \A i, j \in 1 .. Len(toGui) : toGui[i] = "error" /\ toGui[j] = "error" => i = j

\* Nobody clicked too early, and the open port reported no fault.
Orderly == "crossed" \notin careless

\* Nothing is under way when the port is about to be opened or closed.
OpenFirst ==
    \A i \in 1 .. Len(toWorker) : toWorker[i] = Opening =>
        i = 1 /\ opened /\ port = Closed /\ sendQueue = <<>> /\ ~Refused

CloseFirst ==
    \A i \in 1 .. Len(toWorker) : toWorker[i] = Closing =>
        /\ i = 1 /\ ~opened /\ port # Closed /\ sendQueue = <<>> /\ ~Refused
        /\ \A j \in 1 .. Len(toWorker) : ~IsSend(toWorker[j])

\* The port is the one of this session, or its opening is on the way, or its
\* opening was refused and the window has not heard of it yet.
PortIsOurs ==
    /\ port \in {Closed, session}
    /\ Early /\ opened /\ port = Closed => Waits(Opening) \/ Refused
    /\ Early /\ ~opened /\ port # Closed => Waits(Closing)
    /\ Early /\ Refused => opened /\ port = Closed /\ Once

PortFollows == Orderly => OpenFirst /\ CloseFirst /\ PortIsOurs

LEMMA SignalMoves ==
    ASSUME CallsOK
    PROVE  /\ UNCHANGED toGui => (Refused' <=> Refused) /\ (Once' <=> Once)
           /\ toGui # <<>> /\ toGui' = Tail(toGui) /\ Head(toGui) = "error" /\ Once => ~Refused'
           /\ toGui # <<>> /\ toGui' = Tail(toGui) /\ Head(toGui) # "error"
                  => (Refused' <=> Refused) /\ (Once => Once')
           /\ toGui' = Append(toGui, "error") => Refused' /\ (~Refused => Once')
           /\ toGui' = <<>> => ~Refused' /\ Once'
           /\ DataArrives => (Refused' <=> Refused) /\ (Once => Once')
<1> DEFINE Signals == {"error", "data"}
<1>0. toGui \in Seq(Signals)
  BY DEF CallsOK
<1>1. UNCHANGED toGui => (Refused' <=> Refused) /\ (Once' <=> Once)
  BY DEF Refused, Once
<1>2. ASSUME toGui # <<>>, toGui' = Tail(toGui)
      PROVE  /\ Head(toGui) = "error" /\ Once => ~Refused'
             /\ Head(toGui) # "error" => (Refused' <=> Refused) /\ (Once => Once')
  <2>1. /\ Len(toGui) \in Nat /\ Len(toGui) >= 1 /\ Head(toGui) = toGui[1]
        /\ Len(toGui') = Len(toGui) - 1
        /\ \A i \in 1 .. Len(toGui) - 1 : toGui'[i] = toGui[i + 1]
        /\ \A i \in 2 .. Len(toGui) : toGui[i] = toGui'[i - 1]
    BY <1>0, <1>2, QueueTail
  <2>2. Head(toGui) = "error" /\ Once => ~Refused'
    BY <2>1 DEF Refused, Once
  <2>3. ASSUME Head(toGui) # "error" PROVE (Refused' <=> Refused) /\ (Once => Once')
    <3>1. Refused' => Refused
      BY <2>1 DEF Refused
    <3>2. Refused => Refused'
      <4> SUFFICES ASSUME NEW i \in 1 .. Len(toGui), toGui[i] = "error" PROVE Refused'
        BY DEF Refused
      <4>1. i - 1 \in 1 .. Len(toGui') /\ toGui'[i - 1] = "error"
        BY <2>1, <2>3
      <4> QED
        BY <4>1 DEF Refused
    <3>3. Once => Once'
      <4> SUFFICES ASSUME Once, NEW i \in 1 .. Len(toGui'), NEW j \in 1 .. Len(toGui'),
                          toGui'[i] = "error", toGui'[j] = "error"
                   PROVE  i = j
        BY DEF Once
      <4>1. i + 1 \in 1 .. Len(toGui) /\ j + 1 \in 1 .. Len(toGui)
            /\ toGui[i + 1] = "error" /\ toGui[j + 1] = "error"
        BY <2>1
      <4>2. i + 1 = j + 1
        BY <4>1 DEF Once
      <4> QED
        BY <2>1, <4>2
    <3> QED
      BY <3>1, <3>2, <3>3
  <2> QED
    BY <2>2, <2>3
<1>3. ASSUME toGui' = Append(toGui, "error") PROVE Refused' /\ (~Refused => Once')
  <2>1. /\ Len(toGui) \in Nat /\ Len(toGui') = Len(toGui) + 1
        /\ toGui'[Len(toGui) + 1] = "error"
        /\ \A i \in 1 .. Len(toGui) : toGui'[i] = toGui[i]
    BY <1>0, <1>3, QueueAppend
  <2>2. Refused'
    BY <2>1 DEF Refused
  <2>3. ASSUME ~Refused PROVE Once'
    <3>1. \A i \in 1 .. Len(toGui') : toGui'[i] = "error" => i = Len(toGui) + 1
      BY <2>1, <2>3 DEF Refused
    <3> QED
      BY <3>1 DEF Once
  <2> QED
    BY <2>2, <2>3
<1>4. toGui' = <<>> => ~Refused' /\ Once'
  BY DEF Refused, Once
<1>5. ASSUME DataArrives PROVE (Refused' <=> Refused) /\ (Once => Once')
  <2>1. toGui' = Append(toGui, "data")
    BY <1>0, <1>5 DEF DataArrives, readData
  <2>2. /\ Len(toGui) \in Nat /\ Len(toGui') = Len(toGui) + 1
        /\ toGui'[Len(toGui) + 1] # "error"
        /\ \A i \in 1 .. Len(toGui) : toGui'[i] = toGui[i]
    BY <1>0, <2>1, QueueAppend
  <2> QED
    BY <2>2 DEF Refused, Once
<1> QED
  BY <1>1, <1>2, <1>3, <1>4, <1>5

\* A step that neither posts nor takes up a call, and ends no session.
LEMMA PortIdle ==
    ASSUME PortFollows, UNCHANGED <<opened, session, port, toWorker>>,
           sendQueue' \in {sendQueue, <<>>}, Early' <=> Early, Orderly' => Orderly,
           Refused' => Refused, Early /\ Refused => Refused', Once => Once'
    PROVE  PortFollows'
<1> SUFFICES ASSUME Orderly PROVE OpenFirst' /\ CloseFirst' /\ PortIsOurs'
  BY DEF PortFollows
<1>0. OpenFirst /\ CloseFirst /\ PortIsOurs
  BY DEF PortFollows
<1>1. OpenFirst'
  BY <1>0 DEF OpenFirst
<1>2. CloseFirst'
  BY <1>0 DEF CloseFirst
<1>3. PortIsOurs'
  BY <1>0 DEF PortIsOurs, Waits
<1> QED
  BY <1>1, <1>2, <1>3

LEMMA PortSends ==
    ASSUME CallsOK, PortFollows, opened, UNCHANGED <<opened, session, port, toGui, sendQueue, gui>>,
           Orderly' => Orderly,
           NEW faithful, NEW fors \in Seq(1 .. MaxSessions), Adds(fors, faithful)
    PROVE  PortFollows'
<1> SUFFICES ASSUME Orderly PROVE OpenFirst' /\ CloseFirst' /\ PortIsOurs'
  BY DEF PortFollows
<1>0. /\ OpenFirst /\ CloseFirst /\ PortIsOurs
      /\ Len(fors) \in Nat /\ Len(toWorker) \in Nat
      /\ (Refused' <=> Refused) /\ (Once' <=> Once) /\ (Early' <=> Early)
  BY CallMoves, SignalMoves DEF PortFollows, Early
<1>1. ASSUME NEW i \in 1 .. Len(toWorker')
      PROVE  \/ i \in 1 .. Len(toWorker) /\ toWorker'[i] = toWorker[i]
             \/ IsSend(toWorker'[i])
  <2>1. CASE i <= Len(toWorker)
    BY <1>0, <2>1 DEF Adds
  <2>2. CASE i > Len(toWorker)
    <3>1. i - Len(toWorker) \in 1 .. Len(fors) /\ i = Len(toWorker) + (i - Len(toWorker))
      BY <1>0, <2>2 DEF Adds
    <3> QED
      BY <3>1 DEF Adds
  <2> QED
    BY <1>0, <2>1, <2>2
<1>2. OpenFirst'
  BY <1>0, <1>1, CallKinds DEF OpenFirst
<1>3. \A i \in 1 .. Len(toWorker) : toWorker[i] # Closing
  BY <1>0 DEF CloseFirst
<1>4. CloseFirst'
  BY <1>1, <1>3, CallKinds DEF CloseFirst
<1>5. Waits(Opening) => Waits(Opening)'
  BY <1>0 DEF Waits, Adds
<1>6. PortIsOurs'
  BY <1>0, <1>5 DEF PortIsOurs
<1> QED
  BY <1>2, <1>4, <1>6

LEMMA PortInit == Init => PortFollows
<1> SUFFICES ASSUME Init PROVE OpenFirst /\ CloseFirst /\ PortIsOurs
  BY DEF PortFollows
<1>1. Len(toWorker) = 0 /\ Len(toGui) = 0
  BY QueueEmpty DEF Init
<1> QED
  BY <1>1 DEF Init, OpenFirst, CloseFirst, PortIsOurs, Refused

\* What a patient user waits for.
LEMMA SettledMeans ==
    ASSUME CallsOK, Settled
    PROVE  Len(toWorker) = 0 /\ sendQueue = <<>> /\ ~Refused
<1>1. Len(toWorker) = 0 /\ sendQueue = <<>>
  BY QueueEmpty DEF Settled, CallsOK
<1>2. DOMAIN toGui = 1 .. Len(toGui)
  BY DEF CallsOK
<1> QED
  BY <1>1, <1>2 DEF Settled, Refused

LEMMA PortStep == TypeOK /\ LifeOK /\ PortFollows /\ [Next]_vars => PortFollows'
<1> SUFFICES ASSUME TypeOK, LifeOK, PortFollows, [Next]_vars PROVE PortFollows'
  OBVIOUS
<1>0. FlagsOK /\ StatesOK /\ CallsOK /\ ThreadOK /\ LastCallOK /\ Len(toWorker) \in Nat
      /\ (Orderly => OpenFirst /\ CloseFirst /\ PortIsOurs)
  BY TypeParts, CallMoves DEF LifeOK, PortFollows
<1>a. (OpenFirst' /\ CloseFirst' /\ PortIsOurs') \/ ~Orderly' => PortFollows'
  BY DEF PortFollows
<1>1. CASE ClickOn
  <2> SUFFICES ASSUME Orderly' PROVE OpenFirst' /\ CloseFirst' /\ PortIsOurs'
    BY <1>a
  <2>1. Orderly /\ Len(toWorker) = 0 /\ sendQueue = <<>> /\ ~Refused
    BY <1>0, <1>1, SettledMeans DEF ClickOn, Click, Orderly
  <2>2. /\ toWorker'[1] = Opening /\ Len(toWorker') = 1
        /\ UNCHANGED <<gui, port, sendQueue, toGui>> /\ opened' /\ ~opened /\ gui = "running"
    BY <1>0, <1>1, <2>1, CallMoves, CallKinds DEF ClickOn, Opening, Comes, device
  <2>3. port = Closed
    BY <1>0, <2>1, <2>2 DEF PortIsOurs, Waits, Early
  <2>4. ~Refused' /\ Waits(Opening)' /\ ~Waits(Closing)'
    BY <1>0, <2>1, <2>2, SignalMoves, CallKinds DEF Waits
  <2>5. OpenFirst' /\ CloseFirst'
    BY <2>1, <2>2, <2>3, <2>4, CallKinds DEF OpenFirst, CloseFirst
  <2>6. PortIsOurs'
    BY <2>2, <2>3, <2>4 DEF PortIsOurs
  <2> QED
    BY <2>5, <2>6
<1>2. CASE ClickOff
  <2> SUFFICES ASSUME Orderly' PROVE OpenFirst' /\ CloseFirst' /\ PortIsOurs'
    BY <1>a
  <2>1. Orderly /\ Len(toWorker) = 0 /\ sendQueue = <<>> /\ ~Refused
    BY <1>0, <1>2, SettledMeans DEF ClickOff, Click, Orderly
  <2>2. /\ toWorker'[1] = Closing /\ Len(toWorker') = 1
        /\ UNCHANGED <<gui, session, port, sendQueue, toGui>> /\ ~opened' /\ opened
        /\ gui = "running"
    BY <1>0, <1>2, <2>1, CallMoves, CallKinds DEF ClickOff, ShowClosed, Closing, Comes, device
  <2>3. port # Closed /\ port = session
    BY <1>0, <2>1, <2>2 DEF PortIsOurs, Waits, Early
  <2>4. ~Refused' /\ Waits(Closing)'
    BY <1>0, <2>1, <2>2, SignalMoves DEF Waits
  <2>5. OpenFirst' /\ CloseFirst'
    BY <2>1, <2>2, <2>3, <2>4, CallKinds DEF OpenFirst, CloseFirst
  <2>6. PortIsOurs'
    BY <2>2, <2>3, <2>4 DEF PortIsOurs
  <2> QED
    BY <2>5, <2>6
<1>3. CASE Destroy
  <2> SUFFICES ASSUME Orderly' PROVE OpenFirst' /\ CloseFirst' /\ PortIsOurs'
    BY <1>a
  <2>1. Comes(Blocking) /\ Orderly
        /\ UNCHANGED <<opened, session, port, sendQueue, toGui>> /\ gui = "running" /\ gui' = "closing"
    BY <1>0, <1>3, CallMoves, CallKinds DEF Destroy, Blocking, device, Orderly
  <2>2. (Refused' <=> Refused) /\ (Once' <=> Once)
    BY <1>0, <2>1, SignalMoves
  <2>3. Waits(Opening)' <=> Waits(Opening)
    BY <1>0, <2>1, CallKinds DEF Waits, Comes
  <2>4. Waits(Closing)' <=> Waits(Closing)
    BY <1>0, <2>1, CallKinds DEF Waits, Comes
  <2>5. OpenFirst'
    BY <1>0, <2>1, <2>2, CallKinds DEF OpenFirst, Comes
  <2>6. CloseFirst'
    BY <1>0, <2>1, <2>2, CallKinds DEF CloseFirst, Comes
  <2>7. PortIsOurs'
    BY <1>0, <2>1, <2>2, <2>3, <2>4 DEF PortIsOurs, Early
  <2> QED
    BY <2>5, <2>6, <2>7
<1>4. CASE sendMessageToPort \/ sendPackageTimeout \/ heartbeatTimeout \/ delayOver
  <2>1. /\ UNCHANGED <<gui, opened, session, port, sendQueue, toGui>>
        /\ Orderly' => Orderly
    BY <1>4 DEF sendMessageToPort, sendPackageTimeout, heartbeatTimeout, delayOver, device, window,
                Remember, Orderly
  <2>2. \/ UNCHANGED <<shown, toWorker>>
        \/ \E for, faithful : Sends(for, faithful)
    BY <1>4, SendCases DEF delayOver
  <2>3. CASE UNCHANGED toWorker
    <3>1. (Early' <=> Early) /\ (Refused' <=> Refused) /\ (Once' <=> Once)
      BY <1>0, <2>1, SignalMoves DEF Early
    <3> QED
      BY <2>1, <2>3, <3>1, PortIdle
  <2>4. CASE \E for, faithful : opened /\ \E fors \in Seq(1 .. MaxSessions) : Adds(fors, faithful)
    BY <1>0, <2>1, <2>4, PortSends
  <2> QED
    BY <2>2, <2>3, <2>4 DEF Sends
<1>5. CASE QueuedCall /\ Head(toGui) = "error"
  <2>1. /\ UNCHANGED <<gui, session, port, sendQueue, toWorker>> /\ ~opened' /\ gui = "running"
        /\ Orderly' => Orderly
    BY <1>5 DEF QueuedCall, showErrorMessage, ShowClosed, device, Remember, Orderly
  <2> SUFFICES ASSUME Orderly' PROVE OpenFirst' /\ CloseFirst' /\ PortIsOurs'
    BY <1>a
  <2>2. Refused
    <3>1. 1 \in 1 .. Len(toGui) /\ toGui[1] = "error"
      BY <1>0, <1>5, QueueTail DEF QueuedCall, CallsOK
    <3> QED
      BY <3>1 DEF Refused
  <2>3. opened /\ port = Closed /\ Once
    BY <1>0, <2>1, <2>2 DEF PortIsOurs, Early
  <2>4. ~Refused'
    BY <1>0, <1>5, <2>3, SignalMoves DEF QueuedCall
  <2>5. \A i \in 1 .. Len(toWorker') : toWorker'[i] # Opening /\ toWorker'[i] # Closing
    BY <1>0, <2>1, <2>2 DEF OpenFirst, CloseFirst
  <2> QED
    BY <2>1, <2>3, <2>4, <2>5 DEF OpenFirst, CloseFirst, PortIsOurs
<1>6. CASE QueuedCall /\ Head(toGui) # "error"
  <2>1. /\ UNCHANGED <<gui, opened, session, port, sendQueue, toWorker>> /\ (Orderly' => Orderly)
    BY <1>6 DEF QueuedCall, device, window, Orderly
  <2>2. (Early' <=> Early) /\ (Refused' <=> Refused) /\ (Once => Once')
    BY <1>0, <1>6, <2>1, SignalMoves DEF QueuedCall, Early
  <2> QED
    BY <2>1, <2>2, PortIdle
<1>7. CASE \/ settingChanged \/ toggled \/ sendInstructionTableContent \/ quit \/ DataArrives
           \/ UNCHANGED vars
  <2>1. /\ UNCHANGED <<opened, session, port, sendQueue, toWorker>> /\ (Orderly' => Orderly)
        /\ UNCHANGED toGui \/ DataArrives
    BY <1>7 DEF settingChanged, toggled, sendInstructionTableContent, quit, DataArrives, vars,
                window, device, Orderly, Remember
  <2>2. Early' <=> Early
    BY <1>7 DEF settingChanged, toggled, sendInstructionTableContent, quit, DataArrives, vars, Early
  <2>3. (Refused' <=> Refused) /\ (Once => Once')
    BY <1>0, <2>1, SignalMoves
  <2> QED
    BY <2>1, <2>2, <2>3, PortIdle
<1>8. CASE waitOver \/ finished
  <2>1. /\ ~Early /\ ~Early' /\ UNCHANGED <<opened, session, toWorker, careless>>
        /\ UNCHANGED toGui \/ toGui' = <<>>
        /\ UNCHANGED port \/ port' = Closed
        /\ UNCHANGED sendQueue \/ sendQueue' = <<>>
    BY <1>0, <1>8 DEF waitOver, finished, window, device, Early, ThreadOK
  <2>2. UNCHANGED port
    BY <1>0, <2>1 DEF ThreadOK
  <2>3. (Refused' => Refused) /\ (Once => Once') /\ (Orderly' <=> Orderly)
    BY <1>0, <2>1, SignalMoves DEF Orderly
  <2> QED
    BY <2>1, <2>2, <2>3, PortIdle
<1>9. CASE Fault
  BY <1>9, <1>a DEF Fault, Orderly
<1>10. CASE TakesOpening
  <2> SUFFICES ASSUME Orderly' PROVE OpenFirst' /\ CloseFirst' /\ PortIsOurs'
    BY <1>a
  <2>1. /\ Goes(Opening) /\ Orderly
        /\ UNCHANGED <<gui, opened, session, sendQueue>>
    BY <1>0, <1>10, CallMoves DEF TakesOpening, Taken, window, Orderly
  <2>2. Waits(Opening) /\ opened /\ ~Refused /\ port = Closed
    BY <1>0, <2>1 DEF Goes, OpenFirst, Waits
  <2>3. \A i \in 1 .. Len(toWorker) : toWorker[i] # Closing /\ (i # 1 => toWorker[i] # Opening)
    BY <1>0, <2>1, <2>2 DEF Goes, OpenFirst, CloseFirst
  <2>4. \A i \in 1 .. Len(toWorker') : toWorker'[i] # Closing /\ toWorker'[i] # Opening
    BY <1>0, <2>1, <2>3 DEF Goes
  <2>5. \/ port' = session /\ ~Refused'
        \/ port' = Closed /\ Refused' /\ Once'
    BY <1>0, <1>10, <2>2, SignalMoves DEF TakesOpening, openSerialPort
  <2> QED
    BY <1>0, <2>1, <2>2, <2>4, <2>5 DEF OpenFirst, CloseFirst, PortIsOurs, ThreadOK, Closed
<1>11. CASE TakesClosing \/ TakesBlocking
  <2> SUFFICES ASSUME Orderly' PROVE OpenFirst' /\ CloseFirst' /\ PortIsOurs'
    BY <1>a
  <2>1. PICK call \in {Closing, Blocking} : Goes(call)
    BY <1>0, <1>11, CallMoves DEF TakesClosing, TakesBlocking
  <2>2. /\ Orderly /\ UNCHANGED <<opened, session, sendQueue, toGui>> /\ port' = Closed
        /\ call = Closing => UNCHANGED gui
        /\ call = Blocking => ~Early'
    BY <1>0, <1>11, <2>1, CallKinds
       DEF TakesClosing, TakesBlocking, Taken, window, Orderly, Goes, Early
  <2>3. \A i \in 1 .. Len(toWorker') : toWorker'[i] # Opening
    BY <1>0, <2>1, <2>2, CallKinds DEF Goes, OpenFirst
  <2>4. \A i \in 1 .. Len(toWorker') : toWorker'[i] # Closing
    BY <1>0, <2>1, <2>2, CallKinds DEF Goes, CloseFirst
  <2>5. call = Closing => ~opened /\ ~Refused
    BY <1>0, <2>1, <2>2 DEF Goes, CloseFirst
  <2>6. (Refused' <=> Refused) /\ (Once' <=> Once)
    BY <1>0, <2>2, SignalMoves
  <2> QED
    BY <2>2, <2>3, <2>4, <2>5, <2>6 DEF OpenFirst, CloseFirst, PortIsOurs
<1>12. CASE TakesWrite
  <2> SUFFICES ASSUME Orderly' PROVE OpenFirst' /\ CloseFirst' /\ PortIsOurs'
    BY <1>a
  <2>1. /\ Goes(Write) /\ Orderly /\ UNCHANGED <<gui, opened, session, port, toGui>>
    BY <1>0, <1>12, CallMoves DEF TakesWrite, Taken, window, Orderly
  <2>2. \A i \in 1 .. Len(toWorker) : toWorker[i] # Opening /\ toWorker[i] # Closing
    BY <1>0, <2>1, CallKinds DEF Goes, OpenFirst, CloseFirst
  <2>3. \A i \in 1 .. Len(toWorker') : toWorker'[i] # Opening /\ toWorker'[i] # Closing
    BY <1>0, <2>1, <2>2 DEF Goes
  <2>4. (Refused' <=> Refused) /\ (Once' <=> Once) /\ (Early' <=> Early)
    BY <1>0, <2>1, SignalMoves DEF Early
  <2> QED
    BY <1>0, <2>1, <2>2, <2>3, <2>4 DEF OpenFirst, CloseFirst, PortIsOurs, Waits
<1>13. CASE TakesSend
  <2> SUFFICES ASSUME Orderly' PROVE OpenFirst' /\ CloseFirst' /\ PortIsOurs'
    BY <1>a
  <2> PICK chunk \in Chunks : /\ Taken(SendOf(chunk))
                              /\ toWorker' = Append(Tail(toWorker), Write)
                              /\ UNCHANGED <<gui, port, readers, wire, toGui>>
    BY <1>13 DEF TakesSend
  <2>1. /\ GoesForWrite(SendOf(chunk)) /\ Orderly /\ UNCHANGED <<gui, opened, session, port, toGui>>
    BY <1>0, CallMoves DEF Taken, window, Orderly
  <2>2. IsSend(SendOf(chunk))
    BY CallKinds
  <2>3. \A i \in 1 .. Len(toWorker) : toWorker[i] # Opening
    BY <1>0, <2>1, <2>2, CallKinds DEF GoesForWrite, OpenFirst
  <2>4. \A i \in 1 .. Len(toWorker) : toWorker[i] # Closing
    BY <1>0, <2>1, <2>2 DEF GoesForWrite, CloseFirst
  <2>5. \A i \in 1 .. Len(toWorker') : toWorker'[i] # Opening /\ toWorker'[i] # Closing
    <3> SUFFICES ASSUME NEW i \in 1 .. Len(toWorker')
                 PROVE  toWorker'[i] # Opening /\ toWorker'[i] # Closing
      OBVIOUS
    <3>1. CASE i = Len(toWorker)
      BY <2>1, <3>1, CallKinds DEF GoesForWrite
    <3>2. CASE i # Len(toWorker)
      BY <1>0, <2>1, <2>3, <2>4, <3>2 DEF GoesForWrite
    <3> QED
      BY <3>1, <3>2
  <2>6. (Refused' <=> Refused) /\ (Once' <=> Once) /\ (Early' <=> Early)
    BY <1>0, <2>1, SignalMoves DEF Early
  <2> QED
    BY <1>0, <2>1, <2>3, <2>4, <2>5, <2>6 DEF OpenFirst, CloseFirst, PortIsOurs, Waits
<1> QED
  BY <1>0, <1>1, <1>2, <1>3, <1>4, <1>5, <1>6, <1>7, <1>8, <1>9, <1>10, <1>11, <1>12, <1>13,
     PostedCases
     DEF Next, GuiStep, WorkerStep

-----------------------------------------------------------------------------
(* The chunks are numbered through *)

\* The chunks in the calls have the numbers after low up to high, in order.
Numbering(calls, low, high) ==
    /\ low <= high
    /\ \A i \in 1 .. Len(calls) : IsSend(calls[i]) => calls[i][2].no \in low + 1 .. high
    /\ \A i, j \in 1 .. Len(calls) :
           i < j /\ IsSend(calls[i]) /\ IsSend(calls[j]) => calls[i][2].no < calls[j][2].no
    /\ \A n \in low + 1 .. high :
           \E i \in 1 .. Len(calls) : IsSend(calls[i]) /\ calls[i][2].no = n

LEMMA NumberingNone ==
    ASSUME NEW calls \in Seq(Calls), NEW low \in Nat, NEW high \in Nat,
           \A i \in 1 .. Len(calls) : ~IsSend(calls[i])
    PROVE  Numbering(calls, low, high) <=> low = high
  BY DEF Numbering

LEMMA NumberingComes ==
    ASSUME NEW calls \in Seq(Calls), NEW more \in Seq(Calls), NEW low \in Nat, NEW high \in Nat,
           Len(more) = Len(calls) + 1, ~IsSend(more[Len(calls) + 1]),
           \A i \in 1 .. Len(calls) : more[i] = calls[i],
           Numbering(calls, low, high)
    PROVE  Numbering(more, low, high)
<1>0. Len(calls) \in Nat
  OBVIOUS
<1>1. \A i \in 1 .. Len(more) : IsSend(more[i]) => i \in 1 .. Len(calls) /\ more[i] = calls[i]
  BY <1>0
<1>2. \A i \in 1 .. Len(calls) : i \in 1 .. Len(more)
  BY <1>0
<1> QED
  BY <1>1, <1>2 DEF Numbering

LEMMA NumberingGoes ==
    ASSUME NEW calls \in Seq(Calls), NEW rest \in Seq(Calls), NEW low \in Nat, NEW high \in Nat,
           Len(calls) >= 1, Len(rest) = Len(calls) - 1, ~IsSend(calls[1]),
           \A i \in 1 .. Len(rest) : rest[i] = calls[i + 1],
           Numbering(calls, low, high)
    PROVE  Numbering(rest, low, high)
<1>0. Len(calls) \in Nat
  OBVIOUS
<1>1. \A i \in 1 .. Len(rest) : i + 1 \in 1 .. Len(calls) /\ rest[i] = calls[i + 1]
  BY <1>0
<1>2. \A i \in 1 .. Len(calls) : IsSend(calls[i]) => i - 1 \in 1 .. Len(rest) /\ rest[i - 1] = calls[i]
  BY <1>0
<1>3. ASSUME NEW n \in low + 1 .. high
      PROVE  \E i \in 1 .. Len(rest) : IsSend(rest[i]) /\ rest[i][2].no = n
  <2> PICK i \in 1 .. Len(calls) : IsSend(calls[i]) /\ calls[i][2].no = n
    BY DEF Numbering
  <2>1. i - 1 \in 1 .. Len(rest) /\ rest[i - 1] = calls[i]
    BY <1>2
  <2> QED
    BY <2>1
<1>4. \A i, j \in 1 .. Len(rest) : i < j => i + 1 < j + 1
  BY <1>0
<1> QED
  BY <1>1, <1>3, <1>4 DEF Numbering

\* The first chunk has the first number, and the others the numbers after it.
LEMMA NumberingTakes ==
    ASSUME NEW calls \in Seq(Calls), NEW rest \in Seq(Calls), NEW low \in Nat, NEW high \in Nat,
           Len(calls) >= 1, Len(rest) = Len(calls), IsSend(calls[1]),
           \A i \in 1 .. Len(calls) - 1 : rest[i] = calls[i + 1],
           ~IsSend(rest[Len(calls)]),
           Numbering(calls, low, high)
    PROVE  calls[1][2].no = low + 1 /\ Numbering(rest, low + 1, high)
<1>0. Len(calls) \in Nat /\ 1 \in 1 .. Len(calls)
  OBVIOUS
<1>1. calls[1][2].no \in low + 1 .. high
  BY <1>0 DEF Numbering
<1>2. \A j \in 2 .. Len(calls) : IsSend(calls[j]) => calls[1][2].no < calls[j][2].no
  BY <1>0 DEF Numbering
<1>3. calls[1][2].no = low + 1
  <2>1. PICK i \in 1 .. Len(calls) : IsSend(calls[i]) /\ calls[i][2].no = low + 1
    BY <1>1 DEF Numbering
  <2>2. CASE i = 1
    BY <2>1, <2>2
  <2>3. CASE i # 1
    BY <1>1, <1>2, <2>1, <2>3
  <2> QED
    BY <2>2, <2>3
<1>4. \A i \in 1 .. Len(rest) :
          IsSend(rest[i]) => i + 1 \in 2 .. Len(calls) /\ rest[i] = calls[i + 1]
  BY <1>0
<1>5. \A i \in 1 .. Len(rest) : IsSend(rest[i]) => rest[i][2].no \in (low + 1) + 1 .. high
  <2> SUFFICES ASSUME NEW i \in 1 .. Len(rest), IsSend(rest[i])
               PROVE  rest[i][2].no \in (low + 1) + 1 .. high
    OBVIOUS
  <2>1. i + 1 \in 1 .. Len(calls) /\ i + 1 \in 2 .. Len(calls) /\ rest[i] = calls[i + 1]
    BY <1>4
  <2>2. calls[i + 1][2].no \in low + 1 .. high
    BY <2>1 DEF Numbering
  <2> QED
    BY <1>2, <1>3, <2>1, <2>2
<1>6. ASSUME NEW i \in 1 .. Len(rest), NEW j \in 1 .. Len(rest), i < j,
             IsSend(rest[i]), IsSend(rest[j])
      PROVE  rest[i][2].no < rest[j][2].no
  <2>1. i + 1 \in 1 .. Len(calls) /\ j + 1 \in 1 .. Len(calls) /\ i + 1 < j + 1
        /\ rest[i] = calls[i + 1] /\ rest[j] = calls[j + 1]
    BY <1>4, <1>6
  <2> QED
    BY <1>6, <2>1 DEF Numbering
<1>7. \A n \in (low + 1) + 1 .. high : \E i \in 1 .. Len(rest) : IsSend(rest[i]) /\ rest[i][2].no = n
  <2> SUFFICES ASSUME NEW n \in (low + 1) + 1 .. high
               PROVE  \E i \in 1 .. Len(rest) : IsSend(rest[i]) /\ rest[i][2].no = n
    OBVIOUS
  <2>1. PICK i \in 1 .. Len(calls) : IsSend(calls[i]) /\ calls[i][2].no = n
    BY DEF Numbering
  <2>2. i # 1
    BY <1>3, <2>1
  <2>3. i - 1 \in 1 .. Len(rest) /\ rest[i - 1] = calls[i]
    BY <1>0, <2>2
  <2> QED
    BY <2>1, <2>3
<1>8. low + 1 <= high
  BY <1>1
<1> QED
  BY <1>3, <1>5, <1>6, <1>7, <1>8 DEF Numbering

\* Chunks that come in last have the numbers after high.
LEMMA NumberingAdds ==
    ASSUME NEW calls \in Seq(Calls), NEW more \in Seq(Calls), NEW low \in Nat, NEW high \in Nat,
           NEW new \in Nat, Len(more) = Len(calls) + new,
           \A i \in 1 .. Len(calls) : more[i] = calls[i],
           \A i \in 1 .. new : IsSend(more[Len(calls) + i]) /\ more[Len(calls) + i][2].no = high + i,
           Numbering(calls, low, high)
    PROVE  Numbering(more, low, high + new)
<1>0. Len(calls) \in Nat
  OBVIOUS
<1>1. ASSUME NEW i \in 1 .. Len(more)
      PROVE  \/ i \in 1 .. Len(calls) /\ more[i] = calls[i]
             \/ /\ i > Len(calls) /\ IsSend(more[i])
                /\ more[i][2].no = high + (i - Len(calls)) /\ i - Len(calls) \in 1 .. new
  <2>1. CASE i <= Len(calls)
    BY <1>0, <2>1
  <2>2. CASE i > Len(calls)
    <3>1. i - Len(calls) \in 1 .. new /\ i = Len(calls) + (i - Len(calls))
      BY <1>0, <2>2
    <3> QED
      BY <2>2, <3>1
  <2> QED
    BY <1>0, <2>1, <2>2
<1>2. low <= high + new
  BY DEF Numbering
<1>3. \A i \in 1 .. Len(more) : IsSend(more[i]) => more[i][2].no \in low + 1 .. high + new
  <2> SUFFICES ASSUME NEW i \in 1 .. Len(more), IsSend(more[i])
               PROVE  more[i][2].no \in low + 1 .. high + new
    OBVIOUS
  <2>1. CASE i \in 1 .. Len(calls) /\ more[i] = calls[i]
    <3>1. calls[i][2].no \in low + 1 .. high
      BY <2>1 DEF Numbering
    <3> QED
      BY <2>1, <3>1
  <2>2. CASE more[i][2].no = high + (i - Len(calls)) /\ i - Len(calls) \in 1 .. new
    BY <2>2 DEF Numbering
  <2> QED
    BY <1>1, <2>1, <2>2
<1>4. ASSUME NEW i \in 1 .. Len(more), NEW j \in 1 .. Len(more), i < j,
             IsSend(more[i]), IsSend(more[j])
      PROVE  more[i][2].no < more[j][2].no
  <2>1. CASE j \in 1 .. Len(calls) /\ more[j] = calls[j]
    <3>1. i \in 1 .. Len(calls) /\ more[i] = calls[i]
      BY <1>0, <1>4, <2>1
    <3> QED
      BY <1>4, <2>1, <3>1 DEF Numbering
  <2>2. CASE more[j][2].no = high + (j - Len(calls)) /\ j - Len(calls) \in 1 .. new
    <3>1. CASE i \in 1 .. Len(calls) /\ more[i] = calls[i]
      <4>1. calls[i][2].no \in low + 1 .. high
        BY <1>4, <3>1 DEF Numbering
      <4> QED
        BY <2>2, <3>1, <4>1
    <3>2. CASE more[i][2].no = high + (i - Len(calls)) /\ i - Len(calls) \in 1 .. new
      BY <1>0, <1>4, <2>2, <3>2
    <3> QED
      BY <1>1, <3>1, <3>2
  <2> QED
    BY <1>1, <2>1, <2>2
<1>5. ASSUME NEW n \in low + 1 .. high + new
      PROVE  \E i \in 1 .. Len(more) : IsSend(more[i]) /\ more[i][2].no = n
  <2>1. CASE n <= high
    <3>1. PICK i \in 1 .. Len(calls) : IsSend(calls[i]) /\ calls[i][2].no = n
      BY <1>5, <2>1 DEF Numbering
    <3> QED
      BY <1>0, <3>1
  <2>2. CASE n > high
    <3> PICK k \in 1 .. new : n = high + k
      <4>1. n - high \in 1 .. new /\ n = high + (n - high)
        BY <1>5, <2>2
      <4> QED
        BY <4>1
    <3>1. Len(calls) + k \in 1 .. Len(more)
      BY <1>0
    <3> QED
      BY <3>1
  <2> QED
    BY <1>5, <2>1, <2>2
<1> QED
  BY <1>2, <1>3, <1>4, <1>5 DEF Numbering

\* What is written or waits in send_queue_ to be written to the open port.
Written == IF port = Closed THEN 0 ELSE Len(wire) + Len(sendQueue)

OnTheWay ==
    port # Closed \/ Waits(Opening) =>
        /\ Numbering(toWorker, Written, shown)
        /\ \A i \in 1 .. Len(toWorker) : IsSend(toWorker[i]) => toWorker[i][2].at = session

OnTheWire ==
    /\ \A i, j \in 1 .. Len(wire) : wire[i].no = i /\ wire[i].at = wire[j].at
    /\ port # Closed =>
        /\ \A i \in 1 .. Len(wire) : wire[i].at = session
        /\ \A i \in 1 .. Len(sendQueue) :
            sendQueue[i].at = session /\ sendQueue[i].no = Len(wire) + i

InOrder == Orderly => OnTheWay /\ OnTheWire

LEMMA WrittenType == CallsOK => Written \in Nat /\ Len(wire) \in Nat /\ Len(sendQueue) \in Nat
  BY DEF Written, CallsOK

LEMMA OrderInit == Init => InOrder
<1> SUFFICES ASSUME Init PROVE OnTheWay /\ OnTheWire
  BY DEF InOrder
<1>1. Len(toWorker) = 0 /\ Len(wire) = 0
  BY QueueEmpty DEF Init
<1> QED
  BY <1>1 DEF Init, OnTheWay, OnTheWire, Waits

LEMMA OrderIdle ==
    ASSUME InOrder, Orderly' => Orderly,
           UNCHANGED <<session, shown, port, sendQueue, wire, toWorker>>
    PROVE  InOrder'
  BY DEF InOrder, OnTheWay, OnTheWire, Written, Waits

LEMMA OrderStep == TypeOK /\ LifeOK /\ PortFollows /\ InOrder /\ [Next]_vars => InOrder'
<1> SUFFICES ASSUME TypeOK, LifeOK, PortFollows, InOrder, [Next]_vars PROVE InOrder'
  OBVIOUS
<1>0. /\ StatesOK /\ CallsOK /\ CallsOK' /\ ThreadOK /\ LastCallOK /\ Len(toWorker) \in Nat
      /\ shown \in Nat /\ Written \in Nat /\ Written' \in Nat
      /\ toWorker \in Seq(Calls) /\ toWorker' \in Seq(Calls)
  <2>1. StatesOK /\ CallsOK /\ CallsOK' /\ ThreadOK /\ LastCallOK
    BY TypeParts, CallsStep DEF LifeOK
  <2>2. Len(toWorker) \in Nat /\ Written \in Nat
    BY <2>1, CallMoves, WrittenType
  <2>3. Written' \in Nat
    BY <2>1 DEF Written, CallsOK
  <2>4. shown \in Nat
    BY <2>1, BoundsAssumption DEF StatesOK
  <2>5. toWorker \in Seq(Calls) /\ toWorker' \in Seq(Calls)
    BY <2>1 DEF CallsOK
  <2> QED
    BY <2>1, <2>2, <2>3, <2>4, <2>5
<1>b. Orderly => OpenFirst /\ CloseFirst /\ PortIsOurs /\ OnTheWay /\ OnTheWire
  BY DEF PortFollows, InOrder
<1>1. CASE ClickOn
  <2> SUFFICES ASSUME Orderly' PROVE OnTheWay' /\ OnTheWire'
    BY DEF InOrder
  <2>1. Orderly /\ Len(toWorker) = 0 /\ sendQueue = <<>> /\ ~Refused
    BY <1>0, <1>1, SettledMeans DEF ClickOn, Click, Orderly
  <2>2. /\ toWorker'[1] = Opening /\ Len(toWorker') = 1 /\ shown' = 0
        /\ UNCHANGED <<port, wire, sendQueue>> /\ ~opened /\ gui = "running"
    BY <1>0, <1>1, <2>1, CallMoves, CallKinds DEF ClickOn, Opening, Comes, device
  <2>3. port = Closed
    BY <1>b, <2>1, <2>2 DEF PortIsOurs, Waits, Early
  <2>4. Written' = 0 /\ \A i \in 1 .. Len(toWorker') : ~IsSend(toWorker'[i])
    BY <2>2, <2>3, CallKinds DEF Written
  <2>5. Numbering(toWorker', Written', shown')
    BY <1>0, <2>2, <2>4, NumberingNone
  <2>6. OnTheWay'
    BY <2>4, <2>5 DEF OnTheWay
  <2>7. OnTheWire'
    BY <1>b, <2>1, <2>2, <2>3 DEF OnTheWire
  <2> QED
    BY <2>6, <2>7
<1>2. CASE ClickOff \/ Destroy
  <2> SUFFICES ASSUME Orderly' PROVE OnTheWay' /\ OnTheWire'
    BY DEF InOrder
  <2>1. PICK call \in {Closing, Blocking} : Comes(call)
    BY <1>0, <1>2, CallMoves, CallKinds DEF ClickOff, Destroy, Closing, Blocking
  <2>2. UNCHANGED <<session, shown, port, sendQueue, wire>> /\ Orderly
    BY <1>2 DEF ClickOff, Destroy, device, Click, Orderly
  <2>3. Waits(Opening)' <=> Waits(Opening)
    BY <1>0, <2>1, CallKinds DEF Waits, Comes
  <2>4. ASSUME port # Closed \/ Waits(Opening)
        PROVE  /\ Numbering(toWorker', Written, shown)
               /\ \A i \in 1 .. Len(toWorker') : IsSend(toWorker'[i]) => toWorker'[i][2].at = session
    <3>1. Numbering(toWorker, Written, shown)
          /\ \A i \in 1 .. Len(toWorker) : IsSend(toWorker[i]) => toWorker[i][2].at = session
      BY <1>b, <2>2, <2>4 DEF OnTheWay
    <3>2. ~IsSend(toWorker'[Len(toWorker) + 1])
      BY <2>1, CallKinds DEF Comes
    <3>3. Numbering(toWorker', Written, shown)
      BY <1>0, <2>1, <3>1, <3>2, NumberingComes DEF Comes
    <3> QED
      BY <1>0, <2>1, <3>1, <3>2, <3>3 DEF Comes
  <2>5. Written' = Written
    BY <2>2 DEF Written
  <2>6. OnTheWay'
    BY <2>2, <2>3, <2>4, <2>5 DEF OnTheWay
  <2>7. OnTheWire'
    BY <1>b, <2>2 DEF OnTheWire
  <2> QED
    BY <2>6, <2>7
<1>4. CASE sendMessageToPort \/ sendPackageTimeout \/ heartbeatTimeout \/ delayOver
  <2>1. /\ UNCHANGED <<session, port, sendQueue, wire>>
        /\ Orderly' => Orderly
    BY <1>4 DEF sendMessageToPort, sendPackageTimeout, heartbeatTimeout, delayOver, device, window,
                Remember, Orderly
  <2>2. \/ UNCHANGED <<shown, toWorker>>
        \/ \E for, faithful : Sends(for, faithful)
    BY <1>4, SendCases DEF delayOver
  <2>3. CASE UNCHANGED <<shown, toWorker>>
    BY <2>1, <2>3, OrderIdle
  <2>4. CASE \E for, faithful : opened /\ \E fors \in Seq(1 .. MaxSessions) : Adds(fors, faithful)
    <3> SUFFICES ASSUME Orderly' PROVE OnTheWay' /\ OnTheWire'
      BY DEF InOrder
    <3> PICK faithful : \E fors \in Seq(1 .. MaxSessions) : Adds(fors, faithful)
      BY <2>4
    <3> PICK fors \in Seq(1 .. MaxSessions) : Adds(fors, faithful)
      OBVIOUS
    <3> PICK new \in Nat : new = Len(fors)
      OBVIOUS
    <3>1. Waits(Opening)' => Waits(Opening)
      <4> SUFFICES ASSUME NEW i \in 1 .. Len(toWorker'), toWorker'[i] = Opening
                   PROVE  Waits(Opening)
        BY DEF Waits
      <4>1. CASE i <= Len(toWorker)
        BY <1>0, <4>1 DEF Waits, Adds
      <4>2. CASE i > Len(toWorker)
        <5>1. i - Len(toWorker) \in 1 .. new /\ i = Len(toWorker) + (i - Len(toWorker))
          BY <1>0, <4>2 DEF Adds
        <5>2. IsSend(toWorker'[i])
          BY <5>1 DEF Adds
        <5> QED
          BY <5>2, CallKinds
      <4> QED
        BY <1>0, <4>1, <4>2
    <3>2. \A i \in 1 .. new : /\ IsSend(toWorker'[Len(toWorker) + i])
                              /\ toWorker'[Len(toWorker) + i][2].no = shown + i
                              /\ toWorker'[Len(toWorker) + i][2].at = session
      <4> SUFFICES ASSUME NEW i \in 1 .. new
                   PROVE  /\ IsSend(toWorker'[Len(toWorker) + i])
                          /\ toWorker'[Len(toWorker) + i][2].no = shown + i
                          /\ toWorker'[Len(toWorker) + i][2].at = session
        OBVIOUS
      <4>1. /\ IsSend(toWorker'[Len(toWorker) + i])
            /\ toWorker'[Len(toWorker) + i][2] = Chunk(fors[i], shown + i, faithful)
        BY DEF Adds
      <4>2. Chunk(fors[i], shown + i, faithful).no = shown + i
        BY DEF Chunk
      <4>3. Chunk(fors[i], shown + i, faithful).at = session
        BY DEF Chunk
      <4> QED
        BY <4>1, <4>2, <4>3
    <3>3. Written' = Written
      BY <2>1 DEF Written
    <3>4. ASSUME port # Closed \/ Waits(Opening)
          PROVE  /\ Numbering(toWorker', Written, shown + new)
                 /\ \A i \in 1 .. Len(toWorker') :
                        IsSend(toWorker'[i]) => toWorker'[i][2].at = session
      <4>1. Numbering(toWorker, Written, shown)
            /\ \A i \in 1 .. Len(toWorker) : IsSend(toWorker[i]) => toWorker[i][2].at = session
        BY <1>b, <2>1, <3>4 DEF OnTheWay
      <4>2. /\ Len(toWorker') = Len(toWorker) + new
            /\ \A i \in 1 .. Len(toWorker) : toWorker'[i] = toWorker[i]
        BY DEF Adds
      <4>3. Numbering(toWorker', Written, shown + new)
        BY <1>0, <3>2, <4>1, <4>2, NumberingAdds
      <4>4. ASSUME NEW i \in 1 .. Len(toWorker'), IsSend(toWorker'[i])
            PROVE  toWorker'[i][2].at = session
        <5>1. CASE i <= Len(toWorker)
          BY <1>0, <4>1, <4>2, <4>4, <5>1
        <5>2. CASE i > Len(toWorker)
          <6>1. i - Len(toWorker) \in 1 .. new /\ i = Len(toWorker) + (i - Len(toWorker))
            BY <1>0, <4>2, <5>2
          <6> QED
            BY <3>2, <6>1
        <5> QED
          BY <1>0, <5>1, <5>2
      <4> QED
        BY <4>3, <4>4
    <3>5. shown' = shown + new
      BY DEF Adds
    <3>6. OnTheWay'
      BY <2>1, <3>1, <3>3, <3>4, <3>5 DEF OnTheWay
    <3>7. OnTheWire'
      BY <1>b, <2>1 DEF OnTheWire
    <3> QED
      BY <3>6, <3>7
  <2> QED
    BY <2>2, <2>3, <2>4 DEF Sends
<1>5. CASE \/ QueuedCall \/ settingChanged \/ toggled \/ sendInstructionTableContent \/ quit
           \/ waitOver \/ DataArrives \/ UNCHANGED vars
  <2>1. UNCHANGED <<session, shown, port, sendQueue, wire, toWorker>> /\ (Orderly' => Orderly)
    BY <1>5 DEF QueuedCall, settingChanged, toggled, sendInstructionTableContent, quit, DataArrives,
                vars, waitOver, showErrorMessage, window, device, Orderly, Remember
  <2> QED
    BY <2>1, OrderIdle
<1>6. CASE finished
  <2>1. /\ UNCHANGED <<session, shown, wire, toWorker, careless>> /\ port' = Closed /\ ~Early
    BY <1>0, <1>6 DEF finished, window, ThreadOK, Early
  <2> SUFFICES ASSUME Orderly' PROVE OnTheWay' /\ OnTheWire'
    BY DEF InOrder
  <2>2. ~Waits(Opening)'
    BY <1>0, <2>1, CallKinds DEF Waits, LastCallOK
  <2> QED
    BY <1>b, <2>1, <2>2 DEF OnTheWay, OnTheWire, Orderly
<1>9. CASE Fault
  BY <1>9 DEF Fault, InOrder, Orderly
<1>10. CASE TakesOpening \/ TakesClosing \/ TakesBlocking
  <2> SUFFICES ASSUME Orderly' PROVE OnTheWay' /\ OnTheWire'
    BY DEF InOrder
  <2>1. PICK call \in {Opening, Closing, Blocking} : Goes(call)
    BY <1>0, <1>10, CallMoves DEF TakesOpening, TakesClosing, TakesBlocking
  <2>2. /\ Orderly /\ UNCHANGED <<session, shown, sendQueue>>
        /\ \/ UNCHANGED <<port, wire>>
           \/ port' = session /\ wire' = <<>> /\ port = Closed
           \/ port' = Closed /\ UNCHANGED wire
    BY <1>10 DEF TakesOpening, TakesClosing, TakesBlocking, Taken, openSerialPort, Orderly
  <2>3. \A i \in 1 .. Len(toWorker') : toWorker'[i] # Opening
    BY <1>0, <1>b, <2>1, <2>2, CallKinds DEF Goes, OpenFirst
  <2>4. CASE port' = Closed
    <3>1. OnTheWay'
      BY <2>3, <2>4 DEF OnTheWay, Waits
    <3>2. OnTheWire'
      BY <1>b, <2>2, <2>4, QueueEmpty DEF OnTheWire, Closed
    <3> QED
      BY <3>1, <3>2
  <2>5. CASE port' # Closed
    <3>1. TakesOpening /\ call = Opening
      BY <1>0, <1>10, <2>1, <2>5, CallKinds, CallMoves DEF TakesClosing, TakesBlocking, TakesOpening, Goes
    <3>2. port = Closed /\ sendQueue = <<>> /\ Waits(Opening)
      BY <1>0, <1>b, <2>1, <2>2, <3>1 DEF Goes, OpenFirst, Waits
    <3>3. port' = session /\ Len(wire') = 0 /\ Len(sendQueue') = 0
      BY <2>2, <2>5, <3>2, QueueEmpty
    <3>4. Written = 0 /\ Written' = 0
      BY <2>5, <3>2, <3>3 DEF Written
    <3>5. Numbering(toWorker', 0, shown)
      <4>1. Numbering(toWorker, 0, shown)
        BY <1>b, <2>2, <3>2, <3>4 DEF OnTheWay
      <4>2. ~IsSend(toWorker[1])
        BY <2>1, CallKinds DEF Goes
      <4> QED
        BY <1>0, <2>1, <4>1, <4>2, NumberingGoes DEF Goes
    <3>6. \A i \in 1 .. Len(toWorker') : IsSend(toWorker'[i]) => toWorker'[i][2].at = session
      BY <1>0, <1>b, <2>1, <2>2, <3>2 DEF Goes, OnTheWay
    <3>7. OnTheWay'
      BY <2>2, <3>4, <3>5, <3>6 DEF OnTheWay
    <3>8. OnTheWire'
      BY <3>3 DEF OnTheWire
    <3> QED
      BY <3>7, <3>8
  <2> QED
    BY <2>4, <2>5
<1>12. CASE TakesWrite
  <2> SUFFICES ASSUME Orderly' PROVE OnTheWay' /\ OnTheWire'
    BY DEF InOrder
  <2>1. /\ Goes(Write) /\ Orderly /\ UNCHANGED <<session, shown, port>>
        /\ sendQueue' = <<>> /\ wire' = IF port = Closed THEN wire ELSE wire \o sendQueue
    BY <1>0, <1>12, CallMoves DEF TakesWrite, Taken, Orderly, handleWriteRequest
  <2>2. ~Waits(Opening)
    BY <1>0, <1>b, <2>1, CallKinds DEF Goes, OpenFirst, Waits
  <2>3. ~Waits(Opening)'
    BY <1>0, <2>1, <2>2 DEF Goes, Waits
  <2>4. CASE port = Closed
    BY <1>b, <2>1, <2>3, <2>4 DEF OnTheWay, OnTheWire
  <2>5. CASE port # Closed
    <3>1. /\ Len(wire) \in Nat /\ Len(sendQueue) \in Nat /\ Len(sendQueue') = 0
          /\ Len(wire') = Len(wire) + Len(sendQueue)
          /\ \A i \in 1 .. Len(wire) : wire'[i] = wire[i]
          /\ \A i \in 1 .. Len(sendQueue) : wire'[Len(wire) + i] = sendQueue[i]
      BY <1>0, <2>1, <2>5, QueueConcat, QueueEmpty DEF CallsOK
    <3>2. Written' = Written
      BY <2>1, <2>5, <3>1 DEF Written
    <3>3. Numbering(toWorker, Written, shown)
          /\ \A i \in 1 .. Len(toWorker) : IsSend(toWorker[i]) => toWorker[i][2].at = session
      BY <1>b, <2>1, <2>5 DEF OnTheWay
    <3>4. ~IsSend(toWorker[1])
      BY <2>1, CallKinds DEF Goes
    <3>5. Numbering(toWorker', Written, shown)
      BY <1>0, <2>1, <3>3, <3>4, NumberingGoes DEF Goes
    <3>6. \A i \in 1 .. Len(toWorker') : IsSend(toWorker'[i]) => toWorker'[i][2].at = session
      BY <1>0, <2>1, <3>3 DEF Goes
    <3>7. OnTheWay'
      BY <2>1, <3>2, <3>5, <3>6 DEF OnTheWay
    <3>8. /\ \A i \in 1 .. Len(wire) : wire[i].no = i /\ wire[i].at = session
          /\ \A i \in 1 .. Len(sendQueue) :
                 sendQueue[i].no = Len(wire) + i /\ sendQueue[i].at = session
      BY <1>b, <2>1, <2>5 DEF OnTheWire
    <3>9. ASSUME NEW i \in 1 .. Len(wire') PROVE wire'[i].no = i /\ wire'[i].at = session
      <4>1. CASE i <= Len(wire)
        BY <3>1, <3>8, <4>1
      <4>2. CASE i > Len(wire)
        <5>1. i - Len(wire) \in 1 .. Len(sendQueue) /\ i = Len(wire) + (i - Len(wire))
          BY <3>1, <4>2
        <5> QED
          BY <3>1, <3>8, <5>1
      <4> QED
        BY <3>1, <4>1, <4>2
    <3>10. OnTheWire'
      BY <2>1, <3>1, <3>9 DEF OnTheWire
    <3> QED
      BY <3>7, <3>10
  <2> QED
    BY <2>4, <2>5
<1>13. CASE TakesSend
  <2> SUFFICES ASSUME Orderly' PROVE OnTheWay' /\ OnTheWire'
    BY DEF InOrder
  <2> PICK chunk \in Chunks : /\ Taken(SendOf(chunk))
                              /\ sendQueue' = Append(sendQueue, chunk)
                              /\ toWorker' = Append(Tail(toWorker), Write)
                              /\ UNCHANGED <<gui, port, readers, wire, toGui>>
    BY <1>13 DEF TakesSend
  <2>1. /\ GoesForWrite(SendOf(chunk)) /\ Orderly
        /\ UNCHANGED <<session, shown, port, wire>>
    BY <1>0, CallMoves DEF Taken, Orderly
  <2>2. IsSend(toWorker[1]) /\ toWorker[1][2] = chunk
    BY <2>1, CallKinds DEF GoesForWrite
  <2>3. \A i \in 1 .. Len(toWorker) : toWorker[i] # Opening
    BY <1>0, <1>b, <2>1, <2>2, CallKinds DEF OpenFirst
  <2>4. ~Waits(Opening) /\ ~Waits(Opening)'
    <3>1. \A i \in 1 .. Len(toWorker') : toWorker'[i] # Opening
      <4> SUFFICES ASSUME NEW i \in 1 .. Len(toWorker') PROVE toWorker'[i] # Opening
        OBVIOUS
      <4>1. CASE i = Len(toWorker)
        BY <2>1, <4>1, CallKinds DEF GoesForWrite
      <4>2. CASE i # Len(toWorker)
        <5>1. i \in 1 .. Len(toWorker) - 1 /\ i + 1 \in 1 .. Len(toWorker)
          <6>1. Len(toWorker') = Len(toWorker) /\ Len(toWorker) \in Nat
            BY <1>0, <2>1 DEF GoesForWrite
          <6> PICK n \in Nat : n = Len(toWorker)
            BY <6>1
          <6>2. i \in 1 .. n /\ i # n
            BY <4>2, <6>1
          <6> QED
            BY <6>2
        <5>2. toWorker'[i] = toWorker[i + 1]
          BY <2>1, <5>1 DEF GoesForWrite
        <5> QED
          BY <2>3, <5>1, <5>2
      <4> QED
        BY <4>1, <4>2
    <3> QED
      BY <2>3, <3>1 DEF Waits
  <2>5. CASE port = Closed
    BY <1>b, <2>1, <2>4, <2>5 DEF OnTheWay, OnTheWire
  <2>6. CASE port # Closed
    <3>1. /\ Len(wire) \in Nat /\ Len(sendQueue) \in Nat
          /\ Len(sendQueue') = Len(sendQueue) + 1 /\ sendQueue'[Len(sendQueue) + 1] = chunk
          /\ \A i \in 1 .. Len(sendQueue) : sendQueue'[i] = sendQueue[i]
      BY <1>0, QueueAppend DEF CallsOK
    <3>2. Written' = Written + 1 /\ Written = Len(wire) + Len(sendQueue)
      BY <2>1, <2>6, <3>1 DEF Written
    <3>3. Numbering(toWorker, Written, shown)
          /\ \A i \in 1 .. Len(toWorker) : IsSend(toWorker[i]) => toWorker[i][2].at = session
      BY <1>b, <2>1, <2>6 DEF OnTheWay
    <3>4. ~IsSend(toWorker'[Len(toWorker)])
      BY <2>1, CallKinds DEF GoesForWrite
    <3>5. toWorker[1][2].no = Written + 1 /\ Numbering(toWorker', Written + 1, shown)
      BY <1>0, <2>1, <2>2, <3>3, <3>4, NumberingTakes DEF GoesForWrite
    <3>6. ASSUME NEW i \in 1 .. Len(toWorker'), IsSend(toWorker'[i])
          PROVE  toWorker'[i][2].at = session
      <4>1. i # Len(toWorker)
        BY <3>4, <3>6
      <4>2. i + 1 \in 1 .. Len(toWorker) /\ toWorker'[i] = toWorker[i + 1]
        BY <1>0, <2>1, <4>1 DEF GoesForWrite
      <4> QED
        BY <3>3, <3>6, <4>2
    <3>7. OnTheWay'
      BY <2>1, <3>2, <3>5, <3>6 DEF OnTheWay
    <3>8. chunk.no = Len(wire) + (Len(sendQueue) + 1) /\ chunk.at = session
      <4>1. 1 \in 1 .. Len(toWorker)
        BY <1>0, <2>1 DEF GoesForWrite
      <4> QED
        BY <2>2, <3>1, <3>2, <3>3, <3>5, <4>1
    <3>9. \A i \in 1 .. Len(sendQueue') :
              sendQueue'[i].at = session /\ sendQueue'[i].no = Len(wire) + i
      <4> SUFFICES ASSUME NEW i \in 1 .. Len(sendQueue')
                   PROVE  sendQueue'[i].at = session /\ sendQueue'[i].no = Len(wire) + i
        OBVIOUS
      <4>1. CASE i = Len(sendQueue) + 1
        BY <3>1, <3>8, <4>1
      <4>2. CASE i # Len(sendQueue) + 1
        <5>1. i \in 1 .. Len(sendQueue)
          BY <3>1, <4>2
        <5> QED
          BY <1>b, <2>1, <2>6, <3>1, <5>1 DEF OnTheWire
      <4> QED
        BY <4>1, <4>2
    <3>10. OnTheWire'
      BY <1>b, <2>1, <2>6, <3>9 DEF OnTheWire
    <3> QED
      BY <3>7, <3>10
  <2> QED
    BY <2>5, <2>6
<1> QED
  BY <1>0, <1>1, <1>2, <1>4, <1>5, <1>6, <1>9, <1>10, <1>12, <1>13, PostedCases
     DEF Next, GuiStep, WorkerStep

-----------------------------------------------------------------------------
(* Chunks go out for the session and in the format they were typed in *)

IsTrue(chunk) == chunk.for = chunk.at /\ chunk.faithful

\* A row's delay runs in the session it was sent in, and what waits in
\* msg_queue_ will be read in the format it was typed in.
TypingOK ==
    careless = {} =>
        /\ gui = "running" => delayed \subseteq {session}
        /\ gui = "running" /\ delayed # {} => opened
        /\ gui = "running" => \A i \in 1 .. Len(queue) :
              queue[i].for = session /\ (queue[i].hex <=> sendHex \/ panel.beatHex)

ChunksAreTrue ==
    careless = {} =>
        /\ \A i \in 1 .. Len(wire) : IsTrue(wire[i])
        /\ \A i \in 1 .. Len(sendQueue) : IsTrue(sendQueue[i])
        /\ \A i \in 1 .. Len(toWorker) : IsSend(toWorker[i]) => IsTrue(toWorker[i][2])

LEMMA TruthInit == Init => TypingOK /\ ChunksAreTrue
<1> SUFFICES ASSUME Init PROVE TypingOK /\ ChunksAreTrue
  OBVIOUS
<1>1. Len(toWorker) = 0 /\ Len(wire) = 0 /\ Len(sendQueue) = 0 /\ Len(queue) = 0
  BY QueueEmpty DEF Init
<1> QED
  BY <1>1 DEF Init, TypingOK, ChunksAreTrue

LEMMA TypingStep == TypeOK /\ LifeOK /\ TypingOK /\ [Next]_vars => TypingOK'
<1> SUFFICES ASSUME TypeOK, LifeOK, TypingOK, [Next]_vars, careless' = {},
                    gui' = "running"
             PROVE  /\ delayed' \subseteq {session'}
                    /\ delayed' # {} => opened'
                    /\ \A i \in 1 .. Len(queue') :
                          /\ queue'[i].for = session'
                          /\ queue'[i].hex <=> sendHex' \/ panel'.beatHex
  BY DEF TypingOK
<1>0. FlagsOK /\ StatesOK /\ CallsOK /\ QueueOK /\ ButtonsOK
  BY TypeParts DEF LifeOK
<1>a. ASSUME gui = "running", careless = {}
      PROVE  /\ delayed \subseteq {session} /\ (delayed # {} => opened)
             /\ \A i \in 1 .. Len(queue) :
                  queue[i].for = session /\ (queue[i].hex <=> sendHex \/ panel.beatHex)
  BY <1>a DEF TypingOK
<1>b. Len(queue) \in Nat /\ (queue = <<>> <=> Len(queue) = 0)
  BY <1>0, QueueEmpty DEF QueueOK
<1>1. CASE ClickOn
  <2>1. gui = "running" /\ careless = {} /\ delayed = {} /\ queue = <<>> /\ UNCHANGED <<delayed, queue>>
    BY <1>0, <1>1 DEF ClickOn, Click, ButtonsOK, typing
  <2> QED
    BY <1>b, <2>1
<1>2. CASE ClickOff
  <2>1. delayed = {} /\ UNCHANGED delayed /\ queue' = <<>>
    BY <1>2 DEF ClickOff, Click, ShowClosed, typing
  <2>2. Len(queue') = 0
    BY <2>1, QueueEmpty
  <2> QED
    BY <2>1, <2>2
<1>3. CASE settingChanged
  <2>1. gui = "running" /\ careless = {} /\ queue = <<>>
        /\ UNCHANGED <<delayed, session, opened, queue>>
    BY <1>0, <1>3 DEF settingChanged, ButtonsOK, window
  <2> QED
    BY <1>a, <1>b, <2>1
<1>4. CASE toggled
  <2>1. gui = "running" /\ careless = {} /\ queue = <<>>
        /\ UNCHANGED <<delayed, session, opened, queue>>
    BY <1>4 DEF toggled, Remember, window
  <2> QED
    BY <1>a, <1>b, <2>1
<1>5. CASE sendMessageToPort
  <2>1. gui = "running" /\ careless = {} /\ UNCHANGED <<delayed, session, opened, sendHex, panel>>
    BY <1>5 DEF sendMessageToPort, Remember, typing
  <2>2. CASE UNCHANGED queue
    BY <1>a, <2>1, <2>2
  <2>3. CASE /\ queue' = [i \in 1 .. 2 |-> [for |-> session, hex |-> sendHex]]
             /\ Remember("mixed", panel.beatHex /\ ~sendHex)
    <3>1. panel.beatHex => sendHex
      BY <2>3 DEF Remember
    <3>2. \A i \in 1 .. 2 : queue'[i].for = session /\ queue'[i].hex = sendHex
      BY <2>3
    <3>3. Len(queue') = 2
      <4> PICK v : v = [for |-> session, hex |-> sendHex]
        OBVIOUS
      <4>1. queue' = [i \in 1 .. 2 |-> v]
        BY <2>3
      <4> QED
        BY <4>1
    <3>4. \A i \in 1 .. Len(queue') : queue'[i].hex <=> sendHex
      BY <3>2, <3>3
    <3>5. \A i \in 1 .. Len(queue') : queue'[i].for = session
      BY <3>2, <3>3
    <3>6. sendHex <=> sendHex \/ panel.beatHex
      BY <3>1
    <3>7. \A i \in 1 .. Len(queue') : queue'[i].hex <=> sendHex' \/ panel'.beatHex
      BY <2>1, <3>4, <3>6
    <3> QED
      BY <1>a, <2>1, <3>5, <3>7
  <2> QED
    BY <1>5, <2>2, <2>3 DEF sendMessageToPort
<1>6. CASE sendPackageTimeout
  <2>1. /\ gui = "running" /\ careless = {} /\ queue # <<>> /\ queue' = Tail(queue)
        /\ UNCHANGED <<delayed, session, opened, sendHex, panel>>
    BY <1>6 DEF sendPackageTimeout, typing
  <2>2. \A i \in 1 .. Len(queue') : i + 1 \in 1 .. Len(queue) /\ queue'[i] = queue[i + 1]
    BY <1>0, <2>1, QueueTail DEF QueueOK
  <2> QED
    BY <1>a, <2>1, <2>2
<1>7. CASE heartbeatTimeout \/ DataArrives \/ finished \/ UNCHANGED vars
  <2>1. careless = {} /\ gui = "running"
        /\ UNCHANGED <<delayed, session, opened, queue, sendHex, panel>>
    BY <1>7 DEF heartbeatTimeout, DataArrives, finished, vars, window, typing
  <2> QED
    BY <1>a, <2>1
<1>8. CASE sendInstructionTableContent
  <2>1. /\ careless = {} /\ gui = "running" /\ opened /\ delayed' = delayed \cup {session}
        /\ UNCHANGED <<session, opened, queue, sendHex, panel>>
    BY <1>8 DEF sendInstructionTableContent, window
  <2> QED
    BY <1>a, <2>1
<1>9. CASE delayOver
  <2>1. /\ careless = {} /\ gui = "running" /\ delayed' \subseteq delayed
        /\ UNCHANGED <<session, opened, queue, sendHex, panel>>
    BY <1>9 DEF delayOver, window
  <2>2. delayed' # {} => delayed # {}
    BY <2>1
  <2> QED
    BY <1>a, <2>1, <2>2
<1>10. CASE QueuedCall
  <2>1. careless = {} /\ gui = "running" /\ UNCHANGED <<delayed, session, sendHex, panel>>
    BY <1>10 DEF QueuedCall, Remember, typing
  <2>2. CASE UNCHANGED window
    BY <1>a, <2>1, <2>2 DEF window
  <2>3. CASE showErrorMessage /\ Remember("mixed", delayed # {})
    <3>1. delayed = {} /\ queue' = <<>>
      BY <2>3 DEF showErrorMessage, ShowClosed, Remember
    <3>2. Len(queue') = 0
      BY <3>1, QueueEmpty
    <3> QED
      BY <2>1, <3>1, <3>2
  <2> QED
    BY <1>10, <2>2, <2>3 DEF QueuedCall
<1>11. CASE Destroy \/ quit \/ waitOver
  BY <1>11 DEF Destroy, quit, waitOver
<1>12. CASE Fault
  BY <1>12 DEF Fault
<1>13. CASE PostedCall
  <2>1. careless = {} /\ gui = "running"
        /\ UNCHANGED <<delayed, session, opened, queue, sendHex, panel>>
    BY <1>13 DEF PostedCall, window, typing
  <2> QED
    BY <1>a, <2>1
<1> QED
  BY <1>1, <1>2, <1>3, <1>4, <1>5, <1>6, <1>7, <1>8, <1>9, <1>10, <1>11, <1>12, <1>13
     DEF Next, GuiStep, WorkerStep

\* The chunks that are shown now are true.
LEMMA SentIsTrue ==
    ASSUME TypeOK, LifeOK, TypingOK, careless' = {},
           sendMessageToPort \/ sendPackageTimeout \/ heartbeatTimeout \/ delayOver
    PROVE  \/ UNCHANGED <<shown, toWorker>>
           \/ Sends(session, TRUE)
<1>0. careless = {} /\ gui = "running"
  BY DEF sendMessageToPort, sendPackageTimeout, heartbeatTimeout, delayOver, Remember
<1>1. CASE sendMessageToPort \/ heartbeatTimeout
  BY <1>1, SendCases
<1>2. CASE sendPackageTimeout
  <2>1. /\ queue # <<>> /\ Head(queue) \in [for : 1 .. MaxSessions, hex : BOOLEAN]
        /\ Sends(Head(queue).for, Head(queue).hex = (sendHex \/ panel.beatHex))
    BY <1>2, SendCases
  <2>2. 1 \in 1 .. Len(queue) /\ Head(queue) = queue[1]
    BY <2>1, TypeParts, QueueTail DEF QueueOK
  <2>3. Head(queue).for = session /\ (Head(queue).hex <=> sendHex \/ panel.beatHex)
    BY <1>0, <2>2 DEF TypingOK
  <2>4. Head(queue).hex \in BOOLEAN
    BY <2>1
  <2>5. (Head(queue).hex = (sendHex \/ panel.beatHex)) = TRUE
    BY <2>3, <2>4
  <2> QED
    BY <2>1, <2>3, <2>5
<1>3. CASE delayOver
  <2> PICK for \in delayed : sendPackagedData(for)
    BY <1>3 DEF delayOver
  <2>1. for = session
    BY <1>0 DEF TypingOK
  <2> QED
    BY <2>1, SendCases DEF Sends
<1> QED
  BY <1>1, <1>2, <1>3

LEMMA TruthStep == TypeOK /\ LifeOK /\ TypingOK /\ ChunksAreTrue /\ [Next]_vars => ChunksAreTrue'
<1> SUFFICES ASSUME TypeOK, LifeOK, TypingOK, ChunksAreTrue, [Next]_vars, careless' = {}
             PROVE  /\ \A i \in 1 .. Len(wire') : IsTrue(wire'[i])
                    /\ \A i \in 1 .. Len(sendQueue') : IsTrue(sendQueue'[i])
                    /\ \A i \in 1 .. Len(toWorker') : IsSend(toWorker'[i]) => IsTrue(toWorker'[i][2])
  BY DEF ChunksAreTrue, IsTrue
<1>0. CallsOK /\ Len(toWorker) \in Nat
  BY TypeParts, CallMoves
<1>a. careless = {}
  BY DEF Next, GuiStep, WorkerStep, ClickOn, ClickOff, Click, settingChanged, toggled, QueuedCall,
         sendMessageToPort, sendPackageTimeout, heartbeatTimeout, sendInstructionTableContent,
         delayOver, Remember, Destroy, quit, waitOver, PostedCall, DataArrives, Fault, finished, vars
<1>b. /\ \A i \in 1 .. Len(wire) : IsTrue(wire[i])
      /\ \A i \in 1 .. Len(sendQueue) : IsTrue(sendQueue[i])
      /\ \A i \in 1 .. Len(toWorker) : IsSend(toWorker[i]) => IsTrue(toWorker[i][2])
  BY <1>a DEF ChunksAreTrue
<1>1. CASE ClickOn \/ ClickOff \/ Destroy
  <2>1. PICK call \in {Opening, Closing, Blocking} : Comes(call)
    BY <1>0, <1>1, CallMoves, CallKinds DEF ClickOn, ClickOff, Destroy, Opening, Closing, Blocking
  <2>2. UNCHANGED <<wire, sendQueue>>
    BY <1>1 DEF ClickOn, ClickOff, Destroy, device
  <2> QED
    BY <1>0, <1>b, <2>1, <2>2, CallKinds DEF Comes
<1>2. CASE sendMessageToPort \/ sendPackageTimeout \/ heartbeatTimeout \/ delayOver
  <2>1. UNCHANGED <<wire, sendQueue>>
    BY <1>2 DEF sendMessageToPort, sendPackageTimeout, heartbeatTimeout, delayOver, device
  <2>2. CASE UNCHANGED toWorker
    BY <1>b, <2>1, <2>2
  <2>3. CASE \E fors \in Seq(1 .. MaxSessions) :
                 (\A i \in 1 .. Len(fors) : fors[i] = session) /\ Adds(fors, TRUE)
    <3> PICK fors \in Seq(1 .. MaxSessions) :
                 (\A i \in 1 .. Len(fors) : fors[i] = session) /\ Adds(fors, TRUE)
      BY <2>3
    <3> PICK new \in Nat : new = Len(fors)
      OBVIOUS
    <3>1. ASSUME NEW i \in 1 .. new PROVE IsTrue(toWorker'[Len(toWorker) + i][2])
      <4>1. toWorker'[Len(toWorker) + i][2] = Chunk(session, shown + i, TRUE)
        BY DEF Adds
      <4>2. IsTrue(Chunk(session, shown + i, TRUE))
        BY DEF IsTrue, Chunk
      <4> QED
        BY <4>1, <4>2
    <3>2. /\ Len(toWorker') = Len(toWorker) + new
          /\ \A i \in 1 .. Len(toWorker) : toWorker'[i] = toWorker[i]
      BY DEF Adds
    <3>3. ASSUME NEW i \in 1 .. Len(toWorker'), IsSend(toWorker'[i]) PROVE IsTrue(toWorker'[i][2])
      <4>1. CASE i <= Len(toWorker)
        BY <1>0, <1>b, <3>2, <3>3, <4>1
      <4>2. CASE i > Len(toWorker)
        <5>1. i - Len(toWorker) \in 1 .. new /\ i = Len(toWorker) + (i - Len(toWorker))
          BY <1>0, <3>2, <4>2
        <5> QED
          BY <3>1, <5>1
      <4> QED
        BY <1>0, <4>1, <4>2
    <3> QED
      BY <1>b, <2>1, <3>3
  <2> QED
    BY <1>2, <2>2, <2>3, SentIsTrue DEF Sends
<1>3. CASE \/ QueuedCall \/ settingChanged \/ toggled \/ sendInstructionTableContent \/ quit
           \/ waitOver \/ DataArrives \/ UNCHANGED vars
  <2>1. UNCHANGED <<sendQueue, wire, toWorker>>
    BY <1>3 DEF QueuedCall, settingChanged, toggled, sendInstructionTableContent, quit, DataArrives,
                vars, waitOver, showErrorMessage, window, device
  <2> QED
    BY <1>b, <2>1
<1>4. CASE Fault
  BY <1>4 DEF Fault
<1>5. CASE finished
  BY <1>5, <1>b, QueueEmpty DEF finished
<1>6. CASE TakesOpening \/ TakesClosing \/ TakesBlocking
  <2>1. PICK call : Goes(call)
    BY <1>0, <1>6, CallMoves DEF TakesOpening, TakesClosing, TakesBlocking
  <2>2. UNCHANGED sendQueue /\ (UNCHANGED wire \/ Len(wire') = 0)
    BY <1>6, QueueEmpty DEF TakesOpening, TakesClosing, TakesBlocking, openSerialPort
  <2> QED
    BY <1>0, <1>b, <2>1, <2>2 DEF Goes
<1>7. CASE TakesWrite
  <2>1. Goes(Write) /\ Len(sendQueue') = 0
    BY <1>0, <1>7, CallMoves, QueueEmpty DEF TakesWrite, handleWriteRequest
  <2>2. CASE UNCHANGED wire
    BY <1>0, <1>b, <2>1, <2>2 DEF Goes
  <2>3. CASE wire' = wire \o sendQueue
    <3>1. /\ Len(wire) \in Nat /\ Len(sendQueue) \in Nat
          /\ Len(wire') = Len(wire) + Len(sendQueue)
          /\ \A i \in 1 .. Len(wire) : wire'[i] = wire[i]
          /\ \A i \in 1 .. Len(sendQueue) : wire'[Len(wire) + i] = sendQueue[i]
      BY <1>0, <2>3, QueueConcat DEF CallsOK
    <3>2. ASSUME NEW i \in 1 .. Len(wire') PROVE IsTrue(wire'[i])
      <4>1. CASE i <= Len(wire)
        BY <1>b, <3>1, <4>1
      <4>2. CASE i > Len(wire)
        <5>1. i - Len(wire) \in 1 .. Len(sendQueue) /\ i = Len(wire) + (i - Len(wire))
          BY <3>1, <4>2
        <5> QED
          BY <1>b, <3>1, <5>1
      <4> QED
        BY <3>1, <4>1, <4>2
    <3> QED
      BY <1>0, <1>b, <2>1, <3>2 DEF Goes
  <2> QED
    BY <1>7, <2>2, <2>3 DEF TakesWrite, handleWriteRequest
<1>8. CASE TakesSend
  <2> PICK chunk \in Chunks : /\ Taken(SendOf(chunk))
                              /\ sendQueue' = Append(sendQueue, chunk)
                              /\ toWorker' = Append(Tail(toWorker), Write)
                              /\ UNCHANGED <<gui, port, readers, wire, toGui>>
    BY <1>8 DEF TakesSend
  <2>1. GoesForWrite(SendOf(chunk))
    BY <1>0, CallMoves
  <2>2. IsTrue(chunk)
    BY <1>0, <1>b, <2>1, CallKinds DEF GoesForWrite
  <2>3. \A i \in 1 .. Len(sendQueue') : IsTrue(sendQueue'[i])
    BY <1>0, <1>b, <2>2, QueueAppend DEF CallsOK
  <2>4. ASSUME NEW i \in 1 .. Len(toWorker'), IsSend(toWorker'[i]) PROVE IsTrue(toWorker'[i][2])
    <3>1. Len(toWorker') = Len(toWorker) /\ i # Len(toWorker)
      BY <2>1, <2>4, CallKinds DEF GoesForWrite
    <3> PICK n \in Nat : n = Len(toWorker)
      BY <1>0
    <3>2. i \in 1 .. n - 1 /\ i + 1 \in 1 .. n
      <4>1. i \in 1 .. n /\ i # n
        BY <3>1
      <4> QED
        BY <4>1
    <3>3. toWorker'[i] = toWorker[i + 1]
      BY <2>1, <3>2 DEF GoesForWrite
    <3> QED
      BY <1>b, <2>4, <3>2, <3>3
  <2> QED
    BY <1>b, <2>3, <2>4
<1> QED
  BY <1>0, <1>1, <1>2, <1>3, <1>4, <1>5, <1>6, <1>7, <1>8, PostedCases
     DEF Next, GuiStep, WorkerStep

-----------------------------------------------------------------------------
(* The theorems *)

\* Everything that is true in each state of the serial port and its window.
SerialInvariant ==
    TypeOK /\ LifeOK /\ PortFollows /\ InOrder /\ TypingOK /\ ChunksAreTrue

\* Whatever is clicked, typed and refused, for any number of sessions: the
\* port follows the clicks and the chunks keep their order.
THEOREM SerialInvariantAlways == Spec => []SerialInvariant
<1>1. Init => SerialInvariant
  BY TypeInit, LifeInit, PortInit, OrderInit, TruthInit DEF SerialInvariant
<1>2. SerialInvariant /\ [Next]_vars => SerialInvariant'
  BY TypeStep, LifeStep, PortStep, OrderStep, TypingStep, TruthStep DEF SerialInvariant
<1> QED
  BY <1>1, <1>2, PTL DEF Spec

\* What goes over the wire is what the window showed, in that order.
THEOREM WireFollowsScreenAlways == Spec => []WireFollowsScreen
<1>1. SerialInvariant => WireFollowsScreen
  <2> SUFFICES ASSUME SerialInvariant, careless = {}, NEW i \in DOMAIN wire
               PROVE  wire[i] = [for |-> wire[i].at, at |-> wire[1].at, no |-> i, faithful |-> TRUE]
    BY DEF SerialInvariant, WireFollowsScreen
  <2>1. wire \in Seq(Chunks)
    BY TypeParts DEF SerialInvariant, CallsOK
  <2>2. i \in 1 .. Len(wire) /\ 1 \in 1 .. Len(wire) /\ wire[i] \in Chunks
    BY <2>1
  <2>3. wire[i].no = i /\ wire[i].at = wire[1].at
    BY <2>2 DEF SerialInvariant, InOrder, OnTheWire, Orderly
  <2>4. wire[i].for = wire[i].at /\ wire[i].faithful
    BY <2>2 DEF SerialInvariant, ChunksAreTrue, IsTrue
  <2> PICK chunk \in Chunks : chunk = wire[i]
    BY <2>2
  <2>5. chunk.faithful \in BOOLEAN
        /\ chunk = [for |-> chunk.for, at |-> chunk.at, no |-> chunk.no, faithful |-> chunk.faithful]
    BY ChunkFields
  <2>6. chunk.faithful = TRUE
    BY <2>4, <2>5
  <2> QED
    BY <2>3, <2>4, <2>5, <2>6
<1> QED
  BY <1>1, SerialInvariantAlways, PTL

\* A window at rest shows whether the port is open, and has lost no chunk.
THEOREM RestShowsTheTruthAlways == Spec => []RestShowsTheTruth
<1>1. SerialInvariant => RestShowsTheTruth
  <2> SUFFICES ASSUME SerialInvariant, Quiet, Orderly
               PROVE  /\ opened = (port # Closed)
                      /\ opened => port = session /\ Len(wire) = shown
                      /\ checked = opened /\ ticking = opened /\ locked = opened
                      /\ ~opened => queue = <<>>
    BY DEF RestShowsTheTruth, Orderly
  <2>0. /\ FlagsOK /\ StatesOK /\ CallsOK /\ WritePending
        /\ ButtonsOK /\ ThreadOK /\ PortIsOurs /\ OnTheWay
        /\ gui = "running" /\ toWorker = <<>> /\ toGui = <<>>
    BY TypeParts DEF SerialInvariant, LifeOK, PortFollows, InOrder, Quiet
  <2>1. Len(toWorker) = 0 /\ Len(toGui) = 0 /\ worker = "running"
    BY <2>0, QueueEmpty DEF ThreadOK
  <2>2. ~Waits(Opening) /\ ~Waits(Closing) /\ ~Refused
    BY <2>1 DEF Waits, Refused
  <2>3. sendQueue = <<>>
    BY <2>0, <2>1 DEF WritePending
  <2>4. opened <=> port # Closed
    BY <2>0, <2>2 DEF PortIsOurs, Early
  <2>5. opened => port = session
    BY <2>0, <2>4 DEF PortIsOurs
  <2>6. ASSUME opened PROVE Len(wire) = shown
    <3>1. Numbering(toWorker, Written, shown)
      BY <2>0, <2>4, <2>6 DEF OnTheWay
    <3>2. Written = Len(wire)
      BY <2>0, <2>3, <2>4, <2>6, QueueEmpty DEF Written, CallsOK
    <3>3. Len(wire) \in Nat /\ shown \in Nat
      BY <2>0, BoundsAssumption DEF CallsOK, StatesOK
    <3>4. \A i \in 1 .. Len(toWorker) : ~IsSend(toWorker[i])
      BY <2>1
    <3>5. toWorker \in Seq(Calls)
      BY <2>0 DEF CallsOK
    <3> QED
      BY <3>1, <3>2, <3>3, <3>4, <3>5, NumberingNone
  <2>7. (checked <=> opened) /\ (ticking <=> opened) /\ (locked <=> opened)
        /\ (~opened => queue = <<>>)
    BY <2>0 DEF ButtonsOK
  <2>8. checked = opened /\ ticking = opened /\ locked = opened
    BY <2>0, <2>7 DEF FlagsOK
  <2>9. opened = (port # Closed)
    BY <2>0, <2>4 DEF FlagsOK
  <2> QED
    BY <2>5, <2>6, <2>7, <2>8, <2>9
<1> QED
  BY <1>1, SerialInvariantAlways, PTL
=============================================================================
