---------------------------- MODULE ModbusProofs ----------------------------
(***************************************************************************)
(* Proofs about ModbusMaster.  Nothing is assumed of the user (Patient) or *)
(* of the interleavings of the worker (RaceAt) unless a theorem says so.   *)
(***************************************************************************)
EXTENDS ModbusMaster, FiniteSetTheorems, SequenceTheorems, TLAPS

\* Why the bounds of TypeOK hold: a refresh only asks for what the queue
\* has room for, and goes on while it has something left to ask for.
BatchInvariant ==
    /\ queued + batch <= QueueMax
    /\ gui = "read" => batch > 0

\* Why AtMostMaxParallel holds: a place is free from the test against
\* MAX_PARALLEL_REQUESTS until the one reply sent since is registered.
PumpInvariant ==
    /\ gui \in {"send", "register"} => Cardinality(active) < MaxParallel
    /\ fresh = {} \/ \E s \in Slots : fresh = {s}
    /\ AtMostMaxParallel

\* The bounds are positive numbers.
LEMMA BoundsAreNumbers ==
    /\ MaxParallel \in Nat /\ MaxParallel > 0
    /\ BatchMax \in Nat /\ BatchMax > 0
    /\ QueueMax \in Nat /\ QueueMax > 0
    /\ AskMax \in Nat /\ AskMax > 0
  BY ParallelAssumption, BoundsAssumption

-----------------------------------------------------------------------------
(* Type correctness                                                         *)

\* The state splits into parts no action types all of.
MasterOK ==
    /\ device \in DeviceStates
    /\ active \cup sent \cup fresh \cup posted \subseteq Slots
    /\ write \in {"none", "sent", "posted"}
QueueOK ==
    /\ queued \in 0..QueueMax
    /\ gui \in GuiPlaces /\ batch \in 0..BatchMax
    /\ BatchInvariant
WorkerOK ==
    /\ worker \in WorkerPlaces /\ asked \in 0..AskMax
    /\ events \in Seq(Posts)
WindowOK == {dialog, control, editable, timer, opened} \subseteq BOOLEAN

\* TypeOK is their conjunction.
LEMMA TypeOKParts ==
    TypeOK /\ BatchInvariant <=> MasterOK /\ QueueOK /\ WorkerOK /\ WindowOK
  BY DEF TypeOK, MasterOK, QueueOK, WorkerOK, WindowOK

\* Initially every part is well typed.
LEMMA InitParts == Init => MasterOK /\ QueueOK /\ WorkerOK /\ WindowOK
<1> SUFFICES ASSUME Init PROVE MasterOK /\ QueueOK /\ WorkerOK /\ WindowOK
  OBVIOUS
<1> USE BoundsAreNumbers DEF Init
<1>1. MasterOK
  BY DEF MasterOK, DeviceStates
<1>2. QueueOK
  BY DEF QueueOK, BatchInvariant, GuiPlaces
<1>3. WorkerOK
  BY DEF WorkerOK, WorkerPlaces
<1>4. WindowOK
  BY DEF WindowOK
<1> QED
  BY <1>1, <1>2, <1>3, <1>4

\* What each part consists of, for the steps that leave it alone.
LEMMA PartsUnchanged ==
    /\ MasterOK /\ UNCHANGED <<device, active, sent, fresh, posted, write>> => MasterOK'
    /\ QueueOK /\ UNCHANGED <<queued, gui, batch>> => QueueOK'
    /\ WorkerOK /\ UNCHANGED <<worker, asked, events>> => WorkerOK'
    /\ WindowOK /\ UNCHANGED <<dialog, control, editable, timer, opened>> => WindowOK'
  BY DEF MasterOK, QueueOK, BatchInvariant, WorkerOK, WindowOK

\* Every step keeps the master well typed.
LEMMA NextMaster ==
    MasterOK /\ [Next]_vars => MasterOK'
<1> SUFFICES ASSUME MasterOK, [Next]_vars PROVE MasterOK'
  OBVIOUS
<1> USE DEF master, replies, guiVars, workerVars, window
<1>1. CASE ClickOff \/ AutoRefresh \/ AddRow \/ CloseWindow
             \/ WriteRefused \/ WriteWithoutDevice \/ Refresh \/ ReadAccepted
             \/ ReadRefused \/ Check \/ SendFromEmpty \/ WorkerStarts \/ WorkerClearsQueue
             \/ WorkerFinishes \/ HandleStarted \/ HandleFinished
  BY <1>1, PartsUnchanged DEF ClickOff, AutoRefresh, AddRow,
     CloseWindow, WriteRefused, WriteWithoutDevice, Refresh, ReadAccepted,
     ReadRefused, Check, SendFromEmpty, WorkerStarts, WorkerClearsQueue,
     WorkerFinishes, HandleStarted, HandleFinished
<1>2. CASE ClickOn
  BY <1>2 DEF ClickOn, MasterOK, DeviceStates, setupConfiguration,
     ConnectOutcomes
<1>3. CASE Send
  BY <1>3 DEF Send, MasterOK, DeviceStates, FreeSlots
<1>4. CASE Register
  BY <1>4 DEF Register, MasterOK, DeviceStates
<1>5. CASE ReplyFinishes
  BY <1>5 DEF ReplyFinishes, MasterOK, DeviceStates
<1>6. CASE WriteSent
  BY <1>6 DEF WriteSent, MasterOK, DeviceStates
<1>7. CASE WriteReconnects
  BY <1>7 DEF WriteReconnects, MasterOK, DeviceStates, ConnectOutcomes
<1>8. CASE WriteFinishes
  BY <1>8 DEF WriteFinishes, MasterOK, DeviceStates
<1>9. CASE Connected
  BY <1>9 DEF Connected, MasterOK, DeviceStates
<1>10. CASE ConnectionLost
  BY <1>10 DEF ConnectionLost, MasterOK, DeviceStates
<1>11. CASE WorkerDisconnects
  BY <1>11 DEF WorkerDisconnects, MasterOK, DeviceStates
<1>12. CASE WorkerForgetsReplies
  BY <1>12 DEF WorkerForgetsReplies, MasterOK, DeviceStates
<1>13. CASE HandleReply
  BY <1>13 DEF HandleReply, MasterOK, DeviceStates
<1>14. CASE Closed
  BY <1>14 DEF Closed, MasterOK, DeviceStates
<1>15. CASE UNCHANGED vars
  BY <1>15, PartsUnchanged DEF vars
<1> QED
  BY <1>1, <1>2, <1>3, <1>4, <1>5, <1>6, <1>7, <1>8, <1>9, <1>10, <1>11,
     <1>12, <1>13, <1>14, <1>15 DEF Next, UserStep, PumpStep,
     DeviceStep, WorkerStep, EventStep

\* Every step keeps the queue and the GUI thread's place well typed.
LEMMA NextQueue ==
    QueueOK /\ [Next]_vars => QueueOK'
<1> SUFFICES ASSUME QueueOK, [Next]_vars PROVE QueueOK'
  OBVIOUS
<1> USE DEF master, replies, guiVars, workerVars, window
<1>1. CASE ClickOff \/ ClickOn \/ AutoRefresh \/ AddRow \/ WriteSent
             \/ WriteRefused \/ WriteReconnects \/ WriteFinishes \/ Connected \/ WorkerStarts
             \/ WorkerDisconnects \/ WorkerForgetsReplies \/ WorkerFinishes
             \/ HandleStarted \/ HandleFinished
  BY <1>1, PartsUnchanged DEF ClickOff, ClickOn, AutoRefresh, AddRow,
     WriteSent, WriteRefused, WriteReconnects, WriteFinishes, Connected, WorkerStarts,
     WorkerDisconnects, WorkerForgetsReplies, WorkerFinishes,
     HandleStarted, HandleFinished, setupConfiguration
<1>2. CASE Refresh
  <2>1. batch' \in 1..BatchMax /\ queued + batch' <= QueueMax
    BY <1>2 DEF Refresh
  <2>2. queued' = queued /\ gui' = "read"
    BY <1>2 DEF Refresh
  <2>3. queued' \in 0..QueueMax /\ batch' \in 0..BatchMax /\ batch' > 0
    BY <2>1, <2>2, BoundsAreNumbers DEF QueueOK
  <2>4. gui' \in GuiPlaces
    BY <2>2 DEF GuiPlaces, Handlers
  <2> QED
    BY <2>1, <2>2, <2>3, <2>4 DEF QueueOK, BatchInvariant
<1>3. CASE CloseWindow
  BY <1>3, BoundsAreNumbers DEF CloseWindow, QueueOK, BatchInvariant,
     GuiPlaces
<1>4. CASE WriteWithoutDevice
  BY <1>4, BoundsAreNumbers DEF WriteWithoutDevice, QueueOK,
     BatchInvariant, GuiPlaces, Crashed
<1>5. CASE ReadAccepted
  BY <1>5, BoundsAreNumbers DEF ReadAccepted, QueueOK, BatchInvariant,
     GuiPlaces, Handlers
<1>6. CASE ReadRefused
  BY <1>6, BoundsAreNumbers DEF ReadRefused, QueueOK, BatchInvariant,
     GuiPlaces, Return, Handlers
<1>7. CASE Check
  BY <1>7, BoundsAreNumbers DEF Check, QueueOK, BatchInvariant,
     GuiPlaces, Return, Handlers
<1>8. CASE Send
  BY <1>8, BoundsAreNumbers DEF Send, QueueOK, BatchInvariant,
     GuiPlaces, Return, Handlers
<1>9. CASE SendFromEmpty
  BY <1>9, BoundsAreNumbers DEF SendFromEmpty, QueueOK, BatchInvariant,
     GuiPlaces, Crashed
<1>10. CASE Register
  BY <1>10, BoundsAreNumbers DEF Register, QueueOK, BatchInvariant,
     GuiPlaces, Handlers
<1>11. CASE ReplyFinishes
  BY <1>11, BoundsAreNumbers DEF ReplyFinishes, QueueOK, BatchInvariant,
     GuiPlaces, Handlers
<1>12. CASE ConnectionLost
  BY <1>12, BoundsAreNumbers DEF ConnectionLost, QueueOK,
     BatchInvariant, GuiPlaces
<1>13. CASE WorkerClearsQueue
  BY <1>13, BoundsAreNumbers DEF WorkerClearsQueue, QueueOK,
     BatchInvariant, GuiPlaces
<1>14. CASE HandleReply
  BY <1>14, BoundsAreNumbers DEF HandleReply, QueueOK, BatchInvariant,
     GuiPlaces, Handlers
<1>15. CASE Closed
  BY <1>15, BoundsAreNumbers DEF Closed, QueueOK, BatchInvariant,
     GuiPlaces
<1>16. CASE UNCHANGED vars
  BY <1>16, PartsUnchanged DEF vars
<1> QED
  BY <1>1, <1>2, <1>3, <1>4, <1>5, <1>6, <1>7, <1>8, <1>9, <1>10, <1>11,
     <1>12, <1>13, <1>14, <1>15, <1>16 DEF Next, UserStep, PumpStep,
     DeviceStep, WorkerStep, EventStep

\* Every step keeps the worker and its posts well typed.
LEMMA NextWorker ==
    WorkerOK /\ [Next]_vars => WorkerOK'
<1> SUFFICES ASSUME WorkerOK, [Next]_vars PROVE WorkerOK'
  OBVIOUS
<1> USE DEF master, replies, guiVars, workerVars, window
<1>1. CASE ClickOn \/ AutoRefresh \/ AddRow \/ CloseWindow \/ WriteSent
             \/ WriteRefused \/ WriteReconnects \/ WriteWithoutDevice \/ Refresh
             \/ ReadAccepted \/ ReadRefused \/ Check \/ Send \/ SendFromEmpty \/ Register
             \/ ReplyFinishes \/ WriteFinishes \/ Connected \/ ConnectionLost
  BY <1>1, PartsUnchanged DEF ClickOn, AutoRefresh, AddRow, CloseWindow,
     WriteSent, WriteRefused, WriteReconnects, WriteWithoutDevice, Refresh,
     ReadAccepted, ReadRefused, Check, Send, SendFromEmpty, Register,
     ReplyFinishes, WriteFinishes, Connected, ConnectionLost
<1>2. CASE ClickOff
  BY <1>2, BoundsAreNumbers DEF ClickOff, WorkerOK, WorkerPlaces, Posts
<1>3. CASE WorkerStarts
  BY <1>3, BoundsAreNumbers DEF WorkerStarts, WorkerOK, WorkerPlaces,
     Posts
<1>4. CASE WorkerDisconnects
  BY <1>4, BoundsAreNumbers DEF WorkerDisconnects, WorkerOK,
     WorkerPlaces, Posts
<1>5. CASE WorkerForgetsReplies
  BY <1>5, BoundsAreNumbers DEF WorkerForgetsReplies, WorkerOK,
     WorkerPlaces, Posts
<1>6. CASE WorkerClearsQueue
  BY <1>6, BoundsAreNumbers DEF WorkerClearsQueue, WorkerOK,
     WorkerPlaces, Posts
<1>7. CASE WorkerFinishes
  BY <1>7, BoundsAreNumbers DEF WorkerFinishes, WorkerOK, WorkerPlaces,
     Posts
<1>8. CASE HandleStarted
  BY <1>8, BoundsAreNumbers DEF HandleStarted, WorkerOK, WorkerPlaces,
     Posts, NextEvent
<1>9. CASE HandleReply
  BY <1>9, BoundsAreNumbers DEF HandleReply, WorkerOK, WorkerPlaces,
     Posts, NextEvent
<1>10. CASE HandleFinished
  BY <1>10, BoundsAreNumbers DEF HandleFinished, WorkerOK, WorkerPlaces,
     Posts, NextEvent
<1>11. CASE Closed
  BY <1>11, BoundsAreNumbers DEF Closed, WorkerOK, WorkerPlaces, Posts
<1>12. CASE UNCHANGED vars
  BY <1>12, PartsUnchanged DEF vars
<1> QED
  BY <1>1, <1>2, <1>3, <1>4, <1>5, <1>6, <1>7, <1>8, <1>9, <1>10, <1>11,
     <1>12 DEF Next, UserStep, PumpStep, DeviceStep, WorkerStep,
     EventStep

\* Every step keeps the window well typed.
LEMMA NextWindow ==
    WindowOK /\ [Next]_vars => WindowOK'
<1> SUFFICES ASSUME WindowOK, [Next]_vars PROVE WindowOK'
  OBVIOUS
<1> USE DEF master, replies, guiVars, workerVars, window
<1>1. CASE CloseWindow \/ WriteSent \/ WriteReconnects \/ WriteWithoutDevice
             \/ Refresh \/ ReadAccepted \/ Check \/ SendFromEmpty \/ Register
             \/ ReplyFinishes \/ Connected \/ WorkerStarts \/ WorkerDisconnects
             \/ WorkerForgetsReplies \/ WorkerClearsQueue \/ WorkerFinishes
             \/ Closed
  BY <1>1, PartsUnchanged DEF CloseWindow, WriteSent, WriteReconnects,
     WriteWithoutDevice, Refresh, ReadAccepted, Check, SendFromEmpty,
     Register, ReplyFinishes, Connected, WorkerStarts,
     WorkerDisconnects, WorkerForgetsReplies, WorkerClearsQueue,
     WorkerFinishes, Closed
<1>2. CASE ClickOff
  BY <1>2 DEF ClickOff, WindowOK, setControlState, errorOccurred
<1>3. CASE ClickOn
  BY <1>3 DEF ClickOn, WindowOK, setControlState, errorOccurred
<1>4. CASE AutoRefresh
  BY <1>4 DEF AutoRefresh, WindowOK, setControlState, errorOccurred
<1>5. CASE AddRow
  BY <1>5 DEF AddRow, WindowOK, setControlState, errorOccurred
<1>6. CASE ReadRefused
  BY <1>6 DEF ReadRefused, WindowOK, setControlState, errorOccurred
<1>7. CASE Send
  BY <1>7 DEF Send, WindowOK, setControlState, errorOccurred
<1>8. CASE WriteFinishes
  BY <1>8 DEF WriteFinishes, WindowOK, setControlState, errorOccurred
<1>9. CASE ConnectionLost
  BY <1>9 DEF ConnectionLost, WindowOK, setControlState, errorOccurred
<1>10. CASE HandleStarted
  BY <1>10 DEF HandleStarted, WindowOK, setControlState, errorOccurred
<1>11. CASE HandleReply
  BY <1>11 DEF HandleReply, WindowOK, setControlState, errorOccurred
<1>12. CASE HandleFinished
  BY <1>12 DEF HandleFinished, WindowOK, setControlState, errorOccurred
<1>13. CASE WriteRefused
  BY <1>13 DEF WriteRefused, WindowOK, setControlState, errorOccurred
<1>14. CASE UNCHANGED vars
  BY <1>14, PartsUnchanged DEF vars
<1> QED
  BY <1>1, <1>2, <1>3, <1>4, <1>5, <1>6, <1>7, <1>8, <1>9, <1>10, <1>11,
     <1>12, <1>13, <1>14 DEF Next, UserStep, PumpStep, DeviceStep, WorkerStep,
     EventStep

\* Type correctness, and the bounds on the queue, for every number of
\* replies and every bound, whatever the user and the worker do.
THEOREM TypeCorrect == Spec => []TypeOK
<1> DEFINE Inv == MasterOK /\ QueueOK /\ WorkerOK /\ WindowOK
<1>1. Init => Inv
  BY InitParts
<1>2. Inv /\ [Next]_vars => Inv'
  BY NextMaster, NextQueue, NextWorker, NextWindow
<1>3. Inv => TypeOK
  BY TypeOKParts
<1> QED
  BY <1>1, <1>2, <1>3, PTL DEF Spec

-----------------------------------------------------------------------------
(* The limit of parallel requests                                           *)

\* The replies in active_replies_ are finitely many.
LEMMA ActiveIsFinite ==
    ASSUME MasterOK
    PROVE  IsFiniteSet(active) /\ Cardinality(active) \in Nat
  BY SlotsAssumption, FS_Subset, FS_CardinalityType DEF MasterOK

\* Forgetting replies keeps the limit, strict or not.
LEMMA FewerActive ==
    ASSUME MasterOK, NEW left, left \subseteq active
    PROVE  Cardinality(left) \in Nat /\ Cardinality(left) <= Cardinality(active)
  BY ActiveIsFinite, FS_Subset, FS_CardinalityType

\* Registering a reply adds at most one.
LEMMA OneMoreActive ==
    ASSUME MasterOK, NEW s \in Slots
    PROVE  Cardinality(active \cup {s}) <= Cardinality(active) + 1
  BY ActiveIsFinite, FS_AddElement

\* Initially nothing is active.
LEMMA InitPump == Init => PumpInvariant
  BY BoundsAreNumbers, FS_EmptySet DEF Init, PumpInvariant, AtMostMaxParallel

\* Every step keeps the limit.
LEMMA NextPump == MasterOK /\ PumpInvariant /\ [Next]_vars => PumpInvariant'
<1> SUFFICES ASSUME MasterOK, PumpInvariant, [Next]_vars PROVE PumpInvariant'
  OBVIOUS
<1> USE DEF master, replies, guiVars, workerVars, window
<1>a. ASSUME active' \subseteq active, fresh' = fresh \/ fresh' = {},
             gui' = gui \/ gui' \notin {"send", "register"}
      PROVE  PumpInvariant'
  BY <1>a, FewerActive, ActiveIsFinite, BoundsAreNumbers
     DEF PumpInvariant, AtMostMaxParallel
<1>1. CASE UserStep
  BY <1>1, <1>a
     DEF UserStep, ClickOff, ClickOn, AutoRefresh, AddRow, CloseWindow,
         WriteSent, WriteRefused, WriteReconnects, WriteWithoutDevice,
         setupConfiguration
<1>2. CASE Refresh \/ ReadAccepted \/ ReadRefused \/ SendFromEmpty
  BY <1>2, <1>a DEF Refresh, ReadAccepted, ReadRefused, SendFromEmpty, Return
<1>3. CASE Check
  <2>1. CASE gui' = "send"
    BY <1>3, <2>1 DEF Check, Return, PumpInvariant, AtMostMaxParallel
  <2>2. CASE gui' # "send"
    BY <1>3, <2>2, <1>a DEF Check, Return
  <2> QED
    BY <2>1, <2>2
<1>4. CASE Send
  <2>1. CASE ~isConnected
    BY <1>4, <2>1, <1>a DEF Send, Return
  <2>2. CASE isConnected
    BY <1>4, <2>2 DEF Send, FreeSlots, PumpInvariant, AtMostMaxParallel
  <2> QED
    BY <2>1, <2>2
<1>5. CASE Register
  <2>1. Cardinality(active) < MaxParallel
    BY <1>5 DEF Register, PumpInvariant
  <2>2. Cardinality(active') <= MaxParallel
    <3>1. CASE fresh = {}
      BY <1>5, <2>1, <3>1, ActiveIsFinite, BoundsAreNumbers DEF Register
    <3>2. CASE fresh # {}
      <4> PICK s \in Slots : fresh = {s}
        BY <3>2 DEF PumpInvariant
      <4>1. active' = active \cup {s}
        BY <1>5 DEF Register
      <4>2. IsFiniteSet(active') /\ Cardinality(active') \in Nat
        BY <4>1, ActiveIsFinite, FS_AddElement, FS_CardinalityType
      <4> QED
        BY <4>1, <4>2, <2>1, OneMoreActive, ActiveIsFinite, BoundsAreNumbers
    <3> QED
      BY <3>1, <3>2
  <2> QED
    BY <1>5, <2>2 DEF Register, PumpInvariant, AtMostMaxParallel
<1>6. CASE DeviceStep
  BY <1>6, <1>a
     DEF DeviceStep, ReplyFinishes, WriteFinishes, Connected, ConnectionLost
<1>7. CASE WorkerStep
  BY <1>7, <1>a
     DEF WorkerStep, WorkerStarts, WorkerDisconnects, WorkerForgetsReplies,
         WorkerClearsQueue, WorkerFinishes
<1>8. CASE EventStep
  BY <1>8, <1>a DEF EventStep, HandleStarted, HandleReply, HandleFinished
<1>9. CASE Closed
  BY <1>9, <1>a DEF Closed
<1>10. CASE UNCHANGED vars
  BY <1>10, <1>a DEF vars
<1> QED
  BY <1>1, <1>2, <1>3, <1>4, <1>5, <1>6, <1>7, <1>8, <1>9, <1>10
     DEF Next, PumpStep

\* However the two threads interleave, for every limit, every number of
\* replies and every user, processNextRequest never has more than
\* MAX_PARALLEL_REQUESTS replies in active_replies_.
THEOREM LimitKept == Spec => []AtMostMaxParallel
<1> DEFINE Inv == MasterOK /\ PumpInvariant
<1>1. Init => Inv
  BY InitParts, InitPump
<1>2. Inv /\ [Next]_vars => Inv'
  BY NextMaster, NextPump
<1>3. Inv => AtMostMaxParallel
  BY DEF PumpInvariant
<1> QED
  BY <1>1, <1>2, <1>3, PTL DEF Spec

-----------------------------------------------------------------------------
(***************************************************************************)
(* What a disconnect leaves behind, for a user who waits for its end and a *)
(* worker that does not run between the sending of a request and the       *)
(* registration of its reply.  Without either the three properties do not  *)
(* hold.                                                                   *)
(***************************************************************************)

Has(s, e) == \E i \in 1..Len(s) : s[i] = e

Up == device \in {"connecting", "connected"}

\* One disconnect at a time: asked for, under way, or ended and not yet
\* heard of; its end is the last thing the worker posts.
OneDisconnect ==
    /\ asked > 0 => asked = 1 /\ worker = "idle" /\ events = <<>>
    /\ worker # "idle" => ~Has(events, "finished")
    /\ worker = "disconnect" => ~Has(events, "replies")
    /\ worker = "idle" /\ events # <<>> => Has(events, "finished")
    /\ \A i \in 1..(Len(events) - 1) : events[i] # "finished"
    /\ posted # {} \/ write = "posted" => Has(events, "replies")

\* A device that is up belongs to a session the worker has not begun to end.
SessionIsUp ==
    /\ Up => /\ worker \in {"idle", "disconnect"}
             /\ ~Has(events, "replies") /\ ~Has(events, "finished")
             /\ active \subseteq sent
    /\ device = "connecting" => ~Disconnecting
    /\ device # "connected" => sent = {} /\ write # "sent"
    /\ gui = "register" => device = "connected"
    /\ fresh \subseteq sent /\ (gui # "register" => fresh = {})

\* What the worker has cleaned up stays clean, and after that the next
\* session starts from nothing.
SessionIsOver ==
    /\ worker \in {"queue", "finish"} \/ Has(events, "finished") => active = {}
    /\ worker = "finish" \/ Has(events, "finished") => queued = 0
    /\ ~Disconnecting /\ device # "connected"
          => active = {} /\ queued = 0 /\ gui \notin Handlers

\* NoRequestIsStranded, also while a refresh is between two of its reads.
NobodyWaits ==
    gui \in {"loop", "read"} /\ isConnected /\ queued > 0 => active # {}

SessionInvariant ==
    OneDisconnect /\ SessionIsUp /\ SessionIsOver /\ NobodyWaits

\* The two restrictions.
OrderlyUse == Patient /\ "register" \notin RaceAt

-----------------------------------------------------------------------------
(* The posts of the worker                                                  *)

\* Appending adds one post.
LEMMA HasAppend ==
    ASSUME NEW s \in Seq(Posts), NEW x \in Posts, NEW e
    PROVE  Has(Append(s, x), e) <=> Has(s, e) \/ x = e
<1>1. ASSUME Has(s, e) PROVE Has(Append(s, x), e)
  BY <1>1 DEF Has
<1>2. ASSUME x = e PROVE Has(Append(s, x), e)
  <2>1. Append(s, x)[Len(s) + 1] = e /\ Len(s) + 1 \in 1..Len(Append(s, x))
    BY <1>2
  <2> QED
    BY <2>1 DEF Has
<1>3. ASSUME Has(Append(s, x), e), x # e PROVE Has(s, e)
  BY <1>3 DEF Has
<1> QED
  BY <1>1, <1>2, <1>3

\* A sequence has its head and what its tail has.
LEMMA HasTail ==
    ASSUME NEW s \in Seq(Posts), s # <<>>, NEW e
    PROVE  Has(s, e) <=> Head(s) = e \/ Has(Tail(s), e)
<1>1. ASSUME Head(s) = e PROVE Has(s, e)
  BY <1>1 DEF Has
<1>2. ASSUME Has(Tail(s), e) PROVE Has(s, e)
  <2> PICK i \in 1..Len(Tail(s)) : Tail(s)[i] = e
    BY <1>2 DEF Has
  <2>1. i + 1 \in 1..Len(s) /\ s[i + 1] = e
    OBVIOUS
  <2> QED
    BY <2>1 DEF Has
<1>3. ASSUME Has(s, e), Head(s) # e PROVE Has(Tail(s), e)
  <2> PICK i \in 1..Len(s) : s[i] = e
    BY <1>3 DEF Has
  <2>1. i # 1
    BY <1>3
  <2>2. i - 1 \in 1..Len(Tail(s)) /\ Tail(s)[i - 1] = e
    BY <2>1
  <2> QED
    BY <2>2 DEF Has
<1> QED
  BY <1>1, <1>2, <1>3

\* Nothing is in the empty sequence.
LEMMA HasNothing == ASSUME NEW e PROVE ~Has(<<>>, e)
  BY DEF Has

\* The end of a disconnect is what the worker posts last.
FinishedIsLast(s) == \A i \in 1..(Len(s) - 1) : s[i] # "finished"

\* A finished that comes first is all there is.
LEMMA FinishedFirst ==
    ASSUME NEW s \in Seq(Posts), s # <<>>, FinishedIsLast(s), Head(s) = "finished"
    PROVE  Tail(s) = <<>> /\ \A e : Has(s, e) => e = "finished"
<1>1. Len(s) \in Nat \ {0}
  BY EmptySeq
<1>2. ~(Len(s) > 1)
  BY <1>1 DEF FinishedIsLast
<1>3. Len(s) = 1
  BY <1>1, <1>2
<1>4. Tail(s) \in Seq(Posts) /\ Len(Tail(s)) = 0
  BY <1>3, HeadTailProperties
<1>5. Tail(s) = <<>>
  BY <1>4, EmptySeq
<1> QED
  BY <1>3, <1>5 DEF Has

\* Taking the first post away, and adding one when there is no finished,
\* leave finished the last.
LEMMA FinishedStaysLast ==
    ASSUME NEW s \in Seq(Posts), FinishedIsLast(s)
    PROVE  /\ s # <<>> => FinishedIsLast(Tail(s))
           /\ \A x \in Posts : ~Has(s, "finished") => FinishedIsLast(Append(s, x))
  BY DEF FinishedIsLast, Has

-----------------------------------------------------------------------------
(* The invariant                                                            *)

\* A user who acts finds no disconnect under way.
LEMMA PatientUser ==
    ASSUME OrderlyUse, WorkerOK, UserActs
    PROVE  asked = 0 /\ worker = "idle" /\ events = <<>> /\ gui = "loop"
  BY DEF OrderlyUse, UserActs, Disconnecting, WorkerOK

\* Initially nothing has happened.
LEMMA InitSession == Init => SessionInvariant
<1> SUFFICES ASSUME Init PROVE SessionInvariant
  OBVIOUS
<1> USE HasNothing DEF Init
<1>1. OneDisconnect
  BY DEF OneDisconnect
<1>2. SessionIsUp
  BY DEF SessionIsUp, Up
<1>3. SessionIsOver
  BY DEF SessionIsOver, Handlers
<1>4. NobodyWaits
  BY DEF NobodyWaits
<1> QED
  BY <1>1, <1>2, <1>3, <1>4 DEF SessionInvariant

\* Every step keeps OneDisconnect.
LEMMA NextOneDisconnect ==
    ASSUME OrderlyUse, WorkerOK, OneDisconnect, [Next]_vars
    PROVE  OneDisconnect'
<1> USE DEF master, replies, guiVars, workerVars, window
<1>t. events \in Seq(Posts) /\ {"started", "replies", "finished"} \subseteq Posts
         /\ asked \in Nat
  BY BoundsAreNumbers DEF WorkerOK, Posts
<1>a. ASSUME UNCHANGED <<asked, worker, events, posted>>,
             write' = "posted" => write = "posted"
      PROVE  OneDisconnect'
  BY <1>a DEF OneDisconnect
<1>1. CASE ClickOff
  <2>1. asked = 0 /\ worker = "idle" /\ events = <<>>
    BY <1>1, PatientUser DEF ClickOff
  <2> QED
    BY <1>1, <2>1, HasNothing DEF ClickOff, OneDisconnect
<1>2. CASE ClickOn \/ AutoRefresh \/ AddRow \/ CloseWindow \/ WriteSent
             \/ WriteRefused \/ WriteReconnects \/ WriteWithoutDevice \/ Refresh
  BY <1>2, <1>a
     DEF ClickOn, AutoRefresh, AddRow, CloseWindow, WriteSent, WriteRefused,
         WriteReconnects, WriteWithoutDevice, Refresh, setupConfiguration
<1>3. CASE PumpStep
  BY <1>3, <1>a
     DEF PumpStep, ReadAccepted, ReadRefused, Check, Send, SendFromEmpty,
         Register
<1>4. CASE DeviceStep
  BY <1>4, <1>a
     DEF DeviceStep, ReplyFinishes, WriteFinishes, Connected, ConnectionLost
<1>5. CASE WorkerStarts
  <2>1. events = <<>> /\ asked' = 0 /\ events' = <<"started">>
          /\ worker' = "disconnect" /\ UNCHANGED <<posted, write>>
    BY <1>5, <1>t DEF WorkerStarts, OneDisconnect
  <2>2. ~Has(<<"started">>, "finished") /\ ~Has(<<"started">>, "replies")
    BY DEF Has
  <2> QED
    BY <2>1, <2>2, HasNothing DEF OneDisconnect
<1>6. CASE WorkerDisconnects
  <2>1. asked = 0 /\ UNCHANGED asked /\ worker = "disconnect" /\ worker' = "replies"
    BY <1>6, <1>t DEF WorkerDisconnects, OneDisconnect
  <2>2. ~Has(events, "finished") /\ FinishedIsLast(events)
    BY <2>1 DEF OneDisconnect, FinishedIsLast
  <2>3. CASE events' = events
    <3>1. UNCHANGED posted /\ write' # "posted"
      BY <1>6, <2>3, <1>t, <2>1, HasAppend DEF WorkerDisconnects, OneDisconnect
    <3> QED
      BY <2>1, <2>2, <2>3, <3>1 DEF OneDisconnect
  <2>4. CASE events' = Append(events, "replies")
    <3>1. Has(events', "replies") /\ ~Has(events', "finished")
             /\ FinishedIsLast(events')
      BY <2>2, <2>4, <1>t, HasAppend, FinishedStaysLast
    <3> QED
      BY <2>1, <3>1 DEF OneDisconnect, FinishedIsLast
  <2> QED
    BY <1>6, <2>3, <2>4 DEF WorkerDisconnects
<1>7. CASE WorkerForgetsReplies \/ WorkerClearsQueue
  BY <1>7 DEF WorkerForgetsReplies, WorkerClearsQueue, OneDisconnect
<1>8. CASE WorkerFinishes
  <2>1. asked = 0 /\ UNCHANGED <<asked, posted, write>> /\ worker' = "idle"
          /\ events' = Append(events, "finished") /\ worker # "idle"
    BY <1>8, <1>t DEF WorkerFinishes, OneDisconnect
  <2>2. ~Has(events, "finished") /\ FinishedIsLast(events)
    BY <2>1 DEF OneDisconnect, FinishedIsLast
  <2>3. FinishedIsLast(events') /\ Has(events', "finished")
          /\ (Has(events, "replies") => Has(events', "replies"))
    BY <2>1, <2>2, <1>t, HasAppend, FinishedStaysLast
  <2> QED
    BY <2>1, <2>3, <1>t DEF OneDisconnect, FinishedIsLast
<1>9. CASE HandleStarted \/ HandleReply \/ HandleFinished
  <2>1. asked = 0 /\ UNCHANGED <<asked, worker>> /\ events # <<>>
    <3>1. UNCHANGED <<asked, worker>> /\ events # <<>>
      BY <1>9 DEF HandleStarted, HandleReply, HandleFinished, NextEvent
    <3> QED
      BY <1>t, <3>1 DEF OneDisconnect
  <2>2. CASE UNCHANGED events
    <3>1. posted' # {} \/ write' = "posted" => Has(events, "replies")
      BY <1>9, <2>2
         DEF HandleStarted, HandleReply, HandleFinished, OneDisconnect
    <3> QED
      BY <2>1, <2>2, <3>1 DEF OneDisconnect
  <2>3. CASE events' = Tail(events)
    <3>1. FinishedIsLast(events')
      BY <2>1, <2>3, <1>t, FinishedStaysLast DEF OneDisconnect, FinishedIsLast
    <3>2. \A e : Has(events', e) => Has(events, e)
      BY <2>1, <2>3, <1>t, HasTail
    <3>3. Head(events) # "replies" /\ Has(events, "replies")
             => Has(events', "replies")
      BY <2>1, <2>3, <1>t, HasTail
    <3>4. posted' # {} \/ write' = "posted" => Has(events', "replies")
      BY <1>9, <2>3, <3>3
         DEF HandleStarted, HandleReply, HandleFinished, NextEvent, OneDisconnect
    <3>5. CASE Head(events) = "finished"
      <4>1. events' = <<>>
        BY <2>1, <2>3, <3>5, <1>t, FinishedFirst DEF OneDisconnect, FinishedIsLast
      <4> QED
        BY <2>1, <3>1, <3>2, <3>4, <4>1 DEF OneDisconnect, FinishedIsLast
    <3>6. CASE Head(events) # "finished"
      <4>1. Has(events, "finished") => Has(events', "finished")
        BY <2>1, <2>3, <3>6, <1>t, HasTail
      <4> QED
        BY <2>1, <3>1, <3>2, <3>4, <4>1 DEF OneDisconnect, FinishedIsLast
    <3> QED
      BY <3>5, <3>6
  <2> QED
    BY <1>9, <2>2, <2>3 DEF HandleStarted, HandleReply, HandleFinished
<1>10. CASE Closed
  BY <1>10, HasNothing DEF Closed, OneDisconnect
<1>11. CASE UNCHANGED vars
  BY <1>11, <1>a DEF vars
<1> QED
  BY <1>1, <1>2, <1>3, <1>4, <1>5, <1>6, <1>7, <1>8, <1>9, <1>10, <1>11
     DEF Next, UserStep, WorkerStep, EventStep

\* The first post handled is one the sequence has.
LEMMA HeadIsThere ==
    ASSUME WorkerOK, NEW e, NextEvent(e)
    PROVE  /\ Has(events, e)
           /\ \A f : Has(Tail(events), f) => Has(events, f)
  BY HasTail DEF WorkerOK, NextEvent

\* Every step keeps SessionIsUp.
LEMMA NextSessionIsUp ==
    ASSUME OrderlyUse, WorkerOK, SessionInvariant, [Next]_vars
    PROVE  SessionIsUp'
<1> USE DEF master, replies, guiVars, workerVars, window
<1>u. SessionIsUp
  BY DEF SessionInvariant
<1>a. ASSUME UNCHANGED <<device, active, sent, fresh, write, worker, asked, events>>,
             gui # "register", gui' # "register"
      PROVE  SessionIsUp'
  BY <1>a, <1>u DEF SessionIsUp, Up, Disconnecting
<1>1. CASE ClickOff
  <2>1. events = <<>>
    BY <1>1, PatientUser DEF ClickOff
  <2> QED
    BY <1>1, <1>u, <2>1, HasNothing
       DEF ClickOff, SessionIsUp, Up, Disconnecting, isConnected
<1>b. ASSUME UserActs, ~isConnected
      PROVE  active = {} /\ sent = {} /\ fresh = {} /\ gui = "loop"
                /\ worker = "idle" /\ events = <<>> /\ asked = 0
  BY <1>b, <1>u, PatientUser
     DEF SessionInvariant, SessionIsOver, SessionIsUp, isConnected,
         Disconnecting
<1>2. CASE ClickOn
  <2>1. UserActs /\ ~isConnected
    BY <1>2 DEF ClickOn
  <2> QED
    BY <1>2, <1>b, <2>1, HasNothing
       DEF ClickOn, setupConfiguration, SessionIsUp, Up, Disconnecting
<1>3. CASE WriteReconnects
  <2>1. UserActs /\ ~isConnected
    BY <1>3 DEF WriteReconnects, CanWrite, isConnected
  <2>2. write # "sent"
    BY <2>1, <1>u DEF SessionIsUp, isConnected
  <2> QED
    BY <1>3, <1>b, <2>1, <2>2, HasNothing
       DEF WriteReconnects, SessionIsUp, Up, Disconnecting
<1>4. CASE AutoRefresh \/ AddRow \/ CloseWindow \/ WriteRefused
             \/ WriteWithoutDevice \/ Refresh
  BY <1>4, <1>a
     DEF AutoRefresh, AddRow, CloseWindow, WriteRefused, WriteWithoutDevice,
         Refresh, UserActs, CanWrite
<1>5. CASE WriteSent
  BY <1>5, <1>u
     DEF WriteSent, CanWrite, UserActs, isConnected, SessionIsUp, Up,
         Disconnecting
<1>6. CASE ReadAccepted \/ ReadRefused \/ Check \/ SendFromEmpty
  BY <1>6, <1>a
     DEF ReadAccepted, ReadRefused, Check, SendFromEmpty, Return
<1>7. CASE Send
  <2>1. CASE ~isConnected
    BY <1>7, <2>1, <1>a DEF Send, Return
  <2>2. CASE isConnected
    BY <1>7, <2>2, <1>u DEF Send, SessionIsUp, Up, isConnected
  <2> QED
    BY <2>1, <2>2
<1>8. CASE Register
  BY <1>8, <1>u DEF Register, SessionIsUp, Up
<1>9. CASE ReplyFinishes
  BY <1>9, <1>u DEF ReplyFinishes, SessionIsUp, Up, Disconnecting
<1>10. CASE WriteFinishes \/ Connected \/ ConnectionLost
  BY <1>10, <1>u, HasNothing
     DEF WriteFinishes, Connected, ConnectionLost, SessionIsUp, Up,
         Disconnecting
<1>11. CASE WorkerStarts
  <2>1. events' = <<"started">> /\ device # "connecting"
    BY <1>11, <1>u
       DEF WorkerStarts, SessionInvariant, OneDisconnect, SessionIsUp,
           Disconnecting
  <2>2. ~Has(<<"started">>, "finished") /\ ~Has(<<"started">>, "replies")
    BY DEF Has
  <2> QED
    BY <1>11, <1>u, <2>1, <2>2 DEF WorkerStarts, SessionIsUp, Up
<1>12. CASE WorkerDisconnects
  <2>1. gui # "register"
    BY <1>12 DEF WorkerDisconnects, WorkerMayTouch, OrderlyUse, Handlers
  <2>2. fresh = {}
    BY <2>1, <1>u DEF SessionIsUp
  <2>3. device' \in {"none", "unconnected"} /\ sent' = {} /\ write' # "sent"
          /\ UNCHANGED <<fresh, gui>>
    BY <1>12 DEF WorkerDisconnects
  <2> QED
    BY <2>1, <2>2, <2>3 DEF SessionIsUp, Up
<1>13. CASE WorkerForgetsReplies \/ WorkerClearsQueue \/ WorkerFinishes
  <2>1. ~Up
    BY <1>13, <1>u
       DEF WorkerForgetsReplies, WorkerClearsQueue, WorkerFinishes, SessionIsUp
  <2> QED
    BY <1>13, <1>u, <2>1
       DEF WorkerForgetsReplies, WorkerClearsQueue, WorkerFinishes,
           SessionIsUp, Up
<1>14. CASE HandleStarted
  <2>1. \A f : Has(Tail(events), f) => Has(events, f)
    BY <1>14, HeadIsThere DEF HandleStarted
  <2>2. device # "connecting"
    BY <1>14, <1>u DEF HandleStarted, NextEvent, SessionIsUp, Disconnecting
  <2> QED
    BY <1>14, <1>u, <2>1, <2>2 DEF HandleStarted, SessionIsUp, Up
<1>15. CASE HandleReply \/ HandleFinished
  <2>1. Has(events, "replies") \/ Has(events, "finished")
    BY <1>15, HeadIsThere DEF HandleReply, HandleFinished
  <2>2. ~Up /\ gui = "loop"
    BY <1>15, <2>1, <1>u
       DEF HandleReply, HandleFinished, NextEvent, SessionIsUp
  <2>3. UNCHANGED <<device, sent, fresh>> /\ gui' # "register"
          /\ (write' = write \/ write' = "none")
    BY <1>15, <2>2 DEF HandleReply, HandleFinished
  <2> QED
    BY <1>u, <2>2, <2>3 DEF SessionIsUp, Up
<1>16. CASE Closed
  BY <1>16 DEF Closed, SessionIsUp, Up
<1>17. CASE UNCHANGED vars
  BY <1>17, <1>u DEF vars, SessionIsUp, Up, Disconnecting
<1> QED
  BY <1>1, <1>2, <1>3, <1>4, <1>5, <1>6, <1>7, <1>8, <1>9, <1>10, <1>11,
     <1>12, <1>13, <1>14, <1>15, <1>16, <1>17
     DEF Next, UserStep, PumpStep, DeviceStep, WorkerStep, EventStep

\* Every step keeps SessionIsOver.
LEMMA NextSessionIsOver ==
    ASSUME OrderlyUse, QueueOK, WorkerOK, SessionInvariant, [Next]_vars
    PROVE  SessionIsOver'
<1> USE DEF master, replies, guiVars, workerVars, window
<1>u. OneDisconnect /\ SessionIsUp /\ SessionIsOver /\ NobodyWaits
  BY DEF SessionInvariant
<1>t. events \in Seq(Posts) /\ {"started", "replies", "finished"} \subseteq Posts
         /\ asked \in Nat /\ queued \in Nat
  BY BoundsAreNumbers DEF WorkerOK, Posts, QueueOK
<1>a. ASSUME UNCHANGED <<device, worker, asked, events>>, active' \subseteq active,
             queued' = queued \/ queued' = 0 \/ queued > 0,
             gui' \notin Handlers \/ gui \in Handlers
      PROVE  SessionIsOver'
  BY <1>a, <1>u DEF SessionIsOver, Disconnecting
<1>b. ASSUME Up', worker' \in {"idle", "disconnect"}, ~Has(events', "finished"),
             device' = "connected"
      PROVE  SessionIsOver'
  BY <1>b DEF SessionIsOver
<1>1. CASE ClickOff
  BY <1>1, PatientUser, HasNothing DEF ClickOff, SessionIsOver, Disconnecting
<1>c. ASSUME UserActs, ~isConnected
      PROVE  active = {} /\ queued = 0 /\ gui = "loop"
  BY <1>c, <1>u, PatientUser DEF SessionIsOver, isConnected, Disconnecting
<1>2. CASE ClickOn \/ WriteReconnects
  <2>1. UserActs /\ ~isConnected
    BY <1>2 DEF ClickOn, WriteReconnects, CanWrite, isConnected
  <2>2. UNCHANGED <<active, queued, gui>>
    BY <1>2 DEF ClickOn, setupConfiguration, WriteReconnects
  <2> QED
    BY <1>c, <2>1, <2>2 DEF SessionIsOver, Handlers
<1>3. CASE AutoRefresh \/ AddRow \/ CloseWindow \/ WriteSent
             \/ WriteRefused \/ WriteWithoutDevice
  BY <1>3, <1>a
     DEF AutoRefresh, AddRow, CloseWindow, WriteSent, WriteRefused,
         WriteWithoutDevice, UserActs, CanWrite, Handlers
<1>4. CASE Refresh \/ ReadAccepted
  <2>1. device = "connected" /\ UNCHANGED <<device, worker, events>>
    BY <1>4 DEF Refresh, ReadAccepted, isConnected
  <2> QED
    BY <1>b, <1>u, <2>1 DEF SessionIsUp, Up
<1>5. CASE ReadRefused \/ Check \/ SendFromEmpty
  BY <1>5, <1>a DEF ReadRefused, Check, SendFromEmpty, Handlers
<1>6. CASE Send
  BY <1>6, <1>a DEF Send, Handlers
<1>7. CASE Register
  <2>1. device = "connected" /\ UNCHANGED <<device, worker, events>>
    BY <1>7, <1>u DEF Register, SessionIsUp
  <2> QED
    BY <1>b, <1>u, <2>1 DEF SessionIsUp, Up
<1>8. CASE ReplyFinishes
  <2>1. device = "connected" /\ UNCHANGED <<device, worker, events>>
    BY <1>8, <1>u DEF ReplyFinishes, SessionIsUp
  <2> QED
    BY <1>b, <1>u, <2>1 DEF SessionIsUp, Up
<1>9. CASE WriteFinishes
  BY <1>9, <1>a DEF WriteFinishes, Handlers
<1>10. CASE Connected
  <2>1. active = {} /\ queued = 0 /\ gui = "loop"
    BY <1>10, <1>u DEF Connected, SessionIsUp, SessionIsOver
  <2> QED
    BY <1>10, <2>1 DEF Connected, SessionIsOver, Handlers
<1>11. CASE ConnectionLost
  <2>1. device = "connected" /\ gui = "loop" /\ UNCHANGED <<worker, asked, events, gui>>
    BY <1>11 DEF ConnectionLost, isConnected
  <2>2. active' = {}
    BY <1>11, <1>u, <2>1 DEF ConnectionLost, SessionIsUp, Up
  <2>3. queued' = 0
    BY <1>11, <1>u, <1>t, <2>1
       DEF ConnectionLost, SessionIsUp, Up, NobodyWaits, isConnected
  <2> QED
    BY <2>1, <2>2, <2>3 DEF SessionIsOver, Handlers
<1>12. CASE WorkerStarts
  <2>1. events' = <<"started">> /\ worker' = "disconnect"
    BY <1>12, <1>u DEF WorkerStarts, OneDisconnect
  <2>2. ~Has(<<"started">>, "finished")
    BY DEF Has
  <2> QED
    BY <2>1, <2>2 DEF SessionIsOver, Disconnecting
<1>13. CASE WorkerDisconnects
  <2>1. worker = "disconnect" /\ worker' = "replies" /\ ~Has(events, "finished")
    BY <1>13, <1>u DEF WorkerDisconnects, OneDisconnect
  <2>2. ~Has(events', "finished")
    BY <1>13, <2>1, <1>t, HasAppend DEF WorkerDisconnects
  <2> QED
    BY <2>1, <2>2 DEF SessionIsOver, Disconnecting
<1>14. CASE WorkerForgetsReplies \/ WorkerClearsQueue
  BY <1>14, <1>u
     DEF WorkerForgetsReplies, WorkerClearsQueue, OneDisconnect, SessionIsOver,
         Disconnecting
<1>15. CASE WorkerFinishes
  <2>1. active = {} /\ queued = 0 /\ UNCHANGED <<active, queued>>
    BY <1>15, <1>u DEF WorkerFinishes, SessionIsOver
  <2>2. events' # <<>>
    BY <1>15, <1>t DEF WorkerFinishes
  <2> QED
    BY <2>1, <2>2 DEF SessionIsOver, Disconnecting
<1>16. CASE HandleStarted \/ HandleReply
  <2>1. events # <<>> /\ Head(events) # "finished"
    BY <1>16 DEF HandleStarted, HandleReply, NextEvent
  <2>2. Has(events', "finished") <=> Has(events, "finished")
    BY <1>16, <2>1, <1>t, HasTail DEF HandleStarted, HandleReply
  <2>3. UNCHANGED <<worker, asked, queued>> /\ active' \subseteq active
    BY <1>16 DEF HandleStarted, HandleReply
  <2>4. Disconnecting'
    <3>1. CASE worker # "idle"
      BY <2>3, <3>1 DEF Disconnecting
    <3>2. CASE worker = "idle"
      BY <1>u, <2>1, <2>2, <3>2, HasNothing DEF OneDisconnect, Disconnecting
    <3> QED
      BY <3>1, <3>2
  <2> QED
    BY <1>u, <2>2, <2>3, <2>4 DEF SessionIsOver
<1>17. CASE HandleFinished
  <2>1. Has(events, "finished") /\ gui = "loop"
    BY <1>17, HeadIsThere DEF HandleFinished, NextEvent
  <2>2. active = {} /\ queued = 0
    BY <1>u, <2>1 DEF SessionIsOver
  <2> QED
    BY <1>17, <2>1, <2>2 DEF HandleFinished, SessionIsOver, Handlers
<1>18. CASE Closed
  BY <1>18, HasNothing DEF Closed, SessionIsOver, Handlers
<1>19. CASE UNCHANGED vars
  BY <1>19, <1>a DEF vars
<1> QED
  BY <1>1, <1>2, <1>3, <1>4, <1>5, <1>6, <1>7, <1>8, <1>9, <1>10, <1>11,
     <1>12, <1>13, <1>14, <1>15, <1>16, <1>17, <1>18, <1>19
     DEF Next, UserStep, PumpStep, DeviceStep, WorkerStep, EventStep

\* Every step keeps NobodyWaits.
LEMMA NextNobodyWaits ==
    ASSUME OrderlyUse, WorkerOK, SessionInvariant, [Next]_vars
    PROVE  NobodyWaits'
<1> USE DEF master, replies, guiVars, workerVars, window
<1>u. SessionIsUp /\ SessionIsOver /\ NobodyWaits
  BY DEF SessionInvariant
<1>a. ASSUME UNCHANGED <<device, active, queued>>,
             gui' \notin {"loop", "read"} \/ gui \in {"loop", "read"}
      PROVE  NobodyWaits'
  BY <1>a, <1>u DEF NobodyWaits, isConnected
<1>b. ASSUME device' # "connected" \/ queued' = 0 PROVE NobodyWaits'
  BY <1>b DEF NobodyWaits, isConnected
<1>c. ASSUME UserActs, ~isConnected PROVE queued = 0
  BY <1>c, <1>u, PatientUser DEF SessionIsOver, isConnected, Disconnecting
<1>1. CASE ClickOn \/ WriteReconnects
  <2>1. UserActs /\ ~isConnected /\ UNCHANGED queued
    BY <1>1 DEF ClickOn, setupConfiguration, WriteReconnects, CanWrite, isConnected
  <2> QED
    BY <1>b, <1>c, <2>1
<1>2. CASE ClickOff \/ AutoRefresh \/ AddRow \/ CloseWindow \/ WriteSent
             \/ WriteRefused \/ WriteWithoutDevice \/ Refresh
  BY <1>2, <1>a
     DEF ClickOff, AutoRefresh, AddRow, CloseWindow, WriteSent, WriteRefused,
         WriteWithoutDevice, Refresh, UserActs, CanWrite
<1>3. CASE ReadAccepted \/ ReadRefused \/ SendFromEmpty
  BY <1>3, <1>a DEF ReadAccepted, ReadRefused, SendFromEmpty, NobodyWaits
<1>4. CASE Check
  <2>1. CASE queued = 0 \/ queued' = 0
    BY <1>4, <1>b, <2>1 DEF Check
  <2>2. CASE Cardinality(active) >= MaxParallel /\ UNCHANGED <<device, active, queued>>
    <3>1. active # {}
      BY <2>2, BoundsAreNumbers, FS_EmptySet
    <3> QED
      BY <2>2, <3>1 DEF NobodyWaits
  <2>3. CASE gui' = "send"
    BY <2>3 DEF NobodyWaits
  <2> QED
    BY <1>4, <2>1, <2>2, <2>3 DEF Check
<1>5. CASE Send
  BY <1>5 DEF Send, NobodyWaits, isConnected
<1>6. CASE Register \/ ReplyFinishes
  BY <1>6 DEF Register, ReplyFinishes, NobodyWaits
<1>7. CASE WriteFinishes
  BY <1>7, <1>a DEF WriteFinishes
<1>8. CASE Connected
  <2>1. queued = 0 /\ UNCHANGED queued
    BY <1>8, <1>u DEF Connected, SessionIsUp, SessionIsOver
  <2> QED
    BY <1>b, <2>1
<1>9. CASE ConnectionLost \/ WorkerDisconnects \/ Closed
  BY <1>9, <1>b DEF ConnectionLost, WorkerDisconnects, Closed
<1>10. CASE WorkerForgetsReplies
  BY <1>10, <1>b, <1>u DEF WorkerForgetsReplies, SessionIsUp, Up
<1>11. CASE WorkerStarts \/ WorkerClearsQueue \/ WorkerFinishes
  BY <1>11, <1>a, <1>b DEF WorkerStarts, WorkerClearsQueue, WorkerFinishes
<1>12. CASE HandleStarted \/ HandleFinished
  BY <1>12, <1>a DEF HandleStarted, HandleFinished
<1>13. CASE HandleReply
  <2>1. device # "connected"
    BY <1>13, <1>u, HeadIsThere DEF HandleReply, SessionIsUp, Up
  <2> QED
    BY <1>13, <1>b, <2>1 DEF HandleReply
<1>14. CASE UNCHANGED vars
  BY <1>14, <1>a DEF vars, NobodyWaits, isConnected
<1> QED
  BY <1>1, <1>2, <1>3, <1>4, <1>5, <1>6, <1>7, <1>8, <1>9, <1>10, <1>11,
     <1>12, <1>13, <1>14
     DEF Next, UserStep, PumpStep, DeviceStep, WorkerStep, EventStep

-----------------------------------------------------------------------------
(* The theorems                                                             *)

FullInvariant ==
    MasterOK /\ QueueOK /\ WorkerOK /\ WindowOK /\ SessionInvariant

\* It is inductive.
LEMMA FullInvariantHolds == ASSUME OrderlyUse PROVE Spec => []FullInvariant
<1>1. Init => FullInvariant
  BY InitParts, InitSession DEF FullInvariant
<1>2. FullInvariant /\ [Next]_vars => FullInvariant'
  <2> SUFFICES ASSUME FullInvariant, [Next]_vars PROVE FullInvariant'
    OBVIOUS
  <2>1. MasterOK' /\ QueueOK' /\ WorkerOK' /\ WindowOK'
    BY NextMaster, NextQueue, NextWorker, NextWindow DEF FullInvariant
  <2>2. OneDisconnect'
    BY NextOneDisconnect DEF FullInvariant, SessionInvariant
  <2>3. SessionIsUp'
    BY NextSessionIsUp DEF FullInvariant
  <2>4. SessionIsOver'
    BY NextSessionIsOver DEF FullInvariant
  <2>5. NobodyWaits'
    BY NextNobodyWaits DEF FullInvariant
  <2> QED
    BY <2>1, <2>2, <2>3, <2>4, <2>5 DEF FullInvariant, SessionInvariant
<1> QED
  BY <1>1, <1>2, PTL DEF Spec

\* Only a reply's lambda starts the pump again, and there always is one:
\* no request waits in request_queue_ on a connected device for ever.
THEOREM NoneStranded == ASSUME OrderlyUse PROVE Spec => []NoRequestIsStranded
<1>1. FullInvariant => NoRequestIsStranded
  <2> SUFFICES ASSUME FullInvariant, gui = "loop", isConnected, queued > 0
               PROVE  active \cap sent # {}
    BY DEF NoRequestIsStranded
  <2>1. active # {} /\ active \subseteq sent
    BY DEF FullInvariant, SessionInvariant, NobodyWaits, SessionIsUp, Up, isConnected
  <2> QED
    BY <2>1
<1> QED
  BY <1>1, FullInvariantHolds, PTL

\* setupConfiguration deletes the device of a session of which neither
\* active_replies_ nor request_queue_ nor a posted lambda is left.
THEOREM SessionsApart == ASSUME OrderlyUse PROVE Spec => SessionsDoNotMix
<1>1. FullInvariant /\ [Next]_vars
        => [ClickOn => active = {} /\ posted = {} /\ write = "none" /\ queued = 0]_vars
  <2> SUFFICES ASSUME FullInvariant, ClickOn
               PROVE  active = {} /\ posted = {} /\ write = "none" /\ queued = 0
    OBVIOUS
  <2>1. asked = 0 /\ worker = "idle" /\ events = <<>> /\ device # "connected"
    BY PatientUser DEF FullInvariant, ClickOn, isConnected
  <2>2. active = {} /\ queued = 0
    BY <2>1 DEF FullInvariant, SessionInvariant, SessionIsOver, Disconnecting
  <2>3. posted = {} /\ write \notin {"posted", "sent"}
    BY <2>1, HasNothing
       DEF FullInvariant, SessionInvariant, OneDisconnect, SessionIsUp
  <2> QED
    BY <2>2, <2>3 DEF FullInvariant, MasterOK
<1> QED
  BY <1>1, FullInvariantHolds, PTL DEF Spec, SessionsDoNotMix

\* When the window learns that the disconnect has finished, it has.
THEOREM DisconnectedFully == ASSUME OrderlyUse PROVE Spec => FullyDisconnected
<1>1. FullInvariant /\ [Next]_vars
        => [HandleFinished =>
              /\ device \notin {"connecting", "connected"}
              /\ active = {} /\ sent = {} /\ posted = {}
              /\ write = "none" /\ queued = 0]_vars
  <2> SUFFICES ASSUME FullInvariant, HandleFinished
               PROVE  /\ device \notin {"connecting", "connected"}
                      /\ active = {} /\ sent = {} /\ posted = {}
                      /\ write = "none" /\ queued = 0
    OBVIOUS
  <2> USE DEF FullInvariant, SessionInvariant
  <2>1. Has(events, "finished")
    BY HeadIsThere DEF HandleFinished
  <2>2. active = {} /\ queued = 0
    BY <2>1 DEF SessionIsOver
  <2>3. device \notin {"connecting", "connected"}
    BY <2>1 DEF SessionIsUp, Up
  <2>4. sent = {} /\ write # "sent"
    BY <2>3 DEF SessionIsUp
  <2>5. ~Has(events, "replies")
    BY FinishedFirst
       DEF HandleFinished, NextEvent, OneDisconnect, FinishedIsLast, WorkerOK
  <2>6. posted = {} /\ write # "posted"
    BY <2>5 DEF OneDisconnect
  <2> QED
    BY <2>2, <2>3, <2>4, <2>6 DEF MasterOK
<1> QED
  BY <1>1, FullInvariantHolds, PTL DEF Spec, FullyDisconnected
=============================================================================
