-------------------------- MODULE ModbusTablesProofs --------------------------
(***************************************************************************)
(* The tables of a Modbus window, for any of them.  The table of holding   *)
(* registers: what can be typed in a row can be confirmed or taken back, a *)
(* connection has a cause, and the settings are locked only for a link the *)
(* window shows.  The coil table: the rows of the view are the entries of  *)
(* rowsData_, a saved record is restored into the rows it came from, and   *)
(* just the addresses of the rows are asked for, sorted and merged into    *)
(* ranges.                                                                 *)
(***************************************************************************)
EXTENDS ModbusTables, SequenceTheorems, FiniteSetTheorems, WellFoundedInduction, TLAPS

\* A behaviour of the tables is one of the table of holding registers.
LEMMA HoldingApart == TablesSpec => Holding!Spec
<1>1. TablesInit => Holding!Init
  BY DEF TablesInit
<1>2. [TablesNext]_<<side, vars, tableVars, holdingVars>> => [Holding!Next]_Holding!vars
  BY DEF TablesNext, Edited, Refreshed, Held, holdingVars, Holding!vars, Holding!screen,
     Holding!link, Holding!traffic
<1> QED
  BY <1>1, <1>2, PTL DEF TablesSpec, Holding!Spec

-----------------------------------------------------------------------------
(* The invariant: what is in the rows and under way has its types, no more  *)
(* calls wait than were clicked, and EditsEnd                               *)

Texts == Values \cup {Holding!NoText}

RegisterRows ==
    [address : Registers, enabled : BOOLEAN, readOnly : BOOLEAN, editing : BOOLEAN,
     value : Texts, originalValue : Texts]

\* The rows: a text that can be changed is under edit.
RowTypes == holding \in Seq(RegisterRows)

Confirmable ==
    \A i \in DOMAIN holding : holding[i].enabled /\ ~holding[i].readOnly => holding[i].editing

\* An answer of the slave, or what is written to it.
Contents == [address : Registers, value : Values]

TrafficTypes ==
    /\ register \in [Registers -> Values]
    /\ asked \in Seq(Registers)
    /\ told \in Seq(Contents)
    /\ given \in Seq(Contents)
    /\ Len(asked) + Len(told) <= MaxReads

LinkTypes ==
    /\ device \in {"none", "off", "connecting", "on"}
    /\ clicks \in 0..MaxClicks /\ ending \in 0..clicks /\ turns \in 0..MaxTurns

\* The cause of a connection, and of the lock.
Caused ==
    /\ device \in {"connecting", "on"} => opened \/ ending > 0 \/ reconnected
    /\ locked => opened

HoldingInvariant == RowTypes /\ Confirmable /\ TrafficTypes /\ LinkTypes /\ Caused

LEMMA Bounds ==
    /\ MaxReads \in Nat \ {0} /\ MaxClicks \in Nat \ {0} /\ MaxTurns \in Nat \ {0}
    /\ 0 \in Values
  BY TablesAssumption, HoldingAssumption

\* A change of some rows, each to one that keeps the rule.
LEMMA RowsChanged ==
    ASSUME RowTypes, DOMAIN holding' = DOMAIN holding, \E S : holding' \in [DOMAIN holding -> S],
           \A i \in DOMAIN holding :
               /\ holding'[i] \in RegisterRows
               /\ holding'[i].enabled /\ ~holding'[i].readOnly => holding'[i].editing
    PROVE  RowTypes' /\ Confirmable'
<1>1. DOMAIN holding = 1..Len(holding) /\ Len(holding) \in Nat
  BY DEF RowTypes
<1>2. holding' \in [1..Len(holding) -> RegisterRows]
  BY <1>1
<1>3. holding' \in Seq(RegisterRows)
  BY <1>1, <1>2
<1> QED
  BY <1>3 DEF RowTypes, Confirmable

\* What setEnable leaves of the rows.
LEMMA RowsEnabled ==
    ASSUME RowTypes, NEW enable \in BOOLEAN, Holding!setEnable(enable)
    PROVE  RowTypes' /\ Confirmable'
<1>1. holding' = [i \in DOMAIN holding |->
                     [holding[i] EXCEPT !.enabled = ~enable, !.readOnly = ~enable]]
  BY DEF Holding!setEnable
<1>2. ASSUME NEW i \in DOMAIN holding
      PROVE  /\ holding'[i] \in RegisterRows
             /\ holding'[i].enabled /\ ~holding'[i].readOnly => holding'[i].editing
  <2>1. holding[i] \in RegisterRows
    BY DEF RowTypes
  <2>2. PICK e \in BOOLEAN : e = ~enable
    OBVIOUS
  <2>3. holding'[i] = [holding[i] EXCEPT !.enabled = e, !.readOnly = e]
    BY <1>1, <2>2
  <2> QED
    BY <2>1, <2>3 DEF RegisterRows
<1> QED
  BY <1>1, <1>2, RowsChanged

LEMMA ControlsSet ==
    ASSUME RowTypes, NEW state \in BOOLEAN, Holding!setControlState(state)
    PROVE  RowTypes' /\ Confirmable' /\ locked' = ~state
  BY RowsEnabled DEF Holding!setControlState

LEMMA NothingLeft ==
    ASSUME TrafficTypes, Holding!NothingUnderWay
    PROVE  TrafficTypes'
  BY Bounds DEF TrafficTypes, Holding!NothingUnderWay

-----------------------------------------------------------------------------
(* The user                                                                 *)

LEMMA ClickStep ==
    ASSUME HoldingInvariant, Holding!ClickOnOff
    PROVE  HoldingInvariant'
<1>1. clicks < MaxClicks /\ clicks' = clicks + 1 /\ turns' = turns
  BY DEF Holding!ClickOnOff
<1>2. CASE /\ device = "on"
           /\ ending' = ending + 1 /\ opened' = FALSE /\ Holding!setControlState(TRUE)
           /\ UNCHANGED <<device, register, asked, told, given, reconnected>>
  <2>1. RowTypes' /\ Confirmable' /\ locked' = FALSE
    BY <1>2, ControlsSet DEF HoldingInvariant
  <2>2. TrafficTypes'
    BY <1>2 DEF HoldingInvariant, TrafficTypes
  <2>3. LinkTypes' /\ ending' > 0
    BY <1>1, <1>2, Bounds DEF HoldingInvariant, LinkTypes
  <2> QED
    BY <2>1, <2>2, <2>3 DEF HoldingInvariant, Caused
<1>3. CASE Holding!connectModbusDevice /\ ending' = ending
  <2>1. TrafficTypes'
    BY <1>3, NothingLeft DEF HoldingInvariant, Holding!connectModbusDevice
  <2>2. CASE /\ device' \in {"connecting", "on"} /\ opened' = TRUE
             /\ Holding!setControlState(FALSE)
    <3>1. RowTypes' /\ Confirmable'
      BY <2>2, ControlsSet DEF HoldingInvariant
    <3>2. LinkTypes'
      BY <1>1, <1>3, <2>2, Bounds DEF HoldingInvariant, LinkTypes
    <3> QED
      BY <2>1, <2>2, <3>1, <3>2 DEF HoldingInvariant, Caused
  <2>3. CASE device' = "off" /\ opened' = FALSE /\ Holding!setControlState(TRUE)
    <3>1. RowTypes' /\ Confirmable' /\ locked' = FALSE
      BY <2>3, ControlsSet DEF HoldingInvariant
    <3>2. LinkTypes'
      BY <1>1, <1>3, <2>3, Bounds DEF HoldingInvariant, LinkTypes
    <3> QED
      BY <2>1, <2>3, <3>1, <3>2 DEF HoldingInvariant, Caused
  <2> QED
    BY <1>3, <2>2, <2>3 DEF Holding!connectModbusDevice
<1> QED
  BY <1>2, <1>3 DEF Holding!ClickOnOff, Holding!traffic

LEMMA TurnTaken ==
    ASSUME LinkTypes, Holding!Turn
    PROVE  turns' \in 0..MaxTurns
  BY Bounds DEF LinkTypes, Holding!Turn

LEMMA RefreshSet ==
    ASSUME HoldingInvariant, Holding!AutoRefresh
    PROVE  HoldingInvariant'
  BY TurnTaken DEF HoldingInvariant, Holding!AutoRefresh, RowTypes, Confirmable, TrafficTypes,
     LinkTypes, Caused, Holding!link, Holding!traffic

LEMMA RowAdded ==
    ASSUME HoldingInvariant, NEW a \in Registers, Holding!setupRow(a)
    PROVE  HoldingInvariant'
<1> DEFINE row == [address |-> a, enabled |-> TRUE, readOnly |-> TRUE, editing |-> FALSE,
                   value |-> Holding!NoText, originalValue |-> Holding!NoText]
<1>1. holding' = Append(holding, row)
  BY DEF Holding!setupRow
<1>2. row \in RegisterRows /\ row.readOnly = TRUE
  BY DEF RegisterRows, Texts
<1>3. holding \in Seq(RegisterRows)
  BY DEF HoldingInvariant, RowTypes
<1> HIDE DEF row
<1>4. RowTypes'
  BY <1>1, <1>2, <1>3 DEF RowTypes
<1>5. Confirmable'
  <2> SUFFICES ASSUME NEW i \in DOMAIN holding', holding'[i].enabled, ~holding'[i].readOnly
               PROVE  holding'[i].editing
    BY DEF Confirmable
  <2>1. i \in DOMAIN holding /\ holding'[i] = holding[i]
    BY <1>1, <1>2, <1>3
  <2> QED
    BY <2>1 DEF HoldingInvariant, Confirmable
<1> QED
  BY <1>4, <1>5 DEF HoldingInvariant, Holding!setupRow, TrafficTypes, LinkTypes, Caused,
     Holding!link, Holding!traffic

\* One row is changed.
LEMMA RowReplaced ==
    ASSUME RowTypes, Confirmable, NEW i \in DOMAIN holding, NEW row \in RegisterRows,
           holding' = [holding EXCEPT ![i] = row],
           row.enabled /\ ~row.readOnly => row.editing
    PROVE  RowTypes' /\ Confirmable'
<1>1. holding \in [DOMAIN holding -> RegisterRows]
  BY DEF RowTypes
<1>2. holding' \in [DOMAIN holding -> RegisterRows]
  BY <1>1
<1>3. ASSUME NEW j \in DOMAIN holding
      PROVE  /\ holding'[j] \in RegisterRows
             /\ holding'[j].enabled /\ ~holding'[j].readOnly => holding'[j].editing
  <2>1. CASE j = i
    BY <1>1, <2>1
  <2>2. CASE j # i
    BY <1>1, <2>2 DEF Confirmable
  <2> QED
    BY <2>1, <2>2
<1> QED
  BY <1>2, <1>3, RowsChanged

\* A row is edited, typed in, or what was typed is taken back.
LEMMA RowEdited ==
    ASSUME HoldingInvariant, NEW i \in DOMAIN holding,
           \/ Holding!ClickEdit(i) \/ Holding!onCancelClicked(i)
           \/ \E v \in Values : Holding!TypeValue(i, v)
    PROVE  HoldingInvariant'
<1>1. holding[i] \in RegisterRows /\ RowTypes /\ Confirmable /\ LinkTypes
  BY DEF HoldingInvariant, RowTypes
<1>2. /\ UNCHANGED <<locked, device, opened, ending, clicks, reconnected, register, asked, told,
                     given>>
      /\ turns' \in 0..MaxTurns
  <2>1. turns \in 0..MaxTurns
    BY <1>1 DEF LinkTypes
  <2> QED
    BY <1>1, <2>1, TurnTaken DEF Holding!ClickEdit, Holding!onCancelClicked, Holding!TypeValue,
       Holding!link, Holding!traffic
<1>3. RowTypes' /\ Confirmable'
  <2>1. CASE Holding!ClickEdit(i)
    <3> DEFINE row == [holding[i] EXCEPT !.editing = TRUE, !.readOnly = FALSE]
    <3>1. row \in RegisterRows /\ row.editing = TRUE
      BY <1>1 DEF RegisterRows
    <3>2. holding' = [holding EXCEPT ![i] = row]
      BY <2>1 DEF Holding!ClickEdit
    <3> HIDE DEF row
    <3> QED
      BY <1>1, <3>1, <3>2, RowReplaced
  <2>2. CASE Holding!onCancelClicked(i)
    <3> DEFINE row == [holding[i] EXCEPT !.value = holding[i].originalValue, !.editing = FALSE,
                                         !.readOnly = TRUE]
    <3>1. row \in RegisterRows /\ row.readOnly = TRUE
      BY <1>1 DEF RegisterRows
    <3>2. holding' = [holding EXCEPT ![i] = row]
      BY <2>2 DEF Holding!onCancelClicked
    <3> HIDE DEF row
    <3> QED
      BY <1>1, <3>1, <3>2, RowReplaced
  <2>3. ASSUME NEW v \in Values, Holding!TypeValue(i, v) PROVE RowTypes' /\ Confirmable'
    <3> DEFINE row == [holding[i] EXCEPT !.value = v]
    <3>1. /\ row \in RegisterRows /\ row.enabled = holding[i].enabled
          /\ row.readOnly = holding[i].readOnly /\ row.editing = holding[i].editing
      BY <1>1 DEF RegisterRows, Texts
    <3>2. holding' = [holding EXCEPT ![i] = row]
      BY <2>3 DEF Holding!TypeValue
    <3>3. row.enabled /\ ~row.readOnly => row.editing
      BY <1>1, <3>1 DEF Confirmable
    <3> HIDE DEF row
    <3> QED
      BY <1>1, <3>1, <3>2, <3>3, RowReplaced
  <2> QED
    BY <2>1, <2>2, <2>3
<1> QED
  BY <1>2, <1>3 DEF HoldingInvariant, TrafficTypes, LinkTypes, Caused

\* A confirmed text is written, or opens a connection, which it is then the cause of.
LEMMA RowConfirmed ==
    ASSUME HoldingInvariant, NEW i \in DOMAIN holding, Holding!onConfirmClicked(i)
    PROVE  HoldingInvariant'
<1>1. holding[i] \in RegisterRows /\ RowTypes /\ Confirmable
  BY DEF HoldingInvariant, RowTypes
<1>2. RowTypes' /\ Confirmable'
  <2> DEFINE row == [holding[i] EXCEPT !.originalValue = holding[i].value, !.editing = FALSE,
                                       !.readOnly = TRUE]
  <2>1. row \in RegisterRows /\ row.readOnly = TRUE
    BY <1>1 DEF RegisterRows
  <2>2. holding' = [holding EXCEPT ![i] = row]
    BY DEF Holding!onConfirmClicked
  <2> HIDE DEF row
  <2> QED
    BY <1>1, <2>1, <2>2, RowReplaced
<1>3. TrafficTypes'
  <2>1. holding[i].address \in Registers /\ Holding!Number(holding[i].value) \in Values
    BY <1>1, Bounds DEF RegisterRows, Texts, Holding!Number
  <2>2. given' \in Seq(Contents)
    <3> DEFINE pair == [address |-> holding[i].address,
                        value |-> Holding!Number(holding[i].value)]
    <3>1. pair \in Contents
      BY <2>1 DEF Contents
    <3>2. given' = given \/ given' = Append(given, pair)
      <4>1. Holding!writeHoldingData(holding[i].address, Holding!Number(holding[i].value))
        BY DEF Holding!onConfirmClicked
      <4>2. given' = IF device = "on" THEN Append(given, pair) ELSE given
        BY <4>1, Zenon DEF Holding!writeHoldingData
      <4> HIDE DEF pair
      <4> QED
        BY <4>2
    <3> HIDE DEF pair
    <3> QED
      <4>1. given \in Seq(Contents)
        BY DEF HoldingInvariant, TrafficTypes
      <4> QED
        BY <3>1, <3>2, <4>1, AppendProperties
  <2> QED
    BY <2>2 DEF HoldingInvariant, TrafficTypes, Holding!onConfirmClicked
<1>4. LinkTypes'
  BY DEF HoldingInvariant, LinkTypes, Holding!onConfirmClicked, Holding!writeHoldingData
<1>5. Caused'
  BY DEF HoldingInvariant, LinkTypes, Caused, Holding!onConfirmClicked, Holding!writeHoldingData
<1> QED
  BY <1>2, <1>3, <1>4, <1>5 DEF HoldingInvariant

-----------------------------------------------------------------------------
(* The link and the slave                                                   *)

LEMMA LinkEnds ==
    ASSUME HoldingInvariant, Holding!disconnectModbus \/ Holding!Breaks
    PROVE  HoldingInvariant'
<1>1. TrafficTypes'
  BY NothingLeft DEF HoldingInvariant, Holding!disconnectModbus, Holding!Breaks
<1>2. CASE Holding!disconnectModbus
  <2>1. RowTypes' /\ Confirmable' /\ locked' = FALSE
    BY <1>2, ControlsSet DEF HoldingInvariant, Holding!disconnectModbus
  <2>2. LinkTypes'
    BY <1>2, Bounds DEF HoldingInvariant, LinkTypes, Holding!disconnectModbus
  <2> QED
    BY <1>1, <1>2, <2>1, <2>2 DEF HoldingInvariant, Caused, Holding!disconnectModbus
<1>3. CASE Holding!Breaks
  <2>1. RowTypes' /\ Confirmable' /\ (locked' => opened)
    <3>1. CASE UNCHANGED Holding!screen
      BY <3>1 DEF HoldingInvariant, RowTypes, Confirmable, Caused, Holding!screen
    <3>2. CASE Holding!setControlState(TRUE)
      BY <3>2, ControlsSet DEF HoldingInvariant
    <3> QED
      BY <1>3, <3>1, <3>2 DEF Holding!Breaks
  <2>2. LinkTypes'
    BY <1>3 DEF HoldingInvariant, LinkTypes, Holding!Breaks
  <2> QED
    BY <1>1, <1>3, <2>1, <2>2 DEF HoldingInvariant, Caused, Holding!Breaks
<1> QED
  BY <1>2, <1>3

LEMMA AttemptAnswered ==
    ASSUME HoldingInvariant, Holding!Answered
    PROVE  HoldingInvariant'
  BY DEF HoldingInvariant, Holding!Answered, RowTypes, Confirmable, TrafficTypes, LinkTypes,
     Caused, Holding!screen, Holding!traffic

\* The screen and the link stay: only what is under way changes.
LEMMA OnlyTraffic ==
    ASSUME HoldingInvariant, TrafficTypes', turns' \in 0..MaxTurns,
           UNCHANGED <<Holding!screen, Holding!link>>
    PROVE  HoldingInvariant'
  BY DEF HoldingInvariant, RowTypes, Confirmable, LinkTypes, Caused, Holding!screen, Holding!link

LEMMA SlaveStep ==
    ASSUME HoldingInvariant,
           \/ Holding!Refresh \/ Holding!SlaveReads \/ Holding!SlaveWrites
           \/ Holding!SlaveRefusesRead
           \/ \E a \in Registers, v \in Values : Holding!RegisterChanges(a, v)
    PROVE  HoldingInvariant'
<1>1. TrafficTypes /\ RowTypes /\ LinkTypes /\ turns \in 0..MaxTurns
  BY DEF HoldingInvariant, LinkTypes
<1>2. CASE Holding!Refresh
  <2> DEFINE addrs == [i \in DOMAIN holding |-> holding[i].address]
  <2>1. asked' = asked \o addrs /\ Len(asked) + Len(told) + Len(holding) <= MaxReads
    BY <1>2 DEF Holding!Refresh, Holding!readHoldingData
  <2>2. addrs \in Seq(Registers) /\ Len(addrs) = Len(holding)
    <3>1. /\ DOMAIN holding = 1..Len(holding) /\ Len(holding) \in Nat
          /\ \A i \in DOMAIN holding : holding[i] \in RegisterRows
      BY <1>1 DEF RowTypes
    <3>2. \A i \in DOMAIN holding : holding[i].address \in Registers
      BY <3>1 DEF RegisterRows
    <3>3. addrs \in [1..Len(holding) -> Registers]
      BY <3>1, <3>2
    <3> QED
      BY <3>1, <3>3, LenProperties, SeqDef
  <2> HIDE DEF addrs
  <2>3. TrafficTypes'
    <3>1. Len(holding) \in Nat
      BY <1>1 DEF RowTypes
    <3>2. asked' \in Seq(Registers) /\ Len(asked') = Len(asked) + Len(holding)
      <4>1. asked \in Seq(Registers)
        BY <1>1 DEF TrafficTypes
      <4>2. /\ asked \o addrs \in Seq(Registers)
            /\ Len(asked \o addrs) = Len(asked) + Len(addrs)
        BY <2>2, <4>1, ConcatProperties, Zenon
      <4> QED
        BY <2>1, <2>2, <4>2
    <3> QED
      BY <1>1, <1>2, <2>1, <3>1, <3>2, Bounds DEF TrafficTypes, Holding!Refresh
  <2> QED
    BY <1>1, <1>2, <2>3, OnlyTraffic DEF Holding!Refresh
<1>3. CASE Holding!SlaveReads
  <2>1. asked \in Seq(Registers) /\ asked # <<>> /\ asked' = Tail(asked)
    BY <1>1, <1>3 DEF TrafficTypes, Holding!SlaveReads
  <2>2. Head(asked) \in Registers /\ asked' \in Seq(Registers) /\ Len(asked') = Len(asked) - 1
    BY <2>1
  <2>3. /\ told' \in Seq(Contents)
        /\ Len(told') = Len(told) + 1
    <3> DEFINE answer == [address |-> Head(asked), value |-> register[Head(asked)]]
    <3>1. answer \in Contents
      BY <1>1, <2>2 DEF TrafficTypes, Contents
    <3>2. told' = Append(told, answer)
      BY <1>3 DEF Holding!SlaveReads
    <3> HIDE DEF answer
    <3> QED
      BY <1>1, <3>1, <3>2 DEF TrafficTypes
  <2>4. TrafficTypes'
    BY <1>1, <1>3, <2>1, <2>2, <2>3, Bounds DEF TrafficTypes, Holding!SlaveReads
  <2> QED
    BY <1>1, <1>3, <2>4, OnlyTraffic DEF Holding!SlaveReads
<1>4. CASE Holding!SlaveWrites
  <2>1. given \in Seq(Contents) /\ given # <<>>
    BY <1>1, <1>4 DEF TrafficTypes, Holding!SlaveWrites
  <2>2. /\ Head(given) \in Contents
        /\ Tail(given) \in Seq(Contents)
    BY <2>1
  <2>3. TrafficTypes'
    BY <1>1, <1>4, <2>2 DEF TrafficTypes, Contents, Holding!SlaveWrites
  <2> QED
    BY <1>1, <1>4, <2>3, OnlyTraffic DEF Holding!SlaveWrites
<1>5. CASE Holding!SlaveRefusesRead
  <2>1. asked \in Seq(Registers) /\ asked # <<>> /\ asked' = Tail(asked)
    BY <1>1, <1>5 DEF TrafficTypes, Holding!SlaveRefusesRead
  <2>2. asked' \in Seq(Registers) /\ Len(asked') = Len(asked) - 1
    BY <2>1
  <2>3. TrafficTypes'
    BY <1>1, <1>5, <2>1, <2>2, Bounds DEF TrafficTypes, Holding!SlaveRefusesRead
  <2> QED
    BY <1>1, <1>5, <2>3, OnlyTraffic, TurnTaken DEF Holding!SlaveRefusesRead
<1>6. ASSUME NEW a \in Registers, NEW v \in Values, Holding!RegisterChanges(a, v)
      PROVE  HoldingInvariant'
  <2>1. TrafficTypes'
    BY <1>1, <1>6 DEF TrafficTypes, Holding!RegisterChanges
  <2> QED
    BY <1>1, <1>6, <2>1, OnlyTraffic, TurnTaken DEF Holding!RegisterChanges
<1> QED
  BY <1>2, <1>3, <1>4, <1>5, <1>6

LEMMA WriteRefused ==
    ASSUME HoldingInvariant, Holding!SlaveRefusesWrite
    PROVE  HoldingInvariant'
<1>1. RowTypes' /\ Confirmable' /\ locked' = FALSE
  BY ControlsSet DEF HoldingInvariant, Holding!SlaveRefusesWrite
<1>2. TrafficTypes'
  BY DEF HoldingInvariant, TrafficTypes, Holding!SlaveRefusesWrite
<1>3. LinkTypes' /\ Caused'
  BY <1>1 DEF HoldingInvariant, LinkTypes, Caused, Holding!SlaveRefusesWrite, Holding!link
<1> QED
  BY <1>1, <1>2, <1>3 DEF HoldingInvariant

\* An answer overwrites the texts of its rows, and nothing else of them.
LEMMA AnswerShown ==
    ASSUME HoldingInvariant, Holding!sloveDataReceived
    PROVE  HoldingInvariant'
<1>1. /\ told # <<>> /\ told' = Tail(told)
      /\ told \in Seq(Contents)
      /\ Holding!setValue(Head(told).address, Head(told).value)
  BY DEF HoldingInvariant, TrafficTypes, Holding!sloveDataReceived
<1>2. /\ Head(told) \in Contents /\ Len(told') = Len(told) - 1
      /\ told' \in Seq(Contents)
  BY <1>1
<1>3. RowTypes' /\ Confirmable'
  <2>1. holding' = [i \in DOMAIN holding |->
                       IF holding[i].address = Head(told).address
                       THEN [holding[i] EXCEPT !.value = Head(told).value] ELSE holding[i]]
    BY <1>1 DEF Holding!setValue
  <2>2. ASSUME NEW i \in DOMAIN holding
        PROVE  /\ holding'[i] \in RegisterRows
               /\ holding'[i].enabled = holding[i].enabled
               /\ holding'[i].readOnly = holding[i].readOnly
               /\ holding'[i].editing = holding[i].editing
    <3>1. holding[i] \in RegisterRows
      BY DEF HoldingInvariant, RowTypes
    <3> QED
      BY <1>2, <2>1, <3>1 DEF RegisterRows, Texts, Contents
  <2>3. ASSUME NEW i \in DOMAIN holding
        PROVE  holding'[i].enabled /\ ~holding'[i].readOnly => holding'[i].editing
    BY <2>2 DEF HoldingInvariant, Confirmable
  <2> QED
    BY <2>1, <2>2, <2>3, RowsChanged DEF HoldingInvariant
<1>4. TrafficTypes'
  BY <1>1, <1>2, Bounds DEF HoldingInvariant, TrafficTypes, Holding!sloveDataReceived
<1>5. LinkTypes' /\ Caused'
  BY DEF HoldingInvariant, LinkTypes, Caused, Holding!sloveDataReceived, Holding!link
<1> QED
  BY <1>3, <1>4, <1>5 DEF HoldingInvariant

-----------------------------------------------------------------------------
LEMMA HoldingInvariantStep ==
    ASSUME HoldingInvariant, [Holding!Next]_Holding!vars
    PROVE  HoldingInvariant'
<1>1. CASE UNCHANGED Holding!vars
  BY <1>1 DEF HoldingInvariant, RowTypes, Confirmable, TrafficTypes, LinkTypes, Caused,
     Holding!vars, Holding!screen, Holding!link, Holding!traffic
<1>2. CASE Holding!UserStep
  BY <1>2, ClickStep, RefreshSet, RowAdded, RowEdited, RowConfirmed DEF Holding!UserStep
<1>3. CASE Holding!LinkStep
  BY <1>3, LinkEnds, AttemptAnswered, SlaveStep, WriteRefused, AnswerShown DEF Holding!LinkStep
<1> QED
  BY <1>1, <1>2, <1>3 DEF Holding!Next

\* Through any closing and opening in the middle of an edit, and whatever the slave
\* answers, what can be typed in a row can be confirmed or taken back; a connection the
\* button did not ask for comes only of a confirmed text; and the settings are locked only
\* for a link the window shows (TtModbusTableWidget: setupRow, setEnable; ModbusWindow:
\* setControlState; ModbusMaster::writeHoldingData).
THEOREM EditsEndAlways == TablesSpec => []EditsEnd
<1>1. Holding!Init => HoldingInvariant
  <2> SUFFICES ASSUME Holding!Init PROVE HoldingInvariant
    OBVIOUS
  <2>1. holding = <<>> /\ asked = <<>> /\ told = <<>> /\ given = <<>>
    BY DEF Holding!Init
  <2>2. RowTypes /\ Confirmable
    BY <2>1 DEF RowTypes, Confirmable
  <2>3. TrafficTypes
    BY <2>1, Bounds DEF Holding!Init, TrafficTypes
  <2>4. LinkTypes /\ Caused
    BY Bounds DEF Holding!Init, LinkTypes, Caused
  <2> QED
    BY <2>2, <2>3, <2>4 DEF HoldingInvariant
<1>2. HoldingInvariant /\ [Holding!Next]_Holding!vars => HoldingInvariant'
  BY HoldingInvariantStep
<1>3. HoldingInvariant => EditsEnd
  <2> SUFFICES ASSUME HoldingInvariant PROVE EditsEnd
    OBVIOUS
  <2>1. Holding!TypeOK
    BY Bounds DEF HoldingInvariant, RowTypes, RegisterRows, Texts, TrafficTypes, LinkTypes,
       Holding!TypeOK
  <2> QED
    BY <2>1 DEF HoldingInvariant, Confirmable, Caused, EditsEnd, Holding!EditsEnd
<1> QED
  BY <1>1, <1>2, <1>3, HoldingApart, PTL DEF Holding!Spec

-----------------------------------------------------------------------------
(* Loops: the rounds a recursive function of the model has *)

\* Numbers have a least.
LEMMA LeastNat ==
    ASSUME NEW S \in SUBSET Nat, S # {}
    PROVE  \E n \in S : \A m \in S : n <= m
<1> DEFINE R == {ss \in Nat \X Nat : ss[1] < ss[2]}
<1>1. IsWellFoundedOn(R, Nat)
  <2>1. R = OpToRel(<, Nat)
    BY Zenon DEF OpToRel
  <2> QED
    BY <2>1, NatLessThanWellFounded
<1>2. \A m, n \in Nat : m < n => <<m, n>> \in R
  OBVIOUS
<1> HIDE DEF R
<1>3. PICK n \in S : \A m \in S : <<m, n>> \notin R
  BY <1>1, WFMin, Zenon
<1>4. \A m \in S : ~(m < n)
  BY <1>2, <1>3
<1> QED
  BY <1>4

\* Induction: a set with 0, and with the successor of each of its numbers, has all.
LEMMA EveryNat ==
    ASSUME NEW S, 0 \in S, \A n \in Nat : n \in S => n + 1 \in S
    PROVE  \A n \in Nat : n \in S
<1> SUFFICES ASSUME Nat \ S # {} PROVE FALSE
  OBVIOUS
<1>1. PICK n \in Nat \ S : \A m \in Nat \ S : n <= m
  BY LeastNat, Nat \ S \in SUBSET Nat
<1>2. n - 1 \in Nat /\ n - 1 \notin Nat \ S
  BY <1>1
<1> QED
  BY <1>1, <1>2, n - 1 + 1 = n

\* What each round of a loop keeps holds after any number of them.
LEMMA EveryRound ==
    ASSUME NEW N \in Nat, NEW V, NEW g, g[0] \in V[0],
           \A i \in 1..N : g[i - 1] \in V[i - 1] => g[i] \in V[i]
    PROVE  \A i \in 0..N : g[i] \in V[i]
<1> DEFINE S == {n \in Nat : n <= N => g[n] \in V[n]}
<1>1. 0 \in S
  OBVIOUS
<1>2. ASSUME NEW n \in Nat, n \in S PROVE n + 1 \in S
  <2> SUFFICES ASSUME n + 1 <= N PROVE g[n + 1] \in V[n + 1]
    OBVIOUS
  <2>1. n + 1 \in 1..N /\ n + 1 - 1 = n /\ g[n] \in V[n]
    BY <1>2
  <2> QED
    BY <2>1
<1> HIDE DEF S
<1>3. \A n \in Nat : n \in S
  BY <1>1, <1>2, EveryNat
<1> QED
  BY <1>3 DEF S

\* f has what a loop comes to after each of its rounds.
Loop(f, N, base, step) ==
    f = [i \in 0..N |-> IF i = 0 THEN base ELSE step[<<f[i - 1], i>>]]

\* There is such a function.
LEMMA RoundsAre ==
    ASSUME NEW N \in Nat, NEW base, NEW step
    PROVE  \E f : Loop(f, N, base, step)
<1> DEFINE Good(f, n) == /\ DOMAIN f = 0..n /\ f[0] = base
                         /\ \A i \in 1..n : f[i] = step[<<f[i - 1], i>>]
           S == {n \in Nat : \E f : Good(f, n)}
<1>1. 0 \in S
  <2> DEFINE f == [i \in 0..0 |-> base]
  <2>1. Good(f, 0)
    OBVIOUS
  <2> QED
    BY <2>1
<1>2. ASSUME NEW n \in Nat, n \in S PROVE n + 1 \in S
  <2>1. PICK f : Good(f, n)
    BY <1>2
  <2> DEFINE v == step[<<f[n], n + 1>>]
             g == [i \in 0..n + 1 |-> IF i = n + 1 THEN v ELSE f[i]]
  <2>2. DOMAIN g = 0..n + 1 /\ g[n + 1] = v /\ \A i \in 0..n : g[i] = f[i]
    <3> HIDE DEF v
    <3> QED
      OBVIOUS
  <2> HIDE DEF g
  <2>3. ASSUME NEW i \in 1..n + 1 PROVE g[i] = step[<<g[i - 1], i>>]
    <3>1. i - 1 \in 0..n
      OBVIOUS
    <3>2. CASE i = n + 1
      BY <2>2, <3>1, <3>2
    <3>3. CASE i # n + 1
      <4>1. i \in 0..n /\ i \in 1..n
        BY <3>3
      <4> QED
        BY <2>1, <2>2, <3>1, <4>1
    <3> QED
      BY <3>2, <3>3
  <2>4. g[0] = base
    BY <2>1, <2>2
  <2>5. Good(g, n + 1)
    BY <2>2, <2>3, <2>4
  <2> HIDE DEF Good
  <2> QED
    BY <2>5
<1>3. N \in S
  <2> HIDE DEF S
  <2> QED
    BY <1>1, <1>2, EveryNat
<1>4. PICK f : Good(f, N)
  BY <1>3
<1> DEFINE g == [i \in 0..N |-> f[i]]
           h == [i \in 0..N |-> IF i = 0 THEN base ELSE step[<<g[i - 1], i>>]]
<1>5. \A i \in 0..N : g[i] = h[i]
  <2> TAKE i \in 0..N
  <2>1. CASE i = 0
    BY <1>4, <2>1
  <2>2. CASE i # 0
    <3>1. i \in 1..N /\ i - 1 \in 0..N
      BY <2>2
    <3>2. g[i - 1] = f[i - 1] /\ g[i] = f[i]
      BY <3>1
    <3> HIDE DEF g
    <3> QED
      BY <1>4, <2>2, <3>1, <3>2
  <2> QED
    BY <2>1, <2>2
<1>6. g = [i \in 0..N |-> g[i]] /\ h = [i \in 0..N |-> h[i]]
  OBVIOUS
<1> HIDE DEF g
<1>7. g = h
  <2> HIDE DEF h
  <2> QED
    BY <1>5, <1>6
<1> QED
  BY <1>7 DEF Loop

-----------------------------------------------------------------------------
(* The addresses in order *)

\* A place comes before another: a smaller number, or the same and the first place.
Before(a, i, j) == a[i] < a[j] \/ (a[i] = a[j] /\ i < j)

\* p puts the first n of some numbers in order.
Orders(p, a, n) ==
    /\ p \in [1..n -> 1..n]
    /\ \A i, j \in 1..n : i < j => Before(a, p[i], p[j])
    /\ \A i \in 1..n : \E j \in 1..n : p[j] = i

\* One more number finds its place among those in order.
LEMMA OneInserted ==
    ASSUME NEW n \in Nat, NEW a, \A i \in 1..(n + 1) : a[i] \in Nat, NEW p, Orders(p, a, n)
    PROVE  \E q : Orders(q, a, n + 1)
<1> DEFINE K == {i \in 1..n : a[p[i]] > a[n + 1]} \cup {n + 1}
<1>1. PICK k \in K : \A i \in K : k <= i
  <2>1. K \in SUBSET Nat /\ K # {}
    OBVIOUS
  <2> HIDE DEF K
  <2> QED
    BY <2>1, LeastNat
<1>2. /\ p \in [1..n -> 1..n] /\ \A i \in 1..n : p[i] \in 1..n
      /\ \A i, j \in 1..n : i < j => Before(a, p[i], p[j])
      /\ \A i \in 1..n : \E j \in 1..n : p[j] = i
  BY DEF Orders
<1>3. k \in 1..(n + 1) /\ a[n + 1] \in Nat
  BY <1>1
<1>4. \A i \in 1..n : a[p[i]] \in Nat
  <2> TAKE i \in 1..n
  <2>1. p[i] \in 1..(n + 1)
    BY <1>2
  <2> QED
    BY <2>1
<1>5. \A i, j \in 1..n : i < j => a[p[i]] <= a[p[j]]
  <2> SUFFICES ASSUME NEW i \in 1..n, NEW j \in 1..n, i < j PROVE a[p[i]] <= a[p[j]]
    OBVIOUS
  <2>1. a[p[i]] \in Nat /\ a[p[j]] \in Nat
    BY <1>4
  <2>2. a[p[i]] < a[p[j]] \/ a[p[i]] = a[p[j]]
    BY <1>2 DEF Before
  <2> QED
    BY <2>1, <2>2
<1>6. \A i \in 1..n : i < k => Before(a, p[i], n + 1)
  <2> SUFFICES ASSUME NEW i \in 1..n, i < k PROVE Before(a, p[i], n + 1)
    OBVIOUS
  <2>1. i \notin K
    <3> HIDE DEF K
    <3>1. ~(k <= i)
      BY <1>3
    <3> QED
      BY <1>1, <3>1
  <2>2. a[p[i]] \in Nat /\ p[i] \in 1..n /\ ~(a[p[i]] > a[n + 1])
    BY <1>2, <1>4, <2>1
  <2>3. a[p[i]] < a[n + 1] \/ a[p[i]] = a[n + 1]
    BY <1>3, <2>2
  <2>4. p[i] < n + 1
    BY <2>2
  <2> QED
    BY <2>3, <2>4 DEF Before
<1>7. \A i \in 1..n : i >= k => Before(a, n + 1, p[i])
  <2> SUFFICES ASSUME NEW i \in 1..n, i >= k PROVE Before(a, n + 1, p[i])
    OBVIOUS
  <2>1. k \in 1..n /\ a[p[k]] > a[n + 1]
    BY <1>1, <1>3
  <2>2. a[p[k]] <= a[p[i]]
    <3>1. CASE i = k
      BY <1>4, <2>1, <3>1
    <3>2. CASE k < i
      BY <1>5, <2>1, <3>2
    <3> QED
      BY <1>3, <3>1, <3>2
  <2>3. a[p[k]] \in Nat /\ a[p[i]] \in Nat
    BY <1>4, <2>1
  <2>4. a[n + 1] < a[p[i]]
    BY <1>3, <2>1, <2>2, <2>3
  <2> QED
    BY <2>4 DEF Before
<1> HIDE DEF K
<1> DEFINE q == [i \in 1..(n + 1) |-> IF i < k THEN p[i] ELSE IF i = k THEN n + 1 ELSE p[i - 1]]
<1>8. /\ \A i \in 1..(n + 1) : i < k => i \in 1..n /\ q[i] = p[i]
      /\ q[k] = n + 1
      /\ \A i \in 1..(n + 1) : i > k => i - 1 \in 1..n /\ q[i] = p[i - 1]
  BY <1>3
<1>9. q \in [1..(n + 1) -> 1..(n + 1)]
  <2>1. \A i \in 1..(n + 1) : q[i] \in 1..(n + 1)
    <3> TAKE i \in 1..(n + 1)
    <3> HIDE DEF q
    <3>1. i < k \/ i = k \/ i > k
      BY <1>3
    <3>2. CASE i < k
      <4>1. q[i] = p[i] /\ p[i] \in 1..n
        BY <1>2, <1>8, <3>2
      <4> QED
        BY <4>1
    <3>3. CASE i = k
      BY <1>8, <3>3
    <3>4. CASE i > k
      <4>1. q[i] = p[i - 1] /\ p[i - 1] \in 1..n
        BY <1>2, <1>8, <3>4
      <4> QED
        BY <4>1
    <3> QED
      BY <3>1, <3>2, <3>3, <3>4
  <2>2. q = [i \in 1..(n + 1) |-> q[i]]
    OBVIOUS
  <2> HIDE DEF q
  <2> QED
    BY <2>1, <2>2
<1> HIDE DEF q
<1>10. ASSUME NEW i \in 1..(n + 1), NEW j \in 1..(n + 1), i < j
       PROVE  Before(a, q[i], q[j])
  <2>1. CASE j < k
    <3>1. i < k
      BY <1>3, <1>10, <2>1
    <3>2. q[i] = p[i] /\ q[j] = p[j] /\ i \in 1..n /\ j \in 1..n
      BY <1>8, <2>1, <3>1
    <3> QED
      BY <1>2, <1>10, <3>2
  <2>2. CASE j = k
    <3>1. i \in 1..n /\ q[i] = p[i] /\ q[j] = n + 1 /\ i < k
      BY <1>8, <1>10, <2>2
    <3> QED
      BY <1>6, <3>1
  <2>3. CASE j > k
    <3>1. j - 1 \in 1..n /\ q[j] = p[j - 1] /\ j - 1 >= k
      BY <1>3, <1>8, <2>3
    <3>2. CASE i < k
      <4>1. i \in 1..n /\ q[i] = p[i] /\ i < j - 1
        BY <1>3, <1>8, <3>1, <3>2
      <4> QED
        BY <1>2, <3>1, <4>1
    <3>3. CASE i = k
      <4>1. q[i] = n + 1
        BY <1>8, <3>3
      <4> QED
        BY <1>7, <3>1, <4>1
    <3>4. CASE i > k
      <4>1. i - 1 \in 1..n /\ q[i] = p[i - 1] /\ i - 1 < j - 1
        BY <1>8, <1>10, <3>4
      <4> QED
        BY <1>2, <3>1, <4>1
    <3> QED
      BY <1>3, <3>2, <3>3, <3>4
  <2> QED
    BY <1>3, <2>1, <2>2, <2>3
<1>11. ASSUME NEW i \in 1..(n + 1) PROVE \E j \in 1..(n + 1) : q[j] = i
  <2>1. CASE i = n + 1
    BY <1>3, <1>8, <2>1
  <2>2. CASE i \in 1..n
    <3>1. PICK j \in 1..n : p[j] = i
      BY <1>2, <2>2
    <3>2. CASE j < k
      <4>1. j \in 1..(n + 1) /\ q[j] = p[j]
        BY <1>8, <3>2
      <4> QED
        BY <3>1, <4>1
    <3>3. CASE j >= k
      <4>1. j + 1 \in 1..(n + 1) /\ j + 1 > k /\ (j + 1) - 1 = j
        BY <1>3, <3>3
      <4>2. q[j + 1] = p[(j + 1) - 1]
        BY <1>8, <4>1
      <4> QED
        BY <3>1, <4>1, <4>2
    <3> QED
      BY <1>3, <3>2, <3>3
  <2> QED
    BY <2>1, <2>2
<1>12. Orders(q, a, n + 1)
  BY <1>9, <1>10, <1>11 DEF Orders
<1> QED
  BY <1>12

\* Any numbers can be put in order.
LEMMA OrderThere ==
    ASSUME NEW n \in Nat, NEW a, \A i \in 1..n : a[i] \in Nat
    PROVE  \E p : Orders(p, a, n)
<1> DEFINE S == {m \in Nat : m <= n => \E p : Orders(p, a, m)}
<1>1. 0 \in S
  <2>1. Orders([i \in 1..0 |-> i], a, 0)
    BY DEF Orders
  <2> QED
    BY <2>1
<1>2. ASSUME NEW m \in Nat, m \in S PROVE m + 1 \in S
  <2> SUFFICES ASSUME m + 1 <= n PROVE \E p : Orders(p, a, m + 1)
    OBVIOUS
  <2>1. PICK p : Orders(p, a, m)
    BY <1>2
  <2>2. \A i \in 1..(m + 1) : a[i] \in Nat
    OBVIOUS
  <2> QED
    BY <2>1, <2>2, OneInserted
<1> HIDE DEF S
<1>3. n \in S
  BY <1>1, <1>2, EveryNat
<1> QED
  BY <1>3 DEF S

\* Sorted.
Ascending(s) == \A i, j \in 1..Len(s) : i < j => s[i] <= s[j]

\* sortedAddrs has the addresses in ascending order, and just those.
LEMMA SortedIs ==
    ASSUME NEW a \in Seq(Nat)
    PROVE  /\ Sorted(a) \in Seq(Nat) /\ Len(Sorted(a)) = Len(a)
           /\ Ascending(Sorted(a))
           /\ ToSet(Sorted(a)) = ToSet(a)
           /\ IsInjective(a) => IsInjective(Sorted(a))
<1> DEFINE n == Len(a)
           places == DOMAIN a
           OK(p) == /\ \A i, j \in places : i < j => Before(a, p[i], p[j])
                    /\ Range(p) = places
           from == CHOOSE p \in [places -> places] : OK(p)
           s == Sorted(a)
<1>1. n \in Nat /\ places = 1..n /\ a \in [1..n -> Nat] /\ \A i \in 1..n : a[i] \in Nat
  OBVIOUS
<1>2. \E p \in [places -> places] : OK(p)
  <2>1. PICK p : Orders(p, a, n)
    BY <1>1, OrderThere
  <2>2. p \in [places -> places] /\ \A i, j \in places : i < j => Before(a, p[i], p[j])
    BY <1>1, <2>1 DEF Orders
  <2>3. Range(p) = places
    BY <1>1, <2>1 DEF Orders, Range
  <2> QED
    BY <2>2, <2>3
<1>3. from \in [places -> places] /\ OK(from)
  <2> HIDE DEF OK
  <2> QED
    BY <1>2
<1>4. s = [i \in 1..n |-> a[from[i]]]
  BY <1>1 DEF Sorted, Before
<1> HIDE DEF from, s
<1>5. \A i \in 1..n : from[i] \in 1..n /\ s[i] = a[from[i]]
  BY <1>1, <1>3, <1>4
<1>6. s \in [1..n -> Nat] /\ s \in Seq(Nat) /\ Len(s) = n /\ DOMAIN s = 1..n
  <2>1. s \in [1..n -> Nat]
    BY <1>1, <1>4, <1>5
  <2> HIDE DEF n
  <2> QED
    BY <1>1, <2>1
<1>7. \A i, j \in 1..n : i < j => s[i] <= s[j] /\ from[i] # from[j]
  <2> SUFFICES ASSUME NEW i \in 1..n, NEW j \in 1..n, i < j
               PROVE  s[i] <= s[j] /\ from[i] # from[j]
    OBVIOUS
  <2> HIDE DEF n
  <2>1. Before(a, from[i], from[j])
    BY <1>1, <1>3
  <2>2. /\ a[from[i]] \in Nat /\ a[from[j]] \in Nat /\ from[i] \in Nat /\ from[j] \in Nat
        /\ s[i] = a[from[i]] /\ s[j] = a[from[j]]
    BY <1>1, <1>5
  <2>3. a[from[i]] < a[from[j]] \/ (a[from[i]] = a[from[j]] /\ from[i] < from[j])
    BY <2>1 DEF Before
  <2> QED
    BY <2>2, <2>3
<1>8. Ascending(s)
  BY <1>6, <1>7 DEF Ascending
<1>9. ToSet(s) = ToSet(a)
  <2>1. \A i \in 1..n : \E j \in 1..n : from[j] = i
    BY <1>1, <1>3 DEF Range
  <2>2. \A x : x \in ToSet(s) <=> \E i \in 1..n : s[i] = x
    BY <1>6 DEF ToSet
  <2>3. \A x : x \in ToSet(a) <=> \E i \in 1..n : a[i] = x
    BY <1>1 DEF ToSet
  <2> HIDE DEF n
  <2>4. ASSUME NEW x, x \in ToSet(s) PROVE x \in ToSet(a)
    <3>1. PICK i \in 1..n : s[i] = x
      BY <2>2, <2>4
    <3>2. from[i] \in 1..n /\ a[from[i]] = x
      BY <1>5, <3>1
    <3> QED
      BY <2>3, <3>2
  <2>5. ASSUME NEW x, x \in ToSet(a) PROVE x \in ToSet(s)
    <3>1. PICK i \in 1..n : a[i] = x
      BY <2>3, <2>5
    <3>2. PICK j \in 1..n : from[j] = i
      BY <2>1
    <3>3. s[j] = x
      BY <1>5, <3>1, <3>2
    <3> QED
      BY <2>2, <3>3
  <2> QED
    BY <2>4, <2>5
<1>10. ASSUME IsInjective(a) PROVE IsInjective(s)
  <2> SUFFICES ASSUME NEW i \in 1..n, NEW j \in 1..n, s[i] = s[j] PROVE i = j
    BY <1>6 DEF IsInjective
  <2>1. from[i] = from[j]
    BY <1>1, <1>5, <1>10 DEF IsInjective
  <2> QED
    BY <1>1, <1>7, <2>1
<1> QED
  BY <1>6, <1>8, <1>9, <1>10 DEF s

-----------------------------------------------------------------------------
(* The ranges of readCoilsData *)

\* What one round makes of the ranges: the last is one longer, or there is one more.
LEMMA ExtendedIs ==
    ASSUME NEW R \in Seq(ARange), NEW addr \in Nat
    PROVE  LET L == Len(R)
               E == Extended[R][addr]
           IN  /\ E \in Seq(ARange)
               /\ \/ /\ L >= 1 /\ addr = R[L].start + R[L].count
                     /\ Len(E) = L /\ \A j \in 1..L : j # L => E[j] = R[j]
                     /\ E[L].start = R[L].start /\ E[L].count = R[L].count + 1
                  \/ /\ L >= 1 => addr # R[L].start + R[L].count
                     /\ Len(E) = L + 1 /\ \A j \in 1..L : E[j] = R[j]
                     /\ E[L + 1].start = addr /\ E[L + 1].count = 1
<1> DEFINE L == Len(R)
           E == Extended[R][addr]
           longer == [R EXCEPT ![L].count = @ + 1]
           new == [start |-> addr, count |-> 1]
<1>1. L \in Nat /\ \A j \in 1..L : R[j] \in ARange
  OBVIOUS
<1>2. E = IF R # <<>> /\ Continues(R[L], addr) THEN longer ELSE Append(R, new)
  BY DEF Extended, ARange
<1>3. CASE L >= 1 /\ addr = R[L].start + R[L].count
  <2> DEFINE e == [R[L] EXCEPT !.count = @ + 1]
  <2>1. R # <<>>
    <3>1. Len(R) # 0 /\ Len(<<>>) = 0
      BY <1>1, <1>3
    <3> QED
      BY <3>1, Zenon
  <2>2. E = longer
    BY <1>2, <1>3, <2>1 DEF Continues
  <2>3. longer = [R EXCEPT ![L] = e]
    BY <1>1, <1>3
  <2>4. L \in 1..L /\ e \in ARange /\ e.start = R[L].start /\ e.count = R[L].count + 1
    BY <1>1, <1>3 DEF ARange
  <2> HIDE DEF e, E, longer
  <2>5. E = [R EXCEPT ![L] = e]
    BY <2>2, <2>3
  <2>6. E \in Seq(ARange) /\ Len(E) = L /\ E[L] = e /\ \A j \in 1..L : j # L => E[j] = R[j]
    BY <1>1, <2>4, <2>5
  <2>7. E[L].start = R[L].start /\ E[L].count = R[L].count + 1
    BY <2>4, <2>6
  <2> QED
    BY <1>3, <2>6, <2>7 DEF E
<1>4. CASE ~(L >= 1 /\ addr = R[L].start + R[L].count)
  <2>1. E = Append(R, new)
    <3>1. CASE R = <<>>
      BY <1>2, <3>1
    <3>2. CASE R # <<>>
      <4>1. L >= 1
        BY <1>1, <3>2, EmptySeq
      <4> QED
        BY <1>2, <1>4, <4>1 DEF Continues
    <3> QED
      BY <3>1, <3>2
  <2>2. new \in ARange /\ new.start = addr /\ new.count = 1
    BY DEF ARange
  <2> HIDE DEF new, E
  <2>3. E \in Seq(ARange) /\ Len(E) = L + 1 /\ E[L + 1] = new /\ \A j \in 1..L : E[j] = R[j]
    BY <1>1, <2>1, <2>2, AppendProperties
  <2>4. E[L + 1].start = addr /\ E[L + 1].count = 1
    BY <2>2, <2>3
  <2>5. L >= 1 => addr # R[L].start + R[L].count
    BY <1>4
  <2> QED
    BY <2>3, <2>4, <2>5 DEF E
<1> QED
  BY <1>3, <1>4

\* After k rounds: the ranges are no more than the rounds, and they cover the numbers
\* looked at, the last of which is the last one's end.
Covering(R, s, k) ==
    /\ R \in Seq(ARange) /\ Len(R) <= k
    /\ \A j \in 1..Len(R) : R[j].count \in 1..k
    /\ \A j \in 1..Len(R) : \A x \in Covered(R[j]) : \E i \in 1..k : s[i] = x
    /\ \A i \in 1..k : \E j \in 1..Len(R) : s[i] \in Covered(R[j])
    /\ k >= 1 => Len(R) >= 1 /\ R[Len(R)].start + R[Len(R)].count = s[k] + 1

\* A round covers one number more.
LEMMA CoveringKept ==
    ASSUME NEW s \in Seq(Nat), NEW k \in Nat, k < Len(s), NEW R, Covering(R, s, k)
    PROVE  Covering(Extended[R][s[k + 1]], s, k + 1)
<1> DEFINE L == Len(R)
           a == s[k + 1]
           E == Extended[R][a]
<1> SUFFICES Covering(E, s, k + 1)
  OBVIOUS
<1>1. /\ R \in Seq(ARange) /\ L \in Nat /\ L <= k /\ k + 1 \in 1..Len(s) /\ a \in Nat
      /\ \A j \in 1..L : R[j] \in ARange /\ R[j].count \in 1..k
  BY DEF Covering
<1>2. \A j \in 1..L : R[j].start \in Nat /\ R[j].count \in Nat /\ R[j].count >= 1
  BY <1>1 DEF ARange
<1>3. /\ E \in Seq(ARange)
      /\ \/ /\ L >= 1 /\ a = R[L].start + R[L].count
            /\ Len(E) = L /\ \A j \in 1..L : j # L => E[j] = R[j]
            /\ E[L].start = R[L].start /\ E[L].count = R[L].count + 1
         \/ /\ L >= 1 => a # R[L].start + R[L].count
            /\ Len(E) = L + 1 /\ \A j \in 1..L : E[j] = R[j]
            /\ E[L + 1].start = a /\ E[L + 1].count = 1
  <2> HIDE DEF a
  <2> QED
    BY <1>1, ExtendedIs
<1>4. /\ \A j \in 1..L : \A x \in Covered(R[j]) : \E i \in 1..k : s[i] = x
      /\ \A i \in 1..k : \E j \in 1..L : s[i] \in Covered(R[j])
  BY DEF Covering
<1>5. \A j \in 1..L : \A x \in Covered(R[j]) : \E i \in 1..(k + 1) : s[i] = x
  <2> TAKE j \in 1..L
  <2> TAKE x \in Covered(R[j])
  <2>1. PICK i \in 1..k : s[i] = x
    BY <1>4
  <2>2. i \in 1..(k + 1)
    OBVIOUS
  <2> QED
    BY <2>1, <2>2
<1>6. k + 1 \in 1..(k + 1) /\ s[k + 1] = a
  OBVIOUS
<1> HIDE DEF a, E, L
<1>7. CASE /\ L >= 1 /\ a = R[L].start + R[L].count
           /\ Len(E) = L /\ \A j \in 1..L : j # L => E[j] = R[j]
           /\ E[L].start = R[L].start /\ E[L].count = R[L].count + 1
  <2>1. L \in 1..L /\ Covered(E[L]) = Covered(R[L]) \cup {a} /\ E[L].count \in 1..(k + 1)
    <3>1. L \in 1..L
      BY <1>1, <1>7
    <3>2. PICK b \in Nat, c \in Nat : R[L].start = b /\ R[L].count = c /\ c \in 1..k
      BY <1>1, <1>2, <3>1
    <3>3. a = b + c /\ E[L].start = b /\ E[L].count = c + 1
      BY <1>7, <3>2
    <3>4. b..(b + (c + 1) - 1) = (b..(b + c - 1)) \cup {b + c}
      BY <3>2
    <3>5. Covered(E[L]) = Covered(R[L]) \cup {a}
      BY <3>2, <3>3, <3>4 DEF Covered
    <3> QED
      BY <3>1, <3>2, <3>3, <3>5
  <2>2. \A j \in 1..L : E[j].count \in 1..(k + 1)
    <3> TAKE j \in 1..L
    <3>1. CASE j = L
      BY <2>1, <3>1
    <3>2. CASE j # L
      <4>1. E[j] = R[j]
        BY <1>7, <3>2
      <4>2. R[j].count \in 1..k
        BY <1>1
      <4> QED
        BY <4>1, <4>2
    <3> QED
      BY <3>1, <3>2
  <2>3. ASSUME NEW j \in 1..L, NEW x \in Covered(E[j]) PROVE \E i \in 1..(k + 1) : s[i] = x
    <3>1. CASE x = a
      BY <1>6, <3>1
    <3>2. CASE x # a
      <4>1. x \in Covered(R[j])
        BY <1>7, <2>1, <2>3, <3>2
      <4> QED
        BY <1>5, <4>1
    <3> QED
      BY <3>1, <3>2
  <2>4. ASSUME NEW i \in 1..(k + 1) PROVE \E j \in 1..L : s[i] \in Covered(E[j])
    <3>1. CASE i = k + 1
      BY <1>6, <2>1, <3>1
    <3>2. CASE i # k + 1
      <4>1. i \in 1..k
        BY <3>2
      <4>2. PICK j \in 1..L : s[i] \in Covered(R[j])
        BY <1>4, <4>1
      <4>3. s[i] \in Covered(E[j])
        BY <1>7, <2>1, <4>2
      <4> QED
        BY <4>3
    <3> QED
      BY <3>1, <3>2
  <2>5. Len(E) >= 1 /\ E[Len(E)].start + E[Len(E)].count = s[k + 1] + 1
    <3>1. PICK b \in Nat, c \in Nat : R[L].start = b /\ R[L].count = c
      BY <1>2, <2>1
    <3>2. a = b + c /\ E[L].start = b /\ E[L].count = c + 1 /\ Len(E) = L /\ L >= 1
      BY <1>7, <3>1
    <3> QED
      BY <1>6, <3>1, <3>2
  <2>6. Len(E) <= k + 1
    BY <1>1, <1>7
  <2>7. Len(E) = L
    BY <1>7
  <2>8. /\ \A j \in 1..Len(E) : E[j].count \in 1..(k + 1)
        /\ \A j \in 1..Len(E) : \A x \in Covered(E[j]) : \E i \in 1..(k + 1) : s[i] = x
        /\ \A i \in 1..(k + 1) : \E j \in 1..Len(E) : s[i] \in Covered(E[j])
    BY <2>2, <2>3, <2>4, <2>7, Zenon
  <2> QED
    BY <1>3, <2>5, <2>6, <2>8, Zenon DEF Covering
<1>8. CASE /\ L >= 1 => a # R[L].start + R[L].count
           /\ Len(E) = L + 1 /\ \A j \in 1..L : E[j] = R[j]
           /\ E[L + 1].start = a /\ E[L + 1].count = 1
  <2>1. Covered(E[L + 1]) = {a} /\ E[L + 1].count \in 1..(k + 1) /\ L + 1 \in 1..(L + 1)
    BY <1>1, <1>8 DEF Covered
  <2>2. \A j \in 1..(L + 1) : j = L + 1 \/ j \in 1..L
    BY <1>1
  <2>3. \A j \in 1..(L + 1) : E[j].count \in 1..(k + 1)
    <3> TAKE j \in 1..(L + 1)
    <3>1. CASE j = L + 1
      BY <2>1, <3>1
    <3>2. CASE j \in 1..L
      <4>1. E[j] = R[j]
        BY <1>8, <3>2
      <4>2. R[j].count \in 1..k
        BY <1>1, <3>2
      <4> QED
        BY <4>1, <4>2
    <3> QED
      BY <2>2, <3>1, <3>2
  <2>4. ASSUME NEW j \in 1..(L + 1), NEW x \in Covered(E[j])
        PROVE  \E i \in 1..(k + 1) : s[i] = x
    <3>1. CASE j = L + 1
      BY <1>6, <2>1, <2>4, <3>1
    <3>2. CASE j \in 1..L
      BY <1>5, <1>8, <2>4, <3>2
    <3> QED
      BY <2>2, <3>1, <3>2
  <2>5. ASSUME NEW i \in 1..(k + 1) PROVE \E j \in 1..(L + 1) : s[i] \in Covered(E[j])
    <3>1. CASE i = k + 1
      BY <1>6, <2>1, <3>1
    <3>2. CASE i # k + 1
      <4>1. i \in 1..k
        BY <3>2
      <4>2. PICK j \in 1..L : s[i] \in Covered(R[j])
        BY <1>4, <4>1
      <4>3. j \in 1..(L + 1) /\ s[i] \in Covered(E[j])
        BY <1>1, <1>8, <4>2
      <4> QED
        BY <4>3
    <3> QED
      BY <3>1, <3>2
  <2>6. Len(E) >= 1 /\ E[Len(E)].start + E[Len(E)].count = s[k + 1] + 1
    BY <1>1, <1>6, <1>8
  <2>7. Len(E) <= k + 1
    BY <1>1, <1>8
  <2>8. Len(E) = L + 1
    BY <1>8
  <2>9. /\ \A j \in 1..Len(E) : E[j].count \in 1..(k + 1)
        /\ \A j \in 1..Len(E) : \A x \in Covered(E[j]) : \E i \in 1..(k + 1) : s[i] = x
        /\ \A i \in 1..(k + 1) : \E j \in 1..Len(E) : s[i] \in Covered(E[j])
    BY <2>3, <2>4, <2>5, <2>8, Zenon
  <2> QED
    BY <1>3, <2>6, <2>7, <2>9, Zenon DEF Covering
<1> QED
  BY <1>3, <1>7, <1>8, Zenon

\* No range ends, or starts, next to a number that was looked at.
Maximal(R, s, k) ==
    /\ \A j \in 1..Len(R) : \A i \in 1..k :
          s[i] # R[j].start - 1 /\ s[i] # R[j].start + R[j].count
    /\ \A j \in 1..Len(R) : j # Len(R) => R[j].start + R[j].count <= s[k]

\* A round keeps the ranges apart, if no number is there twice.
LEMMA MaximalKept ==
    ASSUME NEW s \in Seq(Nat), Ascending(s), IsInjective(s), NEW k \in Nat, k < Len(s),
           NEW R, Covering(R, s, k), Maximal(R, s, k)
    PROVE  Maximal(Extended[R][s[k + 1]], s, k + 1)
<1> DEFINE L == Len(R)
           a == s[k + 1]
           E == Extended[R][a]
           N == Len(s)
<1> SUFFICES Maximal(E, s, k + 1)
  OBVIOUS
<1>1. /\ R \in Seq(ARange) /\ L \in Nat /\ L <= k /\ k + 1 \in 1..N /\ a \in Nat
      /\ \A j \in 1..L : R[j] \in ARange /\ R[j].count \in 1..k
      /\ N \in Nat /\ \A i \in 1..N : s[i] \in Nat
  BY DEF Covering
<1>2. \A j \in 1..L : R[j].start \in Nat /\ R[j].count \in Nat /\ R[j].count >= 1
  BY <1>1 DEF ARange
<1>3. /\ E \in Seq(ARange)
      /\ \/ /\ L >= 1 /\ a = R[L].start + R[L].count
            /\ Len(E) = L /\ \A j \in 1..L : j # L => E[j] = R[j]
            /\ E[L].start = R[L].start /\ E[L].count = R[L].count + 1
         \/ /\ L >= 1 => a # R[L].start + R[L].count
            /\ Len(E) = L + 1 /\ \A j \in 1..L : E[j] = R[j]
            /\ E[L + 1].start = a /\ E[L + 1].count = 1
  <2> HIDE DEF a
  <2> QED
    BY <1>1, ExtendedIs
<1>4. \A i \in 1..k : i \in 1..N /\ s[i] \in Nat /\ s[i] < a
  <2> SUFFICES ASSUME NEW i \in 1..k PROVE i \in 1..N /\ s[i] \in Nat /\ s[i] < a
    OBVIOUS
  <2>1. i \in 1..N /\ i < k + 1 /\ DOMAIN s = 1..N
    BY <1>1
  <2>2. s[i] <= a /\ s[i] # a
    BY <1>1, <2>1 DEF Ascending, IsInjective
  <2> QED
    BY <1>1, <2>1, <2>2
<1>5. k >= 1 => s[k] \in Nat /\ s[k] < a /\ L >= 1 /\ R[L].start + R[L].count = s[k] + 1
  BY <1>4 DEF Covering
<1>6. \A i \in 1..k : s[i] <= s[k]
  <2> SUFFICES ASSUME NEW i \in 1..k PROVE s[i] <= s[k]
    OBVIOUS
  <2>1. i \in 1..N /\ k \in 1..N /\ s[k] \in Nat
    BY <1>1
  <2> QED
    BY <2>1 DEF Ascending
<1>7. \A j \in 1..L : R[j].start < a
  <2> TAKE j \in 1..L
  <2>1. R[j].start \in Covered(R[j])
    BY <1>2 DEF Covered
  <2>2. PICK i \in 1..k : s[i] = R[j].start
    BY <2>1 DEF Covering
  <2> QED
    BY <1>4, <2>2
<1>8. /\ \A j \in 1..L : \A i \in 1..k :
            s[i] # R[j].start - 1 /\ s[i] # R[j].start + R[j].count
      /\ \A j \in 1..L : j # L => R[j].start + R[j].count <= s[k]
  BY DEF Maximal
<1>9. \A i \in 1..(k + 1) : i = k + 1 \/ i \in 1..k
  OBVIOUS
<1>10. s[k + 1] = a /\ \A j \in 1..L : k \in 1..k
  BY <1>1
<1> HIDE DEF a, E, L, N
<1>11. \A j \in 1..L : j # L => R[j].start + R[j].count < a
  BY <1>2, <1>4, <1>5, <1>8, <1>10
<1>12. CASE /\ L >= 1 /\ a = R[L].start + R[L].count
            /\ Len(E) = L /\ \A j \in 1..L : j # L => E[j] = R[j]
            /\ E[L].start = R[L].start /\ E[L].count = R[L].count + 1
  <2>1. L \in 1..L
    BY <1>1, <1>12
  <2>2. ASSUME NEW j \in 1..L, NEW i \in 1..(k + 1)
        PROVE  s[i] # E[j].start - 1 /\ s[i] # E[j].start + E[j].count
    <3>1. CASE j = L
      <4>1. E[j].start = R[L].start /\ E[j].start + E[j].count = a + 1
        <5>1. PICK b \in Nat, c \in Nat : R[L].start = b /\ R[L].count = c
          BY <1>2, <2>1
        <5>2. a = b + c /\ E[L].start = b /\ E[L].count = c + 1
          BY <1>12, <5>1
        <5> QED
          BY <3>1, <5>1, <5>2
      <4>2. CASE i = k + 1
        BY <1>1, <1>2, <1>7, <1>10, <2>1, <4>1, <4>2
      <4>3. CASE i \in 1..k
        <5>1. s[i] \in Nat /\ s[i] < a /\ s[i] # R[L].start - 1
          BY <1>4, <1>8, <2>1, <4>3
        <5> QED
          BY <1>1, <4>1, <5>1
      <4> QED
        BY <1>9, <4>2, <4>3
    <3>2. CASE j # L
      <4>1. E[j] = R[j]
        BY <1>12, <3>2
      <4>2. CASE i = k + 1
        BY <1>1, <1>2, <1>7, <1>10, <1>11, <3>2, <4>1, <4>2
      <4>3. CASE i \in 1..k
        BY <1>8, <4>1, <4>3
      <4> QED
        BY <1>9, <4>2, <4>3
    <3> QED
      BY <3>1, <3>2
  <2>3. ASSUME NEW j \in 1..L, j # L PROVE E[j].start + E[j].count <= s[k + 1]
    <3>1. E[j] = R[j] /\ R[j].start + R[j].count < a
      BY <1>11, <1>12, <2>3
    <3>2. R[j].start \in Nat /\ R[j].count \in Nat
      BY <1>2
    <3>3. R[j].start + R[j].count <= a
      BY <1>1, <3>1, <3>2
    <3> QED
      BY <1>10, <3>1, <3>3
  <2>4. Len(E) = L
    BY <1>12
  <2>5. /\ \A j \in 1..Len(E) : \A i \in 1..(k + 1) :
              s[i] # E[j].start - 1 /\ s[i] # E[j].start + E[j].count
        /\ \A j \in 1..Len(E) : j # Len(E) => E[j].start + E[j].count <= s[k + 1]
    BY <2>2, <2>3, <2>4, Zenon
  <2> QED
    BY <2>5, Zenon DEF Maximal
<1>13. CASE /\ L >= 1 => a # R[L].start + R[L].count
            /\ Len(E) = L + 1 /\ \A j \in 1..L : E[j] = R[j]
            /\ E[L + 1].start = a /\ E[L + 1].count = 1
  <2>1. \A j \in 1..(L + 1) : j = L + 1 \/ j \in 1..L
    BY <1>1
  <2>2. \A j \in 1..L : R[j].start + R[j].count < a
    <3> TAKE j \in 1..L
    <3>1. CASE j # L
      BY <1>11, <3>1
    <3>2. CASE j = L
      <4>1. k >= 1 /\ L >= 1
        BY <1>1, <3>2
      <4>2. R[L].start + R[L].count = s[k] + 1 /\ s[k] \in Nat /\ s[k] < a
        BY <1>5, <4>1
      <4> QED
        BY <1>1, <1>13, <3>2, <4>1, <4>2
    <3> QED
      BY <3>1, <3>2
  <2>3. ASSUME NEW j \in 1..(L + 1), NEW i \in 1..(k + 1)
        PROVE  s[i] # E[j].start - 1 /\ s[i] # E[j].start + E[j].count
    <3>1. CASE j = L + 1
      <4>1. E[j].start = a /\ E[j].count = 1
        BY <1>13, <3>1
      <4>2. CASE i = k + 1
        BY <1>1, <1>10, <4>1, <4>2
      <4>3. CASE i \in 1..k
        <5>1. s[i] \in Nat /\ s[i] < a /\ s[i] <= s[k] /\ k >= 1
          BY <1>4, <1>6, <4>3
        <5>2. s[k] \in Nat /\ s[k] < a /\ a # s[k] + 1
          BY <1>5, <1>13, <5>1
        <5> QED
          BY <1>1, <4>1, <5>1, <5>2
      <4> QED
        BY <1>9, <4>2, <4>3
    <3>2. CASE j \in 1..L
      <4>1. E[j] = R[j]
        BY <1>13, <3>2
      <4>2. CASE i = k + 1
        BY <1>1, <1>2, <1>7, <1>10, <2>2, <3>2, <4>1, <4>2
      <4>3. CASE i \in 1..k
        BY <1>8, <3>2, <4>1, <4>3
      <4> QED
        BY <1>9, <4>2, <4>3
    <3> QED
      BY <2>1, <3>1, <3>2
  <2>4. ASSUME NEW j \in 1..(L + 1), j # L + 1 PROVE E[j].start + E[j].count <= s[k + 1]
    <3>1. j \in 1..L
      BY <2>1, <2>4
    <3>2. E[j] = R[j] /\ R[j].start + R[j].count < a
      BY <1>13, <2>2, <3>1
    <3>3. R[j].start \in Nat /\ R[j].count \in Nat
      BY <1>2, <3>1
    <3>4. R[j].start + R[j].count <= a
      BY <1>1, <3>2, <3>3
    <3> QED
      BY <1>10, <3>2, <3>4
  <2>5. Len(E) = L + 1
    BY <1>13
  <2>6. /\ \A j \in 1..Len(E) : \A i \in 1..(k + 1) :
              s[i] # E[j].start - 1 /\ s[i] # E[j].start + E[j].count
        /\ \A j \in 1..Len(E) : j # Len(E) => E[j].start + E[j].count <= s[k + 1]
    BY <2>3, <2>4, <2>5, Zenon
  <2> QED
    BY <2>6, Zenon DEF Maximal
<1> QED
  BY <1>3, <1>12, <1>13, Zenon

\* Sorted, no number twice.
Strict(s) == Ascending(s) /\ IsInjective(s)

\* The ranges of some sorted numbers.
LEMMA MergedIs ==
    ASSUME NEW s \in Seq(Nat)
    PROVE  Covering(Merged[s], s, Len(s)) /\ (Strict(s) => Maximal(Merged[s], s, Len(s)))
<1> DEFINE N == Len(s)
           V == [k \in Nat |-> {R \in Seq(ARange) : /\ Covering(R, s, k)
                                                    /\ Strict(s) => Maximal(R, s, k)}]
           Rounds(g) == [i \in 0..N |-> IF i = 0 THEN <<>> ELSE Extended[g[i - 1]][s[i]]]
           after == CHOOSE g : g = Rounds(g)
           step == [p \in (UNION {V[i] : i \in 0..N}) \X (1..N) |-> Extended[p[1]][s[p[2]]]]
<1>1. N \in Nat
  OBVIOUS
<1>2. <<>> \in V[0]
  <2>1. <<>> \in Seq(ARange) /\ Len(<<>>) = 0
    OBVIOUS
  <2>2. \A x : x \notin 1..0
    OBVIOUS
  <2>3. Covering(<<>>, s, 0) /\ Maximal(<<>>, s, 0)
    BY <2>1, <2>2 DEF Covering, Maximal
  <2> QED
    BY <2>1, <2>3
<1>3. \A i \in 1..N : \A R \in V[i - 1] : Extended[R][s[i]] \in V[i]
  <2> TAKE i \in 1..N
  <2> TAKE R \in V[i - 1]
  <2>1. PICK k \in Nat : k + 1 = i /\ i - 1 = k /\ k < N
    BY <1>1
  <2>2. R \in Seq(ARange) /\ Covering(R, s, k) /\ (Strict(s) => Maximal(R, s, k))
    BY <2>1
  <2>3. Covering(Extended[R][s[k + 1]], s, k + 1)
    BY <2>1, <2>2, CoveringKept
  <2>4. Strict(s) => Maximal(Extended[R][s[k + 1]], s, k + 1)
    BY <2>1, <2>2, MaximalKept DEF Strict
  <2>5. Extended[R][s[k + 1]] \in Seq(ARange)
    BY <2>3 DEF Covering
  <2> QED
    BY <2>1, <2>3, <2>4, <2>5
<1> HIDE DEF V, N
<1>4. \A i \in 1..N : \A R \in V[i - 1] : step[<<R, i>>] = Extended[R][s[i]]
  <2> TAKE i \in 1..N
  <2> TAKE R \in V[i - 1]
  <2>1. i - 1 \in 0..N
    BY <1>1
  <2>2. <<R, i>> \in (UNION {V[j] : j \in 0..N}) \X (1..N)
    BY <2>1
  <2> QED
    BY <2>2
<1> HIDE DEF step
<1>5. PICK f : Loop(f, N, <<>>, step)
  BY <1>1, RoundsAre
<1>6. f[0] = <<>> /\ \A i \in 1..N : f[i] = step[<<f[i - 1], i>>]
  <2>1. 0 \in 0..N /\ \A i \in 1..N : i \in 0..N /\ i # 0
    BY <1>1
  <2> QED
    BY <1>5, <2>1 DEF Loop
<1>7. \A i \in 0..N : f[i] \in V[i]
  <2>1. \A i \in 1..N : f[i - 1] \in V[i - 1] => f[i] \in V[i]
    BY <1>3, <1>4, <1>6
  <2> QED
    BY <1>1, <1>2, <1>6, <2>1, EveryRound
<1>8. \A i \in 1..N : f[i] = Extended[f[i - 1]][s[i]]
  <2> TAKE i \in 1..N
  <2>1. i - 1 \in 0..N
    BY <1>1
  <2> QED
    BY <1>4, <1>6, <1>7, <2>1
<1>9. f = Rounds(f)
  <2> DEFINE A(i) == IF i = 0 THEN <<>> ELSE step[<<f[i - 1], i>>]
             B(i) == IF i = 0 THEN <<>> ELSE Extended[f[i - 1]][s[i]]
  <2>1. \A i \in 0..N : A(i) = B(i)
    <3> TAKE i \in 0..N
    <3>1. i = 0 \/ i \in 1..N
      BY <1>1
    <3> QED
      BY <1>6, <1>8, <3>1
  <2>2. f = [i \in 0..N |-> A(i)]
    BY <1>5 DEF Loop
  <2> HIDE DEF A, B
  <2>3. f = [i \in 0..N |-> B(i)]
    BY <2>1, <2>2
  <2> QED
    BY <2>3 DEF B
<1>10. after = Rounds(after)
  <2> HIDE DEF Rounds
  <2> QED
    BY <1>9
<1>11. Merged[s] = after[N]
  BY DEF Merged, N
<1> HIDE DEF after
<1>12. after[0] = <<>> /\ \A i \in 1..N : after[i] = Extended[after[i - 1]][s[i]]
  <2>1. 0 \in 0..N /\ \A i \in 1..N : i \in 0..N /\ i # 0
    BY <1>1
  <2> QED
    BY <1>10, <2>1
<1>13. \A i \in 0..N : after[i] \in V[i]
  <2>1. \A i \in 1..N : after[i - 1] \in V[i - 1] => after[i] \in V[i]
    BY <1>3, <1>12
  <2> QED
    BY <1>1, <1>2, <1>12, <2>1, EveryRound
<1>14. N \in 0..N
  BY <1>1
<1>15. Merged[s] \in V[N]
  BY <1>11, <1>13, <1>14
<1> QED
  BY <1>1, <1>15 DEF V, N

\* The maximal runs of consecutive numbers, as long as n at most.
Runs(wanted, n) ==
    {r \in [start : wanted, count : 1..n] :
        /\ Covered(r) \subseteq wanted
        /\ r.start - 1 \notin wanted /\ r.start + r.count \notin wanted}

\* readCoilsData: all addresses and no other, a request for each run when none is twice.
LEMMA RangesFound ==
    ASSUME NEW a \in Seq(Nat)
    PROVE  /\ Ranges(a) \in Seq(ARange) /\ Len(Ranges(a)) <= Len(a)
           /\ \A r \in ToSet(Ranges(a)) : Covered(r) \subseteq ToSet(a) /\ r.count \in 1..Len(a)
           /\ UNION {Covered(r) : r \in ToSet(Ranges(a))} = ToSet(a)
           /\ IsInjective(a) => ToSet(Ranges(a)) = Runs(ToSet(a), Len(a))
<1> DEFINE s == Sorted(a)
           n == Len(a)
           R == Ranges(a)
           wanted == ToSet(a)
           found == ToSet(R)
<1>1. /\ n \in Nat /\ s \in Seq(Nat) /\ Len(s) = n /\ ToSet(s) = wanted
      /\ IsInjective(a) => Strict(s)
  BY SortedIs DEF Strict
<1>2. R = Merged[s]
  BY DEF Ranges
<1>3. Covering(R, s, n) /\ (IsInjective(a) => Maximal(R, s, n))
  <2> HIDE DEF s
  <2> QED
    BY <1>1, <1>2, MergedIs
<1>4. \A x : x \in wanted <=> \E i \in 1..n : s[i] = x
  <2> HIDE DEF s, n
  <2>1. \A x : x \in ToSet(s) <=> \E i \in 1..n : s[i] = x
    BY <1>1 DEF ToSet
  <2> QED
    BY <1>1, <2>1
<1> HIDE DEF R, s
<1>5. R \in Seq(ARange) /\ Len(R) <= n /\ Len(R) \in Nat
  BY <1>3 DEF Covering
<1>6. \A r : r \in found <=> \E j \in 1..Len(R) : R[j] = r
  BY <1>5 DEF ToSet
<1> HIDE DEF n, wanted, found
<1>7. \A r \in found : /\ r \in ARange /\ Covered(r) \subseteq wanted /\ r.count \in 1..n
                       /\ r.start \in Covered(r)
  <2> TAKE r \in found
  <2>1. PICK j \in 1..Len(R) : R[j] = r
    BY <1>6
  <2>2. r \in ARange
    BY <1>5, <2>1
  <2>3. r.count \in 1..n /\ \A x \in Covered(r) : \E i \in 1..n : s[i] = x
    BY <1>3, <2>1 DEF Covering
  <2>4. Covered(r) \subseteq wanted
    BY <1>4, <2>3
  <2>5. r.start \in Nat /\ r.count >= 1 /\ r.count \in Nat
    BY <1>1, <2>2, <2>3 DEF ARange
  <2>6. r.start \in Covered(r)
    BY <2>5 DEF Covered
  <2> QED
    BY <2>2, <2>3, <2>4, <2>6
<1>8. ASSUME NEW x \in wanted PROVE \E r \in found : x \in Covered(r)
  <2>1. PICK i \in 1..n : s[i] = x
    BY <1>4
  <2>2. PICK j \in 1..Len(R) : s[i] \in Covered(R[j])
    BY <1>3, <2>1 DEF Covering
  <2> QED
    BY <1>6, <2>1, <2>2
<1>9. UNION {Covered(r) : r \in found} = wanted
  BY <1>7, <1>8
<1>10. ASSUME IsInjective(a) PROVE found = Runs(wanted, n)
  <2>1. ASSUME NEW r \in found PROVE r.start - 1 \notin wanted /\ r.start + r.count \notin wanted
    <3>1. PICK j \in 1..Len(R) : R[j] = r
      BY <1>6
    <3>2. \A i \in 1..n : s[i] # R[j].start - 1 /\ s[i] # R[j].start + R[j].count
      BY <1>3, <1>10 DEF Maximal
    <3> QED
      BY <1>4, <3>1, <3>2
  <2>2. ASSUME NEW r \in found PROVE r \in Runs(wanted, n)
    <3>1. r.start \in wanted /\ r.count \in 1..n
      BY <1>7
    <3>2. r \in [start : wanted, count : 1..n]
      <4>1. r = [start |-> r.start, count |-> r.count]
        BY <1>7 DEF ARange
      <4> QED
        BY <3>1, <4>1
    <3> QED
      BY <1>7, <2>1, <3>2 DEF Runs
  <2>3. ASSUME NEW r \in Runs(wanted, n) PROVE r \in found
    <3>1. /\ r.start \in wanted /\ r.count \in 1..n /\ Covered(r) \subseteq wanted
          /\ r.start - 1 \notin wanted /\ r.start + r.count \notin wanted
          /\ r = [start |-> r.start, count |-> r.count]
      BY DEF Runs
    <3>2. PICK q \in found : r.start \in Covered(q)
      BY <1>8, <3>1
    <3>3. /\ Covered(q) \subseteq wanted /\ q = [start |-> q.start, count |-> q.count]
          /\ q.start - 1 \notin wanted /\ q.start + q.count \notin wanted
      BY <1>7, <2>1 DEF ARange
    <3>4. PICK b \in Nat, c \in Nat : q.start = b /\ q.count = c /\ c >= 1
      BY <1>1, <1>7 DEF ARange
    <3>5. PICK d \in Nat, e \in Nat : r.start = d /\ r.count = e /\ e >= 1
      <4>1. r.start \in Nat
        <5>1. r.start \in b..(b + c - 1)
          BY <3>2, <3>4 DEF Covered
        <5> QED
          BY <3>4, <5>1
      <4> QED
        BY <1>1, <3>1, <4>1
    <3>6. b <= d /\ d <= b + c - 1
      BY <3>2, <3>4, <3>5 DEF Covered
    <3>7. Covered(q) = b..(b + c - 1) /\ Covered(r) = d..(d + e - 1)
      BY <3>4, <3>5 DEF Covered
    <3>8. b = d
      <4> SUFFICES ASSUME b < d PROVE FALSE
        BY <3>6
      <4>1. d - 1 \in b..(b + c - 1)
        BY <3>6
      <4> QED
        BY <3>1, <3>3, <3>5, <3>7, <4>1
    <3>9. c = e
      <4>1. ~(c < e)
        <5> SUFFICES ASSUME c < e PROVE FALSE
          OBVIOUS
        <5>1. b + c \in d..(d + e - 1)
          BY <3>8
        <5> QED
          BY <3>1, <3>3, <3>4, <3>7, <5>1
      <4>2. ~(e < c)
        <5> SUFFICES ASSUME e < c PROVE FALSE
          OBVIOUS
        <5>1. d + e \in b..(b + c - 1)
          BY <3>8
        <5> QED
          BY <3>1, <3>3, <3>5, <3>7, <5>1
      <4> QED
        BY <4>1, <4>2
    <3>10. r = q
      BY <3>1, <3>3, <3>4, <3>5, <3>8, <3>9
    <3> QED
      BY <3>10
  <2> QED
    BY <2>2, <2>3
<1> QED
  BY <1>5, <1>7, <1>9, <1>10 DEF R, n, wanted, found

-----------------------------------------------------------------------------
(* The coils, and what is under way *)

\* The ranges asked for: of addresses of the table, none too long.
Requests == {r \in ARange : Covered(r) \subseteq Addresses /\ r.count \in 1..SizeLimit}

\* The requests for the ranges that are accepted come behind those under way.
LEMMA RequestedIs ==
    ASSUME reads \in Seq(Requests), NEW R \in Seq(ARange),
           \A r \in ToSet(R) : Covered(r) \subseteq Addresses /\ r.count \in Nat /\ r.count >= 1
    PROVE  Requested(R) \in Seq(Requests) /\ Len(Requested(R)) <= Len(reads) + Len(R)
<1> DEFINE N == Len(R)
           V == [k \in Nat |-> {q \in Seq(Requests) : Len(q) <= Len(reads) + k}]
           More(q, i) == IF Accepted(R[i]) THEN Append(q, R[i]) ELSE q
           Rounds(g) == [i \in 0..N |-> IF i = 0 THEN reads
                                         ELSE IF Accepted(R[i]) THEN Append(g[i - 1], R[i])
                                         ELSE g[i - 1]]
           after == CHOOSE g : g = Rounds(g)
           step == [p \in (UNION {V[i] : i \in 0..N}) \X (1..N) |-> More(p[1], p[2])]
<1>1. N \in Nat /\ Len(reads) \in Nat
  OBVIOUS
<1>2. reads \in V[0]
  BY <1>1
<1>3. \A i \in 1..N : \A q \in V[i - 1] : More(q, i) \in V[i]
  <2> TAKE i \in 1..N
  <2> TAKE q \in V[i - 1]
  <2>1. PICK k \in Nat : k + 1 = i /\ i - 1 = k
    BY <1>1
  <2>2. q \in Seq(Requests) /\ Len(q) <= Len(reads) + k /\ Len(q) \in Nat
    BY <2>1
  <2>3. CASE ~Accepted(R[i])
    BY <1>1, <2>1, <2>2, <2>3
  <2>4. CASE Accepted(R[i])
    <3>1. R[i] \in ARange /\ R[i] \in ToSet(R)
      BY DEF ToSet
    <3>2. SizeLimit \in Nat
      BY BoundsAssumption
    <3>3. R[i] \in Requests
      BY <2>4, <3>1, <3>2 DEF Requests, Accepted
    <3>4. Append(q, R[i]) \in Seq(Requests) /\ Len(Append(q, R[i])) = Len(q) + 1
      BY <2>2, <3>3, AppendProperties
    <3>5. More(q, i) = Append(q, R[i])
      BY <2>4
    <3>6. V[i] = {x \in Seq(Requests) : Len(x) <= Len(reads) + i}
      BY <2>1
    <3>7. Len(Append(q, R[i])) <= Len(reads) + i
      BY <1>1, <2>1, <2>2, <3>4
    <3> HIDE DEF More, V
    <3> QED
      BY <3>4, <3>5, <3>6, <3>7
  <2> QED
    BY <2>3, <2>4
<1> HIDE DEF V, N
<1>4. \A i \in 1..N : \A q \in V[i - 1] : step[<<q, i>>] = More(q, i)
  <2> TAKE i \in 1..N
  <2> TAKE q \in V[i - 1]
  <2>1. i - 1 \in 0..N
    BY <1>1
  <2>2. <<q, i>> \in (UNION {V[j] : j \in 0..N}) \X (1..N)
    BY <2>1
  <2> HIDE DEF More
  <2> QED
    BY <2>2
<1> HIDE DEF step
<1>5. PICK f : Loop(f, N, reads, step)
  BY <1>1, RoundsAre
<1>6. f[0] = reads /\ \A i \in 1..N : f[i] = step[<<f[i - 1], i>>]
  <2>1. 0 \in 0..N /\ \A i \in 1..N : i \in 0..N /\ i # 0
    BY <1>1
  <2> QED
    BY <1>5, <2>1 DEF Loop
<1>7. \A i \in 0..N : f[i] \in V[i]
  <2> HIDE DEF More
  <2>1. \A i \in 1..N : f[i - 1] \in V[i - 1] => f[i] \in V[i]
    BY <1>3, <1>4, <1>6
  <2> QED
    BY <1>1, <1>2, <1>6, <2>1, EveryRound
<1>8. \A i \in 1..N : f[i] = More(f[i - 1], i)
  <2> TAKE i \in 1..N
  <2> HIDE DEF More
  <2>1. i - 1 \in 0..N
    BY <1>1
  <2> QED
    BY <1>4, <1>6, <1>7, <2>1
<1>9. f = Rounds(f)
  <2> DEFINE A(i) == IF i = 0 THEN reads ELSE step[<<f[i - 1], i>>]
             B(i) == IF i = 0 THEN reads ELSE More(f[i - 1], i)
  <2>1. \A i \in 0..N : A(i) = B(i)
    <3> TAKE i \in 0..N
    <3> HIDE DEF More
    <3>1. i = 0 \/ i \in 1..N
      BY <1>1
    <3> QED
      BY <1>6, <1>8, <3>1
  <2>2. f = [i \in 0..N |-> A(i)]
    BY <1>5 DEF Loop
  <2> HIDE DEF A, B
  <2>3. f = [i \in 0..N |-> B(i)]
    BY <2>1, <2>2
  <2> QED
    BY <2>3 DEF B
<1>10. after = Rounds(after)
  <2> HIDE DEF Rounds
  <2> QED
    BY <1>9
<1>11. Requested(R) = after[N]
  BY DEF Requested, N
<1> HIDE DEF after
<1>12. after[0] = reads /\ \A i \in 1..N : after[i] = More(after[i - 1], i)
  <2>1. 0 \in 0..N /\ \A i \in 1..N : i \in 0..N /\ i # 0
    BY <1>1
  <2> QED
    BY <1>10, <2>1
<1> HIDE DEF More
<1>13. \A i \in 0..N : after[i] \in V[i]
  <2>1. \A i \in 1..N : after[i - 1] \in V[i - 1] => after[i] \in V[i]
    BY <1>3, <1>12
  <2> QED
    BY <1>1, <1>2, <1>12, <2>1, EveryRound
<1>14. N \in 0..N
  BY <1>1
<1>15. Requested(R) \in V[N]
  BY <1>11, <1>13, <1>14
<1> QED
  BY <1>1, <1>15 DEF V, N

\* A reply has the value of its first address at least.
Replies == [start : Nat, values : {v \in Seq(BOOLEAN) : Len(v) >= 1}]

\* A write under way.
Flips == [addr : Addresses, value : BOOLEAN]

\* The types of the coils and of what is under way.
CoilTypes ==
    /\ rows \in Seq(Addresses)
    /\ coil \in [Addresses -> BOOLEAN]
    /\ shown \in [DOMAIN rows -> BOOLEAN]
    /\ timer \in BOOLEAN /\ changes \in 0..ChangeMax
    /\ reads \in Seq(Requests) /\ writes \in Seq(Flips) /\ answers \in Seq(Replies)
    /\ Len(reads) + Len(answers) <= FlightMax

\* The bounds are numbers, and so are the addresses.
LEMMA CoilBounds ==
    /\ SizeLimit \in Nat /\ FlightMax \in Nat /\ ChangeMax \in Nat
    /\ Addresses \subseteq Nat
  BY BoundsAssumption, AddressesAssumption

\* The addresses are numbers to be sorted.
LEMMA NaturalAddresses == ASSUME NEW a \in Seq(Addresses) PROVE a \in Seq(Nat)
<1>1. a \in [1..Len(a) -> Addresses] /\ Len(a) \in Nat
  OBVIOUS
<1> DEFINE n == Len(a)
<1>2. a \in [1..n -> Nat] /\ n \in Nat
  BY <1>1, CoilBounds
<1> HIDE DEF n
<1> QED
  BY <1>2

\* RangesAreTheRuns, as long as the types are kept.
LEMMA CoilsTyped == CoilTypes => RangesAreTheRuns
<1> SUFFICES ASSUME CoilTypes PROVE RangesAreTheRuns
  OBVIOUS
<1>1. TypeOK
  <2>1. \A r \in ToSet(reads) : r \in Requests
    BY DEF CoilTypes, ToSet
  <2>2. \A w \in ToSet(writes) : w \in Flips
    BY DEF CoilTypes, ToSet
  <2>3. \A r \in ToSet(reads) : Covered(r) \subseteq Addresses /\ r.count \in 1..SizeLimit
    BY <2>1 DEF Requests
  <2>4. \A w \in ToSet(writes) : w.addr \in Addresses /\ w.value \in BOOLEAN
    BY <2>2 DEF Flips
  <2> QED
    BY <2>3, <2>4, Zenon DEF CoilTypes, TypeOK
<1>2. rows \in Seq(Nat)
  <2>1. rows \in Seq(Addresses)
    BY DEF CoilTypes
  <2> QED
    BY <2>1, NaturalAddresses
<1>3. /\ Len(Ranges(rows)) <= Len(rows)
      /\ UNION {Covered(r) : r \in ToSet(Ranges(rows))} = ToSet(rows)
      /\ IsInjective(rows) => ToSet(Ranges(rows)) = Runs(ToSet(rows), Len(rows))
  BY <1>2, RangesFound
<1> QED
  BY <1>1, <1>3, Zenon DEF RangesAreTheRuns, Runs

\* The types hold in the beginning.
LEMMA CoilsInit == Init => CoilTypes
<1> SUFFICES ASSUME Init PROVE CoilTypes
  OBVIOUS
<1>1. PICK n \in 1..MaxRows : rows \in [1..n -> Addresses]
  BY DEF Init
<1>2. n \in Nat
  BY BoundsAssumption
<1>3. rows \in Seq(Addresses)
  BY <1>1, <1>2
<1>4. /\ coil \in [Addresses -> BOOLEAN] /\ shown \in [DOMAIN rows -> BOOLEAN]
      /\ timer \in BOOLEAN
  BY DEF Init
<1>5. /\ reads = <<>> /\ writes = <<>> /\ answers = <<>> /\ changes = 0
      /\ Len(reads) + Len(answers) <= FlightMax
  BY CoilBounds DEF Init
<1>6. /\ reads \in Seq(Requests) /\ writes \in Seq(Flips) /\ answers \in Seq(Replies)
      /\ changes \in 0..ChangeMax
  BY <1>5, CoilBounds
<1> QED
  BY <1>3, <1>4, <1>5, <1>6 DEF CoilTypes

\* Every step of the coils keeps the types.
LEMMA CoilsStep == CoilTypes /\ [Next]_vars => CoilTypes'
<1> SUFFICES ASSUME CoilTypes, [Next]_vars PROVE CoilTypes'
  OBVIOUS
<1>1. /\ rows \in Seq(Addresses)
      /\ coil \in [Addresses -> BOOLEAN]
      /\ shown \in [DOMAIN rows -> BOOLEAN]
      /\ timer \in BOOLEAN /\ changes \in 0..ChangeMax
      /\ reads \in Seq(Requests) /\ writes \in Seq(Flips) /\ answers \in Seq(Replies)
      /\ Len(reads) + Len(answers) <= FlightMax
  BY DEF CoilTypes
<1>2. /\ Len(reads) \in Nat /\ Len(answers) \in Nat /\ FlightMax \in Nat /\ ChangeMax \in Nat
      /\ SizeLimit \in Nat /\ Addresses \subseteq Nat
      /\ \A i \in DOMAIN rows : rows[i] \in Addresses
      /\ \A i \in DOMAIN rows : shown[i] \in BOOLEAN
      /\ \A a \in Addresses : coil[a] \in BOOLEAN
  BY <1>1, CoilBounds
<1>3. CASE Refresh
  <2> DEFINE R == Ranges(rows)
  <2>1. rows \in Seq(Nat)
    BY <1>1, NaturalAddresses
  <2>2. /\ R \in Seq(ARange)
        /\ \A r \in ToSet(R) : Covered(r) \subseteq ToSet(rows) /\ r.count \in 1..Len(rows)
    BY <2>1, RangesFound
  <2>3. ToSet(rows) \subseteq Addresses
    BY <1>2 DEF ToSet
  <2>4. /\ Len(reads) + Len(answers) + Len(R) <= FlightMax /\ reads' = Requested(R)
        /\ timer' = (\A r \in ToSet(R) : Accepted(r))
        /\ UNCHANGED <<rows, coil, shown, writes, answers, changes>>
    BY <1>3 DEF Refresh
  <2> HIDE DEF R
  <2>5. reads' \in Seq(Requests) /\ Len(reads') <= Len(reads) + Len(R)
    <3>1. \A r \in ToSet(R) : Covered(r) \subseteq Addresses /\ r.count \in Nat /\ r.count >= 1
      BY <2>1, <2>2, <2>3
    <3> QED
      BY <1>1, <2>2, <2>4, <3>1, RequestedIs
  <2>6. timer' \in BOOLEAN
    BY <2>4, Zenon
  <2>7. Len(reads') + Len(answers') <= FlightMax
    <3>1. Len(reads') \in Nat /\ Len(R) \in Nat /\ answers' = answers
      BY <2>2, <2>4, <2>5
    <3> QED
      BY <1>2, <2>4, <2>5, <3>1
  <2> QED
    BY <1>1, <2>4, <2>5, <2>6, <2>7 DEF CoilTypes
<1>4. CASE SlaveReads
  <2> DEFINE r == Head(reads)
             v == [k \in 1..r.count |-> coil[r.start + k - 1]]
             e == [start |-> r.start, values |-> v]
  <2>1. /\ reads # <<>> /\ answers' = Append(answers, e) /\ reads' = Tail(reads)
        /\ UNCHANGED <<rows, coil, shown, timer, writes, changes>>
    BY <1>4 DEF SlaveReads
  <2>2. r \in Requests /\ reads' \in Seq(Requests) /\ Len(reads') = Len(reads) - 1
    BY <1>1, <2>1
  <2>3. /\ r.start \in Nat /\ r.count \in Nat /\ r.count >= 1
        /\ r.start..(r.start + r.count - 1) \subseteq Addresses
    BY <1>2, <2>2 DEF Requests, ARange, Covered
  <2>4. e \in Replies
    <3> HIDE DEF r
    <3>1. \A k \in 1..r.count : r.start + k - 1 \in Addresses
      BY <2>3
    <3>2. v \in [1..r.count -> BOOLEAN]
      BY <1>2, <3>1
    <3> HIDE DEF v
    <3>3. v \in Seq(BOOLEAN) /\ Len(v) >= 1
      BY <2>3, <3>2
    <3> QED
      BY <2>3, <3>3 DEF Replies
  <2> HIDE DEF e
  <2>5. answers' \in Seq(Replies) /\ Len(answers') = Len(answers) + 1
    BY <1>1, <2>1, <2>4, AppendProperties
  <2>6. Len(reads') + Len(answers') <= FlightMax
    BY <1>1, <1>2, <2>2, <2>5
  <2> QED
    BY <1>1, <2>1, <2>2, <2>5, <2>6 DEF CoilTypes
<1>5. CASE SlaveWrites
  <2>1. /\ writes # <<>> /\ writes' = Tail(writes)
        /\ coil' = [coil EXCEPT ![Head(writes).addr] = Head(writes).value]
        /\ UNCHANGED <<rows, shown, timer, reads, answers, changes>>
    BY <1>5 DEF SlaveWrites
  <2>2. Head(writes) \in Flips /\ writes' \in Seq(Flips)
    BY <1>1, <2>1
  <2>3. Head(writes).addr \in Addresses /\ Head(writes).value \in BOOLEAN
    BY <2>2 DEF Flips
  <2>4. coil' \in [Addresses -> BOOLEAN]
    BY <1>1, <2>1, <2>3
  <2> QED
    BY <1>1, <2>1, <2>2, <2>4 DEF CoilTypes
<1>6. CASE CoilChanges
  <2>1. PICK a \in Addresses : coil' = [coil EXCEPT ![a] = ~@]
    BY <1>6 DEF CoilChanges
  <2>2. coil' \in [Addresses -> BOOLEAN]
    BY <1>1, <2>1, Zenon
  <2>3. /\ changes < ChangeMax /\ changes' = changes + 1
        /\ UNCHANGED <<rows, shown, timer, reads, writes, answers>>
    BY <1>6 DEF CoilChanges
  <2>4. changes' \in 0..ChangeMax
    BY <1>1, <1>2, <2>3
  <2> QED
    BY <1>1, <2>2, <2>3, <2>4 DEF CoilTypes
<1>7. CASE Toggle
  <2>1. PICK i \in DOMAIN rows :
            /\ shown' = [shown EXCEPT ![i] = ~@]
            /\ writes' = Append(writes, [addr |-> rows[i], value |-> ~shown[i]])
    BY <1>7 DEF Toggle
  <2>2. shown' \in [DOMAIN rows -> BOOLEAN]
    BY <1>1, <2>1, Zenon
  <2>3. /\ changes < ChangeMax /\ changes' = changes + 1
        /\ UNCHANGED <<rows, coil, timer, reads, answers>>
    BY <1>7 DEF Toggle
  <2>4. changes' \in 0..ChangeMax
    BY <1>1, <1>2, <2>3
  <2>5. writes' \in Seq(Flips)
    <3> DEFINE e == [addr |-> rows[i], value |-> ~shown[i]]
    <3>1. e \in Flips
      BY <1>2 DEF Flips
    <3> HIDE DEF e
    <3> QED
      BY <1>1, <2>1, <3>1, AppendProperties DEF e
  <2> QED
    BY <1>1, <2>2, <2>3, <2>4, <2>5 DEF CoilTypes
<1>8. CASE sloveDataReceived
  <2> DEFINE h == Head(answers)
  <2>1. /\ answers # <<>> /\ answers' = Tail(answers)
        /\ shown' = [i \in DOMAIN rows |-> IF rows[i] = h.start THEN h.values[1] ELSE shown[i]]
        /\ UNCHANGED <<rows, coil, timer, reads, writes, changes>>
    BY <1>8 DEF sloveDataReceived, setValue
  <2>2. h \in Replies /\ answers' \in Seq(Replies) /\ Len(answers') = Len(answers) - 1
    BY <1>1, <2>1
  <2>3. h.values \in Seq(BOOLEAN) /\ Len(h.values) >= 1
    BY <2>2 DEF Replies
  <2>4. h.values[1] \in BOOLEAN
    <3>1. 1 \in 1..Len(h.values)
      BY <2>3
    <3> QED
      BY <2>3, <3>1
  <2>5. shown' \in [DOMAIN rows -> BOOLEAN]
    <3> HIDE DEF h
    <3> QED
      BY <1>2, <2>1, <2>4, Zenon
  <2>6. Len(reads') + Len(answers') <= FlightMax
    BY <1>1, <1>2, <2>1, <2>2
  <2> QED
    BY <1>1, <2>1, <2>2, <2>5, <2>6 DEF CoilTypes
<1>9. CASE UNCHANGED vars
  BY <1>9 DEF CoilTypes, vars
<1> QED
  BY <1>3, <1>4, <1>5, <1>6, <1>7, <1>8, <1>9 DEF Next

-----------------------------------------------------------------------------

(* The rows of the coil table and the entries of rowsData_ *)

\* The entries of rowsData_.
Entries == [w : Table!Widgets, current : -1..255]

\* The view in which all rows have their widgets.
View ==
    [cells : Seq(Table!Widgets), data : Seq(Entries), text : [Table!Widgets -> Table!Texts],
     captured : [Table!Widgets -> 0..TableRows]]

\* Row i is entry i, and its slot has captured no smaller number.
Paired(t) ==
    /\ Len(t.cells) = Len(t.data) /\ Len(t.cells) <= TableRows
    /\ \A i \in 1..Len(t.cells) : t.cells[i] = t.data[i].w /\ t.captured[t.cells[i]] >= i

\* No two rows share their widgets.
Apart(t) == \A i, j \in 1..Len(t.cells) : t.cells[i] = t.cells[j] => i = j

\* The slots of the rows up to j write to the entries of their rows.
InPlace(t, j) == \A i \in 1..j : t.captured[t.cells[i]] = i

\* An entry is told of the address its row shows, unless a slot before it is displaced:
\* what a deletion did to the rows behind it does not reach those before it.
Told(t) ==
    \A j \in 1..Len(t.cells) :
        InPlace(t, j) => t.data[j].current = Table!ParsedBase10(t.text[t.cells[j]])

\* What every handler keeps.
Sound(t) == t \in View /\ Paired(t) /\ Apart(t) /\ Told(t)

\* The rows all count as visible: there are no more than the view has room for, and two.
Fits == TableRows <= visibleRows + 2

\* The bounds of the table are numbers, and so are the addresses typed in it.
LEMMA TableBounds ==
    /\ TableRows \in Nat \ {0} /\ visibleRows \in Nat \ {0}
    /\ Typed \subseteq 0..255
  BY TablesAssumption, TypedAssumption

\* The texts of the editors, and the numbers they are read as.
LEMMA TextsParsed ==
    /\ \A x \in Table!Texts : Table!ParsedBase10(x) \in -1..255
    /\ Table!EmptyText \in Table!Texts /\ Table!ParsedBase10(Table!EmptyText) = -1
    /\ \A n \in 0..255 : Table!Dec(n) \in Table!Texts /\ Table!Hex(n) \in Table!Texts
<1>1. ASSUME NEW x \in Table!Texts PROVE Table!ParsedBase10(x) \in -1..255
  <2>1. x.n \in 0..255 /\ x.base \in {"dec", "hex", "none"}
    BY DEF Table!Texts
  <2>2. CASE x.base = "dec"
    BY <2>1, <2>2 DEF Table!ParsedBase10
  <2>3. CASE x.base = "hex" /\ x.n % 16 < 10 /\ x.n \div 16 < 10
    BY <2>1, <2>3 DEF Table!ParsedBase10
  <2>4. CASE x.base # "dec" /\ ~(x.base = "hex" /\ x.n % 16 < 10 /\ x.n \div 16 < 10)
    <3>1. Table!ParsedBase10(x) = -1
      BY <2>4 DEF Table!ParsedBase10, Table!NoAddress
    <3> QED
      BY <3>1
  <2> QED
    BY <2>2, <2>3, <2>4
<1>2. Table!EmptyText \in Table!Texts /\ Table!ParsedBase10(Table!EmptyText) = -1
  BY DEF Table!EmptyText, Table!Texts, Table!ParsedBase10, Table!NoAddress
<1>3. \A n \in 0..255 : Table!Dec(n) \in Table!Texts /\ Table!Hex(n) \in Table!Texts
  BY DEF Table!Dec, Table!Hex, Table!Texts
<1> QED
  BY <1>1, <1>2, <1>3

\* There are widgets for one row more.
LEMMA FreshThere ==
    ASSUME NEW t, Sound(t), Len(t.cells) < TableRows
    PROVE  /\ Table!FreshWidgets(Table!insertRow(t)) \in Table!Widgets
           /\ \A i \in 1..Len(t.cells) : t.cells[i] # Table!FreshWidgets(Table!insertRow(t))
<1> DEFINE n == Len(t.cells)
           u == Table!insertRow(t)
           W == 1..(2 * TableRows)
<1>1. /\ TableRows \in Nat \ {0} /\ n \in Nat /\ t.cells \in Seq(W) /\ t.data \in Seq(Entries)
      /\ \A i \in 1..n : t.data[i].w = t.cells[i] /\ t.cells[i] \in W
      /\ Len(t.data) = n
  BY TableBounds DEF Sound, View, Paired, Table!Widgets
<1>2. \E w \in W : \A i \in 1..n : t.cells[i] # w
  <2> SUFFICES ASSUME \A w \in W : \E i \in 1..n : t.cells[i] = w PROVE FALSE
    OBVIOUS
  <2>1. IsFiniteSet(1..n) /\ Cardinality(1..n) = n
    <3>1. n \in Nat /\ 1 \in Int /\ n \in Int
      BY <1>1
    <3> HIDE DEF n
    <3>2. /\ IsFiniteSet(1..n)
          /\ Cardinality(1..n) = IF 1 > n THEN 0 ELSE n - 1 + 1
      BY <3>1, FS_Interval
    <3> QED
      BY <3>1, <3>2
  <2>2. IsFiniteSet(W) /\ Cardinality(W) = 2 * TableRows
    BY <1>1, FS_Interval
  <2> DEFINE I == {t.cells[i] : i \in 1..n}
  <2>3. IsFiniteSet(I) /\ Cardinality(I) <= n
    <3> DEFINE f == [i \in 1..n |-> t.cells[i]]
    <3>1. f \in Surjection(1..n, I)
      BY DEF Surjection
    <3> QED
      BY <2>1, <3>1, FS_Surjection
  <2>4. W \subseteq I
    BY <1>1
  <2>5. Cardinality(W) <= Cardinality(I)
    BY <2>3, <2>4, FS_Subset
  <2> QED
    BY <1>1, <2>2, <2>3, <2>5, FS_CardinalityType
<1>3. u.cells = Append(t.cells, 0) /\ u.data = t.data
  BY DEF Sound, View, Table!insertRow, Table!NoWidgets
<1>4. \A x \in Table!ToSet(u.cells) : x = 0 \/ \E i \in 1..n : t.cells[i] = x
  BY <1>1, <1>3 DEF Table!ToSet
<1>5. \A d \in Table!ToSet(u.data) : \E i \in 1..n : t.cells[i] = d.w
  BY <1>1, <1>3 DEF Table!ToSet
<1>6. PICK w \in W : \A i \in 1..n : t.cells[i] # w
  BY <1>2
<1>7. w \notin Table!ToSet(u.cells) /\ \A d \in Table!ToSet(u.data) : d.w # w
  <2>1. w # 0
    BY <1>1, <1>6
  <2>2. w \notin Table!ToSet(u.cells)
    BY <1>4, <1>6, <2>1
  <2>3. \A d \in Table!ToSet(u.data) : d.w # w
    BY <1>5, <1>6
  <2> QED
    BY <2>2, <2>3
<1>8. Table!FreshWidgets(u) \in Table!Widgets /\ Table!FreshWidgets(u) \notin Table!ToSet(u.cells)
  BY <1>6, <1>7 DEF Table!FreshWidgets, Table!Widgets
<1>9. \A i \in 1..n : t.cells[i] \in Table!ToSet(u.cells)
  <2>1. \A i \in 1..n : u.cells[i] = t.cells[i] /\ i \in 1..Len(u.cells)
    BY <1>1, <1>3
  <2> QED
    BY <2>1 DEF Table!ToSet
<1> HIDE DEF u, W
<1>10. \A i \in 1..n : t.cells[i] # Table!FreshWidgets(u)
  BY <1>8, <1>9
<1> QED
  BY <1>8, <1>10 DEF u

\* A row gets its widgets at once.
LEMMA RowsFit ==
    ASSUME Fits, NEW row \in Nat \ {0}, row <= TableRows, NEW top \in Nat,
           top <= row
    PROVE  Table!isRowVisible(row, top)
<1>1. /\ visibleRows \in Nat \ {0} /\ TableRows \in Nat \ {0}
  BY TableBounds
<1> DEFINE extra == IF visibleRows < 10 THEN 2 ELSE visibleRows \div 5
<1>2. extra \in Nat /\ extra >= 2
  BY <1>1
<1>3. row <= top + visibleRows + extra
  <2> HIDE DEF extra
  <2> QED
    BY <1>1, <1>2 DEF Fits
<1> QED
  BY <1>3 DEF Table!isRowVisible

\* The view with a row added to it, whose widgets are w.
Added(t, w) ==
    [cells |-> Append(t.cells, w),
     data |-> Append(t.data, [w |-> w, current |-> -1]),
     text |-> [t.text EXCEPT ![w] = Table!EmptyText],
     captured |-> [t.captured EXCEPT ![w] = Len(t.cells) + 1]]

\* What addRow, and a row of setTable, make of the view.
LEMMA AddedIs ==
    ASSUME NEW t, Sound(t), Len(t.cells) < TableRows, NEW top,
           Table!isRowVisible(Len(t.cells) + 1, top)
    PROVE  \E w \in Table!Widgets :
              /\ \A i \in 1..Len(t.cells) : t.cells[i] # w
              /\ Table!setupRow(Table!insertRow(t), Len(t.cells) + 1, top) = Added(t, w)
<1> DEFINE n == Len(t.cells)
           u == Table!insertRow(t)
           w == Table!FreshWidgets(u)
<1>1. w \in Table!Widgets /\ \A i \in 1..n : t.cells[i] # w
  BY FreshThere
<1>2. t.cells \in Seq(Table!Widgets)
  BY DEF Sound, View
<1>3. /\ u.cells = Append(t.cells, 0) /\ u.data = t.data /\ u.text = t.text
      /\ u.captured = t.captured
  BY DEF Sound, View, Table!insertRow, Table!NoWidgets
<1>4. Table!setupRow(u, n + 1, top) =
          [cells |-> [u.cells EXCEPT ![n + 1] = w],
           data |-> Append(u.data, [w |-> w, current |-> -1]),
           text |-> [u.text EXCEPT ![w] = Table!EmptyText],
           captured |-> [u.captured EXCEPT ![w] = n + 1]]
  BY DEF Table!setupRow, Table!NoAddress
<1> HIDE DEF u, w
<1>5. [Append(t.cells, 0) EXCEPT ![n + 1] = w] = Append(t.cells, w)
  <2> DEFINE S == Table!Widgets \cup {0}
             a == Append(t.cells, 0)
             b == Append(t.cells, w)
             e == [a EXCEPT ![n + 1] = w]
  <2>1. t.cells \in Seq(S) /\ w \in S /\ 0 \in S /\ n \in Nat
    BY <1>1, <1>2
  <2>2. /\ a \in Seq(S) /\ Len(a) = n + 1 /\ \A i \in 1..n : a[i] = t.cells[i]
        /\ b \in Seq(S) /\ Len(b) = n + 1 /\ b[n + 1] = w
        /\ \A i \in 1..n : b[i] = t.cells[i]
    BY <2>1, AppendProperties
  <2> HIDE DEF S, a, b
  <2>3. e \in Seq(S) /\ Len(e) = n + 1 /\ e[n + 1] = w /\ \A i \in 1..n : e[i] = a[i]
    BY <2>1, <2>2
  <2> HIDE DEF e
  <2>4. \A i \in 1..Len(e) : e[i] = b[i]
    BY <2>1, <2>2, <2>3
  <2>5. e = b
    BY <2>2, <2>3, <2>4, SeqEqual
  <2> QED
    BY <2>5 DEF e, a, b
<1>6. Table!setupRow(u, n + 1, top) = Added(t, w)
  BY <1>3, <1>4, <1>5 DEF Added
<1> QED
  BY <1>1, <1>6 DEF u

\* An added row keeps the others as they are.
LEMMA AddedSound ==
    ASSUME NEW t, Sound(t), Len(t.cells) < TableRows, NEW w \in Table!Widgets,
           \A i \in 1..Len(t.cells) : t.cells[i] # w, NEW u, u = Added(t, w)
    PROVE  /\ Sound(u) /\ Len(u.cells) = Len(t.cells) + 1
           /\ \A i \in 1..Len(t.cells) :
                 u.cells[i] = t.cells[i] /\ u.text[u.cells[i]] = t.text[t.cells[i]]
           /\ u.cells[Len(u.cells)] = w /\ u.text[w] = Table!EmptyText
           /\ u.data # <<>> /\ Table!Last(u.data).w = w
<1> USE DEF Added
<1> DEFINE n == Len(t.cells)
           d == [w |-> w, current |-> -1]
<1>1. /\ t.cells \in Seq(Table!Widgets) /\ t.data \in Seq(Entries)
      /\ t.text \in [Table!Widgets -> Table!Texts]
      /\ t.captured \in [Table!Widgets -> 0..TableRows]
      /\ n \in Nat /\ Len(t.data) = n /\ n < TableRows /\ TableRows \in Nat
  BY TableBounds DEF Sound, View, Paired
<1>2. d \in Entries
  BY DEF Entries
<1>3. /\ u.cells \in Seq(Table!Widgets) /\ Len(u.cells) = n + 1 /\ u.cells[n + 1] = w
      /\ \A i \in 1..n : u.cells[i] = t.cells[i]
  BY <1>1
<1>4. /\ u.data \in Seq(Entries) /\ Len(u.data) = n + 1 /\ u.data[n + 1] = d
      /\ \A i \in 1..n : u.data[i] = t.data[i]
  <2> HIDE DEF d
  <2> QED
    BY <1>1, <1>2 DEF d
<1>5. /\ u.text \in [Table!Widgets -> Table!Texts] /\ u.text[w] = Table!EmptyText
      /\ \A v \in Table!Widgets : v # w => u.text[v] = t.text[v]
  BY <1>1, TextsParsed
<1>6. /\ u.captured \in [Table!Widgets -> 0..TableRows] /\ u.captured[w] = n + 1
      /\ \A v \in Table!Widgets : v # w => u.captured[v] = t.captured[v]
  BY <1>1
<1>7. u \in View
  BY <1>3, <1>4, <1>5, <1>6 DEF View
<1>8. \A i \in 1..n : t.cells[i] \in Table!Widgets /\ t.cells[i] # w
  BY <1>1
<1>9. Paired(u)
  <2>1. \A i \in 1..n : u.cells[i] = u.data[i].w /\ u.captured[u.cells[i]] >= i
    BY <1>3, <1>4, <1>6, <1>8 DEF Sound, Paired
  <2>2. u.cells[n + 1] = u.data[n + 1].w /\ u.captured[u.cells[n + 1]] >= n + 1
    BY <1>1, <1>3, <1>4, <1>6
  <2>3. \A i \in 1..(n + 1) : i \in 1..n \/ i = n + 1
    BY <1>1
  <2> QED
    BY <1>1, <1>3, <1>4, <2>1, <2>2, <2>3 DEF Paired
<1>10. Apart(u)
  <2>1. \A i \in 1..(n + 1) : i \in 1..n \/ i = n + 1
    BY <1>1
  <2>2. \A i, j \in 1..n : u.cells[i] = u.cells[j] => i = j
    BY <1>3 DEF Sound, Apart
  <2> QED
    BY <1>3, <1>8, <2>1, <2>2 DEF Apart
<1>11. Told(u)
  <2> SUFFICES ASSUME NEW j \in 1..(n + 1), InPlace(u, j)
               PROVE  u.data[j].current = Table!ParsedBase10(u.text[u.cells[j]])
    BY <1>3 DEF Told
  <2>1. CASE j = n + 1
    <3>1. d.current = -1
      OBVIOUS
    <3> HIDE DEF d
    <3> QED
      BY <1>3, <1>4, <1>5, <2>1, <3>1, TextsParsed
  <2>2. CASE j \in 1..n
    <3>1. \A i \in 1..j : i \in 1..n
      BY <1>1, <2>2
    <3>2. InPlace(t, j)
      BY <1>3, <1>6, <1>8, <3>1 DEF InPlace
    <3>3. t.data[j].current = Table!ParsedBase10(t.text[t.cells[j]])
      BY <2>2, <3>2 DEF Sound, Told
    <3> QED
      BY <1>3, <1>4, <1>5, <1>8, <2>2, <3>3
  <2> QED
    BY <1>1, <2>1, <2>2
<1>12. u.data # <<>> /\ Table!Last(u.data).w = w
  <2>1. d.w = w
    OBVIOUS
  <2> HIDE DEF d
  <2>2. u.data # <<>>
    <3>1. Len(u.data) # 0 /\ Len(<<>>) = 0
      BY <1>1, <1>4
    <3> QED
      BY <3>1, Zenon
  <2>3. Table!Last(u.data) = u.data[n + 1]
    BY <1>4 DEF Table!Last
  <2> QED
    BY <1>4, <2>1, <2>2, <2>3
<1>13. \A i \in 1..n : u.text[u.cells[i]] = t.text[t.cells[i]]
  BY <1>3, <1>5, <1>8
<1> QED
  BY <1>3, <1>5, <1>7, <1>9, <1>10, <1>11, <1>12, <1>13 DEF Sound

\* setText on a row's editor: no other row's text is touched.
LEMMA TextSet ==
    ASSUME NEW t, Sound(t), NEW i \in 1..Len(t.cells), NEW x \in Table!Texts, NEW u,
           u = Table!setText(t, t.cells[i], x)
    PROVE  /\ Sound(u) /\ u.cells = t.cells
           /\ \A j \in 1..Len(t.cells) : j # i => u.text[t.cells[j]] = t.text[t.cells[j]]
           /\ Table!SameText(t.text[t.cells[i]], x) \/ u.text[t.cells[i]] = x
           /\ Table!SameText(t.text[t.cells[i]], x) => u = t
<1> DEFINE n == Len(t.cells)
           w == t.cells[i]
           c == t.captured[w]
           p == Table!ParsedBase10(x)
<1>1. /\ t.cells \in Seq(Table!Widgets) /\ t.data \in Seq(Entries)
      /\ t.text \in [Table!Widgets -> Table!Texts]
      /\ t.captured \in [Table!Widgets -> 0..TableRows]
      /\ n \in Nat /\ Len(t.data) = n /\ TableRows \in Nat
      /\ \A j \in 1..n : t.cells[j] \in Table!Widgets
  BY TableBounds DEF Sound, View, Paired
<1>2. w \in Table!Widgets /\ c \in Nat /\ c >= i /\ i \in Nat
  BY <1>1 DEF Sound, Paired
<1>3. p \in -1..255
  BY TextsParsed
<1>4. CASE Table!SameText(t.text[w], x)
  BY <1>4 DEF Table!setText
<1>5. CASE ~Table!SameText(t.text[w], x)
  <2>1. /\ u.cells = t.cells /\ u.captured = t.captured
        /\ u.text = [t.text EXCEPT ![w] = x]
        /\ u.data = IF c > n THEN t.data ELSE [t.data EXCEPT ![c].current = p]
        /\ u = [cells |-> u.cells, data |-> u.data, text |-> u.text, captured |-> u.captured]
    <3> DEFINE changed == [t EXCEPT !.text[w] = x]
    <3>1. t \in View
      BY DEF Sound
    <3>2. /\ changed \in View /\ changed.cells = t.cells /\ changed.data = t.data
          /\ changed.captured = t.captured /\ changed.text = [t.text EXCEPT ![w] = x]
      <4>1. changed = [t EXCEPT !.text = [t.text EXCEPT ![w] = x]]
        BY <1>1, <3>1 DEF View
      <4>2. [t.text EXCEPT ![w] = x] \in [Table!Widgets -> Table!Texts]
        BY <1>1, <1>2
      <4> HIDE DEF changed
      <4> QED
        BY <3>1, <4>1, <4>2 DEF View
    <3>3. u = IF c > n THEN changed ELSE [changed EXCEPT !.data[c].current = p]
      BY <1>1, <1>5 DEF Table!setText
    <3> HIDE DEF changed, p, c
    <3>4. CASE c > n
      BY <3>2, <3>3, <3>4 DEF View
    <3>5. CASE ~(c > n)
      <4>1. u = [changed EXCEPT !.data = [changed.data EXCEPT ![c].current = p]]
        BY <3>2, <3>3, <3>5 DEF View
      <4> QED
        BY <3>2, <3>5, <4>1 DEF View
    <3> QED
      BY <3>4, <3>5
  <2>2. /\ u.text \in [Table!Widgets -> Table!Texts] /\ u.text[w] = x
        /\ \A v \in Table!Widgets : v # w => u.text[v] = t.text[v]
    BY <1>1, <1>2, <2>1
  <2>3. /\ u.data \in Seq(Entries) /\ Len(u.data) = n
        /\ \A j \in 1..n : u.data[j].w = t.data[j].w
        /\ \A j \in 1..n : j # c => u.data[j] = t.data[j]
        /\ c \in 1..n => u.data[c].current = p
    <3>1. CASE c > n
      BY <1>1, <1>2, <2>1, <3>1
    <3>2. CASE c <= n
      <4>1. c \in 1..n /\ t.data[c] \in Entries
        BY <1>1, <1>2, <3>2
      <4>2. u.data = [t.data EXCEPT ![c] = [t.data[c] EXCEPT !.current = p]]
        BY <1>1, <1>2, <2>1, <3>2
      <4> DEFINE e == [t.data[c] EXCEPT !.current = p]
      <4>3. e \in Entries /\ e.w = t.data[c].w /\ e.current = p
        BY <1>3, <4>1 DEF Entries
      <4> HIDE DEF e, p, c
      <4>4. u.data = [t.data EXCEPT ![c] = e]
        BY <4>2 DEF e
      <4> QED
        BY <1>1, <4>1, <4>3, <4>4
    <3> QED
      BY <1>1, <1>2, <3>1, <3>2
  <2>4. u \in View
    BY <1>1, <2>1, <2>2, <2>3 DEF View
  <2>5. Paired(u)
    BY <2>1, <2>3 DEF Sound, Paired
  <2>6. Apart(u)
    BY <2>1 DEF Sound, Apart
  <2>7. Told(u)
    <3> SUFFICES ASSUME NEW j \in 1..n, InPlace(u, j)
                 PROVE  u.data[j].current = Table!ParsedBase10(u.text[u.cells[j]])
      BY <2>1 DEF Told
    <3>1. InPlace(t, j)
      BY <2>1 DEF InPlace
    <3>2. t.data[j].current = Table!ParsedBase10(t.text[t.cells[j]])
      BY <3>1 DEF Sound, Told
    <3>3. CASE j = i
      <4>1. c = i
        BY <1>2, <3>1, <3>3 DEF InPlace
      <4> QED
        BY <2>1, <2>2, <2>3, <3>3, <4>1
    <3>4. CASE j # i
      <4>1. t.cells[j] # w
        BY <3>4 DEF Sound, Apart
      <4>2. c # j
        <5>1. CASE i < j
          <6>1. i \in 1..j
            BY <1>2, <5>1
          <6> QED
            BY <3>1, <5>1, <6>1 DEF InPlace
        <5>2. CASE i > j
          BY <1>2, <5>2
        <5> QED
          BY <1>2, <3>4, <5>1, <5>2
      <4> QED
        BY <1>1, <2>1, <2>2, <2>3, <3>2, <4>1, <4>2
    <3> QED
      BY <3>3, <3>4
  <2>8. \A j \in 1..n : j # i => t.cells[j] # w
    BY DEF Sound, Apart
  <2> QED
    BY <1>1, <2>1, <2>2, <2>4, <2>5, <2>6, <2>7, <2>8, <1>5 DEF Sound
<1> QED
  BY <1>4, <1>5

\* One row of setTable, after i - 1 of them.
Restored(record) ==
    [i \in Nat |-> {t \in View : /\ Sound(t) /\ Len(t.cells) = i
                               /\ \A j \in 1..i : t.text[t.cells[j]] = record[j]}]

\* restoreRow restores one row more.
LEMMA RowRestored ==
    ASSUME Fits, NEW record \in Seq(Table!Texts), Len(record) <= TableRows,
           NEW i \in 1..Len(record), NEW t \in Restored(record)[i - 1]
    PROVE  Table!restoreRow(t, record[i]) \in Restored(record)[i]
<1> DEFINE added == Table!setupRow(Table!insertRow(t), Len(t.cells) + 1, 0)
           x == record[i]
<1>1. /\ i \in Nat \ {0} /\ i - 1 \in Nat /\ i <= TableRows /\ TableRows \in Nat
      /\ x \in Table!Texts
  BY TableBounds
<1>2. /\ Sound(t) /\ Len(t.cells) = i - 1
      /\ \A j \in 1..(i - 1) : t.text[t.cells[j]] = record[j]
  BY <1>1 DEF Restored
<1>3. Table!isRowVisible(Len(t.cells) + 1, 0)
  BY <1>1, <1>2, RowsFit
<1>4. PICK w \in Table!Widgets :
          /\ \A j \in 1..Len(t.cells) : t.cells[j] # w
          /\ added = Added(t, w)
  <2>1. Len(t.cells) < TableRows
    BY <1>1, <1>2
  <2> QED
    BY <1>2, <1>3, <2>1, AddedIs, Zenon
<1> HIDE DEF added, x
<1>5. /\ Sound(added) /\ Len(added.cells) = i
      /\ \A j \in 1..(i - 1) : /\ added.cells[j] = t.cells[j]
                               /\ added.text[added.cells[j]] = t.text[t.cells[j]]
      /\ added.cells[i] = w /\ added.text[w] = Table!EmptyText
      /\ added.data # <<>> /\ Table!Last(added.data).w = w
  <2>1. Len(t.cells) < TableRows
    BY <1>1, <1>2
  <2>2. /\ Sound(added) /\ Len(added.cells) = Len(t.cells) + 1
        /\ \A j \in 1..Len(t.cells) : /\ added.cells[j] = t.cells[j]
                                     /\ added.text[added.cells[j]] = t.text[t.cells[j]]
        /\ added.cells[Len(added.cells)] = w /\ added.text[w] = Table!EmptyText
        /\ added.data # <<>> /\ Table!Last(added.data).w = w
    <3>1. Sound(t) /\ w \in Table!Widgets /\ \A j \in 1..Len(t.cells) : t.cells[j] # w
      BY <1>2, <1>4
    <3> QED
      BY <1>4, <2>1, <3>1, AddedSound
  <2> QED
    BY <1>1, <1>2, <2>2
<1> DEFINE u == Table!setText(added, added.cells[i], x)
<1>6. Table!restoreRow(t, x) = u
  BY <1>5 DEF Table!restoreRow, added
<1>7. i \in 1..Len(added.cells)
  BY <1>1, <1>5
<1>8. /\ Sound(u) /\ u.cells = added.cells
      /\ \A j \in 1..Len(added.cells) : j # i => u.text[added.cells[j]] = added.text[added.cells[j]]
      /\ Table!SameText(added.text[added.cells[i]], x) \/ u.text[added.cells[i]] = x
      /\ Table!SameText(added.text[added.cells[i]], x) => u = added
  BY <1>1, <1>5, <1>7, TextSet
<1> HIDE DEF u
<1>9. Table!SameText(Table!EmptyText, x) => x = Table!EmptyText
  <2>1. Table!EmptyText.base = "none"
    BY DEF Table!EmptyText
  <2>2. "none" # "dec" /\ "none" # "hex"
    OBVIOUS
  <2>3. {Table!EmptyText.base, x.base} # {"dec", "hex"}
    <3>1. Table!EmptyText.base \in {Table!EmptyText.base, x.base}
      OBVIOUS
    <3>2. Table!EmptyText.base \notin {"dec", "hex"}
      BY <2>1, <2>2
    <3> QED
      BY <3>1, <3>2, Zenon
  <2> QED
    BY <2>3, Zenon DEF Table!SameText
<1>10. u.text[u.cells[i]] = x
  BY <1>5, <1>8, <1>9
<1>11. \A j \in 1..(i - 1) : u.text[u.cells[j]] = record[j]
  BY <1>1, <1>2, <1>5, <1>8
<1>12. \A j \in 1..i : u.text[u.cells[j]] = record[j]
  BY <1>1, <1>10, <1>11 DEF x
<1>13. u \in View
  BY <1>8 DEF Sound
<1> QED
  BY <1>1, <1>5, <1>6, <1>8, <1>12, <1>13 DEF Restored, x

\* A new table.
LEMMA EmptyViewSound == Sound(Table!EmptyView) /\ Len(Table!EmptyView.cells) = 0
<1> DEFINE e == Table!EmptyView
<1>1. e.cells = <<>> /\ e.data = <<>> /\ e.text \in [Table!Widgets -> Table!Texts]
  BY TextsParsed DEF Table!EmptyView
<1>2. e.captured \in [Table!Widgets -> 0..TableRows]
  BY TableBounds DEF Table!EmptyView
<1>3. e \in View
  BY <1>1, <1>2 DEF Table!EmptyView, View
<1>4. Len(e.cells) = 0 /\ Len(e.data) = 0
  BY <1>1
<1> HIDE DEF e
<1>5. Paired(e) /\ Apart(e) /\ Told(e)
  BY <1>4, TableBounds DEF Paired, Apart, Told
<1> QED
  BY <1>3, <1>4, <1>5 DEF Sound, e

\* setTable restores all rows of the record.
LEMMA TableSet ==
    ASSUME Fits, NEW record \in Seq(Table!Texts), Len(record) <= TableRows
    PROVE  Table!setTable(record) \in Restored(record)[Len(record)]
<1> DEFINE N == Len(record)
           V == Restored(record)
           Rounds(g) == [i \in 0..N |-> IF i = 0 THEN Table!EmptyView
                                         ELSE Table!restoreRow(g[i - 1], record[i])]
           after == CHOOSE g : g = Rounds(g)
           step == [p \in (UNION {V[i] : i \in 0..N}) \X (1..N) |->
                       Table!restoreRow(p[1], record[p[2]])]
<1>1. N \in Nat
  OBVIOUS
<1>2. Table!EmptyView \in V[0]
  BY EmptyViewSound DEF Restored, Sound
<1>3. \A i \in 1..N : \A t \in V[i - 1] : Table!restoreRow(t, record[i]) \in V[i]
  BY RowRestored
<1> HIDE DEF V, N
<1>4. \A i \in 1..N : \A t \in V[i - 1] : step[<<t, i>>] = Table!restoreRow(t, record[i])
  <2> TAKE i \in 1..N
  <2> TAKE t \in V[i - 1]
  <2>1. i - 1 \in 0..N
    BY <1>1
  <2>2. <<t, i>> \in (UNION {V[j] : j \in 0..N}) \X (1..N)
    BY <2>1
  <2> QED
    BY <2>2
<1> HIDE DEF step
<1>5. PICK f : Loop(f, N, Table!EmptyView, step)
  BY <1>1, RoundsAre
<1>6. f[0] = Table!EmptyView /\ \A i \in 1..N : f[i] = step[<<f[i - 1], i>>]
  <2>1. 0 \in 0..N /\ \A i \in 1..N : i \in 0..N /\ i # 0
    BY <1>1
  <2> QED
    BY <1>5, <2>1 DEF Loop
<1>7. \A i \in 0..N : f[i] \in V[i]
  <2>1. \A i \in 1..N : f[i - 1] \in V[i - 1] => f[i] \in V[i]
    BY <1>3, <1>4, <1>6
  <2> QED
    BY <1>1, <1>2, <1>6, <2>1, EveryRound
<1>8. \A i \in 1..N : f[i] = Table!restoreRow(f[i - 1], record[i])
  <2> TAKE i \in 1..N
  <2>1. i - 1 \in 0..N
    BY <1>1
  <2> QED
    BY <1>4, <1>6, <1>7, <2>1
<1>9. f = Rounds(f)
  <2> DEFINE A(i) == IF i = 0 THEN Table!EmptyView ELSE step[<<f[i - 1], i>>]
             B(i) == IF i = 0 THEN Table!EmptyView ELSE Table!restoreRow(f[i - 1], record[i])
  <2>1. \A i \in 0..N : A(i) = B(i)
    <3> TAKE i \in 0..N
    <3>1. i = 0 \/ i \in 1..N
      BY <1>1
    <3> QED
      BY <1>6, <1>8, <3>1
  <2>2. f = [i \in 0..N |-> A(i)]
    BY <1>5 DEF Loop
  <2> HIDE DEF A, B
  <2>3. f = [i \in 0..N |-> B(i)]
    BY <2>1, <2>2
  <2> QED
    BY <2>3 DEF B
<1>10. after = Rounds(after)
  <2> HIDE DEF Rounds
  <2> QED
    BY <1>9
<1>11. Table!setTable(record) = after[N]
  BY DEF Table!setTable, N
<1> HIDE DEF after
<1>12. after[0] = Table!EmptyView
       /\ \A i \in 1..N : after[i] = Table!restoreRow(after[i - 1], record[i])
  <2>1. 0 \in 0..N /\ \A i \in 1..N : i \in 0..N /\ i # 0
    BY <1>1
  <2> QED
    BY <1>10, <2>1
<1>13. \A i \in 0..N : after[i] \in V[i]
  BY <1>1, <1>2, <1>3, <1>12, EveryRound
<1>14. N \in 0..N
  BY <1>1
<1> QED
  BY <1>11, <1>13, <1>14 DEF V, N

-----------------------------------------------------------------------------

\* The address of a row rewritten in the base of the format box.
Rewritten(t, i, h) ==
    LET w == t.data[i].w
        n == Table!ParsedBase10(t.text[w])
    IN  IF n = Table!NoAddress THEN t
        ELSE Table!setText(t, w, IF h THEN Table!Hex(n) ELSE Table!Dec(n))

\* One address rewritten keeps the view sound.
LEMMA RowRewritten ==
    ASSUME NEW t, Sound(t), NEW i \in 1..Len(t.cells), NEW h
    PROVE  Sound(Rewritten(t, i, h)) /\ Rewritten(t, i, h).cells = t.cells
<1> DEFINE w == t.cells[i]
           n == Table!ParsedBase10(t.text[w])
           x == IF h THEN Table!Hex(n) ELSE Table!Dec(n)
<1>1. t.data[i].w = w /\ w \in Table!Widgets
  BY DEF Sound, Paired, View
<1>2. t.text[w] \in Table!Texts
  BY <1>1 DEF Sound, View
<1>3. n \in -1..255
  BY <1>2, TextsParsed
<1>4. Rewritten(t, i, h) = IF n = -1 THEN t ELSE Table!setText(t, w, x)
  BY <1>1 DEF Rewritten, Table!NoAddress
<1>5. CASE n = -1
  BY <1>4, <1>5
<1>6. CASE n # -1
  <2>1. x \in Table!Texts
    <3> HIDE DEF n
    <3>1. n \in 0..255
      BY <1>3, <1>6
    <3> QED
      BY <3>1, TextsParsed
  <2> DEFINE u == Table!setText(t, w, x)
  <2>2. Rewritten(t, i, h) = u
    BY <1>4, <1>6
  <2> HIDE DEF x
  <2>3. Sound(u) /\ u.cells = t.cells
    BY <2>1, TextSet
  <2> QED
    BY <2>2, <2>3
<1> QED
  BY <1>5, <1>6

\* The table as it is while its rows fit.
Kept ==
    /\ Sound(Table!Now)
    /\ hex \in BOOLEAN /\ scroll \in Table!ScrollRange(Len(cells))
    /\ saved \in Seq(Table!Texts) /\ Len(saved) <= TableRows

\* The view a handler leaves.
LEMMA Becoming ==
    ASSUME NEW t, Sound(t), Table!Becomes(t)
    PROVE  Sound(Table!Now)' /\ cells' = t.cells /\ text' = t.text
<1>1. t = [cells |-> t.cells, data |-> t.data, text |-> t.text, captured |-> t.captured]
  BY DEF Sound, View
<1>2. Table!Now' = t
  BY <1>1 DEF Table!Becomes, Table!Now
<1>3. Sound(Table!Now)' <=> Sound(Table!Now')
  BY DEF Sound, View, Paired, Apart, Told, InPlace
<1> QED
  BY <1>2, <1>3 DEF Table!Becomes

\* The parts of the view.
LEMMA NowIs ==
    /\ Table!Now.cells = cells /\ Table!Now.data = rowsData
    /\ Table!Now.text = text /\ Table!Now.captured = captured
  BY DEF Table!Now

\* addRow keeps it.
LEMMA AddRowKept == Fits /\ Kept /\ Table!addRow => Kept'
<1> SUFFICES ASSUME Fits, Kept, Table!addRow PROVE Kept'
  OBVIOUS
<1> DEFINE t == Table!Now
           n == Len(cells)
<1>1. Sound(t) /\ t.cells = cells /\ n < TableRows /\ n \in Nat /\ TableRows \in Nat
  BY NowIs, TableBounds DEF Kept, Table!addRow, Sound, View
<1>2. visibleRows \in Nat \ {0}
  BY TableBounds
<1>3. scroll \in Nat /\ scroll <= n + 1
  BY <1>1, <1>2 DEF Kept, Table!ScrollRange
<1>4. Table!isRowVisible(Len(t.cells) + 1, scroll)
  BY <1>1, <1>3, RowsFit
<1> HIDE DEF t
<1>5. PICK w \in Table!Widgets :
         /\ \A i \in 1..Len(t.cells) : t.cells[i] # w
         /\ Table!setupRow(Table!insertRow(t), Len(t.cells) + 1, scroll) = Added(t, w)
  <2>1. Len(t.cells) < TableRows
    BY <1>1
  <2> QED
    BY <1>1, <1>4, <2>1, AddedIs, Zenon
<1> DEFINE u == Added(t, w)
<1>6. Table!Becomes(u)
  BY <1>1, <1>5 DEF Table!addRow, t
<1> HIDE DEF u
<1>7. Sound(u) /\ Len(u.cells) = n + 1
  BY <1>1, <1>5, AddedSound DEF u
<1>8. Sound(Table!Now)' /\ Len(cells') = n + 1
  BY <1>6, <1>7, Becoming
<1>9. scroll' \in Table!ScrollRange(Len(cells'))
  <2>1. scroll' = scroll /\ scroll \in Table!ScrollRange(n)
    BY DEF Table!addRow, Kept
  <2> QED
    BY <1>1, <1>2, <1>3, <1>8, <2>1 DEF Table!ScrollRange
<1> QED
  BY <1>8, <1>9 DEF Kept, Table!addRow

\* A typed address keeps it.
LEMMA TypeAddressKept == Kept /\ Table!TypeAddress => Kept'
<1> SUFFICES ASSUME Kept, Table!TypeAddress PROVE Kept'
  OBVIOUS
<1> DEFINE t == Table!Now
<1>1. Sound(t) /\ t.cells = cells
  BY NowIs DEF Kept
<1>2. PICK i \in 1..Len(cells), n \in Typed :
          Table!Becomes(Table!setText(t, cells[i], Table!Dec(n)))
  BY DEF Table!TypeAddress
<1>3. Table!Dec(n) \in Table!Texts
  BY TableBounds, TextsParsed
<1> HIDE DEF t
<1> DEFINE u == Table!setText(t, t.cells[i], Table!Dec(n))
<1>4. Table!Becomes(u)
  BY <1>1, <1>2
<1>5. Sound(u) /\ u.cells = t.cells
  BY <1>1, <1>3, TextSet
<1> HIDE DEF u
<1>6. Sound(Table!Now)' /\ cells' = cells
  BY <1>1, <1>4, <1>5, Becoming
<1> QED
  BY <1>6 DEF Kept, Table!TypeAddress

\* Save keeps it.
LEMMA SaveKept == Kept /\ Table!Save => Kept'
<1> SUFFICES ASSUME Kept, Table!Save PROVE Kept'
  OBVIOUS
<1>1. Table!Now' = Table!Now /\ cells' = cells /\ hex' = hex /\ scroll' = scroll
  BY DEF Table!Save, Table!view, Table!Now
<1>2. Sound(Table!Now)'
  <2>1. Sound(Table!Now)' <=> Sound(Table!Now')
    BY DEF Sound, View, Paired, Apart, Told, InPlace
  <2> QED
    BY <1>1, <2>1 DEF Kept
<1>3. /\ Len(rowsData) \in Nat /\ Len(rowsData) <= TableRows
      /\ \A i \in 1..Len(rowsData) : text[rowsData[i].w] \in Table!Texts
  <2>1. /\ rowsData \in Seq(Entries) /\ text \in [Table!Widgets -> Table!Texts]
        /\ Len(cells) = Len(rowsData) /\ Len(cells) <= TableRows
    BY NowIs DEF Kept, Sound, View, Paired
  <2>2. \A i \in 1..Len(rowsData) : rowsData[i] \in Entries
    BY <2>1
  <2>3. \A i \in 1..Len(rowsData) : rowsData[i].w \in Table!Widgets
    BY <2>2 DEF Entries
  <2> QED
    BY <2>1, <2>3
<1>4. saved' \in Seq(Table!Texts) /\ Len(saved') <= TableRows
  <2> DEFINE m == Len(rowsData)
             A(i) == text[rowsData[i].w]
  <2>1. saved' = [i \in 1..m |-> A(i)]
    BY DEF Table!Save, Table!getTableRecord
  <2>2. m \in Nat /\ m <= TableRows /\ \A i \in 1..m : A(i) \in Table!Texts
    BY <1>3
  <2> HIDE DEF m, A
  <2>3. saved' \in [1..m -> Table!Texts]
    BY <2>1, <2>2
  <2> QED
    BY <2>2, <2>3
<1> QED
  BY <1>1, <1>2, <1>4 DEF Kept

\* setTable on what was saved keeps it, and shows the record.
LEMMA ReopenKept ==
    Fits /\ Kept /\ Table!Reopen =>
        Kept' /\ Len(cells') = Len(saved) /\ \A i \in 1..Len(saved) : Table!ShownIn(i)' = saved[i]
<1> SUFFICES ASSUME Fits, Kept, Table!Reopen
             PROVE  /\ Kept' /\ Len(cells') = Len(saved)
                    /\ \A i \in 1..Len(saved) : Table!ShownIn(i)' = saved[i]
  OBVIOUS
<1> DEFINE u == Table!setTable(saved)
<1>1. saved \in Seq(Table!Texts) /\ Len(saved) <= TableRows /\ saved' = saved
  BY DEF Kept, Table!Reopen
<1>2. u \in Restored(saved)[Len(saved)]
  BY <1>1, TableSet
<1>3. Table!Becomes(u) /\ hex' = TRUE /\ scroll' = 0
  BY DEF Table!Reopen
<1> HIDE DEF u
<1>4. /\ Sound(u) /\ Len(u.cells) = Len(saved)
      /\ \A i \in 1..Len(saved) : u.text[u.cells[i]] = saved[i]
  BY <1>1, <1>2 DEF Restored
<1>5. Sound(Table!Now)' /\ cells' = u.cells /\ text' = u.text
  BY <1>3, <1>4, Becoming
<1>6. 0 \in Table!ScrollRange(Len(cells'))
  BY <1>1, <1>4, <1>5, TableBounds DEF Table!ScrollRange
<1>7. \A i \in 1..Len(saved) : u.cells[i] \in Table!Widgets
  BY <1>4 DEF Sound, View
<1>8. \A i \in 1..Len(saved) : Table!ShownIn(i)' = saved[i]
  BY <1>4, <1>5, <1>7, TableBounds DEF Table!ShownIn, Table!Widgets, Table!NoWidgets
<1> QED
  BY <1>1, <1>3, <1>4, <1>5, <1>6, <1>8 DEF Kept

\* What is left of a sequence when one place is taken out.
LEMMA OneRemoved ==
    ASSUME NEW S, NEW s \in Seq(S), NEW g \in 1 .. Len(s)
    PROVE  /\ Table!RemoveAt(s, g) \in Seq(S)
           /\ Len(Table!RemoveAt(s, g)) = Len(s) - 1
           /\ \A i \in 1 .. (Len(s) - 1) :
                  Table!RemoveAt(s, g)[i] = s[IF i < g THEN i ELSE i + 1]
<1> DEFINE before == SubSeq(s, 1, g - 1)
           after == SubSeq(s, g + 1, Len(s))
<1>1. PICK n \in Nat : n = Len(s)
  OBVIOUS
<1>2. \A i \in 1 .. n : s[i] \in S
  BY <1>1, LenProperties
<1>3. /\ before \in Seq(S) /\ Len(before) = g - 1
      /\ \A i \in 1 .. (g - 1) : before[i] = s[i]
  <2>1. \A i \in 1 .. (g - 1) : s[i] \in S
    BY <1>1, <1>2
  <2>2. /\ before \in Seq(S)
        /\ Len(before) = IF 1 <= g - 1 THEN (g - 1) - 1 + 1 ELSE 0
        /\ \A i \in 1 .. (g - 1) - 1 + 1 : before[i] = s[1 + i - 1]
    BY <1>1, <2>1, SubSeqProperties
  <2> HIDE DEF before
  <2> QED
    BY <1>1, <2>2
<1>4. /\ after \in Seq(S) /\ Len(after) = n - g
      /\ \A i \in 1 .. (n - g) : after[i] = s[g + i]
  <2>1. \A i \in (g + 1) .. n : s[i] \in S
    BY <1>1, <1>2
  <2>2. /\ after \in Seq(S)
        /\ Len(after) = IF g + 1 <= n THEN n - (g + 1) + 1 ELSE 0
        /\ \A i \in 1 .. n - (g + 1) + 1 : after[i] = s[(g + 1) + i - 1]
    BY <1>1, <2>1, SubSeqProperties
  <2> HIDE DEF after
  <2>3. \A i \in 1 .. (n - g) : after[i] = s[g + i]
    <3> SUFFICES ASSUME NEW i \in 1 .. (n - g) PROVE after[i] = s[g + i]
      OBVIOUS
    <3>1. i \in 1 .. n - (g + 1) + 1 /\ (g + 1) + i - 1 = g + i
      BY <1>1
    <3> QED
      BY <2>2, <3>1
  <2> QED
    BY <1>1, <2>2, <2>3
<1>5. Table!RemoveAt(s, g) = before \o after
  BY DEF Table!RemoveAt
<1> HIDE DEF before, after
<1>6. /\ before \o after \in Seq(S) /\ Len(before \o after) = n - 1
      /\ \A i \in 1 .. (n - 1) :
             (before \o after)[i] = IF i <= g - 1 THEN before[i] ELSE after[i - (g - 1)]
  <2>1. /\ before \o after \in Seq(S) /\ Len(before \o after) = Len(before) + Len(after)
        /\ \A i \in 1 .. Len(before) + Len(after) :
               (before \o after)[i] =
                   IF i <= Len(before) THEN before[i] ELSE after[i - Len(before)]
    BY <1>3, <1>4, ConcatProperties
  <2>2. Len(before) + Len(after) = n - 1
    BY <1>1, <1>3, <1>4
  <2> QED
    BY <1>3, <2>1, <2>2
<1>7. \A i \in 1 .. (n - 1) : (before \o after)[i] = s[IF i < g THEN i ELSE i + 1]
  <2> SUFFICES ASSUME NEW i \in 1 .. (n - 1)
               PROVE  (before \o after)[i] = s[IF i < g THEN i ELSE i + 1]
    OBVIOUS
  <2>1. CASE i < g
    <3>1. i \in 1 .. (g - 1) /\ i <= g - 1
      BY <1>1, <2>1
    <3> QED
      BY <1>3, <1>6, <2>1, <3>1
  <2>2. CASE ~(i < g)
    <3>1. i - (g - 1) \in 1 .. (n - g) /\ ~(i <= g - 1) /\ g + (i - (g - 1)) = i + 1
      BY <1>1, <2>2
    <3> QED
      BY <1>3, <1>4, <1>6, <2>2, <3>1
  <2> QED
    BY <2>1, <2>2
<1> QED
  BY <1>1, <1>5, <1>6, <1>7

\* deleteRow keeps it.
LEMMA DeleteKept == Kept /\ Table!DeleteSomeRow => Kept'
<1> SUFFICES ASSUME Kept, Table!DeleteSomeRow PROVE Kept'
  OBVIOUS
<1>1. PICK row \in 1..Len(cells) : Table!deleteRow(row)
  BY DEF Table!DeleteSomeRow
<1> DEFINE n == Len(cells)
           w == cells[row]
           u == Table!Now'
           old(i) == IF i < row THEN i ELSE i + 1
<1>2. /\ cells \in Seq(Table!Widgets) /\ rowsData \in Seq(Entries) /\ n \in Nat
      /\ text \in [Table!Widgets -> Table!Texts]
      /\ captured \in [Table!Widgets -> 0..TableRows]
      /\ Len(rowsData) = n /\ n <= TableRows /\ TableRows \in Nat /\ row \in 1..n
      /\ \A i \in 1..n : cells[i] \in Table!Widgets /\ cells[i] = rowsData[i].w
      /\ \A i \in 1..n : captured[cells[i]] \in Nat /\ captured[cells[i]] >= i
      /\ \A i, j \in 1..n : cells[i] = cells[j] => i = j
  <2>1. /\ cells \in Seq(Table!Widgets) /\ rowsData \in Seq(Entries)
        /\ text \in [Table!Widgets -> Table!Texts]
        /\ captured \in [Table!Widgets -> 0..TableRows]
        /\ n \in Nat /\ Len(rowsData) = n /\ n <= TableRows /\ TableRows \in Nat
    BY NowIs, TableBounds DEF Kept, Sound, View, Paired
  <2>2. \A i \in 1..n : cells[i] \in Table!Widgets
    BY <2>1
  <2>3. /\ \A i \in 1..n : cells[i] = rowsData[i].w /\ captured[cells[i]] >= i
        /\ \A i, j \in 1..n : cells[i] = cells[j] => i = j
    BY NowIs DEF Kept, Sound, Paired, Apart
  <2>4. \A i \in 1..n : captured[cells[i]] \in Nat
    BY <2>1, <2>2
  <2> QED
    BY <2>1, <2>2, <2>3, <2>4
<1>3. /\ u.cells = Table!RemoveAt(cells, row) /\ u.data = Table!RemoveAt(rowsData, row)
      /\ u.text = [text EXCEPT ![w] = Table!EmptyText]
      /\ u.captured = [captured EXCEPT ![w] = 0]
      /\ u = [cells |-> u.cells, data |-> u.data, text |-> u.text, captured |-> u.captured]
      /\ cells' = u.cells
  BY <1>1 DEF Table!deleteRow, Table!Now
<1> HIDE DEF u
<1>4. /\ u.cells \in Seq(Table!Widgets) /\ Len(u.cells) = n - 1
      /\ \A i \in 1..(n - 1) : u.cells[i] = cells[old(i)]
  <2> DEFINE r == Table!RemoveAt(cells, row)
  <2>1. cells \in Seq(Table!Widgets) /\ row \in 1..Len(cells) /\ Len(cells) = n
    BY <1>2
  <2>2. /\ r \in Seq(Table!Widgets) /\ Len(r) = Len(cells) - 1
        /\ \A i \in 1..(Len(cells) - 1) : r[i] = cells[IF i < row THEN i ELSE i + 1]
    BY <2>1, OneRemoved, Zenon
  <2>3. u.cells = r
    BY <1>3
  <2> HIDE DEF r, n
  <2> QED
    BY <2>1, <2>2, <2>3
<1>5. /\ u.data \in Seq(Entries) /\ Len(u.data) = n - 1
      /\ \A i \in 1..(n - 1) : u.data[i] = rowsData[old(i)]
  <2> DEFINE r == Table!RemoveAt(rowsData, row)
  <2>1. rowsData \in Seq(Entries) /\ row \in 1..Len(rowsData) /\ Len(rowsData) = n
    BY <1>2
  <2>2. /\ r \in Seq(Entries) /\ Len(r) = Len(rowsData) - 1
        /\ \A i \in 1..(Len(rowsData) - 1) : r[i] = rowsData[IF i < row THEN i ELSE i + 1]
    BY <2>1, OneRemoved, Zenon
  <2>3. u.data = r
    BY <1>3
  <2> HIDE DEF r, n
  <2> QED
    BY <2>1, <2>2, <2>3
<1>6. \A i \in 1..(n - 1) : old(i) \in 1..n /\ old(i) >= i /\ old(i) # row
  BY <1>2
<1>7. \A i, j \in 1..(n - 1) : old(i) = old(j) => i = j
  BY <1>2
<1>8. \A i \in 1..(n - 1) : i < row => old(i) = i
  BY <1>2
<1>9. \A i \in 1..(n - 1) : i >= row => old(i) = i + 1
  BY <1>2
<1> HIDE DEF old
<1>10. \A i \in 1..(n - 1) : cells[old(i)] # w
  BY <1>2, <1>6
<1>11. /\ u.text \in [Table!Widgets -> Table!Texts]
       /\ \A v \in Table!Widgets : v # w => u.text[v] = text[v]
  <2>1. /\ text \in [Table!Widgets -> Table!Texts] /\ Table!EmptyText \in Table!Texts
        /\ u.text = [text EXCEPT ![w] = Table!EmptyText]
    BY <1>2, <1>3, TextsParsed
  <2> HIDE DEF w
  <2> QED
    BY <2>1
<1>12. /\ u.captured \in [Table!Widgets -> 0..TableRows]
       /\ \A v \in Table!Widgets : v # w => u.captured[v] = captured[v]
  BY <1>2, <1>3
<1>13. /\ \A i \in 1..(n - 1) : u.text[u.cells[i]] = text[cells[old(i)]]
       /\ \A i \in 1..(n - 1) : u.captured[u.cells[i]] = captured[cells[old(i)]]
  BY <1>2, <1>4, <1>6, <1>10, <1>11, <1>12
<1>14. u \in View
  BY <1>3, <1>4, <1>5, <1>11, <1>12 DEF View
<1>15. Paired(u)
  <2>1. \A i \in 1..(n - 1) : u.cells[i] = u.data[i].w
    BY <1>2, <1>4, <1>5, <1>6
  <2>2. \A i \in 1..(n - 1) : u.captured[u.cells[i]] >= i
    <3> TAKE i \in 1..(n - 1)
    <3>1. old(i) \in 1..n /\ old(i) >= i
      BY <1>6
    <3>2. captured[cells[old(i)]] \in Nat /\ captured[cells[old(i)]] >= old(i)
      BY <1>2, <3>1
    <3> QED
      BY <1>2, <1>13, <3>1, <3>2
  <2>3. Len(u.cells) = Len(u.data) /\ Len(u.cells) <= TableRows
    BY <1>2, <1>4, <1>5
  <2> HIDE DEF n
  <2> QED
    BY <1>4, <2>1, <2>2, <2>3 DEF Paired
<1>16. Apart(u)
  <2> SUFFICES ASSUME NEW i \in 1..(n - 1), NEW j \in 1..(n - 1), u.cells[i] = u.cells[j]
               PROVE  i = j
    BY <1>4 DEF Apart
  <2>1. old(i) = old(j)
    BY <1>2, <1>4, <1>6
  <2> QED
    BY <1>7, <2>1
<1>17. Told(u)
  <2> SUFFICES ASSUME NEW j \in 1..(n - 1), InPlace(u, j)
               PROVE  u.data[j].current = Table!ParsedBase10(u.text[u.cells[j]])
    BY <1>4 DEF Told
  <2>1. j < row
    <3> SUFFICES ASSUME j >= row PROVE FALSE
      BY <1>2
    <3>1. row \in 1..j /\ row \in 1..(n - 1)
      BY <1>2
    <3>2. u.captured[u.cells[row]] = row
      BY <3>1 DEF InPlace
    <3>3. old(row) = row + 1 /\ row + 1 \in 1..n
      BY <1>2, <1>9, <3>1
    <3>4. captured[cells[row + 1]] \in Nat /\ captured[cells[row + 1]] >= row + 1
      BY <1>2, <3>3
    <3> QED
      BY <1>2, <1>13, <3>1, <3>2, <3>3, <3>4
  <2>2. \A i \in 1..j : i \in 1..(n - 1) /\ old(i) = i
    BY <1>2, <1>8, <2>1
  <2>3. InPlace(Table!Now, j)
    <3> SUFFICES ASSUME NEW i \in 1..j PROVE captured[cells[i]] = i
      BY NowIs DEF InPlace
    <3>1. u.captured[u.cells[i]] = i
      BY DEF InPlace
    <3> QED
      BY <1>13, <2>2, <3>1
  <2>4. j \in 1..j /\ j \in 1..n
    BY <1>2
  <2>5. rowsData[j].current = Table!ParsedBase10(text[cells[j]])
    BY <2>3, <2>4, NowIs DEF Kept, Sound, Told
  <2> QED
    BY <1>5, <1>13, <2>2, <2>4, <2>5
<1>18. Sound(Table!Now)'
  <2>1. Sound(Table!Now)' <=> Sound(Table!Now')
    BY DEF Sound, View, Paired, Apart, Told, InPlace
  <2> QED
    BY <1>14, <1>15, <1>16, <1>17, <2>1 DEF Sound, u
<1>19. scroll' \in Table!ScrollRange(Len(cells'))
  <2>1. scroll' = Table!Clamped(scroll, n - 1)
    BY <1>1, <1>3, <1>4 DEF Table!deleteRow
  <2>2. scroll \in Table!ScrollRange(n) /\ visibleRows \in Nat \ {0}
    BY TableBounds DEF Kept
  <2>3. Len(cells') = n - 1
    BY <1>3, <1>4
  <2> HIDE DEF n
  <2>4. CASE scroll \in Table!ScrollRange(n - 1)
    BY <2>1, <2>3, <2>4 DEF Table!Clamped
  <2>5. CASE scroll \notin Table!ScrollRange(n - 1)
    <3>1. scroll' = scroll - 1
      BY <2>1, <2>5 DEF Table!Clamped
    <3> QED
      BY <1>2, <2>2, <2>3, <2>5, <3>1 DEF Table!ScrollRange
  <2> QED
    BY <2>4, <2>5
<1>20. hex' = hex /\ saved' = saved
  BY <1>1 DEF Table!deleteRow
<1> QED
  BY <1>18, <1>19, <1>20 DEF Kept

\* The format box keeps it.
LEMMA SwitchFormatKept == Kept /\ Table!SwitchFormat => Kept'
<1> SUFFICES ASSUME Kept, Table!SwitchFormat PROVE Kept'
  OBVIOUS
<1> DEFINE N == Len(rowsData)
           V == [i \in Nat |-> {t \in View : Sound(t) /\ t.cells = cells}]
           Rounds(g) == [i \in 0..N |-> IF i = 0 THEN Table!Now ELSE Rewritten(g[i - 1], i, hex')]
           after == CHOOSE g : g = Rounds(g)
           step == [p \in (UNION {V[i] : i \in 0..N}) \X (1..N) |-> Rewritten(p[1], p[2], hex')]
<1>1. N \in Nat /\ N = Len(cells)
  BY NowIs DEF Kept, Sound, View, Paired
<1>2. Table!Now \in V[0]
  BY NowIs DEF Kept, Sound
<1>3. \A i \in 1..N : \A t \in V[i - 1] : Rewritten(t, i, hex') \in V[i]
  <2> TAKE i \in 1..N
  <2> TAKE t \in V[i - 1]
  <2>1. i - 1 \in Nat /\ i \in Nat
    BY <1>1
  <2>2. Sound(t) /\ t.cells = cells
    BY <2>1
  <2>3. i \in 1..Len(t.cells)
    BY <1>1, <2>2
  <2> DEFINE u == Rewritten(t, i, hex')
  <2>4. Sound(u) /\ u.cells = cells
    BY <2>2, <2>3, RowRewritten
  <2> HIDE DEF u
  <2>5. u \in View
    BY <2>4 DEF Sound
  <2> QED
    BY <2>1, <2>4, <2>5 DEF u
<1> HIDE DEF V, N
<1>4. \A i \in 1..N : \A t \in V[i - 1] : step[<<t, i>>] = Rewritten(t, i, hex')
  <2> TAKE i \in 1..N
  <2> TAKE t \in V[i - 1]
  <2>1. i - 1 \in 0..N
    BY <1>1
  <2>2. <<t, i>> \in (UNION {V[j] : j \in 0..N}) \X (1..N)
    BY <2>1
  <2> QED
    BY <2>2
<1> HIDE DEF step
<1>5. PICK f : Loop(f, N, Table!Now, step)
  BY <1>1, RoundsAre
<1>6. f[0] = Table!Now /\ \A i \in 1..N : f[i] = step[<<f[i - 1], i>>]
  <2>1. 0 \in 0..N /\ \A i \in 1..N : i \in 0..N /\ i # 0
    BY <1>1
  <2> QED
    BY <1>5, <2>1 DEF Loop
<1>7. \A i \in 0..N : f[i] \in V[i]
  <2>1. \A i \in 1..N : f[i - 1] \in V[i - 1] => f[i] \in V[i]
    BY <1>3, <1>4, <1>6
  <2> QED
    BY <1>1, <1>2, <1>6, <2>1, EveryRound
<1>8. \A i \in 1..N : f[i] = Rewritten(f[i - 1], i, hex')
  <2> TAKE i \in 1..N
  <2>1. i - 1 \in 0..N
    BY <1>1
  <2> QED
    BY <1>4, <1>6, <1>7, <2>1
<1>9. f = Rounds(f)
  <2> DEFINE A(i) == IF i = 0 THEN Table!Now ELSE step[<<f[i - 1], i>>]
             B(i) == IF i = 0 THEN Table!Now ELSE Rewritten(f[i - 1], i, hex')
  <2>1. \A i \in 0..N : A(i) = B(i)
    <3> TAKE i \in 0..N
    <3>1. i = 0 \/ i \in 1..N
      BY <1>1
    <3> QED
      BY <1>6, <1>8, <3>1
  <2>2. f = [i \in 0..N |-> A(i)]
    BY <1>5 DEF Loop
  <2> HIDE DEF A, B
  <2>3. f = [i \in 0..N |-> B(i)]
    BY <2>1, <2>2
  <2> QED
    BY <2>3 DEF B
<1>10. after = Rounds(after)
  <2> HIDE DEF Rounds
  <2> QED
    BY <1>9
<1>11. Table!Becomes(after[N])
  BY DEF Table!SwitchFormat, N, Rewritten
<1> HIDE DEF after
<1>12. after[0] = Table!Now
       /\ \A i \in 1..N : after[i] = Rewritten(after[i - 1], i, hex')
  <2>1. 0 \in 0..N /\ \A i \in 1..N : i \in 0..N /\ i # 0
    BY <1>1
  <2> QED
    BY <1>10, <2>1
<1>13. \A i \in 0..N : after[i] \in V[i]
  <2>1. \A i \in 1..N : after[i - 1] \in V[i - 1] => after[i] \in V[i]
    BY <1>3, <1>12
  <2> QED
    BY <1>1, <1>2, <1>12, <2>1, EveryRound
<1>14. N \in 0..N
  BY <1>1
<1>15. Sound(after[N]) /\ after[N].cells = cells
  BY <1>1, <1>13, <1>14 DEF V
<1>16. Sound(Table!Now)' /\ cells' = cells
  <2> DEFINE u == after[N]
  <2>1. Sound(u) /\ u.cells = cells /\ Table!Becomes(u)
    BY <1>11, <1>15
  <2> HIDE DEF u
  <2> QED
    BY <2>1, Becoming
<1>17. hex' \in BOOLEAN /\ scroll' = scroll /\ saved' = saved
  BY DEF Table!SwitchFormat, Kept
<1> QED
  BY <1>16, <1>17 DEF Kept

\* setupVisibleRows, which finds no row without widgets, keeps it.
LEMMA ScrollKept == Kept /\ Table!Scroll => Kept'
<1> SUFFICES ASSUME Kept, Table!Scroll PROVE Kept'
  OBVIOUS
<1> DEFINE N == Len(cells)
           Setup(t, row) ==
               IF t.cells[row] = Table!NoWidgets THEN Table!setupRow(t, row, scroll') ELSE t
           Rounds(g) == [row \in 0..N |-> IF row = 0 THEN Table!Now ELSE Setup(g[row - 1], row)]
           after == CHOOSE g : g = Rounds(g)
           f == [row \in 0..N |-> Table!Now]
           V == [i \in Nat |-> {Table!Now}]
<1>1. /\ N \in Nat
      /\ \A row \in 1..N : Table!Now.cells[row] \in Table!Widgets
  BY NowIs DEF Kept, Sound, View
<1>2. \A row \in 1..N : Table!Now.cells[row] # Table!NoWidgets
  BY <1>1, TableBounds DEF Table!Widgets, Table!NoWidgets
<1>3. \A row \in 1..N : Setup(Table!Now, row) = Table!Now
  BY <1>2
<1> HIDE DEF N, Setup
<1>4. f = Rounds(f)
  <2> DEFINE A(row) == Table!Now
             B(row) == IF row = 0 THEN Table!Now ELSE Setup(f[row - 1], row)
  <2>1. \A row \in 0..N : A(row) = B(row)
    <3> TAKE row \in 0..N
    <3>1. row = 0 \/ (row \in 1..N /\ row - 1 \in 0..N)
      BY <1>1
    <3> QED
      BY <1>3, <3>1
  <2>2. f = [row \in 0..N |-> A(row)]
    OBVIOUS
  <2> HIDE DEF A, B, f
  <2>3. f = [row \in 0..N |-> B(row)]
    BY <2>1, <2>2
  <2> QED
    BY <2>3 DEF B
<1>5. after = Rounds(after)
  <2> HIDE DEF Rounds, f
  <2> QED
    BY <1>4
<1>6. Table!Becomes(after[N])
  BY DEF Table!Scroll, N, Setup
<1> HIDE DEF after
<1>7. after[0] = Table!Now /\ \A row \in 1..N : after[row] = Setup(after[row - 1], row)
  <2>1. 0 \in 0..N /\ \A row \in 1..N : row \in 0..N /\ row # 0
    BY <1>1
  <2> QED
    BY <1>5, <2>1
<1>8. \A row \in 0..N : after[row] \in V[row]
  <2>1. V[0] = {Table!Now} /\ \A row \in 1..N : V[row] = {Table!Now} /\ V[row - 1] = {Table!Now}
    BY <1>1
  <2> HIDE DEF V
  <2>2. after[0] \in V[0]
    BY <1>7, <2>1
  <2>3. \A row \in 1..N : after[row - 1] \in V[row - 1] => after[row] \in V[row]
    BY <1>3, <1>7, <2>1
  <2> QED
    BY <1>1, <2>2, <2>3, EveryRound
<1>9. after[N] = Table!Now
  BY <1>1, <1>8
<1>10. Table!Now' = Table!Now /\ cells' = cells
  BY <1>6, <1>9, NowIs DEF Table!Becomes, Table!Now
<1>11. Sound(Table!Now)'
  <2>1. Sound(Table!Now)' <=> Sound(Table!Now')
    BY DEF Sound, View, Paired, Apart, Told, InPlace
  <2> QED
    BY <1>10, <2>1 DEF Kept
<1>12. scroll' \in Table!ScrollRange(Len(cells')) /\ hex' = hex /\ saved' = saved
  BY <1>10 DEF Table!Scroll
<1> QED
  BY <1>11, <1>12 DEF Kept

-----------------------------------------------------------------------------
(* Both tables, together *)

\* RowsMatchData follows from it.
LEMMA TableRowsMatch == Kept => Table!RowsMatchData
<1> SUFFICES ASSUME Kept PROVE Table!RowsMatchData
  OBVIOUS
<1> DEFINE n == Len(cells)
<1>1. /\ cells \in Seq(Table!Widgets) /\ rowsData \in Seq(Entries) /\ n \in Nat
      /\ text \in [Table!Widgets -> Table!Texts]
      /\ captured \in [Table!Widgets -> 0..TableRows]
      /\ Len(rowsData) = n /\ n <= TableRows
      /\ \A i \in 1..n : cells[i] = rowsData[i].w
  BY NowIs DEF Kept, Sound, View, Paired
<1>2. Table!TypeOK
  <2>1. cells \in Seq(Table!Widgets \cup {Table!NoWidgets})
    <3>1. cells \in [1..n -> Table!Widgets]
      BY <1>1
    <3>2. cells \in [1..n -> Table!Widgets \cup {Table!NoWidgets}]
      BY <3>1
    <3> HIDE DEF n
    <3> QED
      BY <1>1, <3>2
  <2> QED
    BY <1>1, <2>1 DEF Kept, Table!TypeOK, Entries
<1>3. ASSUME Table!SlotsInPlace, NEW d \in Table!ToSet(rowsData)
      PROVE  d.current = Table!ParsedBase10(text[d.w])
  <2>1. PICK j \in 1..n : rowsData[j] = d
    BY <1>1 DEF Table!ToSet
  <2>2. \A i \in 1..n : captured[cells[i]] = i
    BY <1>1, <1>3 DEF Table!SlotsInPlace
  <2>3. InPlace(Table!Now, j)
    BY <1>1, <2>2, NowIs DEF InPlace
  <2>4. rowsData[j].current = Table!ParsedBase10(text[cells[j]])
    BY <2>3, NowIs DEF Kept, Sound, Told
  <2> QED
    BY <1>1, <2>1, <2>4
<1> QED
  BY <1>1, <1>2, <1>3, Zenon DEF Table!RowsMatchData

\* It holds in the beginning.
LEMMA TableBegins == Table!Init => Kept
<1> SUFFICES ASSUME Table!Init PROVE Kept
  OBVIOUS
<1>1. Table!Now = Table!EmptyView
  BY DEF Table!Init, Table!Now, Table!EmptyView
<1>2. Sound(Table!Now)
  BY <1>1, EmptyViewSound
<1>3. Len(cells) = 0 /\ Len(saved) = 0 /\ saved \in Seq(Table!Texts) /\ scroll = 0 /\ hex = TRUE
  BY DEF Table!Init
<1>4. scroll \in Table!ScrollRange(Len(cells))
  BY <1>3, TableBounds DEF Table!ScrollRange
<1> QED
  BY <1>2, <1>3, <1>4, TableBounds DEF Kept

\* Every step of the table keeps it.
LEMMA TableStep == Fits /\ Kept /\ [Table!Next]_tableVars => Kept'
<1> SUFFICES ASSUME Fits, Kept, [Table!Next]_tableVars PROVE Kept'
  OBVIOUS
<1>1. CASE UNCHANGED tableVars
  <2>1. Table!Now' = Table!Now
    BY <1>1 DEF tableVars, Table!Now
  <2>2. Sound(Table!Now)' <=> Sound(Table!Now')
    BY DEF Sound, View, Paired, Apart, Told, InPlace
  <2> QED
    BY <1>1, <2>1, <2>2 DEF Kept, tableVars
<1> QED
  BY <1>1, AddRowKept, TypeAddressKept, ScrollKept, DeleteKept, SwitchFormatKept, SaveKept,
     ReopenKept DEF Table!Next

\* RowsKeepTheirData: wherever the rows of the table fit in its view and the two rows
\* more that count as visible.
THEOREM RowsKeepTheirDataAlways == ASSUME Fits PROVE TablesSpec => RowsKeepTheirData
<1>1. TablesInit => Kept /\ CoilTypes
  BY TableBegins, CoilsInit DEF TablesInit
<1>2. Kept /\ CoilTypes /\ [TablesNext]_<<side, vars, tableVars, holdingVars>>
          => Kept' /\ CoilTypes'
  <2> SUFFICES ASSUME Kept, CoilTypes, [TablesNext]_<<side, vars, tableVars, holdingVars>>
               PROVE  Kept' /\ CoilTypes'
    OBVIOUS
  <2>1. [Table!Next]_tableVars /\ [Next]_vars
    BY DEF TablesNext, Edited, Refreshed, Held
  <2> QED
    BY <2>1, TableStep, CoilsStep
<1>3. Kept /\ CoilTypes => Table!RowsMatchData /\ RangesAreTheRuns
  BY TableRowsMatch, CoilsTyped
<1>4. Kept => [Table!Reopen => Len(cells') = Len(saved)
                   /\ \A i \in 1..Len(saved) : Table!ShownIn(i)' = saved[i]]_Table!vars
  BY ReopenKept
<1> QED
  BY <1>1, <1>2, <1>3, <1>4, PTL DEF TablesSpec, RowsKeepTheirData, Table!RestoreShowsTheRecord
=============================================================================
