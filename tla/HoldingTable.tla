----------------------------- MODULE HoldingTable -----------------------------
(***************************************************************************)
(* The table of holding registers of a Modbus window: the value of a row   *)
(* is a line of text with three buttons (TtTableView.cpp), which the link  *)
(* enables (modbus_window.cpp), which the answers of the slave overwrite,  *)
(* and whose confirmed text is written through the master                  *)
(* (core/modbus_client.cpp).  How the master schedules its requests is the *)
(* matter of ModbusMaster; here they are answered in order.  The rows are  *)
(* all in view, and keep the addresses typed into them.                    *)
(***************************************************************************)
EXTENDS Integers, Sequences, SequencesExt

CONSTANTS
    Registers,  \* the addresses of the registers
    Values,     \* what a register can hold, and a user types
    MaxRows,    \* bound: the rows of the table
    MaxReads,   \* bound: the reads and answers under way
    MaxClicks,  \* bound: clicks on the button that opens and closes
    MaxTurns    \* bound: what the user does in the rows, and the slave by itself

VARIABLES
    rows,       \* rowsData_: the address and the widgets of each row
    device,     \* modbusDevice and its state
    opened,     \* opened_
    ending,     \* calls of disconnectModbus waiting for the worker's thread
    locked,     \* setControlState(false): the settings and the new rows are locked
    refreshing, \* refresh_timer_ is active
    register,   \* the registers of the slave
    reads, answers, writes,   \* under way
    clicks, turns,
    reconnected,\* a text confirmed without a link has opened one
    crashed     \* a null modbusDevice was used

link == <<device, opened, ending, clicks, reconnected, crashed>>
traffic == <<register, reads, answers, writes>>
screen == <<rows, locked, refreshing>>
vars == <<screen, link, traffic, turns>>

NoText == -1
Number(text) == IF text = NoText THEN 0 ELSE text

Init ==
    /\ rows = <<>>
    /\ device = "none" /\ opened = FALSE /\ ending = 0
    /\ locked = FALSE /\ refreshing = FALSE
    /\ register \in [Registers -> Values]
    /\ reads = <<>> /\ answers = <<>> /\ writes = <<>>
    /\ clicks = 0 /\ turns = 0
    /\ reconnected = FALSE /\ crashed = FALSE

Turn == turns < MaxTurns /\ turns' = turns + 1

-----------------------------------------------------------------------------
(* The rows *)

\* The widgets of a new row are enabled, whatever the link does.  Rows are added
\* while the window is closed.
setupRow(address) ==
    /\ Len(rows) < MaxRows /\ ~locked
    /\ rows' = Append(rows, [address |-> address, enabled |-> TRUE, readOnly |-> TRUE,
                             editing |-> FALSE, value |-> NoText, originalValue |-> NoText])
    /\ UNCHANGED <<locked, refreshing, link, traffic, turns>>

\* Wrong: the text is not made read-only for a link.
setEnableWritable(enable) ==
    rows' = [i \in DOMAIN rows |-> [rows[i] EXCEPT !.enabled = ~enable, !.readOnly = FALSE]]

\* For a link the values are enabled, and without one disabled; the buttons that
\* are shown go on being shown.
setEnable(enable) ==
    rows' = [i \in DOMAIN rows |-> [rows[i] EXCEPT !.enabled = ~enable, !.readOnly = ~enable]]

\* editButton: the two other buttons take its place.
ClickEdit(i) ==
    /\ rows[i].enabled /\ ~rows[i].editing /\ Turn
    /\ rows' = [rows EXCEPT ![i].editing = TRUE, ![i].readOnly = FALSE]
    /\ UNCHANGED <<locked, refreshing, link, traffic>>

TypeValue(i, v) ==
    /\ rows[i].enabled /\ ~rows[i].readOnly /\ Turn
    /\ rows' = [rows EXCEPT ![i].value = v]
    /\ UNCHANGED <<locked, refreshing, link, traffic>>

\* Without a connection the value is dropped, and a connection is asked for,
\* unless one is under way.
writeHoldingData(address, value) ==
    /\ crashed' = (device = "none")
    /\ device' = IF device = "off" THEN "connecting" ELSE device
    /\ reconnected' = (reconnected \/ device = "off")
    /\ writes' = IF device = "on" THEN Append(writes, [address |-> address, value |-> value])
                 ELSE writes

onConfirmClicked(i) ==
    /\ rows[i].enabled /\ rows[i].editing
    /\ rows' = [rows EXCEPT ![i].originalValue = rows[i].value, ![i].editing = FALSE,
                            ![i].readOnly = TRUE]
    /\ writeHoldingData(rows[i].address, Number(rows[i].value))
    /\ UNCHANGED <<locked, refreshing, opened, ending, clicks, register, reads, answers, turns>>

onCancelClicked(i) ==
    /\ rows[i].enabled /\ rows[i].editing
    /\ rows' = [rows EXCEPT ![i].value = rows[i].originalValue, ![i].editing = FALSE,
                            ![i].readOnly = TRUE]
    /\ UNCHANGED <<locked, refreshing, link, traffic, turns>>

-----------------------------------------------------------------------------
(* The link *)

setControlState(state) ==
    setEnable(state) /\ locked' = ~state /\ refreshing' = ~state

\* The setting of the timer can be changed while there is no link.
AutoRefresh ==
    /\ ~locked /\ Turn
    /\ refreshing' = ~refreshing
    /\ UNCHANGED <<rows, locked, link, traffic>>

\* The device is disconnected or replaced, and its replies are gone.
NothingUnderWay ==
    reads' = <<>> /\ answers' = <<>> /\ writes' = <<>> /\ UNCHANGED register

\* A new device, that connects at once, later or not at all.
connectModbusDevice ==
    /\ \/ device' \in {"connecting", "on"} /\ opened' = TRUE /\ setControlState(FALSE)
       \/ device' = "off" /\ opened' = FALSE /\ setControlState(TRUE)
    /\ NothingUnderWay
    /\ reconnected' = FALSE

\* The button looks at the connection, not at opened_.
ClickOnOff ==
    /\ clicks < MaxClicks /\ clicks' = clicks + 1
    /\ \/ /\ device = "on"
          /\ ending' = ending + 1 /\ opened' = FALSE /\ setControlState(TRUE)
          /\ UNCHANGED <<device, traffic, reconnected>>
       \/ /\ device # "on"
          /\ connectModbusDevice
          /\ UNCHANGED ending
    /\ UNCHANGED <<turns, crashed>>

\* The worker's thread, and onDisconnectFinished.
disconnectModbus ==
    /\ ending > 0 /\ ending' = ending - 1
    /\ device' = "off" /\ opened' = FALSE /\ setControlState(TRUE)
    /\ NothingUnderWay
    /\ UNCHANGED <<clicks, turns, reconnected, crashed>>

\* An attempt is answered.  Nobody listens to the state of the device.
Answered ==
    /\ device = "connecting" /\ device' \in {"on", "off"}
    /\ UNCHANGED <<screen, opened, ending, clicks, reconnected, crashed, traffic, turns>>

\* Only a write that fails is told.
Breaks ==
    /\ device = "on" /\ device' = "off"
    /\ IF writes = <<>> THEN UNCHANGED screen ELSE setControlState(TRUE)
    /\ NothingUnderWay
    /\ UNCHANGED <<opened, ending, clicks, reconnected, crashed, turns>>

-----------------------------------------------------------------------------
(* Reading and writing *)

\* One read for each row.
readHoldingData(addrs) == reads' = reads \o addrs

\* timerRefreshValue, getHoldingRegisterValue.
Refresh ==
    /\ refreshing /\ device = "on" /\ rows # <<>>
    /\ Len(reads) + Len(answers) + Len(rows) <= MaxReads
    /\ readHoldingData([i \in DOMAIN rows |-> rows[i].address])
    /\ UNCHANGED <<screen, link, register, answers, writes, turns>>

SlaveReads ==
    /\ reads # <<>> /\ reads' = Tail(reads)
    /\ answers' = Append(answers, [address |-> Head(reads), value |-> register[Head(reads)]])
    /\ UNCHANGED <<screen, link, register, writes, turns>>

SlaveWrites ==
    /\ writes # <<>> /\ writes' = Tail(writes)
    /\ register' = [register EXCEPT ![Head(writes).address] = Head(writes).value]
    /\ UNCHANGED <<screen, link, reads, answers, turns>>

SlaveRefusesRead ==
    /\ reads # <<>> /\ reads' = Tail(reads) /\ Turn
    /\ UNCHANGED <<screen, link, register, answers, writes>>

\* An error, after which the window waits for its button.
SlaveRefusesWrite ==
    /\ writes # <<>> /\ writes' = Tail(writes)
    /\ setControlState(TRUE)
    /\ UNCHANGED <<link, register, reads, answers, turns>>

RegisterChanges(a, v) ==
    /\ Turn
    /\ register' = [register EXCEPT ![a] = v]
    /\ UNCHANGED <<screen, link, reads, answers, writes>>

\* Wrong: only the first of the rows with the address.
setValueFirst(addr, data) ==
    LET first == SelectInSeq(rows, LAMBDA row : row.address = addr)
    IN  rows' = [i \in DOMAIN rows |-> IF i = first THEN [rows[i] EXCEPT !.value = data]
                                       ELSE rows[i]]

\* Every row with the address, one that is being edited included.
setValue(addr, data) ==
    rows' = [i \in DOMAIN rows |-> IF rows[i].address = addr THEN [rows[i] EXCEPT !.value = data]
                                   ELSE rows[i]]

sloveDataReceived ==
    /\ answers # <<>> /\ answers' = Tail(answers)
    /\ setValue(Head(answers).address, Head(answers).value)
    /\ UNCHANGED <<locked, refreshing, link, register, reads, writes, turns>>

-----------------------------------------------------------------------------
UserStep ==
    \/ ClickOnOff \/ AutoRefresh
    \/ \E a \in Registers : setupRow(a)
    \/ \E i \in DOMAIN rows :
          \/ ClickEdit(i) \/ onConfirmClicked(i) \/ onCancelClicked(i)
          \/ \E v \in Values : TypeValue(i, v)

LinkStep ==
    \/ disconnectModbus \/ Answered \/ Breaks
    \/ Refresh \/ SlaveReads \/ SlaveWrites \/ SlaveRefusesRead \/ SlaveRefusesWrite
    \/ \E a \in Registers, v \in Values : RegisterChanges(a, v)
    \/ sloveDataReceived

Next == ~crashed /\ (UserStep \/ LinkStep)

Spec == Init /\ [][Next]_vars

\* The timer runs, and the slave answers.
Fairness ==
    /\ WF_vars(~crashed /\ Refresh) /\ WF_vars(~crashed /\ SlaveReads)
    /\ WF_vars(~crashed /\ SlaveWrites) /\ WF_vars(~crashed /\ sloveDataReceived)

FairSpec == Spec /\ Fairness

-----------------------------------------------------------------------------
TypeOK ==
    /\ rows \in Seq([address : Registers, enabled : BOOLEAN, readOnly : BOOLEAN,
                     editing : BOOLEAN, value : Values \cup {NoText},
                     originalValue : Values \cup {NoText}])
    /\ device \in {"none", "off", "connecting", "on"}
    /\ register \in [Registers -> Values]
    /\ Len(reads) + Len(answers) <= MaxReads
    /\ ending \in 0..MaxClicks /\ turns \in 0..MaxTurns

\* What can be typed can be confirmed or taken back, through any closing and
\* opening in the middle of an edit (after which it cannot be typed any more);
\* a connection nobody asked for by the button comes only from a text that was
\* confirmed without one, in a row that was added meanwhile; and the settings are
\* locked only for a link the window shows.
EditsEnd ==
    /\ TypeOK
    /\ \A i \in DOMAIN rows : rows[i].enabled /\ ~rows[i].readOnly => rows[i].editing
    /\ device \in {"connecting", "on"} => opened \/ ending > 0 \/ reconnected
    /\ locked => opened

\* While a link is refreshed, every row comes to show its register, whatever is
\* typed, confirmed and answered on the way, and also when rows share one.
RowsConverge ==
    <>[](device = "on" /\ refreshing =>
             \A i \in DOMAIN rows : rows[i].value = register[rows[i].address])
=============================================================================
