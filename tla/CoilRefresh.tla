----------------------------- MODULE CoilRefresh -----------------------------
(***************************************************************************)
(* How the coils of a Modbus slave reach the rows of the coil table:       *)
(* ModbusMaster::readCoilsData merges the addresses of the table into      *)
(* ranges, each range is one read request, and the reply to it is shown    *)
(* by ModbusWindow::sloveDataReceived and TtModbusTableWidget::setValue.   *)
(* A toggled row writes its coil with a request of its own, which does not *)
(* queue behind the reads.                                                 *)
(***************************************************************************)
EXTENDS Integers, Sequences, SequencesExt

CONSTANTS
    Addresses,   \* the addresses rows can have
    MaxRows,     \* bound: the rows of the table
    SizeLimit,   \* 125, the largest range readModbusData accepts
    FlightMax,   \* bound: the reads not yet answered
    ChangeMax    \* bound: the changes of coils, by the user or the slave

ASSUME AddressesAssumption == Addresses \subseteq Nat
ASSUME BoundsAssumption == {MaxRows, SizeLimit, FlightMax, ChangeMax} \subseteq Nat \ {0}

VARIABLES
    rows,      \* the addresses of the rows, as typed
    coil,      \* the coils of the slave
    shown,     \* the switch of each row
    timer,     \* refresh_timer_ is active
    reads,     \* the ranges asked for and not yet answered
    writes,    \* the writes under way
    answers,   \* replies on their way back: a range and its values
    changes    \* the changes so far

vars == <<rows, coil, shown, timer, reads, writes, answers, changes>>

-----------------------------------------------------------------------------
(* readCoilsData                                                            *)

\* A range: its first address, and how many there are.
ARange == [start : Nat, count : Nat]

\* sortedAddrs
Sorted(addrs) ==
    LET places == DOMAIN addrs
        Before(i, j) == addrs[i] < addrs[j] \/ (addrs[i] = addrs[j] /\ i < j)
        from == CHOOSE p \in [places -> places] :
                    /\ \A i, j \in places : i < j => Before(p[i], p[j])
                    /\ Range(p) = places
    IN  [i \in places |-> addrs[from[i]]]

\* Mutant: an address that occurs twice is counted twice.
ContinuesLoosely(range, addr) == addr <= range.start + range.count

\* The address comes next after those of the range.
Continues(range, addr) == addr = range.start + range.count

\* One round of the loop over the sorted addresses, the range under way being the
\* last of the ranges.
Extended[ranges \in Seq(ARange)] ==
    LET last == Len(ranges)
    IN  [addr \in Nat |-> IF ranges # <<>> /\ Continues(ranges[last], addr)
                          THEN [ranges EXCEPT ![last].count = @ + 1]
                          ELSE Append(ranges, [start |-> addr, count |-> 1])]

Merged[sorted \in Seq(Nat)] ==
    LET after[i \in 0..Len(sorted)] ==
            IF i = 0 THEN <<>> ELSE Extended[after[i - 1]][sorted[i]]
    IN  after[Len(sorted)]

\* The ranges of a sequence of addresses, in order.
Ranges(addrs) == Merged[Sorted(addrs)]

Accepted(r) == r.count <= SizeLimit

Covered(r) == r.start..(r.start + r.count - 1)

-----------------------------------------------------------------------------
Init ==
    /\ rows \in UNION {[1..n -> Addresses] : n \in 1..MaxRows}
    /\ coil = [a \in Addresses |-> FALSE]
    /\ shown = [i \in DOMAIN rows |-> FALSE]
    /\ timer = TRUE
    /\ reads = <<>> /\ writes = <<>> /\ answers = <<>>
    /\ changes = 0

\* The requests under way when some more were accepted.
Requested(ranges) ==
    LET after[i \in 0..Len(ranges)] ==
            IF i = 0 THEN reads
            ELSE IF Accepted(ranges[i]) THEN Append(after[i - 1], ranges[i]) ELSE after[i - 1]
    IN  after[Len(ranges)]

\* timerRefreshValue: a refused range is an error, which stops the timer.
Refresh ==
    /\ timer
    /\ Len(reads) + Len(answers) + Len(Ranges(rows)) <= FlightMax
    /\ reads' = Requested(Ranges(rows))
    /\ timer' = \A r \in ToSet(Ranges(rows)) : Accepted(r)
    /\ UNCHANGED <<rows, coil, shown, writes, answers, changes>>

\* The slave answers a read.
SlaveReads ==
    /\ reads # <<>>
    /\ LET r == Head(reads)
       IN  answers' = Append(answers, [start |-> r.start,
                                       values |-> [k \in 1..r.count |-> coil[r.start + k - 1]]])
    /\ reads' = Tail(reads)
    /\ UNCHANGED <<rows, coil, shown, timer, writes, changes>>

SlaveWrites ==
    /\ writes # <<>>
    /\ coil' = [coil EXCEPT ![Head(writes).addr] = Head(writes).value]
    /\ writes' = Tail(writes)
    /\ UNCHANGED <<rows, shown, timer, reads, answers, changes>>

\* A coil changes by itself.
CoilChanges ==
    /\ changes < ChangeMax
    /\ \E a \in Addresses : coil' = [coil EXCEPT ![a] = ~@]
    /\ changes' = changes + 1
    /\ UNCHANGED <<rows, shown, timer, reads, writes, answers>>

\* The user flips the switch of a row: onSwitchButtonToggle, writeCoilsData.
Toggle ==
    /\ changes < ChangeMax
    /\ \E i \in DOMAIN rows :
           /\ shown' = [shown EXCEPT ![i] = ~@]
           /\ writes' = Append(writes, [addr |-> rows[i], value |-> ~shown[i]])
    /\ changes' = changes + 1
    /\ UNCHANGED <<rows, coil, timer, reads, answers>>

\* Mutant: only the first row with the address is set.
setValueFirstRow(addr, values) ==
    LET first == SelectInSeq(rows, LAMBDA a : a = addr)
    IN  shown' = [i \in DOMAIN rows |-> IF i = first THEN values[1] ELSE shown[i]]

\* setValue: the rows with the start address of the range get data[0]; the
\* other values of the range are not looked at.
setValue(addr, values) ==
    shown' = [i \in DOMAIN rows |-> IF rows[i] = addr THEN values[1] ELSE shown[i]]

sloveDataReceived ==
    /\ answers # <<>>
    /\ setValue(Head(answers).start, Head(answers).values)
    /\ answers' = Tail(answers)
    /\ UNCHANGED <<rows, coil, timer, reads, writes, changes>>

Next ==
    \/ Refresh \/ SlaveReads \/ SlaveWrites \/ CoilChanges \/ Toggle
    \/ sloveDataReceived

Spec == Init /\ [][Next]_vars

-----------------------------------------------------------------------------
(* Properties                                                               *)

TypeOK ==
    /\ coil \in [Addresses -> BOOLEAN]
    /\ shown \in [DOMAIN rows -> BOOLEAN]
    /\ timer \in BOOLEAN /\ changes \in 0..ChangeMax
    /\ Len(reads) + Len(answers) <= FlightMax
    /\ \A r \in ToSet(reads) : Covered(r) \subseteq Addresses /\ r.count \in 1..SizeLimit
    /\ \A w \in ToSet(writes) : w.addr \in Addresses /\ w.value \in BOOLEAN

\* While requests, answers and toggles keep their form, readCoilsData asks for
\* every address of the table and for no other, with
\* one request for each maximal run of consecutive addresses when no address
\* occurs twice, and never with more requests than rows.
RangesAreTheRuns ==
    LET asked == ToSet(Ranges(rows))
        wanted == ToSet(rows)
        runs == {r \in [start : wanted, count : 1..Len(rows)] :
                     /\ Covered(r) \subseteq wanted
                     /\ r.start - 1 \notin wanted /\ r.start + r.count \notin wanted}
    IN  /\ TypeOK
        /\ UNION {Covered(r) : r \in asked} = wanted
        /\ IsInjective(rows) => asked = runs
        /\ Len(Ranges(rows)) <= Len(rows)

\* No range is refused.
AllFit == \A r \in ToSet(Ranges(rows)) : Accepted(r)

Agrees(i) == shown[i] = coil[rows[i]]

StartsARange(i) == \E r \in ToSet(Ranges(rows)) : r.start = rows[i]

\* Once the coils stop changing, a row whose address starts a range settles
\* on the value of its coil, whatever stale answers are still under way and
\* however many rows share the address.  The rows whose address is inside a
\* range are left out: setValue shows data[0] only, and they never settle.
StartsConverge == AllFit => <>[](\A i \in DOMAIN rows : StartsARange(i) => Agrees(i))
=============================================================================
