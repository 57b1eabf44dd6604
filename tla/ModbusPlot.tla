------------------------------ MODULE ModbusPlot ------------------------------
(***************************************************************************)
(* The plot of a Modbus window (ui/controls/TtModbusPlot.cpp) and what     *)
(* feeds it: the graph buttons of the rows of a table, which work while    *)
(* the link is open, and the replies, of which the value at the start      *)
(* address is plotted (window/modbus_window.cpp).                          *)
(*                                                                         *)
(* A value is the number of its reply.                                     *)
(***************************************************************************)
EXTENDS Integers, Sequences, SequencesExt

CONSTANTS
    Rows,       \* bound: rows of the table
    Addresses,  \* the addresses a row can have
    Capacities, \* the numbers of points a user sets
    Capacity,   \* the 100 of the code
    MaxReplies, \* bound
    MaxAsked    \* bound: ranges asked for and not answered

NoAddress == -1

VARIABLES
    opened,
    address, graph, \* of each row: what it shows, and its toggled graph button
    asked,          \* start addresses of the ranges asked for
    m_curves,
    timeData, valueData,
    m_startTime,
    points_nums_,
    replies,        \* all that arrived: time and start address
    since,          \* of each curve: replies that came before it was added
    joined          \* a curve got its first value when another one had some

vars == <<opened, address, graph, asked, m_curves, timeData, valueData, m_startTime,
          points_nums_, replies, since, joined>>

Init ==
    /\ opened = FALSE
    /\ address = [r \in Rows |-> NoAddress] /\ graph = [r \in Rows |-> FALSE]
    /\ asked = <<>>
    /\ m_curves = {}
    /\ timeData = [a \in Addresses |-> <<>>] /\ valueData = timeData
    /\ m_startTime = 0
    /\ points_nums_ = Capacity
    /\ replies = <<>>
    /\ since = [a \in Addresses |-> 0]
    /\ joined = FALSE

-----------------------------------------------------------------------------
(* The table *)

\* A row is added, gets another address or is deleted: while closed only.  Its
\* curve is not told.
EditRow(r, a) ==
    /\ ~opened
    /\ address' = [address EXCEPT ![r] = a]
    /\ graph' = IF NoAddress \in {a, address[r]} THEN [graph EXCEPT ![r] = FALSE] ELSE graph
    /\ UNCHANGED <<opened, asked, m_curves, timeData, valueData, m_startTime, points_nums_,
                   replies, since, joined>>

\* setControlState and setEnable: now the other buttons can be used.
OnOff ==
    /\ opened' = ~opened
    /\ UNCHANGED <<address, graph, asked, m_curves, timeData, valueData, m_startTime,
                   points_nums_, replies, since, joined>>

\* The start addresses of the ranges the addresses merge to.
Starts == {address[r] : r \in {r \in Rows : address[r] # NoAddress
                                   /\ \A o \in Rows : address[o] # address[r] - 1}}

\* timerRefreshValue.
Poll ==
    /\ opened
    /\ Len(asked) + Len(SetToSeq(Starts)) <= MaxAsked
    /\ asked' = asked \o SetToSortSeq(Starts, <)
    /\ UNCHANGED <<opened, address, graph, m_curves, timeData, valueData, m_startTime,
                   points_nums_, replies, since, joined>>

-----------------------------------------------------------------------------
(* The plot *)

addGraphs(a) ==
    /\ m_curves' = m_curves \cup {a}
    /\ since' = IF a \in m_curves THEN since ELSE [since EXCEPT ![a] = Len(replies)]
    /\ UNCHANGED <<timeData, valueData>>

removeGraphs(a) ==
    /\ m_curves' = m_curves \ {a}
    /\ timeData' = [timeData EXCEPT ![a] = <<>>]
    /\ valueData' = [valueData EXCEPT ![a] = <<>>]
    /\ since' = [since EXCEPT ![a] = 0]

\* The graph button of a row, for the address the row has now.
requestShowGraph(r) ==
    /\ opened /\ address[r] # NoAddress
    /\ graph' = [graph EXCEPT ![r] = ~@]
    /\ IF graph[r] THEN removeGraphs(address[r]) ELSE addGraphs(address[r])
    /\ UNCHANGED <<opened, address, asked, m_startTime, points_nums_, replies, joined>>

Trimmed(data) == IF Len(data) > points_nums_ THEN Tail(data) ELSE data

\* addData: the first value of a curve sets the start time of all.
addData(a, time, value) ==
    LET first == timeData[a] = <<>>
        start == IF first THEN time ELSE m_startTime
    IN
    /\ m_startTime' = start
    /\ timeData' = [timeData EXCEPT ![a] = Append(Trimmed(timeData[a]), time - start)]
    /\ valueData' = [valueData EXCEPT ![a] = Append(Trimmed(valueData[a]), value)]
    /\ joined' = (joined \/ (first /\ \E o \in m_curves : timeData[o] # <<>>))

\* Replies come in another millisecond or in the same.
Now ==
    IF replies = <<>> THEN {1}
    ELSE LET last == replies[Len(replies)].time IN {last, last + 1}

\* sloveDataReceived and updatePlot, for a reply of any register type.
sloveDataReceived ==
    /\ asked # <<>> /\ Len(replies) < MaxReplies
    /\ asked' = Tail(asked)
    /\ \E time \in Now :
       /\ replies' = Append(replies, [time |-> time, address |-> Head(asked)])
       /\ IF Head(asked) \in m_curves THEN addData(Head(asked), time, Len(replies) + 1)
          ELSE UNCHANGED <<timeData, valueData, m_startTime, joined>>
    /\ UNCHANGED <<opened, address, graph, m_curves, points_nums_, since>>

LastOf(data, n) == SubSeq(data, Len(data) - n + 1, Len(data))

\* Wrong: the newest go.
setGraphsPointCapacityNewest(n) ==
    LET Cut(data) == [a \in Addresses |->
            IF Len(data[a]) > n THEN SubSeq(data[a], 1, n) ELSE data[a]]
    IN
    /\ n > 0 /\ n # points_nums_
    /\ points_nums_' = n
    /\ timeData' = Cut(timeData) /\ valueData' = Cut(valueData)
    /\ UNCHANGED <<opened, address, graph, asked, m_curves, m_startTime, replies, since, joined>>

setGraphsPointCapacity(n) ==
    LET Cut(data) == [a \in Addresses |->
            IF Len(data[a]) > n THEN LastOf(data[a], n) ELSE data[a]]
    IN
    /\ n > 0 /\ n # points_nums_
    /\ points_nums_' = n
    /\ timeData' = Cut(timeData) /\ valueData' = Cut(valueData)
    /\ UNCHANGED <<opened, address, graph, asked, m_curves, m_startTime, replies, since, joined>>

\* updateTracerPosition: of each curve the value at the time nearest to x, found
\* by std::lower_bound, which takes the times to be in order.
LowerBound(times, x) ==
    LET Spans == {s \in (1 .. Len(times) + 1) \X (0 .. Len(times)) : s[1] + s[2] <= Len(times) + 1}
        search[span \in Spans] ==
            LET first == span[1]  count == span[2]  half == count \div 2 IN
            IF count = 0 THEN first
            ELSE IF times[first + half] < x THEN search[<<first + half + 1, count - half - 1>>]
            ELSE search[<<first, half>>]
    IN  search[<<1, Len(times)>>]

Tooltip(a, x) ==
    LET times == timeData[a]
        next == LowerBound(times, x)
        idx == IF next > 1 /\ (next > Len(times) \/ x - times[next - 1] < times[next] - x)
               THEN next - 1 ELSE next
    IN  valueData[a][idx]

Next ==
    \/ OnOff \/ Poll \/ sloveDataReceived
    \/ \E r \in Rows : requestShowGraph(r) \/ \E a \in Addresses \cup {NoAddress} : EditRow(r, a)
    \/ \E n \in Capacities : setGraphsPointCapacity(n)

Spec == Init /\ [][Next]_vars

-----------------------------------------------------------------------------
Received(a) == {n \in DOMAIN replies : n > since[a] /\ replies[n].address = a}

Distance(a, b) == IF a < b THEN b - a ELSE a - b

\* The times a mouse can be at: those shown.
Shown(a) == timeData[a][1] .. timeData[a][Len(timeData[a])]

\* A curve holds the latest replies for its start address since its button was
\* pressed, none left out, none twice, and no more than the capacity and one,
\* whatever rows were edited, whatever curves came and went, whatever capacity
\* was set in between; and what the tooltip says of a time is the reply nearest
\* to it.  (Not so once a curve was joined by another: the start time, which is
\* said to be shared, is then the one of the newest, and the times of the older
\* ones go back.)
CurvesKeepTheLatest ==
    \A a \in m_curves :
        LET values == valueData[a] IN
        /\ Len(values) = Len(timeData[a]) /\ Len(values) <= points_nums_ + 1
        /\ \A i \in DOMAIN values : values[i] \in Received(a)
        /\ \A i, j \in DOMAIN values : i < j => values[i] < values[j]
        /\ \A n \in Received(a) \ ToSet(values), i \in DOMAIN values : n < values[i]
        /\ Received(a) # {} => values # <<>>
        /\ ~joined /\ values # <<>> => \A x \in Shown(a), i \in ToSet(values) :
              Distance(replies[Tooltip(a, x)].time, m_startTime + x)
                  <= Distance(replies[i].time, m_startTime + x)
=============================================================================
