------------------------------ MODULE SerialPlot ------------------------------
(***************************************************************************)
(* The plot of a serial window (ui/controls/TtSerialPortPlot.cpp): a curve *)
(* per channel with the times and the values it was given last, the tracer *)
(* that follows the mouse along the curves, and the file a recording is    *)
(* saved to.                                                               *)
(*                                                                         *)
(* Times count from the first sample, and a value is the number of its     *)
(* sample.  The clock does not go back.                                    *)
(***************************************************************************)
EXTENDS Integers, Sequences, FiniteSets

CONSTANTS
    Channels,   \* bound: channels that are added, in this order
    Points,     \* points_nums_ and m_maxPoints, which no one changes here
    MaxSamples  \* bound

VARIABLES
    added,     \* channels added so far
    curves,    \* those that have a curve: curves_
    timeData, valueData,
    tracer,    \* the curve m_tracer is set to
    visible,   \* m_tracer is on the screen
    samples    \* what arrived: the time and the channel of each sample

vars == <<added, curves, timeData, valueData, tracer, visible, samples>>

NoGraph == 0

\* A unit is half a millisecond, for the places of the mouse in between.
Millisecond == 2
Times == {Millisecond * t : t \in 0 .. MaxSamples}

Init ==
    /\ added = 0 /\ curves = {}
    /\ timeData = [c \in 1 .. Channels |-> <<>>]
    /\ valueData = [c \in 1 .. Channels |-> <<>>]
    /\ tracer = NoGraph /\ visible = FALSE
    /\ samples = <<>>

addGraphs ==
    /\ added < Channels
    /\ added' = added + 1
    /\ curves' = curves \cup {added + 1}
    /\ UNCHANGED <<timeData, valueData, tracer, visible, samples>>

\* Wrong: the tracer stays on the graph that is deleted.
removeGraphsTraced(c) ==
    /\ curves' = curves \ {c}
    /\ timeData' = [timeData EXCEPT ![c] = <<>>]
    /\ valueData' = [valueData EXCEPT ![c] = <<>>]
    /\ visible' = (visible /\ curves' # {})
    /\ UNCHANGED <<added, tracer, samples>>

removeGraphs(c) ==
    /\ curves' = curves \ {c}
    /\ timeData' = [timeData EXCEPT ![c] = <<>>]
    /\ valueData' = [valueData EXCEPT ![c] = <<>>]
    /\ tracer' = IF tracer = c THEN NoGraph ELSE tracer
    /\ visible' = (visible /\ curves' # {})
    /\ UNCHANGED <<added, samples>>

\* Wrong: of the samples that are dropped only the times go.
TrimmedTimesOnly(c) ==
    IF Len(timeData[c]) > Points THEN <<Tail(timeData[c]), valueData[c]>>
    ELSE <<timeData[c], valueData[c]>>

\* The times and values left of a curve when a sample is added: with more than
\* Points of them the one that is too many goes.
Trimmed(c) ==
    IF Len(timeData[c]) > Points THEN <<Tail(timeData[c]), Tail(valueData[c])>>
    ELSE <<timeData[c], valueData[c]>>

\* In the same millisecond as the last sample of any curve, or later.
Now ==
    IF samples = <<>> THEN {0}
    ELSE LET last == samples[Len(samples)].time IN {last, last + Millisecond}

addData(c) ==
    /\ c \in curves
    /\ Len(samples) < MaxSamples
    /\ \E time \in Now :
       /\ timeData' = [timeData EXCEPT ![c] = Append(Trimmed(c)[1], time)]
       /\ valueData' = [valueData EXCEPT ![c] = Append(Trimmed(c)[2], Len(samples) + 1)]
       /\ samples' = Append(samples, [time |-> time, channel |-> c])
    /\ UNCHANGED <<added, curves, tracer, visible>>

-----------------------------------------------------------------------------
Distance(a, b) == IF a < b THEN b - a ELSE a - b

\* The binary search of findNearestPoint: the first index whose time is not
\* below x, one after the last if there is none.
LowerBound(times, x) ==
    LET search[span \in (1 .. Len(times) + 1) \X (0 .. Len(times))] ==
            LET left == span[1]  right == span[2]
                mid == left + (right - left) \div 2
            IN  IF left > right THEN left
                ELSE IF times[mid] < x THEN search[<<mid + 1, right>>]
                ELSE search[<<left, mid - 1>>]
    IN  search[<<1, Len(times)>>]

\* Wrong: the point before is not looked at.
findNearestPointAfter(times, x) ==
    IF LowerBound(times, x) > Len(times) THEN Len(times) ELSE LowerBound(times, x)

\* The index of a time nearest to x: that one, or the one before.
findNearestPoint(times, x) ==
    LET first == LowerBound(times, x)
        idx == IF first > Len(times) THEN Len(times) ELSE first
    IN  IF idx > 1 /\ x - times[idx - 1] < times[idx] - x THEN idx - 1 ELSE idx

WithData == {c \in curves : timeData[c] # <<>>}

NearestTime(c, x) == timeData[c][findNearestPoint(timeData[c], x)]

\* The first of the curves with a point nearest to x.
ActiveGraph(x) ==
    CHOOSE c \in WithData : \A d \in WithData :
        LET near == Distance(x, NearestTime(c, x))  other == Distance(x, NearestTime(d, x))
        IN  near < other \/ (near = other /\ c <= d)

\* The mouse is moved over x.  Nearer than a twentieth of the range shown, the
\* tracer goes there.  The range can be any, so that this may be or not.
updateTracerPosition(x) ==
    /\ curves # {}
    /\ \/ WithData # {} /\ tracer' = ActiveGraph(x) /\ visible' = TRUE
       \/ visible' = FALSE /\ UNCHANGED tracer
    /\ UNCHANGED <<added, curves, timeData, valueData, samples>>

-----------------------------------------------------------------------------
\* What saveWaveFormData writes: a row for every time, with the value of each
\* channel nearest to it, the first of equals, if that is not a millisecond away.
\* (Times are seconds in a double there: of two that are a millisecond apart the
\* difference often comes out a little less than 0.001.)
TimePoints == UNION {{timeData[c][i] : i \in DOMAIN timeData[c]} : c \in curves}

Written(t, c) ==
    LET near == {i \in DOMAIN timeData[c] : Distance(timeData[c][i], t) <= Millisecond}
        Before(i, j) ==
            LET di == Distance(timeData[c][i], t)  dj == Distance(timeData[c][j], t)
            IN  di < dj \/ (di = dj /\ i <= j)
    IN  {valueData[c][i] : i \in {first \in near : \A j \in near : Before(first, j)}}

Next ==
    \/ addGraphs
    \/ \E c \in curves : removeGraphs(c) \/ addData(c)
    \/ \E x \in Times : updateTracerPosition(x)

Spec == Init /\ [][Next]_vars

-----------------------------------------------------------------------------
SamplesOf(c) == {n \in DOMAIN samples : samples[n].channel = c}

\* The Points last samples of a curve, as they arrived.
Latest(c) == {n \in SamplesOf(c) : Cardinality({m \in SamplesOf(c) : m > n}) < Points}

\* A recording is what was received: after any number of samples, some dropped
\* again, of curves that come and go, a row has no value but one its channel got
\* at that time, give or take a millisecond, and the last Points samples of every
\* curve are in the file at their time (or one of the same millisecond is).
RecordingIsTrue ==
    /\ \A t \in TimePoints, c \in curves : \A n \in Written(t, c) :
          samples[n].channel = c /\ Distance(samples[n].time, t) <= Millisecond
    /\ \A c \in curves : \A n \in Latest(c) :
          \E m \in Written(samples[n].time, c) : samples[m].time = samples[n].time

\* The tracer tells of the nearest sample: whatever was dropped before, the
\* search, which wants the times in order, finds for every place of the mouse a
\* sample of some curve none of any other is nearer than; and the tracer is
\* never left on a curve that was deleted.
TracerFindsTheNearest ==
    /\ tracer \in curves \cup {NoGraph}
    /\ \A c \in WithData, x \in {t - 1 : t \in Times} \cup Times :
          \A i \in DOMAIN timeData[c] :
              Distance(x, NearestTime(ActiveGraph(x), x)) <= Distance(x, timeData[c][i])
=============================================================================
