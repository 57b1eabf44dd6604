------------------------------ MODULE MessageBars ------------------------------
(***************************************************************************)
(* The message bars that slide in at the top of a window and leave it by   *)
(* themselves (lib_ui/ui/widgets/message_bar.cpp and message_bar_p.cpp).   *)
(* All bars of the program are in one list, _messageBarActiveMap; every    *)
(* caller asks for the policy Top.  When a bar ends, those created after   *)
(* it move up; what cannot be done at once waits in the bar's event list.  *)
(*                                                                         *)
(* A height is counted in slots.  Animations and timers end in any order,  *)
(* more orders than their durations admit.                                 *)
(***************************************************************************)
EXTENDS FiniteSets, Naturals, Sequences

CONSTANTS
    MaxBars,  \* bound: messages in a behaviour
    Sessions, \* windows of sessions, which can be closed
    Main,     \* the main window
    NoWindow,
    Room      \* slots a window has room for

ASSUME BarsAssumption ==
    /\ {MaxBars, Room} \subseteq Nat
    /\ Main \notin Sessions /\ NoWindow \notin Sessions \cup {Main}

Bars == 1 .. MaxBars
Windows == Sessions \cup {Main}
NoMove == Room

VARIABLES
    bars,    \* the bars, by the order of their creation
    shown,   \* how many bars were made
    closed,  \* the windows that were closed
    crashed  \* a bar that was destroyed was used

vars == <<bars, shown, closed, crashed>>

\* phase:  "create" while it slides in, "shown", "fading" once it ended,
\*         "gone"; "lost" when its window was destroyed with it
\* events: where its onOtherMessageBarEnd events move it, the oldest first;
\*         messageBarEnd is always the last one
\* moving: where the animation running on it goes
NotYet == [phase |-> "none", parent |-> NoWindow, time |-> 0, slot |-> 0,
           events |-> <<>>, moving |-> NoMove, ready |-> FALSE, timer |-> FALSE]

Init ==
    /\ bars = [b \in Bars |-> NotYet]
    /\ shown = 0
    /\ closed = {}
    /\ crashed = FALSE

\* _messageBarActiveMap[Top]: nothing takes a destroyed bar off the list.
Active(B) == {b \in Bars : B[b].phase \in {"create", "shown", "lost"}}

\* _judgeCreateOrder, by create_time_ in milliseconds.
Earlier(B, b) == {o \in Active(B) : B[o].time < B[b].time}

\* A list that holds a destroyed bar is walked through.
Dangling == \E b \in Active(bars) : bars[b].phase = "lost"

\* Nothing of a bar that has ended matters, save when and where it was.
Over(bar, phase) == [NotYet EXCEPT !.phase = phase, !.parent = bar.parent, !.time = bar.time]

-----------------------------------------------------------------------------
\* An event reaches a bar: merged while it is created, waiting while an
\* animation runs, else begun, the first that waits first.
Posted(bar, target) ==
    LET waiting == Append(bar.events, target) IN
    IF bar.phase = "create" THEN [bar EXCEPT !.events = <<target>>]
    ELSE IF bar.moving # NoMove THEN [bar EXCEPT !.events = waiting]
    ELSE [bar EXCEPT !.moving = Head(waiting), !.events = Tail(waiting)]

\* The bar leaves the list, and those created after it are told where to go.
postMessageBarEndEvent(B, b) ==
    LET left == [B EXCEPT ![b] = Over(B[b], "fading")] IN
    [o \in Bars |->
        IF o \in Active(left) /\ B[b].time < left[o].time
        THEN Posted(left[o], Cardinality(Earlier(left, o))) ELSE left[o]]

\* Wrong: the event that came last is done first.
requestMessageBarEventNewest(B, b) ==
    LET waiting == B[b].events
        newest == waiting[Len(waiting)]
        others == SubSeq(waiting, 1, Len(waiting) - 1)
    IN IF waiting = <<>> THEN postMessageBarEndEvent(B, b)
       ELSE [B EXCEPT ![b].moving = newest, ![b].events = others]

\* The oldest event is done: a move, which stops one that runs, or the end.
requestMessageBarEvent(B, b) ==
    IF B[b].events = <<>> THEN postMessageBarEndEvent(B, b)
    ELSE [B EXCEPT ![b].moving = Head(B[b].events), ![b].events = Tail(B[b].events)]

-----------------------------------------------------------------------------
\* The window of a message: without one given, a success finds the main window
\* and the other kinds, which look for a name no window has, find none.
ParentOf(kind, given) ==
    IF given = NoWindow /\ kind = "success" THEN Main ELSE given

\* The new bar goes below all that are listed; without room it is deleted.
NewBar(b, w, time) ==
    LET below == Cardinality(Active(bars))
        bar == [NotYet EXCEPT !.parent = w, !.time = time]
    IN
    bars' = [bars EXCEPT ![b] =
        IF below < Room THEN [bar EXCEPT !.phase = "create", !.slot = below]
        ELSE Over(bar, "gone")]

Show(kind, given) ==
    /\ shown < MaxBars
    /\ given \notin closed
    /\ IF ParentOf(kind, given) = NoWindow THEN UNCHANGED <<bars, shown, crashed>>
       ELSE IF Dangling THEN crashed' = TRUE /\ UNCHANGED <<bars, shown>>
       ELSE /\ shown' = shown + 1
            /\ \E later \in {0, 1} :
                   LET last == CHOOSE t \in 0 .. MaxBars :
                           /\ \E b \in Bars : bars[b].time = t
                           /\ \A b \in Bars : bars[b].time <= t
                   IN  last + later > 0
                       /\ NewBar(shown + 1, ParentOf(kind, given), last + later)
            /\ UNCHANGED crashed
    /\ UNCHANGED closed

\* What an ending does with the list.
Ends(B, b) ==
    /\ IF Dangling /\ B[b].phase = "fading"
       THEN crashed' = TRUE /\ UNCHANGED bars ELSE bars' = B /\ UNCHANGED crashed
    /\ UNCHANGED <<shown, closed>>

\* It has slid in: the end of its time is set.
CreateFinished(b) ==
    /\ bars[b].phase = "create"
    /\ LET here == [bars EXCEPT ![b].phase = "shown", ![b].timer = TRUE] IN
       bars' = IF bars[b].events # <<>> THEN requestMessageBarEvent(here, b) ELSE here
    /\ UNCHANGED <<shown, closed, crashed>>

\* Its time is over.
TimeOut(b) ==
    /\ bars[b].phase = "shown" /\ bars[b].timer
    /\ Ends(requestMessageBarEvent([bars EXCEPT ![b].ready = TRUE, ![b].timer = FALSE], b), b)

\* Wrong: a bar whose time was over while it moved is not asked to end.
MoveFinishedUnready(b) ==
    /\ bars[b].phase = "shown" /\ bars[b].moving # NoMove
    /\ LET there == [bars EXCEPT ![b].slot = bars[b].moving, ![b].moving = NoMove]
       IN  Ends(IF bars[b].events # <<>> THEN requestMessageBarEvent(there, b) ELSE there, b)

\* A move has ended: the next one, and the end if the time was over before.
MoveFinished(b) ==
    /\ bars[b].phase = "shown" /\ bars[b].moving # NoMove
    /\ LET there == [bars EXCEPT ![b].slot = bars[b].moving, ![b].moving = NoMove]
           next == IF bars[b].events # <<>> THEN requestMessageBarEvent(there, b) ELSE there
       IN  Ends(IF bars[b].ready THEN requestMessageBarEvent(next, b) ELSE next, b)

\* The close button: what waits is forgotten.
onCloseButtonClicked(b) ==
    /\ bars[b].phase \in {"create", "shown"} /\ ~bars[b].ready
    /\ Ends(postMessageBarEndEvent([bars EXCEPT ![b].ready = TRUE], b), b)

\* The end of the fading: deleteLater.
Faded(b) ==
    /\ bars[b].phase = "fading"
    /\ bars' = [bars EXCEPT ![b] = Over(bars[b], "gone")]
    /\ UNCHANGED <<shown, closed, crashed>>

\* A session is closed, and its window destroyed with the bars in it.
WindowDestroyed(w) ==
    /\ w \notin closed
    /\ closed' = closed \cup {w}
    /\ bars' = [b \in Bars |->
           IF bars[b].parent # w THEN bars[b]
           ELSE Over(bars[b], IF b \in Active(bars) THEN "lost" ELSE "gone")]
    /\ UNCHANGED <<shown, crashed>>

Step(b) == CreateFinished(b) \/ TimeOut(b) \/ MoveFinished(b) \/ Faded(b)

Next ==
    /\ ~crashed
    /\ \/ \E kind \in {"success", "other"}, w \in Windows \cup {NoWindow} : Show(kind, w)
       \/ \E b \in Bars : Step(b) \/ onCloseButtonClicked(b)
       \/ \E w \in Sessions : WindowDestroyed(w)

\* Animations and timers end.
Fairness == \A b \in Bars : WF_vars(~crashed /\ Step(b))

Spec == Init /\ [][Next]_vars /\ Fairness

-----------------------------------------------------------------------------
\* The place a bar will have when all its moves are done.
Destination(b) ==
    IF bars[b].events # <<>> THEN bars[b].events[Len(bars[b].events)]
    ELSE IF bars[b].moving # NoMove THEN bars[b].moving ELSE bars[b].slot

\* The bars on the screen line up without a gap and without one on another, in
\* the order of their creation, whatever ended in whatever order while others
\* slid in or moved: each is bound for the place its predecessors leave it.
\* (Not so once two had the same millisecond: each thinks the other one did not
\* come before, so neither moves when the other ends.)
BarsLineUp ==
    (\A b, o \in Bars : bars[b].time = bars[o].time => b = o \/ bars[b].time = 0) /\ ~crashed =>
        \A b \in Active(bars) : bars[b].phase # "lost" =>
            Destination(b) = Cardinality(Earlier(bars, b))

\* Every message goes away by itself, however often it was moved.
BarsGoAway == \A b \in Bars :
    bars[b].phase \in {"create", "shown"} ~> bars[b].phase \in {"gone", "lost"} \/ crashed
=============================================================================
