------------------------------- MODULE ChatSizes -------------------------------
(***************************************************************************)
(* The sizes of the messages in the views of MQTT windows                  *)
(* (TtChatMessageDelegate.cpp, TtChatView.cpp in                           *)
(* lib_ui/ui/control/ChatWidget).  The delegates of all views share one    *)
(* cache, with one width for all that is in it.  That width is of the      *)
(* view; the lines are broken for its viewport, which its scroll bar makes *)
(* narrower.                                                               *)
(*                                                                         *)
(* Widths are in characters, heights in lines, without the margins, which  *)
(* are the same for all.                                                   *)
(***************************************************************************)
EXTENDS Integers

CONSTANTS
    Views, Messages, Widths,
    Letters  \* characters of a message, with no place to break a line at

VARIABLES
    width,        \* of each view
    bar,          \* the views with a scroll bar, which takes a character
    size_cache_,  \* of each message of each view: a size, or Unknown
    cache_width_,
    hint,         \* the last size that was given out
    resizing,     \* viewports whose width has changed, the event not yet handled
    stale         \* views whose messages wait to be laid out again: m_resizeTimer

vars == <<width, bar, size_cache_, cache_width_, hint, resizing, stale>>

Unknown == [width |-> 0, height |-> 0]
NoHint == [view |-> "none", size |-> Unknown]

Init ==
    /\ width \in [Views -> Widths]
    /\ bar = {}
    /\ size_cache_ = [v \in Views |-> [m \in Messages |-> Unknown]]
    /\ cache_width_ = 0
    /\ hint = NoHint
    /\ resizing = {} /\ stale = {}

\* Lines of a message where there is room for n characters in one; one always fits.
LinesOf(n) == IF n < 1 THEN Letters ELSE (Letters + n - 1) \div n

\* getLayoutCache: the lines are broken anew for 72 percent of the viewport.
getLayoutCache(v) ==
    LET viewport == width[v] - (IF v \in bar THEN 1 ELSE 0)
    IN  [width |-> width[v], height |-> LinesOf((18 * viewport) \div 25)]

\* A view asks for the size of a message, to lay it out.
sizeHint(v, m) ==
    /\ v \notin resizing
    /\ LET known == cache_width_ = width[v] /\ size_cache_[v][m] # Unknown
           size == IF known THEN size_cache_[v][m] ELSE getLayoutCache(v)
       IN  /\ hint' = [view |-> v, size |-> size]
           /\ size_cache_' = [size_cache_ EXCEPT ![v][m] = size]
           /\ cache_width_' = width[v]
    /\ UNCHANGED <<width, bar, resizing, stale>>

\* The view becomes w wide.
Widened(v, w) ==
    /\ v \notin resizing /\ w # width[v]
    /\ width' = [width EXCEPT ![v] = w]
    /\ resizing' = resizing \cup {v}
    /\ hint' = NoHint
    /\ UNCHANGED <<bar, size_cache_, cache_width_, stale>>

\* It has more messages than it can show, or no longer.
ScrollBarToggled(v) ==
    /\ v \notin resizing
    /\ bar' = (bar \ {v}) \cup ({v} \ bar)
    /\ resizing' = resizing \cup {v}
    /\ hint' = NoHint
    /\ UNCHANGED <<width, size_cache_, cache_width_, stale>>

\* Wrong: the cache is left to notice that the width is another.
resizeEventTrusting(v) ==
    /\ v \in resizing
    /\ resizing' = resizing \ {v}
    /\ stale' = stale \cup {v}
    /\ cache_width_' \in {cache_width_, width[v]}
    /\ hint' = NoHint
    /\ UNCHANGED <<width, bar, size_cache_>>

\* QListView::resizeEvent, and then clearCache, for all views.  The first may ask for the
\* size of the first message, for the step of its scroll bar: of that the width is left,
\* the size, which may be of the layout before, is not one a message is laid out with.
\* That the delegate paints less finely for 200 ms is left out.
resizeEvent(v) ==
    /\ v \in resizing
    /\ resizing' = resizing \ {v}
    /\ stale' = stale \cup {v}
    /\ cache_width_' \in {cache_width_, width[v]}
    /\ size_cache_' = [u \in Views |-> [m \in Messages |-> Unknown]]
    /\ hint' = NoHint
    /\ UNCHANGED <<width, bar>>

\* m_resizeTimer runs out: the visible messages are laid out once more.
handleViewportResize(v) ==
    /\ v \in stale \ resizing
    /\ stale' = stale \ {v}
    /\ hint' = NoHint
    /\ UNCHANGED <<width, bar, size_cache_, cache_width_, resizing>>

Next ==
    \E v \in Views :
        \/ \E m \in Messages : sizeHint(v, m)
        \/ \E w \in Widths : Widened(v, w)
        \/ ScrollBarToggled(v) \/ resizeEvent(v) \/ handleViewportResize(v)

Spec == Init /\ [][Next]_vars

-----------------------------------------------------------------------------
\* A message is as wide as the view and as high as its lines need: although the cache
\* knows one width only, that of the view that asked last, and not that a scroll bar
\* has come, the size a view gets is one for its own viewport, after any changes of the
\* views and in any order of asking.
SizesFit == hint # NoHint => hint.size = getLayoutCache(hint.view)
=============================================================================
