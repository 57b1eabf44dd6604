----------------------------- MODULE ChatSelection -----------------------------
(***************************************************************************)
(* Marking text in the messages of an MQTT window with the mouse, and      *)
(* copying it: TtChatView and TtChatMessageModel                           *)
(* (lib_ui/ui/control/ChatWidget).                                         *)
(*                                                                         *)
(* A message is its row; rows are only ever added, at the end.  All have   *)
(* the same text, of letters of one width without a space, broken into     *)
(* lines.  A point of the view is a row and a pixel of its item: x counts  *)
(* from the left edge of the bubble, y from the top of the item.  A place  *)
(* is a row and a number of characters of its text.                        *)
(***************************************************************************)
EXTENDS Integers, FiniteSets, FiniteSetsExt

CONSTANTS
    Messages,   \* bound: messages that arrive
    Length,     \* characters of each
    CharWidth, LineHeight,  \* of the font, in pixels
    Room,       \* width of a line, in pixels
    Pixels      \* bound: those of an item the mouse comes to

VARIABLES
    rows,       \* messages there are
    marks,      \* m_selectionStart and m_selectionEnd of each
    m_tempSelections, m_finalSelections,  \* marked in this drag, and in the last
    m_isMousePressed, active,
    m_anchorIndex, anchor, current,  \* m_selection: a row, 0 for none, and a place
    tmp_index_list_, old_index_,
    menu,       \* the context menu is open
    \* What happened, which no step depends on: the points of this drag where the button
    \* went down and where the mouse is, and whether it has once left a row out, or the
    \* wheel has, from where on the points are not kept.
    pressed, pointed, skipped

vars == <<rows, marks, m_tempSelections, m_finalSelections, m_isMousePressed, active,
          m_anchorIndex, anchor, current, tmp_index_list_, old_index_, menu, pressed, pointed,
          skipped>>

NoRow == 0
NoMark == [start |-> -1, end |-> -1]
NoPlace == [row |-> NoRow, pos |-> -1]
NoPoint == [row |-> NoRow]

horizontalMargin == 6
verticalMargin == 4

\* getLayoutCache breaks the text into lines; there is always one.
LineLength == Room \div CharWidth
LastLine == IF Length = 0 THEN 0 ELSE (Length - 1) \div LineLength

\* Points of the items, in the bubble or beside it.
Points == [row : 1 .. rows, at : Pixels]

\* In the bubble, which is the longest line and the lines with their margins.
hitTest(p) ==
    /\ 0 <= p.at.x /\ p.at.x < CharWidth * Min({Length, LineLength}) + 2 * horizontalMargin
    /\ 0 <= p.at.y - verticalMargin
    /\ p.at.y - verticalMargin < LineHeight * (LastLine + 1) + 2 * verticalMargin

\* The end of a character that is nearest to an x of a line.  Right of a line, Qt takes
\* the character before the next one for a space, and stays before it.
xToCursor(line, x) ==
    LET begin == line * LineLength
        end == Min({Length, begin + LineLength})
    IN  CASE x <= 0 -> begin
          [] x > 0 /\ x < (end - begin) * CharWidth ->
                 Min({end, begin + (2 * x + CharWidth) \div (2 * CharWidth)})
          [] OTHER -> IF line = LastLine THEN end ELSE end - 1

\* The place taken for a point.  One margin is taken from x, none from y; a point on the
\* edge of two lines is on the first, one left or right of what there is room for on
\* the last.
posToCursor(p) ==
    LET x == p.at.x - verticalMargin
        y == Max({0, p.at.y - verticalMargin - 1})
    IN  xToCursor(IF 0 <= x /\ x <= Room THEN Min({LastLine, y \div LineHeight}) ELSE LastLine, x)

PlaceAt(p) == [row |-> p.row, pos |-> posToCursor(p)]

Init ==
    /\ rows = 1
    /\ marks = [r \in 1 .. Messages |-> NoMark]
    /\ m_tempSelections = {} /\ m_finalSelections = {}
    /\ m_isMousePressed = FALSE /\ active = FALSE
    /\ m_anchorIndex = NoRow /\ anchor = NoPlace /\ current = NoPlace
    /\ tmp_index_list_ = {} /\ old_index_ = NoRow
    /\ menu = FALSE
    /\ pressed = NoPoint /\ pointed = NoPoint /\ skipped = FALSE

\* A message arrives or is published.
appendMessages ==
    /\ rows < Messages
    /\ rows' = rows + 1
    /\ UNCHANGED <<marks, m_tempSelections, m_finalSelections, m_isMousePressed, active,
                   m_anchorIndex, anchor, current, tmp_index_list_, old_index_, menu,
                   pressed, pointed, skipped>>

\* clearAllSelections: the marks of the messages of the last drag.
Unmarked(m, messages) == [r \in DOMAIN m |-> IF r \in messages THEN NoMark ELSE m[r]]

\* What selectedText returns of a message with this mark: its characters.
selectedText(mark) ==
    LET start == Min({mark.start, mark.end})
        end == Max({mark.start, mark.end})
    IN  IF start < 0 THEN {} ELSE start .. end - 1

\* The characters that are highlighted.
createSelectionFormats(mark) ==
    IF mark.start = mark.end THEN {}
    ELSE Min({mark.start, mark.end}) .. Max({mark.start, mark.end}) - 1

\* A point is kept until the mouse leaves a row out.
Kept(p, left) == IF left THEN NoPoint ELSE p

\* The left button goes down on a message, no drag going on: clearAllSelections, and a
\* new drag begins if it is the bubble that was hit.
mousePressEvent(p) ==
    /\ ~m_isMousePressed /\ ~menu
    /\ m_isMousePressed' = TRUE
    /\ tmp_index_list_' = {}
    /\ m_anchorIndex' = p.row
    /\ LET cleared == Unmarked(marks, m_finalSelections)
           place == PlaceAt(p)
       IN  \/ /\ hitTest(p)
              /\ active' = TRUE
              /\ anchor' = place /\ current' = place
              /\ marks' = [cleared EXCEPT ![p.row] = [start |-> place.pos, end |-> place.pos]]
              /\ m_tempSelections' = m_tempSelections \cup {p.row}
              /\ pressed' = Kept(p, skipped) /\ pointed' = Kept(p, skipped)
           \/ /\ ~hitTest(p)
              /\ marks' = cleared
              /\ UNCHANGED <<active, anchor, current, m_tempSelections, pressed, pointed>>
    /\ UNCHANGED <<rows, m_finalSelections, old_index_, menu, skipped>>

\* It goes down below the last message.
mousePressBelow ==
    /\ ~m_isMousePressed /\ ~menu
    /\ m_isMousePressed' = TRUE
    /\ tmp_index_list_' = {}
    /\ marks' = Unmarked(marks, m_finalSelections)
    /\ UNCHANGED <<rows, m_tempSelections, m_finalSelections, active, m_anchorIndex, anchor,
                   current, old_index_, menu, pressed, pointed, skipped>>

-----------------------------------------------------------------------------
Between(r, a, b) == (a <= r /\ r <= b) \/ (b <= r /\ r <= a)

\* What updateSelections marks of a row between the anchor and where the mouse is:
\* all, but of the first and of the last row the part that lies between; the smaller
\* place is the start.
MarkOf(r, from, to) ==
    LET up == from.row >= to.row
        startPos == IF r = from.row THEN from.pos ELSE IF r = to.row /\ up THEN to.pos ELSE 0
        endPos ==
            IF r = to.row /\ (r = from.row \/ ~up) THEN to.pos
            ELSE IF r = from.row /\ up THEN 0 ELSE Length
    IN  [start |-> Min({startPos, endPos}), end |-> Max({startPos, endPos})]

\* updateSelections, with the marks m: only what it marks is marked in this drag.
updateSelections(m, from, to) ==
    LET range == {r \in 1 .. rows : Between(r, from.row, to.row)}
        cleared == Unmarked(m, m_finalSelections)
    IN  /\ marks' = [r \in DOMAIN m |-> IF r \in range THEN MarkOf(r, from, to) ELSE cleared[r]]
        /\ m_tempSelections' = range

\* Wrong: what the mouse comes back from stays marked.
PassedNone(p) == [rows |-> {}, list |-> tmp_index_list_ \cup {p.row}]

\* The rows unmarked because the mouse has left them, and those that are kept in
\* tmp_index_list_.
Passed(p) ==
    LET list == tmp_index_list_ \cup {p.row}
        first == Min(list)
        before == IF old_index_ < first /\ old_index_ # NoRow THEN {old_index_} ELSE {}
        up == IF p.row > first THEN {first} ELSE {}
        down == LET end == Max(list \ up) IN IF p.row < end THEN {end} ELSE {}
    IN  [rows |-> before \cup up \cup down, list |-> list \ (up \cup down)]

\* The mouse is moved over a message in a drag.
mouseMoveEvent(p) ==
    /\ active /\ ~menu
    /\ current' = PlaceAt(p)
    /\ LET passed == Passed(p)
       IN  /\ updateSelections(Unmarked(marks, passed.rows), anchor, PlaceAt(p))
           /\ tmp_index_list_' = passed.list
           /\ old_index_' = Min(passed.list)
    /\ LET left == skipped \/ ~Between(p.row, pointed.row - 1, pointed.row + 1)
       IN  /\ skipped' = left
           /\ pressed' = Kept(pressed, left) /\ pointed' = Kept(p, left)
    /\ UNCHANGED <<rows, m_finalSelections, m_isMousePressed, active, m_anchorIndex, anchor,
                   menu>>

\* The wheel is turned with the button down, and a message is under the mouse.  If the
\* button went down where no message was, nothing is marked.
wheelEvent(p) ==
    /\ m_isMousePressed /\ ~menu
    /\ current' = PlaceAt(p)
    /\ \/ m_anchorIndex # NoRow /\ updateSelections(marks, anchor, PlaceAt(p))
       \/ m_anchorIndex = NoRow /\ UNCHANGED <<marks, m_tempSelections>>
    /\ pressed' = NoPoint /\ pointed' = NoPoint /\ skipped' = TRUE
    /\ UNCHANGED <<rows, m_finalSelections, m_isMousePressed, active, m_anchorIndex, anchor,
                   tmp_index_list_, old_index_, menu>>

\* The marks of the last drag go, but where this one has set them.
commitSelections ==
    /\ marks' = Unmarked(marks, m_finalSelections \ m_tempSelections)
    /\ m_finalSelections' = m_tempSelections
    /\ m_tempSelections' = {}

\* selectedText of the model, what copySelectedText takes: the marked text of the
\* messages of the last drag, one after the other in the order of a hash set.
Selected == {[row |-> r, text |-> selectedText(marks[r])] : r \in m_finalSelections}

\* It is not empty: with line ends between them, two messages never are.
SomethingSelected ==
    Cardinality(m_finalSelections) > 1 \/ \E part \in Selected : part.text # {}

\* The left or the right button goes up.  Either ends a drag; the right one opens the
\* menu if there is text to copy.
mouseReleaseEvent(left) ==
    /\ ~menu /\ (left => m_isMousePressed)
    /\ m_isMousePressed' = (m_isMousePressed /\ ~left)
    /\ IF active THEN active' = FALSE /\ commitSelections
       ELSE UNCHANGED <<active, marks, m_finalSelections, m_tempSelections>>
    /\ pressed' = NoPoint /\ pointed' = NoPoint
    /\ menu' = (~left /\ SomethingSelected')
    /\ UNCHANGED <<rows, m_anchorIndex, anchor, current, tmp_index_list_, old_index_, skipped>>

\* The menu closes, by its one entry, copySelectedText, or without it.  The clipboard,
\* which the program never reads, is not part of the model: what it gets is Selected.
menuClosed ==
    /\ menu
    /\ menu' = FALSE
    /\ UNCHANGED <<rows, marks, m_tempSelections, m_finalSelections, m_isMousePressed, active,
                   m_anchorIndex, anchor, current, tmp_index_list_, old_index_, pressed,
                   pointed, skipped>>

Next ==
    \/ appendMessages
    \/ \E p \in Points : mousePressEvent(p) \/ mouseMoveEvent(p) \/ wheelEvent(p)
    \/ mousePressBelow \/ menuClosed
    \/ \E left \in BOOLEAN : mouseReleaseEvent(left)

Spec == Init /\ [][Next]_vars

-----------------------------------------------------------------------------
\* The characters of a row between two places of the text.
Dragged(r, a, b) ==
    LET Below(row, i, place) == row < place.row \/ (row = place.row /\ i < place.pos)
    IN  {i \in 0 .. Length - 1 : Below(r, i, a) # Below(r, i, b)}

\* The place of the text that is drawn at a point: the text begins one margin right of the
\* edge of its bubble, and the other below it.
DrawnAt(p) ==
    LET y == Max({0, p.at.y - 2 * verticalMargin})
    IN  [row |-> p.row,
         pos |-> xToCursor(Min({LastLine, y \div LineHeight}), p.at.x - horizontalMargin)]

\* Left or right of what there is room for in a line that is not the only one.
BesideLine(p) == LastLine # 0 /\ p.at.x - verticalMargin \notin 0 .. Room

\* The places that are drawn near a point: as far to the right of it and below it as the
\* margins are apart that the painting adds and posToCursor does not take away; beside
\* a line, any place of the message.
Near(p) ==
    {place \in [row : {p.row}, pos : 0 .. Length] :
        \/ BesideLine(p)
        \/ \E dx \in 0 .. horizontalMargin - verticalMargin, dy \in 0 .. verticalMargin :
               place = DrawnAt([row |-> p.row, at |-> [x |-> p.at.x + dx, y |-> p.at.y + dy]])}

\* The text that is marked is the text the mouse was dragged over, and what is marked
\* is what is copied.  However the mouse goes forth and back, drag after drag, as long
\* as it leaves out no row (one that is quick may, and the wheel does), exactly the
\* text between two places stays highlighted, one drawn near where it went down, and
\* one near where it is; and when no drag goes on, a message with marked text is one of
\* those that are copied, and that the next click unmarks, and what is highlighted while
\* the menu is open is all it copies.
DraggedTextIsTaken ==
    ~skipped =>
        /\ active =>
            \E a \in Near(pressed), c \in Near(pointed) :
                \A r \in 1 .. rows : createSelectionFormats(marks[r]) = Dragged(r, a, c)
        /\ ~active =>
            \A r \in 1 .. rows : selectedText(marks[r]) # {} =>
                [row |-> r, text |-> selectedText(marks[r])] \in Selected
        /\ menu =>
            UNION {{<<part.row, i>> : i \in part.text} : part \in Selected} =
            UNION {{<<r, i>> : i \in createSelectionFormats(marks[r])} : r \in 1 .. rows}

\* What a user expects, and the comment in TtChatView::mousePressEvent says is not so:
\* the text between the places that are drawn where the button went down and where the
\* mouse is is the text that is marked.
MarkedAsDrawn ==
    ~skipped /\ active /\ ~BesideLine(pressed) /\ ~BesideLine(pointed) =>
        \A r \in 1 .. rows :
            createSelectionFormats(marks[r]) = Dragged(r, DrawnAt(pressed), DrawnAt(pointed))
=============================================================================
