---------------------------- MODULE RegisterTable ----------------------------
(***************************************************************************)
(* Ui::TtModbusTableWidget (ui/controls/TtTableView.{h,cpp}) as the coil   *)
(* table of a Modbus window: the rows of the view, the widgets that are    *)
(* created for a row only once it can be seen, rowsData_, which lists them *)
(* in the order of their creation, and the address each row would write.   *)
(*                                                                         *)
(* An address is typed as text.  Its text is kept as the number it stands  *)
(* for and the base it is written in; the code reads every text in base    *)
(* ten.  All of it runs in the GUI thread, one handler at a time.          *)
(***************************************************************************)
EXTENDS Integers, Sequences, SequencesExt

CONSTANTS
    Addresses,    \* the addresses a user types
    MaxRows,      \* bound: the rows of the table
    visibleRows   \* visibleRowCount(): the rows the viewport has room for

VARIABLES
    cells,     \* the rows of the view: their widgets, or NoWidgets
    rowsData,  \* rowsData_: widgets and currentAddress, in order of creation
    text,      \* the text of each address editor
    captured,  \* the row number captured by each editor's textChanged slot
    hex,       \* data_format_ shows HEX: it does when the table is created
    scroll,    \* verticalScrollBar()->value()
    saved      \* the rows of the record last saved

view == <<cells, rowsData, text, captured>>
vars == <<view, hex, scroll, saved>>

\* At most MaxRows rows have widgets, and their rowsData_ may outlive them.
Widgets == 1..(2 * MaxRows)
NoWidgets == 0
NoAddress == -1

\* "" before anything is typed; "letters" stands for a base-16 text that is
\* no number in base ten.
Texts == [base : {"dec", "hex"}, n : 0..255] \cup {[base |-> "none", n |-> 0]}
EmptyText == [base |-> "none", n |-> 0]
Dec(n) == [base |-> "dec", n |-> n]
Hex(n) == [base |-> "hex", n |-> n]

\* QString::toInt in base ten; hexadecimal texts have two digits.
ParsedBase10(x) ==
    IF x.base = "dec" THEN x.n
    ELSE IF x.base = "hex" /\ x.n % 16 < 10 /\ x.n \div 16 < 10
         THEN 10 * (x.n \div 16) + (x.n % 16)
         ELSE NoAddress

\* The same string: only then does setText not emit textChanged.
SameText(x, y) ==
    \/ x = y
    \/ /\ {x.base, y.base} = {"dec", "hex"}
       /\ ParsedBase10(x) = ParsedBase10(y) /\ ParsedBase10(x) >= 10

Init ==
    /\ cells = <<>> /\ rowsData = <<>>
    /\ text = [w \in Widgets |-> EmptyText]
    /\ captured = [w \in Widgets |-> 0]
    /\ hex = TRUE /\ scroll = 0
    /\ saved = <<>>

-----------------------------------------------------------------------------
(* Helpers, on a record of the four parts of the view                       *)

Now == [cells |-> cells, data |-> rowsData, text |-> text, captured |-> captured]

EmptyView ==
    [cells |-> <<>>, data |-> <<>>, text |-> [w \in Widgets |-> EmptyText],
     captured |-> [w \in Widgets |-> 0]]

Becomes(t) ==
    /\ cells' = t.cells /\ rowsData' = t.data
    /\ text' = t.text /\ captured' = t.captured

\* A fifth more rows, and at least two, count as visible.
isRowVisible(row, top) ==
    LET extraRows == IF visibleRows < 10 THEN 2 ELSE visibleRows \div 5
    IN  top <= row /\ row <= top + visibleRows + extraRows

\* The scroll bar's range: the rows, and the header row, that do not fit.
ScrollRange(rows) == IF rows + 1 <= visibleRows THEN {0} ELSE 0..(rows + 1 - visibleRows)

Clamped(top, rows) == IF top \in ScrollRange(rows) THEN top ELSE top - 1

FreshWidgets(t) ==
    CHOOSE w \in Widgets : w \notin ToSet(t.cells) /\ \A d \in ToSet(t.data) : d.w # w

\* Widgets for a visible row: in the view, and at the end of rowsData_.
setupRow(t, row, top) ==
    LET w == FreshWidgets(t)
    IN  IF ~isRowVisible(row, top) THEN t
        ELSE [cells |-> [t.cells EXCEPT ![row] = w],
              data |-> Append(t.data, [w |-> w, current |-> NoAddress]),
              text |-> [t.text EXCEPT ![w] = EmptyText],
              captured |-> [t.captured EXCEPT ![w] = row]]

\* setText on an address editor.  Its slot updates the entry of rowsData_
\* at the row number it captured when the row was created.
setText(t, w, x) ==
    LET row == t.captured[w]
        changed == [t EXCEPT !.text[w] = x]
    IN  IF SameText(t.text[w], x) THEN t
        ELSE IF row > Len(t.data) THEN changed
        ELSE [changed EXCEPT !.data[row].current = ParsedBase10(x)]

insertRow(t) == [t EXCEPT !.cells = Append(@, NoWidgets)]

-----------------------------------------------------------------------------
(* Operations                                                               *)

addRow ==
    /\ Len(cells) < MaxRows
    /\ Becomes(setupRow(insertRow(Now), Len(cells) + 1, scroll))
    /\ UNCHANGED <<hex, scroll, saved>>

\* The user types an address in a row that has widgets.
TypeAddress ==
    /\ \E row \in 1..Len(cells), n \in Addresses :
           /\ cells[row] # NoWidgets
           /\ Becomes(setText(Now, cells[row], Dec(n)))
    /\ UNCHANGED <<hex, scroll, saved>>

\* setupVisibleRows: the rows that have become visible get their widgets.
Scroll ==
    /\ scroll' \in ScrollRange(Len(cells))
    /\ LET Setup(t, row) == IF t.cells[row] = NoWidgets THEN setupRow(t, row, scroll') ELSE t
           after[row \in 0..Len(cells)] ==
               IF row = 0 THEN Now ELSE Setup(after[row - 1], row)
       IN  Becomes(after[Len(cells)])
    /\ UNCHANGED <<hex, saved>>

\* Mutant: the index of the view, in which row 0 is the header, is used for
\* rowsData_ too.
deleteRowOffByOne(row) ==
    /\ row < Len(rowsData)
    /\ cells' = RemoveAt(cells, row)
    /\ rowsData' = RemoveAt(rowsData, row + 1)
    /\ scroll' = Clamped(scroll, Len(cells'))
    /\ text' = [text EXCEPT ![cells[row]] = EmptyText]
    /\ captured' = [captured EXCEPT ![cells[row]] = 0]
    /\ UNCHANGED <<hex, saved>>

\* The row of the view, with its widgets, and the entry of rowsData_ with its
\* number.
deleteRow(row) ==
    /\ row <= Len(rowsData)
    /\ cells' = RemoveAt(cells, row)
    /\ rowsData' = RemoveAt(rowsData, row)
    /\ scroll' = Clamped(scroll, Len(cells'))
    /\ text' = [text EXCEPT ![cells[row]] = EmptyText]
    /\ captured' = [captured EXCEPT ![cells[row]] = 0]
    /\ UNCHANGED <<hex, saved>>

DeleteSomeRow == \E row \in 1..Len(cells) : cells[row] # NoWidgets /\ deleteRow(row)

\* Every entry of rowsData_ still has its widgets.  Reading the editor of
\* one that has not is undefined: what follows is not looked at.
NoneDestroyed == \A d \in ToSet(rowsData) : d.w \in ToSet(cells)

\* The format box rewrites the address of every entry of rowsData_, read in
\* base ten, in the base it is switched to.
SwitchFormat ==
    /\ NoneDestroyed
    /\ hex' = ~hex
    /\ LET Rewrite(t, i) ==
               LET w == t.data[i].w
                   n == ParsedBase10(t.text[w])
               IN  IF n = NoAddress THEN t
                   ELSE setText(t, w, IF hex' THEN Hex(n) ELSE Dec(n))
           after[i \in 0..Len(rowsData)] ==
               IF i = 0 THEN Now ELSE Rewrite(after[i - 1], i)
       IN  Becomes(after[Len(rowsData)])
    /\ UNCHANGED <<scroll, saved>>

getTableRecord == [i \in 1..Len(rowsData) |-> text[rowsData[i].w]]

\* The window is saved, its tables with it.
Save ==
    /\ NoneDestroyed
    /\ saved' = getTableRecord
    /\ UNCHANGED <<view, hex, scroll>>

\* One row of setTable: rowsData_.last() is taken for the row just added.
restoreRow(t, x) ==
    LET added == setupRow(insertRow(t), Len(t.cells) + 1, 0)
    IN  IF added.data = <<>> THEN added ELSE setText(added, Last(added.data).w, x)

setTable(record) ==
    LET after[i \in 0..Len(record)] ==
            IF i = 0 THEN EmptyView ELSE restoreRow(after[i - 1], record[i])
    IN  after[Len(record)]

\* The window is closed and opened again: its tables are new, and filled with
\* what was saved, if anything was.
Reopen ==
    /\ Becomes(setTable(saved))
    /\ hex' = TRUE /\ scroll' = 0
    /\ UNCHANGED saved

Next ==
    \/ addRow \/ TypeAddress \/ Scroll \/ DeleteSomeRow
    \/ SwitchFormat \/ Save \/ Reopen

Spec == Init /\ [][Next]_vars

-----------------------------------------------------------------------------
(* Properties                                                               *)

\* What the table shows in a row: "" where it has no widgets.
ShownIn(row) == IF cells[row] = NoWidgets THEN EmptyText ELSE text[cells[row]]

TypeOK ==
    /\ cells \in Seq(Widgets \cup {NoWidgets}) /\ Len(cells) <= MaxRows
    /\ rowsData \in Seq([w : Widgets, current : -1..255])
    /\ text \in [Widgets -> Texts]
    /\ captured \in [Widgets -> 0..MaxRows]
    /\ hex \in BOOLEAN /\ scroll \in ScrollRange(Len(cells))
    /\ saved \in Seq(Texts) /\ Len(saved) <= MaxRows

\* The slot of every editor in the view writes to the entry of its row.  A
\* deletion ends this for the rows behind it.
SlotsInPlace == \A i \in 1..Len(rowsData) : captured[rowsData[i].w] = i

\* Row i of the view is entry i of rowsData_, which the graph button and the
\* saved record count on; and as long as no deletion has moved a row under its
\* slot, the address onSwitchButtonToggle writes is the one the row shows.
RowsMatchData ==
    /\ TypeOK
    /\ Len(cells) = Len(rowsData)
    /\ \A i \in 1..Len(cells) : cells[i] = rowsData[i].w
    /\ SlotsInPlace =>
           \A d \in ToSet(rowsData) : d.current = ParsedBase10(text[d.w])

\* "获取刚添加的行数据引用": each row of a saved record is restored into the
\* row added for it, so the table shows the record again.
RestoreShowsTheRecord ==
    [][Reopen => Len(cells') = Len(saved)
                 /\ \A i \in 1..Len(saved) : ShownIn(i)' = saved[i]]_vars
=============================================================================
