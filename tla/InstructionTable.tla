--------------------------- MODULE InstructionTable ---------------------------
(***************************************************************************)
(* The table of prepared instructions, TtTableWidget (ui/controls/         *)
(* TtTableView.cpp): the rows live in model_, and only the rows on the     *)
(* screen and a few around them have controls, which are taken from pools, *)
(* bound to a row and unbound again while the user scrolls, adds, deletes  *)
(* and edits.  SerialWindow locks the rows through SetEnabled while it is  *)
(* open; TcpWindow and UdpWindow disable the table as a whole.             *)
(*                                                                         *)
(* Controls are told apart by the place of their cell: widget_rows_ maps   *)
(* a row to the place where the controls bound to it are.  The pools hand  *)
(* out controls reset as new ones are, so a control has no identity of its *)
(* own before it is bound.                                                 *)
(***************************************************************************)
EXTENDS Integers, Sequences, FiniteSetsExt, SequencesExt

CONSTANTS
    Rows,       \* what a row can hold: its switch, name, format, content, delay
    NewRow,     \* what a new row holds: switched on, and no content
    ResetRow,   \* what reset controls show: switched off, and no content
    MaxRows,    \* bound: rows without the header
    MaxHeight,  \* bound: rows the viewport holds, the header included
    Prefetch    \* the rows bound around those on the screen; 2 in the code

VARIABLES
    host,           \* the kind of window the table is part of
    opened,         \* opened_ of that window
    model_,         \* the rows
    cells,          \* the controls in the cells of each row
    widget_rows_,   \* from the rows that are bound to the place of their controls
    customEnabled,  \* the property of this name, as toBool reads it
    isEnabled,      \* QWidget::isEnabled of the table
    top,            \* the first row on the screen, 0 for the header
    height,         \* the rows the viewport holds
    posted,         \* a show or resize event has posted SetupVisibleRows
    blanks,         \* rows deleted since the controls were last set up
    saved,          \* saved_ of the window
    stored,         \* the record in the settings
    edited          \* a row was edited since then

table == <<model_, cells, widget_rows_>>
view == <<top, height>>
lock == <<opened, customEnabled, isEnabled>>
file == <<saved, stored, edited>>
vars == <<host, table, view, lock, posted, blanks, file>>

\* No controls in the cells of a row.
None == [shown |-> ResetRow, wired |-> FALSE, enabled |-> FALSE, send |-> FALSE, there |-> FALSE]

-----------------------------------------------------------------------------
(* Binding and unbinding.  t is the state of the table: its model, its      *)
(* cells and what widget_rows_ says.                                        *)

\* Controls for row: filled from the model first, connected after.
Controls(row, enable) ==
    [shown |-> row, wired |-> TRUE, enabled |-> enable, send |-> TRUE, there |-> TRUE]

\* Of each of some rows.
BindRows(t, rows, enable) ==
    [model |-> t.model,
     cells |-> [r \in DOMAIN t.cells |->
                   IF r \in rows THEN Controls(t.model[r], enable) ELSE t.cells[r]],
     bound |-> [r \in rows \cup DOMAIN t.bound |-> IF r \in rows THEN r ELSE t.bound[r]]]

\* The places of the controls of some rows, wherever these are by now.
Emptied(t, rows) == rows \cup {t.bound[r] : r \in rows}

\* The controls leave their cells, and with them the buttons of the row.
Cleared(t, rows) ==
    [model |-> t.model,
     cells |-> [r \in DOMAIN t.cells |-> IF r \in Emptied(t, rows) THEN None ELSE t.cells[r]],
     bound |-> [r \in DOMAIN t.bound \ rows |-> t.bound[r]]]

\* Wrong: the controls are reset before they are disconnected.
UnBindRowsResetting(t, rows) ==
    LET typed == [r \in DOMAIN t.model |->
                     IF r \in {t.bound[k] : k \in rows} THEN ResetRow ELSE t.model[r]]
    IN  Cleared([t EXCEPT !.model = typed], rows)

\* Disconnected first: what the reset emits reaches nobody.
UnBindRows(t, rows) == Cleared(t, rows)

\* What indexAt says of the rows on the screen, the header not counted.
FirstOnScreen(first) == IF first = 0 THEN 1 ELSE first
LastOnScreen(t, first, high) == Min({Len(t.model), first + high - 1})

Buffer(n) == Max({Prefetch, n \div 5})

\* The rows that are to have controls.
ToBind(t, first, high) ==
    LET from == FirstOnScreen(first)
        to == LastOnScreen(t, first, high)
        buffer == Buffer(to - from + 1)
    IN  Max({1, from - buffer}) .. Min({Len(t.model), to + buffer})

SetupVisibleRows(t, first, high, enable) ==
    LET wanted == ToBind(t, first, high)
    IN  IF t.model = <<>> THEN t
        ELSE UnBindRows(BindRows(t, wanted \ DOMAIN t.bound, enable), DOMAIN t.bound \ wanted)

Now == [model |-> model_, cells |-> cells, bound |-> widget_rows_]

Becomes(t) == model_' = t.model /\ cells' = t.cells /\ widget_rows_' = t.bound

\* The controls are set up for the rows of t.
Arranged(t, first, high) ==
    /\ Becomes(SetupVisibleRows(t, first, high, customEnabled))
    /\ blanks' = 0

MaxTop(n, high) == Max({0, n + 1 - high})

-----------------------------------------------------------------------------
(* The record in the settings.                                              *)

GetTableRecord(rows) == [totalRows |-> Len(rows), rows |-> rows]

\* The rows of a record; a row it lacks is a new one.
RowsOf(record) ==
    [r \in 1 .. record.totalRows |->
        IF r \in DOMAIN record.rows THEN record.rows[r] ELSE NewRow]

\* A table with the rows of the record, which nothing is bound to yet.
SetupTable(record) ==
    [model |-> RowsOf(record), cells |-> [r \in 1 .. record.totalRows |-> None], bound |-> <<>>]

\* The window is built, and locked or not as its kind does at first.
Init ==
    /\ host \in {"SerialWindow", "TcpWindow"}
    /\ opened = FALSE
    /\ model_ = <<>> /\ cells = <<>> /\ widget_rows_ = <<>>
    /\ customEnabled = (host = "SerialWindow")
    /\ isEnabled = TRUE
    /\ top = 0 /\ height \in 1 .. MaxHeight
    /\ posted = FALSE /\ blanks = 0
    /\ saved = TRUE /\ stored = GetTableRecord(<<>>) /\ edited = FALSE

-----------------------------------------------------------------------------
OnScreen(r) == r \in FirstOnScreen(top) .. LastOnScreen(Now, top, height)

\* The button of the header that adds a row.
PlusEnabled == isEnabled /\ (host = "SerialWindow" => customEnabled)

\* The table does not scroll to the new row, for which no item exists.
OnAddRowButtonClicked ==
    /\ PlusEnabled
    /\ Len(model_) < MaxRows
    /\ Arranged([Now EXCEPT !.model = Append(@, NewRow), !.cells = Append(@, None)], top, height)
    /\ saved' = FALSE
    /\ UNCHANGED <<host, view, lock, posted, stored, edited>>

\* The places of the rows behind a row that goes.
Moved(r, gone) == IF r > gone THEN r - 1 ELSE r

\* Wrong: the controls behind it move up, but stay bound to the old rows.
UpdateRowIndicesNot(bound, gone) ==
    [r \in DOMAIN bound |-> Moved(bound[r], gone)]

UpdateRowIndicesAfterDeletion(bound, gone) ==
    [r \in {Moved(k, gone) : k \in DOMAIN bound \ {gone}} |->
        Moved(bound[IF r < gone THEN r ELSE r + 1], gone)]

\* The table without row r; the deletion itself sets up no controls.
Without(t, r) ==
    LET free == IF r \in DOMAIN t.bound THEN UnBindRows(t, {r}) ELSE t
    IN  [model |-> RemoveAt(free.model, r),
         cells |-> RemoveAt(free.cells, r),
         bound |-> UpdateRowIndicesAfterDeletion(free.bound, r)]

\* The delete button of a row, which SetEnabled never locks.  A view that is
\* now too far down scrolls up, and only then are controls set up.
Delete(r) ==
    /\ OnScreen(r) /\ cells[r].there /\ isEnabled
    /\ IF top > MaxTop(Len(model_) - 1, height)
       THEN /\ top' = top - 1
            /\ Arranged(Without(Now, r), top - 1, height)
       ELSE /\ Becomes(Without(Now, r))
            /\ blanks' = Min({blanks, Prefetch}) + 1
            /\ UNCHANGED top
    /\ saved' = FALSE
    /\ UNCHANGED <<host, height, lock, posted, stored, edited>>

Usable(r) == isEnabled /\ cells[r].there /\ cells[r].enabled

\* The user changes a field of a row; if it is connected, the row follows.
\* The window is not told.
Edit(r) ==
    /\ OnScreen(r) /\ Usable(r)
    /\ \E row \in Rows \ {cells[r].shown} :
           /\ cells' = [cells EXCEPT ![r].shown = row]
           /\ model_' = IF cells[r].wired THEN [model_ EXCEPT ![r] = row] ELSE model_
    /\ edited' = TRUE
    /\ UNCHANGED <<host, widget_rows_, view, lock, posted, blanks, saved, stored>>

-----------------------------------------------------------------------------
(* The view.                                                                *)

Scroll ==
    /\ \E first \in 0 .. MaxTop(Len(model_), height) \ {top} :
           /\ top' = first
           /\ Arranged(Now, first, height)
    /\ UNCHANGED <<host, height, lock, posted, file>>

\* resizeEvent.  A view that is now too far down scrolls.
Resize ==
    /\ \E high \in 1 .. MaxHeight \ {height} :
           /\ height' = high
           /\ IF top > MaxTop(Len(model_), high)
              THEN /\ top' = MaxTop(Len(model_), high)
                   /\ Arranged(Now, top', high)
              ELSE UNCHANGED <<top, table, blanks>>
    /\ posted' = TRUE
    /\ UNCHANGED <<host, lock, file>>

\* showEvent: the table is shown again.
Show ==
    /\ posted' = TRUE
    /\ UNCHANGED <<host, table, view, lock, blanks, file>>

\* The call that a show or resize event posted.
Posted ==
    /\ posted
    /\ posted' = FALSE
    /\ Arranged(Now, top, height)
    /\ UNCHANGED <<host, view, lock, file>>

-----------------------------------------------------------------------------
(* The window around it.                                                    *)

\* TtTableWidget::SetEnabled reaches the rows that are bound, and the send
\* buttons there are.
SetEnabled(enable) ==
    /\ customEnabled' = enable
    /\ isEnabled' = TRUE
    /\ cells' = [r \in DOMAIN cells |->
           [cells[r] EXCEPT !.enabled = IF r \in DOMAIN widget_rows_ THEN enable ELSE @,
                            !.send = IF cells[r].there THEN ~enable ELSE @]]

\* QWidget::setEnabled, which the windows other than SerialWindow call.
setEnabled(enable) ==
    /\ isEnabled' = enable
    /\ UNCHANGED <<customEnabled, cells>>

\* The connection is opened or closed, by a click or a fault.
SetControlState ==
    /\ opened' = ~opened
    /\ IF host = "SerialWindow" THEN SetEnabled(opened) ELSE setEnabled(opened)
    /\ UNCHANGED <<host, model_, widget_rows_, view, posted, blanks, file>>

saveSetting ==
    /\ saved' = TRUE
    /\ stored' = GetTableRecord(model_)
    /\ edited' = FALSE
    /\ UNCHANGED <<host, table, view, lock, posted, blanks>>

\* The window is closed, what was not saved is lost, and it is built anew from
\* its record.
Reopen ==
    /\ opened' = FALSE /\ isEnabled' = TRUE
    /\ customEnabled' = (host = "SerialWindow")
    /\ top' = 0
    /\ Becomes(SetupVisibleRows(SetupTable(stored), 0, height, customEnabled'))
    /\ blanks' = 0
    /\ saved' = TRUE /\ edited' = FALSE
    /\ UNCHANGED <<host, height, posted, stored>>

Next ==
    \/ OnAddRowButtonClicked
    \/ \E r \in DOMAIN model_ : Delete(r) \/ Edit(r)
    \/ Scroll \/ Resize \/ Show \/ Posted
    \/ SetControlState \/ saveSetting \/ Reopen

Spec == Init /\ [][Next]_vars

-----------------------------------------------------------------------------
(* Properties.                                                              *)

\* Types; every row has its data and its cells, and the view ends with the
\* table.
TypeOK ==
    /\ model_ \in Seq(Rows) /\ Len(model_) <= MaxRows
    /\ cells \in Seq([shown : Rows, wired : BOOLEAN, enabled : BOOLEAN,
                      send : BOOLEAN, there : BOOLEAN])
    /\ Len(cells) = Len(model_)
    /\ DOMAIN widget_rows_ \subseteq DOMAIN model_
    /\ top \in 0 .. MaxTop(Len(model_), height)
    /\ height \in 1 .. MaxHeight
    /\ {opened, customEnabled, isEnabled, posted, saved, edited} \subseteq BOOLEAN
    /\ blanks \in 0 .. Prefetch + 1

\* However rows were scrolled, added and deleted, the controls in the cells of
\* a row are the ones bound to it, they show its data, and they are connected,
\* so that what is typed and what its button sends is that row's (BindRows,
\* UnBindRows, UpdateRowIndicesAfterDeletion, FindRowIndex).  And a row on the
\* screen has its controls, unless a resizing still waits to be taken up or more
\* rows were deleted, without a scroll, than are bound ahead.
RowsShowTheirData ==
    /\ TypeOK
    /\ \A r \in DOMAIN model_ : cells[r].there <=> r \in DOMAIN widget_rows_
    /\ \A r \in DOMAIN widget_rows_ :
           /\ widget_rows_[r] = r
           /\ cells[r].shown = model_[r]
           /\ cells[r].wired
    /\ ~posted /\ blanks <= Prefetch
           => \A r \in DOMAIN model_ : OnScreen(r) => cells[r].there

\* Only the user changes a row: a step that neither adds nor deletes nor
\* restores rows changes at most one, which is on the screen and unlocked.
\* Controls that go back to their pools change none (UnBindRows disconnects
\* them before it resets them).
RowsChangeUnderTheUser ==
    [][(model_' # model_ /\ Len(model_') = Len(model_) /\ model_' # RowsOf(stored)) =>
           \E r \in DOMAIN model_ \cup {0} :
               /\ \A i \in DOMAIN model_ \ {r} : model_'[i] = model_[i]
               /\ (r # 0 /\ model_'[r] # model_[r]) => OnScreen(r) /\ Usable(r)]_vars

\* While the connection is open no row can be changed, whenever it came onto
\* the screen; in a SerialWindow its button sends then, and rows can be
\* changed again once it is closed (SetEnabled, BindRows).
LockedWhileOpen ==
    /\ opened => \A r \in DOMAIN model_ : ~Usable(r)
    /\ host = "SerialWindow" =>
           \A r \in DOMAIN widget_rows_ :
               IF opened THEN cells[r].send ELSE Usable(r)

\* A session that counts as saved has these rows in its record, and building
\* the window from it gives them back, unless a row was edited, of which the
\* window is not told.
SavedRowsAreStored ==
    (saved /\ ~edited) => model_ = RowsOf(stored)

=============================================================================
