------------------------------- MODULE Terminal -------------------------------
(***************************************************************************)
(* The terminal of a serial, TCP or UDP window: what FrameWindow writes on *)
(* it (window/frame_window.cpp), how TtTerminalHighlighter colours the     *)
(* lines (ui/controls/TtTerminalLexer.cpp), and the buttons above it.      *)
(*                                                                         *)
(* A message is a direction and what it carries, line by line.  Of a line  *)
(* only what the highlighter looks for counts:                             *)
(*   "text"     nothing of the sort,                                       *)
(*   "hex"      pairs of hexadecimal digits and no more,                   *)
(*   "[Tx]"     the mark of what is sent, somewhere in the text,           *)
(*   "sent", "received"   begins as the terminal begins a message that     *)
(*              was sent or received: a line copied from a terminal.       *)
(***************************************************************************)
EXTENDS Integers, Sequences, SequencesExt

CONSTANTS
    MaxLines,     \* bound: lines of a message
    MaxMessages   \* bound: messages that are shown

LineKinds == {"text", "hex", "[Tx]", "sent", "received"}
Payloads == UNION {[1 .. n -> LineKinds] : n \in 1 .. MaxLines}

VARIABLES
    display_type_,  \* "TEXT" or "HEX"
    terminal_,      \* the blocks: a line, its state and its colour
    send_byte_count_, recv_byte_count_,  \* here lines of payload, not bytes
    page, pages,    \* the page that is shown, of how many
    formats,        \* the buttons TEXT and HEX are visible
    shown           \* every message shown so far, and since when the terminal holds them

vars == <<display_type_, terminal_, send_byte_count_, recv_byte_count_, page, pages,
          formats, shown>>

Init ==
    /\ display_type_ = "TEXT"
    /\ terminal_ = <<>>
    /\ send_byte_count_ = 0 /\ recv_byte_count_ = 0
    /\ page = 0 /\ pages = 1 /\ formats = TRUE
    /\ shown = [messages |-> <<>>, first |-> 1]

-----------------------------------------------------------------------------
\* m_messageStartPattern: the first line of a message always fits, a further one
\* if it was copied from a terminal.
StartsMessage(line) == line.at = 1 \/ line.holds \in {"sent", "received"}

\* m_txTagPattern, looked for in the whole line.
HasTx(line) == (line.at = 1 /\ line.out) \/ line.holds \in {"[Tx]", "sent"}

\* The direction a message is coloured for, after the line it begins with.
Direction(line) == IF HasTx(line) THEN "sent" ELSE "received"

\* Wrong: a further line is not coloured as the one before it.
highlightBlockAlone(line, prevState) ==
    IF ~StartsMessage(line) THEN [line |-> line, state |-> "none", colour |-> "black"]
    ELSE [line |-> line, state |-> Direction(line),
          colour |-> IF line.holds = "hex" THEN "hex" ELSE Direction(line)]

\* The block of a line after one of the state prevState.
highlightBlock(line, prevState) ==
    IF ~StartsMessage(line)
    THEN [line |-> line, state |-> prevState,
          colour |-> IF prevState = "none" THEN "black" ELSE prevState]
    ELSE [line |-> line, state |-> Direction(line),
          colour |-> IF line.holds = "hex" THEN "hex" ELSE Direction(line)]

\* The blocks of some lines below those that are there, one after the other.
Highlighted(lines) ==
    LET block[i \in DOMAIN lines] ==
            highlightBlock(lines[i], IF i > 1 THEN block[i - 1].state
                                     ELSE IF terminal_ = <<>> THEN "none"
                                     ELSE terminal_[Len(terminal_)].state)
    IN  block

\* What appendPlainText makes of a message: a line for each of a text, one line for
\* the digits of the whole.
Lines(n, out, payload) ==
    LET text == IF display_type_ = "HEX" THEN <<"hex">> ELSE payload
    IN  [i \in DOMAIN text |-> [message |-> n, at |-> i, out |-> out, holds |-> text[i]]]

\* showMessage, of bytes or of a string.
showMessage(out, payload) ==
    /\ Len(shown.messages) < MaxMessages
    /\ LET n == Len(shown.messages) + 1
       IN  terminal_' = terminal_ \o Highlighted(Lines(n, out, payload))
    /\ send_byte_count_' = send_byte_count_ + IF out THEN Len(payload) ELSE 0
    /\ recv_byte_count_' = recv_byte_count_ + IF out THEN 0 ELSE Len(payload)
    /\ shown' = [shown EXCEPT !.messages =
                    Append(@, [out |-> out, payload |-> payload, format |-> display_type_])]
    /\ UNCHANGED <<display_type_, page, pages, formats>>

\* The terminal is empty from now on.
Cleared ==
    /\ terminal_' = <<>>
    /\ shown' = [shown EXCEPT !.first = Len(shown.messages) + 1]

\* clear_history_ is clicked.
clear_history ==
    /\ Cleared
    /\ UNCHANGED <<display_type_, send_byte_count_, recv_byte_count_, page, pages, formats>>

\* Wrong: what is on the terminal stays.
setDisplayTypeKeeping(type) ==
    /\ display_type_ # type /\ formats
    /\ display_type_' = type
    /\ UNCHANGED <<terminal_, shown, send_byte_count_, recv_byte_count_, page, pages, formats>>

\* TEXT or HEX is clicked; refreshTerminalDisplay writes nothing again.
setDisplayType(type) ==
    /\ display_type_ # type /\ formats
    /\ display_type_' = type
    /\ Cleared
    /\ UNCHANGED <<send_byte_count_, recv_byte_count_, page, pages, formats>>

\* The plot of a serial window becomes a page beside the terminal.
addDisplayWidget ==
    /\ pages = 1
    /\ pages' = 2
    /\ UNCHANGED <<display_type_, terminal_, send_byte_count_, recv_byte_count_, page,
                   formats, shown>>

\* The button of a page is clicked.
switchPage(idx) ==
    /\ idx < pages
    /\ page' = idx
    /\ formats' = (idx = 0)
    /\ UNCHANGED <<display_type_, terminal_, send_byte_count_, recv_byte_count_, pages, shown>>

Next ==
    \/ \E out \in BOOLEAN, payload \in Payloads : showMessage(out, payload)
    \/ clear_history
    \/ \E type \in {"TEXT", "HEX"} : setDisplayType(type)
    \/ addDisplayWidget
    \/ \E idx \in {0, 1} : switchPage(idx)

Spec == Init /\ [][Next]_vars

-----------------------------------------------------------------------------
Message(block) == shown.messages[block.line.message]

\* A message with a mark of the terminal in it, for which the highlighter cannot
\* know better.  In HEX there are no marks.
Marked(m) == m.format = "TEXT" /\ ToSet(m.payload) \cap {"[Tx]", "sent", "received"} # {}

\* What is to be on the terminal of a message, to the last line.
Whole(m) == IF m.format = "HEX" THEN <<"hex">> ELSE m.payload

\* Before a line of the same message, or of a later one.
Above(line, other) ==
    \/ line.message < other.message
    \/ line.message = other.message /\ line.at < other.at

\* Lines of payload in a direction, of the first n messages that were shown.
Counted(out, n) ==
    LET count[i \in 0 .. Len(shown.messages)] ==
            IF i = 0 THEN 0
            ELSE LET m == shown.messages[i]
                 IN  count[i - 1] + IF m.out = out THEN Len(m.payload) ELSE 0
    IN  count[n]

\* The terminal shows what was sent and what was received: it holds, in order,
\* every line of every message since it was cleared, and no other, all in the format
\* that is chosen; each line of a message without marks of the terminal, whatever
\* marks the messages around it have, is in the colour of its direction (or of
\* digits, if it is the first); and the counters have every message, those that were
\* cleared too.
TerminalTellsTheTruth ==
    /\ \A n \in shown.first .. Len(shown.messages) : \A at \in DOMAIN Whole(shown.messages[n]) :
           \E i \in DOMAIN terminal_ :
               terminal_[i].line.message = n /\ terminal_[i].line.at = at
    /\ \A i, j \in DOMAIN terminal_ : i < j => Above(terminal_[i].line, terminal_[j].line)
    /\ \A i \in DOMAIN terminal_ :
        LET line == terminal_[i].line  m == Message(terminal_[i])
        IN  /\ line.message \in shown.first .. Len(shown.messages)
            /\ line.at \in DOMAIN Whole(m) /\ line.holds = Whole(m)[line.at]
            /\ m.format = display_type_
            /\ ~Marked(m) =>
                 terminal_[i].colour = IF line.at = 1 /\ line.holds = "hex" THEN "hex"
                                       ELSE IF m.out THEN "sent" ELSE "received"
    /\ send_byte_count_ = Counted(TRUE, Len(shown.messages))
    /\ recv_byte_count_ = Counted(FALSE, Len(shown.messages))
=============================================================================
