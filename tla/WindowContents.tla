---------------------------- MODULE WindowContents ----------------------------
(***************************************************************************)
(* What a window holds besides its link: the channels of a serial window,  *)
(* the table of instructions and the terminal of a serial, TCP or UDP      *)
(* window, the messages of an MQTT window.  None reads what another        *)
(* writes, and a behaviour here is of one of them.                         *)
(***************************************************************************)
EXTENDS SerialChannels

CONSTANTS
    Rows, NewRow, ResetRow, MaxRows, MaxHeight, Prefetch,  \* of InstructionTable
    MaxLines, MaxMessages,                                 \* of Terminal
    Arrivals, Length, CharWidth, LineHeight, Room, Pixels, \* of ChatSelection
    Views, Bubbles, Widths, Letters                        \* of ChatSizes

ASSUME RowsAssumption == {NewRow, ResetRow} \subseteq Rows
ASSUME TableAssumption == {MaxRows, MaxHeight, Prefetch} \subseteq Nat \ {0}
ASSUME MessagesAssumption ==
    /\ {MaxLines, MaxMessages, Length, Letters} \subseteq Nat
    /\ {Arrivals, CharWidth, LineHeight, Room} \cup Widths \subseteq Nat \ {0}
    /\ CharWidth <= Room /\ Pixels \subseteq [x : Int, y : Nat]

VARIABLES
    kind,  \* what the behaviour is of
    host, opened, model_, cells, widget_rows_, customEnabled, isEnabled, top, height,
    posted, blanks, saved, stored, edited,
    display_type_, terminal_, send_byte_count_, recv_byte_count_, page, pages, formats, written,
    rows, marks, m_tempSelections, m_finalSelections, m_isMousePressed, active, m_anchorIndex,
    anchor, current, tmp_index_list_, old_index_, menu, pressed, pointed, skipped,
    width, bar, size_cache_, cache_width_, hint, resizing, stale

rowVars == <<host, opened, model_, cells, widget_rows_, customEnabled, isEnabled, top, height,
             posted, blanks, saved, stored, edited>>

terminalVars == <<display_type_, terminal_, send_byte_count_, recv_byte_count_, page, pages,
                  formats, written>>

chatVars == <<rows, marks, m_tempSelections, m_finalSelections, m_isMousePressed, active,
              m_anchorIndex, anchor, current, tmp_index_list_, old_index_, menu, pressed, pointed, skipped>>

sizeVars == <<width, bar, size_cache_, cache_width_, hint, resizing, stale>>

Instructions == INSTANCE InstructionTable
Screen == INSTANCE Terminal WITH shown <- written
Chat == INSTANCE ChatSelection WITH Messages <- Arrivals
Sizing == INSTANCE ChatSizes WITH Messages <- Bubbles

ContentsInit ==
    /\ kind \in {"channels", "instructions", "terminal", "chat", "sizes"}
    /\ Init /\ Instructions!Init /\ Screen!Init /\ Chat!Init /\ Sizing!Init
    /\ kind # "channels" => protocol = "RawData"
    /\ kind # "instructions" => host = "SerialWindow" /\ height = MaxHeight
    /\ kind # "sizes" => width = [v \in Views |-> CHOOSE w \in Widths : TRUE]

ChannelStep ==
    /\ kind = "channels" /\ Next
    /\ UNCHANGED <<kind, rowVars, terminalVars, chatVars, sizeVars>>

RowStep ==
    /\ kind = "instructions" /\ Instructions!Next
    /\ UNCHANGED <<kind, vars, terminalVars, chatVars, sizeVars>>

TerminalStep ==
    /\ kind = "terminal" /\ Screen!Next
    /\ UNCHANGED <<kind, vars, rowVars, chatVars, sizeVars>>

ChatStep ==
    /\ kind = "chat" /\ Chat!Next
    /\ UNCHANGED <<kind, vars, rowVars, terminalVars, sizeVars>>

SizeStep ==
    /\ kind = "sizes" /\ Sizing!Next
    /\ UNCHANGED <<kind, vars, rowVars, terminalVars, chatVars>>

ContentsNext == ChannelStep \/ RowStep \/ TerminalStep \/ ChatStep \/ SizeStep

ContentsSpec ==
    ContentsInit /\ [][ContentsNext]_<<kind, vars, rowVars, terminalVars, chatVars, sizeVars>>

-----------------------------------------------------------------------------
(* The properties of each, explained in its module *)

\* SerialChannels: the curves are those of the channels, and the channels as their
\* dialogs were left.
CurvesAreOfTheChannels == kind = "channels" => OneCurvePerChannel /\ ChannelsFollowTheDialog

\* SerialChannels: what is sent is plotted, on the channels of its rules; which asks
\* of the tables that they have the form they should.
SentIsPlotted == kind = "channels" => TypeOK /\ TransmissionsArePlotted

\* InstructionTable: the controls in a row are bound to it and show its data, what
\* counts as saved is what is stored, and no row can be changed while the connection
\* is open.
RowsShowTheirData ==
    kind = "instructions" =>
        /\ Instructions!RowsShowTheirData /\ Instructions!SavedRowsAreStored
        /\ Instructions!LockedWhileOpen

\* InstructionTable: only the user changes a row.
RowsChangeUnderTheUser == Instructions!RowsChangeUnderTheUser

\* Terminal: it shows what was sent and received, in the colours of the directions.
TerminalTellsTheTruth == kind = "terminal" => Screen!TerminalTellsTheTruth

\* ChatSelection, ChatSizes: what the mouse was dragged over is what is marked and
\* copied, and a message has the size its lines need.
DraggedTextIsTaken ==
    /\ kind = "chat" => Chat!DraggedTextIsTaken
    /\ kind = "sizes" => Sizing!SizesFit

\* ChatSelection: text is marked at the pixels it is drawn at.
MarkedAsDrawn == kind = "chat" => Chat!MarkedAsDrawn
=============================================================================
