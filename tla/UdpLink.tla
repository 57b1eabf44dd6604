-------------------------------- MODULE UdpLink --------------------------------
(***************************************************************************)
(* A UDP link: the window (window/udp_window.cpp) and, by its role, the    *)
(* client or the server behind it, core/udp_client.cpp or udp_server.cpp.  *)
(* Everything runs in the GUI thread, and the signals are direct: what     *)
(* a slot does comes before the rest of the handler that caused it, which  *)
(* may overwrite it.                                                       *)
(***************************************************************************)
EXTENDS Naturals, Sequences

CONSTANTS
    Peers,      \* those who send datagrams to the window
    MaxClicks   \* bound: clicks that open the link

VARIABLES
    role,           \* role_
    opened,         \* opened_
    controls,       \* setControlState: never called yet, settings locked or free
    ticking,        \* send_package_timer_ is active
    beating,        \* heartbeat_timer_ is active
    queue,          \* msg_queue_: for each chunk, the opening it was typed in
    packaged,       \* package_size_ > 0, which only a client's settings can set
    marked,         \* the entry of the session list shows it as working
    clicks,         \* how often an opening was tried
    bound,          \* the socket is bound
    known_clients_,
    ended           \* how the link was closed last

window == <<opened, controls, ticking, beating, queue, marked>>
vars == <<role, window, packaged, clicks, bound, known_clients_, ended>>

Init ==
    /\ role \in {"Client", "Server"}
    /\ opened = FALSE /\ marked = FALSE
    /\ controls = "fresh"
    /\ ticking = FALSE /\ beating = FALSE
    /\ queue = <<>>
    /\ packaged \in (IF role = "Client" THEN BOOLEAN ELSE {FALSE})
    /\ clicks = 0
    /\ bound = FALSE
    /\ known_clients_ = {}
    /\ ended = "never"

-----------------------------------------------------------------------------
(* The slots *)

\* The settings are locked while a link is open, and the instruction table with
\* them; the send button is the other way round.
setControlState(state) == controls' = IF state THEN "free" ELSE "locked"

\* Wrong: the session list is not told.
errorOccurredUntold ==
    /\ opened' = FALSE
    /\ setControlState(TRUE)
    /\ ticking' = FALSE /\ beating' = FALSE
    /\ queue' = <<>>
    /\ UNCHANGED marked

\* An error closes the window, and leaves the socket as it is.
errorOccurred ==
    /\ opened' = FALSE
    /\ setControlState(TRUE)
    /\ ticking' = FALSE /\ beating' = FALSE
    /\ queue' = <<>>
    /\ marked' = FALSE

\* The client has bound its socket.
connected ==
    /\ opened' = TRUE
    /\ ticking' = TRUE /\ beating' = TRUE
    /\ queue' = <<>>

\* The window is closed, and was closed before the attempt.
StaysClosed ==
    /\ opened' = FALSE
    /\ ticking' = FALSE /\ beating' = FALSE
    /\ queue' = <<>>

-----------------------------------------------------------------------------
(* Opening and closing *)

\* A socket still bound is closed first.  The attempt is refused for the
\* addresses it is given, and may leave the socket bound: the group of a
\* multicast is joined after binding.
connectToOther ==
    /\ role = "Client"
    /\ \/ /\ connected
          /\ bound' = TRUE
          /\ UNCHANGED ended
       \/ /\ StaysClosed
          /\ bound' \in BOOLEAN
          /\ ended' = "refused"

listen ==
    /\ role = "Server"
    /\ \/ /\ opened' = TRUE
          /\ bound' = TRUE
          /\ UNCHANGED <<ticking, beating, queue, ended>>
       \/ /\ StaysClosed
          /\ bound' = FALSE
          /\ ended' = "refused"

\* The button is pressed on a closed window.  Whatever has become of the
\* attempt, the settings are locked and the list is told that the link works.
ClickOn ==
    /\ ~opened
    /\ clicks < MaxClicks
    /\ clicks' = clicks + 1
    /\ connectToOther \/ listen
    /\ setControlState(FALSE)
    /\ marked' = TRUE
    /\ UNCHANGED <<role, packaged, known_clients_>>

\* close() of the client or of the server, which keeps its known clients.
close == bound' = FALSE

\* The button is pressed on an open window.
ClickOff ==
    /\ opened
    /\ close
    /\ errorOccurred
    /\ ended' = "click"
    /\ UNCHANGED <<role, packaged, clicks, known_clients_>>

\* The package size is edited.
sendPackageMaxSizeChanged ==
    /\ role = "Client"
    /\ controls # "locked"
    /\ packaged' = ~packaged
    /\ UNCHANGED <<role, window, clicks, bound, known_clients_, ended>>

-----------------------------------------------------------------------------
(* Sending and receiving *)

\* writePendingDatagrams: a server that knows nobody reports an error, and so
\* does a socket that sends nothing at all.
writePendingDatagrams(rest) ==
    \/ /\ role = "Client" \/ known_clients_ # {}
       /\ queue' = rest
       /\ UNCHANGED <<opened, controls, ticking, beating, marked, ended>>
    \/ /\ errorOccurred
       /\ ended' = "error"

\* The send button; a message is one chunk, or two when it is cut up.  Bound:
\* a message is only cut up when the one before it has been taken up.
sendMessage ==
    /\ opened
    /\ \/ /\ packaged
          /\ queue = <<>>
          /\ queue' = <<clicks, clicks>>
          /\ UNCHANGED <<opened, controls, ticking, beating, marked, ended>>
       \/ /\ ~packaged
          /\ writePendingDatagrams(queue)
    /\ UNCHANGED <<role, packaged, clicks, bound, known_clients_>>

\* Sent at once, cut up or not.
sendPackagedData ==
    /\ opened
    /\ writePendingDatagrams(queue)
    /\ UNCHANGED <<role, packaged, clicks, bound, known_clients_>>

\* heartbeat_timer_ sends what there is to send.
setHeartbeartContent == beating /\ sendPackagedData

\* The delay of a row of the instruction table is over, one clicked before the
\* link was opened included.
sendInstructionTableContent == sendPackagedData

\* send_package_timer_ takes up one chunk.
sendPackageTimeout ==
    /\ ticking
    /\ queue # <<>>
    /\ writePendingDatagrams(Tail(queue))
    /\ UNCHANGED <<role, packaged, clicks, bound, known_clients_>>

\* A datagram arrives and is shown, whether or not the window counts as open;
\* a server remembers who has sent it.
readPendingDatagrams ==
    /\ bound
    /\ \E p \in Peers :
           known_clients_' = IF role = "Server" THEN known_clients_ \cup {p} ELSE known_clients_
    /\ UNCHANGED <<role, window, packaged, clicks, bound, ended>>

-----------------------------------------------------------------------------
Next ==
    \/ ClickOn \/ ClickOff \/ sendPackageMaxSizeChanged
    \/ sendMessage \/ setHeartbeartContent \/ sendInstructionTableContent
    \/ sendPackageTimeout
    \/ readPendingDatagrams

Spec == Init /\ [][Next]_vars

-----------------------------------------------------------------------------
(* Properties *)

\* Types; only a client cuts messages up and is beating.
TypeOK ==
    /\ role \in {"Client", "Server"}
    /\ opened \in BOOLEAN /\ ticking \in BOOLEAN /\ beating \in BOOLEAN
    /\ packaged \in BOOLEAN /\ marked \in BOOLEAN /\ bound \in BOOLEAN
    /\ controls \in {"fresh", "locked", "free"}
    /\ clicks \in 0 .. MaxClicks
    /\ queue \in Seq(1 .. MaxClicks) /\ Len(queue) <= 2
    /\ known_clients_ \subseteq Peers
    /\ ended \in {"never", "refused", "click", "error"}
    /\ role = "Server" => ~packaged /\ ~ticking /\ ~beating

\* The window, its timer and the entry of the session list show what became
\* of the socket, although three places set each of them and the last one
\* wins: an open window has a bound socket and locked settings; one closed by
\* a click has let its socket go; one closed by a click or by an error is
\* free to be changed and not listed as working.  Left out, because the code
\* is wrong there: after an error the socket stays bound, and after a refused
\* opening the settings stay locked and the list shows a working link.
WindowShowsTheSocket ==
    /\ TypeOK
    /\ opened => bound /\ marked /\ controls = "locked" /\ (ticking = (role = "Client"))
    /\ ~opened => ~ticking /\ ~beating /\ queue = <<>>
    /\ ~opened /\ ended = "click" => ~bound
    /\ ~opened /\ ended \in {"click", "error"} => ~marked /\ controls = "free"

=============================================================================
