----------------------------- MODULE TabSessions -----------------------------
(***************************************************************************)
(* The sessions of the main window: tabs that can be dragged into windows  *)
(* of their own, the list of links at the left, the tabs kept in memory    *)
(* while their connection works, and the stored configurations             *)
(* (ui/widgets/tabwindow.cpp, ui/widgets/session_manager.cpp and the       *)
(* connections made in window/main_window.cpp).                            *)
(*                                                                         *)
(* A session is its uuid.  A widget is what a session window holds that    *)
(* matters here: its configuration, saved_ and opened_.  Everything runs   *)
(* in the GUI thread, and a gesture is one step: the window made while a   *)
(* tab is dragged admits no other, and a connection that breaks under the  *)
(* dialog of a closing tab could as well have broken before it.            *)
(***************************************************************************)
EXTENDS FiniteSets, Naturals

CONSTANTS
    Sessions,      \* the uuids
    Simulated,     \* those of a simulated server, listed in history_mock_list_
    Windows, Root, \* the tab windows; Root is tabWidget_
    Contents,      \* configurations
    NoContent, NoWidget, Nowhere,
    MaxPages,      \* bound: selection pages open in one window
    DropsOnHidden  \* a dragged tab may be dropped where a hidden window was

ASSUME SessionsAssumption ==
    /\ Simulated \subseteq Sessions
    /\ Root \in Windows /\ Nowhere \notin Windows
    /\ Contents # {} /\ NoContent \notin Contents
    /\ MaxPages \in Nat \ {0}
    /\ DropsOnHidden \in BOOLEAN

Widgets == [content : Contents, saved : BOOLEAN, work : BOOLEAN]

ASSUME WidgetAssumption == NoWidget \notin Widgets

VARIABLES
    used,            \* uuids given out
    widgetInstances, \* the widget behind the tab of each session
    place,           \* the window that tab is in
    pages,           \* how many tabs without a session each window has
    closedTabs,      \* per window, the widgets kept in memory
    status,          \* of a window: "none", "shown", "hidden" or, no longer
                     \* in m_windows and never deleted, "abandoned"
    stored,          \* the configuration getSetting answers
    listed           \* the sessions with an entry in one of the two lists

tabs == <<widgetInstances, place, pages, closedTabs, status>>
store == <<stored, listed>>
vars == <<used, tabs, store>>

-----------------------------------------------------------------------------
EmptyMem == [s \in Sessions |-> NoWidget]

OnlyRoot(at, other) == [w \in Windows |-> IF w = Root THEN at ELSE other]

\* The program starts with one window, one selection page in it, and no tab.
Init ==
    /\ used = {}
    /\ widgetInstances = EmptyMem
    /\ place = [s \in Sessions |-> Nowhere]
    /\ pages = OnlyRoot(1, 0)
    /\ closedTabs = OnlyRoot(EmptyMem, EmptyMem)
    /\ status = OnlyRoot("shown", "none")
    /\ stored = [s \in Sessions |-> NoContent]
    /\ listed = {}

Managed == {w \in Windows : status[w] \in {"shown", "hidden"}}
Shown == {w \in Windows : status[w] = "shown"}

Tabs(w) == {s \in Sessions : place[s] = w}

\* QTabWidget::count().
Count(w) == Cardinality(Tabs(w)) + pages[w]

IsOpen(s) == place[s] # Nowhere

\* The window of s has lost its tab; it is left in m_windows unless empty.
removeWindow(w) ==
    status' = IF w # Root /\ Count(w) = 1
              THEN [status EXCEPT ![w] = "abandoned"] ELSE status

\* The tab goes, and its widget with it.
removeUuidTabPage(s) ==
    /\ widgetInstances' = [widgetInstances EXCEPT ![s] = NoWidget]
    /\ place' = [place EXCEPT ![s] = Nowhere]
    /\ removeWindow(place[s])
    /\ UNCHANGED <<pages, closedTabs>>

-----------------------------------------------------------------------------
\* The plus button of a window.
addNewTab(w) ==
    /\ w \in Shown
    /\ pages[w] < MaxPages
    /\ pages' = [pages EXCEPT ![w] = @ + 1]
    /\ UNCHANGED <<used, widgetInstances, place, closedTabs, status, store>>

\* The close button of a page without a session; an empty window stays.
closePage(w) ==
    /\ w \in Shown
    /\ pages[w] > 0
    /\ pages' = [pages EXCEPT ![w] = @ - 1]
    /\ UNCHANGED <<used, widgetInstances, place, closedTabs, status, store>>

\* A kind of connection is chosen on a selection page: the new window takes
\* its place under a new uuid.  It counts as saved, and is not stored.
switchByCreateWidget(w, s) ==
    /\ w \in Shown
    /\ pages[w] > 0
    /\ s \notin used
    /\ used' = used \cup {s}
    /\ pages' = [pages EXCEPT ![w] = @ - 1]
    /\ \E c \in Contents : widgetInstances' =
           [widgetInstances EXCEPT ![s] = [content |-> c, saved |-> TRUE, work |-> FALSE]]
    /\ place' = [place EXCEPT ![s] = w]
    /\ UNCHANGED <<closedTabs, status, store>>

OnScreen(s) == IsOpen(s) /\ place[s] \in Shown

\* Wrong: an edit that does not reset saved_.
EditUnmarked(s) ==
    /\ OnScreen(s)
    /\ \E c \in Contents \ {widgetInstances[s].content} :
           widgetInstances' = [widgetInstances EXCEPT ![s].content = c]
    /\ UNCHANGED <<used, place, pages, closedTabs, status, store>>

\* The user changes the configuration of a session.
Edit(s) ==
    /\ OnScreen(s)
    /\ \E c \in Contents \ {widgetInstances[s].content} :
           widgetInstances' = [widgetInstances EXCEPT ![s].content = c, ![s].saved = FALSE]
    /\ UNCHANGED <<used, place, pages, closedTabs, status, store>>

\* What requestSaveConfig is connected to: an entry, and the setting.
requestSaveConfig(s) ==
    /\ listed' = listed \cup {s}
    /\ stored' = [stored EXCEPT ![s] = widgetInstances[s].content]

saveSetting(s) ==
    /\ OnScreen(s)
    /\ widgetInstances' = [widgetInstances EXCEPT ![s].saved = TRUE]
    /\ requestSaveConfig(s)
    /\ UNCHANGED <<used, place, pages, closedTabs, status>>

\* The on/off button.
OnOff(s) ==
    /\ OnScreen(s)
    /\ widgetInstances' = [widgetInstances EXCEPT ![s].work = ~@]
    /\ UNCHANGED <<used, place, pages, closedTabs, status, store>>

\* A connection breaks, be its widget in a tab or in memory.
ConnectionLost(s) ==
    \/ /\ IsOpen(s)
       /\ widgetInstances[s].work
       /\ widgetInstances' = [widgetInstances EXCEPT ![s].work = FALSE]
       /\ UNCHANGED <<used, place, pages, closedTabs, status, store>>
    \/ \E w \in Windows :
       /\ closedTabs[w][s] # NoWidget
       /\ closedTabs[w][s].work
       /\ closedTabs' = [closedTabs EXCEPT ![w][s].work = FALSE]
       /\ UNCHANGED <<used, widgetInstances, place, pages, status, store>>

-----------------------------------------------------------------------------
\* Wrong: the working page of an emptied window is lost with the window.
saveWorkingTabPageToMemRemoving(s, widget) ==
    LET w == place[s] IN
    /\ widgetInstances' = [widgetInstances EXCEPT ![s] = NoWidget]
    /\ place' = [place EXCEPT ![s] = Nowhere]
    /\ closedTabs' = [closedTabs EXCEPT ![w][s] = widget]
    /\ removeWindow(w)
    /\ UNCHANGED pages

\* The tab leaves its window and its widget, kept, waits in closedTabs_.
saveWorkingTabPageToMem(s, widget) ==
    LET w == place[s] IN
    /\ widgetInstances' = [widgetInstances EXCEPT ![s] = NoWidget]
    /\ place' = [place EXCEPT ![s] = Nowhere]
    /\ closedTabs' = [closedTabs EXCEPT ![w][s] = widget]
    /\ status' = IF w # Root /\ Count(w) = 1
                 THEN [status EXCEPT ![w] = "hidden"] ELSE status
    /\ UNCHANGED pages

\* A tab is closed: a modified session may be saved first (the dialog), and
\* one that works is kept in memory.
handleTabClose(s) ==
    /\ OnScreen(s)
    /\ \E saves \in BOOLEAN :
       /\ saves => ~widgetInstances[s].saved
       /\ IF saves THEN requestSaveConfig(s) ELSE UNCHANGED store
       /\ IF widgetInstances[s].work
          THEN saveWorkingTabPageToMem(s, [widgetInstances[s] EXCEPT !.saved = @ \/ saves])
          ELSE removeUuidTabPage(s)
    /\ UNCHANGED used

\* The widget goes back into a tab of the window that kept it.
restoreClosedTabFromMem(w, s) ==
    /\ widgetInstances' = [widgetInstances EXCEPT ![s] = closedTabs[w][s]]
    /\ place' = [place EXCEPT ![s] = w]
    /\ status' = [status EXCEPT ![w] = "shown"]
    /\ UNCHANGED pages

\* Wrong: the entry is not erased from closedTabs_.
switchByReadingMemNoErase(w, s) ==
    /\ restoreClosedTabFromMem(w, s)
    /\ UNCHANGED closedTabs

\* The window that keeps the widget takes it back, and forgets its entry.
switchByReadingMem(w, s) ==
    /\ restoreClosedTabFromMem(w, s)
    /\ closedTabs' = [closedTabs EXCEPT ![w][s] = NoWidget]

\* A new widget with the stored configuration.  Filling in the settings
\* makes some kinds of window report a modification.
switchByReadingDisk(s) ==
    /\ \E saved \in BOOLEAN : widgetInstances' = [widgetInstances EXCEPT ![s] =
           [content |-> stored[s], saved |-> saved, work |-> FALSE]]
    /\ place' = [place EXCEPT ![s] = Root]
    /\ UNCHANGED <<pages, closedTabs, status>>

\* findTabWindowWithClosedTab looks only at the windows of the manager.
InMem(w, s) == w \in Managed /\ closedTabs[w][s] # NoWidget

\* An entry of a list is clicked.
switchToOtherTabPage(s) ==
    /\ s \in listed
    /\ \/ IsOpen(s) /\ UNCHANGED tabs
       \/ ~IsOpen(s) /\ \E w \in Windows : InMem(w, s) /\ switchByReadingMem(w, s)
       \/ ~IsOpen(s) /\ (\A w \in Windows : ~InMem(w, s)) /\ switchByReadingDisk(s)
    /\ UNCHANGED <<used, store>>

\* Wrong: the setting stays behind, as it does for simulated servers.
uuidsChangedListOnly(s) ==
    /\ s \in listed
    /\ listed' = listed \ {s}
    /\ IF IsOpen(s) THEN removeUuidTabPage(s) ELSE UNCHANGED tabs
    /\ UNCHANGED <<used, stored>>

\* The delete button of an entry: the tab goes, not what closedTabs_ keeps,
\* and the setting goes with an entry of the list of links only.
uuidsChanged(s) ==
    /\ s \in listed
    /\ listed' = listed \ {s}
    /\ IF IsOpen(s) THEN removeUuidTabPage(s) ELSE UNCHANGED tabs
    /\ stored' = IF s \in Simulated THEN stored ELSE [stored EXCEPT ![s] = NoContent]
    /\ UNCHANGED used

-----------------------------------------------------------------------------
\* Where a tab dragged out of window w can end: in a new window, or in
\* another one it is dropped on.
DropsAt(w) ==
    LET hidden == IF DropsOnHidden THEN {v \in Windows : status[v] = "hidden"} ELSE {}
    IN  {v \in Windows : status[v] = "none"} \cup ((Shown \cup hidden) \ {w})

Arrive(w) == IF status[w] = "none" THEN [status EXCEPT ![w] = "shown"] ELSE status

\* A tab is dragged away, which takes a window with another tab.
DragTab(s) ==
    /\ OnScreen(s)
    /\ Count(place[s]) > 1
    /\ \E w \in DropsAt(place[s]) :
       /\ place' = [place EXCEPT ![s] = w]
       /\ status' = Arrive(w)
    /\ UNCHANGED <<used, widgetInstances, pages, closedTabs, store>>

DragPage(from) ==
    /\ from \in Shown
    /\ pages[from] > 0
    /\ Count(from) > 1
    /\ \E w \in DropsAt(from) :
       /\ pages[w] < MaxPages
       /\ pages' = [pages EXCEPT ![from] = @ - 1, ![w] = @ + 1]
       /\ status' = Arrive(w)
    /\ UNCHANGED <<used, widgetInstances, place, closedTabs, store>>

\* A window is closed: its tabs go to the root window and it is deleted,
\* with the widgets in its closedTabs_, its children.
closeEvent(w) ==
    /\ w \in Shown \ {Root}
    /\ pages[w] + pages[Root] <= MaxPages
    /\ place' = [s \in Sessions |-> IF place[s] = w THEN Root ELSE place[s]]
    /\ pages' = [pages EXCEPT ![w] = 0, ![Root] = @ + pages[w]]
    /\ closedTabs' = [closedTabs EXCEPT ![w] = EmptyMem]
    /\ status' = [status EXCEPT ![w] = "none"]
    /\ UNCHANGED <<used, widgetInstances, store>>

\* The main window is closed (forceSave) and the program started again: the
\* lists are filled from the stored configurations.
readingProjectConfiguration ==
    /\ widgetInstances' = EmptyMem
    /\ place' = [s \in Sessions |-> Nowhere]
    /\ pages' = OnlyRoot(1, 0)
    /\ closedTabs' = OnlyRoot(EmptyMem, EmptyMem)
    /\ status' = OnlyRoot("shown", "none")
    /\ listed' = {s \in Sessions : stored[s] # NoContent}
    /\ UNCHANGED <<used, stored>>

Next ==
    \/ \E w \in Windows : addNewTab(w) \/ closePage(w) \/ DragPage(w) \/ closeEvent(w)
    \/ \E w \in Windows, s \in Sessions : switchByCreateWidget(w, s)
    \/ \E s \in Sessions :
           \/ Edit(s) \/ saveSetting(s) \/ OnOff(s) \/ ConnectionLost(s)
           \/ handleTabClose(s) \/ switchToOtherTabPage(s) \/ uuidsChanged(s) \/ DragTab(s)
    \/ readingProjectConfiguration

Spec == Init /\ [][Next]_vars

-----------------------------------------------------------------------------
\* Type correctness; a session has a widget behind its tab exactly when it
\* has a tab.
TypeOK ==
    /\ used \subseteq Sessions
    /\ widgetInstances \in [Sessions -> Widgets \cup {NoWidget}]
    /\ place \in [Sessions -> Windows \cup {Nowhere}]
    /\ \A s \in Sessions : IsOpen(s) <=> widgetInstances[s] # NoWidget
    /\ pages \in [Windows -> 0 .. MaxPages]
    /\ closedTabs \in [Windows -> [Sessions -> Widgets \cup {NoWidget}]]
    /\ status \in [Windows -> {"none", "shown", "hidden", "abandoned"}]
    /\ stored \in [Sessions -> Contents \cup {NoContent}]
    /\ listed \subseteq Sessions

\* A session never has two widgets that a click on its entry could bring up:
\* one in a tab and one in memory, or two in memory of different windows; and
\* its tab, if it has one, is in a window that is on the screen, however
\* windows were emptied, hidden, closed and filled again.
OneWidgetPerSession ==
    /\ TypeOK
    /\ \A s \in Sessions :
           /\ Cardinality({w \in Windows : InMem(w, s)}) + (IF IsOpen(s) THEN 1 ELSE 0) <= 1
           /\ IsOpen(s) => place[s] \in Shown

\* The save button says the truth: a listed session that is not marked as
\* modified has exactly its configuration stored, in a tab or in memory.
SavedMeansStored ==
    \A s \in listed :
        /\ IsOpen(s) /\ widgetInstances[s].saved => stored[s] = widgetInstances[s].content
        /\ \A w \in Windows : InMem(w, s) /\ closedTabs[w][s].saved
                                  => stored[s] = closedTabs[w][s].content

\* A link that was deleted stays deleted: a session that has been used and
\* has neither an entry nor a tab never gets an entry again, at a restart
\* neither.  (Not so for simulated servers, whose setting is left behind.)
DeletedStaysDeleted ==
    [][\A s \in used \ Simulated : ~IsOpen(s) /\ s \notin listed => s \notin listed']_vars

\* Closing a tab, or the window it is in, never ends the connection behind
\* it: unless its entry is deleted or the program starts again, the widget of
\* a working tab stays, in a tab or at work in the memory of a window.
ClosingKeepsWork ==
    [][\/ \A s \in Sessions :
             IsOpen(s) /\ widgetInstances[s].work =>
                 \/ IsOpen(s)'
                 \/ \E w \in Windows : InMem(w, s)' /\ closedTabs'[w][s].work
                 \/ s \in listed \ listed'
       \/ readingProjectConfiguration]_vars

=============================================================================
