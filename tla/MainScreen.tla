------------------------------ MODULE MainScreen ------------------------------
(***************************************************************************)
(* What TabSessions leaves out of the tabs: their titles, which of them is *)
(* in front in its window and which window is in front of the others, what *)
(* the pages without a session are, and the pages that replace themselves  *)
(* by a session (ui/widgets/tabwindow.cpp, and the connections made in     *)
(* window/main_window.cpp).                                                *)
(*                                                                         *)
(* What a session holds besides its title, and whether it works, is left   *)
(* to TabSessions: a tab that is closed may or may not be kept in memory.  *)
(* Tabs can be moved along their bar, so that any may be next to another.  *)
(***************************************************************************)
EXTENDS FiniteSets, Naturals

CONSTANTS
    Sessions,    \* the uuids
    RootTitled,  \* those of MQTT and Modbus windows
    Pages,       \* bound: selection pages open at a time
    Windows, Root,
    Titles, Untitled,
    Nowhere, NoTab, NoEntry

VARIABLES
    place,      \* the window each tab is in
    kinds,      \* of a page: "own", "root" or "blank", see choose
    current,    \* currentWidget() of each window
    front,      \* the window in front
    status,     \* of a window: "none", "shown", "hidden" or "abandoned"
    text,       \* tabText of a session, in memory too
    title,      \* getTitle() of a session
    kept,       \* the window in whose closedTabs_ a session is
    entries,    \* the titles of the entries, and those stored
    dangling,   \* sessions whose widget was deleted and is in widgetInstances
    setting_widget_, \* "none", "there" or "deleted"
    astray      \* sessions whose tab another one named, or was not named

places == <<place, kinds, current, front, status>>
names == <<text, title, entries, astray>>
vars == <<places, names, kept, dangling, setting_widget_>>

Settings == "settings"
Tabs == Sessions \cup Pages \cup {Settings}

In(w) == {t \in Tabs : place[t] = w}
IsOpen(t) == place[t] # Nowhere
Shown == {w \in Windows : status[w] = "shown"}
Managed == {w \in Windows : status[w] \in {"shown", "hidden"}}

\* The lists are filled from what is stored.
Init ==
    /\ \E p \in Pages : place = [t \in Tabs |-> IF t = p THEN Root ELSE Nowhere]
    /\ kinds = [p \in Pages |-> "root"]
    /\ current = [w \in Windows |->
           IF w = Root THEN CHOOSE t \in Pages : place[t] = Root ELSE NoTab]
    /\ front = Root
    /\ status = [w \in Windows |-> IF w = Root THEN "shown" ELSE "none"]
    /\ text = [s \in Sessions |-> Untitled]
    /\ title = [s \in Sessions |-> Untitled]
    /\ kept = [s \in Sessions |-> Nowhere]
    /\ entries \in [Sessions -> Titles \cup {NoEntry}]
    /\ dangling = {} /\ setting_widget_ = "none" /\ astray = {}

-----------------------------------------------------------------------------
(* QTabWidget *)

\* A tab joins a window and becomes its current one; it may come from another.
\* A tab leaves a window: if it was the current one, a neighbour is.
Left(t) ==
    IF ~IsOpen(t) THEN {current}
    ELSE LET w == place[t]  others == In(w) \ {t} IN
         IF current[w] # t THEN {current}
         ELSE {[current EXCEPT ![w] = o] : o \in IF others = {} THEN {NoTab} ELSE others}

Joins(t, w) ==
    /\ place' = [place EXCEPT ![t] = w]
    /\ \E c \in Left(t) : current' = [c EXCEPT ![w] = t]

Leaves(t) == place' = [place EXCEPT ![t] = Nowhere] /\ current' \in Left(t)

\* The user clicks on a tab, or only on a window.
Select(t) ==
    /\ IsOpen(t) /\ place[t] \in Shown
    /\ current' = [current EXCEPT ![place[t]] = t] /\ front' = place[t]
    /\ UNCHANGED <<place, kinds, status, names, kept, dangling, setting_widget_>>

-----------------------------------------------------------------------------
(* Pages *)

\* addNewTab and setCurrentWidget.
addPage(p, kind, w) ==
    /\ ~IsOpen(p) /\ w \in Shown
    /\ Joins(p, w) /\ kinds' = [kinds EXCEPT ![p] = kind] /\ front' = w
    /\ UNCHANGED <<status, names, kept, dangling, setting_widget_>>

\* The buttons of the list of links, of that of the instructions and of that of
\* the simulated servers; and the plus button of a window.
addSelectToolPage(p) == addPage(p, "own", Root)
newInstruction(p) == addPage(p, "blank", Root)
newSimulation(p) == addPage(p, "root", Root)
tabCreateRequested(p, w) == addPage(p, "own", w)

\* The settings: made once, and brought up as long as they are in tabWidget_.
showSettings ==
    /\ front' = Root
    /\ IF setting_widget_ = "none" THEN Joins(Settings, Root) /\ setting_widget_' = "there"
       ELSE /\ current' = IF place[Settings] = Root THEN [current EXCEPT ![Root] = Settings]
                          ELSE current
            /\ UNCHANGED <<place, setting_widget_>>
    /\ UNCHANGED <<kinds, status, names, kept, dangling>>

\* switchByCreateWidget: the tab t is replaced by a new session.
switchByCreateWidget(t, s) ==
    /\ s \in Sessions /\ ~IsOpen(s) /\ kept[s] = Nowhere /\ entries[s] = NoEntry
    /\ s \notin dangling
    /\ place' = [place EXCEPT ![t] = Nowhere, ![s] = place[t]]
    /\ current' = [current EXCEPT ![place[t]] = s]
    /\ text' = [text EXCEPT ![s] = Untitled] /\ title' = [title EXCEPT ![s] = Untitled]
    /\ dangling' = IF t \in Sessions THEN dangling \cup {t} ELSE dangling
    /\ setting_widget_' = IF t = Settings THEN "deleted" ELSE setting_widget_
    /\ astray' = astray \ {s}
    /\ UNCHANGED <<kinds, status, entries, kept>>

\* Wrong: every page looks at the current tab of the root window.
ReplacedRoot(p) == current[Root]

\* The tab a choice on a page replaces: the page, found in its window; or the
\* current tab of tabWidget_, wherever the page is.
Replaced(p) == IF kinds[p] = "own" THEN p ELSE current[Root]

\* A page with the buttons of the kinds of sessions is on the screen.
Offers(p) ==
    IsOpen(p) /\ place[p] \in Shown /\ current[place[p]] = p /\ kinds[p] # "blank"

choose(p, s) ==
    /\ Offers(p)
    /\ Replaced(p) # NoTab /\ switchByCreateWidget(Replaced(p), s)
    /\ front' = place[p]

-----------------------------------------------------------------------------
(* Sessions *)

\* The pencil of the title.
EditTitle(s, name) ==
    /\ IsOpen(s) /\ place[s] \in Shown
    /\ title' = [title EXCEPT ![s] = name]
    /\ UNCHANGED <<places, text, entries, astray, kept, dangling, setting_widget_>>

\* Wrong: the current tab of the root window, for every kind of session.
NamedRoot(s) == current[Root]

\* The tab setTabTitle gives the new name: the one of the session, or for some
\* kinds the current one of tabWidget_.
Named(s) == IF s \in RootTitled THEN current[Root] ELSE s

\* saveSetting, and what requestSaveConfig is connected to.
Save(s) ==
    /\ entries' = [entries EXCEPT ![s] = title[s]]
    /\ text' = IF Named(s) \in Sessions THEN [text EXCEPT ![Named(s)] = title[s]] ELSE text
    /\ astray' = IF s \notin RootTitled \/ current[Root] = s THEN astray \ {s}
                 ELSE astray \cup {s} \cup ({current[Root]} \cap Sessions)
    /\ UNCHANGED <<title, dangling, setting_widget_>>

saveSetting(s) ==
    /\ IsOpen(s) /\ place[s] \in Shown
    /\ Save(s)
    /\ UNCHANGED <<places, kept>>

\* removeWindow: an emptied window is hidden and forgotten by the manager.
Emptied(w) == w # Root /\ Cardinality(In(w)) = 1

After(w, becomes) == IF Emptied(w) THEN [status EXCEPT ![w] = becomes] ELSE status

\* Another window comes forward when one disappears.
Forward(w) == front' \in IF Emptied(w) THEN Shown \ {w} ELSE {w}

\* The close button of a session, changed or not, that works or does not.
handleTabClose(s) ==
    /\ IsOpen(s) /\ place[s] \in Shown
    /\ \/ Save(s) \/ UNCHANGED <<names, dangling, setting_widget_>>
    /\ Leaves(s)
    /\ \/ kept' = [kept EXCEPT ![s] = place[s]] /\ status' = After(place[s], "hidden")
       \/ kept' = kept /\ status' = After(place[s], "abandoned")
    /\ Forward(place[s])
    /\ UNCHANGED kinds

\* That of a page.  Nobody is told that the settings are deleted.
handleTabCloseRequested(t) ==
    /\ IsOpen(t) /\ place[t] \in Shown
    /\ Leaves(t) /\ front' = place[t]
    /\ setting_widget_' = IF t = Settings THEN "deleted" ELSE setting_widget_
    /\ UNCHANGED <<kinds, status, names, kept, dangling>>

\* Wrong: only the tabs of tabWidget_ are looked at.
switchByPageRoot(s) ==
    /\ current' = IF place[s] = Root THEN [current EXCEPT ![Root] = s] ELSE current
    /\ front' = Root
    /\ UNCHANGED <<place, status>>

\* The tab is made the current one of its window, and the others are lowered.
switchByPage(s) ==
    /\ current' = IF IsOpen(s) THEN [current EXCEPT ![place[s]] = s] ELSE current
    /\ front' = IF IsOpen(s) THEN place[s] ELSE Root
    /\ UNCHANGED <<place, status>>

restoreClosedTabFromMem(s) ==
    /\ Joins(s, kept[s])
    /\ status' = [status EXCEPT ![kept[s]] = "shown"] /\ front' = kept[s]
    /\ kept' = [kept EXCEPT ![s] = Nowhere]

\* An entry is clicked: the tab, if widgetInstances has one, or what is kept in
\* a window of the manager, or the stored configuration, into tabWidget_.
switchToOtherTabPage(s) ==
    /\ entries[s] # NoEntry
    /\ IF IsOpen(s) \/ s \in dangling
       THEN switchByPage(s) /\ UNCHANGED <<names, kept>>
       ELSE IF kept[s] \in Managed THEN restoreClosedTabFromMem(s) /\ UNCHANGED names
       ELSE /\ Joins(s, Root) /\ front' = Root
            /\ text' = [text EXCEPT ![s] = entries[s]]
            /\ title' = [title EXCEPT ![s] = entries[s]]
            /\ astray' = astray \ {s}
            /\ UNCHANGED <<status, entries, kept>>
    /\ UNCHANGED <<kinds, dangling, setting_widget_>>

\* An entry is deleted, and the tab with it.  (Of a session in dangling the
\* deleted widget is used, after which anything may follow.)
uuidsChanged(s) ==
    /\ entries[s] # NoEntry
    /\ entries' = [entries EXCEPT ![s] = NoEntry]
    /\ IF IsOpen(s) THEN Leaves(s) /\ status' = After(place[s], "abandoned")
       ELSE UNCHANGED <<place, current, status>>
    /\ front' = Root
    /\ UNCHANGED <<kinds, text, title, astray, kept, dangling, setting_widget_>>

-----------------------------------------------------------------------------
(* Windows *)

\* The current tab is dragged out of a window with others, into a new window or
\* into one that is on the screen.
Drag(t, w) ==
    /\ IsOpen(t) /\ place[t] \in Shown \ {w} /\ current[place[t]] = t
    /\ Cardinality(In(place[t])) > 1
    /\ status[w] \in {"none", "shown"}
    /\ Joins(t, w) /\ front' = w
    /\ status' = [status EXCEPT ![w] = "shown"]
    /\ UNCHANGED <<kinds, names, kept, dangling, setting_widget_>>

\* Its tabs go to the root window, which shows one of them if it had none.
closeEvent(w) ==
    /\ w \in Shown \ {Root}
    /\ place' = [t \in Tabs |-> IF place[t] = w THEN Root ELSE place[t]]
    /\ \E c \in IF current[Root] # NoTab \/ In(w) = {} THEN {current[Root]} ELSE In(w) :
          current' = [current EXCEPT ![w] = NoTab, ![Root] = c]
    /\ status' = [status EXCEPT ![w] = "none"] /\ front' = Root
    /\ kept' = [s \in Sessions |-> IF kept[s] = w THEN Nowhere ELSE kept[s]]
    /\ UNCHANGED <<kinds, names, dangling, setting_widget_>>

Next ==
    \/ \E t \in Tabs : Select(t) \/ \E w \in Windows : Drag(t, w)
    \/ \E p \in Pages :
           \/ addSelectToolPage(p) \/ newInstruction(p) \/ newSimulation(p)
           \/ \E w \in Windows : tabCreateRequested(p, w)
    \/ \E p \in Pages, s \in Sessions : choose(p, s)
    \/ \E t \in Pages \cup {Settings} : handleTabCloseRequested(t)
    \/ \E s \in Sessions :
           \/ saveSetting(s) \/ handleTabClose(s) \/ switchToOtherTabPage(s) \/ uuidsChanged(s)
           \/ \E name \in Titles : EditTitle(s, name)
    \/ showSettings
    \/ \E w \in Windows : closeEvent(w)

Spec == Init /\ [][Next]_vars

-----------------------------------------------------------------------------
\* What is in front can be seen: each window shows one of its own tabs, if it
\* has any, and the window in front is on the screen.
TypeOK ==
    /\ \A w \in Windows : current[w] \in In(w) \/ (current[w] = NoTab /\ In(w) = {})
    /\ \A t \in Tabs : IsOpen(t) => place[t] \in Shown
    /\ front \in Shown
    /\ dangling \cap {s \in Sessions : IsOpen(s)} = {}
    /\ setting_widget_ # "there" => ~IsOpen(Settings)

\* A tab is named as its entry in the list, wherever it was dragged, closed,
\* kept and restored and whatever was renamed meanwhile without being saved.
\* (Not so when an MQTT or a Modbus session was saved while another tab was the
\* current one of the root window: that one has its name.)
TitlesAgree ==
    TypeOK /\ \A s \in Sessions :
        IsOpen(s) /\ entries[s] # NoEntry /\ s \notin astray => text[s] = entries[s]

\* A click on an entry brings its session up: it is the current tab of a window
\* on the screen, in front of all others, whichever window it had been dragged
\* into and whether that one had been hidden since.  (Not so for a session that
\* was replaced by a choice on a page in another window.)
EntriesBringUp ==
    [][\A s \in Sessions \ dangling : switchToOtherTabPage(s) =>
          \E w \in Windows : place'[s] = w /\ current'[w] = s /\ front' = w
                             /\ status'[w] = "shown"]_vars

\* A session's tab goes only when it is closed or its entry deleted.  (Not so if
\* something is chosen on the first page or on one for simulated servers after
\* it was dragged into another window.)
SessionsKeepTheirTabs ==
    [][\A s \in Sessions : IsOpen(s) /\ ~IsOpen(s)' =>
          \/ handleTabClose(s) \/ uuidsChanged(s)
          \/ \E p \in Pages : kinds[p] = "root" /\ place[p] # Root /\ IsOpen(p)]_vars
=============================================================================
