--------------------------- MODULE MainWindowProofs ---------------------------
(***************************************************************************)
(* The main window, proved for any sessions, windows and configurations.   *)
(* First its sessions alone: a session has one widget, its save button     *)
(* says the truth, and closing its tab neither ends its work nor revives   *)
(* it.  Then the window from its three sides: what is proved of the        *)
(* sessions holds here, the drawer follows its buttons, tabs are named as  *)
(* their entries, and a click on an entry leads to its tab.                *)
(***************************************************************************)
EXTENDS MainWindowTabs, FiniteSetTheorems, TLAPS

-----------------------------------------------------------------------------
(* The sessions: types *)

StoreTypes ==
    /\ used \subseteq Sessions /\ IsFiniteSet(used)
    /\ stored \in [Sessions -> Contents \cup {NoContent}]
    /\ listed \subseteq Sessions

WindowTypes ==
    /\ pages \in [Windows -> 0 .. MaxPages]
    /\ status \in [Windows -> {"none", "shown", "hidden", "abandoned"}]

TabTypes ==
    /\ widgetInstances \in [Sessions -> Widgets \cup {NoWidget}]
    /\ place \in [Sessions -> Windows \cup {Nowhere}]
    /\ \A s \in Sessions : IsOpen(s) <=> widgetInstances[s] # NoWidget

MemTypes == closedTabs \in [Windows -> [Sessions -> Widgets \cup {NoWidget}]]

Types == StoreTypes /\ WindowTypes /\ TabTypes /\ MemTypes

LEMMA WidgetFields ==
    ASSUME NEW v \in Widgets
    PROVE  v.content \in Contents /\ v.saved \in BOOLEAN /\ v.work \in BOOLEAN /\ v # NoWidget
  BY WidgetAssumption DEF Widgets

\* What the operations do to a widget.
LEMMA WidgetChanges ==
    ASSUME NEW v \in Widgets, NEW c \in Contents, NEW b \in BOOLEAN
    PROVE  /\ [v EXCEPT !.content = c, !.saved = FALSE] \in Widgets
           /\ [v EXCEPT !.content = c, !.saved = FALSE].saved = FALSE
           /\ [v EXCEPT !.saved = b] \in Widgets
           /\ [v EXCEPT !.saved = b].content = v.content
           /\ [v EXCEPT !.saved = b].saved = b
           /\ [v EXCEPT !.saved = b].work = v.work
           /\ [v EXCEPT !.work = b] \in Widgets
           /\ [v EXCEPT !.work = b].content = v.content
           /\ [v EXCEPT !.work = b].saved = v.saved
           /\ [v EXCEPT !.work = b].work = b
  BY DEF Widgets

LEMMA NewWidget ==
    ASSUME NEW c \in Contents, NEW b \in BOOLEAN
    PROVE  [content |-> c, saved |-> b, work |-> FALSE] \in Widgets
  BY DEF Widgets

\* A tab gets a widget and a window.
LEMMA TabOpens ==
    ASSUME TabTypes, NEW s \in Sessions, NEW v \in Widgets, NEW w \in Windows,
           widgetInstances' = [widgetInstances EXCEPT ![s] = v],
           place' = [place EXCEPT ![s] = w]
    PROVE  /\ TabTypes'
           /\ widgetInstances'[s] = v /\ place'[s] = w
           /\ \A t \in Sessions \ {s} : /\ widgetInstances'[t] = widgetInstances[t]
                                        /\ place'[t] = place[t]
<1>1. v # NoWidget /\ w # Nowhere
  BY WidgetAssumption, SessionsAssumption
<1> QED
  BY <1>1 DEF TabTypes, IsOpen

\* A tab loses both.
LEMMA TabCloses ==
    ASSUME TabTypes, NEW s \in Sessions,
           widgetInstances' = [widgetInstances EXCEPT ![s] = NoWidget],
           place' = [place EXCEPT ![s] = Nowhere]
    PROVE  /\ TabTypes'
           /\ widgetInstances'[s] = NoWidget /\ place'[s] = Nowhere
           /\ \A t \in Sessions \ {s} : /\ widgetInstances'[t] = widgetInstances[t]
                                        /\ place'[t] = place[t]
  BY DEF TabTypes, IsOpen

\* A tab keeps its window, and changes its widget.
LEMMA WidgetSet ==
    ASSUME TabTypes, NEW s \in Sessions, NEW v \in Widgets, IsOpen(s),
           widgetInstances' = [widgetInstances EXCEPT ![s] = v], UNCHANGED place
    PROVE  /\ TabTypes'
           /\ widgetInstances'[s] = v
           /\ \A t \in Sessions \ {s} : widgetInstances'[t] = widgetInstances[t]
<1>1. v # NoWidget
  BY WidgetAssumption
<1> QED
  BY <1>1 DEF TabTypes, IsOpen

\* An entry of closedTabs_ is set or erased.
MemBecomes(w, s, v) == closedTabs' = [closedTabs EXCEPT ![w][s] = v]

LEMMA MemSet ==
    ASSUME MemTypes, NEW w \in Windows, NEW s \in Sessions, NEW v \in Widgets \cup {NoWidget},
           MemBecomes(w, s, v)
    PROVE  /\ MemTypes'
           /\ \A u \in Windows, t \in Sessions :
                  closedTabs'[u][t] = IF u = w /\ t = s THEN v ELSE closedTabs[u][t]
<1>1. closedTabs' = [closedTabs EXCEPT ![w] = [closedTabs[w] EXCEPT ![s] = v]]
  BY DEF MemBecomes
<1>2. [closedTabs[w] EXCEPT ![s] = v] \in [Sessions -> Widgets \cup {NoWidget}]
  BY DEF MemTypes
<1> QED
  BY <1>1, <1>2 DEF MemTypes

\* Who loses the last tab of a window leaves nobody there.
LEMMA LastTab ==
    ASSUME Types, NEW s \in Sessions, place[s] \in Windows, Count(place[s]) = 1,
           \A t \in Sessions : IsOpen(t) => t \in used
    PROVE  \A t \in Sessions \ {s} : place[t] # place[s]
<1> DEFINE here == Tabs(place[s])
<1>1. here \subseteq used /\ s \in here
  BY SessionsAssumption DEF Tabs, IsOpen
<1>2. IsFiniteSet(here)
  BY <1>1, FS_Subset DEF Types, StoreTypes
<1>3. Cardinality(here) \in Nat /\ pages[place[s]] \in Nat
  BY <1>2, FS_CardinalityType, SessionsAssumption DEF Types, WindowTypes
<1>4. Cardinality(here) # 0
  BY <1>1, <1>2, FS_EmptySet
<1>5. Cardinality(here) = 1
  BY <1>3, <1>4 DEF Count
<1>6. PICK x : here = {x}
  BY <1>2, <1>5, FS_Singleton
<1> QED
  BY <1>1, <1>6 DEF Tabs

-----------------------------------------------------------------------------
(* The invariant *)

RootStays == status[Root] = "shown"

\* A new window has nothing in memory.
NewIsEmpty == \A w \in Windows, s \in Sessions : status[w] = "none" => closedTabs[w][s] = NoWidget

\* A tab is in a window of the manager.
TabIsManaged(s) ==
    IsOpen(s) => place[s] \in Managed /\ (~DropsOnHidden => place[s] \in Shown)

\* Before its uuid is given out there is nothing of a session.
FreshIsNowhere(s) ==
    s \notin used => /\ ~IsOpen(s) /\ s \notin listed /\ stored[s] = NoContent
                     /\ \A w \in Windows : closedTabs[w][s] = NoWidget

OneWidget(s) ==
    \A w \in Windows : InMem(w, s) => ~IsOpen(s) /\ \A v \in Windows : InMem(v, s) => v = w

StoredAsListed(s) ==
    /\ s \in listed => stored[s] # NoContent
    /\ s \notin listed /\ s \notin Simulated => stored[s] = NoContent

SavedIsStored(s) ==
    s \in listed =>
        /\ IsOpen(s) /\ widgetInstances[s].saved => stored[s] = widgetInstances[s].content
        /\ \A w \in Windows : InMem(w, s) /\ closedTabs[w][s].saved
                                  => stored[s] = closedTabs[w][s].content

SessionOK(s) ==
    /\ TabIsManaged(s) /\ FreshIsNowhere(s) /\ OneWidget(s)
    /\ StoredAsListed(s) /\ SavedIsStored(s)

TabInvariant == Types /\ RootStays /\ NewIsEmpty /\ \A s \in Sessions : SessionOK(s)

LEMMA TabStart == Init => TabInvariant
<1> SUFFICES ASSUME Init PROVE TabInvariant
  OBVIOUS
<1>1. /\ used = {} /\ listed = {} /\ stored = [s \in Sessions |-> NoContent]
      /\ widgetInstances = [s \in Sessions |-> NoWidget]
      /\ place = [s \in Sessions |-> Nowhere]
      /\ pages = [w \in Windows |-> IF w = Root THEN 1 ELSE 0]
      /\ closedTabs = [w \in Windows |-> [s \in Sessions |-> NoWidget]]
      /\ status = [w \in Windows |-> IF w = Root THEN "shown" ELSE "none"]
  BY DEF Init, OnlyRoot, EmptyMem
<1>2. StoreTypes
  BY <1>1, FS_EmptySet DEF StoreTypes
<1>3. TabTypes
  BY <1>1 DEF TabTypes, IsOpen
<1>4. MemTypes
  BY <1>1 DEF MemTypes
<1>5. RootStays /\ NewIsEmpty
  BY <1>1, SessionsAssumption DEF RootStays, NewIsEmpty
<1>6. \A s \in Sessions : SessionOK(s)
  BY <1>1 DEF SessionOK, TabIsManaged, FreshIsNowhere, OneWidget, StoredAsListed, SavedIsStored,
     IsOpen, InMem
<1>7. WindowTypes
  BY <1>1, SessionsAssumption DEF WindowTypes
<1> QED
  BY <1>2, <1>3, <1>4, <1>5, <1>6, <1>7 DEF TabInvariant, Types

\* A session whose widget, entry and configuration a step leaves alone.
LEMMA SameSession ==
    ASSUME NEW t \in Sessions, SessionOK(t),
           widgetInstances'[t] = widgetInstances[t], IsOpen(t)' <=> IsOpen(t),
           stored'[t] = stored[t], t \in listed' <=> t \in listed,
           t \in used' <=> t \in used,
           \A w \in Windows : /\ closedTabs'[w][t] = closedTabs[w][t] \/ closedTabs'[w][t] = NoWidget
                              /\ InMem(w, t)' => InMem(w, t),
           TabIsManaged(t)'
    PROVE  SessionOK(t)'
<1>1. \A w \in Windows : InMem(w, t)' => closedTabs'[w][t] = closedTabs[w][t]
  BY DEF InMem
<1>2. OneWidget(t)'
  BY DEF SessionOK, OneWidget
<1>3. FreshIsNowhere(t)'
  BY DEF SessionOK, FreshIsNowhere
<1>4. StoredAsListed(t)'
  BY DEF SessionOK, StoredAsListed
<1>5. SavedIsStored(t)'
  BY <1>1 DEF SessionOK, SavedIsStored
<1> QED
  BY <1>2, <1>3, <1>4, <1>5 DEF SessionOK

LEMMA Untouched ==
    ASSUME TabInvariant, UNCHANGED <<used, widgetInstances, place, closedTabs, store>>,
           WindowTypes', RootStays', NewIsEmpty',
           \A w \in Windows : status[w] # "none" => status'[w] = status[w]
    PROVE  TabInvariant'
<1>1. StoreTypes /\ TabTypes /\ MemTypes /\ \A s \in Sessions : SessionOK(s)
  BY DEF TabInvariant, Types
<1>2. UNCHANGED <<stored, listed>>
  BY DEF store
<1>3. StoreTypes' /\ TabTypes' /\ MemTypes'
  BY <1>1, <1>2 DEF StoreTypes, TabTypes, MemTypes, IsOpen
<1>4. \A w \in Windows, s \in Sessions : InMem(w, s)' => InMem(w, s)
  BY DEF InMem, Managed, TabInvariant, NewIsEmpty, Types, WindowTypes
<1>5. ASSUME NEW s \in Sessions PROVE SessionOK(s)'
  <2>1. SessionOK(s) /\ (IsOpen(s)' <=> IsOpen(s))
    BY <1>1 DEF IsOpen
  <2>2. TabIsManaged(s)'
    BY <2>1 DEF SessionOK, TabIsManaged, Managed, Shown
  <2>3. OneWidget(s)'
    BY <1>4, <2>1 DEF SessionOK, OneWidget
  <2>4. FreshIsNowhere(s)' /\ StoredAsListed(s)'
    BY <1>2, <2>1 DEF SessionOK, FreshIsNowhere, StoredAsListed
  <2>5. SavedIsStored(s)'
    BY <1>2, <1>4, <2>1 DEF SessionOK, SavedIsStored
  <2> QED
    BY <2>2, <2>3, <2>4, <2>5 DEF SessionOK
<1> QED
  BY <1>3, <1>5 DEF TabInvariant, Types

LEMMA PagesStep ==
    ASSUME TabInvariant, NEW w \in Windows, addNewTab(w) \/ closePage(w)
    PROVE  TabInvariant'
<1>1. /\ UNCHANGED <<used, widgetInstances, place, closedTabs, status, store>>
      /\ w \in Windows
      /\ \/ pages[w] < MaxPages /\ pages' = [pages EXCEPT ![w] = pages[w] + 1]
         \/ pages[w] > 0 /\ pages' = [pages EXCEPT ![w] = pages[w] - 1]
  BY DEF addNewTab, closePage
<1>2. WindowTypes /\ RootStays /\ NewIsEmpty
  BY DEF TabInvariant, Types
<1>3. pages[w] \in 0..MaxPages /\ MaxPages \in Nat
  BY <1>2, SessionsAssumption DEF WindowTypes
<1>4. WindowTypes'
  BY <1>1, <1>2, <1>3 DEF WindowTypes
<1>5. RootStays' /\ NewIsEmpty'
  BY <1>1, <1>2 DEF RootStays, NewIsEmpty
<1> QED
  BY <1>1, <1>4, <1>5, Untouched

LEMMA NewSessionStep ==
    ASSUME TabInvariant, NEW w \in Windows, NEW s \in Sessions, switchByCreateWidget(w, s)
    PROVE  TabInvariant'
<1>1. PICK c \in Contents :
          widgetInstances' = [widgetInstances EXCEPT ![s] =
                                  [content |-> c, saved |-> TRUE, work |-> FALSE]]
  BY DEF switchByCreateWidget
<1>2. /\ w \in Shown /\ pages[w] > 0 /\ s \notin used /\ used' = used \cup {s}
      /\ pages' = [pages EXCEPT ![w] = pages[w] - 1]
      /\ place' = [place EXCEPT ![s] = w]
      /\ UNCHANGED <<closedTabs, status, stored, listed>>
  BY DEF switchByCreateWidget, store
<1>3. /\ Types /\ StoreTypes /\ WindowTypes /\ TabTypes /\ MemTypes /\ RootStays /\ NewIsEmpty
      /\ \A t \in Sessions : SessionOK(t)
  BY DEF TabInvariant, Types
<1>4. PICK v \in Widgets : widgetInstances' = [widgetInstances EXCEPT ![s] = v]
  BY <1>1, NewWidget
<1>5. /\ TabTypes' /\ place'[s] = w
      /\ \A t \in Sessions \ {s} : /\ widgetInstances'[t] = widgetInstances[t]
                                   /\ place'[t] = place[t]
  <2>1. TabTypes /\ v \in Widgets /\ w \in Windows /\ place' = [place EXCEPT ![s] = w]
    BY <1>2, <1>3
  <2> QED
    BY <1>4, <2>1, TabOpens
<1>6. StoreTypes' /\ MemTypes'
  BY <1>2, <1>3, FS_AddElement DEF StoreTypes, MemTypes
<1>7. WindowTypes'
  <2>1. pages[w] \in 0..MaxPages /\ MaxPages \in Nat
    BY <1>3, SessionsAssumption DEF WindowTypes
  <2> QED
    BY <1>2, <1>3, <2>1 DEF WindowTypes
<1>8. RootStays' /\ NewIsEmpty'
  BY <1>2, <1>3 DEF RootStays, NewIsEmpty
<1>9. SessionOK(s)'
  BY <1>2, <1>3, <1>5 DEF SessionOK, TabIsManaged, FreshIsNowhere, OneWidget, StoredAsListed,
     SavedIsStored, InMem, Managed, Shown
<1>10. ASSUME NEW t \in Sessions \ {s} PROVE SessionOK(t)'
  <2>1. SessionOK(t) /\ widgetInstances'[t] = widgetInstances[t] /\ place'[t] = place[t]
    BY <1>3, <1>5
  <2> QED
    BY <1>2, <2>1 DEF SessionOK, TabIsManaged, FreshIsNowhere, OneWidget, StoredAsListed,
       SavedIsStored, InMem, Managed, Shown, IsOpen
<1> QED
  BY <1>5, <1>6, <1>7, <1>8, <1>9, <1>10 DEF TabInvariant, Types

\* The connection of a tab breaks.
TabLost(s) ==
    /\ IsOpen(s)
    /\ widgetInstances' = [widgetInstances EXCEPT ![s].work = FALSE]
    /\ UNCHANGED <<used, place, pages, closedTabs, status, store>>

\* The widget of a tab changes, and what is stored, or only its work.
LEMMA EditStep ==
    ASSUME TabInvariant, NEW s \in Sessions,
           Edit(s) \/ saveSetting(s) \/ OnOff(s) \/ TabLost(s)
    PROVE  TabInvariant'
<1>1. /\ IsOpen(s)
      /\ UNCHANGED <<used, place, pages, closedTabs, status>>
  BY DEF Edit, saveSetting, OnOff, OnScreen, TabLost
<1>2. /\ Types /\ StoreTypes /\ WindowTypes /\ TabTypes /\ MemTypes /\ RootStays /\ NewIsEmpty
      /\ \A t \in Sessions : SessionOK(t)
  BY DEF TabInvariant, Types
<1>3. widgetInstances[s] \in Widgets
  BY <1>1, <1>2 DEF TabTypes
<1>4. PICK v \in Widgets :
          /\ widgetInstances' = [widgetInstances EXCEPT ![s] = v]
          /\ \/ ~v.saved /\ UNCHANGED <<stored, listed>>
             \/ /\ v.content = widgetInstances[s].content /\ v.saved = widgetInstances[s].saved
                /\ UNCHANGED <<stored, listed>>
             \/ /\ v.content = widgetInstances[s].content
                /\ stored' = [stored EXCEPT ![s] = v.content] /\ listed' = listed \cup {s}
  <2>1. CASE Edit(s)
    <3>1. PICK c \in Contents : widgetInstances' =
              [widgetInstances EXCEPT ![s] = [widgetInstances[s] EXCEPT !.content = c,
                                                                        !.saved = FALSE]]
      BY <2>1 DEF Edit
    <3>2. UNCHANGED <<stored, listed>>
      BY <2>1 DEF Edit, store
    <3>3. /\ [widgetInstances[s] EXCEPT !.content = c, !.saved = FALSE] \in Widgets
          /\ ~[widgetInstances[s] EXCEPT !.content = c, !.saved = FALSE].saved
      BY <1>3, WidgetChanges
    <3> QED
      BY <3>1, <3>2, <3>3
  <2>2. CASE saveSetting(s)
    <3>1. /\ widgetInstances' =
                 [widgetInstances EXCEPT ![s] = [widgetInstances[s] EXCEPT !.saved = TRUE]]
          /\ stored' = [stored EXCEPT ![s] = widgetInstances[s].content]
          /\ listed' = listed \cup {s}
      BY <2>2 DEF saveSetting, requestSaveConfig
    <3>2. /\ [widgetInstances[s] EXCEPT !.saved = TRUE] \in Widgets
          /\ [widgetInstances[s] EXCEPT !.saved = TRUE].content = widgetInstances[s].content
      BY <1>3, WidgetChanges, SessionsAssumption DEF Widgets
    <3> QED
      BY <3>1, <3>2
  <2>3. CASE OnOff(s) \/ TabLost(s)
    <3>1. PICK b \in BOOLEAN : widgetInstances' = [widgetInstances EXCEPT ![s] =
              [widgetInstances[s] EXCEPT !.work = b]]
      BY <2>3 DEF OnOff, TabLost
    <3>2. UNCHANGED <<stored, listed>>
      BY <2>3 DEF OnOff, TabLost, store
    <3>4. /\ [widgetInstances[s] EXCEPT !.work = b] \in Widgets
          /\ [widgetInstances[s] EXCEPT !.work = b].content = widgetInstances[s].content
          /\ [widgetInstances[s] EXCEPT !.work = b].saved = widgetInstances[s].saved
      BY <1>3 DEF Widgets
    <3> QED
      BY <3>1, <3>2, <3>4
  <2> QED
    BY <2>1, <2>2, <2>3
<1>5. /\ TabTypes' /\ widgetInstances'[s] = v
      /\ \A t \in Sessions \ {s} : widgetInstances'[t] = widgetInstances[t]
  BY <1>1, <1>2, <1>4, WidgetSet
<1>6. v.content \in Contents /\ v.saved \in BOOLEAN
  BY WidgetFields
<1>7. StoreTypes' /\ MemTypes' /\ WindowTypes' /\ RootStays' /\ NewIsEmpty'
  BY <1>1, <1>2, <1>4, <1>6 DEF StoreTypes, MemTypes, WindowTypes, RootStays, NewIsEmpty
<1>8. s \in used /\ \A w \in Windows : ~InMem(w, s)
  BY <1>1, <1>2 DEF SessionOK, FreshIsNowhere, OneWidget
<1>9. /\ IsOpen(s)' /\ \A t \in Sessions : IsOpen(t)' <=> IsOpen(t)
      /\ \A w \in Windows, t \in Sessions : InMem(w, t)' <=> InMem(w, t)
  BY <1>1 DEF IsOpen, InMem, Managed
<1>10. SessionOK(s)'
  <2>1. SessionOK(s) /\ NoContent \notin Contents
    BY <1>2, SessionsAssumption
  <2>2. TabIsManaged(s)' /\ OneWidget(s)' /\ FreshIsNowhere(s)'
    <3>1. TabIsManaged(s)'
      BY <1>1, <2>1 DEF SessionOK, TabIsManaged, Managed, Shown, IsOpen
    <3>2. OneWidget(s)'
      BY <1>8, <1>9 DEF OneWidget
    <3>3. FreshIsNowhere(s)'
      BY <1>1, <1>8 DEF FreshIsNowhere
    <3> QED
      BY <3>1, <3>2, <3>3
  <2>3. CASE /\ UNCHANGED <<stored, listed>>
             /\ \/ ~v.saved
                \/ /\ v.content = widgetInstances[s].content
                   /\ v.saved = widgetInstances[s].saved
    <3>1. StoredAsListed(s)'
      BY <2>1, <2>3 DEF SessionOK, StoredAsListed
    <3>2. s \in listed /\ widgetInstances[s].saved => stored[s] = widgetInstances[s].content
      BY <1>1, <2>1 DEF SessionOK, SavedIsStored
    <3>3. SavedIsStored(s)'
      BY <1>5, <1>8, <1>9, <2>3, <3>2 DEF SavedIsStored
    <3> QED
      BY <2>2, <3>1, <3>3 DEF SessionOK
  <2>4. CASE /\ v.content = widgetInstances[s].content
             /\ stored' = [stored EXCEPT ![s] = v.content] /\ listed' = listed \cup {s}
    <3>1. stored'[s] = v.content /\ s \in listed'
      BY <1>2, <2>4 DEF StoreTypes
    <3> QED
      BY <1>5, <1>6, <1>8, <1>9, <2>1, <2>2, <3>1 DEF SessionOK, StoredAsListed, SavedIsStored
  <2> QED
    BY <1>4, <2>3, <2>4
<1>11. ASSUME NEW t \in Sessions \ {s} PROVE SessionOK(t)'
  <2>1. SessionOK(t) /\ widgetInstances'[t] = widgetInstances[t]
    BY <1>2, <1>5
  <2>2. stored'[t] = stored[t] /\ (t \in listed' <=> t \in listed)
    BY <1>2, <1>4 DEF StoreTypes
  <2> QED
    BY <1>1, <1>9, <2>1, <2>2 DEF SessionOK, TabIsManaged, FreshIsNowhere, OneWidget,
       StoredAsListed, SavedIsStored, Managed, Shown
<1> QED
  BY <1>5, <1>7, <1>10, <1>11 DEF TabInvariant, Types

\* The connection of a widget in memory breaks.
LEMMA MemLostStep ==
    ASSUME TabInvariant, NEW w \in Windows, NEW s \in Sessions, closedTabs[w][s] # NoWidget,
           closedTabs' = [closedTabs EXCEPT ![w][s].work = FALSE],
           UNCHANGED <<used, widgetInstances, place, pages, status, store>>
    PROVE  TabInvariant'
<1>1. /\ Types /\ StoreTypes /\ WindowTypes /\ TabTypes /\ MemTypes /\ RootStays /\ NewIsEmpty
      /\ \A t \in Sessions : SessionOK(t)
  BY DEF TabInvariant, Types
<1>2. UNCHANGED <<used, widgetInstances, place, pages, status, stored, listed>>
  BY DEF store
<1>3. closedTabs[w][s] \in Widgets
  BY <1>1 DEF MemTypes
<1>4. PICK v \in Widgets :
          /\ closedTabs' = [closedTabs EXCEPT ![w][s] = v]
          /\ v.content = closedTabs[w][s].content /\ v.saved = closedTabs[w][s].saved
  <2>1. closedTabs' = [closedTabs EXCEPT ![w][s] = [closedTabs[w][s] EXCEPT !.work = FALSE]]
    OBVIOUS
  <2>2. /\ [closedTabs[w][s] EXCEPT !.work = FALSE] \in Widgets
        /\ [closedTabs[w][s] EXCEPT !.work = FALSE].content = closedTabs[w][s].content
        /\ [closedTabs[w][s] EXCEPT !.work = FALSE].saved = closedTabs[w][s].saved
    BY <1>3 DEF Widgets
  <2> QED
    BY <2>1, <2>2
<1>5. v # NoWidget
  BY WidgetFields
<1>6. MemTypes' /\ \A u \in Windows, t \in Sessions :
          closedTabs'[u][t] = IF u = w /\ t = s THEN v ELSE closedTabs[u][t]
  <2>1. MemTypes /\ v \in Widgets \cup {NoWidget} /\ MemBecomes(w, s, v)
    BY <1>1, <1>4 DEF MemBecomes
  <2> QED
    BY <2>1, MemSet
<1>7. StoreTypes' /\ WindowTypes' /\ TabTypes' /\ RootStays'
  BY <1>1, <1>2 DEF StoreTypes, WindowTypes, TabTypes, RootStays, IsOpen
<1>8. NewIsEmpty'
  BY <1>1, <1>2, <1>6 DEF NewIsEmpty
<1>9. ASSUME NEW t \in Sessions PROVE TabIsManaged(t)' /\ (IsOpen(t)' <=> IsOpen(t))
  BY <1>1, <1>2 DEF SessionOK, TabIsManaged, IsOpen, Managed, Shown
<1>10. ASSUME NEW u \in Windows, NEW t \in Sessions, InMem(u, t)' PROVE InMem(u, t)
  <2>1. u \in Managed /\ closedTabs'[u][t] # NoWidget
    BY <1>2, <1>10 DEF InMem, Managed
  <2> QED
    BY <1>3, <1>6, <2>1, WidgetFields DEF InMem
<1>11. ASSUME NEW t \in Sessions \ {s} PROVE SessionOK(t)'
  BY <1>1, <1>2, <1>6, <1>9, <1>10, SameSession
<1>12. SessionOK(s)'
  <2>1. SessionOK(s)
    BY <1>1
  <2>2. OneWidget(s)'
    BY <1>9, <1>10, <2>1 DEF SessionOK, OneWidget
  <2>3. FreshIsNowhere(s)' /\ StoredAsListed(s)'
    BY <1>2, <1>9, <2>1 DEF SessionOK, FreshIsNowhere, StoredAsListed
  <2>4. ASSUME NEW u \in Windows, s \in listed', InMem(u, s)', closedTabs'[u][s].saved
        PROVE  stored'[s] = closedTabs'[u][s].content
    BY <1>2, <1>4, <1>6, <1>10, <2>1, <2>4 DEF SessionOK, SavedIsStored
  <2>5. SavedIsStored(s)'
    BY <1>2, <1>9, <2>1, <2>4 DEF SessionOK, SavedIsStored
  <2> QED
    BY <1>9, <2>2, <2>3, <2>5 DEF SessionOK
<1> QED
  BY <1>6, <1>7, <1>8, <1>11, <1>12 DEF TabInvariant, Types

\* The program starts again.
LEMMA RestartStep == TabInvariant /\ readingProjectConfiguration => TabInvariant'
<1> SUFFICES ASSUME TabInvariant, readingProjectConfiguration PROVE TabInvariant'
  OBVIOUS
<1>1. /\ UNCHANGED <<used, stored>>
      /\ listed' = {s \in Sessions : stored[s] # NoContent}
      /\ widgetInstances' = [s \in Sessions |-> NoWidget]
      /\ place' = [s \in Sessions |-> Nowhere]
      /\ pages' = [w \in Windows |-> IF w = Root THEN 1 ELSE 0]
      /\ closedTabs' = [w \in Windows |-> [s \in Sessions |-> NoWidget]]
      /\ status' = [w \in Windows |-> IF w = Root THEN "shown" ELSE "none"]
  BY DEF readingProjectConfiguration, OnlyRoot, EmptyMem
<1>2. StoreTypes /\ \A s \in Sessions : SessionOK(s)
  BY DEF TabInvariant, Types
<1>3. StoreTypes'
  BY <1>1, <1>2 DEF StoreTypes
<1>4. TabTypes'
  BY <1>1 DEF TabTypes, IsOpen
<1>5. MemTypes'
  BY <1>1 DEF MemTypes
<1>6. RootStays' /\ NewIsEmpty'
  BY <1>1, SessionsAssumption DEF RootStays, NewIsEmpty
<1>7. WindowTypes'
  BY <1>1, SessionsAssumption DEF WindowTypes
<1>8. ASSUME NEW s \in Sessions PROVE SessionOK(s)'
  <2>1. SessionOK(s) /\ (s \in listed' <=> stored[s] # NoContent) /\ UNCHANGED stored
    BY <1>1, <1>2
  <2>2. ~IsOpen(s)' /\ \A w \in Windows : closedTabs'[w][s] = NoWidget /\ ~InMem(w, s)'
    BY <1>1 DEF IsOpen, InMem
  <2>3. TabIsManaged(s)' /\ OneWidget(s)' /\ SavedIsStored(s)'
    BY <2>2 DEF TabIsManaged, OneWidget, SavedIsStored
  <2>4. FreshIsNowhere(s)' /\ StoredAsListed(s)'
    BY <1>1, <2>1, <2>2 DEF SessionOK, FreshIsNowhere, StoredAsListed
  <2> QED
    BY <2>3, <2>4 DEF SessionOK
<1> QED
  BY <1>3, <1>4, <1>5, <1>6, <1>7, <1>8 DEF TabInvariant, Types

-----------------------------------------------------------------------------
(* Tabs that go and come back *)

\* A window that loses a tab keeps its place in the manager, or is empty.
LEMMA LeftBehind ==
    ASSUME TabInvariant, NEW s \in Sessions, place[s] \in Managed, NEW gone \in {"hidden", "abandoned"},
           status' = IF place[s] # Root /\ Count(place[s]) = 1
                     THEN [status EXCEPT ![place[s]] = gone] ELSE status
    PROVE  /\ status' \in [Windows -> {"none", "shown", "hidden", "abandoned"}] /\ RootStays'
           /\ \A w \in Windows : /\ (status[w] = "none") <=> (status'[w] = "none")
                                 /\ w \in Managed' => w \in Managed
                                 /\ (gone = "hidden" /\ w \in Managed) => w \in Managed'
           /\ \A t \in Sessions \ {s} : IsOpen(t) => status'[place[t]] = status[place[t]]
<1>1. /\ Types /\ WindowTypes /\ TabTypes /\ RootStays /\ place[s] \in Windows
      /\ status[place[s]] \in {"shown", "hidden"} /\ Root \in Windows
  BY SessionsAssumption DEF TabInvariant, Types, Managed
<1>2. \A t \in Sessions : IsOpen(t) => t \in used
  BY DEF TabInvariant, SessionOK, FreshIsNowhere
<1>3. CASE UNCHANGED status
  BY <1>1, <1>3 DEF WindowTypes, RootStays, Managed
<1>4. CASE /\ place[s] # Root /\ Count(place[s]) = 1
           /\ status' = [status EXCEPT ![place[s]] = gone]
  <2>1. \A t \in Sessions \ {s} : place[t] # place[s]
    BY <1>1, <1>2, <1>4, LastTab
  <2>2. /\ status' \in [Windows -> {"none", "shown", "hidden", "abandoned"}]
        /\ \A w \in Windows : status'[w] = IF w = place[s] THEN gone ELSE status[w]
    BY <1>1, <1>4 DEF WindowTypes
  <2>3. ASSUME NEW t \in Sessions \ {s}, IsOpen(t)
        PROVE  status'[place[t]] = status[place[t]]
    <3>1. place[t] \in Windows /\ place[t] # place[s]
      BY <1>1, <2>1, <2>3 DEF TabTypes, IsOpen
    <3> QED
      BY <2>2, <3>1
  <2>4. RootStays'
    BY <1>1, <1>4, <2>2 DEF RootStays
  <2>5. \A w \in Windows : /\ (status[w] = "none") <=> (status'[w] = "none")
                           /\ w \in Managed' => w \in Managed
                           /\ (gone = "hidden" /\ w \in Managed) => w \in Managed'
    BY <1>1, <2>2 DEF Managed
  <2> QED
    BY <2>2, <2>3, <2>4, <2>5
<1> QED
  BY <1>3, <1>4

\* What is stored when the dialog of a closing tab is answered.
StoreStep(s) ==
    \/ UNCHANGED <<stored, listed>>
    \/ /\ stored' = [stored EXCEPT ![s] = widgetInstances[s].content]
       /\ listed' = listed \cup {s}

LEMMA StoreStepKeeps ==
    ASSUME TabInvariant, NEW s \in Sessions, IsOpen(s), StoreStep(s), UNCHANGED used
    PROVE  /\ StoreTypes' /\ StoredAsListed(s)'
           /\ \A t \in Sessions \ {s} : /\ stored'[t] = stored[t]
                                        /\ (t \in listed') <=> (t \in listed)
<1>1. StoreTypes /\ TabTypes /\ SessionOK(s)
  BY DEF TabInvariant, Types
<1>2. widgetInstances[s].content \in Contents /\ NoContent \notin Contents
  BY <1>1, WidgetFields, SessionsAssumption DEF TabTypes
<1>3. StoreTypes'
  BY <1>1, <1>2 DEF StoreStep, StoreTypes
<1>4. CASE UNCHANGED <<stored, listed>>
  BY <1>1, <1>3, <1>4 DEF SessionOK, StoredAsListed
<1>5. CASE /\ stored' = [stored EXCEPT ![s] = widgetInstances[s].content]
           /\ listed' = listed \cup {s}
  BY <1>1, <1>2, <1>3, <1>5 DEF StoredAsListed, StoreTypes
<1> QED
  BY <1>4, <1>5 DEF StoreStep

\* A tab goes, with its widget.
LEMMA RemovedStep ==
    ASSUME TabInvariant, NEW s \in Sessions, IsOpen(s),
           removeUuidTabPage(s), UNCHANGED used, StoreTypes', StoredAsListed(s)',
           \A t \in Sessions \ {s} : /\ stored'[t] = stored[t]
                                     /\ (t \in listed') <=> (t \in listed)
    PROVE  TabInvariant'
<1>1. /\ Types /\ WindowTypes /\ TabTypes /\ MemTypes /\ RootStays /\ NewIsEmpty
      /\ \A t \in Sessions : SessionOK(t)
  BY DEF TabInvariant, Types
<1>2. /\ widgetInstances' = [widgetInstances EXCEPT ![s] = NoWidget]
      /\ place' = [place EXCEPT ![s] = Nowhere]
      /\ UNCHANGED <<pages, closedTabs>>
  BY DEF removeUuidTabPage
<1>3. place[s] \in Managed
  BY <1>1 DEF SessionOK, TabIsManaged
<1>4. /\ status' \in [Windows -> {"none", "shown", "hidden", "abandoned"}] /\ RootStays'
      /\ \A w \in Windows : /\ (status[w] = "none") <=> (status'[w] = "none")
                            /\ w \in Managed' => w \in Managed
      /\ \A t \in Sessions \ {s} : IsOpen(t) => status'[place[t]] = status[place[t]]
  <2>1. status' = IF place[s] # Root /\ Count(place[s]) = 1
                  THEN [status EXCEPT ![place[s]] = "abandoned"] ELSE status
    BY DEF removeUuidTabPage, removeWindow
  <2> QED
    BY <1>3, <2>1, LeftBehind
<1>5. /\ TabTypes' /\ place'[s] = Nowhere
      /\ \A t \in Sessions \ {s} : /\ widgetInstances'[t] = widgetInstances[t]
                                   /\ place'[t] = place[t]
  BY <1>1, <1>2, TabCloses
<1>6. WindowTypes' /\ MemTypes' /\ NewIsEmpty'
  BY <1>1, <1>2, <1>4 DEF WindowTypes, MemTypes, NewIsEmpty
<1>7. \A w \in Windows, t \in Sessions : InMem(w, t)' => InMem(w, t)
  BY <1>2, <1>4 DEF InMem
<1>8. ASSUME NEW t \in Sessions \ {s} PROVE SessionOK(t)'
  <2>1. SessionOK(t) /\ (IsOpen(t)' <=> IsOpen(t))
    BY <1>1, <1>5 DEF IsOpen
  <2>2. TabIsManaged(t)'
    BY <1>4, <1>5, <2>1 DEF SessionOK, TabIsManaged, IsOpen, Managed, Shown
  <2>3. \A w \in Windows : closedTabs'[w][t] = closedTabs[w][t] /\ (InMem(w, t)' => InMem(w, t))
    BY <1>2, <1>7
  <2>4. /\ widgetInstances'[t] = widgetInstances[t] /\ stored'[t] = stored[t]
        /\ (t \in listed') <=> (t \in listed)
        /\ (t \in used') <=> (t \in used)
    BY <1>5
  <2> QED
    BY <2>1, <2>2, <2>3, <2>4, SameSession
<1>9. SessionOK(s)'
  <2>1. ~IsOpen(s)' /\ \A w \in Windows : ~InMem(w, s)'
    BY <1>1, <1>5, <1>7 DEF SessionOK, OneWidget, IsOpen
  <2>2. s \in used'
    BY <1>1 DEF SessionOK, FreshIsNowhere
  <2> QED
    BY <2>1, <2>2 DEF SessionOK, TabIsManaged, OneWidget, FreshIsNowhere, SavedIsStored
<1> QED
  BY <1>4, <1>5, <1>6, <1>8, <1>9 DEF TabInvariant, Types

\* A tab goes, and its widget waits in memory.
LEMMA KeptStep ==
    ASSUME TabInvariant, NEW s \in Sessions, IsOpen(s), NEW v \in Widgets,
           saveWorkingTabPageToMem(s, v), UNCHANGED used, StoreTypes', StoredAsListed(s)',
           s \in listed' /\ v.saved => stored'[s] = v.content,
           \A t \in Sessions \ {s} : /\ stored'[t] = stored[t]
                                     /\ (t \in listed') <=> (t \in listed)
    PROVE  TabInvariant'
<1>1. /\ Types /\ WindowTypes /\ TabTypes /\ MemTypes /\ RootStays /\ NewIsEmpty
      /\ \A t \in Sessions : SessionOK(t)
  BY DEF TabInvariant, Types
<1>2. /\ widgetInstances' = [widgetInstances EXCEPT ![s] = NoWidget]
      /\ place' = [place EXCEPT ![s] = Nowhere]
      /\ MemBecomes(place[s], s, v)
      /\ UNCHANGED pages
  BY DEF saveWorkingTabPageToMem, MemBecomes
<1>3. place[s] \in Managed /\ place[s] \in Windows
  BY <1>1 DEF SessionOK, TabIsManaged, Managed
<1>4. /\ status' \in [Windows -> {"none", "shown", "hidden", "abandoned"}] /\ RootStays'
      /\ \A w \in Windows : /\ (status[w] = "none") <=> (status'[w] = "none")
                            /\ w \in Managed' => w \in Managed
      /\ \A t \in Sessions \ {s} : IsOpen(t) => status'[place[t]] = status[place[t]]
  <2>1. status' = IF place[s] # Root /\ Count(place[s]) = 1
                  THEN [status EXCEPT ![place[s]] = "hidden"] ELSE status
    BY DEF saveWorkingTabPageToMem
  <2> QED
    BY <1>3, <2>1, LeftBehind
<1>5. /\ TabTypes' /\ place'[s] = Nowhere
      /\ \A t \in Sessions \ {s} : /\ widgetInstances'[t] = widgetInstances[t]
                                   /\ place'[t] = place[t]
  BY <1>1, <1>2, TabCloses
<1>6. /\ MemTypes'
      /\ \A u \in Windows, t \in Sessions :
             closedTabs'[u][t] = IF u = place[s] /\ t = s THEN v ELSE closedTabs[u][t]
  BY <1>1, <1>2, <1>3, MemSet
<1>7. WindowTypes' /\ NewIsEmpty'
  <2>1. status[place[s]] # "none"
    BY <1>3 DEF Managed
  <2> QED
    BY <1>1, <1>2, <1>4, <1>6, <2>1 DEF WindowTypes, NewIsEmpty
<1>8. \A w \in Windows, t \in Sessions : InMem(w, t)' => InMem(w, t) \/ (w = place[s] /\ t = s)
  BY <1>4, <1>6 DEF InMem
<1>9. ASSUME NEW t \in Sessions \ {s} PROVE SessionOK(t)'
  <2>1. SessionOK(t) /\ (IsOpen(t)' <=> IsOpen(t))
    BY <1>1, <1>5 DEF IsOpen
  <2>2. TabIsManaged(t)'
    BY <1>4, <1>5, <2>1 DEF SessionOK, TabIsManaged, IsOpen, Managed, Shown
  <2>3. \A w \in Windows : closedTabs'[w][t] = closedTabs[w][t] /\ (InMem(w, t)' => InMem(w, t))
    BY <1>6, <1>8
  <2>4. /\ widgetInstances'[t] = widgetInstances[t] /\ stored'[t] = stored[t]
        /\ (t \in listed') <=> (t \in listed)
        /\ (t \in used') <=> (t \in used)
    BY <1>5
  <2> QED
    BY <2>1, <2>2, <2>3, <2>4, SameSession
<1>10. SessionOK(s)'
  <2>1. ~IsOpen(s)' /\ \A w \in Windows : InMem(w, s)' => w = place[s]
    BY <1>1, <1>5, <1>8 DEF SessionOK, OneWidget, IsOpen
  <2>2. s \in used'
    BY <1>1 DEF SessionOK, FreshIsNowhere
  <2>3. SavedIsStored(s)'
    BY <1>3, <1>6, <2>1 DEF SavedIsStored
  <2> QED
    BY <2>1, <2>2, <2>3 DEF SessionOK, TabIsManaged, OneWidget, FreshIsNowhere
<1> QED
  BY <1>4, <1>5, <1>6, <1>7, <1>9, <1>10 DEF TabInvariant, Types

LEMMA CloseStep ==
    ASSUME TabInvariant, NEW s \in Sessions, handleTabClose(s)
    PROVE  TabInvariant'
<1>1. /\ IsOpen(s) /\ UNCHANGED used
      /\ TabTypes /\ SessionOK(s)
  BY DEF handleTabClose, OnScreen, TabInvariant, Types
<1>2. PICK saves \in BOOLEAN :
          /\ IF saves THEN requestSaveConfig(s) ELSE UNCHANGED store
          /\ IF widgetInstances[s].work
             THEN saveWorkingTabPageToMem(s,
                      [widgetInstances[s] EXCEPT !.saved = widgetInstances[s].saved \/ saves])
             ELSE removeUuidTabPage(s)
  BY DEF handleTabClose
<1>3. StoreStep(s)
  BY <1>2 DEF StoreStep, requestSaveConfig, store
<1>4. /\ StoreTypes' /\ StoredAsListed(s)'
      /\ \A t \in Sessions \ {s} : /\ stored'[t] = stored[t]
                                   /\ (t \in listed') <=> (t \in listed)
  BY <1>1, <1>3, StoreStepKeeps
<1>5. CASE ~widgetInstances[s].work
  BY <1>1, <1>2, <1>4, <1>5, RemovedStep
<1>6. CASE widgetInstances[s].work
  <2>1. widgetInstances[s] \in Widgets
    BY <1>1 DEF TabTypes
  <2>2. PICK v : v = [widgetInstances[s] EXCEPT !.saved = widgetInstances[s].saved \/ saves]
    OBVIOUS
  <2>3. /\ v \in Widgets /\ v.content = widgetInstances[s].content
        /\ v.saved <=> widgetInstances[s].saved \/ saves
    BY <2>1, <2>2 DEF Widgets
  <2>4. saveWorkingTabPageToMem(s, v)
    BY <1>2, <1>6, <2>2
  <2>5. s \in listed' /\ v.saved => stored'[s] = v.content
    <3>1. CASE saves
      <4>1. stored' = [stored EXCEPT ![s] = widgetInstances[s].content]
        BY <1>2, <3>1 DEF requestSaveConfig
      <4>2. stored \in [Sessions -> Contents \cup {NoContent}]
        BY DEF TabInvariant, Types, StoreTypes
      <4> QED
        BY <2>3, <4>1, <4>2
    <3>2. CASE ~saves
      BY <1>1, <1>2, <2>2, <2>3, <3>2 DEF SessionOK, SavedIsStored, store
    <3> QED
      BY <3>1, <3>2
  <2> QED
    BY <1>1, <1>4, <2>3, <2>4, <2>5, KeptStep
<1> QED
  BY <1>5, <1>6

\* A click brings a widget back from memory.
LEMMA ReadingMemStep ==
    ASSUME TabInvariant, NEW w \in Windows, NEW s \in Sessions, ~IsOpen(s), InMem(w, s),
           switchByReadingMem(w, s), UNCHANGED <<used, stored, listed>>
    PROVE  TabInvariant'
<1>1. /\ Types /\ StoreTypes /\ WindowTypes /\ TabTypes /\ MemTypes /\ RootStays /\ NewIsEmpty
      /\ \A t \in Sessions : SessionOK(t)
  BY DEF TabInvariant, Types
<1>2. PICK v \in Widgets : v = closedTabs[w][s]
  BY <1>1 DEF InMem, MemTypes
<1>3. /\ widgetInstances' = [widgetInstances EXCEPT ![s] = v]
      /\ place' = [place EXCEPT ![s] = w]
      /\ status' = [status EXCEPT ![w] = "shown"]
      /\ MemBecomes(w, s, NoWidget)
      /\ UNCHANGED pages
  BY <1>2 DEF switchByReadingMem, restoreClosedTabFromMem, MemBecomes
<1>4. /\ TabTypes' /\ widgetInstances'[s] = v /\ place'[s] = w
      /\ \A t \in Sessions \ {s} : /\ widgetInstances'[t] = widgetInstances[t]
                                   /\ place'[t] = place[t]
  BY <1>1, <1>3, TabOpens
<1>5. /\ MemTypes'
      /\ \A u \in Windows, t \in Sessions :
             closedTabs'[u][t] = IF u = w /\ t = s THEN NoWidget ELSE closedTabs[u][t]
  BY <1>1, <1>3, MemSet
<1>6. /\ w \in Managed
      /\ \A u \in Windows : status'[u] = IF u = w THEN "shown" ELSE status[u]
  BY <1>1, <1>3 DEF InMem, WindowTypes
<1>7. StoreTypes' /\ WindowTypes' /\ RootStays'
  BY <1>1, <1>3, <1>6, SessionsAssumption DEF StoreTypes, WindowTypes, RootStays
<1>8. NewIsEmpty'
  BY <1>1, <1>5, <1>6 DEF NewIsEmpty
<1>9. \A u \in Windows : u \in Managed' <=> u \in Managed
  BY <1>6 DEF Managed
<1>10. \A u \in Windows, t \in Sessions : InMem(u, t)' => InMem(u, t) /\ ~(u = w /\ t = s)
  BY <1>5, <1>9 DEF InMem
<1>11. ASSUME NEW t \in Sessions \ {s} PROVE SessionOK(t)'
  <2>1. SessionOK(t) /\ (IsOpen(t)' <=> IsOpen(t))
    BY <1>1, <1>4 DEF IsOpen
  <2>2. TabIsManaged(t)'
    BY <1>4, <1>6, <1>9, <2>1 DEF SessionOK, TabIsManaged, IsOpen, Managed, Shown
  <2>3. \A u \in Windows : closedTabs'[u][t] = closedTabs[u][t] /\ (InMem(u, t)' => InMem(u, t))
    BY <1>5, <1>10
  <2>4. /\ widgetInstances'[t] = widgetInstances[t] /\ stored'[t] = stored[t]
        /\ (t \in listed') <=> (t \in listed)
        /\ (t \in used') <=> (t \in used)
    BY <1>4
  <2> QED
    BY <2>1, <2>2, <2>3, <2>4, SameSession
<1>12. SessionOK(s)'
  <2>1. SessionOK(s)
    BY <1>1
  <2>2. \A u \in Windows : ~InMem(u, s)'
    BY <1>10, <2>1 DEF SessionOK, OneWidget
  <2>3. IsOpen(s)' /\ w \in Shown'
    BY <1>4, <1>6, SessionsAssumption DEF IsOpen, Shown
  <2>4. s \in used'
    BY <1>2, <2>1, WidgetFields DEF SessionOK, FreshIsNowhere
  <2>5. TabIsManaged(s)' /\ OneWidget(s)' /\ FreshIsNowhere(s)'
    BY <1>4, <1>6, <1>9, <2>2, <2>3, <2>4 DEF TabIsManaged, OneWidget, FreshIsNowhere
  <2>6. StoredAsListed(s)'
    BY <2>1 DEF SessionOK, StoredAsListed
  <2>7. SavedIsStored(s)'
    BY <1>2, <1>4, <2>1, <2>2 DEF SessionOK, SavedIsStored
  <2> QED
    BY <2>5, <2>6, <2>7 DEF SessionOK
<1> QED
  BY <1>4, <1>5, <1>7, <1>8, <1>11, <1>12 DEF TabInvariant, Types

\* A click makes a widget with the stored configuration.
LEMMA ReadingDiskStep ==
    ASSUME TabInvariant, NEW s \in Sessions, s \in listed, ~IsOpen(s),
           \A w \in Windows : ~InMem(w, s),
           switchByReadingDisk(s), UNCHANGED <<used, stored, listed>>
    PROVE  TabInvariant'
<1>1. /\ Types /\ StoreTypes /\ WindowTypes /\ TabTypes /\ MemTypes /\ RootStays /\ NewIsEmpty
      /\ \A t \in Sessions : SessionOK(t)
      /\ Root \in Windows
  BY SessionsAssumption DEF TabInvariant, Types
<1>2. stored[s] \in Contents
  BY <1>1 DEF SessionOK, StoredAsListed, StoreTypes
<1>3. PICK v \in Widgets : /\ v.content = stored[s]
                          /\ widgetInstances' = [widgetInstances EXCEPT ![s] = v]
  <2>1. PICK b \in BOOLEAN : widgetInstances' = [widgetInstances EXCEPT ![s] =
                                  [content |-> stored[s], saved |-> b, work |-> FALSE]]
    BY DEF switchByReadingDisk
  <2>2. [content |-> stored[s], saved |-> b, work |-> FALSE] \in Widgets
    BY <1>2, NewWidget
  <2> QED
    BY <2>1, <2>2
<1>4. /\ place' = [place EXCEPT ![s] = Root]
      /\ UNCHANGED <<pages, closedTabs, status>>
  BY DEF switchByReadingDisk
<1>5. /\ TabTypes' /\ widgetInstances'[s] = v /\ place'[s] = Root
      /\ \A t \in Sessions \ {s} : /\ widgetInstances'[t] = widgetInstances[t]
                                   /\ place'[t] = place[t]
  BY <1>1, <1>3, <1>4, TabOpens
<1>6. StoreTypes' /\ WindowTypes' /\ MemTypes' /\ RootStays' /\ NewIsEmpty'
  BY <1>1, <1>4 DEF StoreTypes, WindowTypes, MemTypes, RootStays, NewIsEmpty
<1>7. \A u \in Windows, t \in Sessions : InMem(u, t)' <=> InMem(u, t)
  BY <1>4 DEF InMem, Managed
<1>8. ASSUME NEW t \in Sessions \ {s} PROVE SessionOK(t)'
  <2>1. SessionOK(t) /\ (IsOpen(t)' <=> IsOpen(t))
    BY <1>1, <1>5 DEF IsOpen
  <2>2. TabIsManaged(t)'
    BY <1>4, <1>5, <2>1 DEF SessionOK, TabIsManaged, IsOpen, Managed, Shown
  <2>3. \A u \in Windows : closedTabs'[u][t] = closedTabs[u][t] /\ (InMem(u, t)' => InMem(u, t))
    BY <1>4, <1>7
  <2>4. /\ widgetInstances'[t] = widgetInstances[t] /\ stored'[t] = stored[t]
        /\ (t \in listed') <=> (t \in listed)
        /\ (t \in used') <=> (t \in used)
    BY <1>5
  <2> QED
    BY <2>1, <2>2, <2>3, <2>4, SameSession
<1>9. SessionOK(s)'
  <2>1. SessionOK(s) /\ s \in used /\ \A u \in Windows : ~InMem(u, s)'
    BY <1>1, <1>7 DEF SessionOK, FreshIsNowhere
  <2>2. IsOpen(s)' /\ Root \in Shown' /\ Root \in Managed'
    BY <1>1, <1>4, <1>5, SessionsAssumption DEF IsOpen, Shown, Managed, RootStays
  <2>3. TabIsManaged(s)' /\ OneWidget(s)' /\ FreshIsNowhere(s)'
    BY <1>5, <2>1, <2>2 DEF TabIsManaged, OneWidget, FreshIsNowhere
  <2>4. StoredAsListed(s)' /\ SavedIsStored(s)'
    BY <1>3, <1>5, <2>1 DEF SessionOK, StoredAsListed, SavedIsStored
  <2> QED
    BY <2>3, <2>4 DEF SessionOK
<1> QED
  BY <1>5, <1>6, <1>8, <1>9 DEF TabInvariant, Types

LEMMA ClickStep ==
    ASSUME TabInvariant, NEW s \in Sessions, switchToOtherTabPage(s)
    PROVE  TabInvariant'
<1>1. s \in listed /\ UNCHANGED <<used, stored, listed>>
  BY DEF switchToOtherTabPage, store
<1>2. CASE IsOpen(s) /\ UNCHANGED tabs
  <2>1. UNCHANGED <<used, widgetInstances, place, pages, closedTabs, status, store>>
    BY <1>1, <1>2 DEF tabs, store
  <2>2. WindowTypes' /\ RootStays' /\ NewIsEmpty'
    BY <2>1 DEF TabInvariant, Types, WindowTypes, RootStays, NewIsEmpty
  <2> QED
    BY <2>1, <2>2, Untouched
<1>3. ASSUME NEW w \in Windows, ~IsOpen(s), InMem(w, s), switchByReadingMem(w, s)
      PROVE  TabInvariant'
  BY <1>1, <1>3, ReadingMemStep
<1>4. CASE ~IsOpen(s) /\ (\A w \in Windows : ~InMem(w, s)) /\ switchByReadingDisk(s)
  BY <1>1, <1>4, ReadingDiskStep
<1> QED
  BY <1>2, <1>3, <1>4 DEF switchToOtherTabPage

\* An entry is deleted, with its tab.
LEMMA DeleteStep ==
    ASSUME TabInvariant, NEW s \in Sessions, uuidsChanged(s)
    PROVE  TabInvariant'
<1>1. /\ Types /\ StoreTypes /\ WindowTypes /\ TabTypes /\ MemTypes /\ RootStays /\ NewIsEmpty
      /\ \A t \in Sessions : SessionOK(t)
  BY DEF TabInvariant, Types
<1>2. /\ s \in listed /\ listed' = listed \ {s} /\ UNCHANGED used
      /\ stored' = IF s \in Simulated THEN stored ELSE [stored EXCEPT ![s] = NoContent]
  BY DEF uuidsChanged
<1>3. StoreTypes' /\ \A t \in Sessions \ {s} : /\ stored'[t] = stored[t]
                                               /\ (t \in listed') <=> (t \in listed)
  BY <1>1, <1>2 DEF StoreTypes
<1>4. StoredAsListed(s)'
  BY <1>1, <1>2 DEF StoredAsListed, StoreTypes
<1>5. CASE IsOpen(s)
  <2>1. removeUuidTabPage(s)
    BY <1>5 DEF uuidsChanged
  <2> QED
    BY <1>2, <1>3, <1>4, <1>5, <2>1, RemovedStep
<1>6. CASE ~IsOpen(s)
  <2>1. UNCHANGED <<widgetInstances, place, pages, closedTabs, status>>
    BY <1>6 DEF uuidsChanged, tabs
  <2>2. TabTypes' /\ WindowTypes' /\ MemTypes' /\ RootStays' /\ NewIsEmpty'
    BY <1>1, <2>1 DEF TabTypes, WindowTypes, MemTypes, RootStays, NewIsEmpty, IsOpen
  <2>3. \A t \in Sessions : /\ IsOpen(t)' <=> IsOpen(t)
                            /\ \A w \in Windows : InMem(w, t)' <=> InMem(w, t)
    BY <2>1 DEF IsOpen, InMem, Managed
  <2>4. \A t \in Sessions : TabIsManaged(t)'
    BY <1>1, <2>1 DEF SessionOK, TabIsManaged, IsOpen, Managed, Shown
  <2>5. ASSUME NEW t \in Sessions \ {s} PROVE SessionOK(t)'
    <3>1. /\ SessionOK(t) /\ stored'[t] = stored[t] /\ widgetInstances'[t] = widgetInstances[t]
          /\ (t \in listed') <=> (t \in listed)
          /\ (t \in used') <=> (t \in used)
      BY <1>1, <1>2, <1>3, <2>1
    <3>2. \A w \in Windows : closedTabs'[w][t] = closedTabs[w][t] /\ (InMem(w, t)' => InMem(w, t))
      BY <2>1, <2>3
    <3> QED
      BY <2>3, <2>4, <3>1, <3>2, SameSession
  <2>6. SessionOK(s)'
    <3>1. s \in used' /\ s \notin listed'
      BY <1>1, <1>2 DEF SessionOK, FreshIsNowhere
    <3>2. OneWidget(s)'
      BY <1>1, <2>3 DEF SessionOK, OneWidget
    <3> QED
      BY <1>4, <2>4, <3>1, <3>2 DEF SessionOK, FreshIsNowhere, SavedIsStored
  <2> QED
    BY <1>3, <2>2, <2>5, <2>6 DEF TabInvariant, Types
<1> QED
  BY <1>5, <1>6

-----------------------------------------------------------------------------
(* Tabs that are dragged, and windows that are closed *)

LEMMA Arrives ==
    ASSUME TabInvariant, NEW from \in Windows, NEW w \in DropsAt(from), status' = Arrive(w)
    PROVE  /\ w \in Windows /\ w \in Managed' /\ (~DropsOnHidden => w \in Shown')
           /\ status' \in [Windows -> {"none", "shown", "hidden", "abandoned"}]
           /\ RootStays'
           /\ \A u \in Windows : /\ status[u] # "none" => status'[u] = status[u]
                                 /\ status'[u] = "none" => status[u] = "none"
<1>1. /\ WindowTypes /\ RootStays
      /\ w \in Windows /\ status[w] \in {"none", "shown", "hidden"}
      /\ ~DropsOnHidden => status[w] \in {"none", "shown"}
  BY DEF TabInvariant, Types, DropsAt, Shown
<1>2. CASE status[w] = "none"
  <2>1. status' = [status EXCEPT ![w] = "shown"]
    BY <1>2 DEF Arrive
  <2> QED
    BY <1>1, <1>2, <2>1 DEF WindowTypes, Managed, Shown, RootStays
<1>3. CASE status[w] # "none"
  <2>1. status' = status
    BY <1>3 DEF Arrive
  <2> QED
    BY <1>1, <1>3, <2>1 DEF WindowTypes, Managed, Shown, RootStays
<1> QED
  BY <1>2, <1>3

LEMMA DragTabStep ==
    ASSUME TabInvariant, NEW s \in Sessions, DragTab(s)
    PROVE  TabInvariant'
<1>1. /\ Types /\ StoreTypes /\ WindowTypes /\ TabTypes /\ MemTypes /\ RootStays /\ NewIsEmpty
      /\ \A t \in Sessions : SessionOK(t)
  BY DEF TabInvariant, Types
<1>2. IsOpen(s) /\ place[s] \in Windows
  BY <1>1 DEF DragTab, OnScreen, Shown
<1>3. PICK w \in DropsAt(place[s]) : place' = [place EXCEPT ![s] = w] /\ status' = Arrive(w)
  BY DEF DragTab
<1>4. UNCHANGED <<used, widgetInstances, pages, closedTabs, stored, listed>>
  BY DEF DragTab, store
<1>5. /\ w \in Windows /\ w \in Managed' /\ (~DropsOnHidden => w \in Shown')
      /\ status' \in [Windows -> {"none", "shown", "hidden", "abandoned"}]
      /\ RootStays'
      /\ \A u \in Windows : /\ status[u] # "none" => status'[u] = status[u]
                            /\ status'[u] = "none" => status[u] = "none"
  BY <1>2, <1>3, Arrives
<1>6. /\ place'[s] = w /\ w # Nowhere
      /\ \A t \in Sessions \ {s} : place'[t] = place[t]
  BY <1>1, <1>3, <1>5, SessionsAssumption DEF TabTypes
<1>7. \A t \in Sessions : IsOpen(t)' <=> IsOpen(t)
  BY <1>2, <1>6 DEF IsOpen
<1>8. TabTypes'
  BY <1>1, <1>3, <1>4, <1>5, <1>7 DEF TabTypes
<1>9. StoreTypes' /\ WindowTypes' /\ MemTypes' /\ NewIsEmpty'
  BY <1>1, <1>4, <1>5 DEF StoreTypes, WindowTypes, MemTypes, NewIsEmpty
<1>10. ASSUME NEW u \in Windows, NEW t \in Sessions, InMem(u, t)' PROVE InMem(u, t)
  <2>1. closedTabs[u][t] # NoWidget /\ status'[u] \in {"shown", "hidden"}
    BY <1>4, <1>10 DEF InMem, Managed
  <2>2. status[u] # "none"
    BY <1>1, <2>1 DEF NewIsEmpty
  <2> QED
    BY <1>5, <2>1, <2>2 DEF InMem, Managed
<1>11. ASSUME NEW t \in Sessions PROVE TabIsManaged(t)'
  <2>1. CASE t = s
    BY <1>5, <1>6, <2>1 DEF TabIsManaged
  <2>2. CASE t # s
    BY <1>1, <1>5, <1>6, <2>2 DEF SessionOK, TabIsManaged, IsOpen, Managed, Shown
  <2> QED
    BY <2>1, <2>2
<1>12. ASSUME NEW t \in Sessions PROVE SessionOK(t)'
  <2>1. /\ SessionOK(t) /\ (IsOpen(t)' <=> IsOpen(t)) /\ TabIsManaged(t)'
        /\ widgetInstances'[t] = widgetInstances[t] /\ stored'[t] = stored[t]
        /\ (t \in listed') <=> (t \in listed)
        /\ (t \in used') <=> (t \in used)
    BY <1>1, <1>4, <1>7, <1>11
  <2>2. \A u \in Windows : closedTabs'[u][t] = closedTabs[u][t] /\ (InMem(u, t)' => InMem(u, t))
    BY <1>4, <1>10
  <2> QED
    BY <2>1, <2>2, SameSession
<1> QED
  BY <1>5, <1>8, <1>9, <1>12 DEF TabInvariant, Types

LEMMA DragPageStep ==
    ASSUME TabInvariant, NEW from \in Windows, DragPage(from)
    PROVE  TabInvariant'
<1>1. WindowTypes /\ NewIsEmpty
  BY DEF TabInvariant, Types
<1>2. PICK w \in DropsAt(from) :
          /\ pages[w] < MaxPages /\ status' = Arrive(w)
          /\ pages' = [pages EXCEPT ![from] = pages[from] - 1, ![w] = @ + 1]
  BY DEF DragPage
<1>3. /\ status[from] = "shown" /\ pages[from] > 0
      /\ UNCHANGED <<used, widgetInstances, place, closedTabs, store>>
  BY DEF DragPage, Shown
<1>4. /\ w \in Windows
      /\ status' \in [Windows -> {"none", "shown", "hidden", "abandoned"}]
      /\ RootStays'
      /\ \A u \in Windows : /\ status[u] # "none" => status'[u] = status[u]
                            /\ status'[u] = "none" => status[u] = "none"
  BY <1>2, Arrives
<1>5. w # from
  BY <1>3 DEF DropsAt
<1>6. pages' = [u \in Windows |-> IF u = from THEN pages[from] - 1
                                 ELSE IF u = w THEN pages[w] + 1 ELSE pages[u]]
  BY <1>1, <1>2, <1>4, <1>5 DEF WindowTypes
<1>7. /\ pages[from] \in 0..MaxPages /\ pages[w] \in 0..MaxPages /\ MaxPages \in Nat
      /\ pages \in [Windows -> 0..MaxPages]
  BY <1>1, <1>4, SessionsAssumption DEF WindowTypes
<1>8. pages' \in [Windows -> 0..MaxPages]
  <2>1. pages[from] - 1 \in 0..MaxPages /\ pages[w] + 1 \in 0..MaxPages
    BY <1>2, <1>3, <1>7
  <2> QED
    BY <1>6, <1>7, <2>1
<1>9. WindowTypes' /\ NewIsEmpty'
  BY <1>1, <1>3, <1>4, <1>8 DEF WindowTypes, NewIsEmpty
<1> QED
  BY <1>3, <1>4, <1>9, Untouched

LEMMA WindowCloses ==
    ASSUME TabInvariant, NEW w \in Windows, closeEvent(w)
    PROVE  TabInvariant'
<1>1. /\ Types /\ StoreTypes /\ WindowTypes /\ TabTypes /\ MemTypes /\ RootStays /\ NewIsEmpty
      /\ \A t \in Sessions : SessionOK(t)
      /\ Root \in Windows /\ Nowhere \notin Windows
  BY SessionsAssumption DEF TabInvariant, Types
<1>2. /\ w # Root /\ status[w] = "shown" /\ pages[w] + pages[Root] <= MaxPages
      /\ place' = [s \in Sessions |-> IF place[s] = w THEN Root ELSE place[s]]
      /\ pages' = [pages EXCEPT ![w] = 0, ![Root] = @ + pages[w]]
      /\ closedTabs' = [closedTabs EXCEPT ![w] = [s \in Sessions |-> NoWidget]]
      /\ status' = [status EXCEPT ![w] = "none"]
      /\ UNCHANGED <<used, widgetInstances, stored, listed>>
  BY DEF closeEvent, Shown, EmptyMem, store
<1>3. \A t \in Sessions : IsOpen(t)' <=> IsOpen(t)
  BY <1>1, <1>2 DEF IsOpen
<1>4. TabTypes'
  BY <1>1, <1>2, <1>3 DEF TabTypes
<1>5. MemTypes' /\ StoreTypes'
  BY <1>1, <1>2 DEF MemTypes, StoreTypes
<1>6. WindowTypes'
  <2>1. pages' = [u \in Windows |-> IF u = w THEN 0
                                   ELSE IF u = Root THEN pages[Root] + pages[w] ELSE pages[u]]
    BY <1>1, <1>2 DEF WindowTypes
  <2>2. /\ pages[w] \in 0..MaxPages /\ pages[Root] \in 0..MaxPages /\ MaxPages \in Nat
        /\ pages \in [Windows -> 0..MaxPages]
    BY <1>1, SessionsAssumption DEF WindowTypes
  <2>3. pages' \in [Windows -> 0..MaxPages]
    <3>1. 0 \in 0..MaxPages /\ pages[Root] + pages[w] \in 0..MaxPages
      BY <1>2, <2>2
    <3> QED
      BY <2>1, <2>2, <3>1
  <2>4. status' \in [Windows -> {"none", "shown", "hidden", "abandoned"}]
    BY <1>1, <1>2 DEF WindowTypes
  <2> QED
    BY <2>3, <2>4 DEF WindowTypes
<1>7. /\ \A u \in Windows : status'[u] = IF u = w THEN "none" ELSE status[u]
      /\ \A u \in Windows, t \in Sessions :
             closedTabs'[u][t] = IF u = w THEN NoWidget ELSE closedTabs[u][t]
  BY <1>1, <1>2 DEF WindowTypes, MemTypes
<1>8. RootStays' /\ NewIsEmpty'
  BY <1>1, <1>2, <1>7 DEF RootStays, NewIsEmpty
<1>9. \A u \in Windows, t \in Sessions : InMem(u, t)' => InMem(u, t)
  BY <1>7 DEF InMem, Managed
<1>10. ASSUME NEW t \in Sessions PROVE SessionOK(t)'
  <2>1. TabIsManaged(t)'
    <3>1. CASE place[t] = w
      BY <1>1, <1>2, <1>7, <3>1 DEF TabIsManaged, RootStays, Managed, Shown
    <3>2. CASE place[t] # w
      BY <1>1, <1>2, <1>7, <3>2 DEF SessionOK, TabIsManaged, IsOpen, Managed, Shown
    <3> QED
      BY <3>1, <3>2
  <2>2. /\ SessionOK(t) /\ (IsOpen(t)' <=> IsOpen(t))
        /\ widgetInstances'[t] = widgetInstances[t] /\ stored'[t] = stored[t]
        /\ (t \in listed') <=> (t \in listed)
        /\ (t \in used') <=> (t \in used)
    BY <1>1, <1>2, <1>3
  <2>3. \A u \in Windows : /\ closedTabs'[u][t] = closedTabs[u][t] \/ closedTabs'[u][t] = NoWidget
                           /\ InMem(u, t)' => InMem(u, t)
    BY <1>7, <1>9
  <2> QED
    BY <2>1, <2>2, <2>3, SameSession
<1> QED
  BY <1>4, <1>5, <1>6, <1>8, <1>10 DEF TabInvariant, Types

-----------------------------------------------------------------------------
(* The theorems *)

LEMMA TabStep == TabInvariant /\ [Next]_vars => TabInvariant'
<1> SUFFICES ASSUME TabInvariant, [Next]_vars PROVE TabInvariant'
  OBVIOUS
<1>1. ASSUME NEW w \in Windows, addNewTab(w) \/ closePage(w) PROVE TabInvariant'
  BY <1>1, PagesStep
<1>2. ASSUME NEW w \in Windows, DragPage(w) PROVE TabInvariant'
  BY <1>2, DragPageStep
<1>3. ASSUME NEW w \in Windows, closeEvent(w) PROVE TabInvariant'
  BY <1>3, WindowCloses
<1>4. ASSUME NEW w \in Windows, NEW s \in Sessions, switchByCreateWidget(w, s)
      PROVE  TabInvariant'
  BY <1>4, NewSessionStep
<1>5. ASSUME NEW s \in Sessions, Edit(s) \/ saveSetting(s) \/ OnOff(s) PROVE TabInvariant'
  BY <1>5, EditStep
<1>6. ASSUME NEW s \in Sessions, ConnectionLost(s) PROVE TabInvariant'
  <2>1. CASE TabLost(s)
    BY <2>1, EditStep
  <2>2. ASSUME NEW w \in Windows, closedTabs[w][s] # NoWidget,
               closedTabs' = [closedTabs EXCEPT ![w][s].work = FALSE],
               UNCHANGED <<used, widgetInstances, place, pages, status, store>>
        PROVE  TabInvariant'
    BY <2>2, MemLostStep
  <2> QED
    BY <1>6, <2>1, <2>2 DEF ConnectionLost, TabLost
<1>7. ASSUME NEW s \in Sessions, handleTabClose(s) PROVE TabInvariant'
  BY <1>7, CloseStep
<1>8. ASSUME NEW s \in Sessions, switchToOtherTabPage(s) PROVE TabInvariant'
  BY <1>8, ClickStep
<1>9. ASSUME NEW s \in Sessions, uuidsChanged(s) PROVE TabInvariant'
  BY <1>9, DeleteStep
<1>10. ASSUME NEW s \in Sessions, DragTab(s) PROVE TabInvariant'
  BY <1>10, DragTabStep
<1>11. CASE readingProjectConfiguration
  BY <1>11, RestartStep
<1>12. CASE UNCHANGED vars
  <2>1. UNCHANGED <<used, widgetInstances, place, pages, closedTabs, status, store>>
    BY <1>12 DEF vars, tabs
  <2>2. WindowTypes' /\ RootStays' /\ NewIsEmpty'
    BY <2>1 DEF TabInvariant, Types, WindowTypes, RootStays, NewIsEmpty
  <2> QED
    BY <2>1, <2>2, Untouched
<1> QED
  BY <1>1, <1>2, <1>3, <1>4, <1>5, <1>6, <1>7, <1>8, <1>9, <1>10, <1>11, <1>12 DEF Next

THEOREM TabInvariantAlways == Spec => []TabInvariant
<1>1. Init => TabInvariant
  BY TabStart
<1>2. TabInvariant /\ [Next]_vars => TabInvariant'
  BY TabStep
<1> QED
  BY <1>1, <1>2, PTL DEF Spec

\* What the tabs, the windows and the stores hold is always of its type, and
\* a session has a widget behind its tab exactly when it has a tab.
THEOREM TabTypesAlways == Spec => []TypeOK
<1>1. TabInvariant => TypeOK
  BY DEF TabInvariant, Types, StoreTypes, WindowTypes, TabTypes, MemTypes, TypeOK
<1> QED
  BY <1>1, TabInvariantAlways, PTL

\* The widgets of a session that a click on its entry could bring up.
Reachable(s) == Cardinality({w \in Windows : InMem(w, s)}) + (IF IsOpen(s) THEN 1 ELSE 0)

LEMMA OneReachable ==
    ASSUME TabInvariant, NEW s \in Sessions
    PROVE  Reachable(s) <= 1
<1>1. OneWidget(s)
  BY DEF TabInvariant, SessionOK
<1>2. CASE \E w \in Windows : InMem(w, s)
  <2>1. PICK w \in Windows : InMem(w, s)
    BY <1>2
  <2>2. ~IsOpen(s) /\ {v \in Windows : InMem(v, s)} = {w}
    BY <1>1, <2>1 DEF OneWidget
  <2>3. Cardinality({w}) = 1
    BY FS_Singleton
  <2>4. Cardinality({v \in Windows : InMem(v, s)}) = 1
    BY <2>2, <2>3
  <2> QED
    BY <2>2, <2>4 DEF Reachable
<1>3. CASE ~\E w \in Windows : InMem(w, s)
  <2>1. {w \in Windows : InMem(w, s)} = {}
    BY <1>3
  <2>2. Cardinality({w \in Windows : InMem(w, s)}) = 0
    BY <2>1, FS_EmptySet
  <2> QED
    BY <2>2 DEF Reachable
<1> QED
  BY <1>2, <1>3

\* No session ever has two widgets a click could bring up, wherever dragged
\* tabs are dropped.
THEOREM OneWidgetAnywhere == Spec => [](\A s \in Sessions : Reachable(s) <= 1)
<1>1. TabInvariant => \A s \in Sessions : Reachable(s) <= 1
  BY OneReachable
<1> QED
  BY <1>1, TabInvariantAlways, PTL

\* And where a tab cannot be dropped on a window that was hidden, every tab
\* is on the screen, for any number of sessions and windows.
THEOREM OneWidgetAlways == ~DropsOnHidden => (Spec => []OneWidgetPerSession)
<1> SUFFICES ASSUME ~DropsOnHidden PROVE Spec => []OneWidgetPerSession
  OBVIOUS
<1>1. ASSUME TabInvariant PROVE OneWidgetPerSession
  <2>1. TypeOK
    BY <1>1 DEF TabInvariant, Types, StoreTypes, WindowTypes, TabTypes, MemTypes, TypeOK
  <2>2. ASSUME NEW s \in Sessions PROVE Reachable(s) <= 1
    BY <1>1, OneReachable
  <2>3. ASSUME NEW s \in Sessions, IsOpen(s) PROVE place[s] \in Shown
    BY <1>1, <2>3 DEF TabInvariant, SessionOK, TabIsManaged
  <2> QED
    BY <2>1, <2>2, <2>3 DEF OneWidgetPerSession, Reachable
<1> QED
  BY <1>1, TabInvariantAlways, PTL

\* The save button says the truth: of a listed session not marked as
\* modified exactly its configuration is stored, wherever its widget is.
THEOREM SavedMeansStoredAlways == Spec => []SavedMeansStored
<1>1. TabInvariant => SavedMeansStored
  BY DEF TabInvariant, Types, StoreTypes, SessionOK, SavedIsStored, SavedMeansStored
<1> QED
  BY <1>1, TabInvariantAlways, PTL

\* A link that was deleted never gets an entry again, at a restart neither.
THEOREM DeletedStaysDeletedAlways == Spec => DeletedStaysDeleted
<1>1. ASSUME TabInvariant, [Next]_vars
      PROVE  [\A s \in used \ Simulated :
                  ~IsOpen(s) /\ s \notin listed => s \notin listed']_vars
  <2>1. ASSUME NEW s \in used \ Simulated, ~IsOpen(s), s \notin listed, Next
        PROVE  s \notin listed'
    <3>1. s \in Sessions /\ SessionOK(s)
      BY <1>1 DEF TabInvariant, Types, StoreTypes
    <3>2. ASSUME NEW t \in Sessions, saveSetting(t) \/ handleTabClose(t) PROVE s \notin listed'
      <4>1. IsOpen(t) /\ (requestSaveConfig(t) \/ UNCHANGED store)
        BY <3>2 DEF saveSetting, handleTabClose, OnScreen
      <4> QED
        BY <2>1, <4>1 DEF requestSaveConfig, store
    <3>3. CASE readingProjectConfiguration
      BY <2>1, <3>1, <3>3 DEF readingProjectConfiguration, SessionOK, StoredAsListed
    <3>4. ASSUME NEW t \in Sessions, uuidsChanged(t) PROVE s \notin listed'
      BY <2>1, <3>4 DEF uuidsChanged
    <3>5. ASSUME listed' = listed PROVE s \notin listed'
      BY <2>1, <3>5
    <3>6. ASSUME NEW w \in Windows, addNewTab(w) \/ closePage(w) \/ DragPage(w) \/ closeEvent(w)
          PROVE  listed' = listed
      BY <3>6 DEF addNewTab, closePage, DragPage, closeEvent, store
    <3>7. ASSUME NEW w \in Windows, NEW t \in Sessions, switchByCreateWidget(w, t)
          PROVE  listed' = listed
      BY <3>7 DEF switchByCreateWidget, store
    <3>8. ASSUME NEW t \in Sessions,
                 Edit(t) \/ OnOff(t) \/ ConnectionLost(t) \/ switchToOtherTabPage(t) \/ DragTab(t)
          PROVE  listed' = listed
      BY <3>8 DEF Edit, OnOff, ConnectionLost, switchToOtherTabPage, DragTab, store
    <3> QED
      BY <2>1, <3>2, <3>3, <3>4, <3>5, <3>6, <3>7, <3>8 DEF Next
  <2> QED
    BY <1>1, <2>1
<1> QED
  BY <1>1, TabInvariantAlways, PTL DEF Spec, DeletedStaysDeleted

\* Closing a tab or its window keeps the widget of a working tab.
LEMMA WorkIsKept ==
    ASSUME TabInvariant, [Next]_vars, ~readingProjectConfiguration,
           NEW s \in Sessions, IsOpen(s), widgetInstances[s].work, ~IsOpen(s)'
    PROVE  \/ \E w \in Windows : InMem(w, s)' /\ closedTabs'[w][s].work
           \/ s \in listed \ listed'
<1>1. /\ TabTypes /\ MemTypes /\ WindowTypes /\ RootStays /\ SessionOK(s)
      /\ Root \in Windows /\ Nowhere \notin Windows /\ place[s] \in Windows
  BY SessionsAssumption DEF TabInvariant, Types, SessionOK, TabIsManaged, Managed
<1>2. place'[s] # place[s]
  BY DEF IsOpen
<1>3. ASSUME NEW t \in Sessions, handleTabClose(t)
      PROVE  \E w \in Windows : InMem(w, s)' /\ closedTabs'[w][s].work
  <2>1. place' = [place EXCEPT ![t] = Nowhere]
    BY <1>3 DEF handleTabClose, saveWorkingTabPageToMem, removeUuidTabPage
  <2>2. t = s
    BY <1>1, <1>2, <2>1 DEF TabTypes
  <2>3. PICK b \in BOOLEAN : saveWorkingTabPageToMem(s,
            [widgetInstances[s] EXCEPT !.saved = widgetInstances[s].saved \/ b])
    BY <1>3, <2>2 DEF handleTabClose
  <2>4. PICK v : v = [widgetInstances[s] EXCEPT !.saved = widgetInstances[s].saved \/ b]
    OBVIOUS
  <2>5. v \in Widgets /\ v.work
    <3>1. widgetInstances[s] \in Widgets
      BY <1>1 DEF TabTypes
    <3> QED
      BY <2>4, <3>1 DEF Widgets
  <2>6. MemBecomes(place[s], s, v)
    BY <2>3, <2>4 DEF saveWorkingTabPageToMem, MemBecomes
  <2>7. closedTabs'[place[s]][s] = v
    BY <1>1, <2>5, <2>6, MemSet
  <2>8. status' = IF place[s] # Root /\ Count(place[s]) = 1
                  THEN [status EXCEPT ![place[s]] = "hidden"] ELSE status
    BY <2>3 DEF saveWorkingTabPageToMem
  <2>9. status[place[s]] = "shown"
    BY <1>3, <2>2 DEF handleTabClose, OnScreen, Shown
  <2>10. place[s] \in Managed'
    BY <1>1, <2>8, <2>9 DEF Managed, WindowTypes
  <2> QED
    BY <1>1, <2>5, <2>7, <2>10, WidgetFields DEF InMem
<1>4. ASSUME NEW t \in Sessions, uuidsChanged(t) PROVE s \in listed \ listed'
  <2>1. IsOpen(t) /\ place' = [place EXCEPT ![t] = Nowhere]
    BY <1>2, <1>4 DEF uuidsChanged, removeUuidTabPage, tabs
  <2>2. t = s
    BY <1>1, <1>2, <2>1 DEF TabTypes
  <2> QED
    BY <1>4, <2>2 DEF uuidsChanged
<1>5. ASSUME NEW w \in Windows, closeEvent(w) PROVE FALSE
  BY <1>1, <1>5 DEF closeEvent, IsOpen
<1>6. ASSUME NEW w \in Windows, addNewTab(w) \/ closePage(w) \/ DragPage(w) PROVE FALSE
  BY <1>2, <1>6 DEF addNewTab, closePage, DragPage
<1>7. ASSUME NEW w \in Windows, NEW t \in Sessions, switchByCreateWidget(w, t) PROVE FALSE
  BY <1>1, <1>7 DEF switchByCreateWidget, TabTypes, IsOpen
<1>8. ASSUME NEW t \in Sessions, Edit(t) \/ saveSetting(t) \/ OnOff(t) \/ ConnectionLost(t)
      PROVE  FALSE
  BY <1>2, <1>8 DEF Edit, saveSetting, OnOff, ConnectionLost
<1>9. ASSUME NEW t \in Sessions, switchToOtherTabPage(t) PROVE FALSE
  BY <1>1, <1>9 DEF switchToOtherTabPage, switchByReadingMem, restoreClosedTabFromMem,
     switchByReadingDisk, tabs, TabTypes, IsOpen
<1>10. ASSUME NEW t \in Sessions, DragTab(t) PROVE FALSE
  <2>1. PICK w \in Windows : place' = [place EXCEPT ![t] = w]
    BY <1>10 DEF DragTab, DropsAt, Shown
  <2> QED
    BY <1>1, <2>1 DEF TabTypes, IsOpen
<1>11. CASE UNCHANGED vars
  BY <1>2, <1>11 DEF vars, tabs
<1> QED
  BY <1>3, <1>4, <1>5, <1>6, <1>7, <1>8, <1>9, <1>10, <1>11 DEF Next

\* Closing a tab, or the window it is in, never ends the connection behind
\* it: unless its entry is deleted or the program starts again, the widget of
\* a working tab stays in a tab or at work in the memory of a window.
THEOREM ClosingKeepsWorkAlways == Spec => ClosingKeepsWork
<1>1. ASSUME TabInvariant, [Next]_vars
      PROVE  [\/ \A s \in Sessions :
                    IsOpen(s) /\ widgetInstances[s].work =>
                        \/ IsOpen(s)'
                        \/ \E w \in Windows : InMem(w, s)' /\ closedTabs'[w][s].work
                        \/ s \in listed \ listed'
              \/ readingProjectConfiguration]_vars
  BY <1>1, WorkIsKept
<1> QED
  BY <1>1, TabInvariantAlways, PTL DEF Spec, ClosingKeepsWork

-----------------------------------------------------------------------------
(* The sides *)

LEMMA SidesApart ==
    ASSUME [WindowNext]_<<kind, vars, screenVars, drawerVars>>
    PROVE  [Next]_vars /\ [Screen!Next]_(Screen!vars) /\ [Slide!Next]_(Slide!vars)
<1>1. CASE SessionStep
  <2>1. UNCHANGED Screen!vars /\ UNCHANGED Slide!vars
    BY <1>1 DEF SessionStep, screenVars, drawerVars, Screen!vars, Screen!places, Screen!names,
       Slide!vars, Slide!drawer, Slide!policies
  <2> QED
    BY <1>1, <2>1 DEF SessionStep
<1>2. CASE ScreenStep
  <2>1. UNCHANGED vars /\ UNCHANGED Slide!vars
    BY <1>2 DEF ScreenStep, drawerVars, Slide!vars, Slide!drawer, Slide!policies
  <2> QED
    BY <1>2, <2>1 DEF ScreenStep
<1>3. CASE DrawerStep
  <2>1. UNCHANGED vars /\ UNCHANGED Screen!vars
    BY <1>3 DEF DrawerStep, screenVars, Screen!vars, Screen!places, Screen!names
  <2> QED
    BY <1>3, <2>1 DEF DrawerStep
<1>4. CASE UNCHANGED <<kind, vars, screenVars, drawerVars>>
  <2>1. UNCHANGED Screen!vars /\ UNCHANGED Slide!vars /\ UNCHANGED vars
    BY <1>4 DEF screenVars, drawerVars, Screen!vars, Screen!places, Screen!names,
       Slide!vars, Slide!drawer, Slide!policies
  <2> QED
    BY <2>1
<1> QED
  BY <1>1, <1>2, <1>3, <1>4 DEF WindowNext

\* A behaviour of the main window is one of its sessions, of its screen and
\* of its drawer: what is proved of each of them holds of the whole.
THEOREM SidesOfTheWindow == WindowSpec => Spec /\ Screen!Spec /\ Slide!Spec
<1>1. WindowInit => Init /\ Screen!Init /\ Slide!Init
  BY DEF WindowInit
<1>2. [WindowNext]_<<kind, vars, screenVars, drawerVars>>
      => [Next]_vars /\ [Screen!Next]_(Screen!vars) /\ [Slide!Next]_(Slide!vars)
  BY SidesApart
<1> QED
  BY <1>1, <1>2, PTL DEF WindowSpec, Spec, Screen!Spec, Slide!Spec

\* What was stored and deleted, in the whole main window.
THEOREM SessionsAreKept ==
    WindowSpec => []TypeOK /\ []SavedMeansStored /\ DeletedStaysDeleted /\ ClosingKeepsWork
  BY SidesOfTheWindow, TabTypesAlways, SavedMeansStoredAlways, DeletedStaysDeletedAlways,
     ClosingKeepsWorkAlways

-----------------------------------------------------------------------------
(* The drawer *)

DrawerTypes ==
    /\ checked \in Buttons \cup {NoButton}
    /\ targetDrawerVisible_ \in BOOLEAN /\ isDrawerVisible_ \in BOOLEAN /\ visible \in BOOLEAN
    /\ running \in BOOLEAN /\ squeezed \in BOOLEAN /\ hurried \in BOOLEAN
    /\ policies \in {"none", "own"}

\* Where the drawer is, or goes, and the button and the page of it.
DrawerIsThere ==
    /\ targetDrawerVisible_ <=> checked # NoButton
    /\ targetDrawerVisible_ => page = checked
    /\ running => visible
    /\ ~running => visible = targetDrawerVisible_ /\ isDrawerVisible_ = visible

\* Its widgets are squeezed only while it slides shut, with their own policies
\* kept.
DrawerPolicies ==
    /\ squeezed => running /\ ~targetDrawerVisible_
    /\ targetDrawerVisible_ => policies = "none"
    /\ running /\ ~targetDrawerVisible_ => policies = "own"

\* The width the user gave it is its own, or the one it will open to.
DrawerWidth ==
    ~hurried => IF ~running /\ visible THEN width = wanted ELSE default_width_ = wanted

DrawerInvariant == DrawerTypes /\ DrawerIsThere /\ DrawerPolicies /\ DrawerWidth

LEMMA DrawerStart == Slide!Init => DrawerInvariant
  BY DrawerAssumption DEF Slide!Init, DrawerInvariant, DrawerTypes, DrawerIsThere,
     DrawerPolicies, DrawerWidth

LEMMA DrawerClick ==
    ASSUME DrawerInvariant, NEW b \in Buttons, Slide!Click(b)
    PROVE  DrawerInvariant'
<1>1. DrawerTypes /\ DrawerIsThere /\ DrawerPolicies /\ DrawerWidth /\ b # NoButton
  BY DrawerAssumption DEF DrawerInvariant
<1>2. checked' = (IF checked = b THEN NoButton ELSE b) /\ page' = b
  BY DEF Slide!Click
<1>3. CASE ~targetDrawerVisible_
  <2>1. Slide!openDrawer /\ checked = NoButton
    BY <1>1, <1>3 DEF Slide!Click, DrawerIsThere
  <2>2. /\ visible' = TRUE /\ targetDrawerVisible_' = TRUE /\ running' = TRUE
        /\ policies' = "none"
        /\ UNCHANGED <<isDrawerVisible_, width, default_width_, wanted, hurried>>
    BY <2>1 DEF Slide!openDrawer
  <2>3. squeezed' = FALSE
    <3>1. squeezed' = IF policies = "none" THEN squeezed ELSE policies = "squeezed"
      BY <2>1 DEF Slide!openDrawer, Slide!Restored
    <3> QED
      BY <1>1, <1>3, <3>1 DEF DrawerTypes, DrawerPolicies
  <2>4. DrawerTypes' /\ DrawerPolicies'
    BY <1>1, <1>2, <2>2, <2>3 DEF DrawerTypes, DrawerPolicies
  <2>5. DrawerIsThere'
    BY <1>1, <1>2, <2>1, <2>2 DEF DrawerIsThere
  <2>6. DrawerWidth'
    BY <1>1, <1>3, <2>2 DEF DrawerTypes, DrawerIsThere, DrawerWidth
  <2> QED
    BY <2>4, <2>5, <2>6 DEF DrawerInvariant
<1>4. CASE targetDrawerVisible_ /\ page = b
  <2>1. Slide!closeDrawer /\ checked = b
    BY <1>1, <1>4 DEF Slide!Click, DrawerIsThere
  <2>2. /\ targetDrawerVisible_' = FALSE /\ running' = TRUE /\ squeezed' = TRUE
        /\ default_width_' = width
        /\ hurried' = (hurried \/ running)
        /\ UNCHANGED <<isDrawerVisible_, visible, width, wanted>>
    BY <2>1 DEF Slide!closeDrawer
  <2>3. policies' = "own"
    <3>1. policies' = IF Slide!Restored THEN "squeezed" ELSE "own"
      BY <2>1 DEF Slide!closeDrawer
    <3>2. ~Slide!Restored
      BY <1>1, <1>4 DEF Slide!Restored, DrawerTypes, DrawerPolicies
    <3> QED
      BY <3>1, <3>2
  <2>4. DrawerTypes' /\ DrawerPolicies'
    BY <1>1, <1>2, <2>1, <2>2, <2>3 DEF DrawerTypes, DrawerPolicies
  <2>5. DrawerIsThere'
    <3>1. visible = TRUE
      BY <1>1, <1>4 DEF DrawerTypes, DrawerIsThere
    <3> QED
      BY <1>2, <2>1, <2>2, <3>1 DEF DrawerIsThere
  <2>6. DrawerWidth'
    BY <1>1, <1>4, <2>2 DEF DrawerTypes, DrawerIsThere, DrawerWidth
  <2> QED
    BY <2>4, <2>5, <2>6 DEF DrawerInvariant
<1>5. CASE targetDrawerVisible_ /\ page # b
  <2>1. checked # b /\ UNCHANGED <<Slide!drawer, Slide!policies, wanted, hurried>>
    BY <1>1, <1>5 DEF Slide!Click, DrawerIsThere
  <2>2. UNCHANGED <<targetDrawerVisible_, isDrawerVisible_, visible, running, width,
                    default_width_, squeezed, policies, wanted, hurried>>
    BY <2>1 DEF Slide!drawer, Slide!policies
  <2>3. DrawerTypes' /\ DrawerPolicies'
    BY <1>1, <1>2, <2>2 DEF DrawerTypes, DrawerPolicies
  <2>4. DrawerIsThere'
    BY <1>1, <1>2, <1>5, <2>1, <2>2 DEF DrawerIsThere
  <2>5. DrawerWidth'
    BY <1>1, <2>2 DEF DrawerWidth
  <2> QED
    BY <2>3, <2>4, <2>5 DEF DrawerInvariant
<1> QED
  BY <1>3, <1>4, <1>5

LEMMA DrawerStep1 == DrawerInvariant /\ [Slide!Next]_(Slide!vars) => DrawerInvariant'
<1> SUFFICES ASSUME DrawerInvariant, [Slide!Next]_(Slide!vars) PROVE DrawerInvariant'
  OBVIOUS
<1>1. DrawerTypes /\ DrawerIsThere /\ DrawerPolicies /\ DrawerWidth
  BY DEF DrawerInvariant
<1>2. ASSUME NEW b \in Buttons, Slide!Click(b) PROVE DrawerInvariant'
  BY <1>2, DrawerClick
<1>3. CASE Slide!AnimationSteps
  <2>1. /\ running
        /\ UNCHANGED <<checked, page, targetDrawerVisible_, isDrawerVisible_, visible, running,
                       default_width_, squeezed, policies, wanted, hurried>>
    BY <1>3 DEF Slide!AnimationSteps, Slide!policies
  <2> QED
    BY <1>1, <2>1 DEF DrawerInvariant, DrawerTypes, DrawerIsThere, DrawerPolicies, DrawerWidth
<1>4. CASE Slide!onAnimationFinished
  <2>1. /\ running /\ running' = FALSE
        /\ width' = IF targetDrawerVisible_ THEN default_width_ ELSE 0
        /\ isDrawerVisible_' = targetDrawerVisible_
        /\ UNCHANGED <<checked, page, targetDrawerVisible_, default_width_, wanted, hurried>>
    BY <1>4 DEF Slide!onAnimationFinished
  <2>2. CASE targetDrawerVisible_
    <3>1. UNCHANGED <<visible, squeezed, policies>>
      BY <1>4, <2>2 DEF Slide!onAnimationFinished, Slide!policies
    <3> QED
      BY <1>1, <2>1, <2>2, <3>1 DEF DrawerInvariant, DrawerTypes, DrawerIsThere, DrawerPolicies,
         DrawerWidth
  <2>3. CASE ~targetDrawerVisible_
    <3>1. visible' = FALSE /\ squeezed' = (policies = "squeezed") /\ UNCHANGED policies
      BY <1>4, <2>3 DEF Slide!onAnimationFinished
    <3> QED
      BY <1>1, <2>1, <2>3, <3>1 DEF DrawerInvariant, DrawerTypes, DrawerIsThere, DrawerPolicies,
         DrawerWidth
  <2> QED
    BY <2>2, <2>3
<1>5. ASSUME NEW w \in 0 .. MaxWidth, Slide!DragHandle(w) PROVE DrawerInvariant'
  <2>1. /\ visible /\ ~running /\ width' = w /\ wanted' = w /\ hurried' = FALSE
        /\ UNCHANGED <<checked, page, targetDrawerVisible_, isDrawerVisible_, visible, running,
                       default_width_, squeezed, policies>>
    BY <1>5 DEF Slide!DragHandle, Slide!policies
  <2> QED
    BY <1>1, <2>1 DEF DrawerInvariant, DrawerTypes, DrawerIsThere, DrawerPolicies, DrawerWidth
<1>6. CASE Slide!DeleteEntry \/ UNCHANGED Slide!vars
  <2>1. UNCHANGED <<checked, page, targetDrawerVisible_, isDrawerVisible_, visible, running, width,
                    default_width_, squeezed, policies, wanted, hurried>>
    BY <1>6 DEF Slide!DeleteEntry, Slide!vars, Slide!drawer, Slide!policies
  <2> QED
    BY <1>1, <2>1 DEF DrawerInvariant, DrawerTypes, DrawerIsThere, DrawerPolicies, DrawerWidth
<1> QED
  BY <1>2, <1>3, <1>4, <1>5, <1>6 DEF Slide!Next

\* However buttons are clicked while it moves, the drawer is open, or opens,
\* exactly when a button is checked, on the page of that button; at rest it is
\* there or not as it should be, its widgets have their own size policies, and
\* it is as wide as the user made it: for any buttons and widths.
THEOREM DrawerFollowsButtonsAlways == WindowSpec => []DrawerFollowsButtons
<1>1. Slide!Init => DrawerInvariant
  BY DrawerStart
<1>2. DrawerInvariant /\ [Slide!Next]_(Slide!vars) => DrawerInvariant'
  BY DrawerStep1
<1>3. DrawerInvariant => DrawerFollowsButtons
  BY DEF DrawerInvariant, DrawerTypes, DrawerIsThere, DrawerPolicies, DrawerWidth,
     DrawerFollowsButtons, Slide!DrawerFollowsButtons
<1>4. Slide!Spec => []DrawerInvariant
  BY <1>1, <1>2, PTL DEF Slide!Spec
<1> QED
  BY <1>3, <1>4, SidesOfTheWindow, PTL

-----------------------------------------------------------------------------
(* The screen: what is in front *)

Names == Titles \cup {Untitled}

ScreenTypes ==
    /\ screenPlace \in [Screen!Tabs -> ScreenWindows \cup {Nowhere}]
    /\ current \in [ScreenWindows -> Screen!Tabs \cup {NoTab}]
    /\ kinds \in [Pages -> {"own", "root", "blank"}]
    /\ screenStatus \in [ScreenWindows -> {"none", "shown", "hidden", "abandoned"}]
    /\ kept \in [ScreenSessions -> ScreenWindows \cup {Nowhere}]

NameTypes ==
    /\ text \in [ScreenSessions -> Names] /\ title \in [ScreenSessions -> Names]
    /\ entries \in [ScreenSessions -> Names \cup {NoEntry}]

\* Each window shows one of its own tabs, if it has any.
ShowsOwn(w) ==
    current[w] \in Screen!In(w) \/ (current[w] = NoTab /\ Screen!In(w) = {})

\* Tabs are in windows on the screen, and so is the root window.
OnTheScreen ==
    /\ screenStatus[Root] = "shown"
    /\ \A t \in Screen!Tabs : Screen!IsOpen(t) => screenPlace[t] \in Screen!Shown

\* A window that was never made keeps nothing in memory.
KeptSomewhere ==
    \A s \in ScreenSessions : kept[s] \in ScreenWindows => screenStatus[kept[s]] # "none"

Leftovers ==
    /\ dangling \cap {s \in ScreenSessions : Screen!IsOpen(s)} = {}
    /\ setting_widget_ # "there" => ~Screen!IsOpen(Screen!Settings)

\* A session in a tab, or in the memory of a window of the manager.
Reached(s) == Screen!IsOpen(s) \/ kept[s] \in Screen!Managed

NamesOK ==
    \A s \in ScreenSessions :
        Reached(s) /\ entries[s] # NoEntry /\ s \notin astray => text[s] = entries[s]

Places ==
    /\ ScreenTypes /\ (\A w \in ScreenWindows : ShowsOwn(w))
    /\ OnTheScreen /\ KeptSomewhere

ScreenInvariant ==
    Places /\ NameTypes /\ front \in Screen!Shown /\ Leftovers /\ NamesOK

LEMMA TabsFacts ==
    /\ IsFiniteSet(Screen!Tabs)
    /\ NoTab \notin Screen!Tabs /\ Screen!Settings \in Screen!Tabs
    /\ ScreenSessions \subseteq Screen!Tabs /\ Pages \subseteq Screen!Tabs
    /\ Screen!Settings \notin ScreenSessions /\ Screen!Settings \notin Pages
    /\ ScreenSessions \cap Pages = {}
    /\ Root \in ScreenWindows /\ Nowhere \notin ScreenWindows
<1>1. IsFiniteSet(ScreenSessions \cup Pages) /\ IsFiniteSet({"settings"})
  BY ScreenAssumption, FS_Union, FS_Singleton
<1>2. Screen!Tabs = (ScreenSessions \cup Pages) \cup {"settings"}
  BY DEF Screen!Tabs, Screen!Settings
<1>3. IsFiniteSet(Screen!Tabs)
  BY <1>1, <1>2, FS_Union
<1> QED
  BY <1>3, ScreenAssumption DEF Screen!Tabs, Screen!Settings

\* A tab leaves the bar it is in: a neighbour of it is shown there.
LEMMA LeftBar ==
    ASSUME ScreenTypes, \A w \in ScreenWindows : ShowsOwn(w),
           NEW t \in Screen!Tabs, NEW c \in Screen!Left(t)
    PROVE  /\ c \in [ScreenWindows -> Screen!Tabs \cup {NoTab}]
           /\ \A w \in ScreenWindows :
                 \/ c[w] \in Screen!In(w) \ {t}
                 \/ c[w] = NoTab /\ Screen!In(w) \ {t} = {}
<1>1. \A w \in ScreenWindows : ShowsOwn(w)
  OBVIOUS
<1>2. current \in [ScreenWindows -> Screen!Tabs \cup {NoTab}] /\ NoTab \notin Screen!Tabs
  BY TabsFacts DEF ScreenTypes
<1>3. CASE c = current /\ \A w \in ScreenWindows : current[w] # t
  BY <1>1, <1>2, <1>3 DEF ShowsOwn
<1>4. CASE c = current /\ \E w \in ScreenWindows : current[w] = t
  <2>1. PICK w \in ScreenWindows : current[w] = t
    BY <1>4
  <2>2. screenPlace[t] = w
    BY <1>1, <1>2, <2>1 DEF ShowsOwn, Screen!In
  <2>3. Screen!IsOpen(t) /\ current[screenPlace[t]] = t
    BY <2>1, <2>2, ScreenAssumption DEF Screen!IsOpen
  <2>4. PICK o : /\ c = [current EXCEPT ![screenPlace[t]] = o]
                 /\ o \in IF Screen!In(w) \ {t} = {} THEN {NoTab} ELSE Screen!In(w) \ {t}
    BY <2>2, <2>3 DEF Screen!Left
  <2>5. c[w] = o
    BY <1>2, <2>2, <2>4
  <2> QED
    BY <1>2, <1>4, <2>1, <2>4, <2>5
<1>5. CASE c # current
  <2>1. PICK o : /\ Screen!IsOpen(t) /\ current[screenPlace[t]] = t
                 /\ c = [current EXCEPT ![screenPlace[t]] = o]
                 /\ o \in IF Screen!In(screenPlace[t]) \ {t} = {} THEN {NoTab}
                          ELSE Screen!In(screenPlace[t]) \ {t}
    BY <1>5 DEF Screen!Left
  <2>2. PICK w \in ScreenWindows : w = screenPlace[t]
    BY <2>1 DEF ScreenTypes, Screen!IsOpen
  <2>3. c \in [ScreenWindows -> Screen!Tabs \cup {NoTab}]
    <3>1. o \in Screen!Tabs \cup {NoTab}
      BY <2>1 DEF Screen!In
    <3> QED
      BY <1>2, <2>1, <3>1
  <2>4. ASSUME NEW v \in ScreenWindows
        PROVE  \/ c[v] \in Screen!In(v) \ {t}
               \/ c[v] = NoTab /\ Screen!In(v) \ {t} = {}
    <3>1. CASE v = w
      BY <1>2, <2>1, <2>2, <3>1
    <3>2. CASE v # w
      <4>1. c[v] = current[v] /\ t \notin Screen!In(v)
        BY <1>2, <2>1, <2>2, <3>2 DEF Screen!In
      <4> QED
        BY <1>1, <4>1 DEF ShowsOwn
    <3> QED
      BY <3>1, <3>2
  <2> QED
    BY <2>3, <2>4
<1> QED
  BY <1>3, <1>4, <1>5

LEMMA JoinsBar ==
    ASSUME ScreenTypes, \A w \in ScreenWindows : ShowsOwn(w),
           NEW t \in Screen!Tabs, NEW w \in ScreenWindows, Screen!Joins(t, w)
    PROVE  /\ screenPlace' \in [Screen!Tabs -> ScreenWindows \cup {Nowhere}]
           /\ current' \in [ScreenWindows -> Screen!Tabs \cup {NoTab}]
           /\ \A v \in ScreenWindows : ShowsOwn(v)'
           /\ current'[w] = t /\ screenPlace'[t] = w
           /\ \A u \in Screen!Tabs \ {t} : screenPlace'[u] = screenPlace[u]
<1>1. PICK c \in Screen!Left(t) : current' = [c EXCEPT ![w] = t]
  BY DEF Screen!Joins
<1>2. /\ c \in [ScreenWindows -> Screen!Tabs \cup {NoTab}]
      /\ \A v \in ScreenWindows :
             \/ c[v] \in Screen!In(v) \ {t}
             \/ c[v] = NoTab /\ Screen!In(v) \ {t} = {}
  BY LeftBar
<1>3. screenPlace' = [screenPlace EXCEPT ![t] = w]
  BY DEF Screen!Joins
<1>4. /\ screenPlace' \in [Screen!Tabs -> ScreenWindows \cup {Nowhere}]
      /\ screenPlace'[t] = w
      /\ \A u \in Screen!Tabs \ {t} : screenPlace'[u] = screenPlace[u]
  BY <1>3 DEF ScreenTypes
<1>5. /\ current' \in [ScreenWindows -> Screen!Tabs \cup {NoTab}]
      /\ current'[w] = t
      /\ \A v \in ScreenWindows \ {w} : current'[v] = c[v]
  BY <1>1, <1>2
<1>6. ASSUME NEW v \in ScreenWindows PROVE ShowsOwn(v)'
  <2>1. CASE v = w
    BY <1>4, <1>5, <2>1 DEF ShowsOwn, Screen!In
  <2>2. CASE v # w
    <3>1. Screen!In(v)' = Screen!In(v) \ {t}
      BY <1>4, <2>2 DEF Screen!In
    <3> QED
      BY <1>2, <1>5, <2>2, <3>1 DEF ShowsOwn
  <2> QED
    BY <2>1, <2>2
<1> QED
  BY <1>4, <1>5, <1>6

LEMMA LeavesBar ==
    ASSUME ScreenTypes, \A w \in ScreenWindows : ShowsOwn(w),
           NEW t \in Screen!Tabs, Screen!Leaves(t)
    PROVE  /\ screenPlace' \in [Screen!Tabs -> ScreenWindows \cup {Nowhere}]
           /\ current' \in [ScreenWindows -> Screen!Tabs \cup {NoTab}]
           /\ \A v \in ScreenWindows : ShowsOwn(v)'
           /\ screenPlace'[t] = Nowhere
           /\ \A u \in Screen!Tabs \ {t} : screenPlace'[u] = screenPlace[u]
<1>1. PICK c \in Screen!Left(t) : current' = c
  BY DEF Screen!Leaves
<1>2. /\ c \in [ScreenWindows -> Screen!Tabs \cup {NoTab}]
      /\ \A v \in ScreenWindows :
             \/ c[v] \in Screen!In(v) \ {t}
             \/ c[v] = NoTab /\ Screen!In(v) \ {t} = {}
  BY LeftBar
<1>3. screenPlace' = [screenPlace EXCEPT ![t] = Nowhere]
  BY DEF Screen!Leaves
<1>4. /\ screenPlace' \in [Screen!Tabs -> ScreenWindows \cup {Nowhere}]
      /\ screenPlace'[t] = Nowhere
      /\ \A u \in Screen!Tabs \ {t} : screenPlace'[u] = screenPlace[u]
  BY <1>3 DEF ScreenTypes
<1>5. ASSUME NEW v \in ScreenWindows PROVE ShowsOwn(v)'
  <2>1. Screen!In(v)' = Screen!In(v) \ {t}
    BY <1>4, ScreenAssumption DEF Screen!In
  <2> QED
    BY <1>1, <1>2, <2>1 DEF ShowsOwn
<1> QED
  BY <1>1, <1>2, <1>4, <1>5

\* What becomes of a window a tab has left.
LEMMA EmptiedWindow ==
    ASSUME Places, NEW t \in Screen!Tabs, Screen!IsOpen(t), NEW gone \in {"hidden", "abandoned"},
           screenStatus' = Screen!After(screenPlace[t], gone),
           screenPlace'[t] = Nowhere,
           \A u \in Screen!Tabs \ {t} : screenPlace'[u] = screenPlace[u]
    PROVE  /\ screenStatus' \in [ScreenWindows -> {"none", "shown", "hidden", "abandoned"}]
           /\ OnTheScreen'
           /\ \A w \in ScreenWindows : /\ screenStatus[w] # "none" => screenStatus'[w] # "none"
                                       /\ w \in Screen!Managed' => w \in Screen!Managed
           /\ \A f \in Screen!Shown :
                 ~(Screen!Emptied(screenPlace[t]) /\ f = screenPlace[t]) => f \in Screen!Shown'
<1>1. /\ ScreenTypes /\ OnTheScreen
      /\ screenPlace[t] \in ScreenWindows /\ screenStatus[screenPlace[t]] = "shown"
  BY DEF Places, OnTheScreen, Screen!Shown
<1>2. CASE UNCHANGED screenStatus
  BY <1>1, <1>2 DEF ScreenTypes, OnTheScreen, Screen!IsOpen, Screen!Shown, Screen!Managed
<1>3. CASE /\ Screen!Emptied(screenPlace[t])
           /\ screenStatus' = [screenStatus EXCEPT ![screenPlace[t]] = gone]
  <2>1. IsFiniteSet(Screen!In(screenPlace[t])) /\ t \in Screen!In(screenPlace[t])
    BY TabsFacts, FS_Subset DEF Screen!In
  <2>2. Cardinality(Screen!In(screenPlace[t])) = 1 /\ screenPlace[t] # Root
    BY <1>3 DEF Screen!Emptied, Screen!Cardinality, Cardinality
  <2>3. PICK x : Screen!In(screenPlace[t]) = {x}
    BY <2>1, <2>2, FS_Singleton
  <2>4. \A u \in Screen!Tabs \ {t} : screenPlace[u] # screenPlace[t]
    BY <2>1, <2>3 DEF Screen!In
  <2>5. /\ screenStatus' \in [ScreenWindows -> {"none", "shown", "hidden", "abandoned"}]
        /\ \A w \in ScreenWindows :
               screenStatus'[w] = IF w = screenPlace[t] THEN gone ELSE screenStatus[w]
    BY <1>1, <1>3 DEF ScreenTypes
  <2>6. OnTheScreen'
    BY <1>1, <2>2, <2>4, <2>5, TabsFacts DEF OnTheScreen, Screen!IsOpen, Screen!Shown
  <2> QED
    BY <1>1, <1>3, <2>5, <2>6 DEF Screen!Shown, Screen!Managed
<1> QED
  BY <1>2, <1>3 DEF Screen!After

-----------------------------------------------------------------------------
(* The screen: one step *)

\* A step that leaves the names alone, and brings nobody within reach.
LEMMA NamesKept ==
    ASSUME NamesOK, UNCHANGED <<text, entries, astray>>,
           \A s \in ScreenSessions : Reached(s)' => Reached(s)
    PROVE  NamesOK'
  BY DEF NamesOK

\* Saving a session names its tab, or marks it, and the tab it named instead.
LEMMA SaveNames ==
    ASSUME NamesOK, NameTypes, NEW s \in ScreenSessions, Screen!Save(s), Reached(s),
           \A r \in ScreenSessions : Reached(r)' => Reached(r)
    PROVE  NameTypes' /\ NamesOK'
<1>1. /\ entries' = [entries EXCEPT ![s] = title[s]] /\ UNCHANGED title
      /\ text' = IF Screen!Named(s) \in ScreenSessions
                 THEN [text EXCEPT ![Screen!Named(s)] = title[s]] ELSE text
      /\ astray' = IF s \notin RootTitled \/ current[Root] = s THEN astray \ {s}
                   ELSE astray \cup {s} \cup ({current[Root]} \cap ScreenSessions)
  BY DEF Screen!Save
<1>2. NameTypes'
  BY <1>1 DEF NameTypes
<1>3. ASSUME NEW r \in ScreenSessions, Reached(r)', entries'[r] # NoEntry, r \notin astray'
      PROVE  text'[r] = entries'[r]
  <2>1. CASE r = s
    <3>1. Screen!Named(s) = s
      BY <1>1, <1>3, <2>1 DEF Screen!Named
    <3> QED
      BY <1>1, <2>1, <3>1 DEF NameTypes
  <2>2. CASE r # s
    <3>1. entries'[r] = entries[r] /\ r \notin astray
      BY <1>1, <1>3, <2>2 DEF NameTypes
    <3>2. r # Screen!Named(s)
      BY <1>1, <1>3, <2>2 DEF Screen!Named
    <3>3. text'[r] = text[r]
      BY <1>1, <3>2 DEF NameTypes
    <3> QED
      BY <1>3, <3>1, <3>3 DEF NamesOK
  <2> QED
    BY <2>1, <2>2
<1> QED
  BY <1>2, <1>3 DEF NamesOK

LEMMA SelectStep ==
    ASSUME ScreenInvariant, NEW t \in Screen!Tabs, Screen!Select(t)
    PROVE  ScreenInvariant'
<1>1. /\ Places /\ ScreenTypes /\ NameTypes /\ OnTheScreen /\ KeptSomewhere /\ Leftovers
      /\ NamesOK /\ \A w \in ScreenWindows : ShowsOwn(w)
  BY DEF ScreenInvariant, Places
<1>2. /\ Screen!IsOpen(t) /\ screenPlace[t] \in Screen!Shown
      /\ current' = [current EXCEPT ![screenPlace[t]] = t] /\ front' = screenPlace[t]
      /\ UNCHANGED <<screenPlace, kinds, screenStatus, text, title, entries, astray, kept,
                     dangling, setting_widget_>>
  BY DEF Screen!Select, Screen!names
<1>3. ScreenTypes' /\ NameTypes'
  BY <1>1, <1>2 DEF ScreenTypes, NameTypes
<1>4. ASSUME NEW w \in ScreenWindows PROVE ShowsOwn(w)'
  <2>1. current'[w] = IF w = screenPlace[t] THEN t ELSE current[w]
    BY <1>1, <1>2 DEF ScreenTypes
  <2> QED
    BY <1>1, <1>2, <2>1 DEF ShowsOwn, Screen!In
<1>5. OnTheScreen' /\ KeptSomewhere' /\ Leftovers' /\ front' \in Screen!Shown'
  BY <1>1, <1>2 DEF OnTheScreen, KeptSomewhere, Leftovers, Screen!IsOpen, Screen!Shown
<1>6. \A s \in ScreenSessions : Reached(s)' => Reached(s)
  BY <1>2 DEF Reached, Screen!IsOpen, Screen!Managed
<1>7. NamesOK'
  BY <1>1, <1>2, <1>6, NamesKept
<1> QED
  BY <1>3, <1>4, <1>5, <1>7 DEF ScreenInvariant, Places

\* A tab joins a window on the screen, and its window comes to the front.
LEMMA JoinStep ==
    ASSUME ScreenInvariant, NEW t \in Screen!Tabs, NEW w \in ScreenWindows, Screen!Joins(t, w),
           kinds' \in [Pages -> {"own", "root", "blank"}],
           screenStatus' = [screenStatus EXCEPT ![w] = "shown"],
           front' = w, UNCHANGED kept,
           screenStatus[w] \in {"none", "shown"}
    PROVE  Places' /\ front' \in Screen!Shown'
<1>1. /\ Places /\ ScreenTypes /\ OnTheScreen /\ KeptSomewhere
      /\ \A v \in ScreenWindows : ShowsOwn(v)
  BY DEF ScreenInvariant, Places
<1>2. /\ screenPlace' \in [Screen!Tabs -> ScreenWindows \cup {Nowhere}]
      /\ current' \in [ScreenWindows -> Screen!Tabs \cup {NoTab}]
      /\ \A v \in ScreenWindows : ShowsOwn(v)'
      /\ screenPlace'[t] = w
      /\ \A u \in Screen!Tabs \ {t} : screenPlace'[u] = screenPlace[u]
  BY <1>1, JoinsBar
<1>3. /\ screenStatus' \in [ScreenWindows -> {"none", "shown", "hidden", "abandoned"}]
      /\ \A v \in ScreenWindows : screenStatus'[v] = IF v = w THEN "shown" ELSE screenStatus[v]
  BY <1>1 DEF ScreenTypes
<1>4. ScreenTypes'
  BY <1>1, <1>2, <1>3 DEF ScreenTypes
<1>5. OnTheScreen' /\ front' \in Screen!Shown'
  BY <1>1, <1>2, <1>3, TabsFacts DEF OnTheScreen, Screen!IsOpen, Screen!Shown
<1>6. KeptSomewhere'
  BY <1>1, <1>3 DEF KeptSomewhere
<1> QED
  BY <1>2, <1>4, <1>5, <1>6 DEF Places

LEMMA DragStep ==
    ASSUME ScreenInvariant, NEW t \in Screen!Tabs, NEW w \in ScreenWindows, Screen!Drag(t, w)
    PROVE  ScreenInvariant'
<1>1. /\ Places /\ ScreenTypes /\ NameTypes /\ KeptSomewhere /\ Leftovers /\ NamesOK
      /\ \A v \in ScreenWindows : ShowsOwn(v)
  BY DEF ScreenInvariant, Places
<1>2. /\ Screen!IsOpen(t) /\ Screen!Joins(t, w) /\ front' = w
      /\ screenStatus[w] \in {"none", "shown"}
      /\ screenStatus' = [screenStatus EXCEPT ![w] = "shown"]
      /\ UNCHANGED <<kinds, text, title, entries, astray, kept, dangling, setting_widget_>>
  BY DEF Screen!Drag, Screen!names
<1>3. Places' /\ front' \in Screen!Shown'
  <2>1. kinds' \in [Pages -> {"own", "root", "blank"}]
    BY <1>1, <1>2 DEF ScreenTypes
  <2> QED
    BY <1>2, <2>1, JoinStep
<1>4. /\ screenPlace'[t] = w
      /\ \A u \in Screen!Tabs \ {t} : screenPlace'[u] = screenPlace[u]
  BY <1>1, <1>2, JoinsBar
<1>5. \A u \in Screen!Tabs : Screen!IsOpen(u)' <=> Screen!IsOpen(u)
  BY <1>2, <1>4, TabsFacts DEF Screen!IsOpen
<1>6. NameTypes' /\ Leftovers'
  BY <1>1, <1>2, <1>5, TabsFacts DEF NameTypes, Leftovers
<1>7. ASSUME NEW s \in ScreenSessions, Reached(s)' PROVE Reached(s)
  <2>1. screenStatus'[kept[s]] # screenStatus[kept[s]] => kept[s] \notin ScreenWindows \/ kept[s] = w
    BY <1>1, <1>2 DEF ScreenTypes
  <2>2. CASE Screen!IsOpen(s)'
    BY <1>5, <2>2, TabsFacts DEF Reached
  <2>3. CASE kept'[s] \in Screen!Managed'
    <3>1. kept[s] \in ScreenWindows /\ screenStatus'[kept[s]] \in {"shown", "hidden"}
      BY <1>2, <2>3 DEF Screen!Managed
    <3>2. screenStatus[kept[s]] \in {"shown", "hidden"}
      BY <1>1, <1>2, <2>1, <3>1 DEF KeptSomewhere
    <3> QED
      BY <3>1, <3>2 DEF Reached, Screen!Managed
  <2> QED
    BY <1>7, <2>2, <2>3 DEF Reached
<1>8. NamesOK'
  BY <1>1, <1>2, <1>7, NamesKept
<1> QED
  BY <1>3, <1>6, <1>8 DEF ScreenInvariant

LEMMA AddPageStep ==
    ASSUME ScreenInvariant, NEW p \in Pages, NEW w \in ScreenWindows,
           NEW knd \in {"own", "root", "blank"}, Screen!addPage(p, knd, w)
    PROVE  ScreenInvariant'
<1>1. /\ Places /\ ScreenTypes /\ NameTypes /\ Leftovers /\ NamesOK
      /\ \A v \in ScreenWindows : ShowsOwn(v)
      /\ p \in Screen!Tabs
  BY TabsFacts DEF ScreenInvariant, Places
<1>2. /\ w \in Screen!Shown /\ Screen!Joins(p, w) /\ front' = w
      /\ kinds' = [kinds EXCEPT ![p] = knd]
      /\ UNCHANGED <<screenStatus, text, title, entries, astray, kept, dangling, setting_widget_>>
  BY DEF Screen!addPage, Screen!names
<1>3. Places' /\ front' \in Screen!Shown'
  <2>1. /\ kinds' \in [Pages -> {"own", "root", "blank"}]
        /\ screenStatus' = [screenStatus EXCEPT ![w] = "shown"]
        /\ screenStatus[w] \in {"none", "shown"}
    BY <1>1, <1>2 DEF ScreenTypes, Screen!Shown
  <2> QED
    BY <1>1, <1>2, <2>1, JoinStep
<1>4. \A u \in Screen!Tabs \ {p} : screenPlace'[u] = screenPlace[u]
  BY <1>1, <1>2, JoinsBar
<1>5. NameTypes' /\ Leftovers'
  BY <1>1, <1>2, <1>4, TabsFacts DEF NameTypes, Leftovers, Screen!IsOpen
<1>6. \A s \in ScreenSessions : Reached(s)' => Reached(s)
  BY <1>2, <1>4, TabsFacts DEF Reached, Screen!IsOpen, Screen!Managed
<1>7. NamesOK'
  BY <1>1, <1>2, <1>6, NamesKept
<1> QED
  BY <1>3, <1>5, <1>7 DEF ScreenInvariant

LEMMA SettingsStep ==
    ASSUME ScreenInvariant, Screen!showSettings
    PROVE  ScreenInvariant'
<1>1. /\ Places /\ ScreenTypes /\ NameTypes /\ OnTheScreen /\ KeptSomewhere /\ Leftovers
      /\ NamesOK /\ \A v \in ScreenWindows : ShowsOwn(v)
      /\ Screen!Settings \in Screen!Tabs /\ Root \in ScreenWindows
  BY TabsFacts DEF ScreenInvariant, Places
<1>2. /\ front' = Root
      /\ UNCHANGED <<kinds, screenStatus, text, title, entries, astray, kept, dangling>>
  BY DEF Screen!showSettings, Screen!names
<1>3. NameTypes'
  BY <1>1, <1>2 DEF NameTypes
<1>4. CASE setting_widget_ = "none"
  <2>1. Screen!Joins(Screen!Settings, Root) /\ setting_widget_' = "there"
    BY <1>4 DEF Screen!showSettings
  <2>2. Places' /\ front' \in Screen!Shown'
    <3>1. /\ kinds' \in [Pages -> {"own", "root", "blank"}]
          /\ screenStatus' = [screenStatus EXCEPT ![Root] = "shown"]
          /\ screenStatus[Root] \in {"none", "shown"}
      BY <1>1, <1>2 DEF ScreenTypes, OnTheScreen
    <3> QED
      BY <1>1, <1>2, <2>1, <3>1, JoinStep
  <2>3. \A u \in Screen!Tabs \ {Screen!Settings} : screenPlace'[u] = screenPlace[u]
    BY <1>1, <2>1, JoinsBar
  <2>4. Leftovers'
    BY <1>1, <1>2, <2>1, <2>3, TabsFacts DEF Leftovers, Screen!IsOpen
  <2>5. \A s \in ScreenSessions : Reached(s)' => Reached(s)
    BY <1>2, <2>3, TabsFacts DEF Reached, Screen!IsOpen, Screen!Managed
  <2>6. NamesOK'
    BY <1>1, <1>2, <2>5, NamesKept
  <2> QED
    BY <1>3, <2>2, <2>4, <2>6 DEF ScreenInvariant
<1>5. CASE setting_widget_ # "none"
  <2>1. /\ current' = IF screenPlace[Screen!Settings] = Root
                      THEN [current EXCEPT ![Root] = Screen!Settings] ELSE current
        /\ UNCHANGED <<screenPlace, setting_widget_>>
    BY <1>5 DEF Screen!showSettings
  <2>2. ScreenTypes'
    BY <1>1, <1>2, <2>1 DEF ScreenTypes
  <2>3. ASSUME NEW w \in ScreenWindows PROVE ShowsOwn(w)'
    <3>1. \/ current'[w] = current[w]
          \/ current'[w] = Screen!Settings /\ screenPlace[Screen!Settings] = w
      BY <1>1, <2>1 DEF ScreenTypes
    <3> QED
      BY <1>1, <2>1, <3>1 DEF ShowsOwn, Screen!In
  <2>4. OnTheScreen' /\ KeptSomewhere' /\ Leftovers' /\ front' \in Screen!Shown'
    BY <1>1, <1>2, <2>1 DEF OnTheScreen, KeptSomewhere, Leftovers, Screen!IsOpen, Screen!Shown
  <2>5. \A s \in ScreenSessions : Reached(s)' => Reached(s)
    BY <1>2, <2>1 DEF Reached, Screen!IsOpen, Screen!Managed
  <2>6. NamesOK'
    BY <1>1, <1>2, <2>5, NamesKept
  <2> QED
    BY <1>3, <2>2, <2>3, <2>4, <2>6 DEF ScreenInvariant, Places
<1> QED
  BY <1>4, <1>5

LEMMA EditTitleStep ==
    ASSUME ScreenInvariant, NEW s \in ScreenSessions, NEW name \in Titles,
           Screen!EditTitle(s, name)
    PROVE  ScreenInvariant'
<1>1. /\ title' = [title EXCEPT ![s] = name]
      /\ UNCHANGED <<screenPlace, kinds, current, front, screenStatus, text, entries, astray,
                     kept, dangling, setting_widget_>>
  BY DEF Screen!EditTitle, Screen!places
<1>2. NameTypes'
  BY <1>1 DEF ScreenInvariant, NameTypes, Names
<1>3. Places' /\ front' \in Screen!Shown' /\ Leftovers'
  BY <1>1 DEF ScreenInvariant, Places, ScreenTypes, ShowsOwn, Screen!In, OnTheScreen,
     KeptSomewhere, Leftovers, Screen!IsOpen, Screen!Shown
<1>4. NamesOK'
  BY <1>1 DEF ScreenInvariant, NamesOK, Reached, Screen!IsOpen, Screen!Managed
<1> QED
  BY <1>2, <1>3, <1>4 DEF ScreenInvariant

LEMMA SaveStep ==
    ASSUME ScreenInvariant, NEW s \in ScreenSessions, Screen!saveSetting(s)
    PROVE  ScreenInvariant'
<1>1. /\ Screen!IsOpen(s) /\ Screen!Save(s)
      /\ UNCHANGED <<screenPlace, kinds, current, front, screenStatus, kept, dangling,
                     setting_widget_>>
  BY DEF Screen!saveSetting, Screen!Save, Screen!places
<1>2. Places' /\ front' \in Screen!Shown' /\ Leftovers'
  BY <1>1 DEF ScreenInvariant, Places, ScreenTypes, ShowsOwn, Screen!In, OnTheScreen,
     KeptSomewhere, Leftovers, Screen!IsOpen, Screen!Shown
<1>3. Reached(s) /\ \A r \in ScreenSessions : Reached(r)' => Reached(r)
  BY <1>1 DEF Reached, Screen!IsOpen, Screen!Managed
<1>4. NameTypes' /\ NamesOK'
  BY <1>1, <1>3, SaveNames DEF ScreenInvariant
<1> QED
  BY <1>2, <1>4 DEF ScreenInvariant

\* Somebody else may have been brought to the front meanwhile.
LEMMA CloseSessionStep ==
    ASSUME ScreenInvariant, NEW s \in ScreenSessions, Screen!handleTabClose(s)
    PROVE  ScreenInvariant'
<1>1. /\ Places /\ ScreenTypes /\ NameTypes /\ OnTheScreen /\ KeptSomewhere /\ Leftovers
      /\ NamesOK /\ \A v \in ScreenWindows : ShowsOwn(v)
      /\ s \in Screen!Tabs
  BY TabsFacts DEF ScreenInvariant, Places
<1>2. /\ Screen!IsOpen(s) /\ screenPlace[s] \in Screen!Shown
      /\ Screen!Save(s) \/ UNCHANGED <<text, title, entries, astray>>
      /\ Screen!Leaves(s) /\ Screen!Forward(screenPlace[s])
      /\ UNCHANGED <<kinds, dangling, setting_widget_>>
  BY DEF Screen!handleTabClose, Screen!Save, Screen!names
<1>3. PICK gone \in {"hidden", "abandoned"} :
          /\ screenStatus' = Screen!After(screenPlace[s], gone)
          /\ \/ kept' = [kept EXCEPT ![s] = screenPlace[s]]
             \/ kept' = kept
  BY DEF Screen!handleTabClose
<1>4. /\ screenPlace' \in [Screen!Tabs -> ScreenWindows \cup {Nowhere}]
      /\ current' \in [ScreenWindows -> Screen!Tabs \cup {NoTab}]
      /\ \A v \in ScreenWindows : ShowsOwn(v)'
      /\ screenPlace'[s] = Nowhere
      /\ \A u \in Screen!Tabs \ {s} : screenPlace'[u] = screenPlace[u]
  BY <1>1, <1>2, LeavesBar
<1>5. /\ screenStatus' \in [ScreenWindows -> {"none", "shown", "hidden", "abandoned"}]
      /\ OnTheScreen'
      /\ \A w \in ScreenWindows : /\ screenStatus[w] # "none" => screenStatus'[w] # "none"
                                  /\ w \in Screen!Managed' => w \in Screen!Managed
      /\ \A f \in Screen!Shown :
             ~(Screen!Emptied(screenPlace[s]) /\ f = screenPlace[s]) => f \in Screen!Shown'
  BY <1>1, <1>2, <1>3, <1>4, EmptiedWindow
<1>6. screenPlace[s] \in ScreenWindows /\ screenStatus[screenPlace[s]] = "shown"
  BY <1>2 DEF Screen!Shown
<1>7. ScreenTypes'
  BY <1>1, <1>2, <1>3, <1>4, <1>5, <1>6 DEF ScreenTypes
<1>8. KeptSomewhere'
  BY <1>1, <1>3, <1>5, <1>6 DEF ScreenTypes, KeptSomewhere
<1>9. front' \in Screen!Shown'
  <2>1. front' \in IF Screen!Emptied(screenPlace[s]) THEN Screen!Shown \ {screenPlace[s]}
                   ELSE {screenPlace[s]}
    BY <1>2 DEF Screen!Forward
  <2> QED
    BY <1>2, <1>5, <2>1
<1>10. Leftovers'
  BY <1>1, <1>2, <1>4, TabsFacts DEF Leftovers, Screen!IsOpen
<1>11. Reached(s)
  BY <1>2 DEF Reached
<1>12. ASSUME NEW r \in ScreenSessions, Reached(r)' PROVE Reached(r)
  <2>1. CASE r = s
    BY <1>11, <2>1
  <2>2. CASE r # s
    <3>1. kept'[r] = kept[r] /\ screenPlace'[r] = screenPlace[r]
      BY <1>1, <1>3, <1>4, <2>2, TabsFacts DEF ScreenTypes
    <3>2. kept[r] \in Screen!Managed' => kept[r] \in Screen!Managed
      BY <1>5 DEF Screen!Managed
    <3> QED
      BY <1>12, <3>1, <3>2 DEF Reached, Screen!IsOpen
  <2> QED
    BY <2>1, <2>2
<1>13. NameTypes' /\ NamesOK'
  <2>1. CASE Screen!Save(s)
    BY <1>1, <1>11, <1>12, <2>1, SaveNames
  <2>2. CASE UNCHANGED <<text, title, entries, astray>>
    BY <1>1, <1>12, <2>2, NamesKept DEF NameTypes
  <2> QED
    BY <1>2, <2>1, <2>2
<1> QED
  BY <1>4, <1>5, <1>7, <1>8, <1>9, <1>10, <1>13 DEF ScreenInvariant, Places

LEMMA ClosePageStep ==
    ASSUME ScreenInvariant, NEW t \in Pages \cup {Screen!Settings},
           Screen!handleTabCloseRequested(t)
    PROVE  ScreenInvariant'
<1>1. /\ Places /\ ScreenTypes /\ NameTypes /\ OnTheScreen /\ KeptSomewhere /\ Leftovers
      /\ NamesOK /\ \A v \in ScreenWindows : ShowsOwn(v)
      /\ t \in Screen!Tabs
  BY TabsFacts DEF ScreenInvariant, Places
<1>2. /\ Screen!IsOpen(t) /\ screenPlace[t] \in Screen!Shown
      /\ Screen!Leaves(t) /\ front' = screenPlace[t]
      /\ setting_widget_' = IF t = Screen!Settings THEN "deleted" ELSE setting_widget_
      /\ UNCHANGED <<kinds, screenStatus, text, title, entries, astray, kept, dangling>>
  BY DEF Screen!handleTabCloseRequested, Screen!names
<1>3. /\ screenPlace' \in [Screen!Tabs -> ScreenWindows \cup {Nowhere}]
      /\ current' \in [ScreenWindows -> Screen!Tabs \cup {NoTab}]
      /\ \A v \in ScreenWindows : ShowsOwn(v)'
      /\ screenPlace'[t] = Nowhere
      /\ \A u \in Screen!Tabs \ {t} : screenPlace'[u] = screenPlace[u]
  BY <1>1, <1>2, LeavesBar
<1>4. ScreenTypes' /\ NameTypes'
  BY <1>1, <1>2, <1>3 DEF ScreenTypes, NameTypes
<1>5. OnTheScreen' /\ KeptSomewhere' /\ front' \in Screen!Shown'
  BY <1>1, <1>2, <1>3 DEF OnTheScreen, KeptSomewhere, Screen!IsOpen, Screen!Shown
<1>6. Leftovers'
  BY <1>1, <1>2, <1>3, TabsFacts DEF Leftovers, Screen!IsOpen
<1>7. \A s \in ScreenSessions : Reached(s)' => Reached(s)
  BY <1>2, <1>3, TabsFacts DEF Reached, Screen!IsOpen, Screen!Managed
<1>8. NamesOK'
  BY <1>1, <1>2, <1>7, NamesKept
<1> QED
  BY <1>3, <1>4, <1>5, <1>6, <1>8 DEF ScreenInvariant, Places

LEMMA DeleteEntryStep ==
    ASSUME ScreenInvariant, NEW s \in ScreenSessions, Screen!uuidsChanged(s)
    PROVE  ScreenInvariant'
<1>1. /\ Places /\ ScreenTypes /\ NameTypes /\ OnTheScreen /\ KeptSomewhere /\ Leftovers
      /\ NamesOK /\ \A v \in ScreenWindows : ShowsOwn(v)
      /\ s \in Screen!Tabs
  BY TabsFacts DEF ScreenInvariant, Places
<1>2. /\ entries' = [entries EXCEPT ![s] = NoEntry] /\ front' = Root
      /\ UNCHANGED <<kinds, text, title, astray, kept, dangling, setting_widget_>>
  BY DEF Screen!uuidsChanged
<1>3. NameTypes'
  BY <1>1, <1>2 DEF NameTypes
<1>4. /\ Places'
      /\ \A u \in Screen!Tabs : Screen!IsOpen(u)' => Screen!IsOpen(u)
      /\ \A w \in ScreenWindows : w \in Screen!Managed' => w \in Screen!Managed
  <2>1. CASE Screen!IsOpen(s)
    <3>1. Screen!Leaves(s) /\ screenStatus' = Screen!After(screenPlace[s], "abandoned")
      BY <2>1 DEF Screen!uuidsChanged
    <3>2. /\ screenPlace' \in [Screen!Tabs -> ScreenWindows \cup {Nowhere}]
          /\ current' \in [ScreenWindows -> Screen!Tabs \cup {NoTab}]
          /\ \A v \in ScreenWindows : ShowsOwn(v)'
          /\ screenPlace'[s] = Nowhere
          /\ \A u \in Screen!Tabs \ {s} : screenPlace'[u] = screenPlace[u]
      BY <1>1, <3>1, LeavesBar
    <3>3. /\ screenStatus' \in [ScreenWindows -> {"none", "shown", "hidden", "abandoned"}]
          /\ OnTheScreen'
          /\ \A w \in ScreenWindows : /\ screenStatus[w] # "none" => screenStatus'[w] # "none"
                                      /\ w \in Screen!Managed' => w \in Screen!Managed
      BY <1>1, <2>1, <3>1, <3>2, EmptiedWindow
    <3>4. ScreenTypes' /\ KeptSomewhere'
      BY <1>1, <1>2, <3>2, <3>3 DEF ScreenTypes, KeptSomewhere
    <3> QED
      BY <2>1, <3>2, <3>3, <3>4 DEF Places, Screen!IsOpen
  <2>2. CASE ~Screen!IsOpen(s)
    <3>1. UNCHANGED <<screenPlace, current, screenStatus>>
      BY <2>2 DEF Screen!uuidsChanged
    <3> QED
      BY <1>1, <1>2, <3>1 DEF Places, ScreenTypes, ShowsOwn, Screen!In, OnTheScreen,
         KeptSomewhere, Screen!IsOpen, Screen!Shown, Screen!Managed
  <2> QED
    BY <2>1, <2>2
<1>5. front' \in Screen!Shown'
  BY <1>2, <1>4, TabsFacts DEF Places, OnTheScreen, Screen!Shown
<1>6. Leftovers'
  BY <1>1, <1>2, <1>4, TabsFacts DEF Leftovers
<1>7. \A r \in ScreenSessions : Reached(r)' => Reached(r)
  BY <1>2, <1>4, TabsFacts DEF Reached, Screen!Managed
<1>8. NamesOK'
  BY <1>1, <1>2, <1>7 DEF NamesOK, NameTypes
<1> QED
  BY <1>3, <1>4, <1>5, <1>6, <1>8 DEF ScreenInvariant

LEMMA ChooseStep ==
    ASSUME ScreenInvariant, NEW p \in Pages, NEW s \in ScreenSessions, Screen!choose(p, s)
    PROVE  ScreenInvariant'
<1>1. /\ Places /\ ScreenTypes /\ NameTypes /\ OnTheScreen /\ KeptSomewhere /\ Leftovers
      /\ NamesOK /\ \A v \in ScreenWindows : ShowsOwn(v)
      /\ s \in Screen!Tabs /\ p \in Screen!Tabs
  BY TabsFacts DEF ScreenInvariant, Places
<1>2. PICK t : /\ t = Screen!Replaced(p) /\ t # NoTab
               /\ Screen!switchByCreateWidget(t, s)
  BY DEF Screen!choose
<1>3. /\ Screen!Offers(p) /\ front' = screenPlace[p] /\ screenPlace[p] \in Screen!Shown
      /\ current[screenPlace[p]] = p
  BY DEF Screen!choose, Screen!Offers
<1>4. t \in Screen!Tabs /\ screenPlace[t] \in ScreenWindows /\ current[screenPlace[t]] = t
  <2>1. CASE Screen!Replaced(p) = p
    BY <1>1, <1>2, <1>3, <2>1 DEF Screen!Shown
  <2>2. CASE Screen!Replaced(p) = current[Root]
    BY <1>1, <1>2, <2>2, TabsFacts DEF ShowsOwn, Screen!In
  <2> QED
    BY <2>1, <2>2 DEF Screen!Replaced
<1>5. /\ ~Screen!IsOpen(s) /\ entries[s] = NoEntry
      /\ screenPlace' = [screenPlace EXCEPT ![t] = Nowhere, ![s] = screenPlace[t]]
      /\ current' = [current EXCEPT ![screenPlace[t]] = s]
      /\ text' = [text EXCEPT ![s] = Untitled] /\ title' = [title EXCEPT ![s] = Untitled]
      /\ dangling' = IF t \in ScreenSessions THEN dangling \cup {t} ELSE dangling
      /\ setting_widget_' = IF t = Screen!Settings THEN "deleted" ELSE setting_widget_
      /\ astray' = astray \ {s} /\ s \notin dangling
      /\ UNCHANGED <<kinds, screenStatus, entries, kept>>
  BY <1>2 DEF Screen!switchByCreateWidget
<1>6. s # t
  BY <1>4, <1>5, TabsFacts DEF Screen!IsOpen
<1>7. \A u \in Screen!Tabs : screenPlace'[u] = IF u = s THEN screenPlace[t]
                                               ELSE IF u = t THEN Nowhere ELSE screenPlace[u]
  BY <1>1, <1>4, <1>5, <1>6 DEF ScreenTypes
<1>8. ScreenTypes'
  <2>1. screenPlace' \in [Screen!Tabs -> ScreenWindows \cup {Nowhere}]
    BY <1>1, <1>4, <1>5 DEF ScreenTypes
  <2> QED
    BY <1>1, <1>5, <2>1 DEF ScreenTypes
<1>9. NameTypes'
  BY <1>1, <1>5 DEF NameTypes, Names
<1>10. ASSUME NEW v \in ScreenWindows PROVE ShowsOwn(v)'
  <2>1. CASE v = screenPlace[t]
    <3>1. current'[v] = s
      BY <1>1, <1>5, <2>1 DEF ScreenTypes
    <3> QED
      BY <1>1, <1>7, <2>1, <3>1 DEF ShowsOwn, Screen!In
  <2>2. CASE v # screenPlace[t]
    <3>1. current'[v] = current[v]
      BY <1>1, <1>5 , <2>2 DEF ScreenTypes
    <3>2. s \notin Screen!In(v) /\ t \notin Screen!In(v)
      BY <1>5, <2>2, TabsFacts DEF Screen!In, Screen!IsOpen
    <3>3. Screen!In(v)' = Screen!In(v)
      BY <1>7, <2>2, <3>2, TabsFacts DEF Screen!In
    <3> QED
      BY <1>1, <3>1, <3>3 DEF ShowsOwn
  <2> QED
    BY <2>1, <2>2
<1>11. OnTheScreen' /\ KeptSomewhere' /\ front' \in Screen!Shown'
  <2>1. Screen!Shown' = Screen!Shown
    BY <1>5 DEF Screen!Shown
  <2>2. screenPlace[t] \in Screen!Shown
    BY <1>1, <1>4, TabsFacts DEF OnTheScreen, Screen!IsOpen
  <2>4. ASSUME NEW u \in Screen!Tabs, screenPlace'[u] # Nowhere
        PROVE  screenPlace'[u] \in Screen!Shown
    BY <1>1, <1>7, <2>2, <2>4 DEF OnTheScreen, Screen!IsOpen
  <2>3. OnTheScreen'
    BY <1>1, <1>5, <2>1, <2>4 DEF OnTheScreen, Screen!IsOpen
  <2> QED
    BY <1>1, <1>3, <1>5, <2>1, <2>3 DEF KeptSomewhere
<1>12. Leftovers'
  <2>1. \A u \in Screen!Tabs \ {s} : Screen!IsOpen(u)' <=> Screen!IsOpen(u) /\ u # t
    BY <1>7 DEF Screen!IsOpen
  <2>2. ASSUME NEW r \in ScreenSessions, r \in dangling', Screen!IsOpen(r)' PROVE FALSE
    <3>1. r # s
      BY <1>5, <1>6, <2>2
    <3>2. r # t /\ Screen!IsOpen(r)
      BY <2>1, <2>2, <3>1, TabsFacts
    <3> QED
      BY <1>1, <1>5, <2>2, <3>2 DEF Leftovers
  <2>3. setting_widget_' # "there" => ~Screen!IsOpen(Screen!Settings)'
    <3>1. Screen!Settings \in Screen!Tabs \ {s}
      BY TabsFacts
    <3> QED
      BY <1>1, <1>5, <2>1, <3>1 DEF Leftovers
  <2> QED
    BY <2>2, <2>3 DEF Leftovers
<1>13. NamesOK'
  <2>1. ASSUME NEW r \in ScreenSessions \ {s}, Reached(r)' PROVE Reached(r)
    BY <1>5, <1>7, <2>1, TabsFacts DEF Reached, Screen!IsOpen, Screen!Managed
  <2>2. \A r \in ScreenSessions \ {s} : text'[r] = text[r]
    BY <1>1, <1>5 DEF NameTypes
  <2> QED
    BY <1>1, <1>5, <2>1, <2>2 DEF NamesOK
<1> QED
  BY <1>8, <1>9, <1>10, <1>11, <1>12, <1>13 DEF ScreenInvariant, Places

LEMMA WindowGoes ==
    ASSUME ScreenInvariant, NEW w \in ScreenWindows, Screen!closeEvent(w)
    PROVE  ScreenInvariant'
<1>1. /\ Places /\ ScreenTypes /\ NameTypes /\ OnTheScreen /\ KeptSomewhere /\ Leftovers
      /\ NamesOK /\ (\A v \in ScreenWindows : ShowsOwn(v))
      /\ Root \in ScreenWindows /\ Nowhere \notin ScreenWindows /\ NoTab \notin Screen!Tabs
  BY TabsFacts DEF ScreenInvariant, Places
<1>2. /\ w # Root
      /\ screenPlace' = [t \in Screen!Tabs |-> IF screenPlace[t] = w THEN Root ELSE screenPlace[t]]
      /\ screenStatus' = [screenStatus EXCEPT ![w] = "none"] /\ front' = Root
      /\ kept' = [s \in ScreenSessions |-> IF kept[s] = w THEN Nowhere ELSE kept[s]]
      /\ UNCHANGED <<kinds, text, title, entries, astray, dangling, setting_widget_>>
  BY DEF Screen!closeEvent, Screen!names
<1>3. PICK c \in IF current[Root] # NoTab \/ Screen!In(w) = {} THEN {current[Root]}
                 ELSE Screen!In(w) :
          current' = [current EXCEPT ![w] = NoTab, ![Root] = c]
  BY DEF Screen!closeEvent
<1>4. /\ current'[w] = NoTab /\ current'[Root] = c
      /\ \A v \in ScreenWindows \ {w, Root} : current'[v] = current[v]
  BY <1>1, <1>2, <1>3 DEF ScreenTypes
<1>5. \A v \in ScreenWindows : screenStatus'[v] = IF v = w THEN "none" ELSE screenStatus[v]
  BY <1>1, <1>2 DEF ScreenTypes
<1>6. /\ Screen!In(w)' = {} /\ Screen!In(Root)' = Screen!In(Root) \cup Screen!In(w)
      /\ \A v \in ScreenWindows \ {w, Root} : Screen!In(v)' = Screen!In(v)
  BY <1>1, <1>2 DEF Screen!In
<1>7. c \in Screen!In(Root)' \/ (c = NoTab /\ Screen!In(Root)' = {})
  BY <1>1, <1>3, <1>6 DEF ShowsOwn
<1>8. ASSUME NEW v \in ScreenWindows PROVE ShowsOwn(v)'
  BY <1>1, <1>4, <1>6, <1>7 DEF ShowsOwn
<1>9. ScreenTypes'
  <2>1. c \in Screen!Tabs \cup {NoTab}
    BY <1>1, <1>3 DEF ScreenTypes, Screen!In
  <2>2. current' \in [ScreenWindows -> Screen!Tabs \cup {NoTab}]
    BY <1>1, <1>3, <2>1 DEF ScreenTypes
  <2>3. screenPlace' \in [Screen!Tabs -> ScreenWindows \cup {Nowhere}]
    BY <1>1, <1>2 DEF ScreenTypes
  <2>4. kept' \in [ScreenSessions -> ScreenWindows \cup {Nowhere}]
    BY <1>1, <1>2 DEF ScreenTypes
  <2> QED
    BY <1>1, <1>2, <2>2, <2>3, <2>4 DEF ScreenTypes
<1>10. NameTypes'
  BY <1>1, <1>2 DEF NameTypes
<1>11. \A t \in Screen!Tabs : Screen!IsOpen(t)' <=> Screen!IsOpen(t)
  BY <1>1, <1>2 DEF Screen!IsOpen
<1>12. OnTheScreen' /\ KeptSomewhere' /\ front' \in Screen!Shown'
  BY <1>1, <1>2, <1>5, <1>11 DEF OnTheScreen, KeptSomewhere, Screen!Shown
<1>13. Leftovers'
  BY <1>1, <1>2, <1>11, TabsFacts DEF Leftovers
<1>14. ASSUME NEW r \in ScreenSessions, Reached(r)' PROVE Reached(r)
  <2>1. CASE Screen!IsOpen(r)'
    BY <1>11, <2>1, TabsFacts DEF Reached
  <2>2. CASE kept'[r] \in Screen!Managed'
    BY <1>1, <1>2, <1>5, <2>2 DEF Reached, Screen!Managed
  <2> QED
    BY <1>14, <2>1, <2>2 DEF Reached
<1>15. NamesOK'
  BY <1>1, <1>2, <1>14, NamesKept
<1> QED
  BY <1>8, <1>9, <1>10, <1>12, <1>13, <1>15 DEF ScreenInvariant, Places

\* A click on an entry: what is true afterwards, and where it leads.
LEMMA EntryStep ==
    ASSUME ScreenInvariant, NEW s \in ScreenSessions, Screen!switchToOtherTabPage(s)
    PROVE  /\ ScreenInvariant'
           /\ s \notin dangling =>
                 \E w \in ScreenWindows :
                     /\ screenPlace'[s] = w /\ current'[w] = s
                     /\ front' = w /\ screenStatus'[w] = "shown"
<1>1. /\ Places /\ ScreenTypes /\ NameTypes /\ OnTheScreen /\ KeptSomewhere /\ Leftovers
      /\ NamesOK /\ (\A v \in ScreenWindows : ShowsOwn(v))
      /\ s \in Screen!Tabs /\ Root \in ScreenWindows /\ Nowhere \notin ScreenWindows
  BY TabsFacts DEF ScreenInvariant, Places
<1>2. entries[s] # NoEntry /\ UNCHANGED <<kinds, dangling, setting_widget_>>
  BY DEF Screen!switchToOtherTabPage
<1>3. CASE Screen!IsOpen(s) \/ s \in dangling
  <2>1. /\ current' = IF Screen!IsOpen(s) THEN [current EXCEPT ![screenPlace[s]] = s] ELSE current
        /\ front' = IF Screen!IsOpen(s) THEN screenPlace[s] ELSE Root
        /\ UNCHANGED <<screenPlace, screenStatus, text, title, entries, astray, kept>>
    BY <1>3 DEF Screen!switchToOtherTabPage, Screen!switchByPage, Screen!names
  <2>2. Screen!IsOpen(s) => screenPlace[s] \in ScreenWindows /\ screenStatus[screenPlace[s]] = "shown"
    BY <1>1 DEF OnTheScreen, Screen!Shown
  <2>3. ScreenTypes' /\ NameTypes'
    BY <1>1, <1>2, <2>1 DEF ScreenTypes, NameTypes
  <2>4. ASSUME NEW v \in ScreenWindows PROVE ShowsOwn(v)'
    <3>1. current'[v] = current[v] \/ (current'[v] = s /\ screenPlace[s] = v)
      BY <1>1, <2>1, <2>2 DEF ScreenTypes
    <3> QED
      BY <1>1, <2>1, <3>1 DEF ShowsOwn, Screen!In
  <2>5. OnTheScreen' /\ KeptSomewhere' /\ Leftovers' /\ front' \in Screen!Shown'
    BY <1>1, <1>2, <2>1, <2>2 DEF OnTheScreen, KeptSomewhere, Leftovers, Screen!IsOpen, Screen!Shown
  <2>6. \A r \in ScreenSessions : Reached(r)' => Reached(r)
    BY <2>1 DEF Reached, Screen!IsOpen, Screen!Managed
  <2>7. NamesOK'
    BY <1>1, <2>1, <2>6, NamesKept
  <2>8. Screen!IsOpen(s) => /\ screenPlace'[s] = screenPlace[s] /\ current'[screenPlace[s]] = s
                           /\ front' = screenPlace[s] /\ screenStatus'[screenPlace[s]] = "shown"
    BY <1>1, <2>1, <2>2 DEF ScreenTypes
  <2> QED
    BY <1>3, <2>2, <2>3, <2>4, <2>5, <2>7, <2>8 DEF ScreenInvariant, Places
<1>4. CASE ~Screen!IsOpen(s) /\ s \notin dangling /\ kept[s] \in Screen!Managed
  <2>1. PICK w \in ScreenWindows : w = kept[s]
    BY <1>4 DEF Screen!Managed
  <2>2. /\ Screen!Joins(s, w) /\ front' = w
        /\ screenStatus' = [screenStatus EXCEPT ![w] = "shown"]
        /\ kept' = [kept EXCEPT ![s] = Nowhere]
        /\ UNCHANGED <<text, title, entries, astray>>
    BY <1>4, <2>1 DEF Screen!switchToOtherTabPage, Screen!restoreClosedTabFromMem, Screen!names
  <2>3. /\ screenPlace' \in [Screen!Tabs -> ScreenWindows \cup {Nowhere}]
        /\ current' \in [ScreenWindows -> Screen!Tabs \cup {NoTab}]
        /\ \A v \in ScreenWindows : ShowsOwn(v)'
        /\ current'[w] = s /\ screenPlace'[s] = w
        /\ \A u \in Screen!Tabs \ {s} : screenPlace'[u] = screenPlace[u]
    BY <1>1, <2>2, JoinsBar
  <2>4. \A v \in ScreenWindows : screenStatus'[v] = IF v = w THEN "shown" ELSE screenStatus[v]
    BY <1>1, <2>2 DEF ScreenTypes
  <2>5. ScreenTypes' /\ NameTypes'
    BY <1>1, <1>2, <2>2, <2>3 DEF ScreenTypes, NameTypes
  <2>6. OnTheScreen' /\ KeptSomewhere' /\ front' \in Screen!Shown'
    <3>1. \A u \in Screen!Tabs : Screen!IsOpen(u)' => screenPlace'[u] \in Screen!Shown'
      BY <1>1, <2>3, <2>4 DEF OnTheScreen, Screen!IsOpen, Screen!Shown
    <3>2. screenStatus'[Root] = "shown" /\ front' \in Screen!Shown'
      BY <1>1, <2>2, <2>4 DEF OnTheScreen, Screen!Shown
    <3>3. \A r \in ScreenSessions : kept'[r] \in ScreenWindows => kept'[r] = kept[r]
      BY <1>1, <2>2 DEF ScreenTypes
    <3>4. KeptSomewhere'
      BY <1>1, <2>4, <3>3 DEF KeptSomewhere
    <3> QED
      BY <3>1, <3>2, <3>4 DEF OnTheScreen
  <2>7. Leftovers'
    BY <1>1, <1>2, <1>4, <2>3, TabsFacts DEF Leftovers, Screen!IsOpen
  <2>8. screenStatus[w] \in {"shown", "hidden"}
    BY <1>4, <2>1 DEF Screen!Managed
  <2>9. ASSUME NEW r \in ScreenSessions, Reached(r)' PROVE Reached(r)
    <3>1. CASE r = s
      BY <1>4, <3>1 DEF Reached
    <3>2. CASE r # s
      <4>1. kept'[r] = kept[r] /\ screenPlace'[r] = screenPlace[r]
        BY <1>1, <2>2, <2>3, <3>2, TabsFacts DEF ScreenTypes
      <4>2. kept[r] \in Screen!Managed' => kept[r] \in Screen!Managed
        BY <2>4, <2>8 DEF Screen!Managed
      <4> QED
        BY <2>9, <4>1, <4>2 DEF Reached, Screen!IsOpen
    <3> QED
      BY <3>1, <3>2
  <2>10. NamesOK'
    BY <1>1, <2>2, <2>9, NamesKept
  <2> QED
    BY <2>2, <2>3, <2>4, <2>5, <2>6, <2>7, <2>10 DEF ScreenInvariant, Places
<1>5. CASE ~Screen!IsOpen(s) /\ s \notin dangling /\ kept[s] \notin Screen!Managed
  <2>1. /\ Screen!Joins(s, Root) /\ front' = Root
        /\ text' = [text EXCEPT ![s] = entries[s]] /\ title' = [title EXCEPT ![s] = entries[s]]
        /\ astray' = astray \ {s}
        /\ UNCHANGED <<screenStatus, entries, kept>>
    BY <1>5 DEF Screen!switchToOtherTabPage
  <2>2. /\ screenPlace' \in [Screen!Tabs -> ScreenWindows \cup {Nowhere}]
        /\ current' \in [ScreenWindows -> Screen!Tabs \cup {NoTab}]
        /\ \A v \in ScreenWindows : ShowsOwn(v)'
        /\ current'[Root] = s /\ screenPlace'[s] = Root
        /\ \A u \in Screen!Tabs \ {s} : screenPlace'[u] = screenPlace[u]
    BY <1>1, <2>1, JoinsBar
  <2>3. ScreenTypes' /\ NameTypes'
    BY <1>1, <1>2, <2>1, <2>2 DEF ScreenTypes, NameTypes
  <2>4. OnTheScreen' /\ KeptSomewhere' /\ front' \in Screen!Shown'
    BY <1>1, <2>1, <2>2 DEF OnTheScreen, KeptSomewhere, Screen!IsOpen, Screen!Shown
  <2>5. Leftovers'
    BY <1>1, <1>2, <1>5, <2>2, TabsFacts DEF Leftovers, Screen!IsOpen
  <2>6. \A r \in ScreenSessions \ {s} : text'[r] = text[r] /\ (Reached(r)' => Reached(r))
    BY <1>1, <2>1, <2>2, TabsFacts DEF NameTypes, Reached, Screen!IsOpen, Screen!Managed
  <2>7. text'[s] = entries[s]
    BY <1>1, <2>1 DEF NameTypes
  <2>8. NamesOK'
    BY <1>1, <2>1, <2>6, <2>7 DEF NamesOK
  <2>9. screenStatus'[Root] = "shown"
    BY <1>1, <2>1 DEF OnTheScreen
  <2> QED
    BY <1>1, <2>1, <2>2, <2>3, <2>4, <2>5, <2>8, <2>9 DEF ScreenInvariant, Places
<1> QED
  BY <1>3, <1>4, <1>5

-----------------------------------------------------------------------------
(* The screen: the theorems *)

LEMMA ScreenStart == WindowInit => ScreenInvariant
<1> SUFFICES ASSUME WindowInit PROVE ScreenInvariant
  OBVIOUS
<1>1. Screen!Init
  BY DEF WindowInit
<1>2. PICK p \in Pages :
          screenPlace = [t \in Screen!Tabs |-> IF t = p THEN Root ELSE Nowhere]
  BY <1>1 DEF Screen!Init
<1>3. Root \in ScreenWindows /\ Nowhere \notin ScreenWindows /\ p \in Screen!Tabs
  BY TabsFacts
<1>4. {t \in Pages : screenPlace[t] = Root} = {p}
  BY <1>2, <1>3, TabsFacts
<1>5. current = [w \in ScreenWindows |-> IF w = Root THEN p ELSE NoTab]
  <2>1. current = [w \in ScreenWindows |->
            IF w = Root THEN CHOOSE t \in Pages : screenPlace[t] = Root ELSE NoTab]
    BY <1>1, Zenon DEF Screen!Init
  <2>2. PICK q : q = CHOOSE t \in Pages : screenPlace[t] = Root
    OBVIOUS
  <2>3. q \in Pages /\ screenPlace[q] = Root
    BY <1>4, <2>2
  <2> QED
    BY <1>4, <2>1, <2>2, <2>3
<1>6. /\ kinds = [q \in Pages |-> "root"]
      /\ current = [w \in ScreenWindows |-> IF w = Root THEN p ELSE NoTab]
      /\ front = Root
      /\ screenStatus = [w \in ScreenWindows |-> IF w = Root THEN "shown" ELSE "none"]
      /\ text = [s \in ScreenSessions |-> Untitled]
      /\ title = [s \in ScreenSessions |-> Untitled]
      /\ kept = [s \in ScreenSessions |-> Nowhere]
      /\ entries \in [ScreenSessions -> Titles \cup {NoEntry}]
      /\ dangling = {} /\ setting_widget_ = "none"
  BY <1>1, <1>5 DEF Screen!Init
<1>7. ScreenTypes
  BY <1>2, <1>3, <1>6 DEF ScreenTypes
<1>8. NameTypes
  BY <1>6 DEF NameTypes, Names
<1>9. \A w \in ScreenWindows : ShowsOwn(w)
  BY <1>2, <1>3, <1>6 DEF ShowsOwn, Screen!In
<1>10. OnTheScreen /\ KeptSomewhere /\ front \in Screen!Shown
  BY <1>2, <1>3, <1>6 DEF OnTheScreen, KeptSomewhere, Screen!IsOpen, Screen!Shown
<1>11. \A t \in Screen!Tabs \ {p} : ~Screen!IsOpen(t)
  BY <1>2 DEF Screen!IsOpen
<1>12. Leftovers
  BY <1>6, <1>11, TabsFacts DEF Leftovers
<1>13. NamesOK
  BY <1>3, <1>6, <1>11, TabsFacts DEF NamesOK, Reached, Screen!Managed
<1> QED
  BY <1>7, <1>8, <1>9, <1>10, <1>12, <1>13 DEF ScreenInvariant, Places

LEMMA ScreenIsKept == ScreenInvariant /\ [Screen!Next]_(Screen!vars) => ScreenInvariant'
<1> SUFFICES ASSUME ScreenInvariant, [Screen!Next]_(Screen!vars) PROVE ScreenInvariant'
  OBVIOUS
<1>1. ASSUME NEW t \in Screen!Tabs, Screen!Select(t) PROVE ScreenInvariant'
  BY <1>1, SelectStep
<1>2. ASSUME NEW t \in Screen!Tabs, NEW w \in ScreenWindows, Screen!Drag(t, w)
      PROVE  ScreenInvariant'
  BY <1>2, DragStep
<1>3. ASSUME NEW p \in Pages,
             \/ Screen!addSelectToolPage(p) \/ Screen!newInstruction(p)
             \/ Screen!newSimulation(p)
             \/ \E w \in ScreenWindows : Screen!tabCreateRequested(p, w)
      PROVE  ScreenInvariant'
  <2>1. PICK w \in ScreenWindows, knd \in {"own", "root", "blank"} : Screen!addPage(p, knd, w)
    BY <1>3, TabsFacts DEF Screen!addSelectToolPage, Screen!newInstruction,
       Screen!newSimulation, Screen!tabCreateRequested
  <2> QED
    BY <2>1, AddPageStep
<1>4. ASSUME NEW p \in Pages, NEW s \in ScreenSessions, Screen!choose(p, s)
      PROVE  ScreenInvariant'
  BY <1>4, ChooseStep
<1>5. ASSUME NEW t \in Pages \cup {Screen!Settings}, Screen!handleTabCloseRequested(t)
      PROVE  ScreenInvariant'
  BY <1>5, ClosePageStep
<1>6. ASSUME NEW s \in ScreenSessions, Screen!saveSetting(s) PROVE ScreenInvariant'
  BY <1>6, SaveStep
<1>7. ASSUME NEW s \in ScreenSessions, Screen!handleTabClose(s) PROVE ScreenInvariant'
  BY <1>7, CloseSessionStep
<1>8. ASSUME NEW s \in ScreenSessions, Screen!switchToOtherTabPage(s) PROVE ScreenInvariant'
  BY <1>8, EntryStep
<1>9. ASSUME NEW s \in ScreenSessions, Screen!uuidsChanged(s) PROVE ScreenInvariant'
  BY <1>9, DeleteEntryStep
<1>10. ASSUME NEW s \in ScreenSessions, NEW name \in Titles, Screen!EditTitle(s, name)
       PROVE  ScreenInvariant'
  BY <1>10, EditTitleStep
<1>11. CASE Screen!showSettings
  BY <1>11, SettingsStep
<1>12. ASSUME NEW w \in ScreenWindows, Screen!closeEvent(w) PROVE ScreenInvariant'
  BY <1>12, WindowGoes
<1>13. CASE UNCHANGED Screen!vars
  <2>1. UNCHANGED <<screenPlace, kinds, current, front, screenStatus, text, title, kept, entries,
                    dangling, setting_widget_, astray>>
    BY <1>13 DEF Screen!vars, Screen!places, Screen!names
  <2>2. Places' /\ NameTypes' /\ front' \in Screen!Shown' /\ Leftovers'
    BY <2>1 DEF ScreenInvariant, Places, ScreenTypes, NameTypes, ShowsOwn, Screen!In, OnTheScreen,
       KeptSomewhere, Leftovers, Screen!IsOpen, Screen!Shown
  <2>3. NamesOK'
    BY <2>1 DEF ScreenInvariant, NamesOK, Reached, Screen!IsOpen, Screen!Managed
  <2> QED
    BY <2>2, <2>3 DEF ScreenInvariant
<1> QED
  BY <1>1, <1>2, <1>3, <1>4, <1>5, <1>6, <1>7, <1>8, <1>9, <1>10, <1>11, <1>12, <1>13
     DEF Screen!Next

THEOREM ScreenInvariantAlways == WindowSpec => []ScreenInvariant
<1>1. WindowInit => ScreenInvariant
  BY ScreenStart
<1>2. ScreenInvariant /\ [Screen!Next]_(Screen!vars) => ScreenInvariant'
  BY ScreenIsKept
<1>3. [WindowNext]_<<kind, vars, screenVars, drawerVars>> => [Screen!Next]_(Screen!vars)
  BY SidesApart
<1> QED
  BY <1>1, <1>2, <1>3, PTL DEF WindowSpec

\* Every window shows one of its own tabs, the window in front is on the
\* screen, and a tab is named as its entry wherever it was dragged, closed,
\* kept and restored: for any number of sessions, pages and windows.
THEOREM TitlesAgreeAlways == WindowSpec => []TitlesAgree
<1>1. ASSUME ScreenInvariant PROVE TitlesAgree
  <2>1. Screen!TypeOK
    BY <1>1 DEF ScreenInvariant, Places, ShowsOwn, OnTheScreen, Leftovers, Screen!TypeOK
  <2>2. \A s \in ScreenSessions :
            Screen!IsOpen(s) /\ entries[s] # NoEntry /\ s \notin astray => text[s] = entries[s]
    BY <1>1 DEF ScreenInvariant, NamesOK, Reached
  <2> QED
    BY <2>1, <2>2 DEF TitlesAgree, Screen!TitlesAgree
<1> QED
  BY <1>1, ScreenInvariantAlways, PTL

\* The tab of a session goes only when it is closed or deleted, or by a choice
\* on a page for the root window that was dragged into another one.
LEMMA WhyTabsGo ==
    ASSUME ScreenInvariant, Screen!Next, NEW s \in ScreenSessions,
           Screen!IsOpen(s), ~Screen!IsOpen(s)'
    PROVE  \/ Screen!handleTabClose(s) \/ Screen!uuidsChanged(s)
           \/ \E p \in Pages : kinds[p] = "root" /\ screenPlace[p] # Root /\ Screen!IsOpen(p)
<1>1. /\ ScreenTypes /\ (\A v \in ScreenWindows : ShowsOwn(v)) /\ s \in Screen!Tabs
      /\ screenPlace[s] # Nowhere /\ screenPlace'[s] = Nowhere
      /\ Root \in ScreenWindows /\ Nowhere \notin ScreenWindows
  BY TabsFacts DEF ScreenInvariant, Places, Screen!IsOpen
<1>2. ASSUME NEW t \in Screen!Tabs, NEW w \in ScreenWindows, Screen!Joins(t, w) PROVE FALSE
  <2>1. screenPlace' = [screenPlace EXCEPT ![t] = w]
    BY <1>2 DEF Screen!Joins
  <2> QED
    BY <1>1, <2>1 DEF ScreenTypes
<1>3. ASSUME NEW t \in Screen!Tabs, Screen!Leaves(t) PROVE t = s
  <2>1. screenPlace' = [screenPlace EXCEPT ![t] = Nowhere]
    BY <1>3 DEF Screen!Leaves
  <2> QED
    BY <1>1, <2>1 DEF ScreenTypes
<1>4. ASSUME UNCHANGED screenPlace PROVE FALSE
  BY <1>1, <1>4
<1>5. ASSUME NEW t \in Screen!Tabs,
             Screen!Select(t) \/ \E w \in ScreenWindows : Screen!Drag(t, w)
      PROVE  FALSE
  BY <1>2, <1>4, <1>5 DEF Screen!Select, Screen!Drag
<1>6. ASSUME NEW p \in Pages,
             \/ Screen!addSelectToolPage(p) \/ Screen!newInstruction(p)
             \/ Screen!newSimulation(p)
             \/ \E w \in ScreenWindows : Screen!tabCreateRequested(p, w)
      PROVE  FALSE
  <2>1. PICK w \in ScreenWindows, knd \in {"own", "root", "blank"} : Screen!addPage(p, knd, w)
    BY <1>6, TabsFacts DEF Screen!addSelectToolPage, Screen!newInstruction,
       Screen!newSimulation, Screen!tabCreateRequested
  <2> QED
    BY <1>2, <2>1, TabsFacts DEF Screen!addPage
<1>7. ASSUME NEW p \in Pages, NEW r \in ScreenSessions, Screen!choose(p, r)
      PROVE  kinds[p] = "root" /\ screenPlace[p] # Root /\ Screen!IsOpen(p)
  <2>1. /\ Screen!IsOpen(p) /\ current[screenPlace[p]] = p /\ kinds[p] # "blank"
        /\ Screen!Replaced(p) # NoTab /\ Screen!switchByCreateWidget(Screen!Replaced(p), r)
    BY <1>7 DEF Screen!choose, Screen!Offers
  <2>2. PICK t : t = Screen!Replaced(p)
    OBVIOUS
  <2>3. screenPlace' = [screenPlace EXCEPT ![t] = Nowhere, ![r] = screenPlace[t]]
    BY <2>1, <2>2 DEF Screen!switchByCreateWidget
  <2>4. t \in Screen!Tabs /\ screenPlace[t] # Nowhere
    BY <1>1, <2>1, <2>2, TabsFacts DEF Screen!Replaced, ShowsOwn, Screen!In, Screen!IsOpen
  <2>5. t = s
    BY <1>1, <2>3, <2>4 DEF ScreenTypes
  <2>6. kinds[p] # "own" /\ current[Root] = s
    BY <2>2, <2>5, TabsFacts DEF Screen!Replaced
  <2> QED
    BY <1>1, <2>1, <2>6, TabsFacts DEF ScreenTypes
<1>8. ASSUME NEW t \in Pages \cup {Screen!Settings}, Screen!handleTabCloseRequested(t)
      PROVE  FALSE
  BY <1>3, <1>8, TabsFacts DEF Screen!handleTabCloseRequested
<1>9. ASSUME NEW r \in ScreenSessions, Screen!saveSetting(r) PROVE FALSE
  BY <1>4, <1>9 DEF Screen!saveSetting, Screen!places
<1>10. ASSUME NEW r \in ScreenSessions, NEW name \in Titles, Screen!EditTitle(r, name)
       PROVE  FALSE
  BY <1>4, <1>10 DEF Screen!EditTitle, Screen!places
<1>11. ASSUME NEW r \in ScreenSessions, Screen!handleTabClose(r) PROVE Screen!handleTabClose(s)
  BY <1>3, <1>11, TabsFacts DEF Screen!handleTabClose
<1>12. ASSUME NEW r \in ScreenSessions, Screen!uuidsChanged(r) PROVE Screen!uuidsChanged(s)
  BY <1>3, <1>4, <1>12, TabsFacts DEF Screen!uuidsChanged
<1>13. ASSUME NEW r \in ScreenSessions, Screen!switchToOtherTabPage(r) PROVE FALSE
  <2>1. CASE UNCHANGED screenPlace
    BY <1>4, <2>1
  <2>2. CASE Screen!Joins(r, Root)
    BY <1>1, <1>2, <2>2, TabsFacts
  <2>3. CASE kept[r] \in Screen!Managed /\ Screen!Joins(r, kept[r])
    BY <1>2, <2>3, TabsFacts DEF Screen!Managed
  <2> QED
    BY <1>13, <2>1, <2>2, <2>3 DEF Screen!switchToOtherTabPage, Screen!switchByPage,
       Screen!restoreClosedTabFromMem
<1>14. ASSUME Screen!showSettings PROVE FALSE
  BY <1>1, <1>2, <1>4, <1>14, TabsFacts DEF Screen!showSettings
<1>15. ASSUME NEW w \in ScreenWindows, Screen!closeEvent(w) PROVE FALSE
  BY <1>1, <1>15 DEF Screen!closeEvent
<1> QED
  BY <1>5, <1>6, <1>7, <1>8, <1>9, <1>10, <1>11, <1>12, <1>13, <1>14, <1>15 DEF Screen!Next

\* A click on an entry brings its session to the front, and a session's tab
\* goes only when it is closed or deleted.
THEOREM EntriesLeadToTabsAlways == WindowSpec => EntriesLeadToTabs
<1>1. ASSUME ScreenInvariant, [Screen!Next]_(Screen!vars)
      PROVE  [\A s \in ScreenSessions \ dangling : Screen!switchToOtherTabPage(s) =>
                  \E w \in ScreenWindows :
                      screenPlace'[s] = w /\ current'[w] = s /\ front' = w
                      /\ screenStatus'[w] = "shown"]_(Screen!vars)
  BY <1>1, EntryStep
<1>3. ASSUME ScreenInvariant, [Screen!Next]_(Screen!vars)
      PROVE  [\A s \in ScreenSessions : Screen!IsOpen(s) /\ ~Screen!IsOpen(s)' =>
                  \/ Screen!handleTabClose(s) \/ Screen!uuidsChanged(s)
                  \/ \E p \in Pages :
                         kinds[p] = "root" /\ screenPlace[p] # Root /\ Screen!IsOpen(p)]_(Screen!vars)
  BY <1>3, WhyTabsGo
<1>2. [WindowNext]_<<kind, vars, screenVars, drawerVars>> => [Screen!Next]_(Screen!vars)
  BY SidesApart
<1> QED
  BY <1>1, <1>2, <1>3, ScreenInvariantAlways, PTL
     DEF WindowSpec, EntriesLeadToTabs, Screen!EntriesBringUp, Screen!SessionsKeepTheirTabs
=============================================================================
