---------------------------- MODULE MainWindowTabs ----------------------------
(***************************************************************************)
(* The main window from three sides: what its sessions hold and where they *)
(* are kept (TabSessions), what of them is on the screen (MainScreen), and *)
(* the drawer with the lists of links (Drawer).  A behaviour here is one   *)
(* of one kind: each side leaves to the others what it does not state.     *)
(***************************************************************************)
EXTENDS TabSessions

CONSTANTS ScreenSessions, RootTitled, Pages, ScreenWindows, Titles, Untitled, NoTab, NoEntry,
          Buttons, NoButton, MaxWidth

ASSUME ScreenAssumption ==
    /\ Root \in ScreenWindows /\ Nowhere \notin ScreenWindows
    /\ IsFiniteSet(ScreenSessions) /\ IsFiniteSet(Pages) /\ Pages # {}
    /\ ScreenSessions \cap Pages = {} /\ "settings" \notin ScreenSessions \cup Pages
    /\ NoTab \notin ScreenSessions \cup Pages \cup {"settings"}
    /\ NoEntry \notin Titles \cup {Untitled}

ASSUME DrawerAssumption == NoButton \notin Buttons /\ Buttons # {} /\ MaxWidth \in Nat

VARIABLES
    kind,  \* the side
    screenPlace, kinds, current, front, screenStatus, text, title, kept, entries,
    dangling, setting_widget_, astray,
    checked, page, targetDrawerVisible_, isDrawerVisible_, visible, running, width,
    default_width_, squeezed, policies, stale, crashed, wanted, hurried

screenVars == <<screenPlace, kinds, current, front, screenStatus, text, title, kept, entries,
                dangling, setting_widget_, astray>>

drawerVars == <<checked, page, targetDrawerVisible_, isDrawerVisible_, visible, running, width,
                default_width_, squeezed, policies, stale, crashed, wanted, hurried>>

Screen == INSTANCE MainScreen WITH
    Sessions <- ScreenSessions, Windows <- ScreenWindows,
    place <- screenPlace, status <- screenStatus

Slide == INSTANCE Drawer WITH kept <- policies

WindowInit ==
    /\ kind \in {"sessions", "screen", "drawer"}
    /\ Init /\ Screen!Init /\ Slide!Init
    /\ kind # "screen" =>
           /\ screenPlace[CHOOSE p \in Pages : TRUE] = Root
           /\ entries = [s \in ScreenSessions |-> NoEntry]

SessionStep == kind = "sessions" /\ Next /\ UNCHANGED <<kind, screenVars, drawerVars>>

ScreenStep == kind = "screen" /\ Screen!Next /\ UNCHANGED <<kind, vars, drawerVars>>

DrawerStep == kind = "drawer" /\ Slide!Next /\ UNCHANGED <<kind, vars, screenVars>>

WindowNext == SessionStep \/ ScreenStep \/ DrawerStep

WindowSpec == WindowInit /\ [][WindowNext]_<<kind, vars, screenVars, drawerVars>>

-----------------------------------------------------------------------------
(* The properties of the sides, each stated and explained in its module *)

\* MainScreen: a tab is named as its entry in the list.
TitlesAgree == Screen!TitlesAgree

\* MainScreen: a click on an entry brings its session to the front, and a session's
\* tab goes only when it is closed or deleted.
EntriesLeadToTabs == Screen!EntriesBringUp /\ Screen!SessionsKeepTheirTabs

\* Drawer: it is open exactly when a button is checked, on its page.
DrawerFollowsButtons == Slide!DrawerFollowsButtons
=============================================================================
