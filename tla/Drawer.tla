-------------------------------- MODULE Drawer --------------------------------
(***************************************************************************)
(* The drawer at the left of the main window: three exclusive buttons      *)
(* (lib_ui/ui/widgets/widget_group.cpp), the page each of them shows       *)
(* (window/popup_window.cpp), and the drawer that slides open and shut     *)
(* (lib_ui/ui/effects/animated_drawer.cpp), joined by a slot of MainWindow.*)
(*                                                                         *)
(* While it slides shut the widgets in it get a size policy that lets them *)
(* be squeezed; what they had is kept in a property of the drawer.         *)
(***************************************************************************)
EXTENDS Naturals

CONSTANTS
    Buttons,   \* of left_bar_logic_
    NoButton,
    MaxWidth   \* bound: widths a drawer can be dragged to

VARIABLES
    checked,      \* checked_widget_
    page,         \* currentIndex() of the PopUpWindow
    targetDrawerVisible_, isDrawerVisible_,
    visible,      \* the drawer is on the screen
    running,      \* animation_ runs
    width,        \* sizes()[0] of the splitter
    default_width_,
    squeezed,     \* the widgets in it have the policy Ignored
    kept,         \* originalSizePolicies: "none", or what it holds
    stale,        \* it holds a widget that was deleted
    crashed,      \* that widget was used
    wanted,       \* the width the user gave it
    hurried       \* it was shut before it had opened

drawer == <<targetDrawerVisible_, isDrawerVisible_, visible, running, width, default_width_>>
policies == <<squeezed, kept, stale, crashed>>
vars == <<checked, page, drawer, policies, wanted, hurried>>

Init ==
    /\ checked = NoButton /\ page = CHOOSE b \in Buttons : TRUE
    /\ targetDrawerVisible_ = FALSE /\ isDrawerVisible_ = FALSE
    /\ visible = FALSE /\ running = FALSE
    /\ width = 0 /\ default_width_ = MaxWidth /\ wanted = MaxWidth
    /\ squeezed = FALSE /\ kept = "none" /\ stale = FALSE /\ crashed = FALSE
    /\ hurried = FALSE

\* restoreWidgetStates gives back what is kept, to every widget it is kept for.
Restored == IF kept = "none" THEN squeezed ELSE kept = "squeezed"

restoreWidgetStates == crashed' = (crashed \/ (kept # "none" /\ stale)) /\ stale' = FALSE

\* Wrong: what is kept is forgotten without being given back.
openDrawerForgetting ==
    /\ visible' = TRUE /\ targetDrawerVisible_' = TRUE /\ running' = TRUE
    /\ kept' = "none" /\ stale' = FALSE
    /\ UNCHANGED <<isDrawerVisible_, width, default_width_, squeezed, crashed, wanted, hurried>>

openDrawer ==
    /\ visible' = TRUE /\ targetDrawerVisible_' = TRUE /\ running' = TRUE
    /\ restoreWidgetStates /\ squeezed' = Restored /\ kept' = "none"
    /\ UNCHANGED <<isDrawerVisible_, width, default_width_, wanted, hurried>>

\* The width it has now is the one it is to have when it is opened again.
closeDrawer ==
    /\ targetDrawerVisible_' = FALSE /\ running' = TRUE
    /\ restoreWidgetStates /\ squeezed' = TRUE
    /\ kept' = IF Restored THEN "squeezed" ELSE "own"
    /\ default_width_' = width
    /\ hurried' = (hurried \/ running)
    /\ UNCHANGED <<isDrawerVisible_, visible, width, wanted>>

\* TtWidgetGroup::eventFilter, of a press or the second press of a double click,
\* and the slot of widgetClicked.
Click(b) ==
    /\ checked' = IF checked = b THEN NoButton ELSE b
    /\ page' = b
    /\ IF ~targetDrawerVisible_ THEN openDrawer
       ELSE IF page = b THEN closeDrawer
       ELSE UNCHANGED <<drawer, policies, wanted, hurried>>

\* The animation sets a width on its way.
AnimationSteps ==
    /\ running
    /\ width' \in IF targetDrawerVisible_ THEN width .. default_width_ ELSE 0 .. width
    /\ UNCHANGED <<checked, page, targetDrawerVisible_, isDrawerVisible_, visible, running,
                   default_width_, policies, wanted, hurried>>

onAnimationFinished ==
    /\ running /\ running' = FALSE
    /\ width' = IF targetDrawerVisible_ THEN default_width_ ELSE 0
    /\ isDrawerVisible_' = targetDrawerVisible_
    /\ IF targetDrawerVisible_ THEN UNCHANGED <<visible, policies>>
       ELSE /\ visible' = FALSE
            /\ squeezed' = (kept = "squeezed") /\ crashed' = (crashed \/ stale)
            /\ UNCHANGED <<kept, stale>>
    /\ UNCHANGED <<checked, page, targetDrawerVisible_, default_width_, wanted, hurried>>

\* The handle of the splitter, down to nothing.
DragHandle(w) ==
    /\ visible /\ ~running
    /\ width' = w /\ wanted' = w /\ hurried' = FALSE
    /\ UNCHANGED <<checked, page, targetDrawerVisible_, isDrawerVisible_, visible, running,
                   default_width_, policies>>

\* An entry in the drawer is deleted, at the latest while it slides shut.
DeleteEntry ==
    /\ visible /\ width > 0
    /\ stale' = (stale \/ kept # "none")
    /\ UNCHANGED <<checked, page, drawer, squeezed, kept, crashed, wanted, hurried>>

Next ==
    /\ ~crashed
    /\ \/ \E b \in Buttons : Click(b)
       \/ AnimationSteps \/ onAnimationFinished \/ DeleteEntry
       \/ \E w \in 0 .. MaxWidth : DragHandle(w)

Spec == Init /\ [][Next]_vars

-----------------------------------------------------------------------------
\* However buttons are clicked while the drawer moves: it is open, or opening,
\* exactly when a button is checked, on the page of that button; at rest it is
\* there or not as it should be, with the size policies its widgets came with,
\* and as wide as the user last made it.  (Not so once it was shut before it
\* had opened: that width is then the one it opens to, against the comment in
\* closeDrawer.)
DrawerFollowsButtons ==
    /\ targetDrawerVisible_ <=> checked # NoButton
    /\ targetDrawerVisible_ => page = checked
    /\ ~running /\ ~crashed =>
        /\ visible = targetDrawerVisible_ /\ isDrawerVisible_ = visible /\ ~squeezed
        /\ visible /\ ~hurried => width = wanted
=============================================================================
