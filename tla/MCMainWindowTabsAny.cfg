CONSTANTS
    Sessions = {link, mock}
    Simulated = {mock}
    Windows = {root, win1, win2}
    Root = root
    Contents = {c1, c2}
    NoContent = NoContent
    NoWidget = NoWidget
    Nowhere = Nowhere
    MaxPages = 1
    DropsOnHidden = FALSE
    ScreenSessions = {s1, s2}
    RootTitled = {s2}
    Pages = {p1}
    ScreenWindows = {root, torn}
    Titles = {A, B}
    Untitled = A
    NoTab = NoTab
    NoEntry = NoEntry
    Buttons = {b1, b2, b3}
    NoButton = NoButton
    MaxWidth = 3
SYMMETRY Interchangeable
SPECIFICATION WindowSpec
INVARIANTS OneWidgetPerSession SavedMeansStored TitlesAgree DrawerFollowsButtons
PROPERTIES DeletedStaysDeleted ClosingKeepsWork EntriesLeadToTabs
CHECK_DEADLOCK FALSE
