SPECIFICATION ContentsSpec
CONSTANTS
    MaxChannels = 2
    Uuids = {1, 2}
    Scripts = {"double"}
    Forms <- MCForms
    MaxAdded = 3
    MaxBuffer = 0
    MaxFirst = 2
    Rows = {new, reset}
    NewRow = new
    ResetRow = reset
    MaxRows = 4
    MaxHeight = 2
    Prefetch = 2
    MaxLines = 2
    MaxMessages = 2
    Arrivals = 3
    Length = 2
    CharWidth = 8
    LineHeight = 16
    Room = 12
    Pixels <- MCPixels
    Letters = 4
    Views = {v1, v2}
    Bubbles = {m1, m2}
    Widths = {2, 3, 5}
INVARIANTS CurvesAreOfTheChannels SentIsPlotted RowsShowTheirData TerminalTellsTheTruth DraggedTextIsTaken
PROPERTY RowsChangeUnderTheUser
CHECK_DEADLOCK FALSE
