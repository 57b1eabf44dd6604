CONSTANTS
    Addresses = {0, 1, 2, 3}
    MaxRows = 3
    SizeLimit = 2
    FlightMax = 3
    ChangeMax = 2
    Typed = {5}
    TableRows = 3
    visibleRows = 3
    Registers = {1, 2}
    Values = {0, 1}
    HoldingRows = 2
    MaxReads = 2
    MaxClicks = 2
    MaxTurns = 3
SPECIFICATION TablesSpec
INVARIANT EditsEnd
PROPERTIES TablesConverge RowsKeepTheirData
\* Nothing may be left to refresh once a range was refused, or a null device used.
CHECK_DEADLOCK FALSE
