SPECIFICATION WidgetSpec
CONSTANTS
    MaxBars = 4
    Sessions = {s1}
    Main = main
    NoWindow = NoWindow
    Room = 4
    Channels = 2
    Points = 2
    MaxSamples = 5
    Sizes = {1, 2}
    Languages = {"zh", "en"}
    SerialWindows = {w1, w2}
    Directories = {"D1"}
    DataDirectory = "Data"
    MaxAnswers = 2
    Rows = {1}
    Addresses = {1, 2}
    Capacities = {1, 2}
    Capacity = 1
    MaxReplies = 3
    MaxAsked = 1
    Names = {"a"}
    Scripts = {"s"}
    Colors = {"red", "blue"}
    Nothing = Nothing
    Topics = {"a"}
    MaxConfirmed = 2
    MaxLater = 1
    MaxProperties = 2
INVARIANTS BarsLineUp PlotsAreTrue AnswersAreTaken
PROPERTY BarsGoAway
\* Once every message and every answer of the bounds was given, nothing is left.
CHECK_DEADLOCK FALSE
