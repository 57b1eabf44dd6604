CONSTANTS
    Keys = {k1, k2}
    Values = {v1, v2}
    NoValue = NoValue
    Faults = {"reported"}
    CrashAt <- AnyPhase
    MayEmpty = TRUE
    WholeApi = TRUE
    Kinds = {"Serial", "TcpClient", "TcpServer", "UdpClient", "UdpServer", "Modbus", "Mqtt"}
    Ports = {1, 2}
    Texts = {0, 100, 70000}
    MaxEdits = 3
    Parts = {"settings", "form"}
SPECIFICATION RememberedSpec
INVARIANTS CleanMeansStored NewCopyWhole SavedStateIsShown ParametersAsShown
PROPERTY InUseIsOnScreen
