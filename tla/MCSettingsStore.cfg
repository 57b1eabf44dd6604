CONSTANTS
    Keys = {k1, k2}
    Values = {v1, v2}
    NoValue = NoValue
    Faults = {}
    CrashAt <- SafePhases
    MayEmpty = FALSE
    WholeApi = FALSE
\* The settings alone.
    Parts = {"settings"}
    Kinds = {"Mqtt"}
    Ports = {}
    Texts = {0}
    MaxEdits = 0
SPECIFICATION FairRememberedSpec
INVARIANTS SavePending
PROPERTIES ImplementsStore ChangesReachDisk
