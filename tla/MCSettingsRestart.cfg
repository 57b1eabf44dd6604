CONSTANTS
    Keys = {k1, k2}
    Values = {v1}
    NoValue = NoValue
SPECIFICATION Spec
INVARIANTS SavedAtClosing
CHECK_DEADLOCK FALSE
