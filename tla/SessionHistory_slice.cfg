SPECIFICATION Spec
CONSTANTS
    MaxEntries = 5
    MaxTurn = 2
    Circumstances <- OnlyReset
INVARIANT SliceInRange
CHECK_DEADLOCK FALSE
