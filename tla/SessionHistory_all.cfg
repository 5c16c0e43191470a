SPECIFICATION LiveSpec
CONSTANTS
    MaxEntries = 5
    MaxTurn = 2
    Circumstances <- AllCircumstances
INVARIANT EntriesKept
INVARIANT StorePrefix
PROPERTY RunsReachStore
CHECK_DEADLOCK FALSE
