SPECIFICATION Spec
CONSTANTS
    MaxMessages = 4
    Strategies = {"accumulate"}
    KeepLastN = 0
INVARIANT KeptOrSummarised
