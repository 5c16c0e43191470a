SPECIFICATION Spec
CONSTANTS
    MaxMessages = 6
    Strategies = {"accumulate", "compact", "clear"}
    KeepLastN = 2
INVARIANT NothingForgotten
INVARIANT SummarisedOnce
INVARIANT ResultsFollowCalls
