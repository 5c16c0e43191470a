SPECIFICATION AgentSpec
CONSTANTS
    MaxResponses = 3
    MaxCalls = 2
    MaxUsers = 2
    MaxRetries = 1
    UniqueIds = TRUE
    QueuesWhileRunning = TRUE
    t1 = t1
    t2 = t2
    t3 = t3
    t4 = t4
    Token = {t1, t2, t3, t4}
    MaxLoops = 2
    Looping = TRUE
INVARIANT ReturnsWhatItAdded
INVARIANT RequestAnswersCalls
INVARIANT StateTellsRun
PROPERTY CancelStopsWork
PROPERTY CancelEnds
PROPERTY PromptEnds
PROPERTY LoopsStop
CHECK_DEADLOCK FALSE
