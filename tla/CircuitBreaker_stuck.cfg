SPECIFICATION LiveSpec
CONSTANTS
    Calls = {c1, c2}
    FailureThreshold = 1
    HalfOpenMax = 1
    RetryLimit = 0
    Word = 16
    MaxFailures = 1
    EndingSets = {{"succeeded", "failed", "response_failed", "refused", "leaves"},
                  {"succeeded", "failed", "leaves"}}
    MayStall = FALSE
PROPERTY HalfOpenResolves
