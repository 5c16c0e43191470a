SPECIFICATION Spec
CONSTANTS
    Calls = {c1,c2,c3}
    FailureThreshold = 2
    HalfOpenMax = 1
    RetryLimit = 1
    Word = 16
    MaxFailures = 2
    EndingSets = {{"succeeded", "failed", "response_failed", "refused", "leaves"},
                  {"succeeded", "failed", "leaves"}}
    MayStall = FALSE
INVARIANT ThresholdTrips
INVARIANT ProbesBounded
INVARIANT CountExact
SYMMETRY CallSymmetry
