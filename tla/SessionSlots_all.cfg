SPECIFICATION Spec
CONSTANTS
    Requests = {r1, r2, r3}
    MaxSessions = 2
    MaxSupervisors = 2
    MaxIds = 2
    MaxBatch = 2
INVARIANT CountExact
PROPERTY SlotsArePool
PROPERTY RollbackComplete
CHECK_DEADLOCK FALSE
SYMMETRY RequestSymmetry
