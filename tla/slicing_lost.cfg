SPECIFICATION SlicingSpec
CONSTANTS
    Jobs = {j1, j2}
    MaxConcurrentJobs = 1
    MaxQueuedJobs = 2
    MaxRetries = 0
    MaxRestarts = 0
SYMMETRY JobSymmetry
INVARIANTS
    LossNotBlamedOnUser
CHECK_DEADLOCK FALSE
