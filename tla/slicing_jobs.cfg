SPECIFICATION SlicingFairSpec
CONSTANTS
    Jobs = {j1, j2}
    MaxConcurrentJobs = 1
    MaxQueuedJobs = 1
    MaxRetries = 1
    MaxRestarts = 1
INVARIANTS
    QueuedHasPlace
    WorkHoldsSlots
    OutputsAccounted
    QueueBounded
PROPERTIES
    CancelHonoured
    OutcomeStays
    ImplementsPool
    JobsFinish
CHECK_DEADLOCK FALSE
