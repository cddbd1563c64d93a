SPECIFICATION FairSpec
CONSTANTS
    None = None
    Requests = {r1, r2, r3}
    MaxBatches = 2
    MaxAttempts = 3
    MaxWaits = 2
INVARIANTS TypeOK ExactlyOnceInOrder AckedIsApplied
PROPERTIES ImplementsChannel BatchesArrive
CHECK_DEADLOCK FALSE
