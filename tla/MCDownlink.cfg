SPECIFICATION FairSpec
CONSTANTS
    None = None
    Polls = {p1, p2, p3}
    MaxFrames = 2
    MaxBatch = 2
    MaxAttempts = 2
INVARIANTS TypeOK ExactlyOnceInOrder AckedIsReceived NewestWins
PROPERTIES ImplementsChannel WaiterServed FramesArrive
CHECK_DEADLOCK FALSE
