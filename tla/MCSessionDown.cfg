SPECIFICATION Spec
CONSTANTS
    StreamIDs = {1, 2}
    Batches <- MCDownBatches
    Answers = {TRUE}
    QueueItemCost = 2
    HeaderSize = 1
    WindowSize = 1
    InitialStreamWindow = 2
    MaxUint32 = 2
    DataChunk = 2
    MaxBatchFrames = 3
    MaxFramePayload = 2
    CarrierBatchBytes = 4
    MaxBodyBytes = 6
    MaxStreamsPerSession = 2
    MaxClosedStreamIDs = 1
    MaxPendingPerSession = 48
    MaxPendingItemsPerSession = 12
    ControlReserveExtraItems = 1
    ControlReserveItemsPerStream = 3
    MaxBackends = 3
    MaxUpSequence = 3
    MaxDownCursor = 2
INVARIANTS BudgetExact QueueWellFormed TombstoneRing
CHECK_DEADLOCK FALSE
