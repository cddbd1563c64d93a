SPECIFICATION Spec
CONSTANTS
    StreamIDs = {1, 2}
    Batches <- MCRingBatches
    Answers = {TRUE}
    QueueItemCost = 2
    HeaderSize = 1
    WindowSize = 1
    InitialStreamWindow = 3
    MaxUint32 = 8
    DataChunk = 2
    MaxBatchFrames = 3
    MaxFramePayload = 2
    CarrierBatchBytes = 4
    MaxBodyBytes = 6
    MaxStreamsPerSession = 1
    MaxClosedStreamIDs = 1
    MaxPendingPerSession = 28
    MaxPendingItemsPerSession = 7
    ControlReserveExtraItems = 1
    ControlReserveItemsPerStream = 3
    MaxBackends = 3
    MaxUpSequence = 4
    MaxDownCursor = 2
INVARIANT ValidatedBatchApplies
CHECK_DEADLOCK FALSE
