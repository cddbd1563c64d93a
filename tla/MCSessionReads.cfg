SPECIFICATION Spec
CONSTANTS
    StreamIDs = {1, 2}
    Batches <- MCDownBatches
    Answers = {TRUE}
    QueueItemCost = 2
    HeaderSize = 1
    WindowSize = 1
    InitialStreamWindow = 3
    MaxUint32 = 8
    DataChunk = 2
    MaxBatchFrames = 3
    MaxFramePayload = 2
    CarrierBatchBytes = 4
    MaxBodyBytes = 6
    MaxStreamsPerSession = 2
    MaxClosedStreamIDs = 2
    MaxPendingPerSession = 52
    MaxPendingItemsPerSession = 13
    ControlReserveExtraItems = 1
    ControlReserveItemsPerStream = 3
    MaxBackends = 2
    MaxUpSequence = 3
    MaxDownCursor = 2
INVARIANT AllowedReadsFit
CHECK_DEADLOCK FALSE
