SPECIFICATION FairSpec
CONSTANTS
    StreamIDs = {1, 2}
    Batches <- MCBatches
    Answers = {TRUE, FALSE}
    QueueItemCost = 2
    HeaderSize = 1
    WindowSize = 1
    InitialStreamWindow = 3
    MaxUint32 = 8
    DataChunk = 2
    MaxBatchFrames = 3
    MaxFramePayload = 2
    CarrierBatchBytes = 4
    MaxBodyBytes = 6
    MaxStreamsPerSession = 2
    MaxClosedStreamIDs = 2
    MaxPendingPerSession = 40
    MaxPendingItemsPerSession = 10
    ControlReserveExtraItems = 1
    ControlReserveItemsPerStream = 3
    MaxBackends = 2
    MaxUpSequence = 2
    MaxDownCursor = 2
INVARIANTS TypeOK StreamLedger BudgetExact
PROPERTIES CancelledBackendsEnd
CHECK_DEADLOCK FALSE
