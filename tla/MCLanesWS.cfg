SPECIFICATION FairSpec
CONSTANTS
    Carrier = "websocket-lanes"
    StreamIDs = {1}
    Batches <- MCSocketBatches
    Requests = {}
    Conns = {c1, c2}
    None = None
    MaxStreamsPerSession = 2
    MaxClosedStreamIDs = 1
    MaxPending = 3
    UplinkLimit = 2
    DownlinkLimit = 1
    MaxFramePayload = 2
    MaxBatchFrames = 2
    MaxUint32 = 2
    MaxLanes = 2
    MaxUpSequence = 2
    MaxDownCursor = 0
INVARIANTS LaneChargeExact LiveStreamHasLane
PROPERTIES ClosedLaneDetaches
CHECK_DEADLOCK FALSE
