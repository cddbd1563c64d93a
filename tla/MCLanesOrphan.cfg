SPECIFICATION Spec
CONSTANTS
    Carrier = "websocket-lanes"
    StreamIDs = {1, 2}
    Batches <- MCSocketBatches
    Requests = {}
    Conns = {c1, c2}
    None = None
    MaxStreamsPerSession = 1
    MaxClosedStreamIDs = 1
    MaxPending = 6
    UplinkLimit = 4
    DownlinkLimit = 3
    MaxFramePayload = 2
    MaxBatchFrames = 2
    MaxUint32 = 2
    MaxLanes = 3
    MaxUpSequence = 2
    MaxDownCursor = 0
INVARIANT StreamHasSocket
CHECK_DEADLOCK FALSE
