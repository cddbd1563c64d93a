SPECIFICATION Spec
CONSTANTS
    Carrier = "https-lanes"
    StreamIDs = {1, 2}
    Batches <- MCLaneBatches
    Requests = {r1, r2}
    Conns = {}
    None = None
    MaxStreamsPerSession = 1
    MaxClosedStreamIDs = 1
    MaxPending = 4
    UplinkLimit = 3
    DownlinkLimit = 2
    MaxFramePayload = 2
    MaxBatchFrames = 2
    MaxUint32 = 2
    MaxLanes = 3
    MaxUpSequence = 1
    MaxDownCursor = 1
SYMMETRY RequestSymmetry
INVARIANTS TypeOK LaneChargeExact WakeUpOwed
PROPERTIES LaneClosedComesLast
CHECK_DEADLOCK FALSE
