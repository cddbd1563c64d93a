SPECIFICATION FairSpec
CONSTANTS
    Carriers = {"https", "https-lanes", "websocket", "websocket-lanes"}
    StreamIDs = {1, 2}
    Messages <- MCMessages
    QueueLimit = 6
    QueueItemLimit = 3
    LaneQueueLimit = 4
    LaneItemLimit = 2
    BatchLimit = 3
    MaxBodyFrames = 2
    MaxMessages = 4
INVARIANTS QueueExact BodiesInOrder EveryEndIsTold
PROPERTIES ClosedPageLetsGo
CHECK_DEADLOCK FALSE
