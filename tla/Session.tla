-------------------------------- MODULE Session --------------------------------
(***************************************************************************)
(* One relay session with a multiplexed carrier (modes https and           *)
(* websocket): internal/session/session.go.  Everything here is guarded by *)
(* Session.mu, so an action is one critical section of that mutex, except  *)
(* the second half of ProcessUp, whose two loops over the batch take one   *)
(* step per frame with the mutex held (Locked).                            *)
(*                                                                         *)
(* Payloads are abstracted to their length.  A client frame is             *)
(* [type, id, n]: n is the payload length of a DATA frame and the delta of *)
(* a WINDOW frame.  The digest of a body is the body.                      *)
(*                                                                         *)
(* Callbacks into the manager (stream admission, the process-wide pending  *)
(* budget) answer anything in Answers; Manager.tla models who answers.     *)
(***************************************************************************)
EXTENDS Integers, Sequences, FiniteSets, Sums

CONSTANTS
    StreamIDs,                    \* the ids a client uses, a set of positive integers
    Batches,                      \* the bodies a client may send: sequences of frames
    Answers,                      \* what the manager's callbacks may answer
    QueueItemCost, HeaderSize, WindowSize,
    InitialStreamWindow, MaxUint32, DataChunk, MaxBatchFrames,
    MaxFramePayload, CarrierBatchBytes, MaxBodyBytes,
    MaxStreamsPerSession, MaxClosedStreamIDs,
    MaxPendingPerSession, MaxPendingItemsPerSession,
    ControlReserveExtraItems, ControlReserveItemsPerStream,
    MaxBackends, MaxUpSequence, MaxDownCursor     \* bounds of the model

PositiveLimits ==
    {QueueItemCost, HeaderSize, WindowSize, InitialStreamWindow, MaxUint32,
     DataChunk, MaxBatchFrames, MaxFramePayload, CarrierBatchBytes,
     MaxBodyBytes, MaxStreamsPerSession, MaxClosedStreamIDs,
     MaxPendingPerSession, MaxPendingItemsPerSession, MaxBackends}

ClientFrame == [type : {"open", "data", "window", "close", "pong", "ping"},
                id : StreamIDs \cup {0}, n : Nat]

ASSUME LimitsAssumption == PositiveLimits \subseteq Nat \ {0}
ASSUME ReserveAssumption ==
    {ControlReserveExtraItems, ControlReserveItemsPerStream,
     MaxUpSequence, MaxDownCursor} \subseteq Nat
ASSUME WindowAssumption == InitialStreamWindow <= MaxUint32
ASSUME IDAssumption == StreamIDs \subseteq Nat \ {0} /\ IsFiniteSet(StreamIDs)
ASSUME BatchAssumption == Batches \subseteq Seq(ClientFrame)
ASSUME AnswerAssumption == Answers \subseteq BOOLEAN

VARIABLES
    closed,          \* Session.closed
    closing,         \* some call has unlocked and is about to call protocolFailure or Close
    streams,         \* Session.streams; NoStream where the map has no entry
    closedStreams,   \* Session.closedStreams
    closedOrder,     \* Session.closedOrder
    closedStart,     \* Session.closedStart
    pendingFrames,   \* Session.pendingFrames
    pendingWindows,  \* Session.pendingWindows, 1-based; 0 where there is no entry
    pendingCost,     \* Session.pendingCost
    pendingItems,    \* Session.pendingItems
    unacked,         \* Session.unacked, as the frames of the batch
    unackedBase,     \* Session.unackedBase
    downCursor,      \* Session.downCursor
    downActive,      \* Session.downActive
    lastUpSequence,  \* Session.lastUpSequence
    lastUpDigest,    \* Session.lastUpDigest
    up,              \* the ProcessUp call that has set upActive, and its locals
    backends,        \* the backendStream goroutines, numbered in order of OPEN
    opens            \* history, read by properties only: how many OPENs of each id
                     \* have been applied, counted up to two

closeVars == <<closed, closing>>
tombVars  == <<closedStreams, closedOrder, closedStart>>
queueVars == <<pendingFrames, pendingWindows>>
costVars  == <<pendingCost, pendingItems>>
pollVars  == <<unacked, unackedBase, downCursor, downActive>>
upVars    == <<lastUpSequence, lastUpDigest, up, opens>>
vars      == <<closeVars, streams, tombVars, queueVars, costVars, pollVars,
               upVars, backends>>

Backends == 1 .. MaxBackends

--------------------------------------------------------------------------------
(* Streams, backends and the uplink call.                                  *)

\* A streamState.  backend = 0 stands for the nil pointer.
StreamState ==
    [backend : 0 .. MaxBackends,
     receiveWindow : Int, sendCredit : Nat,
     pendingWriteBytes : Int, pendingWriteCost : Int, pendingWriteItems : Int,
     writes : Seq(Nat)]

NoStream ==
    [backend |-> 0, receiveWindow |-> 0, sendCredit |-> 0,
     pendingWriteBytes |-> 0, pendingWriteCost |-> 0, pendingWriteItems |-> 0,
     writes |-> <<>>]

NewStream(b) ==
    [NoStream EXCEPT !.backend = b,
                     !.receiveWindow = InitialStreamWindow,
                     !.sendCredit = InitialStreamWindow]

Live(id) == streams[id].backend # 0
LiveIDs == {id \in StreamIDs : Live(id)}

\* A backendStream: its goroutine (phase; a connection that is "dialed" is not
\* yet stored in conn), its context and connection, the writer loop (w) with the bytes
\* of the current write still to send and the bytes the socket has just taken,
\* and the reader loop (r) with its allowance and the bytes just read.
BackendState ==
    [id : StreamIDs \cup {0},
     phase : {"unused", "dialing", "dialed", "running", "finished"},
     cancelled : BOOLEAN, conn : {"none", "open", "closed"},
     w : {"next", "write", "drain", "done"}, left : Int, wrote : Nat,
     r : {"ask", "read", "deliver", "done"}, allowance : Nat, got : Nat]

UnusedBackend ==
    [id |-> 0, phase |-> "unused", cancelled |-> FALSE, conn |-> "none",
     w |-> "next", left |-> 0, wrote |-> 0,
     r |-> "ask", allowance |-> 0, got |-> 0]

Unused == {b \in Backends : backends[b].phase = "unused"}

\* backendStream.close, once: cancels the context, then closes the connection if
\* one has been stored.  One step: connMu makes run store it before, to be
\* closed, or look at the context after.
ClosedBackend(b) ==
    [backends[b] EXCEPT !.cancelled = TRUE,
                        !.conn = IF @ = "open" /\ ~backends[b].cancelled THEN "closed" ELSE @]

\* newBackendStream: the next one in order.
NextBackend == CHOOSE b \in Unused : \A c \in Unused : b <= c

NoSnapshot == -1

\* The call in ProcessUp: parse runs without the mutex, validate and apply
\* with it; panic is a nil dereference that unwinds with the mutex held.
\* live[k] is the receive window validateBatchLocked has in its map for each
\* stream before frame k.
UpCall ==
    [pc : {"idle", "parse", "validate", "apply", "panic"},
     frames : Seq(ClientFrame), i : Nat,
     live : Seq([StreamIDs -> Int]), cost : Int, items : Int]

NoUpCall ==
    [pc |-> "idle", frames |-> <<>>, i |-> 0, live |-> <<>>,
     cost |-> 0, items |-> 0]

Locked == up.pc \in {"validate", "apply", "panic"}

--------------------------------------------------------------------------------
(* The pending budget of the session.                                      *)

Minus(a, b) == IF b >= a THEN 0 ELSE a - b

ControlReserveItems ==
    ControlReserveExtraItems + MaxStreamsPerSession * ControlReserveItemsPerStream
ControlReserveCost == ControlReserveItems * (QueueItemCost + HeaderSize + WindowSize)

UplinkReserveItems ==
    IF MaxBodyBytes \div HeaderSize > MaxBatchFrames
    THEN MaxBatchFrames ELSE MaxBodyBytes \div HeaderSize
UplinkReserveCost == MaxBodyBytes + UplinkReserveItems * QueueItemCost

UplinkCostLimit == Minus(MaxPendingPerSession, ControlReserveCost)
UplinkItemLimit == Minus(MaxPendingItemsPerSession, ControlReserveItems)
DownlinkCostLimit == Minus(UplinkCostLimit, UplinkReserveCost)
DownlinkItemLimit == Minus(UplinkItemLimit, UplinkReserveItems)

CostLimit(class) == CASE class = "uplink"   -> UplinkCostLimit
                      [] class = "downlink" -> DownlinkCostLimit
                      [] class = "control"  -> MaxPendingPerSession
ItemLimit(class) == CASE class = "uplink"   -> UplinkItemLimit
                      [] class = "downlink" -> DownlinkItemLimit
                      [] class = "control"  -> MaxPendingItemsPerSession

\* reservePendingLocked, with the session's charges at (atCost, atItems).
Reservable(cost, items, class, atCost, atItems) ==
    /\ cost > 0 /\ items >= 0
    /\ atCost + cost <= CostLimit(class)
    /\ atItems + items <= ItemLimit(class)

\* releasePendingLocked panics unless the release is covered; BudgetExact
\* says that it always is.
Releasable(cost, items) == cost \in 0 .. pendingCost /\ items \in 0 .. pendingItems

--------------------------------------------------------------------------------
(* The downlink queue.                                                     *)

QueuedFrame == [type : {"data", "window", "close"}, id : StreamIDs, n : Nat]

PayloadSize(f) == CASE f.type = "data"   -> f.n
                    [] f.type = "window" -> WindowSize
                    [] f.type = "close"  -> 0
EncodedSize(f) == HeaderSize + PayloadSize(f)
FrameCost(f) == EncodedSize(f) + QueueItemCost

SizeOf(frames) == SumOf([k \in DOMAIN frames |-> EncodedSize(frames[k])])
CostOf(frames) == SumOf([k \in DOMAIN frames |-> FrameCost(frames[k])])

\* queueFrameLocked adds a WINDOW delta to the one already queued for the stream...
MergesWindow(f) ==
    /\ f.type = "window"
    /\ pendingWindows[f.id] # 0
    /\ pendingFrames[pendingWindows[f.id]].n + f.n <= MaxUint32

\* ...and DATA to the last frame, when that is DATA of the same stream.
MergesData(f) ==
    /\ f.type = "data"
    /\ pendingFrames # <<>>
    /\ LET last == pendingFrames[Len(pendingFrames)]
       IN  last.type = "data" /\ last.id = f.id /\ last.n + f.n <= MaxFramePayload

QueueCost(f) == IF MergesWindow(f) THEN 0
                ELSE IF MergesData(f) THEN f.n ELSE FrameCost(f)
QueueItems(f) == IF MergesWindow(f) \/ MergesData(f) THEN 0 ELSE 1
QueueClass(f) == IF f.type = "data" THEN "downlink" ELSE "control"

\* queueFrameLocked succeeds or fails from charges (atCost, atItems): a merged
\* WINDOW needs no reservation.  answer is the process-wide budget's.
Queueable(f, answer, atCost, atItems) ==
    \/ MergesWindow(f)
    \/ answer /\ Reservable(QueueCost(f), QueueItems(f), QueueClass(f), atCost, atItems)

QueueFrame(f, atCost, atItems) ==
    /\ pendingCost' = atCost + QueueCost(f)
    /\ pendingItems' = atItems + QueueItems(f)
    /\ pendingFrames' =
         IF MergesWindow(f)
         THEN [pendingFrames EXCEPT ![pendingWindows[f.id]].n = @ + f.n]
         ELSE IF MergesData(f)
         THEN [pendingFrames EXCEPT ![Len(pendingFrames)].n = @ + f.n]
         ELSE Append(pendingFrames, f)
    /\ pendingWindows' =
         IF f.type = "window" /\ ~MergesWindow(f)
         THEN [pendingWindows EXCEPT ![f.id] = Len(pendingFrames) + 1]
         ELSE pendingWindows

\* What a refused frame leaves behind: the charges of the same critical section.
RefuseFrame(atCost, atItems) ==
    /\ pendingCost' = atCost /\ pendingItems' = atItems
    /\ UNCHANGED queueVars

\* takeDownBatchLocked: the longest prefix within the batch limits, at least
\* one frame.
FitsBatch(count) ==
    /\ count <= MaxBatchFrames
    /\ count = 1 \/ SizeOf(SubSeq(pendingFrames, 1, count)) <= CarrierBatchBytes

\* Mutant: the indices of pendingWindows do not move with the queue.
TakeDownBatchUnshifted(count) ==
    /\ FitsBatch(count)
    /\ count < Len(pendingFrames) => ~FitsBatch(count + 1)
    /\ unacked' = SubSeq(pendingFrames, 1, count)
    /\ unackedBase' = downCursor
    /\ downCursor' = downCursor + 1
    /\ downActive' = FALSE
    /\ pendingFrames' = SubSeq(pendingFrames, count + 1, Len(pendingFrames))
    /\ pendingWindows' = [id \in StreamIDs |->
          IF pendingWindows[id] <= count THEN 0 ELSE pendingWindows[id]]

TakeDownBatch(count) ==
    /\ FitsBatch(count)
    /\ count < Len(pendingFrames) => ~FitsBatch(count + 1)
    /\ unacked' = SubSeq(pendingFrames, 1, count)
    /\ unackedBase' = downCursor
    /\ downCursor' = downCursor + 1
    /\ downActive' = FALSE
    /\ pendingFrames' = SubSeq(pendingFrames, count + 1, Len(pendingFrames))
    /\ pendingWindows' = [id \in StreamIDs |->
          IF pendingWindows[id] <= count THEN 0 ELSE pendingWindows[id] - count]

--------------------------------------------------------------------------------
(* Tombstones.                                                             *)

\* Mutant: the id the ring drops stays in the set.
RememberClosedKeeps(id) ==
    IF id \in closedStreams
    THEN UNCHANGED tombVars
    ELSE /\ closedStreams' = closedStreams \cup {id}
         /\ IF Len(closedOrder) < MaxClosedStreamIDs
            THEN closedOrder' = Append(closedOrder, id) /\ UNCHANGED closedStart
            ELSE /\ closedOrder' = [closedOrder EXCEPT ![closedStart + 1] = id]
                 /\ closedStart' = (closedStart + 1) % Len(closedOrder)

\* rememberClosedLocked: a ring of the MaxClosedStreamIDs most recently closed
\* ids; the oldest one is forgotten when the ring is full.
RememberClosed(id) ==
    IF id \in closedStreams
    THEN UNCHANGED tombVars
    ELSE IF Len(closedOrder) < MaxClosedStreamIDs
    THEN /\ closedStreams' = closedStreams \cup {id}
         /\ closedOrder' = Append(closedOrder, id)
         /\ UNCHANGED closedStart
    ELSE LET old == closedOrder[closedStart + 1]
         IN  /\ closedStreams' = (closedStreams \cup {id}) \ {old}
             /\ closedOrder' = [closedOrder EXCEPT ![closedStart + 1] = id]
             /\ closedStart' = (closedStart + 1) % Len(closedOrder)

--------------------------------------------------------------------------------
(* Closing the session.                                                    *)

\* closeLocked, called with the session open.
CloseLocked ==
    /\ closed' = TRUE
    /\ closing' = FALSE
    /\ streams' = [id \in StreamIDs |-> NoStream]
    /\ backends' = [b \in Backends |->
          IF \E id \in StreamIDs : streams[id].backend = b
          THEN ClosedBackend(b) ELSE backends[b]]
    /\ pendingFrames' = <<>>
    /\ pendingWindows' = [id \in StreamIDs |-> 0]
    /\ pendingCost' = 0 /\ pendingItems' = 0
    /\ unacked' = <<>>

\* Close: the client's DELETE, idle cleanup, shutdown, the end of a WebSocket.
Close ==
    /\ ~Locked /\ ~closed
    /\ CloseLocked
    /\ UNCHANGED <<tombVars, unackedBase, downCursor, downActive, upVars>>

\* protocolFailure, or the Close that follows a batch that could not be applied.
ProtocolFailure == closing /\ Close

--------------------------------------------------------------------------------
(* ProcessUp.                                                              *)

\* A sequence that is neither the next one nor a byte-identical retry.
\* A matching retry, and a call that finds upActive, change nothing.
UpReject ==
    /\ ~Locked /\ ~closed /\ ~closing
    /\ \E sequence \in 0 .. lastUpSequence + 2, body \in Batches :
         \/ sequence = lastUpSequence /\ sequence # 0 /\ body # lastUpDigest
         \/ sequence # lastUpSequence /\ sequence # lastUpSequence + 1
         \/ sequence = 0
    /\ closing' = TRUE
    /\ UNCHANGED <<closed, streams, tombVars, queueVars, costVars, pollVars,
                   upVars, backends>>

\* The next sequence: set upActive and unlock to parse the body.
UpBegin(body) ==
    /\ ~Locked /\ ~closed
    /\ up.pc = "idle"
    /\ lastUpSequence < MaxUpSequence
    /\ Cardinality({k \in DOMAIN body : body[k].type = "open"}) <= Cardinality(Unused)
    /\ up' = [NoUpCall EXCEPT !.pc = "parse", !.frames = body]
    /\ UNCHANGED <<closeVars, streams, tombVars, queueVars, costVars, pollVars,
                   lastUpSequence, lastUpDigest, opens, backends>>

\* frame.ParseAll and frame.ValidateClientShape.
ValidateClientShape(f) ==
    \/ f.id = 0 /\ f.type = "pong"
    \/ f.id # 0 /\ f.type \in {"open", "close"} /\ f.n = 0
    \/ f.id # 0 /\ f.type \in {"data", "window"} /\ f.n # 0

WellFormed(frames) ==
    /\ Len(frames) \in 1 .. MaxBatchFrames
    /\ \A k \in DOMAIN frames :
         /\ ValidateClientShape(frames[k])
         /\ frames[k].type = "data" => frames[k].n <= MaxFramePayload

\* Mutant: the session is not looked at again after the unlocked parse.
UpRelockUnchecked ==
    /\ up.pc = "parse"
    /\ IF ~WellFormed(up.frames)
       THEN up' = NoUpCall /\ closing' = (closing \/ ~closed)
       ELSE /\ up' = [up EXCEPT
                 !.pc = "validate", !.i = 1,
                 !.live = << [id \in StreamIDs |->
                                IF Live(id) THEN streams[id].receiveWindow
                                ELSE NoSnapshot] >>]
            /\ UNCHANGED closing
    /\ UNCHANGED <<closed, streams, tombVars, queueVars, costVars, pollVars,
                   lastUpSequence, lastUpDigest, opens, backends>>

\* Relock: the session was closed meanwhile, or the body does not parse, or
\* validation starts from the current streams.
UpRelock ==
    /\ up.pc = "parse"
    /\ IF closed \/ ~WellFormed(up.frames)
       THEN /\ up' = NoUpCall
            /\ closing' = (closing \/ ~closed)
       ELSE /\ up' = [up EXCEPT
                 !.pc = "validate", !.i = 1,
                 !.live = << [id \in StreamIDs |->
                                IF Live(id) THEN streams[id].receiveWindow
                                ELSE NoSnapshot] >>]
            /\ UNCHANGED closing
    /\ UNCHANGED <<closed, streams, tombVars, queueVars, costVars, pollVars,
                   lastUpSequence, lastUpDigest, opens, backends>>

Current == up.frames[up.i]

\* closedStreams, or closed earlier in this batch.
WasClosed(id) ==
    \/ id \in closedStreams
    \/ \E k \in 1 .. up.i - 1 : up.frames[k].type = "close" /\ up.frames[k].id = id

\* Mutant: DATA is checked against the initial window, not what is left of it.
FrameValidInitialWindow(f) ==
    LET window == up.live[up.i][f.id]
    IN  \/ f.id = 0 /\ f.type = "pong"
        \/ f.id # 0 /\ f.type = "open" /\ window = NoSnapshot /\ ~WasClosed(f.id)
        \/ f.id # 0 /\ f.type \in {"data", "window", "close"} /\ WasClosed(f.id)
        \/ f.id # 0 /\ f.type = "data" /\ window # NoSnapshot
             /\ f.n <= InitialStreamWindow
        \/ f.id # 0 /\ f.type \in {"window", "close"} /\ window # NoSnapshot

\* validateBatchLocked, one frame of the loop, with the window the stream has
\* in the map (NoSnapshot when it has none).
FrameValid(f) ==
    LET window == up.live[up.i][f.id]
    IN  \/ f.id = 0 /\ f.type = "pong"
        \/ f.id # 0 /\ f.type = "open" /\ window = NoSnapshot /\ ~WasClosed(f.id)
        \/ f.id # 0 /\ f.type \in {"data", "window", "close"} /\ WasClosed(f.id)
        \/ f.id # 0 /\ f.type = "data" /\ window # NoSnapshot /\ f.n <= window
        \/ f.id # 0 /\ f.type \in {"window", "close"} /\ window # NoSnapshot

SnapshotAfter(live, f) ==
    IF f.id = 0 \/ WasClosed(f.id) THEN live
    ELSE CASE f.type = "open"   -> [live EXCEPT ![f.id] = InitialStreamWindow]
           [] f.type = "data"   -> [live EXCEPT ![f.id] = @ - f.n]
           [] f.type = "window" -> live
           [] f.type = "close"  -> [live EXCEPT ![f.id] = NoSnapshot]

\* backendWriteReservationLocked charges a DATA frame of a stream that is live
\* at that point of the batch.
ChargesWrite(f) == f.id # 0 /\ f.type = "data" /\ up.live[up.i][f.id] # NoSnapshot

UpValidateFrame ==
    /\ up.pc = "validate" /\ up.i <= Len(up.frames)
    /\ LET f == Current
       IN  IF FrameValid(f)
           THEN /\ up' = [up EXCEPT
                     !.i = @ + 1,
                     !.live = Append(@, SnapshotAfter(@[up.i], f)),
                     !.cost = @ + (IF ChargesWrite(f) THEN f.n + QueueItemCost ELSE 0),
                     !.items = @ + (IF ChargesWrite(f) THEN 1 ELSE 0)]
                /\ UNCHANGED closing
           ELSE up' = NoUpCall /\ closing' = TRUE
    /\ UNCHANGED <<closed, streams, tombVars, queueVars, costVars, pollVars,
                   lastUpSequence, lastUpDigest, opens, backends>>

\* The batch is valid: reserve its backend writes or answer ErrBackpressure.
UpReserve(answer) ==
    /\ up.pc = "validate" /\ up.i > Len(up.frames)
    /\ LET needed == up.cost # 0 \/ up.items # 0
           reserved == answer /\ Reservable(up.cost, up.items, "uplink",
                                            pendingCost, pendingItems)
       IN  IF needed /\ ~reserved
           THEN up' = NoUpCall /\ UNCHANGED costVars
           ELSE /\ up' = [up EXCEPT !.pc = "apply", !.i = 1]
                /\ pendingCost' = pendingCost + up.cost
                /\ pendingItems' = pendingItems + up.items
    /\ UNCHANGED <<closeVars, streams, tombVars, queueVars, pollVars,
                   lastUpSequence, lastUpDigest, opens, backends>>

Applying(type) ==
    /\ up.pc = "apply" /\ up.i <= Len(up.frames)
    /\ Current.id # 0 /\ Current.type = type

Applied == up' = [up EXCEPT !.i = @ + 1]

\* PONG, and DATA, WINDOW or CLOSE of a tombstoned stream.
UpSkip ==
    /\ up.pc = "apply" /\ up.i <= Len(up.frames)
    /\ \/ Current.id = 0
       \/ Current.id \in closedStreams /\ Current.type # "open"
    /\ Applied
    /\ UNCHANGED <<closeVars, streams, tombVars, queueVars, costVars, pollVars,
                   lastUpSequence, lastUpDigest, opens, backends>>

CountOpen(id) == opens' = [opens EXCEPT ![id] = IF @ = 0 THEN 1 ELSE 2]

\* OPEN within the limits: a stream and a backend goroutine.
UpOpen ==
    /\ Applying("open")
    /\ Cardinality(LiveIDs) < MaxStreamsPerSession
    /\ TRUE \in Answers
    /\ Unused # {}
    /\ LET b == NextBackend
       IN  /\ streams' = [streams EXCEPT ![Current.id] = NewStream(b)]
           /\ backends' = [backends EXCEPT ![b] =
                 [UnusedBackend EXCEPT !.id = Current.id, !.phase = "dialing"]]
    /\ CountOpen(Current.id) /\ Applied
    /\ UNCHANGED <<closeVars, tombVars, queueVars, costVars, pollVars,
                   lastUpSequence, lastUpDigest>>

\* OPEN over a limit: a tombstone and a CLOSE.  When even the CLOSE does not
\* fit, the unused reservation is released and the session will be closed.
UpOpenRejected(admitted, answer) ==
    LET f == [type |-> "close", id |-> Current.id, n |-> 0]
    IN  /\ Applying("open")
        /\ Cardinality(LiveIDs) >= MaxStreamsPerSession \/ ~admitted
        /\ RememberClosed(Current.id) /\ CountOpen(Current.id)
        /\ IF Queueable(f, answer, pendingCost, pendingItems)
           THEN /\ QueueFrame(f, pendingCost, pendingItems)
                /\ Applied /\ UNCHANGED closing
           ELSE /\ Releasable(up.cost, up.items)
                /\ RefuseFrame(pendingCost - up.cost, pendingItems - up.items)
                /\ up' = NoUpCall /\ closing' = TRUE
        /\ UNCHANGED <<closed, streams, pollVars, lastUpSequence, lastUpDigest,
                       backends>>

\* appendBackendWriteLocked joins the payload to the last queued write while
\* that stays within one chunk.
JoinsWrite(state, n) ==
    state.writes # <<>> /\ state.writes[Len(state.writes)] + n <= DataChunk

AppendBackendWrite(state, n) ==
    LET join == JoinsWrite(state, n)
        last == Len(state.writes)
    IN  [state EXCEPT
           !.writes = IF join THEN [state.writes EXCEPT ![last] = state.writes[last] + n]
                      ELSE Append(state.writes, n),
           !.pendingWriteBytes = @ + n,
           !.pendingWriteCost = @ + n + (IF join THEN 0 ELSE QueueItemCost),
           !.pendingWriteItems = @ + (IF join THEN 0 ELSE 1),
           !.receiveWindow = @ - n]

UpData ==
    /\ Applying("data")
    /\ Current.id \notin closedStreams /\ Live(Current.id)
    /\ LET state == streams[Current.id]
           join == JoinsWrite(state, Current.n)
       IN  /\ streams' = [streams EXCEPT ![Current.id] =
                            AppendBackendWrite(state, Current.n)]
           /\ up' = [up EXCEPT
                !.i = @ + 1,
                !.cost = @ - (Current.n + (IF join THEN 0 ELSE QueueItemCost)),
                !.items = @ - (IF join THEN 0 ELSE 1)]
    /\ UNCHANGED <<closeVars, tombVars, queueVars, costVars, pollVars,
                   lastUpSequence, lastUpDigest, opens, backends>>

UpWindow ==
    /\ Applying("window")
    /\ Current.id \notin closedStreams /\ Live(Current.id)
    /\ streams' = [streams EXCEPT ![Current.id].sendCredit =
                     IF @ + Current.n > MaxUint32 THEN MaxUint32 ELSE @ + Current.n]
    /\ Applied
    /\ UNCHANGED <<closeVars, tombVars, queueVars, costVars, pollVars,
                   lastUpSequence, lastUpDigest, opens, backends>>

\* releaseStreamWritesLocked: a stream's queued writes give back their charge.
WritesReleasable(state) ==
    Releasable(state.pendingWriteCost, state.pendingWriteItems)

\* CLOSE: the stream becomes a tombstone and its backend is closed.
UpClose ==
    /\ Applying("close")
    /\ Current.id \notin closedStreams /\ Live(Current.id)
    /\ LET state == streams[Current.id]
       IN  /\ WritesReleasable(state)
           /\ pendingCost' = pendingCost - state.pendingWriteCost
           /\ pendingItems' = pendingItems - state.pendingWriteItems
           /\ backends' = [backends EXCEPT ![state.backend] = ClosedBackend(state.backend)]
    /\ streams' = [streams EXCEPT ![Current.id] = NoStream]
    /\ RememberClosed(Current.id)
    /\ Applied
    /\ UNCHANGED <<closeVars, queueVars, pollVars, lastUpSequence, lastUpDigest, opens>>

\* A frame for a stream that has neither state nor tombstone: nil dereference.
UpPanic ==
    /\ up.pc = "apply" /\ up.i <= Len(up.frames)
    /\ Current.id # 0 /\ Current.type # "open"
    /\ Current.id \notin closedStreams /\ ~Live(Current.id)
    /\ up' = [up EXCEPT !.pc = "panic"]
    /\ UNCHANGED <<closeVars, streams, tombVars, queueVars, costVars, pollVars,
                   lastUpSequence, lastUpDigest, opens, backends>>

\* The whole batch is applied: release what coalescing saved and commit.
UpCommit ==
    /\ up.pc = "apply" /\ up.i > Len(up.frames)
    /\ Releasable(up.cost, up.items)
    /\ pendingCost' = pendingCost - up.cost
    /\ pendingItems' = pendingItems - up.items
    /\ lastUpSequence' = lastUpSequence + 1
    /\ lastUpDigest' = up.frames
    /\ up' = NoUpCall
    /\ UNCHANGED <<closeVars, streams, tombVars, queueVars, pollVars, opens, backends>>

--------------------------------------------------------------------------------
(* Poll.  Downlink.tla models who waits and who is superseded; here a poll *)
(* is parked (downActive) or not.  Replaying the unacknowledged batch, and *)
(* superseding an older poll, change nothing of this state.                *)

PollRejected ==
    /\ ~Locked /\ ~closed /\ ~closing
    /\ \E cursor \in 0 .. downCursor + 1 :
         cursor # downCursor /\ (unacked # <<>> => cursor # unackedBase)
    /\ closing' = TRUE
    /\ UNCHANGED <<closed, streams, tombVars, queueVars, costVars, pollVars,
                   upVars, backends>>

\* Mutant: the acknowledged batch keeps its item charge.
AcknowledgeLeaks ==
    /\ Releasable(CostOf(unacked), Len(unacked))
    /\ pendingCost' = pendingCost - CostOf(unacked)
    /\ UNCHANGED pendingItems

\* A poll with the current cursor acknowledges the last batch...
Acknowledge ==
    /\ Releasable(CostOf(unacked), Len(unacked))
    /\ pendingCost' = pendingCost - CostOf(unacked)
    /\ pendingItems' = pendingItems - Len(unacked)

\* ...and takes the next one, or parks when nothing is queued.
PollArrives(count) ==
    /\ ~Locked /\ ~closed
    /\ downCursor < MaxDownCursor
    /\ Acknowledge
    /\ TakeDownBatch(count)
    /\ UNCHANGED <<closeVars, streams, tombVars, upVars, backends>>

PollParks ==
    /\ ~Locked /\ ~closed
    /\ pendingFrames = <<>>
    /\ Acknowledge
    /\ unacked' = <<>> /\ downActive' = TRUE
    /\ UNCHANGED <<unackedBase, downCursor, queueVars>>
    /\ UNCHANGED <<closeVars, streams, tombVars, upVars, backends>>

\* The parked poll wakes up and finds frames.
PollTakes(count) ==
    /\ ~Locked /\ downActive
    /\ downCursor < MaxDownCursor
    /\ TakeDownBatch(count)
    /\ UNCHANGED <<closeVars, streams, tombVars, costVars, upVars, backends>>

\* Its request is cancelled, its deadline passes, or the session is closed.
PollLeaves ==
    /\ ~Locked /\ downActive
    /\ downActive' = FALSE
    /\ UNCHANGED <<closeVars, streams, tombVars, queueVars, costVars, unacked,
                   unackedBase, downCursor, upVars, backends>>

--------------------------------------------------------------------------------
(* backendStream: the goroutine that dials, its writer and its reader.     *)

Backend(b) == backends[b]
StreamOf(b) == streams[Backend(b).id]

\* run: DialContext succeeds, perhaps just as the context is cancelled...
BackendDialed(b) ==
    /\ Backend(b).phase = "dialing"
    /\ backends' = [backends EXCEPT ![b].phase = "dialed"]
    /\ UNCHANGED <<closeVars, streams, tombVars, queueVars, costVars, pollVars, upVars>>

\* Mutant: the context is not looked at again once connMu is held.
BackendStoresUnchecked(b) ==
    /\ Backend(b).phase = "dialed"
    /\ backends' = [backends EXCEPT ![b].phase = "running", ![b].conn = "open"]
    /\ UNCHANGED <<closeVars, streams, tombVars, queueVars, costVars, pollVars, upVars>>

\* ...and, under connMu, the connection is stored, or closed at once if the
\* stream has been closed meanwhile: then no loop ever runs.
BackendStores(b) ==
    /\ Backend(b).phase = "dialed"
    /\ backends' = [backends EXCEPT ![b] =
          IF @.cancelled THEN [@ EXCEPT !.phase = "running", !.w = "done", !.r = "done"]
          ELSE [@ EXCEPT !.phase = "running", !.conn = "open"]]
    /\ UNCHANGED <<closeVars, streams, tombVars, queueVars, costVars, pollVars, upVars>>

\* Or the dial fails or is cancelled.
BackendDialFailed(b) ==
    /\ Backend(b).phase = "dialing"
    /\ backends' = [backends EXCEPT ![b].phase = "running",
                                    ![b].w = "done", ![b].r = "done"]
    /\ UNCHANGED <<closeVars, streams, tombVars, queueVars, costVars, pollVars, upVars>>

Writing(b, pc) == Backend(b).phase = "running" /\ Backend(b).w = pc
Reading(b, pc) == Backend(b).phase = "running" /\ Backend(b).r = pc

\* A loop returns and its goroutine calls backendStream.close.
\* Its locals are dead and are reset.
WriterExits(b) ==
    backends' = [backends EXCEPT ![b] =
                   [ClosedBackend(b) EXCEPT !.w = "done", !.left = 0, !.wrote = 0]]
ReaderExits(b) ==
    backends' = [backends EXCEPT ![b] =
                   [ClosedBackend(b) EXCEPT !.r = "done", !.allowance = 0, !.got = 0]]

NextWrite(b) ==
    /\ ~Locked /\ Writing(b, "next")
    /\ LET id == Backend(b).id
           state == StreamOf(b)
       IN  IF ~closed /\ Live(id) /\ state.writes # <<>>
           THEN /\ backends' = [backends EXCEPT ![b].w = "write",
                                                ![b].left = Head(state.writes)]
                /\ streams' = [streams EXCEPT ![id].writes = Tail(@)]
           ELSE /\ closed \/ ~Live(id) \/ Backend(b).cancelled
                /\ WriterExits(b)
                /\ UNCHANGED streams
    /\ UNCHANGED <<closeVars, tombVars, queueVars, costVars, pollVars, upVars>>

\* connection.Write takes some of the bytes...
BackendWrite(b, n) ==
    /\ Writing(b, "write") /\ Backend(b).conn = "open"
    /\ backends' = [backends EXCEPT ![b].w = "drain", ![b].wrote = n]
    /\ UNCHANGED <<closeVars, streams, tombVars, queueVars, costVars, pollVars, upVars>>

\* ...or fails.
BackendWriteFails(b) ==
    /\ Writing(b, "write")
    /\ WriterExits(b)
    /\ UNCHANGED <<closeVars, streams, tombVars, queueVars, costVars, pollVars, upVars>>

Drainable(state, n) ==
    /\ n > 0 /\ n <= state.pendingWriteBytes /\ n <= state.pendingWriteCost
    /\ state.receiveWindow + n <= InitialStreamWindow

\* backendDrained: release the bytes, reopen the window, queue WINDOW.
BackendDrained(b, answer) ==
    LET id == Backend(b).id
        n == Backend(b).wrote
        f == [type |-> "window", id |-> id, n |-> n]
    IN  /\ ~Locked /\ Writing(b, "drain")
        /\ IF closed \/ ~Live(id) \/ ~Drainable(StreamOf(b), n)
           THEN WriterExits(b) /\ UNCHANGED <<streams, queueVars, costVars>>
           ELSE /\ Releasable(n, 0)
                /\ streams' = [streams EXCEPT ![id].pendingWriteBytes = @ - n,
                                              ![id].pendingWriteCost = @ - n,
                                              ![id].receiveWindow = @ + n]
                /\ IF Queueable(f, answer, pendingCost - n, pendingItems)
                   THEN /\ QueueFrame(f, pendingCost - n, pendingItems)
                        /\ backends' = [backends EXCEPT ![b].w = "write",
                                                        ![b].left = @ - n,
                                                        ![b].wrote = 0]
                   ELSE RefuseFrame(pendingCost - n, pendingItems) /\ WriterExits(b)
        /\ UNCHANGED <<closeVars, tombVars, pollVars, upVars>>

\* backendWriteFinished: the write is complete, release its item.
BackendWriteFinished(b) ==
    LET id == Backend(b).id
        state == StreamOf(b)
    IN  /\ ~Locked /\ Writing(b, "write") /\ Backend(b).left = 0
        /\ IF closed \/ ~Live(id) \/ state.pendingWriteItems = 0
              \/ state.pendingWriteCost < QueueItemCost
           THEN WriterExits(b) /\ UNCHANGED <<streams, costVars>>
           ELSE /\ Releasable(QueueItemCost, 1)
                /\ streams' = [streams EXCEPT ![id].pendingWriteItems = @ - 1,
                                              ![id].pendingWriteCost = @ - QueueItemCost]
                /\ pendingCost' = pendingCost - QueueItemCost
                /\ pendingItems' = pendingItems - 1
                /\ backends' = [backends EXCEPT ![b].w = "next"]
        /\ UNCHANGED <<closeVars, tombVars, queueVars, pollVars, upVars>>

Smallest(S) == CHOOSE x \in S : \A y \in S : x <= y

\* Mutant: a full partition is not told from one with room.
DataFrameAllowanceUnclamped(limit) ==
    Smallest({limit, DownlinkCostLimit - pendingCost - QueueItemCost - HeaderSize})

\* dataFrameAllowanceLocked: what the downlink partition has room for now.
DataFrameAllowance(limit) ==
    LET available == DownlinkCostLimit - pendingCost - QueueItemCost - HeaderSize
    IN  IF pendingItems >= DownlinkItemLimit \/ available <= 0
        THEN 0 ELSE Smallest({limit, available})

ReadAllowance(state) == DataFrameAllowance(Smallest({state.sendCredit, DataChunk}))

NextReadAllowance(b) ==
    LET id == Backend(b).id
        allowed == IF closed \/ ~Live(id) THEN 0 ELSE ReadAllowance(StreamOf(b))
    IN  /\ ~Locked /\ Reading(b, "ask")
        /\ IF allowed # 0
           THEN backends' = [backends EXCEPT ![b].r = "read", ![b].allowance = allowed]
           ELSE /\ closed \/ ~Live(id) \/ Backend(b).cancelled
                /\ ReaderExits(b)
        /\ UNCHANGED <<closeVars, streams, tombVars, queueVars, costVars, pollVars, upVars>>

\* connection.Read returns some bytes...
BackendRead(b, n) ==
    /\ Reading(b, "read") /\ Backend(b).conn = "open"
    /\ backends' = [backends EXCEPT ![b].r = "deliver", ![b].got = n,
                                    ![b].allowance = 0]
    /\ UNCHANGED <<closeVars, streams, tombVars, queueVars, costVars, pollVars, upVars>>

\* ...or EOF or an error.
BackendReadEnds(b) ==
    /\ Reading(b, "read")
    /\ ReaderExits(b)
    /\ UNCHANGED <<closeVars, streams, tombVars, queueVars, costVars, pollVars, upVars>>

\* backendData: spend the client's credit and queue DATA.
BackendData(b, answer) ==
    LET id == Backend(b).id
        n == Backend(b).got
        f == [type |-> "data", id |-> id, n |-> n]
    IN  /\ ~Locked /\ Reading(b, "deliver")
        /\ IF closed \/ ~Live(id) \/ n > StreamOf(b).sendCredit
           THEN ReaderExits(b) /\ UNCHANGED <<streams, queueVars, costVars>>
           ELSE /\ streams' = [streams EXCEPT ![id].sendCredit = @ - n]
                /\ IF Queueable(f, answer, pendingCost, pendingItems)
                   THEN /\ QueueFrame(f, pendingCost, pendingItems)
                        /\ backends' = [backends EXCEPT ![b].r = "ask", ![b].got = 0]
                   ELSE RefuseFrame(pendingCost, pendingItems) /\ ReaderExits(b)
        /\ UNCHANGED <<closeVars, tombVars, pollVars, upVars>>

BackendEnding(b) ==
    ~Locked /\ Writing(b, "done") /\ Reading(b, "done")

\* backendClosed when its stream is gone (or the id belongs to another
\* backend): only the goroutine ends.
BackendGone(b) ==
    /\ BackendEnding(b)
    /\ closed \/ StreamOf(b).backend # b
    /\ backends' = [backends EXCEPT ![b].phase = "finished", ![b].cancelled = TRUE]
    /\ UNCHANGED <<closeVars, streams, tombVars, queueVars, costVars, pollVars, upVars>>

\* backendClosed otherwise: tombstone and CLOSE...
BackendClosed(b, answer) ==
    LET id == Backend(b).id
        state == StreamOf(b)
        f == [type |-> "close", id |-> id, n |-> 0]
        atCost == pendingCost - state.pendingWriteCost
        atItems == pendingItems - state.pendingWriteItems
    IN  /\ BackendEnding(b) /\ ~closed /\ state.backend = b
        /\ WritesReleasable(state)
        /\ Queueable(f, answer, atCost, atItems)
        /\ QueueFrame(f, atCost, atItems)
        /\ streams' = [streams EXCEPT ![id] = NoStream]
        /\ RememberClosed(id)
        /\ backends' = [backends EXCEPT ![b].phase = "finished", ![b].cancelled = TRUE]
        /\ UNCHANGED <<closeVars, pollVars, upVars>>

\* ...and when the CLOSE does not fit, the session is closed in the same
\* critical section.
BackendClosedFails(b, answer) ==
    LET id == Backend(b).id
        state == StreamOf(b)
        f == [type |-> "close", id |-> id, n |-> 0]
    IN  /\ BackendEnding(b) /\ ~closed /\ state.backend = b
        /\ WritesReleasable(state)
        /\ ~Queueable(f, answer, pendingCost - state.pendingWriteCost,
                                 pendingItems - state.pendingWriteItems)
        /\ RememberClosed(id)
        /\ closed' = TRUE /\ closing' = FALSE
        /\ streams' = [i \in StreamIDs |-> NoStream]
        /\ backends' = [c \in Backends |->
              IF c = b THEN [Backend(b) EXCEPT !.phase = "finished", !.cancelled = TRUE]
              ELSE IF \E i \in StreamIDs : streams[i].backend = c
              THEN ClosedBackend(c) ELSE Backend(c)]
        /\ pendingFrames' = <<>>
        /\ pendingWindows' = [i \in StreamIDs |-> 0]
        /\ pendingCost' = 0 /\ pendingItems' = 0
        /\ unacked' = <<>>
        /\ UNCHANGED <<unackedBase, downCursor, downActive, upVars>>

--------------------------------------------------------------------------------
Init ==
    /\ closed = FALSE /\ closing = FALSE
    /\ streams = [id \in StreamIDs |-> NoStream]
    /\ closedStreams = {} /\ closedOrder = <<>> /\ closedStart = 0
    /\ pendingFrames = <<>>
    /\ pendingWindows = [id \in StreamIDs |-> 0]
    /\ pendingCost = 0 /\ pendingItems = 0
    /\ unacked = <<>> /\ unackedBase = 0 /\ downCursor = 0 /\ downActive = FALSE
    /\ lastUpSequence = 0 /\ lastUpDigest = <<>> /\ up = NoUpCall
    /\ backends = [b \in Backends |-> UnusedBackend] /\ opens = [id \in StreamIDs |-> 0]

ProcessUp ==
    \/ UpReject
    \/ \E body \in Batches : UpBegin(body)
    \/ UpRelock
    \/ UpValidateFrame
    \/ \E answer \in Answers : UpReserve(answer)
    \/ UpSkip
    \/ UpOpen
    \/ \E admitted \in Answers, answer \in Answers : UpOpenRejected(admitted, answer)
    \/ UpData
    \/ UpWindow
    \/ UpClose
    \/ UpPanic
    \/ UpCommit

PollStep ==
    \/ PollRejected
    \/ \E count \in 1 .. Len(pendingFrames) : PollArrives(count)
    \/ PollParks
    \/ \E count \in 1 .. Len(pendingFrames) : PollTakes(count)
    \/ PollLeaves

BackendStep(b) ==
    \/ BackendDialed(b) \/ BackendDialFailed(b) \/ BackendStores(b)
    \/ NextWrite(b)
    \/ \E n \in 1 .. Backend(b).left : BackendWrite(b, n)
    \/ BackendWriteFails(b)
    \/ \E answer \in Answers : BackendDrained(b, answer)
    \/ BackendWriteFinished(b)
    \/ NextReadAllowance(b)
    \/ \E n \in 1 .. Backend(b).allowance : BackendRead(b, n)
    \/ BackendReadEnds(b)
    \/ \E answer \in Answers : BackendData(b, answer)
    \/ BackendGone(b)
    \/ \E answer \in Answers : BackendClosed(b, answer)
    \/ \E answer \in Answers : BackendClosedFails(b, answer)

Next == Close \/ ProtocolFailure \/ ProcessUp \/ PollStep \/ \E b \in Backends : BackendStep(b)

Spec == Init /\ [][Next]_vars

\* The Go scheduler runs every goroutine that can run, and sync.Mutex hands
\* itself to a waiter it has starved, so a step that waits for the mutex is
\* strongly fair.  A dial ends by its timeout; a Read or Write on a closed
\* connection returns, one on an open connection may block for ever.
UpHeld ==
    \/ UpRelock
    \/ UpValidateFrame
    \/ \E answer \in Answers : UpReserve(answer)
    \/ UpSkip
    \/ UpOpen
    \/ \E admitted \in Answers, answer \in Answers : UpOpenRejected(admitted, answer)
    \/ UpData
    \/ UpWindow
    \/ UpClose
    \/ UpCommit

WriterRuns(b) ==
    \/ NextWrite(b)
    \/ Backend(b).conn = "closed" /\ BackendWriteFails(b)
    \/ \E answer \in Answers : BackendDrained(b, answer)
    \/ BackendWriteFinished(b)

ReaderRuns(b) ==
    \/ NextReadAllowance(b)
    \/ Backend(b).conn = "closed" /\ BackendReadEnds(b)
    \/ \E answer \in Answers : BackendData(b, answer)

BackendEnds(b) ==
    \/ BackendGone(b)
    \/ \E answer \in Answers : BackendClosed(b, answer) \/ BackendClosedFails(b, answer)

Fairness ==
    /\ SF_vars(ProtocolFailure)
    /\ WF_vars(UpHeld)
    /\ \A b \in Backends :
         /\ WF_vars(BackendDialed(b) \/ BackendDialFailed(b)) /\ WF_vars(BackendStores(b))
         /\ SF_vars(WriterRuns(b))
         /\ SF_vars(ReaderRuns(b))
         /\ SF_vars(BackendEnds(b))

FairSpec == Spec /\ Fairness
--------------------------------------------------------------------------------
(* Properties.                                                             *)

TypeOK ==
    /\ closed \in BOOLEAN /\ closing \in BOOLEAN
    /\ streams \in [StreamIDs -> StreamState]
    /\ closedStreams \in SUBSET StreamIDs
    /\ closedOrder \in Seq(StreamIDs) /\ closedStart \in Nat
    /\ pendingFrames \in Seq(QueuedFrame)
    /\ pendingWindows \in [StreamIDs -> Nat]
    /\ pendingCost \in Nat /\ pendingItems \in Nat
    /\ unacked \in Seq(QueuedFrame)
    /\ unackedBase \in Nat /\ downCursor \in Nat /\ downActive \in BOOLEAN
    /\ lastUpSequence \in Nat /\ lastUpDigest \in Seq(ClientFrame)
    /\ up \in UpCall
    /\ backends \in [Backends -> BackendState] /\ opens \in [StreamIDs -> 0 .. 2]

\* The flow-control ledger of a stream: what the client may still send plus
\* what the relay holds for the backend is the initial window, the charge is
\* the bytes plus an item cost for every write, the writes are those queued
\* plus the one the writer has in hand, and no part is negative
\* (receiveWindow is a uint32: a DATA frame let past validateBatchLocked would
\* wrap it).  Which writer has what holds of an id that is opened once, as
\* PROTOCOL.md demands: nextWrite looks a stream up by its id, so the writer of
\* a forgotten stream may take a write of the next stream with that id.
StreamLedger ==
    \A id \in LiveIDs :
      LET s == streams[id]
          b == backends[s.backend]
          inHand == b.phase = "running" /\ b.w \in {"write", "drain"}
      IN  /\ s.receiveWindow + s.pendingWriteBytes = InitialStreamWindow
          /\ s.pendingWriteCost = s.pendingWriteBytes + QueueItemCost * s.pendingWriteItems
          /\ s.receiveWindow >= 0 /\ s.pendingWriteBytes >= 0
          /\ s.pendingWriteItems >= 0
          /\ b.w # "done" /\ opens[id] = 1 =>
               /\ s.pendingWriteItems = Len(s.writes) + (IF inHand THEN 1 ELSE 0)
               /\ s.pendingWriteBytes = SumOf(s.writes) + (IF inHand THEN b.left ELSE 0)

\* The session's charge is exactly what it holds: queued frames, the batch
\* awaiting acknowledgement, backend writes and the reservation of a batch
\* being applied (releasePendingLocked panics when this fails); and a closed
\* session holds nothing, whatever its goroutines do afterwards.
BudgetExact ==
    LET held == IF up.pc \in {"apply", "panic"} THEN up ELSE NoUpCall
    IN  /\ pendingCost = CostOf(pendingFrames) + CostOf(unacked) + held.cost
              + Total(StreamIDs, [id \in StreamIDs |-> streams[id].pendingWriteCost])
        /\ pendingItems = Len(pendingFrames) + Len(unacked) + held.items
              + Total(StreamIDs, [id \in StreamIDs |-> streams[id].pendingWriteItems])
        /\ closed => /\ pendingCost = 0 /\ pendingItems = 0
                     /\ LiveIDs = {} /\ pendingFrames = <<>> /\ unacked = <<>>

IsWindow(f, id) == f.type = "window" /\ f.id = id

\* pendingWindows points at the last WINDOW frame of its stream, as long as one
\* is queued, and grants never pile up: two WINDOWs of one stream that follow
\* each other would together exceed a uint32.
WindowsIndexed ==
    /\ \A id \in StreamIDs : pendingWindows[id] # 0 =>
         /\ pendingWindows[id] <= Len(pendingFrames)
         /\ pendingFrames[pendingWindows[id]].type = "window"
         /\ pendingFrames[pendingWindows[id]].id = id
    /\ \A k \in DOMAIN pendingFrames :
         pendingFrames[k].type = "window" => k <= pendingWindows[pendingFrames[k].id]
    /\ \A j, k \in DOMAIN pendingFrames :
         /\ j < k /\ IsWindow(pendingFrames[j], pendingFrames[k].id)
         /\ IsWindow(pendingFrames[k], pendingFrames[k].id)
         /\ \A m \in j + 1 .. k - 1 : ~IsWindow(pendingFrames[m], pendingFrames[k].id)
         => pendingFrames[j].n + pendingFrames[k].n > MaxUint32

\* The tombstones are the ids of the ring, each once, and no live stream is one.
TombstoneRing ==
    /\ closedStreams = {closedOrder[k] : k \in DOMAIN closedOrder}
    /\ \A j, k \in DOMAIN closedOrder : closedOrder[j] = closedOrder[k] => j = k
    /\ Len(closedOrder) <= MaxClosedStreamIDs
    /\ LiveIDs \cap closedStreams = {}

\* Nothing follows the CLOSE of a stream on the downlink, neither in the
\* replayable batch nor in the queue, unless its id has been opened again.
NothingAfterClose ==
    LET down == unacked \o pendingFrames
    IN  \A j, k \in DOMAIN down :
          j < k /\ down[j].type = "close" /\ down[k].id = down[j].id =>
            opens[down[j].id] = 2

\* The downlink queue is in order: nothing follows a CLOSE, and the grants that
\* backendDrained coalesces are found where pendingWindows says, also after
\* nextBatchLocked took frames from the front or a closing stream was filtered
\* out.
QueueWellFormed == NothingAfterClose /\ WindowsIndexed

\* PROTOCOL.md: late DATA, WINDOW or CLOSE frames of a tombstoned stream are
\* ignored: applying a validated batch never meets a stream it knows nothing of.
ValidatedBatchApplies == up.pc # "panic"

\* PROTOCOL.md: "Backend reads pause when the downlink DATA partition is full":
\* bytes read under an allowance of nextReadAllowance still fit the partition
\* when backendData queues them, so no stream is closed for lack of room.  (They
\* need not: nothing is reserved, and the stream's own WINDOW, queued by its
\* writer between the read and its delivery, can use the room.)
AllowedReadsFit ==
    \A b \in Backends :
      LET f == [type |-> "data", id |-> backends[b].id, n |-> backends[b].got]
      IN  /\ backends[b].phase = "running" /\ backends[b].r = "deliver"
          /\ ~closed /\ Live(f.id) /\ f.n <= streams[f.id].sendCredit
          => Queueable(f, TRUE, pendingCost, pendingItems)

\* Once anything closes a backend (the client, the session, or one of its own
\* loops returning), both loops and the goroutine end, so that Session.wait
\* and a shutdown do not hang, and its connection has been closed by then, even
\* one that DialContext returned just as the stream was cancelled.
CancelledBackendsEnd ==
    \A b \in Backends :
      backends[b].cancelled ~> backends[b].phase = "finished" /\ backends[b].conn # "open"
================================================================================
