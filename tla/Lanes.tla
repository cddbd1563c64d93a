--------------------------------- MODULE Lanes ---------------------------------
(***************************************************************************)
(* One relay session whose carrier gives every stream a lane of its own    *)
(* (modes https-lanes and websocket-lanes): the lanes of                   *)
(* internal/session/session.go, and for websocket-lanes the handler with   *)
(* its reader and writer goroutines of internal/server/server.go.          *)
(*                                                                         *)
(* An action is one critical section of Session.mu or one step of a        *)
(* goroutine outside it.  A lane is an object: a poll keeps its pointer    *)
(* while the session forgets the lane and perhaps makes a new one for the  *)
(* same id.  Of the flow control only the charges are kept (Session.tla    *)
(* has the ledgers): a queued frame costs one unit and a DATA frame one    *)
(* more per payload byte; every read and every uplink DATA frame carries   *)
(* one byte.  lane.upActive is set and cleared in one critical section.    *)
(***************************************************************************)
EXTENDS Integers, Sequences, FiniteSets, SequencesExt, FiniteSetsExt, Functions, Sums

CONSTANTS
    Carrier,               \* "https-lanes" or "websocket-lanes"
    StreamIDs,             \* the ids a client uses, positive integers
    Batches,               \* bodies: sequences of frame types, all of one lane
    Requests,              \* https-lanes: polls that may be under way at once
    Conns,                 \* websocket-lanes: sockets that may exist at once
    None,
    MaxStreamsPerSession, MaxClosedStreamIDs,
    MaxPending, UplinkLimit, DownlinkLimit,   \* the partitions of the budget
    MaxFramePayload, MaxBatchFrames, MaxUint32,
    MaxLanes, MaxUpSequence, MaxDownCursor    \* bounds of the model: lanes ever
                                              \* made, batches and batches down

FrameTypes == {"open", "data", "window", "close", "pong", "bad"}

ASSUME CarrierAssumption == Carrier \in {"https-lanes", "websocket-lanes"}
ASSUME LaneIDAssumption == StreamIDs \subseteq Nat \ {0} /\ IsFiniteSet(StreamIDs)
ASSUME LaneNoneAssumption == None \notin Nat /\ None \notin Requests \cup Conns
ASSUME LaneBatchAssumption == Batches \subseteq Seq(FrameTypes)
ASSUME LaneLimitAssumption ==
    /\ {MaxStreamsPerSession, MaxClosedStreamIDs, MaxFramePayload, MaxBatchFrames,
        MaxUint32, MaxLanes} \subseteq Nat \ {0}
    /\ {MaxPending, UplinkLimit, DownlinkLimit, MaxUpSequence, MaxDownCursor}
         \subseteq Nat
    /\ DownlinkLimit <= UplinkLimit /\ UplinkLimit <= MaxPending

WebSockets == Carrier = "websocket-lanes"
LaneIDs == StreamIDs \cup {0}
Objects == 1 .. MaxLanes
Pollers == IF WebSockets THEN Conns ELSE Requests

VARIABLES
    closed,         \* Session.closed
    closing,        \* a call has unlocked and is about to close the session
    carrierLanes,   \* Session.carrierLanes: the object of each id, or None
    lanes,          \* the carrierLane objects
    made,           \* how many of them have been made
    writeCost,      \* streamState.pendingWriteCost of each live stream, or None
    tombstones,     \* closedStreams in the order of closedOrder, oldest first
    pendingCost,    \* Session.pendingCost
    polls,          \* the PollLane calls: of requests, or of the writers
    conns           \* the WebSocket handlers and their readers

sessionVars == <<closed, closing, carrierLanes, lanes, made, writeCost, tombstones,
                 pendingCost>>
vars == <<sessionVars, polls, conns>>

Live(id) == id # 0 /\ writeCost[id] # None
LiveIDs == {id \in StreamIDs : Live(id)}
Tombstoned(id) == Contains(tombstones, id)

--------------------------------------------------------------------------------
(* Lanes.                                                                  *)

Frame == [type : {"data", "window", "close"}, n : Nat]

Lane ==
    [lastUpSequence : Nat, lastUpDigest : Seq(FrameTypes), websocketActive : BOOLEAN,
     frames : Seq(Frame), unacked : Seq(Frame), unackedBase : Nat, downCursor : Nat,
     downActive : BOOLEAN, superseded : Pollers \cup {None}, notify : BOOLEAN]

NewLane ==
    [lastUpSequence |-> 0, lastUpDigest |-> <<>>, websocketActive |-> FALSE,
     frames |-> <<>>, unacked |-> <<>>, unackedBase |-> 0, downCursor |-> 0,
     downActive |-> FALSE, superseded |-> None, notify |-> FALSE]

\* newCarrierLane: the objects in the order they are made.
Fresh == made + 1

FrameCost(f) == IF f.type = "data" THEN 1 + f.n ELSE 1
CostOf(frames) == Total(DOMAIN frames, [i \in DOMAIN frames |-> FrameCost(frames[i])])
LaneCost(l) == CostOf(l.frames) + CostOf(l.unacked)

\* What closeLocked leaves of a lane.
Emptied(l) == [l EXCEPT !.frames = <<>>, !.unacked = <<>>, !.notify = TRUE]

\* Mutant: the frames and the charge stay with the forgotten lane.
ForgottenUnemptied(l) == [l EXCEPT !.notify = TRUE]

\* What releaseLaneLocked leaves of a lane the session forgets.  Only polls
\* still refer to it, so only what they look at is kept.
Forgotten(l) ==
    [NewLane EXCEPT !.notify = TRUE, !.downActive = l.downActive,
                    !.superseded = l.superseded]

\* queueLaneFrameLocked: where a frame of type t with one byte joins.
JoinsAt(frames, t) ==
    {i \in DOMAIN frames :
       /\ frames[i].type = t
       /\ \/ t = "window" /\ frames[i].n + 1 <= MaxUint32
          \/ t = "data" /\ i = Len(frames) /\ frames[i].n + 1 <= MaxFramePayload}

QueueCost(l, t) ==
    IF JoinsAt(l.frames, t) = {} THEN FrameCost([type |-> t, n |-> 1])
    ELSE IF t = "window" THEN 0 ELSE 1

\* Mutant: the frame is queued and nobody is told.
QueuedSilently(l, t) == [l EXCEPT !.frames = Append(@, [type |-> t, n |-> 1])]

Joined(frames, t) ==
    LET at == JoinsAt(frames, t)
    IN  IF at = {} THEN Append(frames, [type |-> t, n |-> 1])
        ELSE [frames EXCEPT ![Max(at)].n = @ + 1]

Queued(l, t) == [l EXCEPT !.notify = TRUE, !.frames = Joined(l.frames, t)]

\* reservePendingLocked with held charged so far.  The manager's budget may
\* refuse whatever is asked for; a WINDOW that joins another asks for nothing.
Limit(class) ==
    CASE class = "control" -> MaxPending
      [] class = "uplink" -> UplinkLimit
      [] class = "downlink" -> DownlinkLimit
Reservable(held, cost, class) == cost = 0 \/ held + cost <= Limit(class)
Refusable(cost) == cost # 0

--------------------------------------------------------------------------------
(* Tombstones, releases and closing.                                       *)

\* rememberClosedLocked(id): the id whose tombstone and lane are dropped.
Evicted(id) ==
    IF Tombstoned(id) \/ Len(tombstones) < MaxClosedStreamIDs THEN {}
    ELSE {Head(tombstones)}

EvictedLanes(id) == {carrierLanes[old] : old \in Evicted(id)} \ {None}

\* Mutants: an eviction returns nothing, or everything twice.
EvictedCostKept(id) == 0
EvictedCostTwice(id) ==
    2 * Total(EvictedLanes(id), [o \in EvictedLanes(id) |-> LaneCost(lanes[o])])

EvictedCost(id) == Total(EvictedLanes(id), [o \in EvictedLanes(id) |-> LaneCost(lanes[o])])

Remembered(id) ==
    IF Tombstoned(id) THEN tombstones
    ELSE Append(IF Evicted(id) = {} THEN tombstones ELSE Tail(tombstones), id)

\* id, whose lane is object o and becomes own, is remembered as closed.
RememberClosed(id, o, own) ==
    /\ tombstones' = Remembered(id)
    /\ carrierLanes' = [i \in LaneIDs |->
         IF i = id THEN o ELSE IF i \in Evicted(id) THEN None ELSE carrierLanes[i]]
    /\ lanes' = [k \in Objects |->
         IF k = o THEN [own EXCEPT !.notify = TRUE]
         ELSE IF k \in EvictedLanes(id) THEN Forgotten(lanes[k]) ELSE lanes[k]]

\* ReleaseWebSocketLane, which does nothing without a lane.
ReleaseWebSocketLane(id) ==
    LET o == carrierLanes[id]
        gone == Live(id) /\ o # None
    IN  /\ tombstones' = IF gone THEN Remembered(id) ELSE tombstones
        /\ writeCost' = IF gone THEN [writeCost EXCEPT ![id] = None] ELSE writeCost
        /\ carrierLanes' = [i \in LaneIDs |->
             IF i = id \/ (gone /\ i \in Evicted(id)) THEN None ELSE carrierLanes[i]]
        /\ lanes' = [k \in Objects |->
             IF k = o \/ (gone /\ k \in EvictedLanes(id)) THEN Forgotten(lanes[k])
             ELSE lanes[k]]
        /\ pendingCost' = pendingCost
             - (IF o = None THEN 0 ELSE LaneCost(lanes[o]))
             - (IF gone THEN writeCost[id] + EvictedCost(id) ELSE 0)
        /\ UNCHANGED <<closed, closing, made>>

\* closeLocked: every lane is emptied and woken and every stream dropped.
CloseLocked ==
    /\ closed' = TRUE
    /\ lanes' = [k \in Objects |->
         IF k \in Range(carrierLanes) THEN Emptied(lanes[k]) ELSE lanes[k]]
    /\ writeCost' = [id \in StreamIDs |-> None]
    /\ pendingCost' = 0
    /\ closing' = FALSE
    /\ UNCHANGED <<carrierLanes, made, tombstones>>

\* Close and protocolFailure: of a call that has failed, or from outside.
Close ==
    /\ ~closed
    /\ CloseLocked
    /\ UNCHANGED <<polls, conns>>

--------------------------------------------------------------------------------
(* ProcessUpLane.  res is what the caller goes on with.                    *)

\* ParseAll, ValidateClientShape and the stream id of every frame.
Parses(id, body) ==
    /\ body # <<>>
    /\ Range(body) \subseteq (IF id = 0 THEN {"pong"}
                              ELSE {"open", "data", "window", "close"})

OnlyLateFrames(body) == Range(body) \subseteq {"data", "window", "close"}

\* The lane ProcessUpLane goes on with: the one there is, or a new one.
LaneFor(id) == IF carrierLanes[id] = None THEN Fresh ELSE carrierLanes[id]
LaneState(id) == IF carrierLanes[id] = None THEN NewLane ELSE lanes[carrierLanes[id]]
Makes(id) == made' = IF carrierLanes[id] = None THEN made + 1 ELSE made
HasLaneFor(id, body) ==
    \/ carrierLanes[id] # None
    \/ id # 0 /\ Head(body) = "open" /\ made < MaxLanes

InOrder(id, seq) == seq = LaneState(id).lastUpSequence + 1

\* Mutant: tombstones are not looked at.
ValidBatchReopens(id, body) ==
    \/ id = 0
    \/ /\ \A i \in DOMAIN body : body[i] = "open" => i = 1
       /\ Head(body) = "open" <=> ~Live(id)

\* Of one id: an OPEN only first, and only for an id that is neither live nor
\* remembered; anything else only for one that is.
ValidBatch(id, body) ==
    \/ id = 0
    \/ /\ \A i \in DOMAIN body : body[i] = "open" => i = 1
       /\ Head(body) = "open" <=> ~Live(id) /\ ~Tombstoned(id)

\* backendWriteReservationLocked: two units for each DATA before a CLOSE.
Closes(body) == "close" \in Range(body)
DataFrames(id, body) ==
    IF id = 0 \/ Tombstoned(id) THEN 0
    ELSE Cardinality({i \in DOMAIN body :
           body[i] = "data" /\ \A j \in 1 .. i : body[j] # "close"})
Reservation(id, body) == 2 * DataFrames(id, body)

UpUnchanged(id, seq, body, res) ==
    /\ \/ ~Parses(id, body) /\ res = "protocol"
       \/ /\ Parses(id, body) /\ closed /\ res = "closed"
       \/ /\ Parses(id, body) /\ ~closed /\ carrierLanes[id] = None
          /\ \/ id # 0 /\ OnlyLateFrames(body) /\ res = "ack"
             \/ ~(id # 0 /\ OnlyLateFrames(body)) /\ (id = 0 \/ Head(body) # "open")
                  /\ res = "protocol"
    /\ UNCHANGED <<closed, carrierLanes, lanes, made, writeCost, tombstones, pendingCost>>

\* The lane is there, or made, and the call ends before anything is applied.
UpStops(id, seq, body, res) ==
    /\ Parses(id, body) /\ ~closed /\ HasLaneFor(id, body)
    /\ LET last == LaneState(id).lastUpSequence
           again == seq = last /\ seq # 0
       IN  \/ again /\ res = (IF body = LaneState(id).lastUpDigest THEN "ack" ELSE "protocol")
           \/ ~again /\ ~InOrder(id, seq) /\ res = "protocol"
           \* invalid, which a DATA beyond the receive window is as well
           \/ InOrder(id, seq) /\ res = "protocol"
                /\ (ValidBatch(id, body) => DataFrames(id, body) # 0)
           \/ InOrder(id, seq) /\ res = "backpressure"
                /\ ValidBatch(id, body) /\ Refusable(Reservation(id, body))
    /\ carrierLanes' = [carrierLanes EXCEPT ![id] = LaneFor(id)]
    /\ lanes' = [lanes EXCEPT ![LaneFor(id)] = LaneState(id)]
    /\ Makes(id) /\ UNCHANGED <<closed, writeCost, tombstones, pendingCost>>

\* The call applies its batch.
UpGoes(id, seq, body) ==
    /\ Parses(id, body) /\ ~closed /\ HasLaneFor(id, body)
    /\ InOrder(id, seq) /\ ValidBatch(id, body)
    /\ Reservable(pendingCost, Reservation(id, body), "uplink")

Committed(id, seq, body) ==
    [LaneState(id) EXCEPT !.lastUpSequence = seq, !.lastUpDigest = body]

\* applyBatchLocked without an OPEN that is rejected.  DATA that joins the
\* last write of the stream costs one unit of the two reserved.
UpApplies(id, seq, body, res) ==
    /\ res = "ack" /\ UpGoes(id, seq, body)
    /\ Head(body) = "open" => Cardinality(LiveIDs) < MaxStreamsPerSession
    /\ IF id = 0 \/ (Tombstoned(id) /\ Head(body) # "open")
       THEN /\ lanes' = [lanes EXCEPT ![LaneFor(id)] = Committed(id, seq, body)]
            /\ UNCHANGED <<carrierLanes, tombstones, writeCost, pendingCost>>
       ELSE LET old == IF Live(id) THEN writeCost[id] ELSE 0
            IN  IF Closes(body)
                THEN /\ RememberClosed(id, LaneFor(id), Committed(id, seq, body))
                     /\ writeCost' = [writeCost EXCEPT ![id] = None]
                     /\ pendingCost' = pendingCost - old - EvictedCost(id)
                ELSE \E add \in DataFrames(id, body) .. Reservation(id, body) :
                     /\ old = 0 => add # 1
                     /\ lanes' = [lanes EXCEPT ![LaneFor(id)] = Committed(id, seq, body)]
                     /\ carrierLanes' = [carrierLanes EXCEPT ![id] = LaneFor(id)]
                     /\ writeCost' = [writeCost EXCEPT ![id] = old + add]
                     /\ pendingCost' = pendingCost + add
                     /\ UNCHANGED tombstones
    /\ Makes(id) /\ UNCHANGED closed

\* An OPEN over a limit: the id is remembered and answered with a CLOSE, which
\* is charged while the whole reservation is still held.  Without room for it
\* the batch is not committed, and the caller closes the session.
UpRejects(id, seq, body, res) ==
    /\ res \in {"ack", "unapplied"} /\ UpGoes(id, seq, body) /\ Head(body) = "open"
    /\ LET held == pendingCost + Reservation(id, body) - EvictedCost(id)
           left == pendingCost - EvictedCost(id)
       IN  \/ /\ res = "ack"
              /\ Reservable(held, QueueCost(LaneState(id), "close"), "control")
              /\ RememberClosed(id, LaneFor(id), Queued(Committed(id, seq, body), "close"))
              /\ pendingCost' = left + QueueCost(LaneState(id), "close")
           \/ /\ res = "unapplied"
              /\ Refusable(QueueCost(LaneState(id), "close"))
              /\ RememberClosed(id, LaneFor(id), LaneState(id))
              /\ pendingCost' = left
    /\ Makes(id) /\ UNCHANGED <<closed, writeCost>>

\* A failed batch closes the session after the unlock; for a protocol failure
\* of websocket-lanes the reader releases its lane instead.
ProcessUpLane(id, seq, body, res) ==
    /\ \/ UpUnchanged(id, seq, body, res) \/ UpStops(id, seq, body, res)
       \/ UpApplies(id, seq, body, res) \/ UpRejects(id, seq, body, res)
    /\ closing' = (closing \/ (~closed /\
          (res = "unapplied" \/ (res = "protocol" /\ ~WebSockets))))

Results == {"ack", "closed", "backpressure", "protocol", "unapplied"}

\* serveUp of https-lanes.
ServeUp(id, seq, body) ==
    /\ ~WebSockets
    /\ \E res \in Results : ProcessUpLane(id, seq, body, res)
    /\ UNCHANGED <<polls, conns>>

--------------------------------------------------------------------------------
(* The backend goroutine of a live stream.                                 *)

\* The bound on the DATA a lane is given to carry.
Bounded(l) == l.downCursor + Len(l.frames) < MaxDownCursor

\* backendData, when the DATA fits.  When it does not, the goroutine ends.
BackendData(id) ==
    LET o == carrierLanes[id]
        cost == QueueCost(lanes[o], "data")
    IN  /\ Live(id) /\ o # None
        /\ Reservable(pendingCost, cost, "downlink") /\ Bounded(lanes[o])
        /\ lanes' = [lanes EXCEPT ![o] = Queued(@, "data")]
        /\ pendingCost' = pendingCost + cost
        /\ UNCHANGED <<closed, closing, carrierLanes, made, writeCost, tombstones, polls, conns>>

\* backendDrained: the byte is released, and granted again if the WINDOW fits.
BackendDrained(id) ==
    LET o == carrierLanes[id]
        cost == QueueCost(lanes[o], "window")
    IN  /\ Live(id) /\ writeCost[id] > 0
        /\ writeCost' = [writeCost EXCEPT ![id] = @ - 1]
        /\ \/ /\ o # None /\ Reservable(pendingCost - 1, cost, "control")
              /\ lanes' = [lanes EXCEPT ![o] = Queued(@, "window")]
              /\ pendingCost' = pendingCost - 1 + cost
           \/ /\ o = None \/ Refusable(cost)
              /\ pendingCost' = pendingCost - 1
              /\ UNCHANGED lanes
        /\ UNCHANGED <<closed, closing, carrierLanes, made, tombstones, polls, conns>>

BackendWriteFinished(id) ==
    /\ Live(id) /\ writeCost[id] > 0
    /\ writeCost' = [writeCost EXCEPT ![id] = @ - 1]
    /\ pendingCost' = pendingCost - 1
    /\ UNCHANGED <<closed, closing, carrierLanes, lanes, made, tombstones, polls, conns>>

\* backendClosed: the CLOSE goes to the lane, or else the session is closed.
BackendClosed(id) ==
    LET o == carrierLanes[id]
        left == pendingCost - writeCost[id] - EvictedCost(id)
    IN  /\ Live(id)
        /\ \/ /\ o # None /\ Reservable(left, QueueCost(lanes[o], "close"), "control")
              /\ RememberClosed(id, o, Queued(lanes[o], "close"))
              /\ writeCost' = [writeCost EXCEPT ![id] = None]
              /\ pendingCost' = left + QueueCost(lanes[o], "close")
              /\ UNCHANGED <<closed, closing, made>>
           \/ CloseLocked
        /\ UNCHANGED <<polls, conns>>

--------------------------------------------------------------------------------
(* PollLane.  A poll is ready (a writer about to call), parked in the       *)
(* select, woken (it has received a token and waits for the mutex), about   *)
(* to call laneProtocolFailure (fail), or it has returned with kind.  A     *)
(* writer goes on to write what it has, or is done.                         *)

NoPoll == [pc |-> "idle", id |-> 0, lane |-> None, cursor |-> 0, next |-> 0,
           mine |-> FALSE, kind |-> "none"]

PollState ==
    [pc : {"idle", "ready", "parked", "woken", "fail", "write", "done"}, id : LaneIDs,
     lane : Objects \cup {None}, cursor : Nat, next : Nat, mine : BOOLEAN,
     kind : {"none", "batch", "empty", "laneclosed"}]

\* The poll after it has returned.  Of one that is over, the model remembers
\* whether it was told that its lane is closed.
Returned(p, call, kind, next) ==
    IF WebSockets /\ kind \in {"batch", "empty"}
    THEN [call EXCEPT !.pc = "write", !.lane = None, !.mine = FALSE,
                      !.kind = kind, !.next = next]
    ELSE [NoPoll EXCEPT !.pc = IF WebSockets THEN "done" ELSE "idle",
                        !.id = IF kind = "laneclosed" THEN call.id ELSE 0,
                        !.kind = IF kind = "laneclosed" THEN kind ELSE "none"]

Return(p, kind, next) == polls' = [polls EXCEPT ![p] = Returned(p, @, kind, next)]

PollUnchanged ==
    UNCHANGED <<closed, closing, carrierLanes, made, writeCost, tombstones, conns>>

Leaves(l) == [l EXCEPT !.downActive = FALSE, !.superseded = None]

\* takeLaneDownBatchLocked: at least one frame, as many as fit.
Taken(l, cursor, count) ==
    [Leaves(l) EXCEPT !.unacked = SubSeq(l.frames, 1, count),
                      !.frames = SubSeq(l.frames, count + 1, Len(l.frames)),
                      !.unackedBase = cursor, !.downCursor = @ + 1]
BatchSizes(l) == 1 .. Min({Len(l.frames), MaxBatchFrames})

\* Mutant: the queue is not looked at before the end of the lane.
NothingQueuedUnchecked(l) == TRUE

NothingQueued(l) == l.frames = <<>>

\* Mutant: only a lane the session has forgotten is over.
LaneOverWhenForgotten(id, o) == carrierLanes[id] # o

\* The stream of the lane has ended, or the session has forgotten the lane.
LaneOver(id, o) ==
    \/ id # 0 /\ ~Live(id) /\ Tombstoned(id)
    \/ carrierLanes[id] # o

\* A closed session, no lane, or a cursor that is neither the current one nor
\* the one of the unacknowledged batch.
PollRejected(p, call) ==
    LET o == carrierLanes[call.id]
        wrong == /\ ~closed /\ o # None
                 /\ call.cursor # lanes[o].downCursor
                 /\ lanes[o].unacked # <<>> => call.cursor # lanes[o].unackedBase
    IN  /\ closed \/ o = None \/ wrong
        /\ polls' = [polls EXCEPT ![p] =
             IF wrong /\ WebSockets THEN [call EXCEPT !.pc = "fail"]
             ELSE Returned(p, call, "error", 0)]
        /\ closing' = (closing \/ (wrong /\ ~WebSockets))
        /\ UNCHANGED <<closed, carrierLanes, lanes, made, writeCost, tombstones, pendingCost,
                       conns>>

PollReplays(p, call) ==
    LET o == carrierLanes[call.id]
    IN  /\ ~closed /\ o # None
        /\ lanes[o].unacked # <<>> /\ call.cursor = lanes[o].unackedBase
        /\ polls' = [polls EXCEPT ![p] = Returned(p, call, "batch", lanes[o].downCursor)]
        /\ PollUnchanged /\ UNCHANGED <<lanes, pendingCost>>

\* The current cursor acknowledges, an older waiter is told to leave, and the
\* poll takes a batch, finds the lane over, or parks.
PollAdmitted(p, call) ==
    LET o == carrierLanes[call.id]
        lane == lanes[o]
        acked == [lane EXCEPT !.unacked = <<>>]
        told == [q \in Pollers |->
                   IF lane.downActive /\ q = lane.superseded
                   THEN [polls[q] EXCEPT !.mine = TRUE] ELSE polls[q]]
    IN  /\ ~closed /\ o # None
        /\ call.cursor = lane.downCursor
        /\ ~(lane.unacked # <<>> /\ call.cursor = lane.unackedBase)
        /\ pendingCost' = pendingCost - CostOf(lane.unacked)
        /\ \/ \E count \in BatchSizes(acked) :
                /\ lanes' = [lanes EXCEPT ![o] = Taken(acked, call.cursor, count)]
                /\ polls' = [told EXCEPT ![p] =
                               Returned(p, call, "batch", lane.downCursor + 1)]
           \/ /\ NothingQueued(lane) /\ LaneOver(call.id, o)
              /\ lanes' = [lanes EXCEPT ![o] = Leaves(acked)]
              /\ polls' = [told EXCEPT ![p] = Returned(p, call, "laneclosed", call.cursor)]
           \/ /\ NothingQueued(lane) /\ ~LaneOver(call.id, o)
              /\ lanes' = [lanes EXCEPT ![o] =
                             [acked EXCEPT !.downActive = TRUE, !.superseded = p]]
              /\ polls' = [told EXCEPT ![p] = [call EXCEPT !.pc = "parked", !.lane = o]]
        /\ PollUnchanged

PollEnters(p, call) ==
    PollRejected(p, call) \/ PollReplays(p, call) \/ PollAdmitted(p, call)

\* A request of https-lanes, or the next round of a writer.
ServeDown(p, id, cursor) ==
    /\ ~WebSockets /\ polls[p].pc = "idle"
    /\ PollEnters(p, [NoPoll EXCEPT !.id = id, !.cursor = cursor])

WriterPolls(c) ==
    /\ WebSockets /\ polls[c].pc = "ready"
    /\ PollEnters(c, [polls[c] EXCEPT !.kind = "none"])

\* select: the token of lane.notify is received before the mutex is taken.
PollReceivesToken(p) ==
    /\ polls[p].pc = "parked" /\ lanes[polls[p].lane].notify
    /\ lanes' = [lanes EXCEPT ![polls[p].lane].notify = FALSE]
    /\ polls' = [polls EXCEPT ![p].pc = "woken"]
    /\ PollUnchanged /\ UNCHANGED pendingCost

\* A newer poll has taken over, seen through mine, a token or the deadline:
\* the token is passed on.
PollSuperseded(p) ==
    LET o == polls[p].lane
    IN  /\ \/ polls[p].pc = "parked" /\ polls[p].mine
           \/ polls[p].pc = "woken" /\ lanes[o].superseded # p
        /\ lanes' = [lanes EXCEPT ![o].notify = TRUE]
        /\ Return(p, "empty", 0)
        /\ PollUnchanged /\ UNCHANGED pendingCost

\* Round the loop with the mutex: a batch, the close, the end of the lane, or
\* the select again.
PollWoken(p) ==
    LET o == polls[p].lane
        l == lanes[o]
    IN  /\ polls[p].pc = "woken" /\ l.superseded = p
        /\ \/ \E count \in BatchSizes(l) :
                /\ lanes' = [lanes EXCEPT ![o] = Taken(l, polls[p].cursor, count)]
                /\ Return(p, "batch", l.downCursor + 1)
           \/ /\ NothingQueued(l) /\ closed
              /\ lanes' = [lanes EXCEPT ![o] = Leaves(l)]
              /\ Return(p, "error", 0)
           \/ /\ NothingQueued(l) /\ ~closed /\ LaneOver(polls[p].id, o)
              /\ lanes' = [lanes EXCEPT ![o] = Leaves(l)]
              /\ Return(p, "laneclosed", polls[p].cursor)
           \/ /\ NothingQueued(l) /\ ~closed /\ ~LaneOver(polls[p].id, o)
              /\ polls' = [polls EXCEPT ![p].pc = "parked"]
              /\ UNCHANGED lanes
        /\ PollUnchanged /\ UNCHANGED pendingCost

\* select: s.done, or a context that is done, whatever else is ready.
PollGivesUp(p) ==
    LET o == polls[p].lane
    IN  /\ polls[p].pc = "parked"
        /\ WebSockets /\ ~closed => conns[p].h # "serving"
        /\ lanes' = [lanes EXCEPT ![o] = IF @.superseded = p THEN Leaves(@) ELSE @]
        /\ Return(p, "error", 0)
        /\ PollUnchanged /\ UNCHANGED pendingCost

\* select: the long-poll deadline, which looks at the queue once more.
PollExpires(p) ==
    LET o == polls[p].lane
        l == lanes[o]
    IN  /\ polls[p].pc = "parked" /\ l.superseded = p
        /\ \/ \E count \in BatchSizes(l) :
                /\ lanes' = [lanes EXCEPT ![o] = Taken(l, polls[p].cursor, count)]
                /\ Return(p, "batch", l.downCursor + 1)
           \/ /\ NothingQueued(l)
              /\ lanes' = [lanes EXCEPT ![o] = Leaves(l)]
              /\ Return(p, "empty", 0)
        /\ PollUnchanged /\ UNCHANGED pendingCost

--------------------------------------------------------------------------------
(* The sockets of websocket-lanes: the handler (h), its reader (r) and its  *)
(* writer (polls[c]).                                                       *)

NoConn == [h |-> "none", id |-> 0, r |-> "done", sequence |-> 0, body |-> <<>>]

ConnState ==
    [h : {"none", "serving", "ending", "released"}, id : LaneIDs,
     r : {"read", "process", "wait", "fail", "done"}, sequence : Nat,
     body : Seq(FrameTypes)]

\* serveWebSocket: AcquireWebSocketLane and the upgrade, which may fail.
Acquirable(id) ==
    /\ ~closed /\ ~Tombstoned(id)
    /\ IF carrierLanes[id] = None
       THEN /\ Cardinality({i \in LaneIDs : carrierLanes[i] # None}) < MaxStreamsPerSession
            /\ made < MaxLanes
       ELSE ~lanes[carrierLanes[id]].websocketActive

ServeWebSocket(c, id) ==
    /\ WebSockets /\ Acquirable(id)
    /\ conns[c].h \in {"none", "released"} /\ conns[c].r = "done"
    /\ polls[c].pc \in {"idle", "done"}
    /\ carrierLanes' = [carrierLanes EXCEPT ![id] = LaneFor(id)]
    /\ lanes' = [lanes EXCEPT ![LaneFor(id)] =
                   [LaneState(id) EXCEPT !.websocketActive = TRUE]]
    /\ \/ /\ conns' = [conns EXCEPT ![c] =
               [h |-> "serving", id |-> id, r |-> "read", sequence |-> 1, body |-> <<>>]]
          /\ polls' = [polls EXCEPT ![c] = [NoPoll EXCEPT !.pc = "ready", !.id = id]]
       \/ /\ conns' = [conns EXCEPT ![c] = [NoConn EXCEPT !.h = "ending", !.id = id]]
          /\ polls' = [polls EXCEPT ![c] = [NoPoll EXCEPT !.pc = "done", !.id = id]]
    /\ Makes(id) /\ UNCHANGED <<closed, closing, writeCost, tombstones, pendingCost>>

\* Either goroutine has finished: the context is cancelled and the socket
\* closed; then the lane is released.
HandlerEnds(c) ==
    /\ conns[c].h = "serving" /\ (conns[c].r = "done" \/ polls[c].pc = "done")
    /\ conns' = [conns EXCEPT ![c].h = "ending"]
    /\ UNCHANGED <<sessionVars, polls>>

HandlerReleases(c) ==
    /\ conns[c].h = "ending"
    /\ ReleaseWebSocketLane(conns[c].id)
    /\ conns' = [conns EXCEPT ![c].h = "released"]
    /\ UNCHANGED polls

ReaderDone(conn) == [conn EXCEPT !.r = "done", !.sequence = 0, !.body = <<>>]

\* readWebSocket: a message; or an error, the silence of two poll periods, or
\* a message that is text or empty.  Nobody waits for the reader: a message
\* that was buffered before the socket was closed may still be read when the
\* handler has released the lane.
ReaderReads(c) ==
    /\ conns[c].r = "read"
    /\ \/ /\ conns[c].sequence <= MaxUpSequence
          /\ \E body \in Batches \ {<<>>} :
               conns' = [conns EXCEPT ![c].r = "process", ![c].body = body]
       \/ conns' = [conns EXCEPT ![c] = ReaderDone(@)]
    /\ UNCHANGED <<sessionVars, polls>>

\* The reader after ProcessUpLane.
ReaderAfter(conn, res) ==
    CASE res = "ack" ->
           [conn EXCEPT !.r = "read", !.sequence = conn.sequence + 1, !.body = <<>>]
      [] res = "backpressure" -> [conn EXCEPT !.r = "wait"]
      [] res = "protocol" -> [conn EXCEPT !.r = "fail", !.body = <<>>]
      [] OTHER -> ReaderDone(conn)

ReaderProcesses(c) ==
    /\ conns[c].r = "process"
    /\ \E res \in Results :
         /\ ProcessUpLane(conns[c].id, conns[c].sequence, conns[c].body, res)
         /\ conns' = [conns EXCEPT ![c] = ReaderAfter(@, res)]
    /\ UNCHANGED polls

\* 50 ms later the same message again; or 30 s are over, or the context is done.
ReaderWaits(c) ==
    /\ conns[c].r = "wait"
    /\ conns' = [conns EXCEPT ![c].r = "process"]
    /\ UNCHANGED <<sessionVars, polls>>

ReaderGivesUp(c) ==
    /\ conns[c].r = "wait"
    /\ conns' = [conns EXCEPT ![c] = ReaderDone(@)]
    /\ UNCHANGED <<sessionVars, polls>>

\* laneProtocolFailure of a reader or a writer.
ReaderFails(c) ==
    /\ conns[c].r = "fail"
    /\ ReleaseWebSocketLane(conns[c].id)
    /\ conns' = [conns EXCEPT ![c] = ReaderDone(@)]
    /\ UNCHANGED polls

WriterFails(c) ==
    /\ WebSockets /\ polls[c].pc = "fail"
    /\ ReleaseWebSocketLane(conns[c].id)
    /\ polls' = [polls EXCEPT ![c] = Returned(c, @, "error", 0)]
    /\ UNCHANGED conns

\* writeWebSocket: the batch moves the cursor, an empty answer is a ping; or
\* the write fails.
WriterWrites(c) ==
    /\ WebSockets /\ polls[c].pc = "write"
    /\ \/ /\ conns[c].h = "serving"
          /\ polls' = [polls EXCEPT ![c].pc = "ready", ![c].next = 0, ![c].kind = "none",
                 ![c].cursor = IF polls[c].kind = "batch" THEN polls[c].next ELSE @]
       \/ Return(c, "error", 0)
    /\ UNCHANGED <<sessionVars, conns>>

--------------------------------------------------------------------------------
\* newSession: https-lanes starts with lane zero.
Init ==
    /\ closed = FALSE /\ closing = FALSE
    /\ carrierLanes = [id \in LaneIDs |-> IF id = 0 /\ ~WebSockets THEN 1 ELSE None]
    /\ lanes = [o \in Objects |-> NewLane]
    /\ made = IF WebSockets THEN 0 ELSE 1
    /\ writeCost = [id \in StreamIDs |-> None]
    /\ tombstones = <<>> /\ pendingCost = 0
    /\ polls = [p \in Pollers |-> NoPoll]
    /\ conns = [c \in Conns |-> NoConn]

Selects(p) == PollReceivesToken(p) \/ PollSuperseded(p) \/ PollWoken(p)

Reader(c) ==
    ReaderReads(c) \/ ReaderProcesses(c) \/ ReaderWaits(c) \/ ReaderGivesUp(c) \/ ReaderFails(c)

Next ==
    \/ Close
    \/ \E id \in LaneIDs, seq \in 0 .. MaxUpSequence, body \in Batches : ServeUp(id, seq, body)
    \/ \E id \in StreamIDs :
         BackendData(id) \/ BackendDrained(id) \/ BackendWriteFinished(id) \/ BackendClosed(id)
    \/ \E p \in Pollers :
         \/ \E id \in LaneIDs, cursor \in 0 .. MaxDownCursor + 1 : ServeDown(p, id, cursor)
         \/ Selects(p) \/ PollGivesUp(p) \/ PollExpires(p)
    \/ \E c \in Conns :
         \/ \E id \in StreamIDs : ServeWebSocket(c, id)
         \/ HandlerEnds(c) \/ HandlerReleases(c) \/ Reader(c)
         \/ WriterPolls(c) \/ WriterFails(c) \/ WriterWrites(c)

Spec == Init /\ [][Next]_vars

\* A poll whose select can proceed runs; a failed call closes the session; a
\* reader, writer and handler go on, except that a Read may wait for ever; a
\* retry ends after 30 s.
Fairness ==
    /\ WF_vars(closing /\ Close)
    /\ \A p \in Pollers : WF_vars(Selects(p))
    /\ WebSockets => \A c \in Conns :
         /\ WF_vars(HandlerEnds(c) \/ HandlerReleases(c))
         /\ WF_vars(WriterPolls(c) \/ WriterFails(c) \/ WriterWrites(c))
         /\ WF_vars(ReaderProcesses(c) \/ ReaderFails(c))
         /\ SF_vars(ReaderGivesUp(c))

FairSpec == Spec /\ Fairness

--------------------------------------------------------------------------------
(* Properties.                                                             *)

TypeOK ==
    /\ closed \in BOOLEAN /\ closing \in BOOLEAN
    /\ carrierLanes \in [LaneIDs -> Objects \cup {None}]
    /\ lanes \in [Objects -> Lane] /\ made \in 0 .. MaxLanes
    /\ writeCost \in [StreamIDs -> Nat \cup {None}]
    /\ tombstones \in Seq(StreamIDs)
    /\ pendingCost \in Nat
    /\ polls \in [Pollers -> PollState]
    /\ conns \in [Conns -> ConnState]

\* The session's charge is what its lanes and its streams hold, to the unit,
\* however lanes are closed, evicted, released and made again; a lane the
\* session has forgotten holds nothing.
LaneChargeExact ==
    LET known == Range(carrierLanes) \ {None}
    IN  /\ pendingCost = Total(known, [o \in known |-> LaneCost(lanes[o])])
                         + Total(LiveIDs, writeCost)
        /\ \A o \in Objects \ known : LaneCost(lanes[o]) = 0

\* A live stream has its lane and no tombstone.  Without the lane the end of
\* one backend would close the whole session (queueLaneFrameLocked).
LiveStreamHasLane ==
    \A id \in LiveIDs : carrierLanes[id] # None /\ ~Tombstoned(id)

\* X-Lane-Closed comes last: a poll is told that its lane is closed only when
\* nothing is left to deliver or to acknowledge on it, unless the session has
\* forgotten the lane.
LaneClosedComesLast ==
    [][\A p \in Pollers :
         polls[p].kind # "laneclosed" /\ polls'[p].kind = "laneclosed" =>
           \A o \in {carrierLanes[polls'[p].id]} \ {None} :
             polls[p].lane \in {None, o} =>
               lanes'[o].frames = <<>> /\ lanes'[o].unacked = <<>>]_vars

\* What makes a poll return: frames, the end of the session, or the end,
\* eviction or release of the lane.
MustReturn(p) ==
    /\ polls[p].pc = "parked"
    /\ \/ closed \/ LaneOver(polls[p].id, polls[p].lane)
       \/ lanes[polls[p].lane].frames # <<>>

\* No wake-up is lost: while the current poll of a lane ought to return, a
\* token is in lane.notify, or an older poll holds one, and will pass it on;
\* s.done wakes everyone.
WakeUpOwed ==
    \A p \in Pollers :
      MustReturn(p) /\ lanes[polls[p].lane].superseded = p =>
        \/ closed \/ lanes[polls[p].lane].notify
        \/ \E q \in Pollers \ {p} : polls[q].pc = "woken" /\ polls[q].lane = polls[p].lane

\* The end of a stream ends the socket of its lane, unless the tombstone is
\* evicted and the id opened again meanwhile.
ClosedLaneDetaches ==
    \A c \in Conns :
      (conns[c].h = "serving" /\ Tombstoned(conns[c].id))
        ~> (conns[c].h # "serving" \/ Live(conns[c].id))

\* A backend connection lives only as long as the socket of its lane.
StreamHasSocket ==
    WebSockets => \A id \in LiveIDs :
      \E c \in Conns : conns[c].id = id /\ conns[c].h \in {"serving", "ending"}
================================================================================
