----------------------------------- MODULE Page -----------------------------------
(***************************************************************************)
(* The bridge page of internal/bridge/page.go, for the four carriers: the  *)
(* life of its session, the queues of its uplink with their accounting,    *)
(* its lanes and its sockets.  Sequence numbers, cursors and the retries   *)
(* of request() are in Uplink and Downlink: here a request is answered or  *)
(* has failed for good.  Status and traffic messages are left out.         *)
(*                                                                         *)
(* A script runs to completion, so an action is one task: a message, the   *)
(* end of a request, an event of a socket, a timer.  A microtask runs      *)
(* before the next task.  The functions of the script are operators on the *)
(* page's state.                                                           *)
(*                                                                         *)
(* The app is the other end of the port.  It uses an id once, as the       *)
(* protocol demands, so closedLanes, which only guards against reuse, is   *)
(* the "gone" of an entry.                                                 *)
(***************************************************************************)
EXTENDS Integers, Sequences, FiniteSets, SequencesExt, FiniteSetsExt, Sums

CONSTANTS
    Carriers,              \* the carrier modes to check
    StreamIDs,             \* the ids the app uses
    Messages,              \* what the app may post: sequences of frames
    QueueLimit, QueueItemLimit, LaneQueueLimit, LaneItemLimit,
    BatchLimit, MaxBodyFrames,   \* __BATCH_LIMIT__ bytes and 4096 frames
    MaxMessages            \* bound of the model: messages the app posts

Frames == [type : {"open", "data", "window", "close"}, id : StreamIDs, n : Nat \ {0}]
          \cup [type : {"pong"}, id : {0}, n : Nat \ {0}]

ASSUME PageCarrierAssumption ==
    Carriers \subseteq {"https", "https-lanes", "websocket", "websocket-lanes"}
ASSUME PageIDAssumption == IsFiniteSet(StreamIDs) /\ StreamIDs \subseteq Nat \ {0}
ASSUME PageMessageAssumption == Messages \subseteq Seq(Frames) \ {<<>>}
ASSUME PageLimitAssumption ==
    /\ {QueueLimit, QueueItemLimit, LaneQueueLimit, LaneItemLimit, BatchLimit,
        MaxBodyFrames} \subseteq Nat \ {0}
    /\ MaxMessages \in Nat

VARIABLES
    carrier,    \* carrierMode
    page,       \* the script's variables and lanes
    streams,    \* what the app takes each stream for: new, open or closed
    handed,     \* frames the app has posted, by queue
    posted,     \* how many messages it has posted
    overtaken,  \* a message was queued while earlier ones waited in `pending`
    ended       \* streams whose CLOSE the relay has sent

vars == <<carrier, page, streams, handed, posted, overtaken, ended>>

PerLane == carrier \in {"https-lanes", "websocket-lanes"}
WebSockets == carrier \in {"websocket", "websocket-lanes"}

\* Queue 0 is lane zero of https-lanes, and of the multiplexed carriers
\* upPending with upRunning, the poll and webSocket.
Queues == StreamIDs \cup {0}

\* The frames of one stream, and those that go to queue q.
WithFrame(frames, f, id) == IF f.id = id THEN Append(frames, f) ELSE frames

OfStream(frames, id) ==
    LET of[k \in 0 .. Len(frames)] == IF k = 0 THEN <<>>
                                      ELSE WithFrame(of[k - 1], frames[k], id)
    IN  of[Len(frames)]

OfQueue(frames, q) ==
    IF PerLane THEN OfStream(frames, q) ELSE IF q = 0 THEN frames ELSE <<>>

NoBody == [bytes |-> 0, items |-> 0]

\* ensureLane.  `entry` tells whether the lane is in the map `lanes`; once it
\* has left, a lane of websocket-lanes is `finished`.  `flight` is the body of
\* the POST under way, `bodies` what was ever sent.
NewLane ==
    [entry |-> "absent", pending |-> <<>>, bytes |-> 0, items |-> 0,
     flight |-> NoBody, polling |-> FALSE, bodies |-> <<>>,
     socket |-> "none", buffered |-> 0, timer |-> FALSE, microtask |-> FALSE,
     opened |-> FALSE, localClosed |-> FALSE, remoteClosed |-> FALSE]

Init ==
    /\ carrier \in Carriers
    /\ page = [stage |-> "new", closed |-> FALSE, token |-> FALSE, deleted |-> FALSE,
               bytes |-> 0, items |-> 0, pending |-> <<>>,
               told |-> [id \in StreamIDs |-> 0],
               lanes |-> [q \in Queues |->
                 IF PerLane THEN NewLane ELSE [NewLane EXCEPT !.entry = "present"]]]
    /\ streams = [id \in StreamIDs |-> "new"]
    /\ handed = [q \in Queues |-> <<>>]
    /\ posted = 0
    /\ overtaken = FALSE
    /\ ended = {}

--------------------------------------------------------------------------------
(* Queues and bodies.                                                      *)

\* byteLength of a message or an item, and what a queue of items adds up to.
Size(frames) == SumOf([k \in DOMAIN frames |-> frames[k].n])
Sizes(items) == SumOf([k \in DOMAIN items |-> Size(items[k])])
Count(items) == SumOf([k \in DOMAIN items |-> Len(items[k])])

\* bufferedBytes.
BufferedBytes(p) ==
    Total(Queues, [q \in Queues |-> IF p.lanes[q].socket = "open" THEN p.lanes[q].buffered
                                    ELSE 0])

\* reserve: the guards, and the charge of a message or of a lane's frame.
HasRoom(p, n) == p.bytes + BufferedBytes(p) <= QueueLimit - n /\ p.items < QueueItemLimit
LaneHasRoom(p, q, n) ==
    PerLane => /\ p.lanes[q].bytes <= LaneQueueLimit - n
               /\ p.lanes[q].items < LaneItemLimit

ChargePage(p, bytes, items) == [p EXCEPT !.bytes = @ + bytes, !.items = @ + items]
Charge(p, q, bytes, items) ==
    LET charged == ChargePage(p, bytes, items)
    IN  IF ~PerLane THEN charged
        ELSE [charged EXCEPT !.lanes[q].bytes = @ + bytes, !.lanes[q].items = @ + items]

\* release.
Release(p, q, bytes, items) == Charge(p, q, -bytes, -items)

Fits(frames) == Len(frames) <= MaxBodyFrames /\ Size(frames) <= BatchLimit
ItemsFit(items) == Count(items) <= MaxBodyFrames /\ Sizes(items) <= BatchLimit

\* frameBound: how many frames of an item one body may carry, at least one.
FrameBound(item) == Max({k \in DOMAIN item : k = 1 \/ Fits(SubSeq(item, 1, k))})

\* Mutant: the remainder of a split item goes to the back of the queue.
JoinPendingRequeues(p, q) ==
    LET values == p.lanes[q].pending
        bound == FrameBound(values[1])
        split == bound < Len(values[1])
        body == SubSeq(values[1], 1, bound)
    IN  [Charge(p, q, 0, IF split THEN 1 ELSE 0) EXCEPT
           !.lanes[q].pending =
              IF split THEN Append(Tail(values), SubSeq(values[1], bound + 1, Len(values[1])))
              ELSE Tail(values),
           !.lanes[q].bodies = Append(@, body),
           !.lanes[q].flight = [bytes |-> Size(body), items |-> 1]]

\* joinPending: takes the next body of a queue.  A first item that is too large
\* is split and its remainder stays as an item of its own.
JoinPending(p, q) ==
    LET values == p.lanes[q].pending
        bound == FrameBound(values[1])
        split == bound < Len(values[1])
        count == Max({c \in DOMAIN values : c = 1 \/ ItemsFit(SubSeq(values, 1, c))})
        taken == IF split THEN <<SubSeq(values[1], 1, bound)>> ELSE SubSeq(values, 1, count)
        rest == IF split
                THEN [values EXCEPT ![1] = SubSeq(@, bound + 1, Len(@))]
                ELSE SubSeq(values, count + 1, Len(values))
    IN  [Charge(p, q, 0, IF split THEN 1 ELSE 0) EXCEPT
           !.lanes[q].pending = rest,
           !.lanes[q].bodies = Append(@, FlattenSeq(taken)),
           !.lanes[q].flight = [bytes |-> Sizes(taken), items |-> Len(taken)]]

\* The body under way has been accepted, by the relay or by the socket.
BodySent(p, q) ==
    LET sent == p.lanes[q].flight
    IN  [Release(p, q, sent.bytes, sent.items) EXCEPT !.lanes[q].flight = NoBody]

--------------------------------------------------------------------------------
(* Closing.                                                                *)

Shut(l) ==
    [l EXCEPT !.timer = FALSE, !.polling = FALSE,
              !.socket = IF @ \in {"connecting", "open"} THEN "closing" ELSE @]

\* close(true): polls are aborted, timers cleared, sockets closed, and the
\* session is deleted if the page knows its token.
Close(p) ==
    IF p.closed THEN p
    ELSE [p EXCEPT !.closed = TRUE, !.deleted = @ \/ p.token,
                   !.lanes = [q \in Queues |->
                      IF @[q].entry = "present" THEN Shut(@[q]) ELSE @[q]]]

\* fail: the app is told, and the page closes.
Fail(p) == Close(p)

--------------------------------------------------------------------------------
(* Sending.                                                                *)

\* runUp and runLaneUp up to the POST.
RunHTTPUp(p, q) ==
    LET l == p.lanes[q]
    IN  IF l.flight # NoBody \/ p.closed \/ ~p.token \/ l.pending = <<>> THEN p
        ELSE JoinPending(p, q)

\* runWebSocketUp and runWebSocketLaneUp.
RunSocketUp(p, q) ==
    LET l == p.lanes[q]
        join == JoinPending(p, q)
        full == \/ l.buffered >= BatchLimit
                \/ ~PerLane /\ l.buffered + p.bytes > QueueLimit
    IN  IF p.closed \/ l.entry # "present" \/ l.socket # "open" \/ l.pending = <<>> THEN p
        ELSE IF full THEN [p EXCEPT !.lanes[q].timer = TRUE]
        ELSE [BodySent(join, q) EXCEPT
                !.lanes[q].buffered = @ + join.lanes[q].flight.bytes,
                !.lanes[q].microtask = @ \/ join.lanes[q].pending # <<>>]

RunUp(p, q) == IF WebSockets THEN RunSocketUp(p, q) ELSE RunHTTPUp(p, q)

\* queueUp, queueWebSocket, and the end of queueLane.
QueueItem(p, q, item) ==
    IF HasRoom(p, Size(item)) /\ LaneHasRoom(p, q, Size(item))
    THEN RunUp([Charge(p, q, Size(item), 1) EXCEPT !.lanes[q].pending = Append(@, item)], q)
    ELSE Fail(p)

\* Mutant: what the lane held stays charged to the page.
FinishWebSocketLaneLeaks(p, id, notify) ==
    LET l == p.lanes[id]
    IN  IF l.entry # "present" THEN p
        ELSE [p EXCEPT
                !.lanes[id] = [l EXCEPT !.entry = "gone", !.pending = <<>>,
                    !.bytes = 0, !.items = 0, !.timer = FALSE,
                    !.socket = IF @ \in {"connecting", "open"} THEN "closing" ELSE @],
                !.told[id] = IF notify /\ ~p.closed THEN @ + 1 ELSE @]

\* finishWebSocketLane: drops what the lane holds, and tells the app of the end
\* with a CLOSE of the page's own making if nobody else has.
FinishWebSocketLane(p, id, notify) ==
    LET l == p.lanes[id]
    IN  IF l.entry # "present" THEN p
        ELSE [Release(p, id, l.bytes, l.items) EXCEPT
                !.lanes[id].entry = "gone",
                !.lanes[id].pending = <<>>,
                !.lanes[id].timer = FALSE,
                !.lanes[id].socket = IF @ \in {"connecting", "open"} THEN "closing" ELSE @,
                !.told[id] = IF notify /\ ~p.closed THEN @ + 1 ELSE @]

\* queueLane and queueWebSocketLane: a late frame of a lane that is gone.
Dropped(p, f) ==
    p.lanes[f.id].entry # "present" /\ f.type \in {"data", "close", "window"}

\* The errors queueLane and queueWebSocketLane throw, which end the loop of
\* queueCarrier; a call of fail() does not.
Throws(p, f) ==
    LET entry == p.lanes[f.id].entry
    IN  \/ entry # "present" /\ f.type \notin {"open", "data", "close", "window"}
        \/ entry = "gone" /\ f.type = "open"
        \/ carrier = "websocket-lanes" /\ f.id = 0

QueueLane(p, f) == QueueItem([p EXCEPT !.lanes[f.id].entry = "present"], f.id, <<f>>)

\* queueWebSocketLane: OPEN starts the socket (openWebSocketLane), CLOSE of a
\* lane whose socket is not up yet abandons it.
QueueWebSocketLane(p, f) ==
    LET known == [p EXCEPT !.lanes[f.id].entry = "present"]
        queued == [Charge(known, f.id, f.n, 1) EXCEPT
                     !.lanes[f.id].pending = Append(@, <<f>>),
                     !.lanes[f.id].localClosed = @ \/ f.type = "close"]
    IN  IF f.type = "close" /\ ~p.lanes[f.id].opened
        THEN FinishWebSocketLane(known, f.id, FALSE)
        ELSE IF ~HasRoom(p, f.n) \/ ~LaneHasRoom(p, f.id, f.n) THEN Fail(known)
        ELSE IF queued.lanes[f.id].socket = "none"
             THEN [queued EXCEPT !.lanes[f.id].socket = "connecting"]
        ELSE RunSocketUp(queued, f.id)

\* One frame of a message in the loop of queueCarrier; `thrown` ends the loop.
QueueFrame(loop, f) ==
    IF loop.thrown \/ Dropped(loop.page, f) THEN loop
    ELSE IF Throws(loop.page, f) THEN [page |-> Fail(loop.page), thrown |-> TRUE]
    ELSE [loop EXCEPT !.page = IF WebSockets THEN QueueWebSocketLane(@, f)
                               ELSE QueueLane(@, f)]

\* The loop of queueCarrier.
QueueFrames(p, m) ==
    LET loop[k \in 0 .. Len(m)] == IF k = 0 THEN [page |-> p, thrown |-> FALSE]
                                   ELSE QueueFrame(loop[k - 1], m[k])
    IN  loop[Len(m)].page

\* queueCarrier.  splitFrames refuses a message of too many frames.
QueueCarrier(p, m) ==
    IF ~PerLane THEN QueueItem(p, 0, m)
    ELSE IF Len(m) > MaxBodyFrames THEN Fail(p)
    ELSE QueueFrames(p, m)

--------------------------------------------------------------------------------
(* The session.                                                            *)

\* The next task waits for the microtasks of the last one.
Idle == \A q \in Queues : ~page.lanes[q].microtask

UnchangedApp == UNCHANGED <<carrier, streams, handed, posted, overtaken, ended>>
Becomes(p) == Idle /\ page' = p /\ UnchangedApp

\* The first message of the app (HELLO) makes the page create the session.
Hello ==
    /\ page.stage = "new" /\ ~page.closed
    /\ Becomes([page EXCEPT !.stage = "creating"])

\* Mutant: a page that closed meanwhile just returns.
CreateAnsweredForgets ==
    /\ page.stage = "creating"
    /\ Becomes([page EXCEPT !.stage = IF page.closed THEN "ended" ELSE "welcome",
                            !.token = TRUE])

\* createSession: the response with the token; a closed page deletes the
\* session it has just learned of.
CreateAnswered ==
    /\ page.stage = "creating"
    /\ Becomes(IF page.closed
               THEN [page EXCEPT !.stage = "ended", !.token = TRUE, !.deleted = TRUE]
               ELSE [page EXCEPT !.stage = "welcome", !.token = TRUE])

CreateFails ==
    /\ page.stage = "creating"
    /\ Becomes([Fail(page) EXCEPT !.stage = "ended"])

\* The end of createSession: the app gets WELCOME, what it sent too early is
\* queued, and the first poll starts.
Flush(p, m) == QueueCarrier(ChargePage(p, -Size(m), -1), m)

Flushed(p, early) ==
    LET loop[k \in 0 .. Len(early)] == IF k = 0 THEN p ELSE Flush(loop[k - 1], early[k])
    IN  loop[Len(early)]

Welcomed(p) ==
    LET up == Flushed([p EXCEPT !.stage = "up", !.pending = <<>>], p.pending)
    IN  IF p.closed THEN [p EXCEPT !.stage = "ended", !.deleted = TRUE]
        ELSE IF WebSockets THEN up
        ELSE [up EXCEPT !.lanes[0].entry = "present", !.lanes[0].polling = ~up.closed]

\* The body of the response has been read.  openWebSocket does not look at
\* `closed`.
WelcomeRead ==
    /\ page.stage = "welcome"
    /\ Becomes(IF carrier = "websocket"
               THEN [page EXCEPT !.stage = "opening", !.lanes[0].socket = "connecting"]
               ELSE Welcomed(page))

WelcomeFails ==
    /\ page.stage = "welcome"
    /\ Becomes([Fail(page) EXCEPT !.stage = "ended"])

--------------------------------------------------------------------------------
(* Requests.                                                               *)

\* pollLane, unless it runs or the lane has left the map.
StartPoll(p, q) ==
    IF p.closed \/ p.lanes[q].entry # "present" THEN p
    ELSE [p EXCEPT !.lanes[q].polling = TRUE]

\* 204 with the right X-Up-Ack: the body is released, a lane starts to poll,
\* and the loop goes on.
UpAcked(q) ==
    LET sent == BodySent(page, q)
    IN  /\ page.lanes[q].flight # NoBody
        /\ Becomes(RunHTTPUp(IF PerLane THEN StartPoll(sent, q) ELSE sent, q))

UpFails(q) ==
    /\ page.lanes[q].flight # NoBody
    /\ Becomes([Fail(page) EXCEPT !.lanes[q].flight = NoBody])

\* 204 with X-Lane-Closed: the relay has nothing more for a stream that ended.
LaneClosed(id) ==
    LET sent == FlattenSeq(page.lanes[id].bodies)
    IN  /\ page.lanes[id].polling /\ carrier = "https-lanes"
        /\ id \in ended \/ \E k \in DOMAIN sent : sent[k].type = "close"
        /\ Becomes([page EXCEPT !.lanes[id].entry = "gone", !.lanes[id].polling = FALSE])

\* A poll or a socket's message is wrong, or the poll has failed for good.
Receiving(p, q) == p.lanes[q].polling \/ p.lanes[q].socket = "open"

CarrierFails(q) == Receiving(page, q) /\ Becomes(Fail(page))

\* A CLOSE of the relay reaches the app, by a poll or a socket's message.
RelayCloses(id) ==
    LET q == IF PerLane THEN id ELSE 0
        sent == FlattenSeq(page.lanes[q].bodies)
    IN  /\ Receiving(page, q) /\ ~page.closed /\ Idle
        /\ id \notin ended
        /\ \E k \in DOMAIN sent : sent[k].type = "open" /\ sent[k].id = id
        /\ ended' = ended \cup {id}
        /\ page' = [page EXCEPT !.told[id] = @ + 1,
                      !.lanes[q].remoteClosed = @ \/ carrier = "websocket-lanes"]
        /\ UNCHANGED <<carrier, streams, handed, posted, overtaken>>

--------------------------------------------------------------------------------
(* Sockets.                                                                *)

\* Mutant: the onopen of a lane's socket does not look at closed.
SocketOpensUnchecked(q) ==
    LET opened == [page EXCEPT !.lanes[q].socket = "open"]
    IN  /\ page.lanes[q].socket = "connecting"
        /\ Becomes(IF ~PerLane THEN Welcomed(opened)
                   ELSE IF page.lanes[q].entry = "gone"
                   THEN [page EXCEPT !.lanes[q].socket = "closing"]
                   ELSE RunSocketUp([opened EXCEPT !.lanes[q].opened = TRUE], q))

\* onopen of either kind of socket.
SocketOpens(q) ==
    LET opened == [page EXCEPT !.lanes[q].socket = "open"]
    IN  /\ page.lanes[q].socket = "connecting"
        /\ Becomes(IF ~PerLane THEN Welcomed(opened)
                   ELSE IF page.closed \/ page.lanes[q].entry = "gone"
                   THEN [page EXCEPT !.lanes[q].socket = "closing"]
                   ELSE RunSocketUp([opened EXCEPT !.lanes[q].opened = TRUE], q))

\* Mutant: the app is told of the end although the relay's CLOSE has been.
SocketClosesTwice(q) ==
    LET shut == [page EXCEPT !.lanes[q].socket = "closed", !.lanes[q].buffered = 0]
        l == page.lanes[q]
    IN  /\ l.socket \in {"connecting", "open", "closing"}
        /\ Becomes(IF ~PerLane \/ (l.entry = "present" /\ ~l.opened) THEN Fail(shut)
                   ELSE IF page.closed \/ l.entry = "gone" THEN shut
                   ELSE FinishWebSocketLane(shut, q, ~l.localClosed))

\* onclose (and onerror before it): an established lane ends alone, anything
\* else takes the page with it.
SocketCloses(q) ==
    LET shut == [page EXCEPT !.lanes[q].socket = "closed", !.lanes[q].buffered = 0]
        l == page.lanes[q]
    IN  /\ l.socket \in {"connecting", "open", "closing"}
        /\ Becomes(IF ~PerLane \/ (l.entry = "present" /\ ~l.opened) THEN Fail(shut)
                   ELSE IF page.closed \/ l.entry = "gone" THEN shut
                   ELSE FinishWebSocketLane(shut, q, ~l.localClosed /\ ~l.remoteClosed))

\* The browser has handed bytes to the network.
SocketDrains(q) ==
    /\ page.lanes[q].socket = "open" /\ page.lanes[q].buffered > 0
    /\ \E left \in 0 .. page.lanes[q].buffered - 1 :
         Becomes([page EXCEPT !.lanes[q].buffered = left])

Microtask(q) ==
    /\ page.lanes[q].microtask
    /\ page' = RunSocketUp([page EXCEPT !.lanes[q].microtask = FALSE], q)
    /\ UnchangedApp

Timer(q) ==
    /\ page.lanes[q].timer
    /\ Becomes(RunSocketUp([page EXCEPT !.lanes[q].timer = FALSE], q))

--------------------------------------------------------------------------------
(* The app.                                                                *)

\* A message the app may post: ids are opened once, and used while open.
MaySend(m) ==
    \A k \in DOMAIN m :
      LET id == m[k].id
          before(t) == \E j \in 1 .. k - 1 : m[j].type = t /\ m[j].id = id
      IN  CASE m[k].type = "pong" -> page.stage = "up" /\ carrier # "websocket-lanes"
            [] m[k].type = "open" -> streams[id] = "new" /\ ~before("open")
            [] OTHER -> (streams[id] = "open" \/ before("open")) /\ ~before("close")

\* port.onmessage.
AppSends(m) ==
    LET has(id, t) == \E k \in DOMAIN m : m[k].id = id /\ m[k].type = t
    IN  /\ Idle /\ ~page.closed /\ page.stage # "new" /\ posted < MaxMessages
        /\ MaySend(m)
        /\ page' = IF page.token THEN QueueCarrier(page, m)
                   ELSE IF HasRoom(page, Size(m))
                   THEN [ChargePage(page, Size(m), 1) EXCEPT !.pending = Append(@, m)]
                   ELSE Fail(page)
        /\ streams' = [id \in StreamIDs |-> IF has(id, "close") THEN "closed"
                                            ELSE IF has(id, "open") THEN "open"
                                            ELSE streams[id]]
        /\ handed' = [q \in Queues |-> handed[q] \o OfQueue(m, q)]
        /\ posted' = posted + 1
        /\ overtaken' = (overtaken \/ (page.token /\ page.pending # <<>>))
        /\ UNCHANGED <<carrier, ended>>

\* The app takes up a CLOSE; until then it may still send.
AppHears(id) ==
    /\ page.told[id] > 0 /\ streams[id] = "open"
    /\ streams' = [streams EXCEPT ![id] = "closed"]
    /\ UNCHANGED <<carrier, page, handed, posted, overtaken, ended>>

\* {t:'close'} from the app, or pagehide.
AppLeaves == ~page.closed /\ Becomes(Close(page))

Next ==
    \/ Hello \/ CreateAnswered \/ CreateFails \/ WelcomeRead \/ WelcomeFails
    \/ \E q \in Queues :
         \/ UpAcked(q) \/ UpFails(q) \/ CarrierFails(q)
         \/ SocketOpens(q) \/ SocketCloses(q) \/ SocketDrains(q)
         \/ Microtask(q) \/ Timer(q)
    \/ \E id \in StreamIDs : LaneClosed(id) \/ RelayCloses(id) \/ AppHears(id)
    \/ \E m \in Messages : AppSends(m)
    \/ AppLeaves

Spec == Init /\ [][Next]_vars

\* What the browser and the relay see to, each by steps that stay possible
\* until one is taken: a request ends, by its deadline at the latest; a socket
\* that connects or closes gets there; and the relay closes the sockets of a
\* session that has been deleted.
Fairness ==
    /\ []<>(page.stage \notin {"creating", "welcome"})
    /\ \A q \in Queues :
         /\ []<>(page.lanes[q].socket \notin {"connecting", "closing"})
         /\ []<>(page.lanes[q].socket = "open" => ~page.deleted)

FairSpec == Spec /\ Fairness

--------------------------------------------------------------------------------
(* Properties.                                                             *)

\* What each queue holds, with the body under way.
OwedBytes(p) ==
    [q \in Queues |-> Sizes(p.lanes[q].pending) + p.lanes[q].flight.bytes]
OwedItems(p) ==
    [q \in Queues |-> Len(p.lanes[q].pending) + p.lanes[q].flight.items]

\* The accounting that admits messages: queuedBytes and queuedItems are those
\* of the queues, of the messages that wait for the token and of the bodies
\* under way; a lane's are its own; no item is lost or charged twice by a
\* split, a lane that finishes or an acknowledgement; and what is queued or
\* buffered stays within the limit (PROTOCOL.md: "The bridge limits its queued
\* plus browser-buffered uplink to 32 MiB").
QueueExact ==
    ~page.closed =>
      /\ page.bytes = Total(Queues, OwedBytes(page)) + Sizes(page.pending)
      /\ page.items = Total(Queues, OwedItems(page)) + Len(page.pending)
      /\ PerLane => \A q \in Queues : /\ page.lanes[q].bytes = OwedBytes(page)[q]
                                      /\ page.lanes[q].items = OwedItems(page)[q]
      /\ page.bytes + BufferedBytes(page) <= QueueLimit

\* What the relay gets of a queue is what the app handed over, in order and
\* once, in bodies within the relay's limit unless a single frame exceeds it;
\* an ended lane drops a tail of it.  (Frames the app sends before WELCOME,
\* against the protocol, can be overtaken.)
BodiesInOrder ==
    \A q \in Queues :
      LET l == page.lanes[q]
          early == OfQueue(FlattenSeq(page.pending), q)
          carried == FlattenSeq(l.bodies) \o FlattenSeq(l.pending) \o early
      IN  /\ \A k \in DOMAIN l.bodies : Fits(l.bodies[k]) \/ Len(l.bodies[k]) = 1
          /\ ~overtaken /\ ~page.closed =>
               /\ IsPrefix(carried, handed[q])
               /\ l.entry = "present" => carried = handed[q]

\* PROTOCOL.md: closing an established lane unexpectedly closes that stream,
\* "and the bridge returns a CLOSE frame to the app": a stream the app takes
\* for open has a lane that will hear of its end, or its end has been told,
\* once, whoever ended it.
EveryEndIsTold ==
    \A id \in StreamIDs :
      LET l == page.lanes[id]
      IN  /\ page.told[id] <= 1
          /\ /\ PerLane /\ page.stage = "up" /\ ~page.closed /\ ~overtaken
             /\ streams[id] = "open" /\ page.told[id] = 0
             => /\ l.entry = "present"
                /\ IF WebSockets THEN l.socket \in {"connecting", "open"}
                   ELSE l.polling \/ l.flight # NoBody

\* A closed page opens nothing and keeps nothing of the relay's.  No lane's
\* socket is ever open in it: one that the rest of a message made after the
\* page had failed is closed by its own onopen.  And in the end its requests
\* are over, every socket is closed, and a session it knows of, or learns of
\* later, is deleted.
ClosedPageLetsGo ==
    /\ [](PerLane /\ page.closed => \A q \in Queues : page.lanes[q].socket # "open")
    /\ page.closed ~>
         /\ page.stage \notin {"creating", "welcome"}
         /\ \A q \in Queues : page.lanes[q].socket \in {"none", "closed"}
         /\ page.token => page.deleted
================================================================================
