------------------------------ MODULE SessionProofs ------------------------------
(***************************************************************************)
(* A session of a multiplexed carrier, for any ids, batches, limits and    *)
(* number of backends: its types, its tombstones, the order of its         *)
(* downlink queue, the flow-control ledger of every stream and the exact   *)
(* charge of the session.                                                  *)
(***************************************************************************)
EXTENDS Session, Counting

--------------------------------------------------------------------------------
(* Constants.                                                              *)

\* The limits are numbers, and an id is a positive one.
LEMMA Limits ==
    /\ QueueItemCost \in Nat \ {0} /\ HeaderSize \in Nat \ {0} /\ WindowSize \in Nat \ {0}
    /\ InitialStreamWindow \in Nat \ {0} /\ DataChunk \in Nat \ {0}
    /\ MaxClosedStreamIDs \in Nat \ {0} /\ MaxStreamsPerSession \in Nat \ {0}
    /\ MaxUint32 \in Nat \ {0} /\ MaxFramePayload \in Nat \ {0}
    /\ MaxBodyBytes \in Nat \ {0} /\ MaxBatchFrames \in Nat \ {0}
    /\ MaxPendingPerSession \in Nat \ {0} /\ MaxPendingItemsPerSession \in Nat \ {0}
    /\ MaxBackends \in Nat \ {0}
    /\ ControlReserveExtraItems \in Nat /\ ControlReserveItemsPerStream \in Nat
    /\ StreamIDs \subseteq Nat \ {0} /\ 0 \notin StreamIDs /\ IsFiniteSet(StreamIDs)
    /\ Backends \subseteq Nat \ {0} /\ 0 \notin Backends
<1>1. /\ QueueItemCost \in Nat \ {0} /\ HeaderSize \in Nat \ {0} /\ WindowSize \in Nat \ {0}
      /\ InitialStreamWindow \in Nat \ {0} /\ DataChunk \in Nat \ {0}
      /\ MaxClosedStreamIDs \in Nat \ {0} /\ MaxStreamsPerSession \in Nat \ {0}
      /\ MaxUint32 \in Nat \ {0} /\ MaxFramePayload \in Nat \ {0}
      /\ MaxBodyBytes \in Nat \ {0} /\ MaxBatchFrames \in Nat \ {0}
      /\ MaxPendingPerSession \in Nat \ {0} /\ MaxPendingItemsPerSession \in Nat \ {0}
      /\ MaxBackends \in Nat \ {0}
  BY LimitsAssumption DEF PositiveLimits
<1>2. ControlReserveExtraItems \in Nat /\ ControlReserveItemsPerStream \in Nat
  BY ReserveAssumption
<1>3. StreamIDs \subseteq Nat \ {0} /\ 0 \notin StreamIDs /\ IsFiniteSet(StreamIDs)
  BY IDAssumption
<1>4. Backends \subseteq Nat \ {0} /\ 0 \notin Backends
  BY <1>1 DEF Backends
<1>5. QED
  BY <1>1, <1>2, <1>3, <1>4

--------------------------------------------------------------------------------
(* The inductive invariant.                                                *)

\* TypeOK, by what the actions change together.
StreamTypes == streams \in [StreamIDs -> StreamState]
TombTypes ==
    /\ closedStreams \in SUBSET StreamIDs
    /\ closedOrder \in Seq(StreamIDs) /\ closedStart \in Nat
QueueTypes ==
    /\ pendingFrames \in Seq(QueuedFrame)
    /\ pendingWindows \in [StreamIDs -> Nat]
CostTypes == pendingCost \in Nat /\ pendingItems \in Nat
PollTypes ==
    /\ unacked \in Seq(QueuedFrame)
    /\ unackedBase \in Nat /\ downCursor \in Nat /\ downActive \in BOOLEAN
CommitTypes == lastUpSequence \in Nat /\ lastUpDigest \in Seq(ClientFrame)
UpTypes == up \in UpCall
BackendTypes == backends \in [Backends -> BackendState]
OpenTypes == opens \in [StreamIDs -> 0 .. 2]

Typed ==
    /\ closed \in BOOLEAN /\ closing \in BOOLEAN
    /\ StreamTypes /\ TombTypes /\ QueueTypes /\ CostTypes /\ PollTypes
    /\ CommitTypes /\ UpTypes /\ BackendTypes /\ OpenTypes

Alive == {"dialing", "dialed", "running"}

\* A live stream and its backend name each other, and a backend whose loops have
\* not begun has written nothing.
Linked ==
    /\ \A id \in StreamIDs : ~Live(id) => streams[id] = NoStream
    /\ \A id \in StreamIDs : Live(id) =>
         /\ backends[streams[id].backend].id = id
         /\ backends[streams[id].backend].phase \in Alive
    /\ \A b \in Backends :
         /\ backends[b].phase # "unused" => backends[b].id \in StreamIDs
         /\ backends[b].phase \in {"dialing", "dialed"} => backends[b].w = "next"

\* The place of the ring that is overwritten next is one of its places.
Ringed == TombstoneRing /\ closedStart < MaxClosedStreamIDs

\* How many frames of its batch a call has validated.
Checked == IF up.pc = "validate" THEN up.i - 1 ELSE Len(up.frames)

\* What a validated frame says of the windows before and after it.
Follows(f, before, after) ==
    /\ \A id \in StreamIDs \ {f.id} : after[id] = before[id]
    /\ f.id # 0 =>
         /\ f.type = "open" => after[f.id] = InitialStreamWindow
         /\ f.type = "data" /\ before[f.id] # NoSnapshot =>
              after[f.id] = before[f.id] - f.n /\ f.n <= before[f.id]
         /\ f.type = "window" => after[f.id] = before[f.id]

\* An OPEN is the first frame of its batch that names the stream, of which the
\* session knows nothing.
FreshOpen(k) ==
    up.frames[k].type = "open" =>
      /\ up.frames[k].id # 0
      /\ up.live[k][up.frames[k].id] = NoSnapshot
      /\ \A j \in 1 .. k - 1 : up.frames[j].id # up.frames[k].id

\* A call that validates or applies is somewhere in its batch, with a snapshot
\* before every frame that is validated and one after the last, and the session
\* is open.
Placed ==
    /\ up.pc \in {"validate", "apply", "panic"} => ~closed
    /\ up.pc \in {"validate", "apply"} =>
         /\ up.i \in 1 .. Len(up.frames) + 1
         /\ Len(up.live) = Checked + 1

Snapshots ==
    up.pc \in {"validate", "apply"} =>
      \A k \in 1 .. Checked :
        /\ Follows(up.frames[k], up.live[k], up.live[k + 1])
        /\ FreshOpen(k)

\* While a batch is validated the snapshots begin with the live streams, and a
\* stream that an earlier frame names is closed or has a window.
Validating ==
    up.pc = "validate" =>
      /\ \A id \in StreamIDs : Live(id) => up.live[1][id] = streams[id].receiveWindow
      /\ \A id \in StreamIDs : WasClosed(id) => up.live[up.i][id] = NoSnapshot
      /\ \A j \in 1 .. up.i - 1 : up.frames[j].id # 0 =>
           WasClosed(up.frames[j].id) \/ up.live[up.i][up.frames[j].id] # NoSnapshot
      /\ \A k \in 1 .. up.i - 1 : up.frames[k].type = "open" =>
           up.frames[k].id \notin closedStreams

\* While it is applied the live streams are those of the snapshot, and no OPEN
\* still to come names a tombstone.
Applies ==
    up.pc = "apply" =>
      /\ \A id \in StreamIDs : Live(id) => streams[id].receiveWindow = up.live[up.i][id]
      /\ \A k \in up.i .. Len(up.frames) : up.frames[k].type = "open" =>
           up.frames[k].id \notin closedStreams

\* Nothing in the session names the id.
Unknown(id) ==
    /\ ~Live(id) /\ id \notin closedStreams
    /\ \A b \in Backends : backends[b].id # id
    /\ \A k \in DOMAIN pendingFrames : pendingFrames[k].id # id
    /\ \A k \in DOMAIN unacked : unacked[k].id # id

\* Nothing knows an id that has never been opened, and an id that has been
\* opened once has one backend.
Opened ==
    /\ \A id \in StreamIDs : opens[id] = 0 => Unknown(id)
    /\ \A b, c \in Backends :
         backends[b].id = backends[c].id /\ backends[b].id # 0
         /\ opens[backends[b].id] = 1 => b = c

\* No CLOSE of a live stream is on its way, unless it is of an earlier stream.
ClosesLast ==
    \A id \in StreamIDs : Live(id) /\ opens[id] = 1 =>
      /\ \A k \in DOMAIN pendingFrames :
           pendingFrames[k].type = "close" => pendingFrames[k].id # id
      /\ \A k \in DOMAIN unacked : unacked[k].type = "close" => unacked[k].id # id

\* A poll parks once the last batch is acknowledged.
Parked == downActive => unacked = <<>>

\* The ledger of one stream, its backend and how often its id was opened.
InHand(b) == b.phase = "running" /\ b.w \in {"write", "drain"}

WritesKnown(s, b) ==
    /\ s.pendingWriteItems = Len(s.writes) + (IF InHand(b) THEN 1 ELSE 0)
    /\ s.pendingWriteBytes = SumOf(s.writes) + (IF InHand(b) THEN b.left ELSE 0)

Balanced(s) ==
    /\ s.receiveWindow + s.pendingWriteBytes = InitialStreamWindow
    /\ s.pendingWriteCost = s.pendingWriteBytes + QueueItemCost * s.pendingWriteItems
    /\ s.receiveWindow >= 0 /\ s.pendingWriteBytes >= 0
    /\ s.pendingWriteItems >= 0

Ledgers ==
    \A id \in StreamIDs : Live(id) =>
      /\ Balanced(streams[id])
      /\ backends[streams[id].backend].w # "done" /\ opens[id] = 1 =>
           WritesKnown(streams[id], backends[streams[id].backend])

\* What the call of ProcessUp has reserved, and what the streams are charged.
Held == IF up.pc \in {"apply", "panic"} THEN up ELSE NoUpCall
WriteCosts(s) == [id \in StreamIDs |-> s[id].pendingWriteCost]
WriteItems(s) == [id \in StreamIDs |-> s[id].pendingWriteItems]

CostExact ==
    pendingCost = CostOf(pendingFrames) + CostOf(unacked) + Held.cost
                    + Total(StreamIDs, WriteCosts(streams))
ItemsExact ==
    pendingItems = Len(pendingFrames) + Len(unacked) + Held.items
                     + Total(StreamIDs, WriteItems(streams))
ClosedHoldsNothing ==
    closed => /\ pendingCost = 0 /\ pendingItems = 0
              /\ \A id \in StreamIDs : ~Live(id)
              /\ pendingFrames = << >> /\ unacked = << >>

Budget == CostExact /\ ItemsExact /\ ClosedHoldsNothing

Uplinked == Placed /\ Snapshots /\ Validating /\ Applies
Ordered == ClosesLast /\ Parked /\ NothingAfterClose /\ WindowsIndexed

Inv ==
    /\ Typed /\ Linked /\ Ringed /\ Uplinked
    /\ Opened /\ Ordered /\ Ledgers /\ Budget

\* The properties the runs check, in these parts.
LEMMA Parts ==
    /\ TypeOK <=> Typed
    /\ StreamLedger <=> Ledgers
    /\ BudgetExact <=> Budget
<1>1. TypeOK <=> Typed
  BY DEF TypeOK, Typed, StreamTypes, TombTypes, QueueTypes, CostTypes, PollTypes,
         CommitTypes, UpTypes, BackendTypes, OpenTypes
<1>2. StreamLedger <=> Ledgers
  BY DEF StreamLedger, Ledgers, LiveIDs, Balanced, WritesKnown, InHand
<1>3. BudgetExact <=> Budget
  <2>1. LiveIDs = {} <=> \A id \in StreamIDs : ~Live(id)
    BY DEF LiveIDs
  <2>2. QED
    BY <2>1 DEF BudgetExact, Budget, CostExact, ItemsExact, ClosedHoldsNothing, Held,
                WriteCosts, WriteItems
<1>4. QED
  BY <1>1, <1>2, <1>3

--------------------------------------------------------------------------------
(* Initially.                                                              *)

\* A session begins with nothing.
LEMMA InitInv == Init => Inv
<1> SUFFICES ASSUME Init PROVE Inv
  OBVIOUS
<1>1. Typed
  <2>1. NoStream \in StreamState
    BY Limits DEF NoStream, StreamState
  <2>2. UnusedBackend \in BackendState
    BY DEF UnusedBackend, BackendState
  <2>3. NoUpCall \in UpCall
    BY DEF NoUpCall, UpCall
  <2>4. StreamTypes /\ TombTypes /\ QueueTypes /\ CostTypes /\ OpenTypes
    BY <2>1 DEF Init, StreamTypes, TombTypes, QueueTypes, CostTypes, OpenTypes
  <2>5. PollTypes /\ CommitTypes /\ UpTypes /\ BackendTypes
    <3>1. << >> \in Seq(ClientFrame) /\ << >> \in Seq(QueuedFrame)
      OBVIOUS
    <3>2. PollTypes /\ CommitTypes
      BY <3>1 DEF Init, PollTypes, CommitTypes
    <3>3. UpTypes /\ BackendTypes
      BY <2>2, <2>3 DEF Init, UpTypes, BackendTypes
    <3>4. QED
      BY <3>2, <3>3
  <2>6. QED
    BY <2>4, <2>5 DEF Typed, Init
<1>2. \A id \in StreamIDs : ~Live(id) /\ streams[id] = NoStream
  BY DEF Init, Live, NoStream
<1>3. \A b \in Backends : backends[b] = UnusedBackend
  BY DEF Init
<1>4. Linked
  BY <1>2, <1>3 DEF Linked, UnusedBackend
<1>5. Ringed
  BY <1>2, Limits DEF Ringed, TombstoneRing, LiveIDs, Init
<1>6. Uplinked
  BY DEF Uplinked, Placed, Snapshots, Validating, Applies, Init, NoUpCall
<1>7. Opened
  BY <1>2, <1>3, Limits DEF Opened, Unknown, UnusedBackend, Init
<1>8. Ordered
  <2>1. unacked \o pendingFrames = << >>
    BY DEF Init
  <2>2. QED
    BY <1>2, <2>1 DEF Ordered, ClosesLast, Parked, NothingAfterClose, WindowsIndexed, Init
<1>9. Ledgers
  BY <1>2 DEF Ledgers
<1>10. Budget
  <2>1. CostOf(<< >>) = 0
    <3>1. [k \in DOMAIN << >> |-> FrameCost(<< >>[k])] = << >>
      OBVIOUS
    <3>2. QED
      BY <3>1, SumEmpty DEF CostOf
  <2>2. Total(StreamIDs, WriteCosts(streams)) = 0 /\ Total(StreamIDs, WriteItems(streams)) = 0
    BY <1>2, TotalZero DEF WriteCosts, WriteItems, NoStream
  <2>3. Held.cost = 0 /\ Held.items = 0
    BY DEF Held, Init, NoUpCall
  <2>4. Len(<< >>) = 0
    OBVIOUS
  <2>5. QED
    BY <1>2, <2>1, <2>2, <2>3, <2>4
    DEF Budget, CostExact, ItemsExact, ClosedHoldsNothing, Init
<1>11. QED
  BY <1>1, <1>4, <1>5, <1>6, <1>7, <1>8, <1>9, <1>10 DEF Inv

--------------------------------------------------------------------------------
(* What survives a step that leaves its variables alone.                   *)

\* Types that nothing touches.
LEMMA SameTypes ==
    ASSUME Typed
    PROVE  /\ UNCHANGED closeVars => closed' \in BOOLEAN /\ closing' \in BOOLEAN
           /\ UNCHANGED streams => StreamTypes'
           /\ UNCHANGED tombVars => TombTypes'
           /\ UNCHANGED queueVars => QueueTypes'
           /\ UNCHANGED costVars => CostTypes'
           /\ UNCHANGED pollVars => PollTypes'
           /\ UNCHANGED <<lastUpSequence, lastUpDigest>> => CommitTypes'
           /\ UNCHANGED up => UpTypes'
           /\ UNCHANGED backends => BackendTypes'
           /\ UNCHANGED opens => OpenTypes'
<1>1. /\ UNCHANGED closeVars => closed' \in BOOLEAN /\ closing' \in BOOLEAN
      /\ UNCHANGED streams => StreamTypes'
      /\ UNCHANGED tombVars => TombTypes'
  BY DEF Typed, closeVars, tombVars, StreamTypes, TombTypes
<1>2. /\ UNCHANGED queueVars => QueueTypes'
      /\ UNCHANGED costVars => CostTypes'
      /\ UNCHANGED pollVars => PollTypes'
  BY DEF Typed, queueVars, costVars, pollVars, QueueTypes, CostTypes, PollTypes
<1>3. /\ UNCHANGED <<lastUpSequence, lastUpDigest>> => CommitTypes'
      /\ UNCHANGED up => UpTypes'
      /\ UNCHANGED backends => BackendTypes'
      /\ UNCHANGED opens => OpenTypes'
  BY DEF Typed, CommitTypes, UpTypes, BackendTypes, OpenTypes
<1>4. QED
  BY <1>1, <1>2, <1>3

\* Streams and backends that stay as they are stay linked.
LEMMA SameLinked ==
    ASSUME Linked, UNCHANGED <<streams, backends>>
    PROVE  Linked'
BY DEF Linked, Live

\* The ring, when no stream becomes live.
LEMMA SameRinged ==
    ASSUME Ringed, UNCHANGED tombVars, \A id \in StreamIDs : Live(id)' => Live(id)
    PROVE  Ringed'
BY DEF Ringed, TombstoneRing, LiveIDs, tombVars

\* The batch of a call, when nothing it looks at changes.
LEMMA SameUplinked ==
    ASSUME Uplinked, UNCHANGED <<up, closed, streams, closedStreams>>
    PROVE  Uplinked'
<1>1. Placed' /\ Snapshots'
  BY DEF Uplinked, Placed, Snapshots, Checked, FreshOpen
<1>2. Validating'
  BY DEF Uplinked, Validating, WasClosed, Live
<1>3. Applies'
  BY DEF Uplinked, Applies, Live
<1>4. QED
  BY <1>1, <1>2, <1>3 DEF Uplinked

\* A step that needs the mutex finds no batch being validated or applied.
LEMMA UnlockedUplinked ==
    ASSUME UNCHANGED up, ~Locked
    PROVE  Uplinked'
BY DEF Uplinked, Placed, Snapshots, Validating, Applies, Locked

\* Ids, when no one learns a new one.
LEMMA SameOpened ==
    ASSUME Opened, UNCHANGED opens, \A b \in Backends : backends'[b].id = backends[b].id,
           \A id \in StreamIDs : Unknown(id) => Unknown(id)'
    PROVE  Opened'
BY DEF Opened

\* The downlink, when no stream becomes live.
LEMMA SameOrdered ==
    ASSUME Ordered, UNCHANGED <<opens, pendingFrames, pendingWindows, unacked>>,
           downActive' => downActive,
           \A id \in StreamIDs : Live(id)' => Live(id)
    PROVE  Ordered'
<1>1. ClosesLast' /\ Parked'
  BY DEF Ordered, ClosesLast, Parked
<1>2. NothingAfterClose' /\ WindowsIndexed'
  BY DEF Ordered, NothingAfterClose, WindowsIndexed
<1>3. QED
  BY <1>1, <1>2 DEF Ordered

\* The budget, when nothing that is charged changes.
LEMMA SameBudget ==
    ASSUME Budget, UNCHANGED <<closed, costVars, pendingFrames, unacked>>,
           Held'.cost = Held.cost, Held'.items = Held.items,
           \A id \in StreamIDs :
             /\ streams'[id].pendingWriteCost = streams[id].pendingWriteCost
             /\ streams'[id].pendingWriteItems = streams[id].pendingWriteItems
             /\ Live(id)' => Live(id)
    PROVE  Budget'
<1>1. WriteCosts(streams') = WriteCosts(streams) /\ WriteItems(streams') = WriteItems(streams)
  BY DEF WriteCosts, WriteItems
<1>2. QED
  BY <1>1 DEF Budget, CostExact, ItemsExact, ClosedHoldsNothing, costVars

--------------------------------------------------------------------------------
(* Steps of a backend that change nothing but the backend.                 *)

\* What such a step may do: it starts nothing, and keeps what the writer has in
\* hand unless the writer returns.
QuietChange(b, old, new) ==
    /\ new \in BackendState /\ new.id = old.id
    /\ old.phase # "unused" /\ new.phase # "unused"
    /\ new.phase = "finished" => closed \/ StreamOf(b).backend # b
    /\ new.phase \in {"dialing", "dialed"} => new.w = "next"
    /\ new.w # "done" => /\ old.w # "done" /\ (InHand(new) <=> InHand(old))
                         /\ InHand(new) => new.left = old.left

Quiet(b) ==
    /\ backends' = [backends EXCEPT ![b] = backends'[b]]
    /\ QuietChange(b, backends[b], backends'[b])
    /\ UNCHANGED <<closeVars, streams, tombVars, queueVars, costVars, pollVars, upVars>>

\* A closed backend, with one of its loops ended.
LEMMA ClosedBackendType ==
    ASSUME Typed, NEW b \in Backends
    PROVE  /\ ClosedBackend(b) \in BackendState
           /\ [ClosedBackend(b) EXCEPT !.w = "done", !.left = 0, !.wrote = 0] \in BackendState
           /\ [ClosedBackend(b) EXCEPT !.r = "done", !.allowance = 0, !.got = 0] \in BackendState
           /\ ClosedBackend(b).id = backends[b].id /\ ClosedBackend(b).phase = backends[b].phase
           /\ ClosedBackend(b).w = backends[b].w /\ ClosedBackend(b).left = backends[b].left
<1>1. backends[b] \in BackendState
  BY DEF Typed, BackendTypes
<1>2. ClosedBackend(b) \in BackendState
  BY <1>1 DEF ClosedBackend, BackendState
<1>3. /\ ClosedBackend(b).id = backends[b].id /\ ClosedBackend(b).phase = backends[b].phase
      /\ ClosedBackend(b).w = backends[b].w /\ ClosedBackend(b).left = backends[b].left
  BY <1>1 DEF ClosedBackend, BackendState
<1>4. ASSUME NEW c \in BackendState
      PROVE  /\ [c EXCEPT !.w = "done", !.left = 0, !.wrote = 0] \in BackendState
             /\ [c EXCEPT !.r = "done", !.allowance = 0, !.got = 0] \in BackendState
  <2>1. [c EXCEPT !.w = "done", !.left = 0, !.wrote = 0] \in BackendState
    <3>1. [c EXCEPT !.w = "done"] \in BackendState
      BY DEF BackendState
    <3>2. ASSUME NEW d \in BackendState
          PROVE  [d EXCEPT !.left = 0] \in BackendState /\ [d EXCEPT !.wrote = 0] \in BackendState
      BY DEF BackendState
    <3>3. [[[c EXCEPT !.w = "done"] EXCEPT !.left = 0] EXCEPT !.wrote = 0] \in BackendState
      BY <3>1, <3>2
    <3>4. QED
      BY <3>3
  <2>2. [c EXCEPT !.r = "done", !.allowance = 0, !.got = 0] \in BackendState
    BY DEF BackendState
  <2>3. QED
    BY <2>1, <2>2
<1>5. QED
  BY <1>2, <1>3, <1>4

\* A backend that replaces one of its fields keeps the others.
LEMMA QuietIf ==
    ASSUME Typed, NEW b \in Backends, NEW new, QuietChange(b, backends[b], new),
           backends' = [backends EXCEPT ![b] = new],
           UNCHANGED <<closeVars, streams, tombVars, queueVars, costVars, pollVars, upVars>>
    PROVE  Quiet(b)
<1>1. backends'[b] = new
  BY DEF Typed, BackendTypes
<1>2. QED
  BY <1>1 DEF Quiet

\* The writer returns.
LEMMA WriterExitsQuiet ==
    ASSUME Typed, NEW b \in Backends, backends[b].phase = "running", WriterExits(b),
           UNCHANGED <<closeVars, streams, tombVars, queueVars, costVars, pollVars, upVars>>
    PROVE  Quiet(b)
<1> DEFINE new == [ClosedBackend(b) EXCEPT !.w = "done", !.left = 0, !.wrote = 0]
<1>1. /\ new \in BackendState /\ new.id = backends[b].id
      /\ new.phase = "running" /\ new.w = "done"
  <2>1. ClosedBackend(b) \in BackendState
    BY ClosedBackendType
  <2>2. new.id = ClosedBackend(b).id /\ new.phase = ClosedBackend(b).phase /\ new.w = "done"
    BY <2>1 DEF BackendState
  <2>3. QED
    BY <2>2, ClosedBackendType
<1> HIDE DEF new
<1>2. QuietChange(b, backends[b], new)
  BY <1>1 DEF QuietChange
<1>3. backends' = [backends EXCEPT ![b] = new]
  BY DEF WriterExits, new
<1>4. QED
  BY <1>2, <1>3, QuietIf

\* The reader returns.
LEMMA ReaderExitsQuiet ==
    ASSUME Typed, NEW b \in Backends, backends[b].phase = "running", ReaderExits(b),
           UNCHANGED <<closeVars, streams, tombVars, queueVars, costVars, pollVars, upVars>>
    PROVE  Quiet(b)
<1> DEFINE new == [ClosedBackend(b) EXCEPT !.r = "done", !.allowance = 0, !.got = 0]
<1>1. /\ new \in BackendState /\ new.id = backends[b].id
      /\ new.phase = "running" /\ new.w = backends[b].w /\ new.left = backends[b].left
  <2>1. ClosedBackend(b) \in BackendState
    BY ClosedBackendType
  <2>2. /\ new.id = ClosedBackend(b).id /\ new.phase = ClosedBackend(b).phase
        /\ new.w = ClosedBackend(b).w /\ new.left = ClosedBackend(b).left
    BY <2>1 DEF BackendState
  <2>3. QED
    BY <2>2, ClosedBackendType
<1> HIDE DEF new
<1>2. QuietChange(b, backends[b], new)
  BY <1>1 DEF QuietChange, InHand
<1>3. backends' = [backends EXCEPT ![b] = new]
  BY DEF ReaderExits, new
<1>4. QED
  BY <1>2, <1>3, QuietIf

\* The allowance of nextReadAllowance is a number.
LEMMA AllowanceType ==
    ASSUME Typed, NEW state \in StreamState
    PROVE  ReadAllowance(state) \in Nat
<1>1. \A x, y \in Int : Smallest({x, y}) \in {x, y}
  <2> TAKE x, y \in Int
  <2>1. \E z \in {x, y} : \A t \in {x, y} : z <= t
    <3>1. CASE x <= y
      BY <3>1
    <3>2. CASE ~(x <= y)
      BY <3>2
    <3>3. QED
      BY <3>1, <3>2
  <2>2. QED
    BY <2>1 DEF Smallest
<1>2. state.sendCredit \in Nat /\ DataChunk \in Nat
  BY Limits DEF StreamState
<1>3. Smallest({state.sendCredit, DataChunk}) \in Nat
  BY <1>1, <1>2
<1>4. DownlinkCostLimit \in Int
  BY Limits DEF DownlinkCostLimit, UplinkCostLimit, UplinkReserveCost, UplinkReserveItems,
                ControlReserveCost, ControlReserveItems, Minus
<1> DEFINE available == DownlinkCostLimit - pendingCost - QueueItemCost - HeaderSize
<1>5. available \in Int
  BY <1>4, Limits DEF Typed, CostTypes
<1> HIDE DEF available
<1>6. \A limit \in Nat : available > 0 => Smallest({limit, available}) \in Nat
  BY <1>1, <1>5
<1>7. \A limit \in Nat : DataFrameAllowance(limit) \in Nat
  BY <1>5, <1>6 DEF DataFrameAllowance, available
<1>8. QED
  BY <1>3, <1>7 DEF ReadAllowance

\* The dial ends, one way or the other.
LEMMA DialQuiet ==
    ASSUME Typed, Linked, NEW b \in Backends,
           BackendDialed(b) \/ BackendDialFailed(b) \/ BackendStores(b)
    PROVE  Quiet(b)
<1>1. backends[b] \in BackendState
  BY DEF Typed, BackendTypes
<1>2. backends[b].phase \in {"dialing", "dialed"} => backends[b].w = "next"
  BY DEF Linked
<1>3. CASE BackendDialed(b)
  <2> DEFINE new == [backends[b] EXCEPT !.phase = "dialed"]
  <2>1. backends' = [backends EXCEPT ![b] = new]
    BY <1>1, <1>3 DEF BackendDialed, BackendState, Typed, BackendTypes
  <2>2. QuietChange(b, backends[b], new)
    BY <1>1, <1>2, <1>3 DEF BackendDialed, Backend, QuietChange, BackendState, InHand
  <2> HIDE DEF new
  <2>3. QED
    BY <1>3, <2>1, <2>2, QuietIf DEF BackendDialed
<1>4. CASE BackendDialFailed(b)
  <2> DEFINE new == [backends[b] EXCEPT !.phase = "running", !.w = "done", !.r = "done"]
  <2>1. backends' = [backends EXCEPT ![b] = new]
    BY <1>1, <1>4 DEF BackendDialFailed, BackendState, Typed, BackendTypes
  <2>2. QuietChange(b, backends[b], new)
    BY <1>1, <1>2, <1>4 DEF BackendDialFailed, Backend, QuietChange, BackendState, InHand
  <2> HIDE DEF new
  <2>3. QED
    BY <1>4, <2>1, <2>2, QuietIf DEF BackendDialFailed
<1>5. CASE BackendStores(b)
  <2> DEFINE new == IF backends[b].cancelled
                    THEN [backends[b] EXCEPT !.phase = "running", !.w = "done", !.r = "done"]
                    ELSE [backends[b] EXCEPT !.phase = "running", !.conn = "open"]
  <2>1. backends' = [backends EXCEPT ![b] = new]
    BY <1>1, <1>5 DEF BackendStores, BackendState, Typed, BackendTypes
  <2>2. QuietChange(b, backends[b], new)
    <3>1. CASE backends[b].cancelled
      BY <1>1, <1>2, <1>5, <3>1
      DEF BackendStores, Backend, QuietChange, BackendState, InHand
    <3>2. CASE ~backends[b].cancelled
      BY <1>1, <1>2, <1>5, <3>2
      DEF BackendStores, Backend, QuietChange, BackendState, InHand
    <3>3. QED
      BY <3>1, <3>2
  <2> HIDE DEF new
  <2>3. QED
    BY <1>5, <2>1, <2>2, QuietIf DEF BackendStores
<1>6. QED
  BY <1>3, <1>4, <1>5

\* The connection takes bytes, or gives some, or fails; the reader asks.
LEMMA ConnectionQuiet ==
    ASSUME Typed, Linked, NEW b \in Backends,
           \/ \E n \in 1 .. Backend(b).left : BackendWrite(b, n)
           \/ BackendWriteFails(b)
           \/ NextReadAllowance(b)
           \/ \E n \in 1 .. Backend(b).allowance : BackendRead(b, n)
           \/ BackendReadEnds(b)
    PROVE  Quiet(b)
<1>1. backends[b] \in BackendState
  BY DEF Typed, BackendTypes
<1>2. ASSUME NEW n \in 1 .. Backend(b).left, BackendWrite(b, n)
      PROVE  Quiet(b)
  <2> DEFINE new == [backends[b] EXCEPT !.w = "drain", !.wrote = n]
  <2>1. backends' = [backends EXCEPT ![b] = new]
    BY <1>1, <1>2 DEF BackendWrite, BackendState, Typed, BackendTypes
  <2>2. backends[b].left \in Int /\ n \in Nat
    BY <1>1, <1>2 DEF BackendState, Backend
  <2>3. QuietChange(b, backends[b], new)
    BY <1>1, <1>2, <2>2 DEF BackendWrite, Writing, Backend, QuietChange, BackendState, InHand
  <2> HIDE DEF new
  <2>4. QED
    BY <1>2, <2>1, <2>3, QuietIf DEF BackendWrite
<1>3. CASE BackendWriteFails(b)
  BY <1>3, WriterExitsQuiet DEF BackendWriteFails, Writing, Backend
<1>4. CASE NextReadAllowance(b)
  <2> DEFINE id == backends[b].id
             allowed == IF closed \/ ~Live(id) THEN 0 ELSE ReadAllowance(StreamOf(b))
  <2>1. CASE allowed # 0
    <3> DEFINE new == [backends[b] EXCEPT !.r = "read", !.allowance = allowed]
    <3>1. backends' = [backends EXCEPT ![b] = new]
      BY <1>1, <1>4, <2>1 DEF NextReadAllowance, Backend, BackendState, Typed, BackendTypes
    <3>2. backends[b].phase = "running"
      BY <1>4 DEF NextReadAllowance, Reading, Backend
    <3>3. allowed \in Nat
      <4>1. CASE closed \/ ~Live(id)
        BY <4>1
      <4>2. CASE id \in StreamIDs /\ ~closed /\ Live(id)
        <5>1. StreamOf(b) \in StreamState
          BY <4>2 DEF StreamOf, Backend, Typed, StreamTypes
        <5>2. QED
          BY <4>2, <5>1, AllowanceType
      <4>3. id \in StreamIDs
        BY <3>2 DEF Linked
      <4>4. QED
        BY <4>1, <4>2, <4>3
    <3> HIDE DEF allowed
    <3>4. QuietChange(b, backends[b], new)
      BY <1>1, <3>2, <3>3 DEF QuietChange, BackendState, InHand
    <3> HIDE DEF new
    <3>5. QED
      BY <1>4, <3>1, <3>4, QuietIf DEF NextReadAllowance
  <2>2. CASE allowed = 0
    <3>1. ReaderExits(b) /\ backends[b].phase = "running"
      BY <1>4, <2>2 DEF NextReadAllowance, Reading, Backend
    <3>2. QED
      BY <1>4, <3>1, ReaderExitsQuiet DEF NextReadAllowance
  <2>3. QED
    BY <2>1, <2>2
<1>5. ASSUME NEW n \in 1 .. Backend(b).allowance, BackendRead(b, n)
      PROVE  Quiet(b)
  <2> DEFINE new == [backends[b] EXCEPT !.r = "deliver", !.got = n, !.allowance = 0]
  <2>1. backends' = [backends EXCEPT ![b] = new]
    BY <1>1, <1>5 DEF BackendRead, BackendState, Typed, BackendTypes
  <2>2. backends[b].allowance \in Nat /\ n \in Nat
    BY <1>1, <1>5 DEF BackendState, Backend
  <2>3. QuietChange(b, backends[b], new)
    BY <1>1, <1>5, <2>2 DEF BackendRead, Reading, Backend, QuietChange, BackendState, InHand
  <2> HIDE DEF new
  <2>4. QED
    BY <1>5, <2>1, <2>3, QuietIf DEF BackendRead
<1>6. CASE BackendReadEnds(b)
  BY <1>6, ReaderExitsQuiet DEF BackendReadEnds, Reading, Backend
<1>7. QED
  BY <1>2, <1>3, <1>4, <1>5, <1>6

\* A backend whose stream is gone ends.
LEMMA GoneQuiet ==
    ASSUME Typed, NEW b \in Backends, BackendGone(b)
    PROVE  Quiet(b)
<1> DEFINE new == [backends[b] EXCEPT !.phase = "finished", !.cancelled = TRUE]
<1>1. backends[b] \in BackendState
  BY DEF Typed, BackendTypes
<1>2. backends' = [backends EXCEPT ![b] = new]
  BY <1>1 DEF BackendGone, BackendState, Typed, BackendTypes
<1>3. QuietChange(b, backends[b], new)
  BY <1>1 DEF BackendGone, BackendEnding, Writing, Backend, QuietChange, BackendState, InHand
<1> HIDE DEF new
<1>4. QED
  BY <1>2, <1>3, QuietIf DEF BackendGone

\* A quiet step keeps the invariant.
LEMMA QuietInv ==
    ASSUME Inv, NEW b \in Backends, Quiet(b)
    PROVE  Inv'
<1>1. Typed /\ Linked /\ Ringed /\ Uplinked /\ Opened /\ Ordered /\ Ledgers /\ Budget
  BY DEF Inv
<1>2. /\ UNCHANGED <<closeVars, streams, tombVars, queueVars, costVars, pollVars, upVars>>
      /\ UNCHANGED <<closed, up, opens, closedStreams, pendingFrames, pendingWindows,
                     unacked, downActive, lastUpSequence, lastUpDigest>>
      /\ \A id \in StreamIDs : Live(id)' <=> Live(id)
  BY DEF Quiet, closeVars, tombVars, queueVars, pollVars, upVars, Live
<1>3. /\ backends'[b] \in BackendState
      /\ backends' \in [Backends -> BackendState]
      /\ \A c \in Backends \ {b} : backends'[c] = backends[c]
      /\ QuietChange(b, backends[b], backends'[b])
  BY <1>1 DEF Quiet, QuietChange, Typed, BackendTypes
<1>4. Typed'
  BY <1>1, <1>2, <1>3, SameTypes DEF Typed, BackendTypes
<1>5. Linked'
  <2>1. ASSUME NEW id \in StreamIDs, Live(id)'
        PROVE  /\ backends'[streams'[id].backend].id = id
               /\ backends'[streams'[id].backend].phase \in Alive
    <3> DEFINE s == streams[id].backend
    <3>1. streams'[id].backend = s /\ s \in Backends
      BY <1>1, <1>2, <2>1 DEF Typed, StreamTypes, StreamState, Live, Backends
    <3>2. backends[s].id = id /\ backends[s].phase \in Alive
      BY <1>1, <1>2, <2>1 DEF Linked
    <3>3. CASE s # b
      BY <1>3, <3>1, <3>2, <3>3
    <3>4. CASE s = b
      <4>1. StreamOf(b).backend = b /\ ~closed
        BY <1>1, <1>2, <2>1, <3>2, <3>4 DEF StreamOf, Backend, Budget, ClosedHoldsNothing
      <4>2. backends'[b].phase \in Alive
        BY <1>3, <4>1 DEF QuietChange, BackendState, Alive
      <4>3. QED
        BY <1>3, <3>1, <3>2, <3>4, <4>2 DEF QuietChange
    <3>5. QED
      BY <3>3, <3>4
  <2>2. \A id \in StreamIDs : ~Live(id)' => streams'[id] = NoStream
    BY <1>1, <1>2 DEF Linked
  <2>3. \A c \in Backends :
           /\ backends'[c].phase # "unused" => backends'[c].id \in StreamIDs
           /\ backends'[c].phase \in {"dialing", "dialed"} => backends'[c].w = "next"
    BY <1>1, <1>3 DEF Linked, QuietChange
  <2>4. QED
    BY <2>1, <2>2, <2>3 DEF Linked
<1>6. Ringed'
  BY <1>1, <1>2, SameRinged
<1>7. Uplinked'
  BY <1>1, <1>2, SameUplinked
<1>8. Opened'
  <2>1. \A c \in Backends : backends'[c].id = backends[c].id
    BY <1>3 DEF QuietChange
  <2>2. \A id \in StreamIDs : Unknown(id) => Unknown(id)'
    BY <1>2, <2>1 DEF Unknown
  <2>3. QED
    BY <1>1, <1>2, <2>1, <2>2, SameOpened
<1>9. Ordered'
  BY <1>1, <1>2, SameOrdered
<1>10. Ledgers'
  <2> SUFFICES ASSUME NEW id \in StreamIDs, Live(id)
               PROVE  /\ Balanced(streams[id])
                      /\ backends'[streams[id].backend].w # "done" /\ opens[id] = 1 =>
                           WritesKnown(streams[id], backends'[streams[id].backend])
    BY <1>2 DEF Ledgers
  <2>1. /\ Balanced(streams[id])
        /\ backends[streams[id].backend].w # "done" /\ opens[id] = 1 =>
             WritesKnown(streams[id], backends[streams[id].backend])
    BY <1>1 DEF Ledgers
  <2>2. streams[id].backend \in Backends
    BY <1>1 DEF Typed, StreamTypes, StreamState, Live, Backends
  <2>3. CASE streams[id].backend # b
    BY <1>3, <2>1, <2>2, <2>3
  <2>4. CASE streams[id].backend = b
    BY <1>3, <2>1, <2>4 DEF QuietChange, WritesKnown
  <2>5. QED
    BY <2>3, <2>4
<1>11. Budget'
  <2>1. Held' = Held
    BY <1>2 DEF Held
  <2>2. UNCHANGED <<closed, costVars, pendingFrames, unacked, streams>>
    BY <1>2
  <2>3. QED
    BY <1>1, <1>2, <2>1, <2>2, SameBudget
<1>12. QED
  BY <1>4, <1>5, <1>6, <1>7, <1>8, <1>9, <1>10, <1>11 DEF Inv

--------------------------------------------------------------------------------
(* ProcessUp until the batch is applied.                                   *)

\* A step that changes only the call and whether the session is being closed.
LEMMA OnlyUpInv ==
    ASSUME Inv, UpTypes', closing' \in BOOLEAN, Uplinked',
           Held'.cost = Held.cost, Held'.items = Held.items,
           UNCHANGED <<closed, streams, tombVars, queueVars, costVars, pollVars,
                       lastUpSequence, lastUpDigest, opens, backends>>
    PROVE  Inv'
<1>1. Typed /\ Linked /\ Ringed /\ Opened /\ Ordered /\ Ledgers /\ Budget
  BY DEF Inv
<1>2. /\ UNCHANGED <<closedStreams, pendingFrames, pendingWindows, unacked, downActive>>
      /\ \A id \in StreamIDs : Live(id)' <=> Live(id)
  BY DEF tombVars, queueVars, pollVars, Live
<1>3. Typed'
  <2>1. closed' \in BOOLEAN
    BY <1>1 DEF Typed
  <2>2. QED
    BY <1>1, <2>1, SameTypes DEF Typed
<1>4. Linked' /\ Ringed'
  BY <1>1, <1>2, SameLinked, SameRinged
<1>5. Opened'
  <2>1. \A id \in StreamIDs : Unknown(id) => Unknown(id)'
    BY <1>2 DEF Unknown
  <2>2. QED
    BY <1>1, <2>1, SameOpened
<1>6. Ordered'
  BY <1>1, <1>2, SameOrdered
<1>7. Ledgers'
  BY <1>1, <1>2 DEF Ledgers
<1>8. Budget'
  BY <1>1, <1>2, SameBudget
<1>9. QED
  BY <1>3, <1>4, <1>5, <1>6, <1>7, <1>8 DEF Inv

\* A rejected sequence or cursor.
LEMMA RejectInv ==
    ASSUME Inv, UpReject \/ PollRejected
    PROVE  Inv'
<1>1. /\ ~Locked /\ closing' = TRUE
      /\ UNCHANGED <<closed, streams, tombVars, queueVars, costVars, pollVars,
                     upVars, backends>>
  BY DEF UpReject, PollRejected
<1>2. UNCHANGED <<lastUpSequence, lastUpDigest, up, opens>>
  BY <1>1 DEF upVars
<1>3. UpTypes' /\ Uplinked'
  BY <1>1, <1>2, SameTypes, UnlockedUplinked DEF Inv
<1>4. Held' = Held
  BY <1>2 DEF Held
<1>5. QED
  BY <1>1, <1>2, <1>3, <1>4, OnlyUpInv

\* A call that is neither validating nor applying holds nothing.
LEMMA IdleUp ==
    ASSUME Typed, up' \in UpCall, up'.pc \in {"idle", "parse"},
           up.pc \notin {"apply", "panic"}
    PROVE  /\ UpTypes' /\ Uplinked'
           /\ Held'.cost = Held.cost /\ Held'.items = Held.items
<1>1. UpTypes' /\ Uplinked'
  BY DEF UpTypes, Uplinked, Placed, Snapshots, Validating, Applies
<1>2. Held' = NoUpCall /\ Held = NoUpCall
  BY DEF Held
<1>3. QED
  BY <1>1, <1>2

\* No call is a call.
LEMMA NoUpCallType == NoUpCall \in UpCall /\ NoUpCall.pc = "idle"
BY DEF NoUpCall, UpCall

\* The next sequence is admitted.
LEMMA BeginInv ==
    ASSUME Inv, NEW body \in Batches, UpBegin(body)
    PROVE  Inv'
<1>1. up' \in UpCall /\ up'.pc = "parse"
  <2>1. body \in Seq(ClientFrame)
    BY BatchAssumption
  <2>2. QED
    BY <2>1, NoUpCallType DEF UpBegin, NoUpCall, UpCall
<1>2. up.pc = "idle"
  BY DEF UpBegin
<1>3. /\ UpTypes' /\ Uplinked'
      /\ Held'.cost = Held.cost /\ Held'.items = Held.items
  BY <1>1, <1>2, IdleUp DEF Inv
<1>4. closing' \in BOOLEAN
  BY DEF UpBegin, closeVars, Inv, Typed
<1>5. QED
  BY <1>3, <1>4, OnlyUpInv DEF UpBegin, closeVars

\* The body is parsed, and the session looked at again.
LEMMA RelockInv ==
    ASSUME Inv, UpRelock
    PROVE  Inv'
<1>1. closing' \in BOOLEAN
  BY DEF UpRelock, Inv, Typed
<1>2. CASE closed \/ ~WellFormed(up.frames)
  <2>1. up' = NoUpCall /\ up.pc = "parse"
    BY <1>2 DEF UpRelock
  <2>2. /\ UpTypes' /\ Uplinked'
        /\ Held'.cost = Held.cost /\ Held'.items = Held.items
    BY <2>1, NoUpCallType, IdleUp DEF Inv
  <2>3. QED
    BY <1>1, <2>2, OnlyUpInv DEF UpRelock
<1>3. CASE ~closed /\ WellFormed(up.frames)
  <2> DEFINE first == [id \in StreamIDs |->
                         IF Live(id) THEN streams[id].receiveWindow ELSE NoSnapshot]
  <2>1. first \in [StreamIDs -> Int]
    BY DEF Inv, Typed, StreamTypes, StreamState, NoSnapshot
  <2>2. /\ \A id \in StreamIDs : Live(id) => first[id] = streams[id].receiveWindow
        /\ \A id \in closedStreams : first[id] = NoSnapshot
    BY DEF Inv, Typed, TombTypes, Ringed, TombstoneRing, LiveIDs
  <2>3. up.pc = "parse" /\ up' = [up EXCEPT !.pc = "validate", !.i = 1, !.live = <<first>>]
    BY <1>3 DEF UpRelock
  <2> HIDE DEF first
  <2>4. <<first>> \in Seq([StreamIDs -> Int]) /\ Len(<<first>>) = 1 /\ <<first>>[1] = first
    BY <2>1
  <2>5. /\ up' \in UpCall /\ up'.pc = "validate" /\ up'.i = 1 /\ up'.frames = up.frames
        /\ Len(up'.live) = 1 /\ up'.live[1] = first
    BY <2>3, <2>4 DEF Inv, Typed, UpTypes, UpCall
  <2>6. UNCHANGED <<closed, streams, closedStreams>>
    BY DEF UpRelock, tombVars
  <2>7. Uplinked'
    <3>1. up.frames \in Seq(ClientFrame) /\ Len(up.frames) \in Nat
      BY DEF Inv, Typed, UpTypes, UpCall
    <3>2. Placed' /\ Snapshots'
      BY <1>3, <2>5, <2>6, <3>1 DEF Placed, Snapshots, Checked
    <3>3. Validating' /\ Applies'
      BY <2>2, <2>5, <2>6 DEF Validating, Applies, WasClosed, Live
    <3>4. QED
      BY <3>2, <3>3 DEF Uplinked
  <2>8. Held' = NoUpCall /\ Held = NoUpCall
    BY <2>3, <2>5 DEF Held
  <2>9. QED
    BY <1>1, <2>5, <2>7, <2>8, OnlyUpInv DEF UpRelock, UpTypes
<1>4. QED
  BY <1>2, <1>3

\* Where a call is in its batch.
LEMMA Place ==
    ASSUME Inv, up.pc \in {"validate", "apply"}
    PROVE  /\ up.frames \in Seq(ClientFrame) /\ Len(up.frames) \in Nat
           /\ up.live \in Seq([StreamIDs -> Int])
           /\ up.i \in Nat /\ up.i \in 1 .. Len(up.frames) + 1
           /\ Len(up.live) = Checked + 1
           /\ up.cost \in Int /\ up.items \in Int
           /\ ~closed
BY DEF Inv, Typed, UpTypes, UpCall, Uplinked, Placed

\* What a valid frame leaves in the map of validateBatchLocked.
LEMMA ValidFrame ==
    ASSUME Inv, up.pc = "validate", up.i <= Len(up.frames),
           NEW f, f = Current, NEW before, before = up.live[up.i],
           NEW after, after = SnapshotAfter(before, f), FrameValid(f)
    PROVE  /\ f \in ClientFrame
           /\ after \in [StreamIDs -> Int]
           /\ Follows(f, before, after)
           /\ FreshOpen(up.i)
           /\ f.id # 0 => f.type = "close" \/ WasClosed(f.id) \/ after[f.id] # NoSnapshot
           /\ \A id \in StreamIDs : WasClosed(id) => after[id] = NoSnapshot
           /\ f.id # 0 /\ f.type = "close" => after[f.id] = NoSnapshot
           /\ f.type = "open" => f.id \notin closedStreams
<1> DEFINE i == up.i
<1>1. /\ up.frames \in Seq(ClientFrame) /\ Len(up.frames) \in Nat
      /\ up.live \in Seq([StreamIDs -> Int])
      /\ i \in 1 .. Len(up.frames) /\ Len(up.live) = i
  BY Place DEF Checked
<1>2. f \in ClientFrame /\ f = up.frames[i]
  BY <1>1, ElementOfSeq DEF Current
<1>3. f.id \in StreamIDs \cup {0} /\ f.n \in Nat
  BY <1>2 DEF ClientFrame
<1>4. before \in [StreamIDs -> Int]
  BY <1>1, ElementOfSeq
<1>5. \A id \in StreamIDs : WasClosed(id) => before[id] = NoSnapshot
  BY DEF Inv, Uplinked, Validating
<1>6. \A j \in 1 .. i - 1 : up.frames[j].id # 0 =>
        WasClosed(up.frames[j].id) \/ before[up.frames[j].id] # NoSnapshot
  BY DEF Inv, Uplinked, Validating
<1> HIDE DEF i
<1>7. CASE f.id = 0
  <2>1. after = before /\ f.type = "pong"
    BY <1>7, Limits DEF SnapshotAfter, FrameValid
  <2>2. Follows(f, before, after)
    BY <1>7, <2>1 DEF Follows
  <2>3. FreshOpen(up.i)
    BY <1>2, <2>1 DEF FreshOpen, i
  <2>4. QED
    BY <1>2, <1>4, <1>5, <1>7, <2>1, <2>2, <2>3
<1>8. CASE f.id # 0 /\ WasClosed(f.id)
  <2>1. after = before /\ f.type \in {"data", "window", "close"}
    <3>1. before[f.id] = NoSnapshot
      BY <1>3, <1>5, <1>8
    <3>2. QED
      BY <1>8, <3>1 DEF SnapshotAfter, FrameValid
  <2>2. before[f.id] = NoSnapshot
    BY <1>3, <1>5, <1>8
  <2>3. Follows(f, before, after)
    BY <1>8, <2>1, <2>2 DEF Follows
  <2>4. FreshOpen(up.i)
    BY <1>2, <2>1 DEF FreshOpen, i
  <2>5. QED
    BY <1>2, <1>4, <1>5, <1>8, <2>1, <2>2, <2>3, <2>4
<1>9. CASE f.id \in StreamIDs /\ ~WasClosed(f.id)
  <2>1. CASE f.type = "open"
    <3>1. before[f.id] = NoSnapshot
      BY <1>9, <2>1, Limits DEF FrameValid
    <3>2. after = [before EXCEPT ![f.id] = InitialStreamWindow]
      BY <1>9, <2>1, Limits DEF SnapshotAfter
    <3>3. /\ after \in [StreamIDs -> Int] /\ after[f.id] = InitialStreamWindow
          /\ \A id \in StreamIDs \ {f.id} : after[id] = before[id]
      BY <1>4, <1>9, <3>2, Limits
    <3>4. after[f.id] # NoSnapshot
      BY <3>3, Limits DEF NoSnapshot
    <3>5. \A j \in 1 .. i - 1 : up.frames[j].id # f.id
      BY <1>6, <1>9, <3>1, Limits
    <3>6. FreshOpen(up.i)
      BY <1>2, <1>9, <3>1, <3>5, Limits DEF FreshOpen, i
    <3>7. f.id \notin closedStreams
      BY <1>9 DEF WasClosed
    <3>8. Follows(f, before, after)
      BY <2>1, <3>3 DEF Follows
    <3>9. \A id \in StreamIDs : WasClosed(id) => after[id] = NoSnapshot
      BY <1>5, <1>9, <3>3
    <3>10. QED
      BY <1>2, <2>1, <3>3, <3>4, <3>6, <3>7, <3>8, <3>9
  <2>2. CASE f.type = "data"
    <3>1. before[f.id] # NoSnapshot /\ f.n <= before[f.id]
      BY <1>9, <2>2, Limits DEF FrameValid
    <3>2. after = [before EXCEPT ![f.id] = @ - f.n]
      BY <1>9, <2>2, Limits DEF SnapshotAfter
    <3>3. /\ after \in [StreamIDs -> Int] /\ after[f.id] = before[f.id] - f.n
          /\ \A id \in StreamIDs \ {f.id} : after[id] = before[id]
      BY <1>3, <1>4, <1>9, <3>2
    <3>4. after[f.id] # NoSnapshot
      BY <1>3, <1>4, <1>9, <3>1, <3>3 DEF NoSnapshot
    <3>5. FreshOpen(up.i)
      BY <1>2, <2>2 DEF FreshOpen, i
    <3>6. Follows(f, before, after)
      BY <2>2, <3>1, <3>3 DEF Follows
    <3>7. \A id \in StreamIDs : WasClosed(id) => after[id] = NoSnapshot
      BY <1>5, <1>9, <3>3
    <3>8. QED
      BY <1>2, <2>2, <3>3, <3>4, <3>5, <3>6, <3>7
  <2>3. CASE f.type = "window"
    <3>1. before[f.id] # NoSnapshot
      BY <1>9, <2>3, Limits DEF FrameValid
    <3>2. after = before
      BY <1>9, <2>3, Limits DEF SnapshotAfter
    <3>3. FreshOpen(up.i) /\ Follows(f, before, after)
      BY <1>2, <2>3, <3>2 DEF FreshOpen, Follows, i
    <3>4. QED
      BY <1>2, <1>4, <1>5, <2>3, <3>1, <3>2, <3>3
  <2>4. CASE f.type = "close"
    <3>1. after = [before EXCEPT ![f.id] = NoSnapshot]
      BY <1>9, <2>4, Limits DEF SnapshotAfter
    <3>2. /\ after \in [StreamIDs -> Int] /\ after[f.id] = NoSnapshot
          /\ \A id \in StreamIDs \ {f.id} : after[id] = before[id]
      BY <1>4, <1>9, <3>1 DEF NoSnapshot
    <3>3. FreshOpen(up.i) /\ Follows(f, before, after)
      BY <1>2, <2>4, <3>2 DEF FreshOpen, Follows, i
    <3>4. \A id \in StreamIDs : WasClosed(id) => after[id] = NoSnapshot
      BY <1>5, <3>2
    <3>5. QED
      BY <1>2, <2>4, <3>2, <3>3, <3>4
  <2>5. f.type \in {"open", "data", "window", "close"}
    BY <1>9, Limits DEF FrameValid
  <2>6. QED
    BY <2>1, <2>2, <2>3, <2>4, <2>5
<1>10. QED
  BY <1>3, <1>7, <1>8, <1>9

\* One frame of validateBatchLocked.
LEMMA ValidateInv ==
    ASSUME Inv, UpValidateFrame
    PROVE  Inv'
<1> DEFINE f == Current
           i == up.i
           before == up.live[i]
           after == SnapshotAfter(before, f)
<1>1. up.pc = "validate" /\ i <= Len(up.frames)
  BY DEF UpValidateFrame
<1>2. closing' \in BOOLEAN
  BY DEF UpValidateFrame, Inv, Typed
<1>3. CASE ~FrameValid(f)
  <2>1. up' = NoUpCall
    BY <1>3 DEF UpValidateFrame
  <2>2. /\ UpTypes' /\ Uplinked'
        /\ Held'.cost = Held.cost /\ Held'.items = Held.items
    BY <1>1, <2>1, NoUpCallType, IdleUp DEF Inv
  <2>3. QED
    BY <1>2, <2>2, OnlyUpInv DEF UpValidateFrame
<1>4. CASE FrameValid(f)
  <2> DEFINE cost == IF ChargesWrite(f) THEN f.n + QueueItemCost ELSE 0
             item == IF ChargesWrite(f) THEN 1 ELSE 0
  <2>1. /\ up.frames \in Seq(ClientFrame) /\ Len(up.frames) \in Nat
        /\ up.live \in Seq([StreamIDs -> Int])
        /\ i \in Nat /\ i \in 1 .. Len(up.frames) /\ Len(up.live) = i
        /\ up.cost \in Int /\ up.items \in Int /\ ~closed
    BY <1>1, Place DEF Checked
  <2>2. /\ f \in ClientFrame
        /\ after \in [StreamIDs -> Int]
        /\ Follows(f, before, after)
        /\ FreshOpen(i)
        /\ f.id # 0 => f.type = "close" \/ WasClosed(f.id) \/ after[f.id] # NoSnapshot
        /\ \A id \in StreamIDs : WasClosed(id) => after[id] = NoSnapshot
        /\ f.id # 0 /\ f.type = "close" => after[f.id] = NoSnapshot
        /\ f.type = "open" => f.id \notin closedStreams
    BY <1>1, <1>4, ValidFrame
  <2>3. f = up.frames[i]
    BY DEF Current
  <2>4. cost \in Int /\ item \in Int
    BY <2>2, Limits DEF ClientFrame
  <2>5. up' = [up EXCEPT !.i = i + 1, !.live = Append(up.live, after),
                         !.cost = up.cost + cost, !.items = up.items + item]
    BY <1>1, <1>4 DEF UpValidateFrame
  <2> HIDE DEF after, before, cost, item, f
  <2>6. /\ Append(up.live, after) \in Seq([StreamIDs -> Int])
        /\ Len(Append(up.live, after)) = i + 1
        /\ \A k \in 1 .. i : Append(up.live, after)[k] = up.live[k]
        /\ Append(up.live, after)[i + 1] = after
    BY <2>1, <2>2, AppendProperties
  <2>7. /\ up' \in UpCall /\ up'.pc = "validate" /\ up'.frames = up.frames
        /\ up'.i = i + 1 /\ Len(up'.live) = i + 1
        /\ \A k \in 1 .. i : up'.live[k] = up.live[k]
        /\ up'.live[i + 1] = after
    <3>1. up \in UpCall
      BY DEF Inv, Typed, UpTypes
    <3> DEFINE live == Append(up.live, after)
               j == i + 1
               c == up.cost + cost
               n == up.items + item
    <3>2. /\ j \in Nat /\ live \in Seq([StreamIDs -> Int]) /\ c \in Int /\ n \in Int
          /\ up' = [up EXCEPT !.i = j, !.live = live, !.cost = c, !.items = n]
      BY <2>1, <2>4, <2>5, <2>6
    <3> HIDE DEF live, j, c, n
    <3>3. /\ up' \in UpCall /\ up'.pc = up.pc /\ up'.frames = up.frames
          /\ up'.i = j /\ up'.live = live /\ up'.cost = c /\ up'.items = n
      BY ONLY <3>1, <3>2 DEF UpCall
    <3>4. QED
      BY <1>1, <2>6, <3>3 DEF live, j
  <2>8. UNCHANGED <<closed, streams, closedStreams>>
    BY DEF UpValidateFrame, tombVars
  <2>9. before = up.live[i]
    BY DEF before
  <2>10. Placed'
    BY <2>1, <2>7, <2>8 DEF Placed, Checked
  <2>11. Snapshots'
    <3>1. \A k \in 1 .. i - 1 : Follows(up.frames[k], up.live[k], up.live[k + 1]) /\ FreshOpen(k)
      BY <1>1 DEF Inv, Uplinked, Snapshots, Checked
    <3>2. \A k \in 1 .. i : FreshOpen(k) => FreshOpen(k)'
      BY <2>7 DEF FreshOpen
    <3>3. ASSUME NEW k \in 1 .. i
          PROVE  Follows(up'.frames[k], up'.live[k], up'.live[k + 1]) /\ FreshOpen(k)'
      <4>1. CASE k = i
        BY <2>2, <2>3, <2>7, <2>9, <3>2, <4>1
      <4>2. CASE k # i
        <5>1. k \in 1 .. i - 1 /\ k \in 1 .. i /\ k + 1 \in 1 .. i
          BY <2>1, <4>2
        <5>2. up'.live[k] = up.live[k] /\ up'.live[k + 1] = up.live[k + 1]
          BY <2>7, <5>1
        <5>3. QED
          BY <2>7, <3>1, <3>2, <5>1, <5>2
      <4>3. QED
        BY <4>1, <4>2
    <3>4. Checked' = i
      BY <2>1, <2>7 DEF Checked
    <3>5. QED
      BY <3>3, <3>4 DEF Snapshots, Follows
  <2>12. Validating'
    <3>1. /\ \A id \in StreamIDs : Live(id) => up.live[1][id] = streams[id].receiveWindow
          /\ \A j \in 1 .. i - 1 : up.frames[j].id # 0 =>
               WasClosed(up.frames[j].id) \/ up.live[i][up.frames[j].id] # NoSnapshot
          /\ \A k \in 1 .. i - 1 : up.frames[k].type = "open" =>
               up.frames[k].id \notin closedStreams
      BY <1>1 DEF Inv, Uplinked, Validating
    <3>2. \A id \in StreamIDs : Live(id)' => up'.live[1][id] = streams'[id].receiveWindow
      <4>1. 1 \in 1 .. i
        BY <2>1
      <4>2. up'.live[1] = up.live[1]
        BY <2>7, <4>1
      <4>3. QED
        BY <2>8, <3>1, <4>2 DEF Live
    <3>3. \A id : WasClosed(id)' <=> WasClosed(id) \/ (f.type = "close" /\ f.id = id)
      <4>1. 1 .. up'.i - 1 = (1 .. i - 1) \cup {i}
        BY <2>1, <2>7
      <4>2. \A id : WasClosed(id)' <=>
              \/ id \in closedStreams
              \/ \E k \in 1 .. i - 1 : up.frames[k].type = "close" /\ up.frames[k].id = id
              \/ up.frames[i].type = "close" /\ up.frames[i].id = id
        BY <2>7, <2>8, <4>1, Zenon DEF WasClosed
      <4>3. \A id : WasClosed(id) <=>
              \/ id \in closedStreams
              \/ \E k \in 1 .. i - 1 : up.frames[k].type = "close" /\ up.frames[k].id = id
        BY DEF WasClosed
      <4>4. QED
        BY <2>3, <4>2, <4>3, Zenon
    <3>4. \A id \in StreamIDs : WasClosed(id)' => up'.live[i + 1][id] = NoSnapshot
      BY <2>2, <2>7, <3>3, Limits
    <3>5. ASSUME NEW j \in 1 .. i, up.frames[j].id # 0
          PROVE  WasClosed(up.frames[j].id)' \/ after[up.frames[j].id] # NoSnapshot
      <4>1. up.frames[j].id \in StreamIDs
        <5>1. j \in 1 .. Len(up.frames)
          BY <2>1
        <5>2. up.frames[j] \in ClientFrame
          BY <2>1, <5>1, ElementOfSeq
        <5>3. QED
          BY <3>5, <5>2 DEF ClientFrame
      <4>2. CASE up.frames[j].id = f.id
        BY <2>2, <2>7, <3>3, <3>5, <4>2
      <4>3. CASE up.frames[j].id # f.id
        <5>1. after[up.frames[j].id] = before[up.frames[j].id]
          BY <2>2, <4>1, <4>3 DEF Follows
        <5>2. j \in 1 .. i - 1
          BY <2>1, <2>3, <4>3
        <5>3. WasClosed(up.frames[j].id) \/ after[up.frames[j].id] # NoSnapshot
          BY <2>9, <3>1, <3>5, <5>1, <5>2
        <5>4. QED
          BY <2>7, <3>3, <5>3
      <4>4. QED
        BY <4>2, <4>3
    <3>6. \A k \in 1 .. i : up.frames[k].type = "open" => up.frames[k].id \notin closedStreams
      BY <2>1, <2>2, <2>3, <3>1
    <3>7. up'.i - 1 = i
      BY <2>1, <2>7
    <3>8. QED
      BY <2>7, <2>8, <3>2, <3>4, <3>5, <3>6, <3>7 DEF Validating
  <2>13. Applies'
    BY <2>7 DEF Applies
  <2>14. Held' = NoUpCall /\ Held = NoUpCall
    BY <1>1, <2>7 DEF Held
  <2>15. QED
    BY <1>2, <2>7, <2>10, <2>11, <2>12, <2>13, <2>14, OnlyUpInv
    DEF UpValidateFrame, UpTypes, Uplinked
<1>5. QED
  BY <1>3, <1>4

--------------------------------------------------------------------------------
(* Charges.                                                                *)

\* A frame of the downlink queue costs something.
LEMMA FrameCostType ==
    ASSUME NEW f \in QueuedFrame
    PROVE  FrameCost(f) \in Nat
BY Limits DEF QueuedFrame, FrameCost, EncodedSize, PayloadSize

\* The charges of a queue, frame by frame.
Costs(q) == [k \in DOMAIN q |-> FrameCost(q[k])]

\* The charges of a queue are numbers, one for each frame.
LEMMA CostsAre ==
    ASSUME NEW q \in Seq(QueuedFrame)
    PROVE  /\ Costs(q) \in Seq(Nat) /\ Len(Costs(q)) = Len(q) /\ Len(q) \in Nat
           /\ \A k \in 1 .. Len(q) : q[k] \in QueuedFrame /\ Costs(q)[k] = FrameCost(q[k])
           /\ CostOf(q) = SumOf(Costs(q)) /\ CostOf(q) \in Nat
<1>1. /\ Len(q) \in Nat /\ DOMAIN q = 1 .. Len(q)
      /\ \A k \in 1 .. Len(q) : q[k] \in QueuedFrame
  BY LenProperties, ElementOfSeq
<1>2. \A k \in 1 .. Len(q) : FrameCost(q[k]) \in Nat
  BY <1>1, FrameCostType
<1>3. Costs(q) \in [1 .. Len(q) -> Nat]
  BY <1>1, <1>2 DEF Costs
<1>4. Costs(q) \in Seq(Nat) /\ Len(Costs(q)) = Len(q)
  BY <1>1, <1>3
<1>5. CostOf(q) = SumOf(Costs(q))
  BY DEF CostOf, Costs
<1>6. SumOf(Costs(q)) \in Nat
  BY <1>4, SumIs
<1>7. QED
  BY <1>1, <1>4, <1>5, <1>6 DEF Costs

\* Nothing queued costs nothing.
LEMMA CostEmpty == CostOf(<< >>) = 0 /\ Len(<< >>) = 0
<1>1. [k \in DOMAIN << >> |-> FrameCost(<< >>[k])] = << >>
  OBVIOUS
<1>2. QED
  BY <1>1, SumEmpty DEF CostOf

\* One more frame.
LEMMA CostAppended ==
    ASSUME NEW q \in Seq(QueuedFrame), NEW f \in QueuedFrame
    PROVE  CostOf(Append(q, f)) = CostOf(q) + FrameCost(f)
<1> DEFINE r == Append(q, f)
           c == FrameCost(f)
           a == Append(Costs(q), c)
<1>1. /\ r \in Seq(QueuedFrame) /\ Len(r) = Len(q) + 1
      /\ \A k \in 1 .. Len(q) : r[k] = q[k]
      /\ r[Len(q) + 1] = f
  BY AppendProperties
<1>2. c \in Nat
  BY FrameCostType
<1>3. /\ Costs(q) \in Seq(Nat) /\ Len(Costs(q)) = Len(q) /\ Len(q) \in Nat
      /\ \A k \in 1 .. Len(q) : Costs(q)[k] = FrameCost(q[k])
      /\ CostOf(q) = SumOf(Costs(q))
  BY CostsAre
<1>4. /\ a \in Seq(Nat) /\ Len(a) = Len(q) + 1
      /\ \A k \in 1 .. Len(q) : a[k] = Costs(q)[k]
      /\ a[Len(q) + 1] = c
  BY <1>2, <1>3, AppendProperties
<1>5. SumOf(a) = SumOf(Costs(q)) + c
  BY <1>2, <1>3, SumAppended
<1> HIDE DEF r, a
<1>6. /\ Costs(r) \in Seq(Nat) /\ Len(Costs(r)) = Len(r)
      /\ \A k \in 1 .. Len(r) : Costs(r)[k] = FrameCost(r[k])
      /\ CostOf(r) = SumOf(Costs(r))
  BY <1>1, CostsAre
<1>7. Costs(r) = a
  <2>1. \A k \in 1 .. Len(q) + 1 : k \in 1 .. Len(q) \/ k = Len(q) + 1
    BY <1>3
  <2>2. \A k \in 1 .. Len(Costs(r)) : Costs(r)[k] = a[k]
    BY <1>1, <1>3, <1>4, <1>6, <2>1
  <2>3. QED
    BY <1>1, <1>4, <1>6, <2>2, SeqEqual
<1>8. QED
  BY <1>3, <1>5, <1>6, <1>7 DEF r

\* One frame replaced by another.
LEMMA CostReplaced ==
    ASSUME NEW q \in Seq(QueuedFrame), NEW i \in 1 .. Len(q), NEW f \in QueuedFrame
    PROVE  /\ [q EXCEPT ![i] = f] \in Seq(QueuedFrame)
           /\ CostOf([q EXCEPT ![i] = f]) = CostOf(q) - FrameCost(q[i]) + FrameCost(f)
<1> DEFINE r == [q EXCEPT ![i] = f]
           c == FrameCost(f)
           a == [Costs(q) EXCEPT ![i] = c]
<1>1. r \in Seq(QueuedFrame) /\ Len(r) = Len(q)
      /\ \A k \in 1 .. Len(q) : r[k] = IF k = i THEN f ELSE q[k]
  BY ExceptSeq
<1>2. c \in Nat
  BY FrameCostType
<1>3. /\ Costs(q) \in Seq(Nat) /\ Len(Costs(q)) = Len(q) /\ Len(q) \in Nat
      /\ \A k \in 1 .. Len(q) : Costs(q)[k] = FrameCost(q[k])
      /\ CostOf(q) = SumOf(Costs(q))
  BY CostsAre
<1>4. /\ a \in Seq(Nat) /\ Len(a) = Len(q)
      /\ \A k \in 1 .. Len(q) : a[k] = IF k = i THEN c ELSE Costs(q)[k]
  BY <1>2, <1>3, ExceptSeq
<1>5. SumOf(a) = SumOf(Costs(q)) - Costs(q)[i] + c
  BY <1>2, <1>3, SumReplaced
<1> HIDE DEF r, a
<1>6. /\ Costs(r) \in Seq(Nat) /\ Len(Costs(r)) = Len(r)
      /\ \A k \in 1 .. Len(r) : Costs(r)[k] = FrameCost(r[k])
      /\ CostOf(r) = SumOf(Costs(r))
  BY <1>1, CostsAre
<1>7. Costs(r) = a
  <2>1. \A k \in 1 .. Len(Costs(r)) : Costs(r)[k] = a[k]
    BY <1>1, <1>3, <1>4, <1>6
  <2>2. QED
    BY <1>1, <1>4, <1>6, <2>1, SeqEqual
<1>8. QED
  BY <1>1, <1>3, <1>5, <1>6, <1>7 DEF r

\* A queue cut in two.
LEMMA CostCut ==
    ASSUME NEW q \in Seq(QueuedFrame), NEW n \in 0 .. Len(q)
    PROVE  /\ SubSeq(q, 1, n) \in Seq(QueuedFrame) /\ Len(SubSeq(q, 1, n)) = n
           /\ \A k \in 1 .. n : SubSeq(q, 1, n)[k] = q[k]
           /\ SubSeq(q, n + 1, Len(q)) \in Seq(QueuedFrame)
           /\ Len(SubSeq(q, n + 1, Len(q))) = Len(q) - n
           /\ \A k \in 1 .. Len(q) - n : SubSeq(q, n + 1, Len(q))[k] = q[n + k]
           /\ CostOf(SubSeq(q, 1, n)) + CostOf(SubSeq(q, n + 1, Len(q))) = CostOf(q)
<1> DEFINE a == SubSeq(q, 1, n)
           b == SubSeq(q, n + 1, Len(q))
           c == Costs(q)
           d == SubSeq(c, 1, n)
           e == SubSeq(c, n + 1, Len(q))
<1>1. /\ c \in Seq(Nat) /\ Len(c) = Len(q) /\ Len(q) \in Nat
      /\ \A k \in 1 .. Len(q) : q[k] \in QueuedFrame /\ c[k] = FrameCost(q[k]) /\ c[k] \in Nat
      /\ CostOf(q) = SumOf(c)
  BY CostsAre, FrameCostType
<1>2. n \in Nat /\ n <= Len(q)
  BY <1>1
<1> HIDE DEF c
<1>3. a \in Seq(QueuedFrame) /\ Len(a) = n /\ \A k \in 1 .. n : a[k] = q[k]
  BY <1>1, <1>2, SubSeqProperties
<1>4. /\ b \in Seq(QueuedFrame) /\ Len(b) = Len(q) - n
      /\ \A k \in 1 .. Len(q) - n : b[k] = q[n + k]
  BY <1>1, <1>2, SubSeqProperties
<1>5. d \in Seq(Nat) /\ Len(d) = n /\ \A k \in 1 .. n : d[k] = c[k]
  BY <1>1, <1>2, SubSeqProperties
<1>6. /\ e \in Seq(Nat) /\ Len(e) = Len(q) - n
      /\ \A k \in 1 .. Len(q) - n : e[k] = c[n + k]
  BY <1>1, <1>2, SubSeqProperties
<1>7. SumOf(d) + SumOf(e) = SumOf(c)
  BY <1>1, SumCut
<1> HIDE DEF a, b, d, e
<1>8. Costs(a) = d /\ CostOf(a) = SumOf(Costs(a))
  <2>1. /\ Costs(a) \in Seq(Nat) /\ Len(Costs(a)) = n
        /\ \A k \in 1 .. n : Costs(a)[k] = FrameCost(a[k])
        /\ CostOf(a) = SumOf(Costs(a))
    BY <1>3, CostsAre
  <2>2. \A k \in 1 .. n : Costs(a)[k] = d[k]
    BY <1>1, <1>2, <1>3, <1>5, <2>1
  <2>3. QED
    BY <1>5, <2>1, <2>2, SeqEqual
<1>9. Costs(b) = e /\ CostOf(b) = SumOf(Costs(b))
  <2> DEFINE m == Len(q) - n
  <2>1. /\ Costs(b) \in Seq(Nat) /\ Len(Costs(b)) = m
        /\ \A k \in 1 .. m : Costs(b)[k] = FrameCost(b[k])
        /\ CostOf(b) = SumOf(Costs(b))
    BY <1>4, CostsAre
  <2>2. \A k \in 1 .. m : Costs(b)[k] = e[k]
    <3> TAKE k \in 1 .. m
    <3>1. n + k \in 1 .. Len(q)
      BY <1>1, <1>2
    <3>2. b[k] = q[n + k] /\ e[k] = c[n + k]
      BY <1>4, <1>6
    <3>3. QED
      BY <1>1, <2>1, <3>1, <3>2
  <2>3. QED
    BY <1>6, <2>1, <2>2, SeqEqual
<1>10. QED
  BY <1>1, <1>3, <1>4, <1>7, <1>8, <1>9 DEF a, b

\* Streams whose charges are numbers.
Chargeable(s) ==
    /\ s \in [StreamIDs -> StreamState]
    /\ \A id \in StreamIDs : s[id].pendingWriteCost \in Nat /\ s[id].pendingWriteItems \in Nat

\* The charges of all streams.
LEMMA StreamCharges ==
    ASSUME NEW s, Chargeable(s)
    PROVE  /\ Charged(StreamIDs, WriteCosts(s)) /\ Charged(StreamIDs, WriteItems(s))
           /\ Total(StreamIDs, WriteCosts(s)) \in Nat
           /\ Total(StreamIDs, WriteItems(s)) \in Nat
<1>1. Charged(StreamIDs, WriteCosts(s)) /\ Charged(StreamIDs, WriteItems(s))
  BY Limits DEF Chargeable, Charged, WriteCosts, WriteItems
<1>2. QED
  BY <1>1, TotalType

\* One stream changes, and the charges by as much.
LEMMA StreamChange ==
    ASSUME NEW s, NEW t, Chargeable(s), Chargeable(t), NEW x \in StreamIDs,
           \A id \in StreamIDs \ {x} : t[id] = s[id]
    PROVE  /\ Total(StreamIDs, WriteCosts(t)) = Total(StreamIDs, WriteCosts(s))
                - s[x].pendingWriteCost + t[x].pendingWriteCost
           /\ Total(StreamIDs, WriteItems(t)) = Total(StreamIDs, WriteItems(s))
                - s[x].pendingWriteItems + t[x].pendingWriteItems
<1> DEFINE f == WriteCosts(s)
           g == WriteCosts(t)
           h == WriteItems(s)
           k == WriteItems(t)
<1>1. /\ f[x] = s[x].pendingWriteCost /\ g[x] = t[x].pendingWriteCost /\ g[x] \in Nat
      /\ h[x] = s[x].pendingWriteItems /\ k[x] = t[x].pendingWriteItems /\ k[x] \in Nat
      /\ \A id \in StreamIDs \ {x} : g[id] = f[id]
      /\ \A id \in StreamIDs \ {x} : k[id] = h[id]
  BY DEF WriteCosts, WriteItems, Chargeable
<1>2. Charged(StreamIDs, f) /\ Charged(StreamIDs, h)
  BY StreamCharges
<1> HIDE DEF f, g, h, k
<1>3. /\ Total(StreamIDs, g) = Total(StreamIDs, f) - f[x] + g[x]
      /\ Charged(StreamIDs, g)
  BY <1>1, <1>2, TotalChange, Zenon
<1>4. /\ Total(StreamIDs, k) = Total(StreamIDs, h) - h[x] + k[x]
      /\ Charged(StreamIDs, k)
  BY <1>1, <1>2, TotalChange, Zenon
<1>5. QED
  BY <1>1, <1>3, <1>4 DEF f, g, h, k

\* A stream in balance is charged a number.
LEMMA BalancedCharges ==
    ASSUME NEW s \in StreamState, Balanced(s) \/ s = NoStream
    PROVE  /\ s.pendingWriteCost \in Nat /\ s.pendingWriteItems \in Nat
           /\ s.pendingWriteBytes \in Nat
<1>1. CASE s = NoStream
  BY <1>1 DEF NoStream
<1>2. CASE Balanced(s)
  <2>1. /\ s.pendingWriteBytes \in Nat /\ s.pendingWriteItems \in Nat
        /\ s.pendingWriteCost = s.pendingWriteBytes + QueueItemCost * s.pendingWriteItems
    BY <1>2 DEF Balanced, StreamState
  <2>2. \A m, n \in Nat : m * n \in Nat
    OBVIOUS
  <2>3. QueueItemCost * s.pendingWriteItems \in Nat
    BY <2>1, <2>2, Limits
  <2>4. QED
    BY <2>1, <2>3
<1>3. QED
  BY <1>1, <1>2

\* The streams and what they are charged.
LEMMA ChargeableStreams ==
    /\ Typed /\ Linked /\ Ledgers => Chargeable(streams)
    /\ StreamTypes' /\ Linked' /\ Ledgers' => Chargeable(streams')
<1>1. ASSUME NEW s \in [StreamIDs -> StreamState],
             \A id \in StreamIDs : Balanced(s[id]) \/ s[id] = NoStream
      PROVE  Chargeable(s)
  BY <1>1, BalancedCharges DEF Chargeable
<1>2. Typed /\ Linked /\ Ledgers => Chargeable(streams)
  BY <1>1 DEF Typed, StreamTypes, Linked, Ledgers
<1>3. StreamTypes' /\ Linked' /\ Ledgers' => Chargeable(streams')
  <2>1. Linked' /\ Ledgers' =>
          \A id \in StreamIDs : Balanced(streams'[id]) \/ streams'[id] = NoStream
    BY DEF Linked, Ledgers, Live
  <2>2. QED
    BY <1>1, <2>1 DEF StreamTypes
<1>4. QED
  BY <1>2, <1>3

\* What is charged, as numbers.
LEMMA Numbers ==
    ASSUME Inv
    PROVE  /\ pendingCost \in Nat /\ pendingItems \in Nat
           /\ CostOf(pendingFrames) \in Nat /\ Len(pendingFrames) \in Nat
           /\ CostOf(unacked) \in Nat /\ Len(unacked) \in Nat
           /\ Held.cost \in Int /\ Held.items \in Int
           /\ Chargeable(streams)
           /\ Total(StreamIDs, WriteCosts(streams)) \in Nat
           /\ Total(StreamIDs, WriteItems(streams)) \in Nat
<1>1. pendingCost \in Nat /\ pendingItems \in Nat
  BY DEF Inv, Typed, CostTypes
<1>2. /\ CostOf(pendingFrames) \in Nat /\ Len(pendingFrames) \in Nat
      /\ CostOf(unacked) \in Nat /\ Len(unacked) \in Nat
  BY CostsAre DEF Inv, Typed, QueueTypes, PollTypes
<1>3. Held.cost \in Int /\ Held.items \in Int
  BY DEF Inv, Typed, UpTypes, UpCall, Held, NoUpCall
<1>4. Chargeable(streams)
  BY ChargeableStreams DEF Inv
<1>5. QED
  BY <1>1, <1>2, <1>3, <1>4, StreamCharges

\* The charge follows what is held.
LEMMA BudgetStep ==
    ASSUME Inv, Typed', Linked', Ledgers', ~closed',
           pendingCost' - pendingCost
             = (CostOf(pendingFrames') - CostOf(pendingFrames))
               + (CostOf(unacked') - CostOf(unacked))
               + (Held'.cost - Held.cost)
               + (Total(StreamIDs, WriteCosts(streams')) - Total(StreamIDs, WriteCosts(streams))),
           pendingItems' - pendingItems
             = (Len(pendingFrames') - Len(pendingFrames))
               + (Len(unacked') - Len(unacked))
               + (Held'.items - Held.items)
               + (Total(StreamIDs, WriteItems(streams')) - Total(StreamIDs, WriteItems(streams)))
    PROVE  Budget'
<1>1. /\ pendingCost \in Nat /\ pendingItems \in Nat
      /\ CostOf(pendingFrames) \in Nat /\ Len(pendingFrames) \in Nat
      /\ CostOf(unacked) \in Nat /\ Len(unacked) \in Nat
      /\ Held.cost \in Int /\ Held.items \in Int
      /\ Total(StreamIDs, WriteCosts(streams)) \in Nat
      /\ Total(StreamIDs, WriteItems(streams)) \in Nat
  BY Numbers
<1>2. pendingCost' \in Nat /\ pendingItems' \in Nat
  BY DEF Typed, CostTypes
<1>3. /\ CostOf(pendingFrames') \in Nat /\ Len(pendingFrames') \in Nat
      /\ CostOf(unacked') \in Nat /\ Len(unacked') \in Nat
  BY CostsAre DEF Typed, QueueTypes, PollTypes
<1>4. Held'.cost \in Int /\ Held'.items \in Int
  BY DEF Typed, UpTypes, UpCall, Held, NoUpCall
<1>5. /\ Total(StreamIDs, WriteCosts(streams')) \in Nat
      /\ Total(StreamIDs, WriteItems(streams')) \in Nat
  <2>1. Chargeable(streams')
    BY ChargeableStreams DEF Typed
  <2>2. QED
    BY <2>1, StreamCharges
<1>6. CostExact'
  <2>1. pendingCost = CostOf(pendingFrames) + CostOf(unacked) + Held.cost
                        + Total(StreamIDs, WriteCosts(streams))
    BY DEF Inv, Budget, CostExact
  <2>2. pendingCost' = CostOf(pendingFrames') + CostOf(unacked') + Held'.cost
                         + Total(StreamIDs, WriteCosts(streams'))
    <3>1. /\ pendingCost \in Int /\ pendingCost' \in Int
          /\ CostOf(pendingFrames) \in Int /\ CostOf(pendingFrames') \in Int
          /\ CostOf(unacked) \in Int /\ CostOf(unacked') \in Int
          /\ Held.cost \in Int /\ Held'.cost \in Int
          /\ Total(StreamIDs, WriteCosts(streams)) \in Int
          /\ Total(StreamIDs, WriteCosts(streams')) \in Int
      BY <1>1, <1>2, <1>3, <1>4, <1>5
    <3>2. pendingCost' - pendingCost
            = (CostOf(pendingFrames') - CostOf(pendingFrames))
              + (CostOf(unacked') - CostOf(unacked))
              + (Held'.cost - Held.cost)
              + (Total(StreamIDs, WriteCosts(streams')) - Total(StreamIDs, WriteCosts(streams)))
      OBVIOUS
    <3>3. QED
      BY ONLY <2>1, <3>1, <3>2
  <2>3. QED
    BY <2>2 DEF CostExact
<1>7. ItemsExact'
  <2>1. pendingItems = Len(pendingFrames) + Len(unacked) + Held.items
                         + Total(StreamIDs, WriteItems(streams))
    BY DEF Inv, Budget, ItemsExact
  <2>2. pendingItems' = Len(pendingFrames') + Len(unacked') + Held'.items
                          + Total(StreamIDs, WriteItems(streams'))
    <3> DEFINE q == Len(pendingFrames)
               q2 == Len(pendingFrames')
               u == Len(unacked)
               u2 == Len(unacked')
    <3>1. /\ pendingItems \in Int /\ pendingItems' \in Int
          /\ q \in Int /\ q2 \in Int /\ u \in Int /\ u2 \in Int
          /\ Held.items \in Int /\ Held'.items \in Int
          /\ Total(StreamIDs, WriteItems(streams)) \in Int
          /\ Total(StreamIDs, WriteItems(streams')) \in Int
      BY <1>1, <1>2, <1>3, <1>4, <1>5
    <3>2. pendingItems' - pendingItems
            = (q2 - q) + (u2 - u) + (Held'.items - Held.items)
              + (Total(StreamIDs, WriteItems(streams')) - Total(StreamIDs, WriteItems(streams)))
      OBVIOUS
    <3>3. pendingItems = q + u + Held.items + Total(StreamIDs, WriteItems(streams))
      BY <2>1
    <3> HIDE DEF q, q2, u, u2
    <3>4. pendingItems' = q2 + u2 + Held'.items + Total(StreamIDs, WriteItems(streams'))
      BY ONLY <3>1, <3>2, <3>3
    <3>5. QED
      BY <3>4 DEF q2, u2
  <2>3. QED
    BY <2>2 DEF ItemsExact
<1>8. QED
  BY <1>6, <1>7 DEF Budget, ClosedHoldsNothing

--------------------------------------------------------------------------------
(* ProcessUp: reserving, skipping and committing.                          *)

\* The batch is reserved, or refused for lack of room.
LEMMA ReserveInv ==
    ASSUME Inv, NEW answer \in Answers, UpReserve(answer)
    PROVE  Inv'
<1>1. up.pc = "validate" /\ up.i > Len(up.frames)
  BY DEF UpReserve
<1>2. closing' \in BOOLEAN
  BY DEF UpReserve, closeVars, Inv, Typed
<1>3. UNCHANGED <<closed, closing, streams, closedStreams, pendingFrames, pendingWindows,
                  unacked, downActive, opens>>
  BY DEF UpReserve, closeVars, tombVars, queueVars, pollVars
<1>4. CASE up' = NoUpCall /\ UNCHANGED costVars
  <2>1. /\ UpTypes' /\ Uplinked'
        /\ Held'.cost = Held.cost /\ Held'.items = Held.items
    BY <1>1, <1>4, NoUpCallType, IdleUp DEF Inv
  <2>2. QED
    BY <1>2, <1>4, <2>1, OnlyUpInv DEF UpReserve, closeVars
<1>5. CASE /\ up' = [up EXCEPT !.pc = "apply", !.i = 1]
           /\ pendingCost' = pendingCost + up.cost
           /\ pendingItems' = pendingItems + up.items
           /\ up.cost >= 0 /\ up.items >= 0
  <2>1. /\ up.frames \in Seq(ClientFrame) /\ Len(up.frames) \in Nat
        /\ up.i = Len(up.frames) + 1 /\ Len(up.live) = Len(up.frames) + 1
        /\ up.cost \in Int /\ up.items \in Int /\ ~closed
    BY <1>1, Place DEF Checked
  <2>2. /\ up' \in UpCall /\ up'.pc = "apply" /\ up'.i = 1 /\ up'.frames = up.frames
        /\ up'.live = up.live /\ up'.cost = up.cost /\ up'.items = up.items
    BY <1>5 DEF Inv, Typed, UpTypes, UpCall
  <2>3. Typed'
    <3>1. CostTypes'
      BY <1>5, <2>1 DEF Inv, Typed, CostTypes
    <3>2. UpTypes'
      BY <2>2 DEF UpTypes
    <3>3. QED
      BY <3>1, <3>2, SameTypes DEF Inv, Typed, UpReserve, closeVars
  <2>4. Linked' /\ Ringed'
    BY <1>3, SameLinked, SameRinged DEF Inv, UpReserve, Live
  <2>5. Uplinked'
    <3>1. Placed'
      BY <1>3, <2>1, <2>2 DEF Placed, Checked
    <3>2. Snapshots'
      <4>1. Checked = Len(up.frames) /\ Checked' = Checked
        BY <1>1, <2>1, <2>2 DEF Checked
      <4>2. \A k \in 1 .. Checked : FreshOpen(k)' <=> FreshOpen(k)
        BY <2>2 DEF FreshOpen
      <4>3. QED
        BY <1>1, <2>2, <4>1, <4>2 DEF Inv, Uplinked, Snapshots
    <3>3. Validating' /\ Applies'
      <4>1. /\ \A id \in StreamIDs : Live(id) => up.live[1][id] = streams[id].receiveWindow
            /\ \A k \in 1 .. up.i - 1 : up.frames[k].type = "open" =>
                 up.frames[k].id \notin closedStreams
        BY <1>1 DEF Inv, Uplinked, Validating
      <4>2. up.i - 1 = Len(up.frames)
        BY <2>1
      <4>3. QED
        BY <1>3, <2>2, <4>1, <4>2 DEF Validating, Applies, Live
    <3>4. QED
      BY <3>1, <3>2, <3>3 DEF Uplinked
  <2>6. Opened'
    <3>1. UNCHANGED backends
      BY DEF UpReserve
    <3>2. \A id \in StreamIDs : Unknown(id) => Unknown(id)'
      BY <1>3, <3>1 DEF Unknown, Live
    <3>3. QED
      BY <1>3, <3>1, <3>2, SameOpened DEF Inv
  <2>7. Ordered'
    BY <1>3, SameOrdered DEF Inv, Live
  <2>8. Ledgers'
    BY <1>3 DEF Inv, Ledgers, Live, UpReserve
  <2>9. Budget'
    <3>1. /\ Held.cost = 0 /\ Held.items = 0
          /\ Held'.cost = up.cost /\ Held'.items = up.items
      BY <1>1, <2>2 DEF Held, NoUpCall
    <3>2. /\ UNCHANGED <<pendingFrames, unacked, streams>> /\ ~closed'
          /\ pendingCost' = pendingCost + up.cost /\ pendingItems' = pendingItems + up.items
      BY <1>3, <1>5, <2>1
    <3>3. /\ pendingCost \in Nat /\ pendingItems \in Nat
          /\ CostOf(pendingFrames) \in Nat /\ Len(pendingFrames) \in Nat
          /\ CostOf(unacked) \in Nat /\ Len(unacked) \in Nat
          /\ Total(StreamIDs, WriteCosts(streams)) \in Nat
          /\ Total(StreamIDs, WriteItems(streams)) \in Nat
      BY Numbers
    <3>4. QED
      BY <2>1, <2>3, <2>4, <2>8, <3>1, <3>2, <3>3, BudgetStep
  <2>10. QED
    BY <2>3, <2>4, <2>5, <2>6, <2>7, <2>8, <2>9 DEF Inv
<1>6. QED
  <2>1. up.cost \in Int /\ up.items \in Int
    BY <1>1, Place
  <2>2. QED
    BY <1>4, <1>5, <2>1 DEF UpReserve, Reservable

\* The frame being applied.
LEMMA AppliedFrame ==
    ASSUME Inv, up.pc = "apply", up.i <= Len(up.frames)
    PROVE  /\ Current \in ClientFrame /\ Current = up.frames[up.i]
           /\ up.live[up.i] \in [StreamIDs -> Int]
           /\ Follows(Current, up.live[up.i], up.live[up.i + 1])
           /\ FreshOpen(up.i)
           /\ Current.type = "open" => Current.id \notin closedStreams
           /\ \A id \in StreamIDs : Live(id) => streams[id].receiveWindow = up.live[up.i][id]
<1>1. /\ up.frames \in Seq(ClientFrame) /\ Len(up.frames) \in Nat
      /\ up.live \in Seq([StreamIDs -> Int])
      /\ up.i \in 1 .. Len(up.frames) /\ Len(up.live) = Len(up.frames) + 1
      /\ Checked = Len(up.frames)
  BY Place DEF Checked
<1>2. Current \in ClientFrame /\ Current = up.frames[up.i]
  BY <1>1, ElementOfSeq DEF Current
<1>3. up.live[up.i] \in [StreamIDs -> Int]
  <2>1. up.i \in 1 .. Len(up.live)
    BY <1>1
  <2>2. QED
    BY <1>1, <2>1, ElementOfSeq
<1>4. Follows(up.frames[up.i], up.live[up.i], up.live[up.i + 1]) /\ FreshOpen(up.i)
  BY <1>1 DEF Inv, Uplinked, Snapshots
<1>5. /\ \A id \in StreamIDs : Live(id) => streams[id].receiveWindow = up.live[up.i][id]
      /\ \A k \in up.i .. Len(up.frames) : up.frames[k].type = "open" =>
           up.frames[k].id \notin closedStreams
  BY DEF Inv, Uplinked, Applies
<1>6. up.i \in up.i .. Len(up.frames)
  BY <1>1
<1>7. QED
  BY <1>2, <1>3, <1>4, <1>5, <1>6

\* After a frame is applied the next one is.
LEMMA AppliedUplinked ==
    ASSUME Inv, up.pc = "apply", up.i <= Len(up.frames),
           up'.pc = "apply", up'.i = up.i + 1, up'.frames = up.frames, up'.live = up.live,
           UNCHANGED closed, closedStreams' \subseteq closedStreams \cup {Current.id},
           \A id \in StreamIDs : Live(id)' =>
             streams'[id].receiveWindow = up.live[up.i + 1][id]
    PROVE  Uplinked'
<1>1. /\ up.frames \in Seq(ClientFrame) /\ Len(up.frames) \in Nat
      /\ up.i \in 1 .. Len(up.frames) /\ Len(up.live) = Len(up.frames) + 1
      /\ Checked = Len(up.frames) /\ ~closed
  BY Place DEF Checked
<1>2. Checked' = Checked
  BY DEF Checked
<1>3. Placed'
  BY <1>1, <1>2 DEF Placed
<1>4. Snapshots'
  <2>1. \A k \in 1 .. Checked : FreshOpen(k)' <=> FreshOpen(k)
    BY DEF FreshOpen
  <2>2. QED
    BY <1>2, <2>1 DEF Inv, Uplinked, Snapshots
<1>5. Validating'
  BY DEF Validating
<1>6. Applies'
  <2>1. ASSUME NEW k \in up.i + 1 .. Len(up.frames), up.frames[k].type = "open"
        PROVE  up.frames[k].id \notin closedStreams'
    <3>1. k \in 1 .. Checked /\ up.i \in 1 .. k - 1 /\ k \in up.i .. Len(up.frames)
      BY <1>1
    <3>2. FreshOpen(k)
      BY <3>1 DEF Inv, Uplinked, Snapshots
    <3>3. up.frames[k].id # Current.id
      BY <2>1, <3>1, <3>2 DEF FreshOpen, Current
    <3>4. up.frames[k].id \notin closedStreams
      BY <2>1, <3>1 DEF Inv, Uplinked, Applies
    <3>5. QED
      BY <3>3, <3>4
  <2>2. QED
    BY <2>1 DEF Applies
<1>7. QED
  BY <1>3, <1>4, <1>5, <1>6 DEF Uplinked

\* The call after a frame is applied.
LEMMA AppliedUp ==
    ASSUME Inv, up.pc = "apply", Applied
    PROVE  /\ UpTypes' /\ up'.pc = "apply" /\ up'.i = up.i + 1
           /\ up'.frames = up.frames /\ up'.live = up.live
           /\ Held'.cost = Held.cost /\ Held'.items = Held.items
<1>1. up \in UpCall /\ up.i \in Nat
  BY DEF Inv, Typed, UpTypes, UpCall
<1>2. up' \in UpCall /\ up'.pc = "apply" /\ up'.i = up.i + 1
      /\ up'.frames = up.frames /\ up'.live = up.live
      /\ up'.cost = up.cost /\ up'.items = up.items
  BY <1>1 DEF Applied, UpCall
<1>3. QED
  BY <1>2 DEF Held, UpTypes

\* PONG and the late frames of tombstoned streams.
LEMMA SkipInv ==
    ASSUME Inv, UpSkip
    PROVE  Inv'
<1>1. up.pc = "apply" /\ up.i <= Len(up.frames) /\ Applied
  BY DEF UpSkip
<1>2. /\ UpTypes' /\ up'.pc = "apply" /\ up'.i = up.i + 1
      /\ up'.frames = up.frames /\ up'.live = up.live
      /\ Held'.cost = Held.cost /\ Held'.items = Held.items
  BY <1>1, AppliedUp
<1>3. closing' \in BOOLEAN
  BY DEF UpSkip, closeVars, Inv, Typed
<1>4. ASSUME NEW id \in StreamIDs, Live(id)
      PROVE  streams[id].receiveWindow = up.live[up.i + 1][id]
  <2>1. id # Current.id
    <3>1. CASE Current.id = 0
      BY <3>1, Limits
    <3>2. CASE Current.id \in closedStreams
      BY <1>4, <3>2 DEF Inv, Ringed, TombstoneRing, LiveIDs
    <3>3. QED
      BY <3>1, <3>2 DEF UpSkip
  <2>2. /\ Follows(Current, up.live[up.i], up.live[up.i + 1])
        /\ streams[id].receiveWindow = up.live[up.i][id]
    BY <1>1, <1>4, AppliedFrame
  <2>3. QED
    BY <2>1, <2>2 DEF Follows
<1>5. Uplinked'
  <2>1. UNCHANGED <<closed, streams, closedStreams>>
    BY DEF UpSkip, closeVars, tombVars
  <2>2. \A id \in StreamIDs : Live(id)' => streams'[id].receiveWindow = up.live[up.i + 1][id]
    BY <1>4, <2>1 DEF Live
  <2>3. QED
    BY <1>1, <1>2, <2>1, <2>2, AppliedUplinked
<1>6. QED
  BY <1>2, <1>3, <1>5, OnlyUpInv DEF UpSkip, closeVars

\* A frame of a stream the session knows nothing of.
LEMMA PanicInv ==
    ASSUME Inv, UpPanic
    PROVE  Inv'
<1>1. up.pc = "apply" /\ up' = [up EXCEPT !.pc = "panic"]
  BY DEF UpPanic
<1>2. up \in UpCall /\ ~closed
  BY <1>1, Place DEF Inv, Typed, UpTypes
<1>3. up' \in UpCall /\ up'.pc = "panic" /\ up'.cost = up.cost /\ up'.items = up.items
  BY <1>1, <1>2 DEF UpCall
<1>4. Uplinked'
  BY <1>2, <1>3 DEF Uplinked, Placed, Snapshots, Validating, Applies, UpPanic, closeVars
<1>5. Held'.cost = Held.cost /\ Held'.items = Held.items
  BY <1>1, <1>3 DEF Held
<1>6. closing' \in BOOLEAN
  BY DEF UpPanic, closeVars, Inv, Typed
<1>7. QED
  BY <1>3, <1>4, <1>5, <1>6, OnlyUpInv DEF UpPanic, closeVars, UpTypes

\* The whole batch is applied.
LEMMA CommitInv ==
    ASSUME Inv, UpCommit
    PROVE  Inv'
<1>1. /\ up.pc = "apply" /\ up' = NoUpCall
      /\ UNCHANGED <<closed, closing, streams, closedStreams, pendingFrames, pendingWindows,
                     unacked, downActive, opens, backends>>
  BY DEF UpCommit, closeVars, tombVars, queueVars, pollVars
<1>2. /\ up.cost \in 0 .. pendingCost /\ up.items \in 0 .. pendingItems
      /\ pendingCost' = pendingCost - up.cost
      /\ pendingItems' = pendingItems - up.items
  BY DEF UpCommit, Releasable
<1>3. /\ pendingCost \in Nat /\ pendingItems \in Nat
      /\ CostOf(pendingFrames) \in Nat /\ Len(pendingFrames) \in Nat
      /\ CostOf(unacked) \in Nat /\ Len(unacked) \in Nat
      /\ Total(StreamIDs, WriteCosts(streams)) \in Nat
      /\ Total(StreamIDs, WriteItems(streams)) \in Nat
  BY Numbers
<1>4. UpTypes' /\ Uplinked'
  BY <1>1, NoUpCallType DEF UpTypes, Uplinked, Placed, Snapshots, Validating, Applies
<1>5. Typed'
  <2>1. CostTypes'
    BY <1>2, <1>3 DEF CostTypes
  <2>2. CommitTypes'
    <3>1. up.frames \in Seq(ClientFrame) /\ lastUpSequence \in Nat
      BY DEF Inv, Typed, UpTypes, UpCall, CommitTypes
    <3>2. QED
      BY <3>1 DEF CommitTypes, UpCommit
  <2>3. QED
    BY <1>4, <2>1, <2>2, SameTypes DEF Inv, Typed, UpCommit, closeVars
<1>6. Linked' /\ Ringed'
  BY <1>1, SameLinked, SameRinged DEF Inv, UpCommit, Live
<1>7. Opened'
  <2>1. \A id \in StreamIDs : Unknown(id) => Unknown(id)'
    BY <1>1 DEF Unknown, Live
  <2>2. QED
    BY <1>1, <2>1, SameOpened DEF Inv
<1>8. Ordered'
  BY <1>1, SameOrdered DEF Inv, Live
<1>9. Ledgers'
  BY <1>1 DEF Inv, Ledgers, Live
<1>10. Budget'
  <2>1. /\ Held.cost = up.cost /\ Held.items = up.items
        /\ Held'.cost = 0 /\ Held'.items = 0
    BY <1>1 DEF Held, NoUpCall
  <2>2. ~closed' /\ UNCHANGED <<pendingFrames, unacked, streams>>
    BY <1>1, Place
  <2>3. QED
    BY <1>2, <1>3, <1>5, <1>6, <1>9, <2>1, <2>2, BudgetStep
<1>11. QED
  BY <1>4, <1>5, <1>6, <1>7, <1>8, <1>9, <1>10 DEF Inv

--------------------------------------------------------------------------------
(* The ring of tombstones.                                                 *)

\* A ring that remembers one more id, of a stream that is not live afterwards.
LEMMA RingStep ==
    ASSUME Typed, Ringed, NEW id \in StreamIDs, RememberClosed(id),
           \A x \in StreamIDs : Live(x)' => Live(x) /\ x # id
    PROVE  /\ Ringed' /\ TombTypes'
           /\ closedStreams' \subseteq closedStreams \cup {id}
<1>1. /\ closedStreams \in SUBSET StreamIDs /\ closedOrder \in Seq(StreamIDs)
      /\ closedStart \in Nat /\ closedStart < MaxClosedStreamIDs
  BY DEF Typed, TombTypes, Ringed
<1>2. /\ closedStreams = {closedOrder[k] : k \in DOMAIN closedOrder}
      /\ \A j, k \in DOMAIN closedOrder : closedOrder[j] = closedOrder[k] => j = k
      /\ Len(closedOrder) <= MaxClosedStreamIDs
      /\ LiveIDs \cap closedStreams = {}
  BY DEF Ringed, TombstoneRing
<1>3. /\ Len(closedOrder) \in Nat /\ DOMAIN closedOrder = 1 .. Len(closedOrder)
      /\ MaxClosedStreamIDs \in Nat \ {0}
  BY <1>1, LenProperties, Limits
<1>4. CASE id \in closedStreams
  <2>1. UNCHANGED tombVars
    BY <1>4 DEF RememberClosed
  <2>2. QED
    BY <2>1, SameRinged, SameTypes DEF tombVars
<1>5. CASE id \notin closedStreams /\ Len(closedOrder) < MaxClosedStreamIDs
  <2>1. /\ closedStreams' = closedStreams \cup {id}
        /\ closedOrder' = Append(closedOrder, id)
        /\ closedStart' = closedStart
    BY <1>5 DEF RememberClosed
  <2>2. /\ closedOrder' \in Seq(StreamIDs) /\ Len(closedOrder') = Len(closedOrder) + 1
        /\ \A k \in 1 .. Len(closedOrder) : closedOrder'[k] = closedOrder[k]
        /\ closedOrder'[Len(closedOrder) + 1] = id
    BY <1>1, <2>1, AppendProperties
  <2>3. /\ DOMAIN closedOrder' = (DOMAIN closedOrder) \cup {Len(closedOrder) + 1}
    BY <1>3, <2>2, LenProperties
  <2>4. closedStreams' = {closedOrder'[k] : k \in DOMAIN closedOrder'}
    BY <1>2, <1>3, <2>1, <2>2, <2>3
  <2>5. \A j, k \in DOMAIN closedOrder' : closedOrder'[j] = closedOrder'[k] => j = k
    BY <1>2, <1>3, <1>5, <2>2, <2>3
  <2>6. (LiveIDs \cap closedStreams)' = {}
    BY <1>2, <2>1 DEF LiveIDs
  <2>7. QED
    BY <1>1, <1>3, <1>5, <2>1, <2>2, <2>4, <2>5, <2>6 DEF Ringed, TombstoneRing, TombTypes
<1>6. CASE id \notin closedStreams /\ ~(Len(closedOrder) < MaxClosedStreamIDs)
  <2> DEFINE p == closedStart + 1
             n == Len(closedOrder)
             old == closedOrder[p]
  <2>1. /\ closedStreams' = (closedStreams \cup {id}) \ {old}
        /\ closedOrder' = [closedOrder EXCEPT ![p] = id]
        /\ closedStart' = p % n
    BY <1>6 DEF RememberClosed
  <2>2. n = MaxClosedStreamIDs /\ p \in 1 .. n
    BY <1>1, <1>2, <1>3, <1>6
  <2>3. /\ closedOrder' \in Seq(StreamIDs) /\ Len(closedOrder') = n
        /\ \A k \in 1 .. n : closedOrder'[k] = IF k = p THEN id ELSE closedOrder[k]
        /\ DOMAIN closedOrder' = 1 .. n
    <3>1. /\ closedOrder' \in Seq(StreamIDs) /\ Len(closedOrder') = n
          /\ \A k \in 1 .. n : closedOrder'[k] = IF k = p THEN id ELSE closedOrder[k]
      BY <1>1, <2>1, <2>2, ExceptSeq
    <3>2. QED
      BY <3>1, LenProperties
  <2>4. old \in closedStreams /\ old # id
    BY <1>2, <1>3, <1>6, <2>2
  <2>5. p % n \in 0 .. n - 1
    BY <1>1, <1>3, <2>2
  <2> HIDE DEF p
  <2>6. closedStreams' = {closedOrder'[k] : k \in DOMAIN closedOrder'}
    <3>1. ASSUME NEW x \in closedStreams'
          PROVE  \E k \in 1 .. n : closedOrder'[k] = x
      <4>1. CASE x = id
        BY <2>2, <2>3, <4>1
      <4>2. CASE x # id
        <5>1. x \in closedStreams /\ x # old
          BY <2>1, <3>1, <4>2
        <5>2. PICK k \in 1 .. n : closedOrder[k] = x
          BY <1>2, <1>3, <5>1
        <5>3. closedOrder'[k] = x
          BY <2>3, <5>1, <5>2
        <5>4. QED
          BY <5>3
      <4>3. QED
        BY <4>1, <4>2
    <3>2. ASSUME NEW k \in 1 .. n
          PROVE  closedOrder'[k] \in closedStreams'
      <4>1. CASE k = p
        BY <2>1, <2>3, <2>4, <4>1
      <4>2. CASE k # p
        <5>1. closedOrder'[k] = closedOrder[k] /\ closedOrder[k] \in closedStreams
          BY <1>2, <1>3, <2>3, <4>2
        <5>2. closedOrder[k] # old
          BY <1>2, <1>3, <2>2, <4>2
        <5>3. QED
          BY <2>1, <5>1, <5>2
      <4>3. QED
        BY <4>1, <4>2
    <3>3. QED
      BY <2>3, <3>1, <3>2
  <2>7. \A j, k \in DOMAIN closedOrder' : closedOrder'[j] = closedOrder'[k] => j = k
    <3>1. \A k \in 1 .. n : closedOrder[k] \in closedStreams
      BY <1>2, <1>3
    <3>2. \A j, k \in 1 .. n : closedOrder[j] = closedOrder[k] => j = k
      BY <1>2, <1>3
    <3>3. QED
      BY <1>6, <2>3, <3>1, <3>2
  <2>8. (LiveIDs \cap closedStreams)' = {}
    BY <1>2, <2>1 DEF LiveIDs
  <2>9. Ringed'
    BY <1>3, <2>1, <2>2, <2>3, <2>5, <2>6, <2>7, <2>8 DEF Ringed, TombstoneRing
  <2>10. TombTypes'
    BY <1>1, <1>3, <2>1, <2>3, <2>5 DEF TombTypes
  <2>11. QED
    BY <2>1, <2>9, <2>10
<1>7. QED
  BY <1>4, <1>5, <1>6

--------------------------------------------------------------------------------
(* ProcessUp: DATA and WINDOW.                                             *)

\* One stream changes, and stays with its backend.
SameStream(s, t) == t \in StreamState /\ t.backend = s.backend /\ t.backend # 0

\* Such a step leaves streams and backends typed and linked.
LEMMA StreamStepLinked ==
    ASSUME Typed, Linked, NEW x \in StreamIDs, NEW t, SameStream(streams[x], t),
           streams' = [streams EXCEPT ![x] = t],
           \A b \in Backends : /\ backends'[b].id = backends[b].id
                               /\ backends[b].phase = "running" => backends'[b].phase = "running"
                               /\ backends[b].phase # "running" => backends'[b] = backends[b]
    PROVE  /\ StreamTypes' /\ Linked' /\ streams'[x] = t
           /\ \A id \in StreamIDs \ {x} : streams'[id] = streams[id]
           /\ \A id \in StreamIDs : (Live(id)' <=> Live(id)) /\ streams'[id].backend = streams[id].backend
<1>1. streams \in [StreamIDs -> StreamState]
  BY DEF Typed, StreamTypes
<1>2. /\ StreamTypes' /\ streams'[x] = t
      /\ \A id \in StreamIDs \ {x} : streams'[id] = streams[id]
  BY <1>1 DEF StreamTypes, SameStream
<1>3. \A id \in StreamIDs : streams'[id].backend = streams[id].backend
  BY <1>2 DEF SameStream
<1>4. \A id \in StreamIDs : Live(id)' <=> Live(id)
  BY <1>3 DEF Live
<1>5. Linked'
  <2>1. \A id \in StreamIDs : ~Live(id)' => streams'[id] = NoStream
    BY <1>2, <1>4 DEF Linked, SameStream, Live
  <2>2. ASSUME NEW id \in StreamIDs, Live(id)'
        PROVE  /\ backends'[streams'[id].backend].id = id
               /\ backends'[streams'[id].backend].phase \in Alive
    <3>1. streams[id].backend \in Backends
      BY <1>1, <1>4, <2>2 DEF StreamState, Live, Backends
    <3>2. backends[streams[id].backend].id = id /\ backends[streams[id].backend].phase \in Alive
      BY <1>4, <2>2 DEF Linked
    <3>3. QED
      BY <1>3, <3>1, <3>2 DEF Alive
  <2>3. \A b \in Backends :
           /\ backends'[b].phase # "unused" => backends'[b].id \in StreamIDs
           /\ backends'[b].phase \in {"dialing", "dialed"} => backends'[b].w = "next"
    BY DEF Linked
  <2>4. QED
    BY <2>1, <2>2, <2>3 DEF Linked
<1>6. QED
  BY <1>2, <1>3, <1>4, <1>5

\* Only goroutines of stream x move, and none of them starts or ends.
MovesOnly(x) ==
    \A c \in Backends :
      /\ backends'[c].id = backends[c].id
      /\ backends[c].phase = "running" => backends'[c].phase = "running"
      /\ backends[c].phase # "running" => backends'[c] = backends[c]
      /\ backends[c].id # x => backends'[c] = backends[c]

\* The queue keeps its frames, or those it gets are of stream x.
QueuesOnly(x) ==
    \A k \in DOMAIN pendingFrames' :
      \/ pendingFrames'[k].id = x
      \/ k \in DOMAIN pendingFrames /\ pendingFrames'[k].id = pendingFrames[k].id

\* When one stream changes, and the queue, the charge follows.
LEMMA StreamBudget ==
    ASSUME Inv, NEW x \in StreamIDs, Typed', Linked', Ledgers', ~closed', UNCHANGED unacked,
           \A id \in StreamIDs \ {x} : streams'[id] = streams[id],
           pendingCost' - pendingCost
             = (CostOf(pendingFrames') - CostOf(pendingFrames)) + (Held'.cost - Held.cost)
               + (streams'[x].pendingWriteCost - streams[x].pendingWriteCost),
           pendingItems' - pendingItems
             = (Len(pendingFrames') - Len(pendingFrames)) + (Held'.items - Held.items)
               + (streams'[x].pendingWriteItems - streams[x].pendingWriteItems)
    PROVE  Budget'
<1> DEFINE q == Len(pendingFrames)
           q2 == Len(pendingFrames')
           c == CostOf(pendingFrames)
           c2 == CostOf(pendingFrames')
           a == Total(StreamIDs, WriteCosts(streams))
           a2 == Total(StreamIDs, WriteCosts(streams'))
           i == Total(StreamIDs, WriteItems(streams))
           i2 == Total(StreamIDs, WriteItems(streams'))
           d == streams'[x].pendingWriteCost - streams[x].pendingWriteCost
           e == streams'[x].pendingWriteItems - streams[x].pendingWriteItems
           h == Held'.cost - Held.cost
           g == Held'.items - Held.items
<1>1. Chargeable(streams) /\ Chargeable(streams')
  BY ChargeableStreams DEF Inv, Typed
<1>2. a2 - a = d /\ i2 - i = e /\ d \in Int /\ e \in Int
  <2> DEFINE r == streams
             u == streams'
  <2>1. Chargeable(r) /\ Chargeable(u) /\ \A id \in StreamIDs \ {x} : u[id] = r[id]
    BY <1>1
  <2> HIDE DEF r, u
  <2>2. /\ Total(StreamIDs, WriteCosts(u)) = Total(StreamIDs, WriteCosts(r))
              - r[x].pendingWriteCost + u[x].pendingWriteCost
        /\ Total(StreamIDs, WriteItems(u)) = Total(StreamIDs, WriteItems(r))
              - r[x].pendingWriteItems + u[x].pendingWriteItems
    BY ONLY <2>1, StreamChange, x \in StreamIDs
  <2>3. /\ Total(StreamIDs, WriteCosts(r)) \in Nat /\ Total(StreamIDs, WriteItems(r)) \in Nat
        /\ r[x].pendingWriteCost \in Nat /\ u[x].pendingWriteCost \in Nat
        /\ r[x].pendingWriteItems \in Nat /\ u[x].pendingWriteItems \in Nat
    BY <2>1, StreamCharges DEF Chargeable
  <2>4. /\ Total(StreamIDs, WriteCosts(u)) - Total(StreamIDs, WriteCosts(r))
             = u[x].pendingWriteCost - r[x].pendingWriteCost
        /\ Total(StreamIDs, WriteItems(u)) - Total(StreamIDs, WriteItems(r))
             = u[x].pendingWriteItems - r[x].pendingWriteItems
    BY ONLY <2>2, <2>3
  <2>5. QED
    BY <2>3, <2>4 DEF r, u
<1>3. /\ c \in Nat /\ q \in Nat /\ c2 \in Nat /\ q2 \in Nat /\ h \in Int /\ g \in Int
  <2>1. c \in Nat /\ q \in Nat /\ Held.cost \in Int /\ Held.items \in Int
    BY Numbers
  <2>2. c2 \in Nat /\ q2 \in Nat
    BY CostsAre DEF Typed, QueueTypes
  <2>3. Held'.cost \in Int /\ Held'.items \in Int
    BY DEF Typed, UpTypes, UpCall, Held, NoUpCall
  <2>4. QED
    BY <2>1, <2>2, <2>3
<1>4. CostOf(unacked') - CostOf(unacked) = 0 /\ Len(unacked') - Len(unacked) = 0
  <2>1. CostOf(unacked) \in Nat /\ Len(unacked) \in Nat
    BY Numbers
  <2>2. QED
    BY <2>1
<1>5. /\ pendingCost' - pendingCost = (c2 - c) + h + d
      /\ pendingItems' - pendingItems = (q2 - q) + g + e
  OBVIOUS
<1> HIDE DEF q, q2, c, c2, a, a2, i, i2, d, e, h, g
<1>6. /\ (c2 - c) + h + d = (c2 - c) + 0 + h + (a2 - a)
      /\ (q2 - q) + g + e = (q2 - q) + 0 + g + (i2 - i)
  BY ONLY <1>2, <1>3
<1>7. /\ pendingCost' - pendingCost
            = (c2 - c) + (CostOf(unacked') - CostOf(unacked)) + h + (a2 - a)
      /\ pendingItems' - pendingItems
            = (q2 - q) + (Len(unacked') - Len(unacked)) + g + (i2 - i)
  BY ONLY <1>4, <1>5, <1>6
<1>8. QED
  BY <1>7, BudgetStep DEF q, q2, c, c2, a, a2, i, i2, h, g

\* A step in which one stream changes and stays with its backend.
LEMMA StreamStepInv ==
    ASSUME Inv, NEW x \in StreamIDs, NEW t, SameStream(streams[x], t), ~closed,
           streams' = [streams EXCEPT ![x] = t], MovesOnly(x), QueuesOnly(x),
           Balanced(t),
           backends'[t.backend].w # "done" /\ opens[x] = 1 =>
             WritesKnown(t, backends'[t.backend]),
           UNCHANGED <<closeVars, tombVars, pollVars, lastUpSequence, lastUpDigest, opens>>,
           BackendTypes', QueueTypes', CostTypes', UpTypes', Uplinked', Ordered',
           pendingCost' - pendingCost
             = (CostOf(pendingFrames') - CostOf(pendingFrames)) + (Held'.cost - Held.cost)
               + (t.pendingWriteCost - streams[x].pendingWriteCost),
           pendingItems' - pendingItems
             = (Len(pendingFrames') - Len(pendingFrames)) + (Held'.items - Held.items)
               + (t.pendingWriteItems - streams[x].pendingWriteItems)
    PROVE  Inv'
<1>1. /\ StreamTypes' /\ Linked' /\ streams'[x] = t
      /\ \A id \in StreamIDs \ {x} : streams'[id] = streams[id]
      /\ \A id \in StreamIDs : (Live(id)' <=> Live(id)) /\ streams'[id].backend = streams[id].backend
  BY StreamStepLinked DEF Inv, MovesOnly
<1>2. /\ UNCHANGED <<closed, closing, closedStreams, closedOrder, closedStart, unacked,
                     unackedBase, downCursor, downActive, opens>>
      /\ UNCHANGED <<lastUpSequence, lastUpDigest>>
  BY DEF closeVars, tombVars, pollVars
<1>3. Typed'
  BY <1>1, <1>2, SameTypes DEF Inv, Typed, pollVars, tombVars
<1>4. Ringed'
  BY <1>1, <1>2, SameRinged DEF Inv, tombVars
<1>5. Opened'
  <2>1. ASSUME NEW id \in StreamIDs, Unknown(id)
        PROVE  Unknown(id)'
    <3>1. id # x
      BY <1>1, <2>1 DEF Unknown, SameStream, Live
    <3>2. QED
      BY <1>1, <1>2, <2>1, <3>1 DEF Unknown, MovesOnly, QueuesOnly
  <2>2. QED
    BY <1>2, <2>1, SameOpened DEF Inv, MovesOnly
<1>6. Ledgers'
  <2> SUFFICES ASSUME NEW id \in StreamIDs, Live(id)
               PROVE  /\ Balanced(streams'[id])
                      /\ backends'[streams'[id].backend].w # "done" /\ opens[id] = 1 =>
                           WritesKnown(streams'[id], backends'[streams'[id].backend])
    BY <1>1, <1>2 DEF Ledgers
  <2>1. CASE id = x
    BY <1>1, <2>1
  <2>2. CASE id # x
    <3>1. streams[id].backend \in Backends /\ backends[streams[id].backend].id = id
      BY DEF Inv, Typed, StreamTypes, StreamState, Live, Backends, Linked
    <3>2. backends'[streams[id].backend] = backends[streams[id].backend]
      BY <2>2, <3>1 DEF MovesOnly
    <3>3. streams'[id] = streams[id]
      BY <1>1, <2>2
    <3>4. QED
      BY <3>2, <3>3 DEF Inv, Ledgers
  <2>3. QED
    BY <2>1, <2>2
<1>7. Budget'
  BY <1>1, <1>2, <1>3, <1>6, StreamBudget
<1>8. QED
  BY <1>1, <1>3, <1>4, <1>5, <1>6, <1>7 DEF Inv

\* Joining one more payload to the writes of a stream.
LEMMA AppendWrite ==
    ASSUME NEW s \in StreamState, s.backend # 0, Balanced(s),
           NEW n \in Nat, n <= s.receiveWindow
    PROVE  LET t == AppendBackendWrite(s, n)
               join == JoinsWrite(s, n)
           IN  /\ SameStream(s, t) /\ Balanced(t)
               /\ t.receiveWindow = s.receiveWindow - n
               /\ t.pendingWriteCost = s.pendingWriteCost + n + (IF join THEN 0 ELSE QueueItemCost)
               /\ t.pendingWriteItems = s.pendingWriteItems + (IF join THEN 0 ELSE 1)
               /\ \A b \in BackendState : WritesKnown(s, b) => WritesKnown(t, b)
<1> DEFINE t == AppendBackendWrite(s, n)
           join == JoinsWrite(s, n)
           w == s.writes
           v == IF join THEN [w EXCEPT ![Len(w)] = w[Len(w)] + n] ELSE Append(w, n)
<1>1. /\ w \in Seq(Nat) /\ s.receiveWindow \in Int /\ s.pendingWriteBytes \in Int
      /\ s.pendingWriteCost \in Int /\ s.pendingWriteItems \in Int
      /\ s.sendCredit \in Nat /\ s.backend \in 0 .. MaxBackends
  BY DEF StreamState
<1>2. /\ v \in Seq(Nat)
      /\ Len(v) = Len(w) + (IF join THEN 0 ELSE 1)
      /\ SumOf(v) = SumOf(w) + n
      /\ SumOf(w) \in Nat /\ Len(w) \in Nat
  <2>1. SumOf(w) \in Nat /\ Len(w) \in Nat
    BY <1>1, SumIs
  <2>2. CASE join
    <3>1. Len(w) \in 1 .. Len(w)
      BY <1>1, <2>1, <2>2, EmptySeq DEF JoinsWrite
    <3>2. w[Len(w)] \in Nat
      BY <1>1, <3>1, ElementOfSeq
    <3> DEFINE i == Len(w)
               x == w[i] + n
    <3>3. x \in Nat /\ i \in 1 .. Len(w) /\ w[i] \in Nat
      BY <3>1, <3>2
    <3>4. v = [w EXCEPT ![i] = x]
      BY <2>2
    <3>5. Len([w EXCEPT ![i] = x]) = Len(w)
      BY <1>1, <3>3, ExceptSeq
    <3> HIDE DEF i, x
    <3>6. /\ [w EXCEPT ![i] = x] \in Seq(Nat) /\ w[i] \in Nat
          /\ SumOf([w EXCEPT ![i] = x]) = SumOf(w) - w[i] + x
      BY <1>1, <3>3, SumReplaced
    <3>7. x = w[i] + n
      BY DEF x, i
    <3> HIDE DEF v, w
    <3>8. QED
      BY <2>1, <2>2, <3>4, <3>5, <3>6, <3>7
  <2>3. CASE ~join
    <3>1. v = Append(w, n)
      BY <2>3
    <3>2. v \in Seq(Nat) /\ Len(v) = Len(w) + 1
      BY <1>1, <3>1, AppendProperties
    <3>3. SumOf(Append(w, n)) = SumOf(w) + n
      BY <1>1, SumAppended
    <3>4. QED
      BY <2>1, <2>3, <3>1, <3>2, <3>3
  <2>4. QED
    BY <2>2, <2>3
<1> DEFINE bytes == s.pendingWriteBytes + n
           cost == s.pendingWriteCost + n + (IF join THEN 0 ELSE QueueItemCost)
           items == s.pendingWriteItems + (IF join THEN 0 ELSE 1)
           window == s.receiveWindow - n
<1>3. t = [s EXCEPT !.writes = v, !.pendingWriteBytes = bytes,
                    !.pendingWriteCost = cost, !.pendingWriteItems = items,
                    !.receiveWindow = window]
  BY DEF AppendBackendWrite
<1>4. bytes \in Int /\ cost \in Int /\ items \in Int /\ window \in Int
  BY <1>1, Limits
<1> HIDE DEF t, v, w, join, bytes, cost, items, window
<1>5. /\ t \in StreamState /\ t.writes = v /\ t.backend = s.backend
      /\ t.pendingWriteBytes = bytes /\ t.pendingWriteCost = cost
      /\ t.pendingWriteItems = items /\ t.receiveWindow = window
  <2>1. v \in Seq(Nat)
    BY <1>2
  <2>2. QED
    BY ONLY <1>3, <1>4, <2>1, s \in StreamState DEF StreamState
<1>6. Balanced(t)
  <2>1. /\ s.receiveWindow + s.pendingWriteBytes = InitialStreamWindow
        /\ s.pendingWriteCost = s.pendingWriteBytes + QueueItemCost * s.pendingWriteItems
        /\ s.receiveWindow >= 0 /\ s.pendingWriteBytes >= 0
        /\ s.pendingWriteItems >= 0
    BY DEF Balanced
  <2>2. QueueItemCost \in Nat
    BY Limits
  <2>3. \A i \in Int : QueueItemCost * (i + 1) = QueueItemCost * i + QueueItemCost
    BY <2>2
  <2>4. QueueItemCost * s.pendingWriteItems \in Int
    BY <1>1, <2>2
  <2>5. t.pendingWriteCost = t.pendingWriteBytes + QueueItemCost * t.pendingWriteItems
    <3>1. CASE join
      <4>1. /\ t.pendingWriteItems = s.pendingWriteItems
            /\ t.pendingWriteCost = s.pendingWriteCost + n
            /\ t.pendingWriteBytes = s.pendingWriteBytes + n
        BY <1>1, <1>5, <3>1 DEF items, cost, bytes
      <4>2. QED
        BY <1>1, <2>1, <2>4, <4>1
    <3>2. CASE ~join
      <4>1. /\ t.pendingWriteItems = s.pendingWriteItems + 1
            /\ t.pendingWriteCost = s.pendingWriteCost + n + QueueItemCost
            /\ t.pendingWriteBytes = s.pendingWriteBytes + n
        BY <1>1, <1>5, <3>2 DEF items, cost, bytes
      <4>2. QueueItemCost * t.pendingWriteItems
              = QueueItemCost * s.pendingWriteItems + QueueItemCost
        BY <1>1, <2>3, <4>1
      <4>3. QED
        <5> DEFINE p == QueueItemCost * s.pendingWriteItems
                   r == QueueItemCost * t.pendingWriteItems
        <5>1. p \in Int /\ r = p + QueueItemCost
              /\ s.pendingWriteCost = s.pendingWriteBytes + p
          BY <2>1, <2>4, <4>2
        <5> HIDE DEF p, r
        <5>2. t.pendingWriteCost = t.pendingWriteBytes + r
          BY <1>1, <2>2, <4>1, <5>1
        <5>3. QED
          BY <5>2 DEF r
    <3>3. QED
      BY <3>1, <3>2
  <2>6. /\ t.receiveWindow + t.pendingWriteBytes = InitialStreamWindow
        /\ t.receiveWindow >= 0 /\ t.pendingWriteBytes >= 0
        /\ t.pendingWriteItems >= 0
    <3>1. /\ t.receiveWindow = s.receiveWindow - n
          /\ t.pendingWriteBytes = s.pendingWriteBytes + n
      BY <1>5 DEF window, bytes
    <3>2. t.pendingWriteItems >= 0
      BY <1>1, <1>5, <2>1 DEF items
    <3>3. QED
      BY <1>1, <2>1, <3>1, <3>2, Limits
  <2>7. QED
    BY <2>5, <2>6 DEF Balanced
<1>7. ASSUME NEW b \in BackendState, WritesKnown(s, b)
      PROVE  WritesKnown(t, b)
  <2>1. /\ s.pendingWriteItems = Len(w) + (IF InHand(b) THEN 1 ELSE 0)
        /\ s.pendingWriteBytes = SumOf(w) + (IF InHand(b) THEN b.left ELSE 0)
        /\ b.left \in Int
    BY <1>7 DEF WritesKnown, BackendState, w
  <2>2. /\ t.pendingWriteItems = Len(v) + (IF InHand(b) THEN 1 ELSE 0)
        /\ t.pendingWriteBytes = SumOf(v) + (IF InHand(b) THEN b.left ELSE 0)
    <3> DEFINE one == IF InHand(b) THEN 1 ELSE 0
               left == IF InHand(b) THEN b.left ELSE 0
               m == Len(v)
               k == Len(w)
    <3>1. one \in Int /\ left \in Int /\ m \in Int /\ k \in Int
      BY <1>2, <2>1
    <3>2. m = k + (IF join THEN 0 ELSE 1)
      BY <1>2
    <3>3. s.pendingWriteItems = k + one /\ s.pendingWriteBytes = SumOf(w) + left
      BY <2>1
    <3>4. t.pendingWriteItems = s.pendingWriteItems + (IF join THEN 0 ELSE 1)
          /\ t.pendingWriteBytes = s.pendingWriteBytes + n
      BY <1>5 DEF items, bytes
    <3> HIDE DEF one, left, m, k
    <3>5. t.pendingWriteItems = m + one /\ t.pendingWriteBytes = SumOf(v) + left
      BY <1>1, <1>2, <3>1, <3>2, <3>3, <3>4
    <3>6. QED
      BY <3>5 DEF one, left, m, k
  <2>3. QED
    BY <1>5, <2>2 DEF WritesKnown
<1>8. SameStream(s, t)
  BY <1>5 DEF SameStream
<1>9. QED
  BY <1>5, <1>6, <1>7, <1>8 DEF t, join, cost, items, window

\* Steps that leave the backends and the queue alone.
LEMMA StillBackends ==
    ASSUME NEW x, UNCHANGED backends
    PROVE  MovesOnly(x)
BY DEF MovesOnly

\* A step that leaves the queue alone.
LEMMA StillQueue ==
    ASSUME NEW x, UNCHANGED pendingFrames
    PROVE  QueuesOnly(x)
BY DEF QueuesOnly

\* A stream in the table.
LEMMA LiveStream ==
    ASSUME Inv, NEW x \in StreamIDs, Live(x)
    PROVE  /\ streams[x] \in StreamState /\ streams[x].backend # 0
           /\ streams[x].backend \in Backends
           /\ backends[streams[x].backend] \in BackendState
           /\ backends[streams[x].backend].id = x
           /\ Balanced(streams[x])
           /\ x \notin closedStreams
           /\ opens[x] \in 1 .. 2
           /\ backends[streams[x].backend].w # "done" /\ opens[x] = 1 =>
                WritesKnown(streams[x], backends[streams[x].backend])
<1>1. streams[x] \in StreamState /\ streams[x].backend # 0
  BY DEF Inv, Typed, StreamTypes, Live
<1>2. streams[x].backend \in Backends
  BY <1>1 DEF StreamState, Backends
<1>3. /\ backends[streams[x].backend] \in BackendState
      /\ backends[streams[x].backend].id = x
  BY <1>2 DEF Inv, Typed, BackendTypes, Linked
<1>4. /\ Balanced(streams[x])
      /\ backends[streams[x].backend].w # "done" /\ opens[x] = 1 =>
           WritesKnown(streams[x], backends[streams[x].backend])
  BY DEF Inv, Ledgers
<1>5. x \notin closedStreams
  BY DEF Inv, Ringed, TombstoneRing, LiveIDs
<1>6. opens[x] \in 1 .. 2
  <2>1. opens[x] \in 0 .. 2 /\ opens[x] # 0
    BY DEF Inv, Opened, Unknown, Typed, OpenTypes
  <2>2. QED
    BY <2>1
<1>7. QED
  BY <1>1, <1>2, <1>3, <1>4, <1>5, <1>6

\* DATA for a live stream.
LEMMA DataInv ==
    ASSUME Inv, UpData
    PROVE  Inv'
<1> DEFINE x == Current.id
           n == Current.n
           s == streams[x]
           t == AppendBackendWrite(s, n)
           join == JoinsWrite(s, n)
<1>1. /\ up.pc = "apply" /\ up.i <= Len(up.frames) /\ x # 0 /\ Current.type = "data"
      /\ x \notin closedStreams /\ Live(x)
      /\ streams' = [streams EXCEPT ![x] = t]
      /\ up' = [up EXCEPT !.i = @ + 1,
                          !.cost = @ - (n + (IF join THEN 0 ELSE QueueItemCost)),
                          !.items = @ - (IF join THEN 0 ELSE 1)]
  BY DEF UpData, Applying
<1>2. /\ UNCHANGED <<closeVars, tombVars, pollVars, lastUpSequence, lastUpDigest, opens>>
      /\ UNCHANGED <<closed, closedStreams, pendingFrames, pendingWindows, pendingCost,
                     pendingItems, unacked, downActive, opens, backends>>
  BY DEF UpData, closeVars, tombVars, queueVars, costVars, pollVars
<1>3. /\ Current \in ClientFrame
      /\ Follows(Current, up.live[up.i], up.live[up.i + 1])
      /\ \A id \in StreamIDs : Live(id) => streams[id].receiveWindow = up.live[up.i][id]
      /\ up \in UpCall /\ ~closed
  BY <1>1, AppliedFrame, Place DEF Inv, Typed, UpTypes
<1>4. x \in StreamIDs /\ n \in Nat
  BY <1>1, <1>3 DEF ClientFrame
<1>5. /\ s \in StreamState /\ s.backend # 0 /\ s.backend \in Backends
      /\ backends[s.backend] \in BackendState
      /\ Balanced(s) /\ opens[x] \in 1 .. 2
      /\ backends[s.backend].w # "done" /\ opens[x] = 1 =>
           WritesKnown(s, backends[s.backend])
  BY <1>1, <1>4, LiveStream
<1>6. s.receiveWindow = up.live[up.i][x] /\ s.receiveWindow \in Int /\ s.receiveWindow >= 0
  BY <1>1, <1>3, <1>4, <1>5 DEF Balanced, StreamState
<1>7. n <= s.receiveWindow /\ up.live[up.i + 1][x] = s.receiveWindow - n
  BY <1>1, <1>3, <1>6 DEF Follows, NoSnapshot
<1>8. /\ SameStream(s, t) /\ Balanced(t)
      /\ t.receiveWindow = s.receiveWindow - n
      /\ t.pendingWriteCost = s.pendingWriteCost + n + (IF join THEN 0 ELSE QueueItemCost)
      /\ t.pendingWriteItems = s.pendingWriteItems + (IF join THEN 0 ELSE 1)
      /\ \A b \in BackendState : WritesKnown(s, b) => WritesKnown(t, b)
  BY <1>4, <1>5, <1>7, AppendWrite
<1>9. /\ up' \in UpCall /\ up'.pc = "apply" /\ up'.i = up.i + 1
      /\ up'.frames = up.frames /\ up'.live = up.live
      /\ up'.cost = up.cost - (n + (IF join THEN 0 ELSE QueueItemCost))
      /\ up'.items = up.items - (IF join THEN 0 ELSE 1)
  <2> DEFINE c == n + (IF join THEN 0 ELSE QueueItemCost)
             i == IF join THEN 0 ELSE 1
  <2>1. c \in Int /\ i \in Int
    BY <1>4, Limits
  <2>2. up' = [up EXCEPT !.i = @ + 1, !.cost = @ - c, !.items = @ - i]
    BY <1>1
  <2> HIDE DEF c, i, join
  <2>3. /\ up \in UpCall /\ up.pc = "apply" /\ up.i \in Nat
        /\ up.cost \in Int /\ up.items \in Int
    BY <1>1, <1>3 DEF UpCall
  <2>4. /\ up'.pc = "apply" /\ up'.i = up.i + 1
        /\ up'.frames = up.frames /\ up'.live = up.live
        /\ up'.cost = up.cost - c /\ up'.items = up.items - i
    BY ONLY <2>2, <2>3 DEF UpCall
  <2>5. up' \in UpCall
    <3>1. up.i + 1 \in Nat /\ up.cost - c \in Int /\ up.items - i \in Int
      BY <2>1, <2>3
    <3>2. QED
      BY ONLY <2>2, <2>3, <3>1 DEF UpCall
  <2>6. QED
    BY <2>4, <2>5 DEF c, i
<1> HIDE DEF t, join
<1>10. Uplinked'
  <2>1. ASSUME NEW id \in StreamIDs, Live(id)'
        PROVE  streams'[id].receiveWindow = up.live[up.i + 1][id]
    <3>1. streams \in [StreamIDs -> StreamState]
      BY DEF Inv, Typed, StreamTypes
    <3>2. CASE id = x
      BY <1>1, <1>4, <1>7, <1>8, <3>1, <3>2
    <3>3. CASE id # x
      <4>1. streams'[id] = streams[id] /\ Live(id)
        BY <1>1, <2>1, <3>1, <3>3 DEF Live
      <4>2. up.live[up.i + 1][id] = up.live[up.i][id]
        BY <1>3, <3>3 DEF Follows
      <4>3. QED
        BY <1>3, <4>1, <4>2
    <3>4. QED
      BY <3>2, <3>3
  <2>2. QED
    BY <1>1, <1>2, <1>9, <2>1, AppliedUplinked
<1>11. Ordered'
  <2>1. \A id \in StreamIDs : Live(id)' => Live(id)
    <3>1. streams \in [StreamIDs -> StreamState]
      BY DEF Inv, Typed, StreamTypes
    <3>2. QED
      BY <1>1, <3>1 DEF Live
  <2>2. QED
    BY <1>2, <2>1, SameOrdered DEF Inv
<1>12. MovesOnly(x) /\ QueuesOnly(x)
  BY <1>2, StillBackends, StillQueue
<1>13. /\ BackendTypes' /\ QueueTypes' /\ CostTypes' /\ UpTypes'
  BY <1>2, <1>9, SameTypes DEF Inv, queueVars, costVars, UpTypes
<1>14. backends'[t.backend].w # "done" /\ opens[x] = 1 => WritesKnown(t, backends'[t.backend])
  BY <1>2, <1>5, <1>8 DEF SameStream
<1>15. /\ pendingCost' - pendingCost
             = (CostOf(pendingFrames') - CostOf(pendingFrames)) + (Held'.cost - Held.cost)
               + (t.pendingWriteCost - streams[x].pendingWriteCost)
       /\ pendingItems' - pendingItems
             = (Len(pendingFrames') - Len(pendingFrames)) + (Held'.items - Held.items)
               + (t.pendingWriteItems - streams[x].pendingWriteItems)
  <2>1. Held = up /\ Held' = up'
    BY <1>1, <1>9 DEF Held
  <2>2. /\ pendingCost \in Nat /\ pendingItems \in Nat
        /\ CostOf(pendingFrames) \in Nat /\ Len(pendingFrames) \in Nat
    BY Numbers
  <2>3. /\ up.cost \in Int /\ up.items \in Int
        /\ s.pendingWriteCost \in Int /\ s.pendingWriteItems \in Int
    BY <1>3, <1>5 DEF UpCall, StreamState
  <2>4. QueueItemCost \in Nat
    BY Limits
  <2>5. /\ pendingCost' - pendingCost = 0 /\ pendingItems' - pendingItems = 0
        /\ CostOf(pendingFrames') - CostOf(pendingFrames) = 0
        /\ Len(pendingFrames') - Len(pendingFrames) = 0
    BY <1>2, <2>2
  <2>6. /\ Held'.cost - Held.cost = 0 - (n + (IF join THEN 0 ELSE QueueItemCost))
        /\ Held'.items - Held.items = 0 - (IF join THEN 0 ELSE 1)
    BY <1>4, <1>9, <2>1, <2>3, <2>4
  <2>7. /\ t.pendingWriteCost - s.pendingWriteCost = n + (IF join THEN 0 ELSE QueueItemCost)
        /\ t.pendingWriteItems - s.pendingWriteItems = (IF join THEN 0 ELSE 1)
    BY <1>4, <1>8, <2>3, <2>4
  <2>8. QED
    BY <1>4, <2>4, <2>5, <2>6, <2>7
<1>16. QED
  BY <1>1, <1>2, <1>3, <1>4, <1>8, <1>10, <1>11, <1>12, <1>13, <1>14, <1>15, StreamStepInv

\* A stream whose credit changes keeps its ledger.
LEMMA CreditChange ==
    ASSUME NEW s \in StreamState, s.backend # 0, Balanced(s), NEW c \in Nat
    PROVE  LET t == [s EXCEPT !.sendCredit = c]
           IN  /\ SameStream(s, t) /\ Balanced(t)
               /\ t.receiveWindow = s.receiveWindow
               /\ t.pendingWriteCost = s.pendingWriteCost
               /\ t.pendingWriteItems = s.pendingWriteItems
               /\ \A b : WritesKnown(s, b) => WritesKnown(t, b)
<1> DEFINE t == [s EXCEPT !.sendCredit = c]
<1>1. /\ t \in StreamState /\ t.backend = s.backend /\ t.writes = s.writes
      /\ t.receiveWindow = s.receiveWindow
      /\ t.pendingWriteBytes = s.pendingWriteBytes
      /\ t.pendingWriteCost = s.pendingWriteCost
      /\ t.pendingWriteItems = s.pendingWriteItems
  BY DEF StreamState
<1> HIDE DEF t
<1>2. QED
  BY <1>1 DEF SameStream, Balanced, WritesKnown, t

\* WINDOW for a live stream.
LEMMA WindowInv ==
    ASSUME Inv, UpWindow
    PROVE  Inv'
<1> DEFINE x == Current.id
           s == streams[x]
           c == IF s.sendCredit + Current.n > MaxUint32 THEN MaxUint32 ELSE s.sendCredit + Current.n
           t == [s EXCEPT !.sendCredit = c]
<1>1. /\ up.pc = "apply" /\ up.i <= Len(up.frames) /\ x # 0 /\ Current.type = "window"
      /\ x \notin closedStreams /\ Live(x) /\ Applied
  BY DEF UpWindow, Applying
<1>2. /\ UNCHANGED <<closeVars, tombVars, pollVars, lastUpSequence, lastUpDigest, opens>>
      /\ UNCHANGED <<closed, closedStreams, pendingFrames, pendingWindows, pendingCost,
                     pendingItems, unacked, downActive, opens, backends>>
  BY DEF UpWindow, closeVars, tombVars, queueVars, costVars, pollVars
<1>3. /\ Current \in ClientFrame
      /\ Follows(Current, up.live[up.i], up.live[up.i + 1])
      /\ \A id \in StreamIDs : Live(id) => streams[id].receiveWindow = up.live[up.i][id]
      /\ ~closed
  BY <1>1, AppliedFrame, Place
<1>4. x \in StreamIDs /\ Current.n \in Nat
  BY <1>1, <1>3 DEF ClientFrame
<1>5. /\ s \in StreamState /\ s.backend # 0 /\ Balanced(s)
      /\ backends[s.backend].w # "done" /\ opens[x] = 1 =>
           WritesKnown(s, backends[s.backend])
  BY <1>1, <1>4, LiveStream
<1>6. c \in Nat
  BY <1>4, <1>5, Limits DEF StreamState
<1>7. streams' = [streams EXCEPT ![x] = t]
  <2>1. streams \in [StreamIDs -> StreamState]
    BY DEF Inv, Typed, StreamTypes
  <2>2. QED
    BY <2>1 DEF UpWindow
<1>8. /\ SameStream(s, t) /\ Balanced(t)
      /\ t.receiveWindow = s.receiveWindow
      /\ t.pendingWriteCost = s.pendingWriteCost
      /\ t.pendingWriteItems = s.pendingWriteItems
      /\ \A b : WritesKnown(s, b) => WritesKnown(t, b)
  BY <1>5, <1>6, CreditChange
<1>9. /\ UpTypes' /\ up'.pc = "apply" /\ up'.i = up.i + 1
      /\ up'.frames = up.frames /\ up'.live = up.live
      /\ Held'.cost = Held.cost /\ Held'.items = Held.items
  BY <1>1, AppliedUp
<1> HIDE DEF c, t
<1>10. Uplinked'
  <2>1. ASSUME NEW id \in StreamIDs, Live(id)'
        PROVE  streams'[id].receiveWindow = up.live[up.i + 1][id]
    <3>1. streams \in [StreamIDs -> StreamState]
      BY DEF Inv, Typed, StreamTypes
    <3>2. CASE id = x
      BY <1>1, <1>3, <1>4, <1>7, <1>8, <3>1, <3>2 DEF Follows
    <3>3. CASE id # x
      <4>1. streams'[id] = streams[id] /\ Live(id)
        BY <1>7, <2>1, <3>1, <3>3 DEF Live
      <4>2. up.live[up.i + 1][id] = up.live[up.i][id]
        BY <1>3, <3>3 DEF Follows
      <4>3. QED
        BY <1>3, <4>1, <4>2
    <3>4. QED
      BY <3>2, <3>3
  <2>2. QED
    BY <1>1, <1>2, <1>9, <2>1, AppliedUplinked
<1>11. Ordered'
  <2>1. \A id \in StreamIDs : Live(id)' => Live(id)
    <3>1. streams \in [StreamIDs -> StreamState]
      BY DEF Inv, Typed, StreamTypes
    <3>2. QED
      BY <1>1, <1>7, <3>1 DEF Live
  <2>2. QED
    BY <1>2, <2>1, SameOrdered DEF Inv
<1>12. MovesOnly(x) /\ QueuesOnly(x)
  BY <1>2, StillBackends, StillQueue
<1>13. /\ BackendTypes' /\ QueueTypes' /\ CostTypes'
  BY <1>2, SameTypes DEF Inv, queueVars, costVars
<1>14. backends'[t.backend].w # "done" /\ opens[x] = 1 => WritesKnown(t, backends'[t.backend])
  BY <1>2, <1>5, <1>8 DEF SameStream
<1>15. /\ pendingCost' - pendingCost
             = (CostOf(pendingFrames') - CostOf(pendingFrames)) + (Held'.cost - Held.cost)
               + (t.pendingWriteCost - s.pendingWriteCost)
       /\ pendingItems' - pendingItems
             = (Len(pendingFrames') - Len(pendingFrames)) + (Held'.items - Held.items)
               + (t.pendingWriteItems - s.pendingWriteItems)
  <2>1. /\ pendingCost \in Nat /\ pendingItems \in Nat
        /\ CostOf(pendingFrames) \in Nat /\ Len(pendingFrames) \in Nat
        /\ Held.cost \in Int /\ Held.items \in Int
    BY Numbers
  <2>2. s.pendingWriteCost \in Int /\ s.pendingWriteItems \in Int
    BY <1>5 DEF StreamState
  <2>3. /\ pendingCost' - pendingCost = 0 /\ pendingItems' - pendingItems = 0
        /\ CostOf(pendingFrames') - CostOf(pendingFrames) = 0
        /\ Len(pendingFrames') - Len(pendingFrames) = 0
        /\ Held'.cost - Held.cost = 0 /\ Held'.items - Held.items = 0
        /\ t.pendingWriteCost - s.pendingWriteCost = 0
        /\ t.pendingWriteItems - s.pendingWriteItems = 0
    BY <1>2, <1>8, <1>9, <2>1, <2>2
  <2>4. QED
    BY <2>3
<1>16. QED
  BY <1>1, <1>2, <1>3, <1>4, <1>7, <1>8, <1>9, <1>10, <1>11, <1>12, <1>13, <1>14, <1>15,
     StreamStepInv

--------------------------------------------------------------------------------
(* Queueing a frame for the client.                                        *)

\* The queue keeps its frames where they are, and at most f is new, at the end.
Grown(f) ==
    /\ Len(pendingFrames') = Len(pendingFrames) \/ Len(pendingFrames') = Len(pendingFrames) + 1
    /\ \A k \in 1 .. Len(pendingFrames) :
         /\ pendingFrames'[k].type = pendingFrames[k].type
         /\ pendingFrames'[k].id = pendingFrames[k].id
    /\ Len(pendingFrames') = Len(pendingFrames) + 1 =>
         pendingFrames'[Len(pendingFrames) + 1] = f

\* In r frame i of the queue q got longer by m.
Longer(q, i, m, r) ==
    /\ q \in Seq(QueuedFrame) /\ i \in 1 .. Len(q) /\ m \in Nat
    /\ r = [q EXCEPT ![i].n = @ + m]

\* What a longer frame costs.
LEMMA LongerFrame ==
    ASSUME NEW q, NEW i, NEW m, NEW r, Longer(q, i, m, r)
    PROVE  /\ r \in Seq(QueuedFrame) /\ Len(r) = Len(q)
           /\ \A k \in 1 .. Len(q) : r[k].type = q[k].type /\ r[k].id = q[k].id
                                      /\ r[k].n \in Nat /\ q[k].n \in Nat /\ r[k].n >= q[k].n
           /\ q[i].type = "data" => CostOf(r) = CostOf(q) + m
           /\ q[i].type = "window" => CostOf(r) = CostOf(q)
<1> DEFINE e == q[i]
           f == [e EXCEPT !.n = e.n + m]
<1>0. q \in Seq(QueuedFrame) /\ i \in 1 .. Len(q) /\ m \in Nat
  BY DEF Longer
<1>1. e \in QueuedFrame /\ Len(q) \in Nat
  BY <1>0, ElementOfSeq, LenProperties
<1>2. f \in QueuedFrame /\ f.type = e.type /\ f.id = e.id /\ f.n = e.n + m
  <2> HIDE DEF e
  <2>1. QED
    BY ONLY <1>0, <1>1 DEF QueuedFrame
<1>3. r = [q EXCEPT ![i] = f]
  BY DEF Longer
<1>4. /\ FrameCost(e) \in Nat /\ FrameCost(f) \in Nat
      /\ e.type = "data" => FrameCost(f) = FrameCost(e) + m
      /\ e.type = "window" => FrameCost(f) = FrameCost(e)
  <2>1. FrameCost(e) \in Nat /\ FrameCost(f) \in Nat
    BY <1>1, <1>2, FrameCostType
  <2>2. e.n \in Nat
    BY <1>1 DEF QueuedFrame
  <2>3. ASSUME e.type = "data"
        PROVE  FrameCost(f) = FrameCost(e) + m
    <3>1. PayloadSize(f) = e.n + m /\ PayloadSize(e) = e.n
      BY <1>2, <2>3 DEF PayloadSize
    <3>2. QED
      <4>1. /\ FrameCost(f) = (HeaderSize + PayloadSize(f)) + QueueItemCost
            /\ FrameCost(e) = (HeaderSize + PayloadSize(e)) + QueueItemCost
        BY DEF FrameCost, EncodedSize
      <4> HIDE DEF e, f
      <4>2. QED
        BY <1>0, <2>2, <3>1, <4>1, Limits
  <2>4. ASSUME e.type = "window"
        PROVE  FrameCost(f) = FrameCost(e)
    <3>1. PayloadSize(f) = WindowSize /\ PayloadSize(e) = WindowSize
      BY <1>2, <2>4 DEF PayloadSize
    <3>2. QED
      BY <3>1 DEF FrameCost, EncodedSize
  <2>5. QED
    BY <2>1, <2>3, <2>4
<1> HIDE DEF f
<1>5. /\ [q EXCEPT ![i] = f] \in Seq(QueuedFrame) /\ Len([q EXCEPT ![i] = f]) = Len(q)
      /\ \A k \in 1 .. Len(q) : [q EXCEPT ![i] = f][k] = IF k = i THEN f ELSE q[k]
  BY <1>0, <1>2, ExceptSeq
<1>6. CostOf([q EXCEPT ![i] = f]) = CostOf(q) - FrameCost(e) + FrameCost(f)
  BY <1>0, <1>2, CostReplaced
<1>7. CostOf(q) \in Nat
  BY <1>0, CostsAre
<1>8. /\ r \in Seq(QueuedFrame) /\ Len(r) = Len(q)
      /\ \A k \in 1 .. Len(q) : r[k].type = q[k].type /\ r[k].id = q[k].id
                                 /\ r[k].n \in Nat /\ q[k].n \in Nat /\ r[k].n >= q[k].n
  <2>1. \A k \in 1 .. Len(q) : q[k] \in QueuedFrame /\ q[k].n \in Nat
    BY <1>0, CostsAre DEF QueuedFrame
  <2>2. f.n \in Nat /\ f.n >= e.n
    BY <1>0, <1>2, <2>1
  <2>3. QED
    BY <1>2, <1>3, <1>5, <2>1, <2>2
<1>9. CostOf(r) = CostOf(q) - FrameCost(e) + FrameCost(f)
  BY <1>3, <1>6
<1>10. /\ e.type = "data" => CostOf(r) = CostOf(q) + m
       /\ e.type = "window" => CostOf(r) = CostOf(q)
  <2> DEFINE a == FrameCost(e)
             b == FrameCost(f)
             c == CostOf(q)
  <2>1. /\ a \in Nat /\ b \in Nat /\ c \in Nat /\ CostOf(r) = c - a + b
        /\ e.type = "data" => b = a + m
        /\ e.type = "window" => b = a
    BY <1>4, <1>7, <1>9
  <2> HIDE DEF a, b, c
  <2>2. /\ e.type = "data" => CostOf(r) = c + m
        /\ e.type = "window" => CostOf(r) = c
    BY ONLY <1>0, <2>1
  <2>3. QED
    BY <2>2 DEF c
<1>11. QED
  BY <1>8, <1>10

\* The index of a queue in which a frame got longer.
LEMMA LongerWindows ==
    ASSUME WindowsIndexed, QueueTypes, UNCHANGED pendingWindows,
           pendingFrames' \in Seq(QueuedFrame), Len(pendingFrames') = Len(pendingFrames),
           \A k \in 1 .. Len(pendingFrames) :
             /\ pendingFrames'[k].type = pendingFrames[k].type
             /\ pendingFrames'[k].id = pendingFrames[k].id
             /\ pendingFrames'[k].n \in Nat /\ pendingFrames[k].n \in Nat
             /\ pendingFrames'[k].n >= pendingFrames[k].n
    PROVE  WindowsIndexed'
<1> DEFINE q == pendingFrames
           r == pendingFrames'
           L == 1 .. Len(q)
<1>1. Len(q) \in Nat /\ DOMAIN q = L /\ DOMAIN r = L /\ pendingWindows \in [StreamIDs -> Nat]
  BY LenProperties DEF QueueTypes
<1>2. \A id \in StreamIDs : pendingWindows'[id] # 0 =>
         /\ pendingWindows'[id] <= Len(r)
         /\ r[pendingWindows'[id]].type = "window"
         /\ r[pendingWindows'[id]].id = id
  BY <1>1 DEF WindowsIndexed
<1>3. \A k \in DOMAIN r : r[k].type = "window" => k <= pendingWindows'[r[k].id]
  BY <1>1 DEF WindowsIndexed
<1>4. ASSUME NEW j \in L, NEW k \in L, j < k, IsWindow(r[j], r[k].id), IsWindow(r[k], r[k].id),
             \A m \in j + 1 .. k - 1 : ~IsWindow(r[m], r[k].id)
      PROVE  r[j].n + r[k].n > MaxUint32
  <2>1. \A m \in L, id \in StreamIDs \cup {r[k].id} : IsWindow(r[m], id) <=> IsWindow(q[m], id)
    BY DEF IsWindow
  <2>2. \A m \in j + 1 .. k - 1 : m \in L
    BY <1>1
  <2>3. /\ IsWindow(q[j], q[k].id) /\ IsWindow(q[k], q[k].id)
        /\ \A m \in j + 1 .. k - 1 : ~IsWindow(q[m], q[k].id)
    BY <1>4, <2>1, <2>2
  <2>4. q[j].n + q[k].n > MaxUint32
    BY <1>1, <1>4, <2>3 DEF WindowsIndexed
  <2>5. QED
    BY <2>4, Limits
<1>5. QED
  BY <1>1, <1>2, <1>3, <1>4 DEF WindowsIndexed

\* What queueFrameLocked does to the queue, its index and the charges.
LEMMA QueueGrows ==
    ASSUME QueueTypes, WindowsIndexed, NEW f \in QueuedFrame,
           NEW atCost \in Nat, NEW atItems \in Nat, QueueFrame(f, atCost, atItems)
    PROVE  /\ QueueTypes' /\ WindowsIndexed' /\ Grown(f) /\ CostTypes'
           /\ pendingCost' - atCost = CostOf(pendingFrames') - CostOf(pendingFrames)
           /\ pendingItems' - atItems = Len(pendingFrames') - Len(pendingFrames)
<1> DEFINE q == pendingFrames
           r == pendingFrames'
<1>1. /\ q \in Seq(QueuedFrame) /\ Len(q) \in Nat /\ DOMAIN q = 1 .. Len(q)
      /\ pendingWindows \in [StreamIDs -> Nat] /\ CostOf(q) \in Nat
      /\ \A k \in 1 .. Len(q) : q[k].id \in StreamIDs /\ q[k].n \in Nat
  <2>1. \A e \in QueuedFrame : e.id \in StreamIDs /\ e.n \in Nat
    BY DEF QueuedFrame
  <2>2. QED
    BY <2>1, CostsAre, LenProperties DEF QueueTypes
<1>2. f.id \in StreamIDs /\ f.n \in Nat /\ f.type \in {"data", "window", "close"}
  BY DEF QueuedFrame
<1>3. FrameCost(f) \in Nat
  BY FrameCostType
<1>4. /\ \A id \in StreamIDs : pendingWindows[id] # 0 =>
           /\ pendingWindows[id] <= Len(q)
           /\ q[pendingWindows[id]].type = "window"
           /\ q[pendingWindows[id]].id = id
      /\ \A k \in 1 .. Len(q) : q[k].type = "window" => k <= pendingWindows[q[k].id]
      /\ \A j, k \in 1 .. Len(q) :
           /\ j < k /\ IsWindow(q[j], q[k].id) /\ IsWindow(q[k], q[k].id)
           /\ \A m \in j + 1 .. k - 1 : ~IsWindow(q[m], q[k].id)
           => q[j].n + q[k].n > MaxUint32
  BY <1>1 DEF WindowsIndexed
<1>5. CASE MergesWindow(f)
  <2> DEFINE i == pendingWindows[f.id]
  <2>1. i \in 1 .. Len(q) /\ q[i].type = "window" /\ f.type = "window"
    BY <1>1, <1>2, <1>4, <1>5 DEF MergesWindow
  <2>2. /\ r = [q EXCEPT ![i].n = @ + f.n]
        /\ pendingWindows' = pendingWindows
        /\ pendingCost' = atCost + 0 /\ pendingItems' = atItems + 0
    BY <1>5 DEF QueueFrame, QueueCost, QueueItems
  <2> HIDE DEF i
  <2>3. /\ r \in Seq(QueuedFrame) /\ Len(r) = Len(q)
        /\ \A k \in 1 .. Len(q) : r[k].type = q[k].type /\ r[k].id = q[k].id
                                   /\ r[k].n \in Nat /\ q[k].n \in Nat /\ r[k].n >= q[k].n
        /\ CostOf(r) = CostOf(q)
    <3> DEFINE a == q
               b == r
    <3>1. Longer(a, i, f.n, b) /\ a[i].type = f.type
      BY <1>1, <1>2, <2>1, <2>2 DEF Longer
    <3> HIDE DEF a, b, i
    <3>2. /\ b \in Seq(QueuedFrame) /\ Len(b) = Len(a)
          /\ \A k \in 1 .. Len(a) : b[k].type = a[k].type /\ b[k].id = a[k].id
                                     /\ b[k].n \in Nat /\ a[k].n \in Nat /\ b[k].n >= a[k].n
          /\ a[i].type = "data" => CostOf(b) = CostOf(a) + f.n
          /\ a[i].type = "window" => CostOf(b) = CostOf(a)
      BY <3>1, LongerFrame
    <3>3. QED
      BY <2>1, <3>1, <3>2 DEF a, b
  <2>4. DOMAIN r = 1 .. Len(q)
    BY <2>3, LenProperties
  <2>5. WindowsIndexed'
    BY <1>1, <1>4, <2>2, <2>3, <2>4, LongerWindows
  <2>6. Grown(f) /\ QueueTypes'
    <3>1. Len(q) # Len(q) + 1
      <4>1. \A n \in Nat : n # n + 1
        OBVIOUS
      <4>2. Len(q) \in Nat
        BY <1>1
      <4>3. QED
        BY ONLY <4>1, <4>2
    <3>2. Grown(f)
      BY <2>3, <3>1 DEF Grown
    <3>3. QueueTypes'
      BY <1>1, <2>2, <2>3 DEF QueueTypes
    <3>4. QED
      BY <3>2, <3>3
  <2>7. QED
    BY <1>1, <2>2, <2>3, <2>5, <2>6 DEF CostTypes
<1>6. CASE ~MergesWindow(f) /\ MergesData(f)
  <2> DEFINE i == Len(q)
  <2>1. f.type = "data" /\ i \in 1 .. Len(q) /\ q[i].type = "data"
    BY <1>1, <1>6, EmptySeq DEF MergesData
  <2>2. /\ r = [q EXCEPT ![i].n = @ + f.n]
        /\ pendingWindows' = pendingWindows
        /\ pendingCost' = atCost + f.n /\ pendingItems' = atItems + 0
    BY <1>6, <2>1 DEF QueueFrame, QueueCost, QueueItems
  <2>3. /\ r \in Seq(QueuedFrame) /\ Len(r) = Len(q)
        /\ \A k \in 1 .. Len(q) : r[k].type = q[k].type /\ r[k].id = q[k].id
                                   /\ r[k].n \in Nat /\ q[k].n \in Nat /\ r[k].n >= q[k].n
        /\ CostOf(r) = CostOf(q) + f.n
    <3> DEFINE a == q
               b == r
    <3>1. Longer(a, i, f.n, b) /\ a[i].type = f.type
      BY <1>1, <1>2, <2>1, <2>2 DEF Longer
    <3> HIDE DEF a, b, i
    <3>2. /\ b \in Seq(QueuedFrame) /\ Len(b) = Len(a)
          /\ \A k \in 1 .. Len(a) : b[k].type = a[k].type /\ b[k].id = a[k].id
                                     /\ b[k].n \in Nat /\ a[k].n \in Nat /\ b[k].n >= a[k].n
          /\ a[i].type = "data" => CostOf(b) = CostOf(a) + f.n
          /\ a[i].type = "window" => CostOf(b) = CostOf(a)
      BY <3>1, LongerFrame
    <3>3. QED
      BY <2>1, <3>1, <3>2 DEF a, b
  <2>4. DOMAIN r = 1 .. Len(q)
    BY <2>3, LenProperties
  <2>5. WindowsIndexed'
    BY <1>1, <1>4, <2>2, <2>3, <2>4, LongerWindows
  <2>6. Grown(f) /\ QueueTypes'
    <3>1. Len(q) # Len(q) + 1
      <4>1. \A n \in Nat : n # n + 1
        OBVIOUS
      <4>2. Len(q) \in Nat
        BY <1>1
      <4>3. QED
        BY ONLY <4>1, <4>2
    <3>2. Grown(f)
      BY <2>3, <3>1 DEF Grown
    <3>3. QueueTypes'
      BY <1>1, <2>2, <2>3 DEF QueueTypes
    <3>4. QED
      BY <3>2, <3>3
  <2>7. QED
    BY <1>1, <1>2, <2>2, <2>3, <2>5, <2>6 DEF CostTypes
<1>7. CASE ~MergesWindow(f) /\ ~MergesData(f)
  <2>1. /\ r = Append(q, f)
        /\ pendingWindows' = IF f.type = "window"
                             THEN [pendingWindows EXCEPT ![f.id] = Len(q) + 1]
                             ELSE pendingWindows
        /\ pendingCost' = atCost + FrameCost(f) /\ pendingItems' = atItems + 1
    BY <1>7 DEF QueueFrame, QueueCost, QueueItems
  <2>2. /\ r \in Seq(QueuedFrame) /\ Len(r) = Len(q) + 1
        /\ \A k \in 1 .. Len(q) : r[k] = q[k]
        /\ r[Len(q) + 1] = f
    BY <1>1, <2>1, AppendProperties
  <2>3. CostOf(r) = CostOf(q) + FrameCost(f)
    BY <1>1, <2>1, CostAppended
  <2>4. DOMAIN r = 1 .. Len(q) + 1
    BY <2>2, LenProperties
  <2>5. Grown(f)
    BY <1>1, <2>2 DEF Grown
  <2>6. QueueTypes'
    BY <1>1, <1>2, <2>1, <2>2 DEF QueueTypes
  <2>7. WindowsIndexed'
    <3>1. \A k \in 1 .. Len(q) + 1 : k \in 1 .. Len(q) \/ k = Len(q) + 1
      BY <1>1
    <3>2. \A id \in StreamIDs : pendingWindows'[id] # 0 =>
             /\ pendingWindows'[id] <= Len(r)
             /\ r[pendingWindows'[id]].type = "window"
             /\ r[pendingWindows'[id]].id = id
      BY <1>1, <1>2, <1>4, <2>1, <2>2
    <3>3. \A k \in DOMAIN r : r[k].type = "window" => k <= pendingWindows'[r[k].id]
      <4>1. ASSUME NEW k \in 1 .. Len(q), q[k].type = "window"
            PROVE  k <= pendingWindows'[q[k].id]
        <5>1. q[k].id \in StreamIDs /\ k <= pendingWindows[q[k].id]
          BY <1>1, <1>4, <4>1
        <5>2. QED
          BY <1>1, <1>2, <2>1, <5>1
      <4>2. QED
        BY <1>1, <1>2, <2>1, <2>2, <2>4, <3>1, <4>1
    <3>4. ASSUME NEW j \in 1 .. Len(q) + 1, NEW k \in 1 .. Len(q) + 1, j < k,
                 IsWindow(r[j], r[k].id), IsWindow(r[k], r[k].id),
                 \A m \in j + 1 .. k - 1 : ~IsWindow(r[m], r[k].id)
          PROVE  r[j].n + r[k].n > MaxUint32
      <4>1. j \in 1 .. Len(q) /\ r[j] = q[j]
        BY <1>1, <2>2, <3>4
      <4>2. CASE k \in 1 .. Len(q)
        <5>1. \A m \in j + 1 .. k - 1 : r[m] = q[m]
          BY <1>1, <2>2, <4>2
        <5>2. r[k] = q[k] /\ \A m \in j + 1 .. k - 1 : ~IsWindow(q[m], q[k].id)
          BY <2>2, <3>4, <4>2, <5>1
        <5>3. QED
          BY <1>4, <3>4, <4>1, <4>2, <5>2
      <4>3. CASE k = Len(q) + 1
        <5> DEFINE p == pendingWindows[f.id]
        <5>1. f.type = "window" /\ q[j].type = "window" /\ q[j].id = f.id /\ r[k] = f
          BY <2>2, <3>4, <4>1, <4>3 DEF IsWindow
        <5>2. p \in Nat /\ j <= p /\ p # 0 /\ p <= Len(q)
              /\ q[p].type = "window" /\ q[p].id = f.id
          BY <1>1, <1>2, <1>4, <4>1, <5>1
        <5>3. p \in 1 .. Len(q) /\ IsWindow(r[p], f.id)
          BY <2>2, <5>2 DEF IsWindow
        <5>4. ~(p \in j + 1 .. k - 1)
          BY <3>4, <5>1, <5>3
        <5>5. p = j
          BY <1>1, <4>1, <4>3, <5>2, <5>4
        <5>6. ~(q[p].n + f.n <= MaxUint32)
          BY <1>7, <5>1, <5>2 DEF MergesWindow
        <5>7. q[j].n \in Nat
          BY <1>1, <4>1
        <5>8. QED
          BY <1>2, <4>1, <5>1, <5>5, <5>6, <5>7, Limits
      <4>4. QED
        BY <3>1, <3>4, <4>2, <4>3
    <3>5. QED
      BY <2>4, <3>2, <3>3, <3>4 DEF WindowsIndexed
  <2>8. QED
    BY <1>1, <1>3, <2>1, <2>2, <2>3, <2>5, <2>6, <2>7 DEF CostTypes
<1>8. QED
  BY <1>5, <1>6, <1>7

\* No CLOSE of the stream is on its way to the client.
Silent(id) ==
    /\ \A k \in DOMAIN pendingFrames :
         pendingFrames[k].type = "close" => pendingFrames[k].id # id
    /\ \A k \in DOMAIN unacked : unacked[k].type = "close" => unacked[k].id # id

\* The downlink is the unacknowledged batch and then the queue.
LEMMA DownIs ==
    ASSUME NEW u \in Seq(QueuedFrame), NEW q \in Seq(QueuedFrame)
    PROVE  /\ Len(u) \in Nat /\ Len(q) \in Nat
           /\ DOMAIN u = 1 .. Len(u) /\ DOMAIN q = 1 .. Len(q)
           /\ DOMAIN (u \o q) = 1 .. Len(u) + Len(q)
           /\ \A k \in 1 .. Len(u) + Len(q) :
                (u \o q)[k] = IF k <= Len(u) THEN u[k] ELSE q[k - Len(u)]
BY ConcatProperties, LenProperties

\* A frame that joins the downlink of a stream that has no CLOSE there.
LEMMA GrownOrder ==
    ASSUME QueueTypes, PollTypes, QueueTypes', UNCHANGED unacked, ClosesLast, NothingAfterClose,
           NEW f \in QueuedFrame, Grown(f),
           \A id \in StreamIDs : opens[id] = 2 => opens'[id] = 2,
           Silent(f.id) \/ opens'[f.id] = 2,
           \A id \in StreamIDs : Live(id)' =>
             Live(id) /\ opens'[id] = opens[id] /\ (f.type = "close" => id # f.id)
    PROVE  NothingAfterClose' /\ ClosesLast' /\ QueuesOnly(f.id)
<1> DEFINE q == pendingFrames
           r == pendingFrames'
           n == Len(pendingFrames)
           N == Len(pendingFrames')
           m == Len(unacked)
           down == unacked \o q
           next == unacked \o r
<1>1. /\ n \in Nat /\ N \in Nat /\ m \in Nat
      /\ DOMAIN q = 1 .. n /\ DOMAIN r = 1 .. N /\ DOMAIN unacked = 1 .. m
      /\ DOMAIN down = 1 .. m + n /\ DOMAIN next = 1 .. m + N
      /\ \A k \in 1 .. m + n : down[k] = IF k <= m THEN unacked[k] ELSE q[k - m]
      /\ \A k \in 1 .. m + N : next[k] = IF k <= m THEN unacked[k] ELSE r[k - m]
  BY DownIs DEF QueueTypes, PollTypes
<1>2. /\ N = n \/ N = n + 1
      /\ \A k \in 1 .. n : r[k].type = q[k].type /\ r[k].id = q[k].id
      /\ N = n + 1 => r[n + 1] = f
  BY DEF Grown
<1>3. \A j, k \in 1 .. m + n :
         j < k /\ down[j].type = "close" /\ down[k].id = down[j].id => opens[down[j].id] = 2
  BY <1>1 DEF NothingAfterClose
<1>a. n \in Nat /\ N \in Nat /\ m \in Nat /\ (N = n \/ N = n + 1)
  BY <1>1, <1>2
<1> HIDE DEF n, N, m
<1>4. Silent(f.id) <=> \A k \in 1 .. m + n : down[k].type = "close" => down[k].id # f.id
  <2>1. ASSUME Silent(f.id), NEW k \in 1 .. m + n, down[k].type = "close"
        PROVE  down[k].id # f.id
    <3>1. CASE k <= m
      <4>1. k \in 1 .. m
        BY <1>1, <3>1
      <4>2. QED
        BY <1>1, <2>1, <3>1, <4>1 DEF Silent
    <3>2. CASE ~(k <= m)
      <4>1. k - m \in 1 .. n
        BY <1>1, <3>2
      <4>2. down[k] = q[k - m]
        BY <1>1, <3>2
      <4>3. q[k - m].type = "close" => q[k - m].id # f.id
        BY <1>1, <2>1, <4>1 DEF Silent
      <4>4. QED
        BY <2>1, <4>2, <4>3
    <3>3. QED
      BY <3>1, <3>2
  <2>2. ASSUME \A k \in 1 .. m + n : down[k].type = "close" => down[k].id # f.id
        PROVE  Silent(f.id)
    <3>1. ASSUME NEW k \in 1 .. m, unacked[k].type = "close"
          PROVE  unacked[k].id # f.id
      <4>1. k \in 1 .. m + n /\ k <= m
        BY <1>1
      <4>2. down[k] = unacked[k]
        BY <1>1, <4>1
      <4>3. QED
        BY <2>2, <3>1, <4>1, <4>2
    <3>2. ASSUME NEW k \in 1 .. n, q[k].type = "close"
          PROVE  q[k].id # f.id
      <4>1. m + k \in 1 .. m + n /\ ~(m + k <= m) /\ (m + k) - m = k
        BY <1>1
      <4>2. down[m + k] = q[k]
        BY <1>1, <4>1
      <4>3. QED
        BY <2>2, <3>2, <4>1, <4>2
    <3>3. QED
      BY <1>1, <3>1, <3>2 DEF Silent
  <2>3. QED
    BY <2>1, <2>2
<1>5. \A k \in 1 .. m + n : next[k].type = down[k].type /\ next[k].id = down[k].id
  <2> SUFFICES ASSUME NEW k \in 1 .. m + n
               PROVE  next[k].type = down[k].type /\ next[k].id = down[k].id
    OBVIOUS
  <2>1. k \in 1 .. m + N
    BY ONLY <1>a, k \in 1 .. m + n
  <2>2. CASE k <= m
    BY <1>1, <2>1, <2>2
  <2>3. CASE ~(k <= m)
    <3>1. k - m \in 1 .. n
      BY <1>1, <2>3
    <3>2. QED
      BY <1>1, <1>2, <2>1, <2>3, <3>1
  <2>4. QED
    BY <2>2, <2>3
<1>6. N = n + 1 => next[m + N] = f
  <2>1. ASSUME N = n + 1
        PROVE  next[m + N] = f
    <3>1. m + N \in 1 .. m + N /\ ~(m + N <= m) /\ (m + N) - m = n + 1
      BY <1>1, <2>1
    <3>2. QED
      BY <1>1, <1>2, <2>1, <3>1
  <2>2. QED
    BY <2>1
<1>7. \A k \in 1 .. m + n : down[k].id \in StreamIDs
  <2>1. \A e \in QueuedFrame : e.id \in StreamIDs
    BY DEF QueuedFrame
  <2>2. (\A k \in 1 .. n : q[k] \in QueuedFrame) /\ (\A k \in 1 .. m : unacked[k] \in QueuedFrame)
    BY CostsAre DEF QueueTypes, PollTypes, n, m
  <2>3. \A k \in 1 .. m + n : k <= m => k \in 1 .. m
    BY <1>1
  <2>4. \A k \in 1 .. m + n : ~(k <= m) => k - m \in 1 .. n
    BY <1>1
  <2>5. QED
    BY <1>1, <2>1, <2>2, <2>3, <2>4
<1> HIDE DEF down, next
<1>8. ASSUME NEW j \in 1 .. m + N, NEW k \in 1 .. m + N, j < k,
             next[j].type = "close", next[k].id = next[j].id
      PROVE  opens'[next[j].id] = 2
  <2>1. j \in 1 .. m + n
    BY ONLY <1>a, <1>8
  <2>2. CASE k \in 1 .. m + n
    <3>1. opens[down[j].id] = 2
      BY <1>3, <1>5, <1>8, <2>1, <2>2
    <3>2. QED
      BY <1>5, <1>7, <2>1, <3>1
  <2>3. CASE ~(k \in 1 .. m + n)
    <3>1. k = m + N /\ N = n + 1
      BY ONLY <1>a, <2>3, k \in 1 .. m + N
    <3>2. next[j].id = f.id /\ down[j].type = "close" /\ down[j].id = f.id
      BY <1>5, <1>6, <1>8, <2>1, <3>1
    <3>3. ~Silent(f.id)
      BY <1>4, <2>1, <3>2
    <3>4. QED
      BY <3>2, <3>3
  <2>4. QED
    BY <2>2, <2>3
<1>9. NothingAfterClose'
  <2>1. (unacked \o pendingFrames)' = next
    BY DEF next
  <2>2. QED
    BY <1>1, <1>8, <2>1 DEF NothingAfterClose
<1>10. ASSUME NEW k \in 1 .. N
       PROVE  (k \in 1 .. n /\ r[k].type = q[k].type /\ r[k].id = q[k].id) \/ r[k] = f
  <2>1. k \in 1 .. n \/ (N = n + 1 /\ k = n + 1)
    BY ONLY <1>a, <1>10
  <2>2. QED
    BY <1>2, <2>1
<1>11. ClosesLast'
  <2> SUFFICES ASSUME NEW id \in StreamIDs, Live(id)', opens'[id] = 1
               PROVE  /\ \A k \in DOMAIN r : r[k].type = "close" => r[k].id # id
                      /\ \A k \in DOMAIN unacked : unacked[k].type = "close" => unacked[k].id # id
    BY DEF ClosesLast
  <2>1. /\ Live(id) /\ opens[id] = 1 /\ (f.type = "close" => id # f.id)
    OBVIOUS
  <2>2. /\ \A k \in 1 .. n : q[k].type = "close" => q[k].id # id
        /\ \A k \in DOMAIN unacked : unacked[k].type = "close" => unacked[k].id # id
    BY <1>1, <2>1 DEF ClosesLast
  <2>3. QED
    BY <1>1, <1>10, <2>1, <2>2
<1>12. QueuesOnly(f.id)
  BY <1>1, <1>10 DEF QueuesOnly
<1>13. QED
  BY <1>9, <1>11, <1>12

\* A frame other than CLOSE of a live stream is queued, or refused.
LEMMA QueueOrRefuse ==
    ASSUME Inv, NEW f \in QueuedFrame, Live(f.id), f.type # "close",
           NEW atCost \in Nat, NEW atItems \in Nat,
           QueueFrame(f, atCost, atItems) \/ RefuseFrame(atCost, atItems),
           UNCHANGED <<unacked, opens, downActive>>,
           \A id \in StreamIDs : Live(id)' => Live(id)
    PROVE  /\ QueueTypes' /\ CostTypes' /\ Ordered' /\ QueuesOnly(f.id)
           /\ pendingCost' - atCost = CostOf(pendingFrames') - CostOf(pendingFrames)
           /\ pendingItems' - atItems = Len(pendingFrames') - Len(pendingFrames)
<1>1. QueueTypes /\ PollTypes /\ WindowsIndexed /\ ClosesLast /\ NothingAfterClose /\ Parked
  BY DEF Inv, Typed, Ordered
<1>2. CASE QueueFrame(f, atCost, atItems)
  <2>1. /\ QueueTypes' /\ WindowsIndexed' /\ Grown(f) /\ CostTypes'
        /\ pendingCost' - atCost = CostOf(pendingFrames') - CostOf(pendingFrames)
        /\ pendingItems' - atItems = Len(pendingFrames') - Len(pendingFrames)
    BY <1>1, <1>2, QueueGrows
  <2>2. Silent(f.id) \/ opens'[f.id] = 2
    <3>1. f.id \in StreamIDs
      BY DEF QueuedFrame
    <3>2. opens[f.id] \in 1 .. 2
      BY <3>1, LiveStream
    <3>3. opens[f.id] = 1 \/ opens[f.id] = 2
      BY <3>2
    <3>4. QED
      BY <1>1, <3>1, <3>3 DEF ClosesLast, Silent
  <2>3. NothingAfterClose' /\ ClosesLast' /\ QueuesOnly(f.id)
    BY <1>1, <2>1, <2>2, GrownOrder
  <2>4. Parked'
    BY <1>1 DEF Parked
  <2>5. QED
    BY <2>1, <2>3, <2>4 DEF Ordered
<1>3. CASE RefuseFrame(atCost, atItems)
  <2>1. /\ UNCHANGED <<pendingFrames, pendingWindows>>
        /\ pendingCost' = atCost /\ pendingItems' = atItems
    BY <1>3 DEF RefuseFrame, queueVars
  <2>2. Ordered'
    BY <2>1, SameOrdered DEF Inv
  <2>3. QueuesOnly(f.id)
    BY <2>1, StillQueue
  <2>4. CostOf(pendingFrames) \in Nat /\ Len(pendingFrames) \in Nat
    BY Numbers
  <2>5. QED
    BY <1>1, <2>1, <2>2, <2>3, <2>4 DEF QueueTypes, CostTypes
<1>4. QED
  BY <1>2, <1>3

--------------------------------------------------------------------------------
(* The writer and the reader of a backend.                                 *)

\* One running backend moves.
LEMMA OneMoves ==
    ASSUME Typed, NEW b \in Backends, backends[b].phase = "running",
           NEW new \in BackendState, new.id = backends[b].id, new.phase = "running",
           backends' = [backends EXCEPT ![b] = new]
    PROVE  /\ MovesOnly(backends[b].id) /\ BackendTypes'
           /\ backends'[b] = new
           /\ \A c \in Backends \ {b} : backends'[c] = backends[c]
<1>1. backends \in [Backends -> BackendState]
  BY DEF Typed, BackendTypes
<1>2. /\ backends'[b] = new
      /\ \A c \in Backends \ {b} : backends'[c] = backends[c]
      /\ backends' \in [Backends -> BackendState]
  BY <1>1
<1>3. MovesOnly(backends[b].id)
  BY <1>2 DEF MovesOnly
<1>4. QED
  BY <1>2, <1>3 DEF BackendTypes

\* The live stream whose id a running backend has: its own, if the id was opened once.
LEMMA RunningStream ==
    ASSUME Inv, NEW b \in Backends, backends[b].phase = "running", Live(backends[b].id)
    PROVE  /\ backends[b].id \in StreamIDs /\ backends[b] \in BackendState
           /\ StreamOf(b) = streams[backends[b].id]
           /\ StreamOf(b) \in StreamState /\ StreamOf(b).backend # 0
           /\ StreamOf(b).backend \in Backends /\ Balanced(StreamOf(b))
           /\ backends[StreamOf(b).backend] \in BackendState
           /\ backends[StreamOf(b).backend].w # "done" /\ opens[backends[b].id] = 1 =>
                WritesKnown(StreamOf(b), backends[StreamOf(b).backend])
           /\ opens[backends[b].id] = 1 => StreamOf(b).backend = b
<1>1. backends[b].id \in StreamIDs /\ backends[b] \in BackendState
  BY DEF Inv, Typed, BackendTypes, Linked
<1>2. StreamOf(b) = streams[backends[b].id]
  BY DEF StreamOf, Backend
<1>3. /\ StreamOf(b) \in StreamState /\ StreamOf(b).backend # 0
      /\ StreamOf(b).backend \in Backends /\ Balanced(StreamOf(b))
      /\ backends[StreamOf(b).backend] \in BackendState
      /\ backends[StreamOf(b).backend].id = backends[b].id
      /\ backends[StreamOf(b).backend].w # "done" /\ opens[backends[b].id] = 1 =>
           WritesKnown(StreamOf(b), backends[StreamOf(b).backend])
  BY <1>1, <1>2, LiveStream
<1>4. opens[backends[b].id] = 1 => StreamOf(b).backend = b
  BY <1>1, <1>3, Limits DEF Inv, Opened
<1>5. QED
  BY <1>1, <1>2, <1>3, <1>4

\* An unlocked step that leaves the uplink alone.
LEMMA UnlockedStep ==
    ASSUME Typed, ~Locked, UNCHANGED upVars
    PROVE  /\ Uplinked' /\ UpTypes' /\ UNCHANGED <<lastUpSequence, lastUpDigest, opens>>
           /\ Held'.cost = 0 /\ Held'.items = 0 /\ Held.cost = 0 /\ Held.items = 0
<1>1. UNCHANGED <<up, lastUpSequence, lastUpDigest, opens>>
  BY DEF upVars
<1>2. up.pc \notin {"apply", "panic"}
  BY DEF Locked
<1>3. QED
  BY <1>1, <1>2, UnlockedUplinked, SameTypes DEF Held, NoUpCall

\* A running backend becomes new, and the stream with its id becomes t.
BackendStepTo(b, t, new) ==
    /\ backends[b].phase = "running" /\ Live(backends[b].id) /\ ~Locked /\ ~closed
    /\ UNCHANGED <<closeVars, tombVars, pollVars, upVars>>
    /\ SameStream(StreamOf(b), t) /\ Balanced(t)
    /\ streams' = [streams EXCEPT ![backends[b].id] = t]
    /\ new \in BackendState /\ new.id = backends[b].id /\ new.phase = "running"
    /\ backends' = [backends EXCEPT ![b] = new]
    /\ new.w # "done" => backends[b].w # "done"
    /\ new.w # "done" /\ WritesKnown(StreamOf(b), backends[b]) => WritesKnown(t, new)
    /\ QueueTypes' /\ CostTypes' /\ Ordered' /\ QueuesOnly(backends[b].id)
    /\ pendingCost' - pendingCost
         = (CostOf(pendingFrames') - CostOf(pendingFrames))
           + (t.pendingWriteCost - StreamOf(b).pendingWriteCost)
    /\ pendingItems' - pendingItems
         = (Len(pendingFrames') - Len(pendingFrames))
           + (t.pendingWriteItems - StreamOf(b).pendingWriteItems)

\* Such a step keeps the invariant.
LEMMA BackendStepInv ==
    ASSUME Inv, NEW b \in Backends, NEW t, NEW new, BackendStepTo(b, t, new)
    PROVE  Inv'
<1> USE DEF BackendStepTo
<1> DEFINE x == backends[b].id
<1>1. /\ x \in StreamIDs /\ StreamOf(b) = streams[x]
      /\ StreamOf(b) \in StreamState /\ StreamOf(b).backend \in Backends
      /\ backends[StreamOf(b).backend].w # "done" /\ opens[x] = 1 =>
           WritesKnown(StreamOf(b), backends[StreamOf(b).backend])
      /\ opens[x] = 1 => StreamOf(b).backend = b
  BY RunningStream
<1>2. /\ MovesOnly(x) /\ BackendTypes' /\ backends'[b] = new
  BY OneMoves DEF Inv
<1>3. /\ Uplinked' /\ UpTypes' /\ UNCHANGED <<lastUpSequence, lastUpDigest, opens>>
      /\ Held'.cost = 0 /\ Held'.items = 0 /\ Held.cost = 0 /\ Held.items = 0
  BY UnlockedStep DEF Inv
<1>4. backends'[t.backend].w # "done" /\ opens[x] = 1 => WritesKnown(t, backends'[t.backend])
  <2>1. ASSUME backends'[t.backend].w # "done", opens[x] = 1
        PROVE  WritesKnown(t, backends'[t.backend])
    <3>1. t.backend = b /\ StreamOf(b).backend = b
      BY <1>1, <2>1 DEF SameStream
    <3>2. new.w # "done" /\ backends'[t.backend] = new
      BY <1>2, <2>1, <3>1
    <3>3. WritesKnown(StreamOf(b), backends[b])
      BY <1>1, <2>1, <3>1, <3>2
    <3>4. QED
      BY <3>2, <3>3
  <2>2. QED
    BY <2>1
<1>5. /\ pendingCost' - pendingCost
           = (CostOf(pendingFrames') - CostOf(pendingFrames)) + (Held'.cost - Held.cost)
             + (t.pendingWriteCost - streams[x].pendingWriteCost)
      /\ pendingItems' - pendingItems
           = (Len(pendingFrames') - Len(pendingFrames)) + (Held'.items - Held.items)
             + (t.pendingWriteItems - streams[x].pendingWriteItems)
  <2>1. /\ t.pendingWriteCost \in Int /\ t.pendingWriteItems \in Int
        /\ streams[x].pendingWriteCost \in Int /\ streams[x].pendingWriteItems \in Int
    BY <1>1 DEF SameStream, StreamState
  <2>2. /\ CostOf(pendingFrames) \in Nat /\ Len(pendingFrames) \in Nat
        /\ CostOf(pendingFrames') \in Nat /\ Len(pendingFrames') \in Nat
    BY Numbers, CostsAre DEF QueueTypes
  <2>3. Held'.cost - Held.cost = 0 /\ Held'.items - Held.items = 0
    BY <1>3
  <2> DEFINE n == Len(pendingFrames)
             N == Len(pendingFrames')
             c == CostOf(pendingFrames)
             C == CostOf(pendingFrames')
  <2>4. /\ pendingCost' - pendingCost = (C - c) + (t.pendingWriteCost - streams[x].pendingWriteCost)
        /\ pendingItems' - pendingItems = (N - n) + (t.pendingWriteItems - streams[x].pendingWriteItems)
    BY <1>1
  <2>5. n \in Int /\ N \in Int /\ c \in Int /\ C \in Int
    BY <2>2
  <2> HIDE DEF n, N, c, C
  <2>6. /\ pendingCost' - pendingCost = (C - c) + (Held'.cost - Held.cost)
              + (t.pendingWriteCost - streams[x].pendingWriteCost)
        /\ pendingItems' - pendingItems = (N - n) + (Held'.items - Held.items)
              + (t.pendingWriteItems - streams[x].pendingWriteItems)
    BY ONLY <2>1, <2>3, <2>4, <2>5
  <2>7. QED
    BY <2>6 DEF n, N, c, C
<1> HIDE DEF x
<1>6. SameStream(streams[x], t) /\ streams' = [streams EXCEPT ![x] = t] /\ QueuesOnly(x)
  BY <1>1 DEF x
<1>7. QED
  BY <1>1, <1>2, <1>3, <1>4, <1>5, <1>6, StreamStepInv

\* nextWrite: the writer takes a write, or returns.
LEMMA NextWriteInv ==
    ASSUME Inv, NEW b \in Backends, NextWrite(b)
    PROVE  Inv'
<1> DEFINE id == backends[b].id
           s == StreamOf(b)
<1>1. /\ ~Locked /\ backends[b].phase = "running" /\ backends[b].w = "next"
      /\ UNCHANGED <<closeVars, tombVars, queueVars, costVars, pollVars, upVars>>
  BY DEF NextWrite, Writing, Backend
<1>2. CASE ~closed /\ Live(id) /\ s.writes # << >>
  <2> DEFINE t == [s EXCEPT !.writes = Tail(s.writes)]
             new == [backends[b] EXCEPT !.w = "write", !.left = Head(s.writes)]
  <2>1. /\ backends' = [backends EXCEPT ![b].w = "write", ![b].left = Head(s.writes)]
        /\ streams' = [streams EXCEPT ![id].writes = Tail(@)]
    BY <1>2 DEF NextWrite, Backend
  <2>2. /\ id \in StreamIDs /\ backends[b] \in BackendState /\ s = streams[id]
        /\ s \in StreamState /\ s.backend # 0 /\ Balanced(s)
    BY <1>1, <1>2, RunningStream
  <2>3. /\ backends' = [backends EXCEPT ![b] = new]
        /\ streams' = [streams EXCEPT ![id] = t]
    BY <2>1, <2>2
  <2>4. /\ s.writes \in Seq(Nat) /\ Head(s.writes) \in Nat /\ Tail(s.writes) \in Seq(Nat)
        /\ Len(Tail(s.writes)) = Len(s.writes) - 1 /\ Len(s.writes) \in Nat
        /\ SumOf(s.writes) = Head(s.writes) + SumOf(Tail(s.writes))
        /\ SumOf(Tail(s.writes)) \in Nat
    <3>1. s.writes \in Seq(Nat)
      BY <2>2 DEF StreamState
    <3>2. QED
      BY <1>2, <3>1, SumTail, SumIs
  <2>5. /\ t \in StreamState /\ t.backend = s.backend /\ t.writes = Tail(s.writes)
        /\ t.receiveWindow = s.receiveWindow
        /\ t.pendingWriteBytes = s.pendingWriteBytes
        /\ t.pendingWriteCost = s.pendingWriteCost
        /\ t.pendingWriteItems = s.pendingWriteItems
    <3> DEFINE v == Tail(s.writes)
               c == s
               d == [c EXCEPT !.writes = v]
    <3>1. v \in Seq(Nat) /\ c \in StreamState
      BY <2>2, <2>4
    <3>2. t = d
      OBVIOUS
    <3> HIDE DEF v, c
    <3>3. d \in StreamState
      BY ONLY <3>1 DEF StreamState
    <3>4. /\ d.backend = c.backend /\ d.writes = v
          /\ d.receiveWindow = c.receiveWindow
          /\ d.pendingWriteBytes = c.pendingWriteBytes
          /\ d.pendingWriteCost = c.pendingWriteCost
          /\ d.pendingWriteItems = c.pendingWriteItems
      BY ONLY <3>1 DEF StreamState
    <3> HIDE DEF d, t
    <3>5. QED
      BY <3>2, <3>3, <3>4 DEF c, v
  <2>6. /\ new \in BackendState /\ new.id = id /\ new.phase = "running" /\ new.w = "write"
        /\ new.left = Head(s.writes)
    <3> DEFINE v == Head(s.writes)
               c == backends[b]
    <3>1. v \in Int /\ c \in BackendState /\ c.phase = "running"
      BY <1>1, <2>2, <2>4
    <3> HIDE DEF v, c
    <3>2. /\ [c EXCEPT !.w = "write", !.left = v] \in BackendState
          /\ [c EXCEPT !.w = "write", !.left = v].id = c.id
          /\ [c EXCEPT !.w = "write", !.left = v].phase = "running"
          /\ [c EXCEPT !.w = "write", !.left = v].w = "write"
          /\ [c EXCEPT !.w = "write", !.left = v].left = v
      BY ONLY <3>1 DEF BackendState
    <3>3. QED
      BY <3>2 DEF v, c
  <2> HIDE DEF t, new
  <2>7. Balanced(t) /\ SameStream(s, t)
    BY <2>2, <2>5 DEF Balanced, SameStream
  <2>8. WritesKnown(s, backends[b]) => WritesKnown(t, new)
    <3>1. ~InHand(backends[b]) /\ InHand(new)
      BY <1>1, <2>6 DEF InHand
    <3> DEFINE n == Len(s.writes)
               m == Len(t.writes)
               v == SumOf(s.writes)
               w == SumOf(t.writes)
    <3>2. n \in Int /\ m = n - 1 /\ w \in Int /\ v = new.left + w /\ new.left \in Int
      BY <2>4, <2>5, <2>6
    <3>3. ASSUME s.pendingWriteItems = n + 0, s.pendingWriteBytes = v + 0
          PROVE  t.pendingWriteItems = m + 1 /\ t.pendingWriteBytes = w + new.left
      <4>1. t.pendingWriteItems = s.pendingWriteItems /\ t.pendingWriteBytes = s.pendingWriteBytes
        BY <2>5
      <4> HIDE DEF n, m, v, w
      <4>2. QED
        BY ONLY <3>2, <3>3, <4>1
    <3>4. QED
      BY <3>1, <3>3 DEF WritesKnown
  <2>9. /\ QueueTypes' /\ CostTypes' /\ QueuesOnly(id)
    BY <1>1, SameTypes, StillQueue DEF Inv, queueVars
  <2>10. Ordered'
    <3>1. \A y \in StreamIDs : Live(y)' => Live(y)
      <4>1. streams \in [StreamIDs -> StreamState]
        BY DEF Inv, Typed, StreamTypes
      <4>2. QED
        BY <2>2, <2>3, <2>5, <4>1 DEF Live
    <3>2. QED
      BY <1>1, <3>1, SameOrdered DEF Inv, queueVars, pollVars, upVars
  <2>11. /\ pendingCost' - pendingCost
             = (CostOf(pendingFrames') - CostOf(pendingFrames))
               + (t.pendingWriteCost - s.pendingWriteCost)
         /\ pendingItems' - pendingItems
             = (Len(pendingFrames') - Len(pendingFrames))
               + (t.pendingWriteItems - s.pendingWriteItems)
    <3>1. /\ pendingCost \in Nat /\ pendingItems \in Nat
          /\ CostOf(pendingFrames) \in Nat /\ Len(pendingFrames) \in Nat
      BY Numbers
    <3>2. s.pendingWriteCost \in Int /\ s.pendingWriteItems \in Int
      BY <2>2 DEF StreamState
    <3>3. UNCHANGED <<pendingCost, pendingItems, pendingFrames>>
      BY <1>1 DEF costVars, queueVars
    <3>4. /\ pendingCost' - pendingCost = 0 /\ pendingItems' - pendingItems = 0
          /\ CostOf(pendingFrames') - CostOf(pendingFrames) = 0
          /\ Len(pendingFrames') - Len(pendingFrames) = 0
          /\ t.pendingWriteCost - s.pendingWriteCost = 0
          /\ t.pendingWriteItems - s.pendingWriteItems = 0
      BY <2>5, <3>1, <3>2, <3>3
    <3>5. QED
      BY <3>4
  <2>12. BackendStepTo(b, t, new)
    BY <1>1, <1>2, <2>3, <2>6, <2>7, <2>8, <2>9, <2>10, <2>11 DEF BackendStepTo
  <2>13. QED
    BY <2>12, BackendStepInv
<1>3. CASE ~(~closed /\ Live(id) /\ s.writes # << >>)
  <2>1. WriterExits(b) /\ UNCHANGED streams
    BY <1>3 DEF NextWrite, Backend
  <2>2. Quiet(b)
    BY <1>1, <2>1, WriterExitsQuiet DEF Inv
  <2>3. QED
    BY <2>2, QuietInv
<1>4. QED
  BY <1>2, <1>3

\* A stream gives back n bytes, i items and their cost.
Releases(s, t, n, i) ==
    /\ s \in StreamState /\ s.backend # 0 /\ Balanced(s) /\ n \in Nat /\ i \in Nat
    /\ n <= s.pendingWriteBytes /\ i <= s.pendingWriteItems
    /\ t = [s EXCEPT !.pendingWriteBytes = s.pendingWriteBytes - n,
                     !.pendingWriteItems = s.pendingWriteItems - i,
                     !.pendingWriteCost = s.pendingWriteCost - (n + QueueItemCost * i),
                     !.receiveWindow = s.receiveWindow + n]

\* Its ledger stays in balance.
LEMMA StreamReleases ==
    ASSUME NEW s, NEW t, NEW n, NEW i, Releases(s, t, n, i)
    PROVE  /\ SameStream(s, t) /\ Balanced(t) /\ t.writes = s.writes
           /\ t.pendingWriteBytes = s.pendingWriteBytes - n
           /\ t.pendingWriteItems = s.pendingWriteItems - i
           /\ t.pendingWriteCost = s.pendingWriteCost - (n + QueueItemCost * i)
<1> DEFINE bytes == s.pendingWriteBytes - n
           items == s.pendingWriteItems - i
           cost == s.pendingWriteCost - (n + QueueItemCost * i)
           window == s.receiveWindow + n
<1>0. /\ s \in StreamState /\ Balanced(s) /\ s.backend # 0 /\ n \in Nat /\ i \in Nat
      /\ n <= s.pendingWriteBytes /\ i <= s.pendingWriteItems
  BY DEF Releases
<1>1. /\ s.receiveWindow \in Int /\ s.pendingWriteBytes \in Int
      /\ s.pendingWriteCost \in Int /\ s.pendingWriteItems \in Int
  BY <1>0 DEF StreamState
<1>2. QueueItemCost \in Nat /\ QueueItemCost * i \in Int
      /\ QueueItemCost * s.pendingWriteItems \in Int
      /\ QueueItemCost * (s.pendingWriteItems - i)
           = QueueItemCost * s.pendingWriteItems - QueueItemCost * i
  <2>1. QueueItemCost \in Nat
    BY Limits
  <2>2. \A k, m \in Int : QueueItemCost * (k - m) = QueueItemCost * k - QueueItemCost * m
    BY <2>1
  <2>3. \A k \in Int : QueueItemCost * k \in Int
    BY <2>1
  <2>4. QED
    BY <1>0, <1>1, <2>1, <2>2, <2>3
<1>3. bytes \in Int /\ items \in Int /\ cost \in Int /\ window \in Int
  BY <1>0, <1>1, <1>2
<1>4. t = [s EXCEPT !.pendingWriteBytes = bytes, !.pendingWriteItems = items,
                    !.pendingWriteCost = cost, !.receiveWindow = window]
  BY DEF Releases
<1> HIDE DEF bytes, items, cost, window
<1>5. /\ t \in StreamState /\ t.writes = s.writes /\ t.backend = s.backend
      /\ t.pendingWriteBytes = bytes /\ t.pendingWriteItems = items
      /\ t.pendingWriteCost = cost /\ t.receiveWindow = window
  <2>1. t \in StreamState
    BY ONLY <1>0, <1>3, <1>4 DEF StreamState
  <2>2. /\ t.writes = s.writes /\ t.backend = s.backend
        /\ t.pendingWriteBytes = bytes /\ t.pendingWriteItems = items
        /\ t.pendingWriteCost = cost /\ t.receiveWindow = window
    BY ONLY <1>0, <1>3, <1>4 DEF StreamState
  <2>3. QED
    BY <2>1, <2>2
<1>6. Balanced(t)
  <2> DEFINE p == QueueItemCost * s.pendingWriteItems
             q == QueueItemCost * i
             r == QueueItemCost * t.pendingWriteItems
  <2>1. p \in Int /\ q \in Int /\ r = p - q
    BY <1>2, <1>5 DEF items
  <2>2. /\ s.receiveWindow + s.pendingWriteBytes = InitialStreamWindow
        /\ s.pendingWriteCost = s.pendingWriteBytes + p
        /\ s.receiveWindow >= 0 /\ s.pendingWriteBytes >= 0
        /\ s.pendingWriteItems >= 0
    BY <1>0 DEF Balanced
  <2>3. /\ t.pendingWriteBytes = s.pendingWriteBytes - n
        /\ t.pendingWriteItems = s.pendingWriteItems - i
        /\ t.pendingWriteCost = s.pendingWriteCost - (n + q)
        /\ t.receiveWindow = s.receiveWindow + n
    BY <1>5 DEF bytes, items, cost, window
  <2>4. n \in Int /\ i \in Int /\ n >= 0 /\ n <= s.pendingWriteBytes
        /\ i <= s.pendingWriteItems /\ InitialStreamWindow \in Int
    BY <1>0, Limits
  <2> HIDE DEF p, q, r
  <2>5. /\ t.receiveWindow + t.pendingWriteBytes = InitialStreamWindow
        /\ t.pendingWriteCost = t.pendingWriteBytes + r
        /\ t.receiveWindow >= 0 /\ t.pendingWriteBytes >= 0
        /\ t.pendingWriteItems >= 0
    BY ONLY <1>1, <2>1, <2>2, <2>3, <2>4
  <2>6. QED
    BY <2>5 DEF Balanced, r
<1>7. QED
  BY <1>0, <1>5, <1>6 DEF SameStream, bytes, items, cost

\* A change of one stream that stays with its backend makes no stream live.
LEMMA NoneEnters ==
    ASSUME Typed, NEW x \in StreamIDs, NEW t, SameStream(streams[x], t),
           streams' = [streams EXCEPT ![x] = t]
    PROVE  \A id \in StreamIDs : Live(id)' => Live(id)
<1>1. streams \in [StreamIDs -> StreamState]
  BY DEF Typed, StreamTypes
<1>2. QED
  BY <1>1 DEF Live, SameStream

\* backendWriteFinished: the item of the write is released, or the writer returns.
LEMMA WriteFinishedInv ==
    ASSUME Inv, NEW b \in Backends, BackendWriteFinished(b)
    PROVE  Inv'
<1> DEFINE id == backends[b].id
           s == StreamOf(b)
           bad == \/ closed \/ ~Live(id) \/ s.pendingWriteItems = 0
                  \/ s.pendingWriteCost < QueueItemCost
<1>1. /\ ~Locked /\ backends[b].phase = "running" /\ backends[b].w = "write"
      /\ backends[b].left = 0
      /\ UNCHANGED <<closeVars, tombVars, queueVars, pollVars, upVars>>
  BY DEF BackendWriteFinished, Writing, Backend
<1>2. CASE ~bad
  <2> DEFINE t == [s EXCEPT !.pendingWriteItems = s.pendingWriteItems - 1,
                            !.pendingWriteCost = s.pendingWriteCost - QueueItemCost]
             new == [backends[b] EXCEPT !.w = "next"]
  <2>1. /\ backends' = [backends EXCEPT ![b].w = "next"]
        /\ streams' = [streams EXCEPT ![id].pendingWriteItems = @ - 1,
                                      ![id].pendingWriteCost = @ - QueueItemCost]
        /\ pendingCost' = pendingCost - QueueItemCost /\ pendingItems' = pendingItems - 1
        /\ QueueItemCost \in 0 .. pendingCost /\ 1 \in 0 .. pendingItems
        /\ ~closed /\ Live(id) /\ s.pendingWriteItems # 0
    BY <1>2 DEF BackendWriteFinished, Backend, Releasable
  <2>2. /\ id \in StreamIDs /\ backends[b] \in BackendState /\ s = streams[id]
        /\ s \in StreamState /\ s.backend # 0 /\ Balanced(s)
    BY <1>1, <2>1, RunningStream
  <2>3. /\ backends' = [backends EXCEPT ![b] = new]
        /\ streams' = [streams EXCEPT ![id] = t]
    <3>1. backends' = [backends EXCEPT ![b] = new]
      BY <2>1
    <3>2. streams' = [streams EXCEPT ![id] = t]
      <4>1. streams \in [StreamIDs -> StreamState]
        BY DEF Inv, Typed, StreamTypes
      <4>2. QED
        BY <2>1, <2>2, <4>1
    <3>3. QED
      BY <3>1, <3>2
  <2>4. /\ s.pendingWriteBytes \in Int /\ s.receiveWindow \in Int /\ s.pendingWriteBytes >= 0
        /\ s.pendingWriteItems \in Int /\ s.pendingWriteItems >= 0 /\ s.pendingWriteCost \in Int
        /\ QueueItemCost \in Nat
    BY <2>2, Limits DEF Balanced, StreamState
  <2>5. t = [s EXCEPT !.pendingWriteBytes = s.pendingWriteBytes - 0,
                      !.pendingWriteItems = s.pendingWriteItems - 1,
                      !.pendingWriteCost = s.pendingWriteCost - (0 + QueueItemCost * 1),
                      !.receiveWindow = s.receiveWindow + 0]
    <3> DEFINE c == s
               w == s.receiveWindow + 0
               y == s.pendingWriteBytes - 0
               z == s.pendingWriteCost - (0 + QueueItemCost * 1)
    <3>1. w = c.receiveWindow /\ y = c.pendingWriteBytes /\ z = c.pendingWriteCost - QueueItemCost
          /\ c \in StreamState
      BY <2>2, <2>4
    <3> HIDE DEF c, w, y, z
    <3>2. [c EXCEPT !.pendingWriteItems = c.pendingWriteItems - 1,
                    !.pendingWriteCost = c.pendingWriteCost - QueueItemCost]
          = [c EXCEPT !.pendingWriteBytes = y, !.pendingWriteItems = c.pendingWriteItems - 1,
                      !.pendingWriteCost = z, !.receiveWindow = w]
      BY ONLY <3>1 DEF StreamState
    <3>3. QED
      BY <3>2 DEF c, w, y, z
  <2> HIDE DEF t
  <2>6. /\ SameStream(s, t) /\ Balanced(t) /\ t.writes = s.writes
        /\ t.pendingWriteBytes = s.pendingWriteBytes - 0
        /\ t.pendingWriteItems = s.pendingWriteItems - 1
        /\ t.pendingWriteCost = s.pendingWriteCost - (0 + QueueItemCost * 1)
    <3>1. 0 <= s.pendingWriteBytes /\ 1 <= s.pendingWriteItems /\ 0 \in Nat /\ 1 \in Nat
      BY <2>1, <2>4
    <3>2. Releases(s, t, 0, 1)
      BY <2>2, <2>5, <3>1 DEF Releases
    <3>3. QED
      BY <3>2, StreamReleases
  <2>7. /\ new \in BackendState /\ new.id = id /\ new.phase = "running" /\ new.w = "next"
    BY <1>1, <2>2 DEF BackendState
  <2> HIDE DEF new
  <2>8. WritesKnown(s, backends[b]) => WritesKnown(t, new)
    <3>1. InHand(backends[b]) /\ ~InHand(new)
      BY <1>1, <2>7 DEF InHand
    <3> DEFINE n == Len(s.writes)
               v == SumOf(s.writes)
    <3>2. n \in Int /\ v \in Int
      <4>1. s.writes \in Seq(Nat)
        BY <2>2 DEF StreamState
      <4>2. QED
        BY <4>1, SumIs
    <3>3. ASSUME s.pendingWriteItems = n + 1, s.pendingWriteBytes = v + 0
          PROVE  t.pendingWriteItems = n + 0 /\ t.pendingWriteBytes = v + 0
      <4> HIDE DEF n, v
      <4>1. QED
        BY <2>6, <3>2, <3>3
    <3>4. QED
      BY <1>1, <2>6, <3>1, <3>3 DEF WritesKnown
  <2>9. /\ QueueTypes' /\ QueuesOnly(id)
    BY <1>1, SameTypes, StillQueue DEF Inv, queueVars
  <2>10. Ordered'
    <3>1. \A y \in StreamIDs : Live(y)' => Live(y)
      BY <2>2, <2>3, <2>6, NoneEnters DEF Inv
    <3>2. QED
      BY <1>1, <3>1, SameOrdered DEF Inv, queueVars, pollVars, upVars
  <2>11. /\ pendingCost \in Nat /\ pendingItems \in Nat
         /\ CostOf(pendingFrames) \in Nat /\ Len(pendingFrames) \in Nat
    BY Numbers
  <2>12. CostTypes'
    BY <2>1, <2>11 DEF CostTypes
  <2>13. /\ pendingCost' - pendingCost
             = (CostOf(pendingFrames') - CostOf(pendingFrames))
               + (t.pendingWriteCost - s.pendingWriteCost)
         /\ pendingItems' - pendingItems
             = (Len(pendingFrames') - Len(pendingFrames))
               + (t.pendingWriteItems - s.pendingWriteItems)
    <3>1. UNCHANGED pendingFrames
      BY <1>1 DEF queueVars
    <3>2. /\ pendingCost' - pendingCost = 0 - QueueItemCost /\ pendingItems' - pendingItems = 0 - 1
          /\ CostOf(pendingFrames') - CostOf(pendingFrames) = 0
          /\ Len(pendingFrames') - Len(pendingFrames) = 0
          /\ t.pendingWriteCost - s.pendingWriteCost = 0 - QueueItemCost
          /\ t.pendingWriteItems - s.pendingWriteItems = 0 - 1
      BY <2>1, <2>4, <2>6, <2>11, <3>1
    <3>3. QED
      BY <2>4, <3>2
  <2>14. /\ SameStream(s, t) /\ Balanced(t) /\ ~closed /\ Live(id)
         /\ new.w # "done" => backends[b].w # "done"
    BY <1>1, <2>1, <2>6
  <2>15. BackendStepTo(b, t, new)
    BY <1>1, <2>3, <2>7, <2>8, <2>9, <2>10, <2>12, <2>13, <2>14 DEF BackendStepTo
  <2>16. QED
    BY <2>15, BackendStepInv
<1>3. CASE bad
  <2>1. WriterExits(b) /\ UNCHANGED <<streams, costVars>>
    BY <1>3 DEF BackendWriteFinished, Backend
  <2>2. Quiet(b)
    BY <1>1, <2>1, WriterExitsQuiet DEF Inv
  <2>3. QED
    BY <2>2, QuietInv
<1>4. QED
  BY <1>2, <1>3

\* backendDrained: bytes are released and granted again, or the writer returns.
LEMMA DrainedInv ==
    ASSUME Inv, NEW b \in Backends, NEW answer \in Answers, BackendDrained(b, answer)
    PROVE  Inv'
<1> DEFINE id == backends[b].id
           s == StreamOf(b)
           n == backends[b].wrote
           f == [type |-> "window", id |-> id, n |-> n]
           bad == closed \/ ~Live(id) \/ ~Drainable(s, n)
<1>1. /\ ~Locked /\ backends[b].phase = "running" /\ backends[b].w = "drain"
      /\ UNCHANGED <<closeVars, tombVars, pollVars, upVars>>
  BY DEF BackendDrained, Writing, Backend
<1>2. CASE ~bad
  <2> DEFINE t == [s EXCEPT !.pendingWriteBytes = s.pendingWriteBytes - n,
                            !.pendingWriteCost = s.pendingWriteCost - n,
                            !.receiveWindow = s.receiveWindow + n]
             drained == [backends[b] EXCEPT !.w = "write", !.left = backends[b].left - n,
                                            !.wrote = 0]
             exited == [ClosedBackend(b) EXCEPT !.w = "done", !.left = 0, !.wrote = 0]
  <2>1. /\ streams' = [streams EXCEPT ![id].pendingWriteBytes = @ - n,
                                      ![id].pendingWriteCost = @ - n,
                                      ![id].receiveWindow = @ + n]
        /\ n \in 0 .. pendingCost
        /\ ~closed /\ Live(id) /\ Drainable(s, n)
    BY <1>2 DEF BackendDrained, Backend, Releasable
  <2>2. \/ /\ QueueFrame(f, pendingCost - n, pendingItems)
           /\ backends' = [backends EXCEPT ![b].w = "write", ![b].left = @ - n, ![b].wrote = 0]
        \/ /\ RefuseFrame(pendingCost - n, pendingItems)
           /\ WriterExits(b)
    BY <1>2 DEF BackendDrained, Backend
  <2>3. /\ id \in StreamIDs /\ backends[b] \in BackendState /\ s = streams[id]
        /\ s \in StreamState /\ s.backend # 0 /\ Balanced(s)
    BY <1>1, <2>1, RunningStream
  <2>4. /\ s.pendingWriteBytes \in Int /\ s.receiveWindow \in Int
        /\ s.pendingWriteItems \in Int /\ s.pendingWriteItems >= 0 /\ s.pendingWriteCost \in Int
        /\ QueueItemCost \in Nat /\ n \in Nat /\ n <= s.pendingWriteBytes
        /\ pendingCost \in Nat /\ pendingItems \in Nat /\ pendingCost - n \in Nat
    <3>1. n \in Nat
      BY <2>3 DEF BackendState
    <3>2. pendingCost \in Nat /\ pendingItems \in Nat
      BY Numbers
    <3>3. pendingCost - n \in Nat
      BY <2>1, <3>1, <3>2
    <3>4. /\ s.pendingWriteBytes \in Int /\ s.receiveWindow \in Int
          /\ s.pendingWriteItems \in Int /\ s.pendingWriteItems >= 0 /\ s.pendingWriteCost \in Int
      BY <2>3 DEF Balanced, StreamState
    <3>5. QED
      BY <2>1, <3>1, <3>2, <3>3, <3>4, Limits DEF Drainable
  <2>5. streams' = [streams EXCEPT ![id] = t]
    <3>1. streams \in [StreamIDs -> StreamState]
      BY DEF Inv, Typed, StreamTypes
    <3>2. QED
      BY <2>1, <2>3, <3>1
  <2>6. t = [s EXCEPT !.pendingWriteBytes = s.pendingWriteBytes - n,
                      !.pendingWriteItems = s.pendingWriteItems - 0,
                      !.pendingWriteCost = s.pendingWriteCost - (n + QueueItemCost * 0),
                      !.receiveWindow = s.receiveWindow + n]
    <3> DEFINE c == s
               w == s.receiveWindow + n
               y == s.pendingWriteBytes - n
               i == s.pendingWriteItems - 0
               z == s.pendingWriteCost - n
               z2 == s.pendingWriteCost - (n + QueueItemCost * 0)
    <3>1. i = c.pendingWriteItems /\ z2 = z /\ c \in StreamState
      BY <2>3, <2>4
    <3> HIDE DEF c, w, y, z, z2, i
    <3>2. [c EXCEPT !.pendingWriteBytes = y, !.pendingWriteCost = z, !.receiveWindow = w]
          = [c EXCEPT !.pendingWriteBytes = y, !.pendingWriteItems = i,
                      !.pendingWriteCost = z2, !.receiveWindow = w]
      BY ONLY <3>1 DEF StreamState
    <3>3. QED
      BY <3>2 DEF c, w, y, z, z2, i
  <2> HIDE DEF t
  <2>7. /\ SameStream(s, t) /\ Balanced(t) /\ t.writes = s.writes
        /\ t.pendingWriteBytes = s.pendingWriteBytes - n
        /\ t.pendingWriteItems = s.pendingWriteItems - 0
        /\ t.pendingWriteCost = s.pendingWriteCost - (n + QueueItemCost * 0)
    <3>1. 0 <= s.pendingWriteItems /\ 0 \in Nat
      BY <2>4
    <3>2. Releases(s, t, n, 0)
      BY <2>3, <2>4, <2>6, <3>1 DEF Releases
    <3>3. QED
      BY <3>2, StreamReleases
  <2>8. f \in QueuedFrame /\ f.id = id /\ f.type # "close"
    BY <2>3, <2>4 DEF QueuedFrame
  <2>9. /\ QueueTypes' /\ CostTypes' /\ Ordered' /\ QueuesOnly(id)
        /\ pendingCost' - (pendingCost - n) = CostOf(pendingFrames') - CostOf(pendingFrames)
        /\ pendingItems' - pendingItems = Len(pendingFrames') - Len(pendingFrames)
    <3>1. \A y \in StreamIDs : Live(y)' => Live(y)
      BY <2>3, <2>5, <2>7, NoneEnters DEF Inv
    <3>2. UNCHANGED <<unacked, opens, downActive>>
      BY <1>1 DEF pollVars, upVars
    <3> DEFINE atCost == pendingCost - n
    <3>3. /\ atCost \in Nat /\ pendingItems \in Nat /\ Live(f.id)
          /\ QueueFrame(f, atCost, pendingItems) \/ RefuseFrame(atCost, pendingItems)
      BY <2>1, <2>2, <2>4
    <3> HIDE DEF f, atCost
    <3>4. /\ QueueTypes' /\ CostTypes' /\ Ordered' /\ QueuesOnly(f.id)
          /\ pendingCost' - atCost = CostOf(pendingFrames') - CostOf(pendingFrames)
          /\ pendingItems' - pendingItems = Len(pendingFrames') - Len(pendingFrames)
      BY <2>8, <3>1, <3>2, <3>3, QueueOrRefuse
    <3>5. QED
      BY <2>8, <3>4 DEF atCost
  <2>10. /\ pendingCost' - pendingCost
             = (CostOf(pendingFrames') - CostOf(pendingFrames))
               + (t.pendingWriteCost - s.pendingWriteCost)
         /\ pendingItems' - pendingItems
             = (Len(pendingFrames') - Len(pendingFrames))
               + (t.pendingWriteItems - s.pendingWriteItems)
    <3>1. /\ pendingCost' \in Nat /\ pendingItems' \in Nat
          /\ CostOf(pendingFrames) \in Nat /\ Len(pendingFrames) \in Nat
          /\ CostOf(pendingFrames') \in Nat /\ Len(pendingFrames') \in Nat
      BY <2>9, Numbers, CostsAre DEF CostTypes, QueueTypes
    <3> DEFINE k == Len(pendingFrames') - Len(pendingFrames)
               c == CostOf(pendingFrames') - CostOf(pendingFrames)
    <3>2. /\ k \in Int /\ c \in Int /\ pendingCost' - (pendingCost - n) = c
          /\ pendingItems' - pendingItems = k
      BY <2>9, <3>1
    <3>3. /\ t.pendingWriteCost - s.pendingWriteCost = 0 - n
          /\ t.pendingWriteItems - s.pendingWriteItems = 0
      BY <2>4, <2>7
    <3> DEFINE dc == t.pendingWriteCost - s.pendingWriteCost
               di == t.pendingWriteItems - s.pendingWriteItems
    <3>4. /\ dc = 0 - n /\ di = 0 /\ n \in Int /\ pendingCost \in Int /\ pendingItems \in Int
          /\ pendingCost' \in Int /\ pendingItems' \in Int
      BY <2>4, <3>1, <3>3
    <3> DEFINE cost == pendingCost
               newCost == pendingCost'
               items == pendingItems
               newItems == pendingItems'
    <3>5. /\ k \in Int /\ c \in Int /\ dc = 0 - n /\ di = 0 /\ n \in Int
          /\ newCost \in Int /\ cost \in Int /\ newCost - (cost - n) = c
          /\ newItems - items = k
      BY ONLY <3>2, <3>4, Zenon
    <3> HIDE DEF k, c, dc, di, n, cost, newCost, items, newItems
    <3>6. newCost - cost = c + dc
      BY ONLY <3>5
    <3>7. newItems - items = k + di
      BY ONLY <3>5
    <3>8. QED
      BY <3>6, <3>7 DEF k, c, dc, di, cost, newCost, items, newItems
  <2>11. CASE backends' = [backends EXCEPT ![b].w = "write", ![b].left = @ - n, ![b].wrote = 0]
    <3>1. backends' = [backends EXCEPT ![b] = drained]
      BY <2>3, <2>11
    <3>2. /\ drained \in BackendState /\ drained.id = id /\ drained.phase = "running"
          /\ drained.w = "write" /\ drained.left = backends[b].left - n
      <4> DEFINE v == backends[b].left - n
                 c == backends[b]
                 d == [c EXCEPT !.w = "write", !.left = v, !.wrote = 0]
      <4>1. c \in BackendState /\ c.phase = "running" /\ v \in Int
        BY <1>1, <2>3, <2>4 DEF BackendState
      <4>2. drained = d
        OBVIOUS
      <4> HIDE DEF v, c
      <4>3. d \in BackendState
        BY ONLY <4>1 DEF BackendState
      <4>4. d.id = c.id /\ d.phase = "running" /\ d.w = "write" /\ d.left = v
        BY ONLY <4>1 DEF BackendState
      <4> HIDE DEF d, drained
      <4>5. QED
        BY <4>2, <4>3, <4>4 DEF c, v
    <3> HIDE DEF drained
    <3>3. WritesKnown(s, backends[b]) => WritesKnown(t, drained)
      <4>1. InHand(backends[b]) /\ InHand(drained)
        BY <1>1, <3>2 DEF InHand
      <4> DEFINE m == Len(s.writes)
                 v == SumOf(s.writes)
                 left == backends[b].left
      <4>2. m \in Int /\ v \in Int /\ left \in Int
        <5>1. s.writes \in Seq(Nat)
          BY <2>3 DEF StreamState
        <5>2. QED
          BY <2>3, <5>1, SumIs DEF BackendState
      <4>3. ASSUME s.pendingWriteItems = m + 1, s.pendingWriteBytes = v + left
            PROVE  t.pendingWriteItems = m + 1 /\ t.pendingWriteBytes = v + (left - n)
        <5> HIDE DEF m, v, left
        <5>1. QED
          BY <2>4, <2>7, <4>2, <4>3
      <4>4. QED
        BY <2>7, <3>2, <4>1, <4>3 DEF WritesKnown
    <3>4. BackendStepTo(b, t, drained)
      BY <1>1, <2>1, <2>5, <2>7, <2>9, <2>10, <3>1, <3>2, <3>3 DEF BackendStepTo
    <3>5. QED
      BY <3>4, BackendStepInv
  <2>12. CASE WriterExits(b)
    <3>1. backends' = [backends EXCEPT ![b] = exited]
      BY <2>12 DEF WriterExits
    <3>2. exited \in BackendState /\ exited.id = id /\ exited.phase = "running" /\ exited.w = "done"
      <4>1. ClosedBackend(b) \in BackendState /\ exited \in BackendState
            /\ ClosedBackend(b).id = id /\ ClosedBackend(b).phase = "running"
        BY <1>1, ClosedBackendType DEF Inv
      <4>2. QED
        BY <4>1 DEF BackendState
    <3> HIDE DEF exited
    <3>3. BackendStepTo(b, t, exited)
      BY <1>1, <2>1, <2>5, <2>7, <2>9, <2>10, <3>1, <3>2 DEF BackendStepTo
    <3>4. QED
      BY <3>3, BackendStepInv
  <2>13. QED
    BY <2>2, <2>11, <2>12
<1>3. CASE bad
  <2>1. WriterExits(b) /\ UNCHANGED <<streams, queueVars, costVars>>
    BY <1>3 DEF BackendDrained, Backend
  <2>2. Quiet(b)
    BY <1>1, <2>1, WriterExitsQuiet DEF Inv
  <2>3. QED
    BY <2>2, QuietInv
<1>4. QED
  BY <1>2, <1>3

\* backendData: bytes of the backend are queued for the client, or the reader returns.
LEMMA DataDeliveredInv ==
    ASSUME Inv, NEW b \in Backends, NEW answer \in Answers, BackendData(b, answer)
    PROVE  Inv'
<1> DEFINE id == backends[b].id
           s == StreamOf(b)
           n == backends[b].got
           f == [type |-> "data", id |-> id, n |-> n]
           bad == closed \/ ~Live(id) \/ n > s.sendCredit
<1>1. /\ ~Locked /\ backends[b].phase = "running" /\ backends[b].r = "deliver"
      /\ UNCHANGED <<closeVars, tombVars, pollVars, upVars>>
  BY DEF BackendData, Reading, Backend
<1>2. CASE ~bad
  <2> DEFINE left == s.sendCredit - n
             t == [s EXCEPT !.sendCredit = left]
             asking == [backends[b] EXCEPT !.r = "ask", !.got = 0]
             exited == [ClosedBackend(b) EXCEPT !.r = "done", !.allowance = 0, !.got = 0]
  <2>1. /\ streams' = [streams EXCEPT ![id].sendCredit = @ - n]
        /\ ~closed /\ Live(id) /\ ~(n > s.sendCredit)
    BY <1>2 DEF BackendData, Backend
  <2>2. \/ /\ QueueFrame(f, pendingCost, pendingItems)
           /\ backends' = [backends EXCEPT ![b].r = "ask", ![b].got = 0]
        \/ /\ RefuseFrame(pendingCost, pendingItems)
           /\ ReaderExits(b)
    BY <1>2 DEF BackendData, Backend
  <2>3. /\ id \in StreamIDs /\ backends[b] \in BackendState /\ s = streams[id]
        /\ s \in StreamState /\ s.backend # 0 /\ Balanced(s)
    BY <1>1, <2>1, RunningStream
  <2>4. /\ s.pendingWriteItems \in Int /\ s.pendingWriteCost \in Int
        /\ n \in Nat /\ left \in Nat /\ pendingCost \in Nat /\ pendingItems \in Nat
    <3>1. n \in Nat /\ s.sendCredit \in Nat
      BY <2>3 DEF BackendState, StreamState
    <3>2. pendingCost \in Nat /\ pendingItems \in Nat
      BY Numbers
    <3>3. s.pendingWriteItems \in Int /\ s.pendingWriteCost \in Int
      BY <2>3 DEF StreamState
    <3>4. QED
      BY <2>1, <3>1, <3>2, <3>3
  <2>5. streams' = [streams EXCEPT ![id] = t]
    <3>1. streams \in [StreamIDs -> StreamState]
      BY DEF Inv, Typed, StreamTypes
    <3>2. QED
      BY <2>1, <2>3, <3>1
  <2> HIDE DEF left
  <2>6. /\ SameStream(s, t) /\ Balanced(t)
        /\ t.pendingWriteCost = s.pendingWriteCost
        /\ t.pendingWriteItems = s.pendingWriteItems
        /\ \A c : WritesKnown(s, c) => WritesKnown(t, c)
    BY <2>3, <2>4, CreditChange
  <2> HIDE DEF t
  <2>7. f \in QueuedFrame /\ f.id = id /\ f.type # "close"
    BY <2>3, <2>4 DEF QueuedFrame
  <2>8. /\ QueueTypes' /\ CostTypes' /\ Ordered' /\ QueuesOnly(id)
        /\ pendingCost' - pendingCost = CostOf(pendingFrames') - CostOf(pendingFrames)
        /\ pendingItems' - pendingItems = Len(pendingFrames') - Len(pendingFrames)
    <3>1. \A y \in StreamIDs : Live(y)' => Live(y)
      BY <2>3, <2>5, <2>6, NoneEnters DEF Inv
    <3>2. UNCHANGED <<unacked, opens, downActive>>
      BY <1>1 DEF pollVars, upVars
    <3>3. /\ pendingCost \in Nat /\ pendingItems \in Nat /\ Live(f.id)
          /\ QueueFrame(f, pendingCost, pendingItems) \/ RefuseFrame(pendingCost, pendingItems)
      BY <2>1, <2>2, <2>4
    <3> HIDE DEF f
    <3>4. /\ QueueTypes' /\ CostTypes' /\ Ordered' /\ QueuesOnly(f.id)
          /\ pendingCost' - pendingCost = CostOf(pendingFrames') - CostOf(pendingFrames)
          /\ pendingItems' - pendingItems = Len(pendingFrames') - Len(pendingFrames)
      BY <2>7, <3>1, <3>2, <3>3, QueueOrRefuse
    <3>5. QED
      BY <2>7, <3>4
  <2>9. /\ pendingCost' - pendingCost
             = (CostOf(pendingFrames') - CostOf(pendingFrames))
               + (t.pendingWriteCost - s.pendingWriteCost)
        /\ pendingItems' - pendingItems
             = (Len(pendingFrames') - Len(pendingFrames))
               + (t.pendingWriteItems - s.pendingWriteItems)
    <3>1. /\ CostOf(pendingFrames) \in Nat /\ Len(pendingFrames) \in Nat
          /\ CostOf(pendingFrames') \in Nat /\ Len(pendingFrames') \in Nat
      BY <2>8, Numbers, CostsAre DEF QueueTypes
    <3>2. /\ t.pendingWriteCost - s.pendingWriteCost = 0
          /\ t.pendingWriteItems - s.pendingWriteItems = 0
      BY <2>4, <2>6
    <3> DEFINE k == Len(pendingFrames') - Len(pendingFrames)
               c == CostOf(pendingFrames') - CostOf(pendingFrames)
    <3>3. k \in Int /\ c \in Int /\ pendingCost' - pendingCost = c /\ pendingItems' - pendingItems = k
      BY <2>8, <3>1
    <3> HIDE DEF k, c
    <3>4. c + 0 = c /\ k + 0 = k
      BY <3>3
    <3>5. QED
      BY <3>2, <3>3, <3>4 DEF k, c
  <2>10. CASE backends' = [backends EXCEPT ![b].r = "ask", ![b].got = 0]
    <3>1. backends' = [backends EXCEPT ![b] = asking]
      BY <2>3, <2>10
    <3>2. /\ asking \in BackendState /\ asking.id = id /\ asking.phase = "running"
          /\ asking.w = backends[b].w /\ asking.left = backends[b].left
      BY <1>1, <2>3 DEF BackendState
    <3> HIDE DEF asking
    <3>3. WritesKnown(s, backends[b]) => WritesKnown(t, asking)
      BY <1>1, <2>6, <3>2 DEF WritesKnown, InHand
    <3>4. BackendStepTo(b, t, asking)
      BY <1>1, <2>1, <2>5, <2>6, <2>8, <2>9, <3>1, <3>2, <3>3 DEF BackendStepTo
    <3>5. QED
      BY <3>4, BackendStepInv
  <2>11. CASE ReaderExits(b)
    <3>1. backends' = [backends EXCEPT ![b] = exited]
      BY <2>11 DEF ReaderExits
    <3>2. /\ exited \in BackendState /\ exited.id = id /\ exited.phase = "running"
          /\ exited.w = backends[b].w /\ exited.left = backends[b].left
      <4>1. /\ ClosedBackend(b) \in BackendState /\ exited \in BackendState
            /\ ClosedBackend(b).id = id /\ ClosedBackend(b).phase = "running"
            /\ ClosedBackend(b).w = backends[b].w /\ ClosedBackend(b).left = backends[b].left
        BY <1>1, ClosedBackendType DEF Inv
      <4>2. QED
        BY <4>1 DEF BackendState
    <3> HIDE DEF exited
    <3>3. WritesKnown(s, backends[b]) => WritesKnown(t, exited)
      BY <1>1, <2>6, <3>2 DEF WritesKnown, InHand
    <3>4. BackendStepTo(b, t, exited)
      BY <1>1, <2>1, <2>5, <2>6, <2>8, <2>9, <3>1, <3>2, <3>3 DEF BackendStepTo
    <3>5. QED
      BY <3>4, BackendStepInv
  <2>12. QED
    BY <2>2, <2>10, <2>11
<1>3. CASE bad
  <2>1. ReaderExits(b) /\ UNCHANGED <<streams, queueVars, costVars>>
    BY <1>3 DEF BackendData, Backend
  <2>2. Quiet(b)
    BY <1>1, <2>1, ReaderExitsQuiet DEF Inv
  <2>3. QED
    BY <2>2, QuietInv
<1>4. QED
  BY <1>2, <1>3

--------------------------------------------------------------------------------
(* A stream ends.                                                          *)

\* Stream x is forgotten, all but its tombstone, and its backend becomes new.
Forgets(x, new) ==
    /\ Live(x) /\ ~closed
    /\ streams' = [streams EXCEPT ![x] = NoStream]
    /\ RememberClosed(x)
    /\ new \in BackendState /\ new.id = x /\ new.phase # "unused"
    /\ new.phase \in {"dialing", "dialed"} => new.w = "next"
    /\ backends' = [backends EXCEPT ![streams[x].backend] = new]
    /\ UNCHANGED <<closeVars, pollVars, lastUpSequence, lastUpDigest, opens>>

\* Who is left.
LEMMA Forgotten ==
    ASSUME Inv, NEW x \in StreamIDs, NEW new, Forgets(x, new)
    PROVE  /\ StreamTypes' /\ BackendTypes' /\ Linked' /\ Ringed' /\ TombTypes'
           /\ closedStreams' \subseteq closedStreams \cup {x}
           /\ streams'[x] = NoStream
           /\ \A id \in StreamIDs \ {x} : streams'[id] = streams[id]
           /\ \A id \in StreamIDs : Live(id)' => Live(id) /\ id # x
           /\ \A b \in Backends : backends'[b].id = backends[b].id
           /\ Ledgers'
<1> USE DEF Forgets
<1> DEFINE b == streams[x].backend
<1>1. streams \in [StreamIDs -> StreamState] /\ backends \in [Backends -> BackendState]
  BY DEF Inv, Typed, StreamTypes, BackendTypes
<1>2. b \in Backends /\ backends[b].id = x /\ b # 0
  BY LiveStream
<1>3. NoStream \in StreamState
  BY Limits DEF NoStream, StreamState
<1>4. /\ StreamTypes' /\ BackendTypes' /\ streams'[x] = NoStream
      /\ \A id \in StreamIDs \ {x} : streams'[id] = streams[id]
      /\ backends'[b] = new /\ \A c \in Backends \ {b} : backends'[c] = backends[c]
  <2>1. StreamTypes' /\ streams'[x] = NoStream
        /\ \A id \in StreamIDs \ {x} : streams'[id] = streams[id]
    BY <1>1, <1>3 DEF StreamTypes
  <2>2. BackendTypes' /\ backends'[b] = new /\ \A c \in Backends \ {b} : backends'[c] = backends[c]
    BY <1>1, <1>2 DEF BackendTypes
  <2>3. QED
    BY <2>1, <2>2
<1>5. \A id \in StreamIDs : Live(id)' => Live(id) /\ id # x
  BY <1>4 DEF Live, NoStream
<1>6. \A c \in Backends : backends'[c].id = backends[c].id
  BY <1>2, <1>4
<1>7. ASSUME NEW id \in StreamIDs, Live(id)'
      PROVE  /\ streams'[id] = streams[id] /\ Live(id) /\ streams[id].backend \in Backends
             /\ backends'[streams[id].backend] = backends[streams[id].backend]
  <2>1. Live(id) /\ id # x
    BY <1>5, <1>7
  <2>2. streams[id].backend \in Backends /\ backends[streams[id].backend].id = id
    BY <2>1, LiveStream
  <2>3. streams[id].backend # b
    BY <1>2, <2>1, <2>2
  <2>4. QED
    BY <1>4, <2>1, <2>2, <2>3
<1>8. Linked'
  <2>1. \A id \in StreamIDs : ~Live(id)' => streams'[id] = NoStream
    BY <1>4 DEF Inv, Linked, Live
  <2>2. \A id \in StreamIDs : Live(id)' =>
          /\ backends'[streams'[id].backend].id = id
          /\ backends'[streams'[id].backend].phase \in Alive
    BY <1>7 DEF Inv, Linked
  <2>3. \A c \in Backends :
          /\ backends'[c].phase # "unused" => backends'[c].id \in StreamIDs
          /\ backends'[c].phase \in {"dialing", "dialed"} => backends'[c].w = "next"
    BY <1>4 DEF Inv, Linked
  <2>4. QED
    BY <2>1, <2>2, <2>3 DEF Linked
<1>9. /\ Ringed' /\ TombTypes' /\ closedStreams' \subseteq closedStreams \cup {x}
  BY <1>5, RingStep DEF Inv
<1>10. Ledgers'
  <2>1. UNCHANGED opens
    OBVIOUS
  <2>2. QED
    BY <1>7, <2>1 DEF Inv, Ledgers
<1>11. QED
  BY <1>4, <1>5, <1>6, <1>8, <1>9, <1>10

\* A step that forgets a stream and gives back what it is charged.
LEMMA ForgetsInv ==
    ASSUME Inv, NEW x \in StreamIDs, NEW new, Forgets(x, new),
           QueueTypes', CostTypes', UpTypes', Uplinked', Ordered', QueuesOnly(x),
           pendingCost' - pendingCost
             = (CostOf(pendingFrames') - CostOf(pendingFrames)) + (Held'.cost - Held.cost)
               + (0 - streams[x].pendingWriteCost),
           pendingItems' - pendingItems
             = (Len(pendingFrames') - Len(pendingFrames)) + (Held'.items - Held.items)
               + (0 - streams[x].pendingWriteItems)
    PROVE  Inv'
<1>1. /\ StreamTypes' /\ BackendTypes' /\ Linked' /\ Ringed' /\ TombTypes'
      /\ closedStreams' \subseteq closedStreams \cup {x}
      /\ streams'[x] = NoStream
      /\ \A id \in StreamIDs \ {x} : streams'[id] = streams[id]
      /\ \A id \in StreamIDs : Live(id)' => Live(id) /\ id # x
      /\ \A b \in Backends : backends'[b].id = backends[b].id
      /\ Ledgers'
  BY Forgotten
<1>2. /\ UNCHANGED <<closed, closing, unacked, unackedBase, downCursor, downActive, opens>>
      /\ UNCHANGED <<lastUpSequence, lastUpDigest>> /\ Live(x) /\ ~closed
  BY DEF Forgets, closeVars, pollVars
<1>3. Typed'
  BY <1>1, <1>2, SameTypes DEF Inv, Typed, pollVars
<1>4. Opened'
  <2>1. ASSUME NEW id \in StreamIDs, Unknown(id)
        PROVE  Unknown(id)'
    <3>1. id # x
      BY <1>2, <2>1 DEF Unknown
    <3>2. QED
      BY <1>1, <1>2, <2>1, <3>1 DEF Unknown, QueuesOnly
  <2>2. QED
    BY <1>1, <1>2, <2>1, SameOpened DEF Inv
<1>5. Budget'
  <2>1. streams'[x].pendingWriteCost = 0 /\ streams'[x].pendingWriteItems = 0
    BY <1>1 DEF NoStream
  <2>2. QED
    BY <1>1, <1>2, <1>3, <2>1, StreamBudget
<1>6. QED
  BY <1>1, <1>3, <1>4, <1>5 DEF Inv

\* CLOSE for a live stream.
LEMMA CloseFrameInv ==
    ASSUME Inv, UpClose
    PROVE  Inv'
<1> DEFINE x == Current.id
           s == streams[x]
           new == ClosedBackend(s.backend)
<1>1. /\ up.pc = "apply" /\ up.i <= Len(up.frames) /\ x # 0 /\ Current.type = "close"
      /\ Live(x) /\ Applied
      /\ pendingCost' = pendingCost - s.pendingWriteCost
      /\ pendingItems' = pendingItems - s.pendingWriteItems
      /\ s.pendingWriteCost \in 0 .. pendingCost /\ s.pendingWriteItems \in 0 .. pendingItems
      /\ backends' = [backends EXCEPT ![s.backend] = new]
      /\ streams' = [streams EXCEPT ![x] = NoStream]
      /\ RememberClosed(x)
  BY DEF UpClose, Applying, WritesReleasable, Releasable
<1>2. /\ UNCHANGED <<closeVars, pollVars, lastUpSequence, lastUpDigest, opens>>
      /\ UNCHANGED <<closed, pendingFrames, pendingWindows, unacked, downActive>>
  BY DEF UpClose, closeVars, queueVars, pollVars
<1>3. /\ Current \in ClientFrame
      /\ Follows(Current, up.live[up.i], up.live[up.i + 1])
      /\ \A id \in StreamIDs : Live(id) => streams[id].receiveWindow = up.live[up.i][id]
      /\ ~closed
  BY <1>1, AppliedFrame, Place
<1>4. x \in StreamIDs
  BY <1>1, <1>3 DEF ClientFrame
<1>5. /\ s \in StreamState /\ s.backend \in Backends /\ backends[s.backend].id = x
      /\ backends[s.backend].phase \in Alive
      /\ backends[s.backend].phase \in {"dialing", "dialed"} => backends[s.backend].w = "next"
  BY <1>1, <1>4, LiveStream DEF Inv, Linked
<1>6. /\ new \in BackendState /\ new.id = x /\ new.phase # "unused"
      /\ new.phase \in {"dialing", "dialed"} => new.w = "next"
  BY <1>5, ClosedBackendType DEF Inv, Alive
<1> HIDE DEF new
<1>7. Forgets(x, new)
  BY <1>1, <1>2, <1>3, <1>6 DEF Forgets
<1>8. /\ \A id \in StreamIDs \ {x} : streams'[id] = streams[id]
      /\ \A id \in StreamIDs : Live(id)' => Live(id) /\ id # x
      /\ closedStreams' \subseteq closedStreams \cup {x}
  BY <1>4, <1>7, Forgotten
<1>9. /\ UpTypes' /\ up'.pc = "apply" /\ up'.i = up.i + 1
      /\ up'.frames = up.frames /\ up'.live = up.live
      /\ Held'.cost = Held.cost /\ Held'.items = Held.items
  BY <1>1, AppliedUp
<1>10. Uplinked'
  <2>1. ASSUME NEW id \in StreamIDs, Live(id)'
        PROVE  streams'[id].receiveWindow = up.live[up.i + 1][id]
    <3>1. Live(id) /\ id # x
      BY <1>8, <2>1
    <3>2. streams'[id] = streams[id] /\ up.live[up.i + 1][id] = up.live[up.i][id]
      BY <1>3, <1>8, <3>1 DEF Follows
    <3>3. QED
      BY <1>3, <3>1, <3>2
  <2>2. QED
    BY <1>1, <1>2, <1>8, <1>9, <2>1, AppliedUplinked
<1>11. Ordered'
  BY <1>2, <1>8, SameOrdered DEF Inv
<1>12. QueuesOnly(x) /\ QueueTypes'
  BY <1>2, StillQueue, SameTypes DEF Inv, queueVars
<1>13. /\ pendingCost \in Nat /\ pendingItems \in Nat
       /\ CostOf(pendingFrames) \in Nat /\ Len(pendingFrames) \in Nat
       /\ Held.cost \in Int /\ Held.items \in Int
       /\ s.pendingWriteCost \in Int /\ s.pendingWriteItems \in Int
  BY <1>5, Numbers DEF StreamState
<1>14. /\ CostTypes' /\ pendingCost' - pendingCost = 0 - s.pendingWriteCost
       /\ pendingItems' - pendingItems = 0 - s.pendingWriteItems
  <2> DEFINE c == s.pendingWriteCost
             k == s.pendingWriteItems
             cost == pendingCost
             newCost == pendingCost'
             items == pendingItems
             newItems == pendingItems'
  <2>1. /\ newCost = cost - c /\ newItems = items - k
        /\ c \in 0 .. cost /\ k \in 0 .. items /\ cost \in Nat /\ items \in Nat
    BY <1>1, <1>13, Zenon
  <2> HIDE DEF c, k, cost, newCost, items, newItems
  <2>2. newCost \in Nat /\ newCost - cost = 0 - c
    BY ONLY <2>1
  <2>3. newItems \in Nat /\ newItems - items = 0 - k
    BY ONLY <2>1
  <2>4. QED
    BY <2>2, <2>3 DEF CostTypes, c, k, cost, newCost, items, newItems
<1>15. /\ pendingCost' - pendingCost
             = (CostOf(pendingFrames') - CostOf(pendingFrames)) + (Held'.cost - Held.cost)
               + (0 - s.pendingWriteCost)
       /\ pendingItems' - pendingItems
             = (Len(pendingFrames') - Len(pendingFrames)) + (Held'.items - Held.items)
               + (0 - s.pendingWriteItems)
  <2>1. /\ CostOf(pendingFrames') - CostOf(pendingFrames) = 0
        /\ Len(pendingFrames') - Len(pendingFrames) = 0
        /\ Held'.cost - Held.cost = 0 /\ Held'.items - Held.items = 0
        /\ pendingCost' - pendingCost = 0 - s.pendingWriteCost
        /\ pendingItems' - pendingItems = 0 - s.pendingWriteItems
    BY ONLY <1>2, <1>9, <1>13, <1>14
  <2>2. QED
    BY <1>13, <2>1
<1>16. QED
  BY <1>4, <1>7, <1>9, <1>10, <1>11, <1>12, <1>14, <1>15, ForgetsInv

\* The CLOSE of a live stream joins the downlink as the stream is forgotten.
LEMMA CloseQueued ==
    ASSUME Inv, NEW f \in QueuedFrame, f.type = "close", Live(f.id),
           NEW atCost \in Nat, NEW atItems \in Nat, QueueFrame(f, atCost, atItems),
           UNCHANGED <<unacked, opens, downActive>>,
           \A id \in StreamIDs : Live(id)' => Live(id) /\ id # f.id
    PROVE  /\ QueueTypes' /\ CostTypes' /\ Ordered' /\ QueuesOnly(f.id)
           /\ pendingCost' - atCost = CostOf(pendingFrames') - CostOf(pendingFrames)
           /\ pendingItems' - atItems = Len(pendingFrames') - Len(pendingFrames)
<1>1. QueueTypes /\ PollTypes /\ WindowsIndexed /\ ClosesLast /\ NothingAfterClose /\ Parked
  BY DEF Inv, Typed, Ordered
<1>2. /\ QueueTypes' /\ WindowsIndexed' /\ Grown(f) /\ CostTypes'
      /\ pendingCost' - atCost = CostOf(pendingFrames') - CostOf(pendingFrames)
      /\ pendingItems' - atItems = Len(pendingFrames') - Len(pendingFrames)
  BY <1>1, QueueGrows
<1>3. Silent(f.id) \/ opens'[f.id] = 2
  <2>1. f.id \in StreamIDs
    BY DEF QueuedFrame
  <2>2. opens[f.id] \in 1 .. 2
    BY <2>1, LiveStream
  <2>3. opens[f.id] = 1 \/ opens[f.id] = 2
    BY <2>2
  <2>4. QED
    BY <1>1, <2>1, <2>3 DEF ClosesLast, Silent
<1>4. NothingAfterClose' /\ ClosesLast' /\ QueuesOnly(f.id)
  <2>1. \A id \in StreamIDs : Live(id)' =>
          Live(id) /\ opens'[id] = opens[id] /\ (f.type = "close" => id # f.id)
    OBVIOUS
  <2>2. \A id \in StreamIDs : opens[id] = 2 => opens'[id] = 2
    OBVIOUS
  <2>3. QED
    BY <1>1, <1>2, <1>3, <2>1, <2>2, GrownOrder
<1>5. Parked'
  BY <1>1 DEF Parked
<1>6. QED
  BY <1>2, <1>4, <1>5 DEF Ordered

\* The stream of a backend that ends.
LEMMA EndingStream ==
    ASSUME Inv, NEW b \in Backends, BackendEnding(b), StreamOf(b).backend = b
    PROVE  /\ backends[b].id \in StreamIDs /\ backends[b] \in BackendState
           /\ backends[b].phase = "running" /\ ~Locked
           /\ StreamOf(b) = streams[backends[b].id] /\ Live(backends[b].id)
           /\ StreamOf(b) \in StreamState
<1>1. backends[b].phase = "running" /\ ~Locked
  BY DEF BackendEnding, Writing, Backend
<1>2. backends[b].id \in StreamIDs /\ backends[b] \in BackendState
  BY <1>1 DEF Inv, Typed, BackendTypes, Linked
<1>3. StreamOf(b) = streams[backends[b].id] /\ Live(backends[b].id)
  BY Limits DEF StreamOf, Backend, Live
<1>4. QED
  BY <1>1, <1>2, <1>3 DEF Inv, Typed, StreamTypes

\* backendClosed: the stream of the backend is forgotten and the client told.
LEMMA BackendClosedInv ==
    ASSUME Inv, NEW b \in Backends, NEW answer \in Answers, BackendClosed(b, answer)
    PROVE  Inv'
<1> DEFINE x == backends[b].id
           s == StreamOf(b)
           f == [type |-> "close", id |-> x, n |-> 0]
           new == [backends[b] EXCEPT !.phase = "finished", !.cancelled = TRUE]
           cost == pendingCost - s.pendingWriteCost
           items == pendingItems - s.pendingWriteItems
<1>1. /\ BackendEnding(b) /\ ~closed /\ s.backend = b
      /\ s.pendingWriteCost \in 0 .. pendingCost /\ s.pendingWriteItems \in 0 .. pendingItems
      /\ QueueFrame(f, cost, items)
      /\ streams' = [streams EXCEPT ![x] = NoStream]
      /\ RememberClosed(x)
      /\ backends' = [backends EXCEPT ![b].phase = "finished", ![b].cancelled = TRUE]
      /\ UNCHANGED <<closeVars, pollVars, upVars>>
  BY DEF BackendClosed, Backend, WritesReleasable, Releasable
<1>2. /\ x \in StreamIDs /\ backends[b] \in BackendState
      /\ backends[b].phase = "running" /\ ~Locked
      /\ s = streams[x] /\ Live(x) /\ s \in StreamState
  BY <1>1, EndingStream
<1>3. /\ pendingCost \in Nat /\ pendingItems \in Nat
      /\ CostOf(pendingFrames) \in Nat /\ Len(pendingFrames) \in Nat
      /\ s.pendingWriteCost \in Int /\ s.pendingWriteItems \in Int
      /\ cost \in Nat /\ items \in Nat
  <2>1. /\ pendingCost \in Nat /\ pendingItems \in Nat
        /\ CostOf(pendingFrames) \in Nat /\ Len(pendingFrames) \in Nat
        /\ s.pendingWriteCost \in Int /\ s.pendingWriteItems \in Int
    BY <1>2, Numbers DEF StreamState
  <2>2. QED
    BY <1>1, <2>1
<1>4. /\ new \in BackendState /\ new.id = x /\ new.phase = "finished"
      /\ backends' = [backends EXCEPT ![b] = new]
  BY <1>1, <1>2 DEF BackendState
<1>5. /\ Uplinked' /\ UpTypes' /\ UNCHANGED <<lastUpSequence, lastUpDigest, opens>>
      /\ Held'.cost = 0 /\ Held'.items = 0 /\ Held.cost = 0 /\ Held.items = 0
  BY <1>1, <1>2, UnlockedStep DEF Inv
<1> HIDE DEF new
<1>6. Forgets(x, new)
  BY <1>1, <1>2, <1>4, <1>5 DEF Forgets
<1>7. \A id \in StreamIDs : Live(id)' => Live(id) /\ id # x
  BY <1>2, <1>6, Forgotten
<1>8. f \in QueuedFrame /\ f.type = "close" /\ f.id = x
  BY <1>2 DEF QueuedFrame
<1> HIDE DEF f, cost, items
<1>9. /\ QueueTypes' /\ CostTypes' /\ Ordered' /\ QueuesOnly(x)
      /\ pendingCost' - cost = CostOf(pendingFrames') - CostOf(pendingFrames)
      /\ pendingItems' - items = Len(pendingFrames') - Len(pendingFrames)
  <2>1. UNCHANGED <<unacked, opens, downActive>>
    BY <1>1 DEF pollVars, upVars
  <2>2. \A id \in StreamIDs : Live(id)' => Live(id) /\ id # f.id
    BY <1>7, <1>8
  <2>3. Live(f.id)
    BY <1>2, <1>8
  <2>4. QED
    BY <1>1, <1>3, <1>8, <2>1, <2>2, <2>3, CloseQueued
<1>10. /\ pendingCost' - pendingCost
             = (CostOf(pendingFrames') - CostOf(pendingFrames)) + (Held'.cost - Held.cost)
               + (0 - s.pendingWriteCost)
       /\ pendingItems' - pendingItems
             = (Len(pendingFrames') - Len(pendingFrames)) + (Held'.items - Held.items)
               + (0 - s.pendingWriteItems)
  <2> DEFINE c == CostOf(pendingFrames') - CostOf(pendingFrames)
             k == Len(pendingFrames') - Len(pendingFrames)
             h == Held'.cost - Held.cost
             g == Held'.items - Held.items
  <2>1. /\ pendingCost' \in Nat /\ pendingItems' \in Nat
        /\ CostOf(pendingFrames') \in Nat /\ Len(pendingFrames') \in Nat
    BY <1>9, CostsAre DEF CostTypes, QueueTypes
  <2>2. /\ c \in Int /\ k \in Int /\ h = 0 /\ g = 0
        /\ pendingCost' - cost = c /\ pendingItems' - items = k
    BY <1>3, <1>5, <1>9, <2>1
  <2>3. /\ cost = pendingCost - s.pendingWriteCost
        /\ items = pendingItems - s.pendingWriteItems
    BY DEF cost, items
  <2> DEFINE wc == s.pendingWriteCost
             wi == s.pendingWriteItems
             old == pendingCost
             newCost == pendingCost'
             was == pendingItems
             newItems == pendingItems'
  <2>4. wc \in Int /\ wi \in Int /\ old \in Int /\ was \in Int
    BY <1>3 DEF Inv
  <2>5. newCost \in Int /\ newItems \in Int
    BY <2>1
  <2>6. newCost - (old - wc) = c /\ newItems - (was - wi) = k
    BY <2>2, <2>3, Zenon
  <2> HIDE DEF c, k, h, g, s, wc, wi, old, newCost, was, newItems
  <2>7. newCost - old = c + h + (0 - wc)
    BY ONLY <2>2, <2>4, <2>5, <2>6
  <2>8. newItems - was = k + g + (0 - wi)
    BY ONLY <2>2, <2>4, <2>5, <2>6
  <2>9. QED
    BY <2>7, <2>8 DEF c, k, h, g, wc, wi, old, newCost, was, newItems
<1>11. QED
  BY <1>2, <1>5, <1>6, <1>9, <1>10, ForgetsInv

--------------------------------------------------------------------------------
(* ProcessUp: OPEN.                                                        *)

\* The id of an OPEN that is applied is free.
LEMMA FreshStream ==
    ASSUME Inv, Applying("open")
    PROVE  /\ Current.id \in StreamIDs /\ ~Live(Current.id) /\ Current.id \notin closedStreams
           /\ streams[Current.id] = NoStream
           /\ up.live[up.i + 1][Current.id] = InitialStreamWindow
           /\ \A id \in StreamIDs : Live(id) =>
                id # Current.id /\ streams[id].receiveWindow = up.live[up.i + 1][id]
           /\ up.pc = "apply" /\ up.i <= Len(up.frames) /\ ~closed
<1>1. up.pc = "apply" /\ up.i <= Len(up.frames) /\ Current.id # 0 /\ Current.type = "open"
  BY DEF Applying
<1>2. /\ Current \in ClientFrame /\ Current = up.frames[up.i]
      /\ Follows(Current, up.live[up.i], up.live[up.i + 1])
      /\ FreshOpen(up.i) /\ Current.id \notin closedStreams
      /\ \A id \in StreamIDs : Live(id) => streams[id].receiveWindow = up.live[up.i][id]
      /\ ~closed
  BY <1>1, AppliedFrame, Place
<1>3. Current.id \in StreamIDs
  BY <1>1, <1>2 DEF ClientFrame
<1>4. up.live[up.i][Current.id] = NoSnapshot
  BY <1>1, <1>2 DEF FreshOpen
<1>5. ~Live(Current.id)
  <2>1. ASSUME Live(Current.id)
        PROVE  FALSE
    <3>1. /\ streams[Current.id].receiveWindow = NoSnapshot
          /\ Balanced(streams[Current.id])
      BY <1>2, <1>3, <1>4, <2>1, LiveStream
    <3>2. QED
      BY <3>1 DEF Balanced, NoSnapshot
  <2>2. QED
    BY <2>1
<1>6. up.live[up.i + 1][Current.id] = InitialStreamWindow
  BY <1>1, <1>2 DEF Follows
<1>7. ASSUME NEW id \in StreamIDs, Live(id)
      PROVE  id # Current.id /\ streams[id].receiveWindow = up.live[up.i + 1][id]
  <2>1. id # Current.id
    BY <1>5, <1>7
  <2>2. up.live[up.i + 1][id] = up.live[up.i][id]
    BY <1>2, <2>1 DEF Follows
  <2>3. QED
    BY <1>2, <1>7, <2>1, <2>2
<1>8. streams[Current.id] = NoStream
  BY <1>3, <1>5 DEF Inv, Linked
<1>9. QED
  BY <1>1, <1>2, <1>3, <1>5, <1>6, <1>7, <1>8

\* How often an id has been opened.
LEMMA CountedOpen ==
    ASSUME Inv, NEW x \in StreamIDs, CountOpen(x)
    PROVE  /\ OpenTypes'
           /\ opens'[x] = 2 \/ (opens'[x] = 1 /\ opens[x] = 0 /\ Unknown(x))
           /\ \A id \in StreamIDs \ {x} : opens'[id] = opens[id]
           /\ \A id \in StreamIDs : opens[id] = 2 => opens'[id] = 2
<1>1. opens \in [StreamIDs -> 0 .. 2]
  BY DEF Inv, Typed, OpenTypes
<1> DEFINE n == IF opens[x] = 0 THEN 1 ELSE 2
<1>2. opens' = [opens EXCEPT ![x] = n]
  BY DEF CountOpen
<1>3. n \in 0 .. 2
  OBVIOUS
<1>4. /\ OpenTypes' /\ opens'[x] = n
      /\ \A id \in StreamIDs \ {x} : opens'[id] = opens[id]
  BY <1>1, <1>2, <1>3 DEF OpenTypes
<1>5. opens'[x] = 2 \/ (opens'[x] = 1 /\ opens[x] = 0)
  BY <1>4
<1>6. opens[x] = 0 => Unknown(x)
  BY DEF Inv, Opened
<1>7. \A id \in StreamIDs : opens[id] = 2 => opens'[id] = 2
  BY <1>4
<1>8. QED
  BY <1>4, <1>5, <1>6, <1>7

\* The backends keep their ids, except n, which may have got id x.
NewID(x, n) ==
    \A b \in Backends : backends'[b].id = backends[b].id \/ (b = n /\ backends'[b].id = x)

\* An OPEN of x makes only x known.
LEMMA OpenedStep ==
    ASSUME Inv, NEW x \in StreamIDs, NEW n, CountOpen(x), NewID(x, n), QueuesOnly(x),
           closedStreams' \subseteq closedStreams \cup {x}, UNCHANGED unacked,
           \A id \in StreamIDs \ {x} : Live(id)' => Live(id)
    PROVE  Opened'
<1>1. /\ opens'[x] = 2 \/ (opens'[x] = 1 /\ opens[x] = 0 /\ Unknown(x))
      /\ \A id \in StreamIDs \ {x} : opens'[id] = opens[id]
  BY CountedOpen
<1>2. ASSUME NEW id \in StreamIDs, opens'[id] = 0
      PROVE  Unknown(id)'
  <2>1. id # x /\ opens[id] = 0
    BY <1>1, <1>2
  <2>2. Unknown(id)
    BY <2>1 DEF Inv, Opened
  <2>3. \A b \in Backends : backends'[b].id # id
    BY <2>1, <2>2 DEF Unknown, NewID
  <2>4. /\ ~Live(id)' /\ id \notin closedStreams'
        /\ \A k \in DOMAIN pendingFrames' : pendingFrames'[k].id # id
        /\ \A k \in DOMAIN unacked' : unacked'[k].id # id
    BY <2>1, <2>2 DEF Unknown, QueuesOnly
  <2>5. QED
    BY <2>3, <2>4 DEF Unknown
<1>3. ASSUME NEW b \in Backends, NEW c \in Backends, backends'[b].id = backends'[c].id,
             backends'[b].id # 0, opens'[backends'[b].id] = 1
      PROVE  b = c
  <2>1. CASE backends'[b].id = x
    <3>1. Unknown(x)
      BY <1>1, <1>3, <2>1
    <3>2. b = n /\ c = n
      BY <1>3, <2>1, <3>1 DEF Unknown, NewID
    <3>3. QED
      BY <3>2
  <2>2. CASE backends'[b].id # x
    <3>1. backends[b].id = backends'[b].id /\ backends[c].id = backends'[c].id
      BY <1>3, <2>2 DEF NewID
    <3>2. backends[b].id \in StreamIDs
      BY <1>3, <3>1 DEF Inv, Typed, BackendTypes, BackendState
    <3>3. opens[backends[b].id] = 1
      BY <1>1, <1>3, <2>2, <3>1, <3>2
    <3>4. QED
      BY <1>3, <3>1, <3>3 DEF Inv, Opened
  <2>3. QED
    BY <2>1, <2>2
<1>4. QED
  BY <1>2, <1>3 DEF Opened

\* The downlink as it was, when a stream becomes live.
LEMMA SameDown ==
    ASSUME Ordered, QueueTypes, PollTypes,
           UNCHANGED <<pendingFrames, pendingWindows, unacked, downActive>>,
           \A id \in StreamIDs : opens[id] = 2 => opens'[id] = 2,
           \A id \in StreamIDs : Live(id)' /\ opens'[id] = 1 =>
             (Live(id) /\ opens[id] = 1) \/ Silent(id)
    PROVE  Ordered'
<1>1. ClosesLast'
  BY DEF Ordered, ClosesLast, Silent
<1>2. Parked' /\ WindowsIndexed'
  BY DEF Ordered, Parked, WindowsIndexed
<1>3. NothingAfterClose'
  <2> DEFINE down == unacked \o pendingFrames
  <2>1. \A k \in DOMAIN down : down[k].id \in StreamIDs
    <3>1. unacked \in Seq(QueuedFrame) /\ pendingFrames \in Seq(QueuedFrame)
      BY DEF QueueTypes, PollTypes
    <3>2. down \in Seq(QueuedFrame)
      BY <3>1
    <3> HIDE DEF down
    <3>3. \A k \in DOMAIN down : down[k] \in QueuedFrame
      BY <3>2, LenProperties, ElementOfSeq
    <3>4. QED
      BY <3>3 DEF QueuedFrame
  <2>2. \A j, k \in DOMAIN down :
          j < k /\ down[j].type = "close" /\ down[k].id = down[j].id => opens[down[j].id] = 2
    BY DEF Ordered, NothingAfterClose
  <2>3. (unacked \o pendingFrames)' = down
    OBVIOUS
  <2> HIDE DEF down
  <2>4. QED
    BY <2>1, <2>2, <2>3 DEF NothingAfterClose
<1>4. QED
  BY <1>1, <1>2, <1>3 DEF Ordered

\* The backend that takes an OPEN has not been used.
LEMMA NextIsUnused ==
    ASSUME Unused # {}
    PROVE  NextBackend \in Backends /\ backends[NextBackend].phase = "unused"
<1>1. Unused \subseteq Nat /\ Unused \subseteq Backends
  BY Limits DEF Unused
<1>2. \E b \in Unused : \A c \in Unused : b <= c
  BY <1>1, LeastElement
<1>3. NextBackend \in Unused
  BY <1>2 DEF NextBackend
<1>4. QED
  BY <1>3 DEF Unused

\* OPEN within the limits.
LEMMA OpenInv ==
    ASSUME Inv, UpOpen
    PROVE  Inv'
<1> DEFINE x == Current.id
           n == NextBackend
           t == NewStream(n)
           new == [UnusedBackend EXCEPT !.id = x, !.phase = "dialing"]
<1>1. /\ Applying("open") /\ Unused # {} /\ CountOpen(x) /\ Applied
      /\ streams' = [streams EXCEPT ![x] = t]
      /\ backends' = [backends EXCEPT ![n] = new]
      /\ UNCHANGED <<closeVars, tombVars, queueVars, costVars, pollVars,
                     lastUpSequence, lastUpDigest>>
  BY DEF UpOpen
<1>2. /\ x \in StreamIDs /\ ~Live(x) /\ x \notin closedStreams /\ streams[x] = NoStream
      /\ up.live[up.i + 1][x] = InitialStreamWindow
      /\ \A id \in StreamIDs : Live(id) =>
           id # x /\ streams[id].receiveWindow = up.live[up.i + 1][id]
      /\ up.pc = "apply" /\ up.i <= Len(up.frames) /\ ~closed
  BY <1>1, FreshStream
<1>3. /\ OpenTypes'
      /\ opens'[x] = 2 \/ (opens'[x] = 1 /\ opens[x] = 0 /\ Unknown(x))
      /\ \A id \in StreamIDs \ {x} : opens'[id] = opens[id]
      /\ \A id \in StreamIDs : opens[id] = 2 => opens'[id] = 2
  BY <1>1, <1>2, CountedOpen
<1>4. n \in Backends /\ backends[n].phase = "unused" /\ n # 0 /\ n \in 0 .. MaxBackends
  <2>1. n \in Backends /\ backends[n].phase = "unused"
    BY <1>1, NextIsUnused
  <2>2. QED
    BY <2>1, Limits DEF Backends
<1> HIDE DEF n
<1>5. /\ t \in StreamState /\ t.backend = n /\ t.receiveWindow = InitialStreamWindow
      /\ t.pendingWriteBytes = 0 /\ t.pendingWriteCost = 0 /\ t.pendingWriteItems = 0
      /\ t.writes = << >>
  <2> DEFINE none == NoStream
  <2>1. /\ none \in StreamState /\ none.pendingWriteBytes = 0
        /\ none.pendingWriteCost = 0 /\ none.pendingWriteItems = 0 /\ none.writes = << >>
    BY Limits DEF NoStream, StreamState
  <2> DEFINE named == [none EXCEPT !.backend = n]
             wide == [named EXCEPT !.receiveWindow = InitialStreamWindow]
  <2>2. t = [wide EXCEPT !.sendCredit = InitialStreamWindow]
    BY DEF NewStream
  <2>3. /\ InitialStreamWindow \in Nat /\ n \in 0 .. MaxBackends /\ none \in StreamState
        /\ InitialStreamWindow \in Int
    BY <1>4, <2>1, Limits
  <2> HIDE DEF none
  <2>4. named \in StreamState /\ named.backend = n
    BY ONLY <2>3 DEF StreamState
  <2>5. /\ named.pendingWriteBytes = none.pendingWriteBytes
        /\ named.pendingWriteCost = none.pendingWriteCost
        /\ named.pendingWriteItems = none.pendingWriteItems /\ named.writes = none.writes
    BY ONLY <2>3 DEF StreamState
  <2> HIDE DEF named
  <2>6. wide \in StreamState /\ wide.receiveWindow = InitialStreamWindow
    BY ONLY <2>3, <2>4 DEF StreamState
  <2>7. /\ wide.backend = named.backend
        /\ wide.pendingWriteBytes = named.pendingWriteBytes
        /\ wide.pendingWriteCost = named.pendingWriteCost
        /\ wide.pendingWriteItems = named.pendingWriteItems /\ wide.writes = named.writes
    BY ONLY <2>4 DEF StreamState
  <2> HIDE DEF wide, t
  <2>8. t \in StreamState
    BY ONLY <2>2, <2>3, <2>6 DEF StreamState
  <2>9. /\ t.backend = wide.backend /\ t.receiveWindow = wide.receiveWindow
        /\ t.pendingWriteBytes = wide.pendingWriteBytes
        /\ t.pendingWriteCost = wide.pendingWriteCost
        /\ t.pendingWriteItems = wide.pendingWriteItems /\ t.writes = wide.writes
    BY ONLY <2>2, <2>6 DEF StreamState
  <2>10. QED
    BY ONLY <2>1, <2>4, <2>5, <2>6, <2>7, <2>8, <2>9, Zenon
<1>6. /\ new \in BackendState /\ new.id = x /\ new.phase = "dialing" /\ new.w = "next"
  <2> DEFINE fresh == UnusedBackend
  <2>1. fresh \in BackendState /\ fresh.w = "next"
    BY DEF UnusedBackend, BackendState
  <2> HIDE DEF fresh
  <2>2. QED
    BY <1>2, <2>1 DEF BackendState, fresh
<1> HIDE DEF t, new
<1>7. /\ StreamTypes' /\ streams'[x] = t
      /\ \A id \in StreamIDs \ {x} : streams'[id] = streams[id]
  BY <1>1, <1>2, <1>5 DEF Inv, Typed, StreamTypes
<1>8. /\ BackendTypes' /\ backends'[n] = new
      /\ \A c \in Backends \ {n} : backends'[c] = backends[c]
  BY <1>1, <1>4, <1>6 DEF Inv, Typed, BackendTypes
<1>9. \A id \in StreamIDs : Live(id)' <=> (Live(id) \/ id = x)
  BY <1>4, <1>5, <1>7 DEF Live
<1>10. ASSUME NEW id \in StreamIDs, Live(id)
       PROVE  /\ id # x /\ streams'[id] = streams[id] /\ streams[id].backend \in Backends
              /\ backends'[streams[id].backend] = backends[streams[id].backend]
  <2>1. id # x /\ streams'[id] = streams[id]
    BY <1>2, <1>7, <1>10
  <2>2. streams[id].backend \in Backends /\ backends[streams[id].backend].phase \in Alive
    BY <1>10, LiveStream DEF Inv, Linked
  <2>3. streams[id].backend # n
    BY <1>4, <2>2 DEF Alive
  <2>4. QED
    BY <1>8, <2>1, <2>2, <2>3
<1>11. Linked'
  <2>1. \A id \in StreamIDs : ~Live(id)' => streams'[id] = NoStream
    BY <1>7, <1>9 DEF Inv, Linked
  <2>2. ASSUME NEW id \in StreamIDs, Live(id)'
        PROVE  /\ backends'[streams'[id].backend].id = id
               /\ backends'[streams'[id].backend].phase \in Alive
    <3>1. CASE id = x
      BY <1>5, <1>6, <1>7, <1>8, <3>1 DEF Alive
    <3>2. CASE id # x
      <4>1. Live(id)
        BY <1>9, <2>2, <3>2
      <4>2. QED
        BY <1>10, <4>1 DEF Inv, Linked
    <3>3. QED
      BY <3>1, <3>2
  <2>3. \A c \in Backends :
          /\ backends'[c].phase # "unused" => backends'[c].id \in StreamIDs
          /\ backends'[c].phase \in {"dialing", "dialed"} => backends'[c].w = "next"
    BY <1>2, <1>6, <1>8 DEF Inv, Linked
  <2>4. QED
    BY <2>1, <2>2, <2>3 DEF Linked
<1>12. /\ UNCHANGED <<closed, closing, closedStreams, closedOrder, closedStart, pendingFrames,
                      pendingWindows, pendingCost, pendingItems, unacked, unackedBase,
                      downCursor, downActive, lastUpSequence, lastUpDigest>>
  BY <1>1 DEF closeVars, tombVars, queueVars, costVars, pollVars
<1>13. Ringed'
  <2>1. LiveIDs' \cap closedStreams = {}
    BY <1>2, <1>9 DEF Inv, Ringed, TombstoneRing, LiveIDs
  <2>2. QED
    BY <1>12, <2>1 DEF Inv, Ringed, TombstoneRing
<1>14. /\ UpTypes' /\ up'.pc = "apply" /\ up'.i = up.i + 1
       /\ up'.frames = up.frames /\ up'.live = up.live
       /\ Held'.cost = Held.cost /\ Held'.items = Held.items
  BY <1>1, <1>2, AppliedUp
<1>15. Uplinked'
  <2>1. ASSUME NEW id \in StreamIDs, Live(id)'
        PROVE  streams'[id].receiveWindow = up.live[up.i + 1][id]
    <3>1. CASE id = x
      BY <1>2, <1>5, <1>7, <3>1
    <3>2. CASE id # x
      <4>1. Live(id)
        BY <1>9, <2>1, <3>2
      <4>2. QED
        BY <1>2, <1>10, <4>1
    <3>3. QED
      BY <3>1, <3>2
  <2>2. closedStreams' \subseteq closedStreams \cup {Current.id}
    BY <1>12
  <2>3. QED
    BY <1>2, <1>12, <1>14, <2>1, <2>2, AppliedUplinked
<1>16. Typed'
  BY <1>1, <1>3, <1>7, <1>8, <1>12, <1>14, SameTypes DEF Inv, Typed
<1>17. Opened'
  <2>1. NewID(x, n) /\ QueuesOnly(x)
    BY <1>6, <1>8, <1>12, StillQueue DEF NewID
  <2>2. closedStreams' \subseteq closedStreams \cup {x}
    BY <1>12
  <2>3. \A id \in StreamIDs \ {x} : Live(id)' => Live(id)
    BY <1>9
  <2>4. QED
    BY <1>1, <1>2, <1>12, <2>1, <2>2, <2>3, OpenedStep
<1>18. Ordered'
  <2>1. ASSUME NEW id \in StreamIDs, Live(id)', opens'[id] = 1
        PROVE  (Live(id) /\ opens[id] = 1) \/ Silent(id)
    <3>1. CASE id = x
      <4>1. Unknown(x)
        BY <1>3, <2>1, <3>1
      <4>2. QED
        BY <3>1, <4>1 DEF Unknown, Silent
    <3>2. CASE id # x
      BY <1>3, <1>9, <2>1, <3>2
    <3>3. QED
      BY <3>1, <3>2
  <2>2. QED
    BY <1>3, <1>12, <2>1, SameDown DEF Inv, Typed
<1>19. Balanced(t) /\ WritesKnown(t, new)
  <2>1. QueueItemCost * 0 = 0 /\ InitialStreamWindow \in Nat
    BY Limits
  <2>2. Balanced(t)
    BY <1>5, <2>1 DEF Balanced
  <2>3. ~InHand(new)
    BY <1>6 DEF InHand
  <2>4. SumOf(t.writes) = 0 /\ Len(t.writes) = 0
    BY <1>5, SumEmpty
  <2>5. QED
    BY <1>5, <2>2, <2>3, <2>4 DEF WritesKnown
<1>20. Ledgers'
  <2> SUFFICES ASSUME NEW id \in StreamIDs, Live(id)'
               PROVE  /\ Balanced(streams'[id])
                      /\ backends'[streams'[id].backend].w # "done" /\ opens'[id] = 1 =>
                           WritesKnown(streams'[id], backends'[streams'[id].backend])
    BY DEF Ledgers
  <2>1. CASE id = x
    BY <1>5, <1>7, <1>8, <1>19, <2>1
  <2>2. CASE id # x
    <3>1. Live(id) /\ opens'[id] = opens[id]
      BY <1>3, <1>9, <2>2
    <3>2. QED
      BY <1>10, <3>1 DEF Inv, Ledgers
  <2>3. QED
    BY <2>1, <2>2
<1>21. Budget'
  <2>1. /\ streams'[x].pendingWriteCost - streams[x].pendingWriteCost = 0
        /\ streams'[x].pendingWriteItems - streams[x].pendingWriteItems = 0
    BY <1>2, <1>5, <1>7 DEF NoStream
  <2>2. /\ pendingCost \in Nat /\ pendingItems \in Nat
        /\ CostOf(pendingFrames) \in Nat /\ Len(pendingFrames) \in Nat
        /\ Held.cost \in Int /\ Held.items \in Int
    BY Numbers
  <2>3. /\ pendingCost' - pendingCost = 0 /\ pendingItems' - pendingItems = 0
        /\ CostOf(pendingFrames') - CostOf(pendingFrames) = 0
        /\ Len(pendingFrames') - Len(pendingFrames) = 0
        /\ Held'.cost - Held.cost = 0 /\ Held'.items - Held.items = 0
    BY <1>12, <1>14, <2>2
  <2>4. /\ pendingCost' - pendingCost
             = (CostOf(pendingFrames') - CostOf(pendingFrames)) + (Held'.cost - Held.cost)
               + (streams'[x].pendingWriteCost - streams[x].pendingWriteCost)
        /\ pendingItems' - pendingItems
             = (Len(pendingFrames') - Len(pendingFrames)) + (Held'.items - Held.items)
               + (streams'[x].pendingWriteItems - streams[x].pendingWriteItems)
    BY <2>1, <2>3
  <2>5. QED
    BY <1>2, <1>7, <1>11, <1>12, <1>16, <1>20, <2>4, StreamBudget
<1>22. QED
  BY <1>11, <1>13, <1>15, <1>16, <1>17, <1>18, <1>20, <1>21 DEF Inv

\* What an OPEN over a limit does, whether the CLOSE that answers it is queued
\* or not.
Rejects(x) ==
    /\ x = Current.id /\ Applying("open")
    /\ RememberClosed(x) /\ CountOpen(x)
    /\ UNCHANGED <<closed, streams, pollVars, lastUpSequence, lastUpDigest, backends>>

\* Such a step keeps the invariant once the queue, the charge and the call are
\* accounted for.
LEMMA RejectsInv ==
    ASSUME Inv, NEW x, Rejects(x), closing' \in BOOLEAN, QueuesOnly(x),
           QueueTypes', CostTypes', UpTypes', Uplinked', Ordered',
           pendingCost' - pendingCost
             = (CostOf(pendingFrames') - CostOf(pendingFrames)) + (Held'.cost - Held.cost),
           pendingItems' - pendingItems
             = (Len(pendingFrames') - Len(pendingFrames)) + (Held'.items - Held.items)
    PROVE  Inv'
<1> USE DEF Rejects
<1>1. x \in StreamIDs /\ ~Live(x) /\ ~closed
  BY FreshStream
<1>2. /\ OpenTypes'
      /\ opens'[x] = 2 \/ (opens'[x] = 1 /\ opens[x] = 0 /\ Unknown(x))
      /\ \A id \in StreamIDs \ {x} : opens'[id] = opens[id]
      /\ \A id \in StreamIDs : opens[id] = 2 => opens'[id] = 2
  BY <1>1, CountedOpen
<1>3. \A id \in StreamIDs : (Live(id)' <=> Live(id)) /\ (Live(id)' => id # x)
  BY <1>1 DEF Live
<1>4. /\ Ringed' /\ TombTypes' /\ closedStreams' \subseteq closedStreams \cup {x}
  <2>1. \A id \in StreamIDs : Live(id)' => Live(id) /\ id # x
    BY <1>3
  <2>2. QED
    BY <1>1, <2>1, RingStep DEF Inv
<1>5. UNCHANGED <<unacked, unackedBase, downCursor, downActive>>
  BY DEF pollVars
<1>6. Typed'
  <2>1. StreamTypes' /\ BackendTypes' /\ PollTypes' /\ CommitTypes'
    BY SameTypes DEF Inv
  <2>2. closed' \in BOOLEAN
    BY DEF Inv, Typed
  <2>3. QED
    BY <1>2, <1>4, <2>1, <2>2 DEF Typed
<1>7. Linked'
  BY SameLinked DEF Inv
<1>8. Opened'
  <2>1. NewID(x, 0)
    BY DEF NewID
  <2>2. QED
    BY <1>1, <1>3, <1>4, <1>5, <2>1, OpenedStep
<1>9. Ledgers'
  BY <1>2, <1>3 DEF Inv, Ledgers
<1>10. Budget'
  <2>1. streams' = streams /\ streams[x] = NoStream
    BY <1>1 DEF Inv, Linked
  <2>2. /\ streams'[x].pendingWriteCost - streams[x].pendingWriteCost = 0
        /\ streams'[x].pendingWriteItems - streams[x].pendingWriteItems = 0
    BY <2>1 DEF NoStream
  <2> DEFINE c == (CostOf(pendingFrames') - CostOf(pendingFrames)) + (Held'.cost - Held.cost)
             k == (Len(pendingFrames') - Len(pendingFrames)) + (Held'.items - Held.items)
  <2>3. pendingCost' - pendingCost = c /\ pendingItems' - pendingItems = k
    OBVIOUS
  <2>4. c \in Int /\ k \in Int
    <3>1. pendingCost \in Nat /\ pendingItems \in Nat /\ pendingCost' \in Nat /\ pendingItems' \in Nat
      BY Numbers DEF CostTypes
    <3>2. pendingCost' - pendingCost \in Int /\ pendingItems' - pendingItems \in Int
      BY <3>1
    <3> HIDE DEF c, k
    <3>3. QED
      BY <2>3, <3>2
  <2> HIDE DEF c, k
  <2>5. c = c + 0 /\ k = k + 0
    BY <2>4
  <2>6. /\ pendingCost' - pendingCost
             = c + (streams'[x].pendingWriteCost - streams[x].pendingWriteCost)
        /\ pendingItems' - pendingItems
             = k + (streams'[x].pendingWriteItems - streams[x].pendingWriteItems)
    BY <2>2, <2>3, <2>5
  <2>7. \A id \in StreamIDs \ {x} : streams'[id] = streams[id]
    BY <2>1
  <2>8. ~closed'
    BY <1>1
  <2>9. QED
    BY <1>1, <1>5, <1>6, <1>7, <1>9, <2>6, <2>7, <2>8, StreamBudget DEF c, k
<1>11. QED
  BY <1>4, <1>6, <1>7, <1>8, <1>9, <1>10 DEF Inv

\* OPEN over a limit.
LEMMA OpenRejectedInv ==
    ASSUME Inv, NEW admitted \in Answers, NEW answer \in Answers,
           UpOpenRejected(admitted, answer)
    PROVE  Inv'
<1> DEFINE x == Current.id
           f == [type |-> "close", id |-> x, n |-> 0]
<1>1. /\ Applying("open") /\ RememberClosed(x) /\ CountOpen(x)
      /\ UNCHANGED <<closed, streams, pollVars, lastUpSequence, lastUpDigest, backends>>
      /\ Rejects(x)
  BY DEF UpOpenRejected, Rejects
<1>2. \/ /\ QueueFrame(f, pendingCost, pendingItems) /\ Applied /\ UNCHANGED closing
      \/ /\ Releasable(up.cost, up.items)
         /\ RefuseFrame(pendingCost - up.cost, pendingItems - up.items)
         /\ up' = NoUpCall /\ closing' = TRUE
  BY DEF UpOpenRejected
<1>3. /\ x \in StreamIDs /\ ~Live(x)
      /\ \A id \in StreamIDs : Live(id) =>
           id # x /\ streams[id].receiveWindow = up.live[up.i + 1][id]
      /\ up.pc = "apply" /\ up.i <= Len(up.frames) /\ ~closed
  BY <1>1, FreshStream
<1>4. /\ opens'[x] = 2 \/ (opens'[x] = 1 /\ opens[x] = 0 /\ Unknown(x))
      /\ \A id \in StreamIDs \ {x} : opens'[id] = opens[id]
      /\ \A id \in StreamIDs : opens[id] = 2 => opens'[id] = 2
  BY <1>1, <1>3, CountedOpen
<1>5. \A id \in StreamIDs : Live(id)' => Live(id) /\ id # x
  BY <1>1, <1>3 DEF Live
<1>6. closedStreams' \subseteq closedStreams \cup {x}
  BY <1>1, <1>3, <1>5, RingStep DEF Inv
<1>7. /\ QueueTypes /\ PollTypes /\ WindowsIndexed /\ ClosesLast /\ NothingAfterClose /\ Parked
      /\ UNCHANGED <<unacked, downActive>>
  BY <1>1 DEF Inv, Typed, Ordered, pollVars
<1>8. /\ pendingCost \in Nat /\ pendingItems \in Nat
      /\ CostOf(pendingFrames) \in Nat /\ Len(pendingFrames) \in Nat
      /\ Held.cost \in Int /\ Held.items \in Int
  BY Numbers
<1>9. f \in QueuedFrame /\ f.id = x /\ f.type = "close"
  BY <1>3 DEF QueuedFrame
<1> HIDE DEF f
<1>10. CASE QueueFrame(f, pendingCost, pendingItems) /\ Applied /\ UNCHANGED closing
  <2>1. /\ QueueTypes' /\ WindowsIndexed' /\ Grown(f) /\ CostTypes'
        /\ pendingCost' - pendingCost = CostOf(pendingFrames') - CostOf(pendingFrames)
        /\ pendingItems' - pendingItems = Len(pendingFrames') - Len(pendingFrames)
    BY <1>7, <1>8, <1>9, <1>10, QueueGrows
  <2>2. Silent(f.id) \/ opens'[f.id] = 2
    BY <1>4, <1>9 DEF Unknown, Silent
  <2>3. NothingAfterClose' /\ ClosesLast' /\ QueuesOnly(x)
    <3>1. \A id \in StreamIDs : Live(id)' =>
            Live(id) /\ opens'[id] = opens[id] /\ (f.type = "close" => id # f.id)
      BY <1>4, <1>5, <1>9
    <3>2. NothingAfterClose' /\ ClosesLast' /\ QueuesOnly(f.id)
      BY <1>4, <1>7, <1>9, <2>1, <2>2, <3>1, GrownOrder
    <3>3. QED
      BY <1>9, <3>2
  <2>4. Ordered'
    BY <1>7, <2>1, <2>3 DEF Ordered, Parked
  <2>5. /\ UpTypes' /\ up'.pc = "apply" /\ up'.i = up.i + 1
        /\ up'.frames = up.frames /\ up'.live = up.live
        /\ Held'.cost = Held.cost /\ Held'.items = Held.items
    BY <1>3, <1>10, AppliedUp
  <2>6. Uplinked'
    <3>1. \A id \in StreamIDs : Live(id)' => streams'[id].receiveWindow = up.live[up.i + 1][id]
      BY <1>1, <1>3, <1>5
    <3>2. UNCHANGED closed
      BY <1>1
    <3>3. QED
      BY <1>3, <1>6, <2>5, <3>1, <3>2, AppliedUplinked
  <2>7. /\ pendingCost' - pendingCost
             = (CostOf(pendingFrames') - CostOf(pendingFrames)) + (Held'.cost - Held.cost)
        /\ pendingItems' - pendingItems
             = (Len(pendingFrames') - Len(pendingFrames)) + (Held'.items - Held.items)
    <3> DEFINE c == CostOf(pendingFrames') - CostOf(pendingFrames)
               k == Len(pendingFrames') - Len(pendingFrames)
    <3>1. /\ CostOf(pendingFrames') \in Nat /\ Len(pendingFrames') \in Nat
      BY <2>1, CostsAre DEF QueueTypes
    <3>2. /\ c \in Int /\ k \in Int /\ Held'.cost - Held.cost = 0 /\ Held'.items - Held.items = 0
          /\ pendingCost' - pendingCost = c /\ pendingItems' - pendingItems = k
      BY <1>8, <2>1, <2>5, <3>1
    <3> HIDE DEF c, k
    <3>3. c = c + 0 /\ k = k + 0
      BY <3>2
    <3>4. QED
      BY <3>2, <3>3 DEF c, k
  <2>8. closing' \in BOOLEAN
    BY <1>10 DEF Inv, Typed
  <2>9. QED
    BY <1>1, <2>1, <2>3, <2>4, <2>5, <2>6, <2>7, <2>8, RejectsInv
<1>11. CASE /\ Releasable(up.cost, up.items)
            /\ RefuseFrame(pendingCost - up.cost, pendingItems - up.items)
            /\ up' = NoUpCall /\ closing' = TRUE
  <2>1. /\ up.cost \in 0 .. pendingCost /\ up.items \in 0 .. pendingItems
        /\ pendingCost' = pendingCost - up.cost /\ pendingItems' = pendingItems - up.items
        /\ UNCHANGED <<pendingFrames, pendingWindows>>
    BY <1>11 DEF Releasable, RefuseFrame, queueVars
  <2>2. CostTypes'
    BY <1>8, <2>1 DEF CostTypes
  <2>3. QueueTypes' /\ QueuesOnly(x)
    BY <1>7, <2>1, StillQueue DEF QueueTypes
  <2>4. UpTypes' /\ Uplinked'
    BY <1>11, NoUpCallType DEF UpTypes, Uplinked, Placed, Snapshots, Validating, Applies
  <2>5. Ordered'
    <3>1. \A id \in StreamIDs : Live(id)' /\ opens'[id] = 1 =>
            (Live(id) /\ opens[id] = 1) \/ Silent(id)
      BY <1>4, <1>5
    <3>2. QED
      BY <1>4, <1>7, <2>1, <3>1, SameDown DEF Inv
  <2>6. /\ Held.cost = up.cost /\ Held.items = up.items
        /\ Held'.cost = 0 /\ Held'.items = 0
    BY <1>3, <1>11 DEF Held, NoUpCall
  <2>7. /\ pendingCost' - pendingCost
             = (CostOf(pendingFrames') - CostOf(pendingFrames)) + (Held'.cost - Held.cost)
        /\ pendingItems' - pendingItems
             = (Len(pendingFrames') - Len(pendingFrames)) + (Held'.items - Held.items)
    BY <1>8, <2>1, <2>6
  <2>8. closing' \in BOOLEAN
    BY <1>11
  <2>9. QED
    BY <1>1, <2>2, <2>3, <2>4, <2>5, <2>7, <2>8, RejectsInv
<1>12. QED
  BY <1>2, <1>10, <1>11

--------------------------------------------------------------------------------
(* Poll.                                                                   *)

\* The next batch is the front of the queue, and the queue the rest.
Cut(count) ==
    /\ count \in 1 .. Len(pendingFrames)
    /\ unacked' \in Seq(QueuedFrame) /\ Len(unacked') = count
    /\ \A k \in 1 .. count : unacked'[k] = pendingFrames[k]
    /\ pendingFrames' \in Seq(QueuedFrame) /\ Len(pendingFrames') = Len(pendingFrames) - count
    /\ \A k \in 1 .. Len(pendingFrames) - count : pendingFrames'[k] = pendingFrames[count + k]
    /\ CostOf(unacked') + CostOf(pendingFrames') = CostOf(pendingFrames)

\* takeDownBatchLocked cuts the queue and moves its index.
LEMMA TakesCut ==
    ASSUME QueueTypes, NEW count \in 1 .. Len(pendingFrames), TakeDownBatch(count)
    PROVE  Cut(count)
<1>1. /\ unacked' = SubSeq(pendingFrames, 1, count)
      /\ pendingFrames' = SubSeq(pendingFrames, count + 1, Len(pendingFrames))
  BY DEF TakeDownBatch
<1>2. pendingFrames \in Seq(QueuedFrame) /\ count \in 0 .. Len(pendingFrames)
  BY LenProperties DEF QueueTypes
<1> DEFINE q == pendingFrames
<1> HIDE DEF q
<1>3. q \in Seq(QueuedFrame) /\ count \in 0 .. Len(q)
  BY <1>2 DEF q
<1>4. /\ SubSeq(q, 1, count) \in Seq(QueuedFrame) /\ Len(SubSeq(q, 1, count)) = count
      /\ \A k \in 1 .. count : SubSeq(q, 1, count)[k] = q[k]
      /\ SubSeq(q, count + 1, Len(q)) \in Seq(QueuedFrame)
      /\ Len(SubSeq(q, count + 1, Len(q))) = Len(q) - count
      /\ \A k \in 1 .. Len(q) - count : SubSeq(q, count + 1, Len(q))[k] = q[count + k]
      /\ CostOf(SubSeq(q, 1, count)) + CostOf(SubSeq(q, count + 1, Len(q))) = CostOf(q)
  BY ONLY <1>3, CostCut
<1>5. QED
  BY <1>1, <1>4 DEF Cut, q

\* The index of the rest of the queue.
LEMMA CutWindows ==
    ASSUME QueueTypes, WindowsIndexed, NEW count, Cut(count),
           pendingWindows' = [id \in StreamIDs |->
              IF pendingWindows[id] <= count THEN 0 ELSE pendingWindows[id] - count]
    PROVE  QueueTypes' /\ WindowsIndexed'
<1> DEFINE q == pendingFrames
           r == pendingFrames'
           w == pendingWindows
           n == Len(q)
           m == Len(r)
<1>1. /\ q \in Seq(QueuedFrame) /\ r \in Seq(QueuedFrame) /\ n \in Nat /\ count \in 1 .. n
      /\ m = n - count /\ DOMAIN q = 1 .. n /\ DOMAIN r = 1 .. m
      /\ \A k \in 1 .. m : r[k] = q[count + k]
      /\ w \in [StreamIDs -> Nat]
  BY LenProperties DEF Cut, QueueTypes
<1>2. \A k \in 1 .. m : count + k \in 1 .. n
  BY <1>1
<1>3. /\ \A id \in StreamIDs : w[id] # 0 =>
           w[id] <= n /\ q[w[id]].type = "window" /\ q[w[id]].id = id
      /\ \A k \in 1 .. n : q[k].type = "window" => k <= w[q[k].id]
      /\ \A j, k \in 1 .. n :
           /\ j < k /\ IsWindow(q[j], q[k].id) /\ IsWindow(q[k], q[k].id)
           /\ \A p \in j + 1 .. k - 1 : ~IsWindow(q[p], q[k].id)
           => q[j].n + q[k].n > MaxUint32
  BY <1>1 DEF WindowsIndexed
<1>4. \A k \in 1 .. n : q[k].id \in StreamIDs
  <2>1. \A k \in 1 .. n : q[k] \in QueuedFrame
    BY <1>1, ElementOfSeq
  <2>2. QED
    BY <2>1 DEF QueuedFrame
<1>5. \A id \in StreamIDs :
        pendingWindows'[id] = IF w[id] <= count THEN 0 ELSE w[id] - count
  OBVIOUS
<1>6. QueueTypes'
  <2>1. \A id \in StreamIDs : (IF w[id] <= count THEN 0 ELSE w[id] - count) \in Nat
    BY <1>1
  <2>2. QED
    BY <1>1, <2>1 DEF QueueTypes
<1> HIDE DEF q, r, w, n, m
<1>7. ASSUME NEW id \in StreamIDs, pendingWindows'[id] # 0
      PROVE  /\ pendingWindows'[id] <= m
             /\ r[pendingWindows'[id]].type = "window" /\ r[pendingWindows'[id]].id = id
  <2>1. w[id] \in Nat /\ w[id] # 0 /\ ~(w[id] <= count) /\ pendingWindows'[id] = w[id] - count
    BY <1>1, <1>5, <1>7
  <2>2. w[id] <= n /\ q[w[id]].type = "window" /\ q[w[id]].id = id
    BY <1>3, <2>1
  <2> DEFINE v == w[id]
  <2>3. v \in Nat /\ ~(v <= count) /\ v <= n /\ m = n - count /\ n \in Nat /\ count \in 1 .. n
    BY <1>1, <2>1, <2>2
  <2> HIDE DEF v
  <2>4. v - count \in 1 .. m /\ count + (v - count) = v
    BY ONLY <2>3
  <2>5. r[v - count] = q[v]
    <3>1. \A k \in 1 .. m : r[k] = q[count + k]
      BY <1>1
    <3>2. r[v - count] = q[count + (v - count)]
      BY ONLY <2>4, <3>1, Zenon
    <3>3. QED
      BY ONLY <2>4, <3>2, Zenon
  <2>6. v - count <= m
    BY ONLY <2>3
  <2>7. QED
    BY <2>1, <2>2, <2>5, <2>6 DEF v
<1>8. ASSUME NEW k \in 1 .. m, r[k].type = "window"
      PROVE  k <= pendingWindows'[r[k].id]
  <2>1. count + k \in 1 .. n /\ r[k] = q[count + k]
    BY <1>1, <1>2
  <2>2. count + k <= w[q[count + k].id] /\ q[count + k].id \in StreamIDs
    BY <1>3, <1>4, <1>8, <2>1
  <2>3. w[q[count + k].id] \in Nat
    BY <1>1, <2>2
  <2>4. ~(w[q[count + k].id] <= count) /\ k <= w[q[count + k].id] - count
    <3> DEFINE v == w[q[count + k].id]
    <3>1. v \in Nat /\ count + k <= v /\ count \in Nat /\ k \in Nat /\ k >= 1
      BY <1>1, <2>2, <2>3
    <3> HIDE DEF v
    <3>2. ~(v <= count) /\ k <= v - count
      BY ONLY <3>1
    <3>3. QED
      BY <3>2 DEF v
  <2>5. QED
    BY <1>5, <2>1, <2>2, <2>4
<1>9. ASSUME NEW j \in 1 .. m, NEW k \in 1 .. m, j < k,
             IsWindow(r[j], r[k].id), IsWindow(r[k], r[k].id),
             \A p \in j + 1 .. k - 1 : ~IsWindow(r[p], r[k].id)
      PROVE  r[j].n + r[k].n > MaxUint32
  <2>1. /\ count + j \in 1 .. n /\ count + k \in 1 .. n
        /\ r[j] = q[count + j] /\ r[k] = q[count + k]
    BY <1>1, <1>2
  <2>2. count + j < count + k
    BY <1>1, <1>9
  <2> DEFINE J == count + j
             K == count + k
  <2>3. ASSUME NEW p \in J + 1 .. K - 1
        PROVE  ~IsWindow(q[p], q[K].id)
    <3>1. /\ p - count \in j + 1 .. k - 1 /\ p - count \in 1 .. m /\ count + (p - count) = p
      BY <1>1, <2>3
    <3>2. r[p - count] = q[p]
      BY <1>1, <3>1
    <3>3. QED
      BY <1>9, <2>1, <3>1, <3>2
  <2>4. /\ J \in 1 .. n /\ K \in 1 .. n /\ J < K /\ r[j] = q[J] /\ r[k] = q[K]
        /\ \A p \in J + 1 .. K - 1 : ~IsWindow(q[p], q[K].id)
    <3>1. J \in 1 .. n /\ K \in 1 .. n /\ J < K /\ r[j] = q[J] /\ r[k] = q[K]
      BY <2>1, <2>2
    <3> HIDE DEF J, K
    <3>2. QED
      BY <2>3, <3>1
  <2> HIDE DEF J, K
  <2>5. IsWindow(q[J], q[K].id) /\ IsWindow(q[K], q[K].id)
    BY <1>9, <2>4, Zenon
  <2>6. q[J].n + q[K].n > MaxUint32
    BY ONLY <1>3, <2>4, <2>5, Zenon
  <2>7. QED
    BY ONLY <2>4, <2>6, Zenon
<1>10. QED
  <2>1. DOMAIN pendingFrames' = 1 .. m
    BY <1>1 DEF r
  <2>2. WindowsIndexed'
    BY <1>7, <1>8, <1>9, <2>1 DEF WindowsIndexed, r, m
  <2>3. QED
    BY <1>6, <2>2

\* The downlink after a batch is taken is what the queue was.
LEMMA CutOrder ==
    ASSUME QueueTypes, PollTypes, NEW count, Cut(count), ClosesLast, NothingAfterClose,
           UNCHANGED <<streams, opens>>
    PROVE  /\ ClosesLast' /\ NothingAfterClose'
           /\ \A k \in DOMAIN unacked' :
                k \in DOMAIN pendingFrames /\ unacked'[k] = pendingFrames[k]
           /\ \A k \in DOMAIN pendingFrames' :
                count + k \in DOMAIN pendingFrames /\ pendingFrames'[k] = pendingFrames[count + k]
<1> DEFINE q == pendingFrames
           r == pendingFrames'
           u == unacked'
           n == Len(q)
           m == Len(unacked)
<1>1. /\ q \in Seq(QueuedFrame) /\ r \in Seq(QueuedFrame) /\ u \in Seq(QueuedFrame)
      /\ n \in Nat /\ count \in 1 .. n /\ Len(r) = n - count /\ Len(u) = count
      /\ DOMAIN q = 1 .. n /\ DOMAIN r = 1 .. n - count /\ DOMAIN u = 1 .. count
      /\ \A k \in 1 .. count : u[k] = q[k]
      /\ \A k \in 1 .. n - count : r[k] = q[count + k]
  BY LenProperties DEF Cut, QueueTypes
<1>2. \A k \in DOMAIN u : k \in DOMAIN q /\ u[k] = q[k]
  BY <1>1
<1>3. \A k \in DOMAIN r : count + k \in DOMAIN q /\ r[k] = q[count + k]
  BY <1>1
<1>4. ClosesLast'
  BY <1>2, <1>3 DEF ClosesLast, Live
<1>5. /\ DOMAIN (u \o r) = 1 .. n
      /\ \A k \in 1 .. n : (u \o r)[k] = q[k]
  <2>1. /\ DOMAIN (u \o r) = 1 .. count + (n - count)
        /\ \A k \in 1 .. count + (n - count) :
             (u \o r)[k] = IF k <= count THEN u[k] ELSE r[k - count]
    BY <1>1, DownIs
  <2>2. count + (n - count) = n
    BY <1>1
  <2>3. ASSUME NEW k \in 1 .. n
        PROVE  (IF k <= count THEN u[k] ELSE r[k - count]) = q[k]
    <3>1. CASE k <= count
      <4>1. k \in 1 .. count
        BY <1>1, <3>1
      <4>2. QED
        BY <1>1, <3>1, <4>1
    <3>2. CASE ~(k <= count)
      <4>1. k - count \in 1 .. n - count /\ count + (k - count) = k
        BY <1>1, <3>2
      <4>2. QED
        BY <1>1, <3>2, <4>1
    <3>3. QED
      BY <3>1, <3>2
  <2>4. QED
    BY <2>1, <2>2, <2>3
<1>6. /\ m \in Nat /\ DOMAIN (unacked \o q) = 1 .. m + n
      /\ \A k \in 1 .. n : m + k \in 1 .. m + n /\ (unacked \o q)[m + k] = q[k]
  <2>1. /\ m \in Nat /\ DOMAIN (unacked \o q) = 1 .. m + n
        /\ \A k \in 1 .. m + n : (unacked \o q)[k] = IF k <= m THEN unacked[k] ELSE q[k - m]
    BY <1>1, DownIs DEF PollTypes
  <2>2. ASSUME NEW k \in 1 .. n
        PROVE  m + k \in 1 .. m + n /\ (unacked \o q)[m + k] = q[k]
    <3>1. m + k \in 1 .. m + n /\ ~(m + k <= m) /\ (m + k) - m = k
      BY <1>1, <2>1
    <3>2. QED
      BY <2>1, <3>1
  <2>3. QED
    BY <2>1, <2>2
<1>7. ASSUME NEW j \in 1 .. n, NEW k \in 1 .. n, j < k, q[j].type = "close", q[k].id = q[j].id
      PROVE  opens[q[j].id] = 2
  <2>1. m + j < m + k
    BY <1>1, <1>6, <1>7
  <2>2. QED
    BY <1>6, <1>7, <2>1 DEF NothingAfterClose
<1>8. NothingAfterClose'
  <2> DEFINE down == u \o r
  <2>1. (unacked \o pendingFrames)' = down
    OBVIOUS
  <2>2. /\ DOMAIN down = 1 .. n /\ \A k \in 1 .. n : down[k] = q[k]
        /\ \A j, k \in 1 .. n : j < k /\ q[j].type = "close" /\ q[k].id = q[j].id =>
             opens[q[j].id] = 2
    BY <1>5, <1>7
  <2> HIDE DEF down, u, r, q, n
  <2>3. \A j, k \in DOMAIN down :
          j < k /\ down[j].type = "close" /\ down[k].id = down[j].id =>
            opens[down[j].id] = 2
    BY ONLY <2>2, Zenon
  <2>4. QED
    BY <1>1, <2>1, <2>3 DEF NothingAfterClose
<1>9. QED
  BY <1>2, <1>3, <1>4, <1>8

\* What is on the downlink has been queued.
FromQueue ==
    /\ \A k \in DOMAIN pendingFrames' : \E j \in DOMAIN pendingFrames :
         pendingFrames'[k] = pendingFrames[j]
    /\ \A k \in DOMAIN unacked' : \E j \in DOMAIN pendingFrames : unacked'[k] = pendingFrames[j]

\* A poll keeps the invariant once the downlink and the charge are accounted for.
LEMMA PolledInv ==
    ASSUME Inv, ~Locked, ~closed, UNCHANGED <<closeVars, streams, tombVars, upVars, backends>>,
           QueueTypes', PollTypes', CostTypes', Ordered', FromQueue,
           pendingCost' - pendingCost
             = (CostOf(pendingFrames') - CostOf(pendingFrames))
               + (CostOf(unacked') - CostOf(unacked)),
           pendingItems' - pendingItems
             = (Len(pendingFrames') - Len(pendingFrames)) + (Len(unacked') - Len(unacked))
    PROVE  Inv'
<1>1. /\ Uplinked' /\ UpTypes' /\ UNCHANGED <<lastUpSequence, lastUpDigest, opens>>
      /\ Held'.cost = 0 /\ Held'.items = 0 /\ Held.cost = 0 /\ Held.items = 0
  BY UnlockedStep DEF Inv
<1>2. UNCHANGED <<closed, closing, closedStreams, closedOrder, closedStart>>
  BY DEF closeVars, tombVars
<1>3. Typed'
  BY <1>1, <1>2, SameTypes DEF Inv, Typed
<1>4. Linked' /\ Ringed'
  BY SameLinked, SameRinged DEF Inv, Live
<1>5. Opened'
  <2>1. \A id \in StreamIDs : Unknown(id) => Unknown(id)'
    BY <1>2 DEF Unknown, Live, FromQueue
  <2>2. QED
    BY <1>1, <2>1, SameOpened DEF Inv
<1>6. Ledgers'
  BY <1>1 DEF Inv, Ledgers, Live
<1>7. Budget'
  <2> DEFINE c == CostOf(pendingFrames') - CostOf(pendingFrames)
             d == CostOf(unacked') - CostOf(unacked)
             k == Len(pendingFrames') - Len(pendingFrames)
             l == Len(unacked') - Len(unacked)
             h == Held'.cost - Held.cost
             g == Held'.items - Held.items
             a == Total(StreamIDs, WriteCosts(streams')) - Total(StreamIDs, WriteCosts(streams))
             i == Total(StreamIDs, WriteItems(streams')) - Total(StreamIDs, WriteItems(streams))
  <2>1. /\ CostOf(pendingFrames) \in Nat /\ Len(pendingFrames) \in Nat
        /\ CostOf(unacked) \in Nat /\ Len(unacked) \in Nat
        /\ Total(StreamIDs, WriteCosts(streams)) \in Nat
        /\ Total(StreamIDs, WriteItems(streams)) \in Nat
    BY Numbers
  <2>2. /\ CostOf(pendingFrames') \in Nat /\ Len(pendingFrames') \in Nat
        /\ CostOf(unacked') \in Nat /\ Len(unacked') \in Nat
    BY CostsAre DEF QueueTypes, PollTypes
  <2>3. c \in Int /\ d \in Int /\ k \in Int /\ l \in Int /\ h = 0 /\ g = 0 /\ a = 0 /\ i = 0
    BY <1>1, <2>1, <2>2
  <2>4. pendingCost' - pendingCost = c + d /\ pendingItems' - pendingItems = k + l
    OBVIOUS
  <2> HIDE DEF c, d, k, l, h, g, a, i
  <2>5. c + d = c + d + h + a /\ k + l = k + l + g + i
    BY ONLY <2>3
  <2>6. /\ pendingCost' - pendingCost = c + d + h + a
        /\ pendingItems' - pendingItems = k + l + g + i
    BY ONLY <2>4, <2>5
  <2>7. QED
    BY <1>2, <1>3, <1>4, <1>6, <2>6, BudgetStep DEF c, d, k, l, h, g, a, i
<1>8. QED
  BY <1>1, <1>3, <1>4, <1>5, <1>6, <1>7 DEF Inv

\* The queue and the batch after a poll takes a batch.
LEMMA TakesInv ==
    ASSUME Inv, NEW count \in 1 .. Len(pendingFrames), TakeDownBatch(count),
           UNCHANGED <<streams, upVars>>
    PROVE  /\ Cut(count) /\ QueueTypes' /\ PollTypes' /\ Ordered' /\ FromQueue
<1>1. /\ QueueTypes /\ PollTypes /\ ClosesLast /\ NothingAfterClose /\ WindowsIndexed
      /\ UNCHANGED opens
  BY DEF Inv, Typed, Ordered, upVars
<1>2. Cut(count)
  BY <1>1, TakesCut
<1>3. QueueTypes' /\ WindowsIndexed'
  <2>1. pendingWindows' = [id \in StreamIDs |->
           IF pendingWindows[id] <= count THEN 0 ELSE pendingWindows[id] - count]
    BY DEF TakeDownBatch
  <2>2. QED
    BY <1>1, <1>2, <2>1, CutWindows
<1>4. /\ ClosesLast' /\ NothingAfterClose'
      /\ \A k \in DOMAIN unacked' :
           k \in DOMAIN pendingFrames /\ unacked'[k] = pendingFrames[k]
      /\ \A k \in DOMAIN pendingFrames' :
           count + k \in DOMAIN pendingFrames /\ pendingFrames'[k] = pendingFrames[count + k]
  BY <1>1, <1>2, CutOrder
<1>5. FromQueue
  BY <1>4 DEF FromQueue
<1>6. downActive' = FALSE /\ unackedBase' = downCursor /\ downCursor' = downCursor + 1
  BY DEF TakeDownBatch
<1>7. PollTypes'
  <2>1. unackedBase \in Nat /\ downCursor \in Nat /\ downCursor + 1 \in Nat
    BY <1>1 DEF PollTypes
  <2>2. unacked' \in Seq(QueuedFrame)
    BY <1>2 DEF Cut
  <2>3. QED
    BY <1>6, <2>1, <2>2 DEF PollTypes
<1>8. Ordered'
  BY <1>3, <1>4, <1>6 DEF Ordered, Parked
<1>9. QED
  BY <1>2, <1>3, <1>5, <1>7, <1>8

\* A poll that finds frames.
LEMMA PollArrivesInv ==
    ASSUME Inv, NEW count \in 1 .. Len(pendingFrames), PollArrives(count)
    PROVE  Inv'
<1>1. /\ ~Locked /\ ~closed /\ TakeDownBatch(count)
      /\ UNCHANGED <<closeVars, streams, tombVars, upVars, backends>>
  BY DEF PollArrives
<1>2. /\ CostOf(unacked) \in 0 .. pendingCost /\ Len(unacked) \in 0 .. pendingItems
      /\ pendingCost' = pendingCost - CostOf(unacked)
      /\ pendingItems' = pendingItems - Len(unacked)
  BY DEF PollArrives, Acknowledge, Releasable
<1>3. Cut(count) /\ QueueTypes' /\ PollTypes' /\ Ordered' /\ FromQueue
  BY <1>1, TakesInv
<1> DEFINE c == CostOf(pendingFrames)
           k == Len(pendingFrames)
           d == CostOf(unacked)
           l == Len(unacked)
           c2 == CostOf(pendingFrames')
           k2 == Len(pendingFrames')
           d2 == CostOf(unacked')
           l2 == Len(unacked')
<1>4. /\ pendingCost \in Nat /\ pendingItems \in Nat
      /\ c \in Nat /\ k \in Nat /\ d \in Nat /\ l \in Nat
  BY Numbers
<1>5. c2 \in Nat /\ k2 \in Nat /\ d2 \in Nat /\ l2 \in Nat
  BY <1>3, CostsAre DEF QueueTypes, PollTypes
<1>6. d2 + c2 = c /\ l2 = count /\ k2 = k - count /\ count \in Int
  BY <1>3 DEF Cut
<1>7. CostTypes'
  BY <1>2, <1>4 DEF CostTypes
<1> HIDE DEF c, k, d, l, c2, k2, d2, l2
<1>8. /\ pendingCost' = pendingCost - d /\ pendingItems' = pendingItems - l
  BY <1>2 DEF d, l
<1>9. /\ pendingCost' - pendingCost = (c2 - c) + (d2 - d)
      /\ pendingItems' - pendingItems = (k2 - k) + (l2 - l)
  BY ONLY <1>4, <1>5, <1>6, <1>8
<1>10. QED
  BY <1>1, <1>3, <1>7, <1>9, PolledInv DEF c, k, d, l, c2, k2, d2, l2

\* A parked poll that finds frames.
LEMMA PollTakesInv ==
    ASSUME Inv, NEW count \in 1 .. Len(pendingFrames), PollTakes(count)
    PROVE  Inv'
<1>1. /\ ~Locked /\ downActive /\ TakeDownBatch(count)
      /\ UNCHANGED <<closeVars, streams, tombVars, costVars, upVars, backends>>
  BY DEF PollTakes
<1>2. unacked = << >>
  BY <1>1 DEF Inv, Ordered, Parked
<1>3. ~closed
  <2>1. closed => Len(pendingFrames) = 0
    BY CostEmpty DEF Inv, Budget, ClosedHoldsNothing
  <2>2. Len(pendingFrames) \in Nat /\ Len(pendingFrames) # 0
    BY Numbers
  <2>3. QED
    BY <2>1, <2>2
<1>4. Cut(count) /\ QueueTypes' /\ PollTypes' /\ Ordered' /\ FromQueue
  BY <1>1, TakesInv
<1>5. pendingCost' = pendingCost /\ pendingItems' = pendingItems /\ CostTypes'
  BY <1>1, SameTypes DEF Inv, costVars
<1> DEFINE c == CostOf(pendingFrames)
           k == Len(pendingFrames)
           d == CostOf(unacked)
           l == Len(unacked)
           c2 == CostOf(pendingFrames')
           k2 == Len(pendingFrames')
           d2 == CostOf(unacked')
           l2 == Len(unacked')
<1>6. /\ pendingCost \in Nat /\ pendingItems \in Nat
      /\ c \in Nat /\ k \in Nat /\ d = 0 /\ l = 0
  BY <1>2, Numbers, CostEmpty
<1>7. c2 \in Nat /\ k2 \in Nat /\ d2 \in Nat /\ l2 \in Nat
  BY <1>4, CostsAre DEF QueueTypes, PollTypes
<1>8. d2 + c2 = c /\ l2 = count /\ k2 = k - count /\ count \in Int
  BY <1>4 DEF Cut
<1> HIDE DEF c, k, d, l, c2, k2, d2, l2
<1>9. /\ pendingCost' - pendingCost = (c2 - c) + (d2 - d)
      /\ pendingItems' - pendingItems = (k2 - k) + (l2 - l)
  BY ONLY <1>5, <1>6, <1>7, <1>8
<1>10. QED
  BY <1>1, <1>3, <1>4, <1>5, <1>9, PolledInv DEF c, k, d, l, c2, k2, d2, l2

\* A poll that finds nothing and parks.
LEMMA PollParksInv ==
    ASSUME Inv, PollParks
    PROVE  Inv'
<1>1. /\ ~Locked /\ ~closed /\ pendingFrames = << >>
      /\ unacked' = << >> /\ downActive' = TRUE
      /\ UNCHANGED <<unackedBase, downCursor, pendingFrames, pendingWindows>>
      /\ UNCHANGED <<closeVars, streams, tombVars, upVars, backends>>
  BY DEF PollParks, queueVars
<1>2. /\ CostOf(unacked) \in 0 .. pendingCost /\ Len(unacked) \in 0 .. pendingItems
      /\ pendingCost' = pendingCost - CostOf(unacked)
      /\ pendingItems' = pendingItems - Len(unacked)
  BY DEF PollParks, Acknowledge, Releasable
<1>3. /\ pendingCost \in Nat /\ pendingItems \in Nat
      /\ CostOf(unacked) \in Nat /\ Len(unacked) \in Nat
      /\ CostOf(unacked') = 0 /\ Len(unacked') = 0
      /\ CostOf(pendingFrames) = 0 /\ Len(pendingFrames) = 0
  BY <1>1, Numbers, CostEmpty
<1>4. QueueTypes' /\ CostTypes'
  BY <1>1, <1>2, <1>3 DEF Inv, Typed, QueueTypes, CostTypes
<1>5. PollTypes'
  BY <1>1 DEF Inv, Typed, PollTypes
<1>6. Ordered'
  <2>1. ClosesLast' /\ Parked' /\ WindowsIndexed'
    BY <1>1 DEF Inv, Ordered, ClosesLast, Parked, WindowsIndexed, Live, upVars
  <2>2. (unacked \o pendingFrames)' = << >>
    BY <1>1
  <2>3. NothingAfterClose'
    BY <2>2 DEF NothingAfterClose
  <2>4. QED
    BY <2>1, <2>3 DEF Ordered
<1>7. FromQueue
  BY <1>1 DEF FromQueue
<1>8. /\ pendingCost' - pendingCost
           = (CostOf(pendingFrames') - CostOf(pendingFrames)) + (CostOf(unacked') - CostOf(unacked))
      /\ pendingItems' - pendingItems
           = (Len(pendingFrames') - Len(pendingFrames)) + (Len(unacked') - Len(unacked))
  BY <1>1, <1>2, <1>3
<1>9. QED
  BY <1>1, <1>4, <1>5, <1>6, <1>7, <1>8, PolledInv

\* A poll that goes away.
LEMMA PollLeavesInv ==
    ASSUME Inv, PollLeaves
    PROVE  Inv'
<1>1. /\ ~Locked /\ downActive' = FALSE
      /\ UNCHANGED <<closed, closing, closedStreams, closedOrder, closedStart, streams,
                     pendingFrames, pendingWindows, costVars, unacked, unackedBase, downCursor,
                     up, lastUpSequence, lastUpDigest, opens, backends>>
      /\ UNCHANGED <<closeVars, tombVars, queueVars, upVars>>
  BY DEF PollLeaves, closeVars, tombVars, queueVars, upVars
<1>2. /\ Uplinked' /\ UpTypes' /\ Held'.cost = Held.cost /\ Held'.items = Held.items
  BY <1>1, UnlockedStep DEF Inv, Held
<1>3. Typed'
  <2>1. PollTypes'
    BY <1>1 DEF Inv, Typed, PollTypes
  <2>2. QED
    BY <1>1, <1>2, <2>1, SameTypes DEF Inv, Typed
<1>4. Linked' /\ Ringed' /\ Ledgers'
  BY <1>1, SameLinked, SameRinged DEF Inv, Live, Ledgers
<1>5. Opened'
  <2>1. \A id \in StreamIDs : Unknown(id) => Unknown(id)'
    BY <1>1 DEF Unknown, Live
  <2>2. QED
    BY <1>1, <2>1, SameOpened DEF Inv
<1>6. Ordered' /\ Budget'
  BY <1>1, <1>2, SameOrdered, SameBudget DEF Inv, Live
<1>7. QED
  BY <1>2, <1>3, <1>4, <1>5, <1>6 DEF Inv

--------------------------------------------------------------------------------
(* The session closes.                                                     *)

\* Nothing is left of a session but its tombstones and its goroutines, of which
\* none begins.
Emptied ==
    /\ closed' = TRUE /\ closing' = FALSE
    /\ streams' = [id \in StreamIDs |-> NoStream]
    /\ pendingFrames' = << >> /\ pendingWindows' = [id \in StreamIDs |-> 0]
    /\ pendingCost' = 0 /\ pendingItems' = 0 /\ unacked' = << >>
    /\ UNCHANGED <<unackedBase, downCursor, downActive, upVars>>
    /\ \A b \in Backends :
         /\ backends'[b].id = backends[b].id
         /\ \/ backends'[b].phase = backends[b].phase /\ backends'[b].w = backends[b].w
            \/ backends'[b].phase = "finished" /\ backends[b].phase # "unused"

\* Such a step keeps the invariant.
LEMMA EmptiedInv ==
    ASSUME Inv, ~Locked, Emptied, BackendTypes', Ringed', TombTypes',
           \A id \in StreamIDs : Unknown(id) => id \notin closedStreams'
    PROVE  Inv'
<1> USE DEF Emptied
<1>1. \A id \in StreamIDs : streams'[id] = NoStream /\ ~Live(id)'
  BY DEF Live, NoStream
<1>2. /\ Uplinked' /\ UpTypes' /\ UNCHANGED <<lastUpSequence, lastUpDigest, opens>>
      /\ Held'.cost = 0 /\ Held'.items = 0
  BY UnlockedStep DEF Inv
<1>3. Typed'
  <2>1. NoStream \in StreamState
    BY Limits DEF NoStream, StreamState
  <2>2. StreamTypes'
    BY <2>1 DEF StreamTypes
  <2>3. QueueTypes' /\ CostTypes'
    BY DEF QueueTypes, CostTypes
  <2>4. PollTypes'
    BY DEF Inv, Typed, PollTypes
  <2>5. CommitTypes' /\ OpenTypes'
    BY <1>2, SameTypes DEF Inv
  <2>6. QED
    BY <1>2, <2>2, <2>3, <2>4, <2>5 DEF Typed
<1>4. Linked'
  <2>1. \A b \in Backends :
          /\ backends'[b].phase # "unused" => backends'[b].id \in StreamIDs
          /\ backends'[b].phase \in {"dialing", "dialed"} => backends'[b].w = "next"
    BY DEF Inv, Linked
  <2>2. QED
    BY <1>1, <2>1 DEF Linked
<1>5. Opened'
  <2>1. \A id \in StreamIDs : Unknown(id) => Unknown(id)'
    BY <1>1 DEF Unknown
  <2>2. QED
    BY <1>2, <2>1, SameOpened DEF Inv
<1>6. Ordered'
  <2>1. ClosesLast' /\ Parked' /\ WindowsIndexed'
    BY <1>1 DEF ClosesLast, Parked, WindowsIndexed
  <2>2. (unacked \o pendingFrames)' = << >>
    OBVIOUS
  <2>3. NothingAfterClose'
    BY <2>2 DEF NothingAfterClose
  <2>4. QED
    BY <2>1, <2>3 DEF Ordered
<1>7. Ledgers'
  BY <1>1 DEF Ledgers
<1>8. Budget'
  <2> DEFINE s == streams'
  <2>1. \A id \in StreamIDs : s[id].pendingWriteCost = 0 /\ s[id].pendingWriteItems = 0
    BY <1>1 DEF NoStream
  <2> HIDE DEF s
  <2>2. \A id \in StreamIDs : WriteCosts(s)[id] = 0 /\ WriteItems(s)[id] = 0
    BY <2>1 DEF WriteCosts, WriteItems
  <2>3. Total(StreamIDs, WriteCosts(s)) = 0 /\ Total(StreamIDs, WriteItems(s)) = 0
    BY <2>2, Limits, TotalZero
  <2>4. CostExact'
    <3>1. CostOf(pendingFrames') = 0 /\ CostOf(unacked') = 0
      BY CostEmpty
    <3>2. QED
      BY <1>2, <2>3, <3>1 DEF CostExact, s
  <2>5. ItemsExact'
    <3>1. Len(pendingFrames') = 0 /\ Len(unacked') = 0
      BY CostEmpty
    <3>2. QED
      BY <1>2, <2>3, <3>1 DEF ItemsExact, s
  <2>6. ClosedHoldsNothing'
    BY <1>1 DEF ClosedHoldsNothing
  <2>7. QED
    BY <2>4, <2>5, <2>6 DEF Budget
<1>9. QED
  BY <1>2, <1>3, <1>4, <1>5, <1>6, <1>7, <1>8 DEF Inv

\* Close, by the client, cleanup, shutdown, or after a failure.
LEMMA CloseInv ==
    ASSUME Inv, Close
    PROVE  Inv'
<1> DEFINE Closes(b) == \E id \in StreamIDs : streams[id].backend = b
<1>1. /\ ~Locked /\ CloseLocked
      /\ UNCHANGED <<tombVars, unackedBase, downCursor, downActive, upVars>>
  BY DEF Close
<1>2. /\ closed' = TRUE /\ closing' = FALSE
      /\ streams' = [id \in StreamIDs |-> NoStream]
      /\ backends' = [b \in Backends |-> IF Closes(b) THEN ClosedBackend(b) ELSE backends[b]]
      /\ pendingFrames' = << >> /\ pendingWindows' = [id \in StreamIDs |-> 0]
      /\ pendingCost' = 0 /\ pendingItems' = 0 /\ unacked' = << >>
  BY <1>1 DEF CloseLocked
<1> HIDE DEF Closes
<1>3. \A b \in Backends :
        /\ backends'[b] \in BackendState
        /\ backends'[b].id = backends[b].id
        /\ backends'[b].phase = backends[b].phase /\ backends'[b].w = backends[b].w
  <2>1. \A b \in Backends : backends[b] \in BackendState
    BY DEF Inv, Typed, BackendTypes
  <2>2. \A b \in Backends :
          /\ ClosedBackend(b) \in BackendState
          /\ ClosedBackend(b).id = backends[b].id
          /\ ClosedBackend(b).phase = backends[b].phase /\ ClosedBackend(b).w = backends[b].w
    BY ClosedBackendType DEF Inv
  <2>3. QED
    BY <1>2, <2>1, <2>2
<1>4. BackendTypes'
  BY <1>2, <1>3 DEF BackendTypes
<1>5. Emptied
  BY <1>1, <1>2, <1>3 DEF Emptied
<1>6. Ringed' /\ TombTypes'
  <2>1. \A id \in StreamIDs : ~Live(id)'
    BY <1>2 DEF Live, NoStream
  <2>2. QED
    BY <1>1, <2>1, SameRinged, SameTypes DEF Inv
<1>7. \A id \in StreamIDs : Unknown(id) => id \notin closedStreams'
  BY <1>1 DEF Unknown, tombVars
<1>8. QED
  BY <1>1, <1>4, <1>5, <1>6, <1>7, EmptiedInv

\* backendClosed when its CLOSE does not fit: the session closes.
LEMMA ClosedFailsInv ==
    ASSUME Inv, NEW b \in Backends, NEW answer \in Answers, BackendClosedFails(b, answer)
    PROVE  Inv'
<1> DEFINE x == backends[b].id
           new == [backends[b] EXCEPT !.phase = "finished", !.cancelled = TRUE]
           Closes(c) == \E i \in StreamIDs : streams[i].backend = c
<1>1. /\ BackendEnding(b) /\ StreamOf(b).backend = b
      /\ RememberClosed(x)
      /\ closed' = TRUE /\ closing' = FALSE
      /\ streams' = [i \in StreamIDs |-> NoStream]
      /\ backends' = [c \in Backends |->
            IF c = b THEN new ELSE IF Closes(c) THEN ClosedBackend(c) ELSE backends[c]]
      /\ pendingFrames' = << >> /\ pendingWindows' = [i \in StreamIDs |-> 0]
      /\ pendingCost' = 0 /\ pendingItems' = 0 /\ unacked' = << >>
      /\ UNCHANGED <<unackedBase, downCursor, downActive, upVars>>
  BY DEF BackendClosedFails, Backend
<1>2. /\ x \in StreamIDs /\ backends[b] \in BackendState
      /\ backends[b].phase = "running" /\ ~Locked /\ Live(x)
  BY <1>1, EndingStream
<1>3. new \in BackendState /\ new.id = x /\ new.phase = "finished"
  BY <1>2 DEF BackendState
<1> HIDE DEF Closes, new
<1>4. \A c \in Backends :
        /\ backends'[c] \in BackendState
        /\ backends'[c].id = backends[c].id
        /\ \/ backends'[c].phase = backends[c].phase /\ backends'[c].w = backends[c].w
           \/ backends'[c].phase = "finished" /\ backends[c].phase # "unused"
  <2>1. \A c \in Backends : backends[c] \in BackendState
    BY DEF Inv, Typed, BackendTypes
  <2>2. \A c \in Backends :
          /\ ClosedBackend(c) \in BackendState
          /\ ClosedBackend(c).id = backends[c].id
          /\ ClosedBackend(c).phase = backends[c].phase /\ ClosedBackend(c).w = backends[c].w
    BY ClosedBackendType DEF Inv
  <2>3. QED
    BY <1>1, <1>2, <1>3, <2>1, <2>2
<1>5. BackendTypes'
  BY <1>1, <1>4 DEF BackendTypes
<1>6. Emptied
  BY <1>1, <1>4 DEF Emptied
<1>7. /\ Ringed' /\ TombTypes' /\ closedStreams' \subseteq closedStreams \cup {x}
  <2>1. \A id \in StreamIDs : Live(id)' => Live(id) /\ id # x
    BY <1>1 DEF Live, NoStream
  <2>2. QED
    BY <1>1, <1>2, <2>1, RingStep DEF Inv
<1>8. \A id \in StreamIDs : Unknown(id) => id \notin closedStreams'
  BY <1>2, <1>7 DEF Unknown
<1>9. QED
  BY <1>2, <1>5, <1>6, <1>7, <1>8, EmptiedInv

--------------------------------------------------------------------------------
(* Every step keeps the invariant.                                         *)

\* A step of ProcessUp.
LEMMA ProcessUpInv ==
    ASSUME Inv, ProcessUp
    PROVE  Inv'
<1>1. CASE UpReject
  BY <1>1, RejectInv
<1>2. CASE \E body \in Batches : UpBegin(body)
  BY <1>2, BeginInv
<1>3. CASE UpRelock
  BY <1>3, RelockInv
<1>4. CASE UpValidateFrame
  BY <1>4, ValidateInv
<1>5. CASE \E answer \in Answers : UpReserve(answer)
  BY <1>5, ReserveInv
<1>6. CASE UpSkip
  BY <1>6, SkipInv
<1>7. CASE UpOpen
  BY <1>7, OpenInv
<1>8. CASE \E admitted \in Answers, answer \in Answers : UpOpenRejected(admitted, answer)
  BY <1>8, OpenRejectedInv
<1>9. CASE UpData
  BY <1>9, DataInv
<1>10. CASE UpWindow
  BY <1>10, WindowInv
<1>11. CASE UpClose
  BY <1>11, CloseFrameInv
<1>12. CASE UpPanic
  BY <1>12, PanicInv
<1>13. CASE UpCommit
  BY <1>13, CommitInv
<1>14. QED
  BY <1>1, <1>2, <1>3, <1>4, <1>5, <1>6, <1>7, <1>8, <1>9, <1>10, <1>11, <1>12, <1>13
  DEF ProcessUp

\* A step of Poll.
LEMMA PollStepInv ==
    ASSUME Inv, PollStep
    PROVE  Inv'
<1>1. CASE PollRejected
  BY <1>1, RejectInv
<1>2. CASE \E count \in 1 .. Len(pendingFrames) : PollArrives(count)
  BY <1>2, PollArrivesInv
<1>3. CASE PollParks
  BY <1>3, PollParksInv
<1>4. CASE \E count \in 1 .. Len(pendingFrames) : PollTakes(count)
  BY <1>4, PollTakesInv
<1>5. CASE PollLeaves
  BY <1>5, PollLeavesInv
<1>6. QED
  BY <1>1, <1>2, <1>3, <1>4, <1>5 DEF PollStep

\* A step of a backend.
LEMMA BackendInv ==
    ASSUME Inv, NEW b \in Backends, BackendStep(b)
    PROVE  Inv'
<1>1. Typed /\ Linked
  BY DEF Inv
<1>2. CASE BackendDialed(b) \/ BackendDialFailed(b) \/ BackendStores(b)
  <2>1. Quiet(b)
    BY <1>1, <1>2, DialQuiet
  <2>2. QED
    BY <2>1, QuietInv
<1>3. CASE \/ \E n \in 1 .. Backend(b).left : BackendWrite(b, n)
           \/ BackendWriteFails(b)
           \/ NextReadAllowance(b)
           \/ \E n \in 1 .. Backend(b).allowance : BackendRead(b, n)
           \/ BackendReadEnds(b)
  <2>1. Quiet(b)
    BY <1>1, <1>3, ConnectionQuiet
  <2>2. QED
    BY <2>1, QuietInv
<1>4. CASE BackendGone(b)
  <2>1. Quiet(b)
    BY <1>1, <1>4, GoneQuiet
  <2>2. QED
    BY <2>1, QuietInv
<1>5. CASE NextWrite(b)
  BY <1>5, NextWriteInv
<1>6. CASE \E answer \in Answers : BackendDrained(b, answer)
  BY <1>6, DrainedInv
<1>7. CASE BackendWriteFinished(b)
  BY <1>7, WriteFinishedInv
<1>8. CASE \E answer \in Answers : BackendData(b, answer)
  BY <1>8, DataDeliveredInv
<1>9. CASE \E answer \in Answers : BackendClosed(b, answer)
  BY <1>9, BackendClosedInv
<1>10. CASE \E answer \in Answers : BackendClosedFails(b, answer)
  BY <1>10, ClosedFailsInv
<1>11. QED
  BY <1>2, <1>3, <1>4, <1>5, <1>6, <1>7, <1>8, <1>9, <1>10 DEF BackendStep

\* Nothing happens.
LEMMA StutterInv ==
    ASSUME Inv, UNCHANGED vars
    PROVE  Inv'
<1>1. Typed /\ Linked /\ Ringed /\ Uplinked /\ Opened /\ Ordered /\ Ledgers /\ Budget
  BY DEF Inv
<1>2. /\ UNCHANGED <<closeVars, streams, tombVars, queueVars, costVars, pollVars, upVars,
                     backends>>
      /\ UNCHANGED <<closed, up, opens, closedStreams, pendingFrames, pendingWindows,
                     unacked, downActive, lastUpSequence, lastUpDigest, pendingCost, pendingItems>>
      /\ \A id \in StreamIDs : Live(id)' <=> Live(id)
      /\ \A id \in StreamIDs : Unknown(id)' <=> Unknown(id)
  BY DEF vars, closeVars, tombVars, queueVars, costVars, pollVars, upVars, Live, Unknown
<1>3. Typed'
  BY <1>1, <1>2, SameTypes DEF Typed
<1>4. Linked' /\ Ringed' /\ Uplinked'
  BY <1>1, <1>2, SameLinked, SameRinged, SameUplinked
<1>5. Opened' /\ Ordered'
  BY <1>1, <1>2, SameOpened, SameOrdered
<1>6. Ledgers'
  BY <1>1, <1>2 DEF Ledgers
<1>7. Budget'
  BY <1>1, <1>2
  DEF Budget, CostExact, ItemsExact, ClosedHoldsNothing, Held, WriteCosts, WriteItems
<1>8. QED
  BY <1>3, <1>4, <1>5, <1>6, <1>7 DEF Inv

\* No step of a session breaks the invariant.
LEMMA NextInv == Inv /\ [Next]_vars => Inv'
<1> SUFFICES ASSUME Inv, [Next]_vars PROVE Inv'
  OBVIOUS
<1>1. CASE UNCHANGED vars
  BY <1>1, StutterInv
<1>2. CASE Close
  BY <1>2, CloseInv
<1>3. CASE ProtocolFailure
  <2>1. Close
    BY <1>3 DEF ProtocolFailure
  <2>2. QED
    BY <2>1, CloseInv
<1>4. CASE ProcessUp
  BY <1>4, ProcessUpInv
<1>5. CASE PollStep
  BY <1>5, PollStepInv
<1>6. CASE \E b \in Backends : BackendStep(b)
  BY <1>6, BackendInv
<1>7. QED
  BY <1>1, <1>2, <1>3, <1>4, <1>5, <1>6 DEF Next

--------------------------------------------------------------------------------
(* The theorems.                                                           *)

\* Inv is an invariant.
THEOREM Invariance == Spec => []Inv
<1>1. QED
  BY InitInv, NextInv, PTL DEF Spec

\* Every field keeps its type, whatever batches come, are refused or fail half
\* way: in particular pendingCost and pendingItems never go below zero, and
\* every pointer of a stream is one of the backends.
THEOREM TypeCorrect == Spec => []TypeOK
<1>1. Inv => TypeOK
  BY Parts DEF Inv
<1>2. QED
  BY <1>1, Invariance, PTL

\* The ring of rememberClosedLocked holds the tombstones, each once, and no
\* live stream is one of them.
THEOREM TombstonesAreTheRing == Spec => []TombstoneRing
<1>1. Inv => TombstoneRing
  BY DEF Inv, Ringed
<1>2. QED
  BY <1>1, Invariance, PTL

\* What a live stream may still receive and what waits for its backend make up
\* the initial window, and what waits is what its writer has or will take.
THEOREM LedgerHolds == Spec => []StreamLedger
<1>1. Inv => StreamLedger
  BY Parts DEF Inv
<1>2. QED
  BY <1>1, Invariance, PTL

\* The session is charged for its queue, its unacknowledged batch, the batch
\* being applied and the writes of its live streams, and for nothing else; a
\* closed session is charged for nothing.
THEOREM BudgetIsExact == Spec => []BudgetExact
<1>1. Inv => BudgetExact
  BY Parts DEF Inv
<1>2. QED
  BY <1>1, Invariance, PTL

\* Nothing follows the CLOSE of a stream whose id is opened once, and
\* pendingWindows finds the last WINDOW of every stream, whatever queueFrameLocked,
\* nextBatchLocked and backendClosed do to the queue.
THEOREM QueueInOrder == Spec => []QueueWellFormed
<1>1. Inv => QueueWellFormed
  BY DEF Inv, Ordered, QueueWellFormed
<1>2. QED
  BY <1>1, Invariance, PTL
================================================================================
