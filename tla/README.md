# A TLA+ verification of tproxy-server

tproxy-server is the relay half of a WEB proxy: a page in the app's WebView (the
*bridge page*) carries the app's proxy connections as frames over HTTPS requests or
WebSockets to a Go process, which multiplexes them onto TCP connections to a local
MTProxy. This directory holds TLA+ models of the relay's core, the TLC instances that
check them and TLAPS proofs about the session, the reliability protocol, the lane carriers,
the session manager, the bridge page and the panel that manages the keys of the proxy.

## 1. The system

| component | source | state | operations |
|---|---|---|---|
| session | `internal/session/session.go` | streams, tombstones, downlink queue and replayable batch, cursors and sequence, pending charge | ProcessUp, Poll, backend callbacks, Close |
| backend streams | `session.go` (`backendStream`) | a dial, a writer loop, a reader loop, a context | run, writeLoop, readLoop, close |
| lane carriers | `session.go` (`carrierLane`) | the same per stream id | ProcessUpLane, PollLane, Acquire/ReleaseWebSocketLane |
| manager | `internal/session/manager.go` | bootstraps, sessions, closed tokens, counts, process-wide charge, rates | IssueBootstrap, Create, CloseToken, callbacks, cleanupLoop, Shutdown |
| frame codec | `internal/frame/frame.go` | none | ParseAll, ValidateClientShape, Encode |
| HTTP gateway | `internal/server/*.go` | none of its own | serveSession, serveUp, serveDown, serveWebSocket, routing |
| bridge page | `internal/bridge/page.go` | queues with their counts, sequence, cursor, lanes, sockets, timers | createSession, queueCarrier, joinPending, request, runUp, poll, finishWebSocketLane, close |
| configuration, tokens, process | `internal/config`, `token.go`, `cmd` | read once | load, validate, start, stop |
| keys panel | `keys-panel/*.go` | profile, registry, metadata and environment files; the services that have read them | AddKeys, RevokeKey, RotateKey, Apply, Sync, chooseBackend |

How they interact. The page exchanges a *bootstrap* for a session (`Create`), posts
numbered batches of frames (`serveUp` -> `ProcessUp`) and long-polls with a cursor
(`serveDown` -> `Poll`). `OPEN` asks the manager for a stream and starts a goroutine that
dials the backend and runs a writer and a reader; both call back into the session, which
queues DATA, WINDOW and CLOSE for the next poll. Every queued byte and item is charged
to the session and, through a callback, to the process-wide budget. Closing a session
(DELETE, idleness, a protocol failure, shutdown, a CLOSE that does not fit) drops what it
holds and calls the manager back in a goroutine of its own. The keys panel is a program of
its own: a command line and a web server that rewrite the relay's profiles and each MTProxy
backend's secrets and restart what has changed.

What is hard: `ProcessUp` unlocks in the middle; a poll waits in a `select` and can be
superseded by a newer one while a wake-up token is in flight; requests are retried,
delayed, reordered and lost; a batch may be refused, or applied in part; backends end at
any time; charges move between five holders; callbacks arrive after their session is
gone; the page can be closed while it waits for anything; the panel changes several files
and services one by one, without a lock, and any of these steps can fail. `PROJECT.json` lists each such hazard at its line with the properties aimed at it.

What makes a component correct:

- session: the flow-control ledger and the budget are exact, a closed session holds
  nothing, nothing follows a CLOSE, tombstones stop late frames, cancelled backends end;
- uplink and downlink: exactly once and in order, nothing forgotten before it is
  acknowledged, no lost wake-up, and in the end delivery or closing;
- manager: every count equals the objects it counts, a bootstrap makes one session, a
  shutdown finds everything and returns;
- bridge page: its counts are those of its queues, bodies carry what the app sent, every
  stream's end is told once, a closed page leaves nothing open;
- keys panel: between calls files and services agree, no backend gets more secrets than it
  takes, nobody's connections are cut whose keys stay, a revoked secret is gone.

## 2. The modules

| module | models | checked by |
|---|---|---|
| `Session` | one session of a multiplexed carrier (https, websocket), one action per critical section of `Session.mu` | `MCSession`, four configurations, `SessionProofs` |
| `Channel` | what one direction of a carrier promises: numbered items, each delivered once and in order, until either side ends without the other knowing | refined by the next two |
| `Downlink` | Poll, serveDown and the page's poll loop over an unreliable network | `MCDownlink`, `DownlinkProofs` |
| `Uplink` | ProcessUp's sequence rules, serveUp and the page's runUp loop over an unreliable network | `MCUplink`, `UplinkProofs` |
| `Lanes` | one session of a lane carrier (https-lanes, websocket-lanes) with the gateway's socket handler, reader and writer | `MCLanes`, three configurations, `LanesProofs` |
| `Manager` | the session manager, one action per critical section of `Manager.mu` | `MCManager`, `ManagerProofs` |
| `Page` | the script of the bridge page for all four carriers, one action per task of the browser | `MCPage`, `PageProofs` |
| `KeysPanel` | the keys panel, two clients at once, one action per file written, service restarted or check made | `MCKeysPanel`, `KeysPanelProofs` |
| `Sums` | a sum over a finite set, as the number of its units | used by `Lanes`, `Session` and `Page` |
| `Counting` | lemmas: a finite set's size when elements come and go, a sum when values change | used by the proofs |

The views of a session fit together like this. `Session` has the data: streams,
budget, queues; its polls and uplink calls are those of one well-behaved or ill-behaved
client, with no network. `Downlink` and `Uplink` have the protocol around it: many
requests under way, the page's loops, the network; there frames and batches are numbers,
and the outcome of a batch (applied, refused, invalid, applied in part) is a choice.
`Lanes` has what the lane carriers do differently, and keeps of the streams only their
charge.
`Manager` has what the session calls back into; in `Session` those callbacks answer
anything in `Answers`.
`Page` has what the page does around the two protocols: in it a request is answered or
has failed for good, and `Uplink` and `Downlink` have what becomes of it on the way.
`KeysPanel` stands alone; it ends where the relay and MTProxy read their files.

### Session

Payloads are lengths; the digest of a body is the body. Variables keep the names of the
Go fields. `closing` is set between the unlock of a call that found a failure and the
`protocolFailure` or `Close` it goes on to make: anything may happen in between. `up` is
the call that has set `upActive`: it parses without the mutex (`pc = "parse"`) and then
holds it (`Locked`) while it validates and applies one frame per step; other critical
sections wait. `backends[b]` is a goroutine with its writer (`w`) and its reader (`r`),
which block in the socket without the mutex. `conn` is its connection:
`BackendDialed` is DialContext returning, `BackendStores` the section under `connMu` that
stores the connection or, when the context has been cancelled meanwhile, closes it, and
`ClosedBackend` is backendStream.close. `UpPanic` is the nil dereference described
under findings; it leaves the mutex held, so nothing else of the session ever runs.

`opens` is history: how often each id has been opened, counted to two. PROTOCOL.md demands
that an id is never used again, but once its tombstone has left the ring the code accepts it. Two
statements are therefore about ids opened once only. Behind a CLOSE there may be frames of
the id's next stream (`NothingAfterClose`). And the writer of a forgotten stream may take a
write of the next one, since nextWrite looks the stream up by its id; the part of
`StreamLedger` that says what the writer has in hand leaves that out, the window and the
charge hold even then. `WindowsIndexed` is about one more rare path: when the sum
of two WINDOWs would exceed a uint32, queueFrameLocked queues a second one and
pendingWindows points at the later.

`CloseLocked` empties everything in one step, as the code does under the mutex.
`BackendClosedFails` is backendClosed whose CLOSE does not fit and which therefore closes
the session in the same critical section. WINDOW and DATA are coalesced exactly as
queueFrameLocked does; the partitions of the budget (uplink, downlink, control) are those
of `uplinkPendingLimits`, `downlinkPendingLimits` and `pendingControlReserve`.

### Downlink and Uplink

A request is `sent` (on its way, perhaps never to arrive), inside the relay, or
`answered` (its response on its way). A request the page has given up may still reach the
relay at any later time or vanish. `request()` retries a failed fetch until its attempts
run out, and waits on 503 within its time budget (`MaxWaits`); any other status fails the
page. `ClientStops` is `fail` or `close`: a body that breaks off after its headers, the
client closing its port, another part of the page failing.

Frames of the downlink are numbered in queue order, so the queue, the replayable batch
and a response body are intervals of numbers. `PollReceivesToken` is separate from what
the poll does once it has the mutex again: in between a newer poll may take over, which
is where a wake-up could be lost. In `Uplink`, `partial` records batches of which only
the first frames were applied; `MayBeValid` says such a batch is never valid again,
because the OPEN it failed at has left a tombstone (`Session`: `UpOpenRejected`,
`FrameValid`).

Both refine `Channel`. On the downlink an item leaves when a poll takes it (`taken`) and comes
out when the page posts it; the relay's side ends when the session closes, the page's when it
fails. On the uplink it leaves when the page queues a batch and comes out when the session
has applied it, and the two sides end the other way round. Neither side hears of the
other's end at once, and the code must let nothing go, or come out, after its own:
`closeLocked` empties pendingFrames before Poll looks at them, ProcessUp looks at
`closed` again when it has relocked.

Not in these models: WebSocket carriers (one ordered connection, no retries), the loops of
more than one lane at once (`Page` and `Lanes` have them), and a page that is already closed
but still retries one POST that was answered 503.

### Lanes

In https-lanes and websocket-lanes every stream id has a `carrierLane` with its own
sequence, cursor, queue and replayable batch. A lane is an object here as in Go:
`carrierLanes` maps an id to its object, a parked poll keeps the object it started with,
and the session may forget it and make another one for the same id. `LaneOver` is what a
poll finds then. `Forgotten` keeps of a forgotten lane only what a parked poll looks at,
its notification and the poll that is current.

A call of `ProcessUpLane` is one critical section (`upActive` is set and cleared inside
it), with one operator for each way it ends: `UpUnchanged` and `UpStops` apply nothing,
`UpApplies` commits, `UpRejects` answers an OPEN over a limit with a CLOSE. `res` is what
the caller goes on with. `closing` has the meaning it has in `Session`. A body is the sequence of
its frame types. The charge has one unit for each queued frame or write and one for each
byte of DATA, and a queue's cost is a sum over its frames (`Total`); the three partitions of the budget are the constants `MaxPending`,
`UplinkLimit` and `DownlinkLimit`, and the manager may refuse any charge. Whether DATA
fits the receive window is a choice (`Session` has the ledger). The tombstones are a
queue, which is what the ring is in `TombstoneRing`. Backends are only their callbacks;
those of a stream that is no longer live do nothing in the code and are left out.

For websocket-lanes `conns[c]` is the handler (`h`) with its reader (`r`), and `polls[c]`
its writer. The handler goes on to release the lane as soon as one of the two has
finished (`<-finished`) and does not wait for the other: the straggler may still be
inside the session, and the model lets it be: `ReaderReads` may take one more message of the
socket after the handler has released the lane, as readWebSocket does with what is buffered.

### Manager

Bootstraps, sessions and streams are numbered in order of creation, which stands for
tokens and hashes. All bootstraps live equally long, so they expire in that order
(`BootstrapExpires` is the clock). A session is registered from `Create` until
`sessionFinished`, closed or not. The token buckets of the rate limits answer anything,
which includes every answer they give; pending items obey the same rule as pending cost
and only cost is modelled.

### Page

A script runs to completion, so an action is a task: a message of the app, the end of a
request, an event of a socket, a timer. `queueMicrotask` makes the next body wait for the
end of the task but not for another one (`Idle`). The functions of the script are operators
from one state of the page to the next and call each other as the functions do; `Hello`,
`AppSends` and `AppLeaves` are the port's handlers, `UpAcked`, `UpFails`, `LaneClosed`,
`RelayCloses` and `CarrierFails` continue the asynchronous loops.

`page.stage` follows createSession through its awaits ("creating", "welcome", "opening"):
the page can close, and the app can send, at each of them. `page.lanes[q]` is a queue with
its body under way (`flight`), its poll and its socket; the multiplexed carriers use queue
0 alone. Frames have a type, an id and a size; `bodies`, `handed`, `told` and `ended` are
history. The app uses an id once, as PROTOCOL.md demands, so `closedLanes` is only the
"gone" of an entry. Frames the app sends before WELCOME, which the protocol does not
allow, are modelled: the token is set before they are queued, so a later message can
overtake them, and `BodiesInOrder` leaves those executions out (`overtaken`). `fail` does
not end the loop over the frames of a message, so the rest of the message can open a lane
and a socket on a page that has just closed; `ClosedPageLetsGo` shows that such a socket of a
lane never counts as open on the closed page (onopen looks, page.go:360) and is
closed as well, as soon as it opens or fails. In `Page` the relay tells a
lane's end sooner or later. One case of `Lanes` is therefore left out of it: a lane that is
evicted with its tombstone while its CLOSE is still queued, of which the page never hears.

### KeysPanel

A call is a record with a program counter. `AddKeys`, `RevokeKey`, `RotateKey` and `Sync`
load the files and make the candidate; `Validate`, `Install`, `SyncBackend` (one
environment file), `RestartUnit`, `RestartRelay` and `Ready` are Apply's steps, and
`StackFailed`, `Restore` and the same steps with `rollback` set are its way back.
`SyncFails` and `PutBack` are the other error path: when a file cannot be written Apply
writes the profiles back and returns. `running` and `relay` are what the services loaded
when they last started; systemd may restart any of them at any moment. A fault is a failed
check, write, restart or wait, a killed call or a reboot, `MaxFaults` of them anywhere.
Two clients interleave freely: the code has no lock.

A secret has a key and perhaps the "dd" prefix. Of an environment file `Text` keeps the set
of its secrets (calls keep the order of the profiles) and whether it is still as
`provision-mtproxy-backend.sh` wrote it (`fresh`): that text has neither the panel's header nor
the second secret line, so `upsertSecretArgs` changes it even when the list stays
empty, and `SyncBackend` compares texts as store.go:453-454 does. `Provision` is the helper, run by
an import that finds every backend full (`ProvisionBackend`, `ProvisionFails`) or by an
administrator ahead of time (`ProvisionByHand`). `overlapped` and `doubtful` are
history: two calls have overlapped; a step failed halfway, a call was cut short or
overlapped, and no Sync has succeeded alone since. What the model makes plain and no
property demands:

- a failed environment file (store.go:397-401) is followed by neither a resync nor a
  restart, although keys-panel/README.md:40-42 says so of any failure after the
  installation: files already rewritten keep the candidate's secrets until the next change;
- the first edit after a provisioning whose import was refused or killed, or that was done by
  hand, rewrites the new backend's file and restarts it with an empty list, before and after.
  store.go:434-436 and keys-panel/README.md:268 ("Only the backend(s) whose secret list actually
  changed get restarted") do not say so. The backend has no users yet; `OnlyAffectedRestart`
  is stated about those who would notice;
- if that restart fails, the rollback finds the rewritten file unchanged, leaves the new
  backend down and reports success: `Serving` lets a backend without secrets be down;
- overlapping calls lose updates, and can bring a revoked key back;
- a provisioning that failed halfway blocks all later ones until its file is removed, as
  the helper says.

## 3. What TLC checks

All configurations but `MCKeysPanel.cfg` say `CHECK_DEADLOCK FALSE`: a closed session or
page whose goroutines or requests have ended stops for good, and so do the bounded
counters.

| run | distinct states | shows |
|---|---|---|
| session_up | 3.8e4 | ledgers (`StreamLedger`, `BudgetExact`) for two streams that send, are granted credit, close and send late, with refusals by the manager; `CancelledBackendsEnd` |
| session_down | 1.2e6 | `BudgetExact`, `QueueWellFormed` (the indices of pendingWindows, nothing behind a CLOSE) for two streams that receive; `TombstoneRing` with one tombstone for two ids, so that the ring wraps and an id is opened twice |
| downlink | 3.3e5 | exactly once in order, acknowledged is received, newest poll wins, implements `Channel`, `WaiterServed` (no lost wake-up), `FramesArrive`; three polls at once |
| uplink | 8.7e4 | exactly once in order, acknowledged is applied, implements `Channel`, `BatchesArrive`; three requests at once |
| lanes | 2.4e5 | https-lanes: `LaneChargeExact`, `WakeUpOwed` (no lost wake-up, also by eviction), `LaneClosedComesLast`; two streams, lane zero, two polls at once |
| lanes_ws | 3.9e5 | websocket-lanes: the same ledger, `LiveStreamHasLane`, `ClosedLaneDetaches` (the end of a stream ends its socket); two sockets for one id |
| manager | 6.4e5 | `CountsExact`, a bootstrap names its session, a returned shutdown is complete, and it returns |
| page | 2.0e5 | `QueueExact`, `BodiesInOrder`, `EveryEndIsTold`, `ClosedPageLetsGo`; four carriers, four messages |
| keys | 4.0e6 | `QuietMeansInService`, `SecretsFit`, `OnlyAffectedRestart`, `RetiredStaysRetired`; two clients, three calls, two faults |
| session_late, session_reads, lanes_orphan | | the findings below |

Bounds. `Session`'s constants are the code's limits scaled down so that every limit is
met: a window of 3 with chunks of 2 makes writes join and split, a batch limit of 3
frames and 4 bytes makes the queue outlive a batch, 28 to 52 units of budget make each of
the three partitions fill up. In `session_down` a window and a largest WINDOW of 2 make the
second grant of a stream exceed what one WINDOW can say, and three backends let an id whose
tombstone has been evicted be opened again. `MaxBackends`, `MaxUpSequence` and `MaxDownCursor` bound
how long a session runs: three batches and two downlink batches let a stream be opened,
used, closed and mentioned again; `session_up`, which also checks liveness, has two. Three polls or requests are one more than two rivals:
a superseded one, its successor and a straggler. In `Lanes`, two ids with room for one
tombstone make the second close evict the first lane, with frames queued, unacknowledged
or polled; two sockets of one id and `MaxLanes` of 2 let an id be attached again while the
first socket is still ending. There `MaxDownCursor` bounds the batches that DATA may
fill, not those of WINDOW and CLOSE. A lane of `lanes` takes one body, a lane of `lanes_ws`
two, so a CLOSE from the client for a live stream is in the second run. The manager has
three bootstraps for a table of one (eviction), two addresses (a bootstrap exchanged from
another address), and a dial limit below the stream limit. It has one profile: with two the run
would take too long, and that counts per profile and counts of the process are not mixed up is
left to the theorem `CountsAreExact`.
In `Page` a body carries two frames and three bytes, so that items are joined and split;
the page's queue holds six bytes or three items and a lane's four bytes or two, so that
each of the four limits is met. The messages open two streams, use them together, overfill
both and close one. In `KeysPanel` two backends take two secrets each and the profiles
file takes three: the import of two keys fills the first backend and provisions the second,
which the rollback then empties. Two faults are a failure and a failure of its rollback.

Fairness. The Go scheduler runs a goroutine that can run (weak fairness of each step
that does not need the mutex). A step that waits for the mutex is strongly fair: other
critical sections disable it again and again, and `sync.Mutex` in starvation mode hands
the lock to a waiter after a millisecond. A dial ends by its timeout. A Read or Write on
a closed connection returns, one on an open connection may block for ever, and nothing
is assumed of it. In `Downlink` and `Uplink` a request arrives or is lost, and the page's
loop goes on; neither the poll's deadline nor a cancellation is relied on. In `Lanes` a
select that is ready proceeds, and so do handlers, writers and a reader that holds a
message; a Read may wait for ever; a reader that retries under backpressure gives up
in the end (strong fairness of `ReaderGivesUp`, the deadline of 30 s in readWebSocket).
In `Manager` a
stream of a closed session ends, which is what `CancelledBackendsEnd` checks of
`Session`. `session_up` runs with two tombstones for two ids, where `UpPanic` cannot
happen: after it the mutex is never free again and the property fails, which is part
of the finding below. In `Page` the assumptions are about states, not steps: a request ends
(request's deadline), a socket that connects or closes gets there, and the relay closes
the sockets of a session that has been deleted (`keepalive` makes the DELETE outlive the
page; it is assumed to arrive, since the page sends it once and looks no further). The steps
that end these states stay possible until one of them is taken.

### Findings

- `session_late`: a batch that closes (or is refused) a stream and later mentions an
  older tombstoned one passes validation, but the first frame evicts the tombstone the
  second one needs, and applyBatchLocked dereferences a nil stream with the mutex held.
  It takes a full ring (4096 closed ids).
- `session_reads`: an allowance to read is not a reservation. While the reader of a stream is in
  its Read, the stream's own writer drains and `BackendDrained` queues a WINDOW, which uses
  the room the reader was promised; its bytes no longer fit and the stream is closed instead of
  paused.
- `lanes_orphan`: the handler of a lane socket releases the lane while its reader may
  still hold a message. If no OPEN was applied before, the release leaves no tombstone,
  and the reader's OPEN then makes a lane and a stream that no socket serves: its backend
  connection stays until it ends by itself or the session does. PROTOCOL.md says that
  closing a lane closes its backend stream.

## 4. What TLAPS proves

For every value of the constants that the named assumptions of the modules allow (limits
and bounds are natural numbers, `None` is no request, an import names at least one
profile, and so on):

- `SessionProofs`: `TypeCorrect`, `TombstonesAreTheRing`, `LedgerHolds`, `BudgetIsExact`,
  `QueueInOrder`.
- `DownlinkProofs`: `TypeCorrect`, `DeliversExactlyOnceInOrder`,
  `AcknowledgesOnlyReceived`, `NewestPollWins`, `Refinement` (implements `Channel`).
- `UplinkProofs`: `TypeCorrect`, `AppliesExactlyOnceInOrder`, `AcknowledgesOnlyApplied`,
  `AtMostOneParser`, `Refinement`.
- `ManagerProofs`: `TypeCorrect`, `CountsAreExact`, `LinksHold`, `ShutdownIsComplete`.
- `LanesProofs`: `TypeCorrect`, `ChargeIsExact`, `LiveStreamsKeepLanes`, `NoWakeUpLost`,
  `LaneClosedIsLast`.
- `PageProofs`: `TypeCorrect`, `AccountingIsExact`, `BodiesKeepOrder`, `EndsAreTold`.
- `KeysPanelProofs`: `TypeCorrect`, `SecretsAlwaysFit`, `QuietServes`,
  `OthersAreLeftAlone`, `RetiredNeverReturns`.

The argument for the session. None of its invariants is inductive alone; `Inv` has eight
parts, and a lemma per action shows that all of them survive.

- `Typed`: the types, with those of a writer's and a reader's state.
- `Linked`: the goroutine of a live stream has that stream's id and has not ended, so that
  two streams never share one.
- `Ringed`: `TombstoneRing`, and the ring's start is one of its places.
- `Uplinked`: what a call may rely on between its first validated and its last applied
  frame. Each checked frame has changed the snapshot of the windows as a valid frame does
  (`Snapshots`), the snapshot begins with the live streams (`Validating`), and while the batch
  is applied the live streams are those of the snapshot at that frame (`Applies`). Without it no
  window could be shown not to wrap.
- `Opened`: nothing names an id that has never been opened, and an id opened once has one
  goroutine.
- `Ordered`: `NothingAfterClose` and `WindowsIndexed`, with the fact that no CLOSE of
  a live stream opened once is on its way (`ClosesLast`), and that nothing is unacknowledged
  while a poll waits (`Parked`).
- `Ledgers`: `StreamLedger`.
- `Budget`: the charge is the cost of the queue, of the replayable batch, of what is left of a
  batch under way and of the writes of the live streams.

The sum over the streams is a `Total` (`Sums`), of which `Counting` has the lemmas. The sum over
a queue is a recursive function of its length; that taking a prefix, appending, joining two
DATA frames or filtering a stream out changes it by what was moved is proved by
induction: the least length at which a statement fails cannot exist. The library's
induction theorems take an operator as a parameter and cannot be used here, a statement
about concrete functions can be proved so.

The proof corrected the model's properties twice. `WindowsIndexed` used to say
that a stream has one WINDOW in the queue, which the overflow above refutes; and the two
statements about ids opened once used to be about all ids, which held in the runs
only because no id could be opened again within their bounds. `session_down` now has bounds
that reach both.

The argument for the downlink. `ExactlyOnceInOrder` alone is not inductive: it says
nothing of the answers under way. The invariant `IInv` adds that the page is either level
with the relay or exactly the replayable batch behind (`ClientInv`), that the current
waiter holds the current cursor and nothing is unacknowledged while it waits
(`WaiterInv`), and that no request is ahead of the page and every answer that carries the
page's own cursor is the replayable batch (`RequestInv`). Stale answers carry an older
cursor and belong to requests the page has given up. A step that takes a batch first
shows the page level with the relay, because only the page's cursor could have
acknowledged.

For the uplink, `IInv` says that the applied batches are 1 to `lastUpSequence` and a
partly applied one is beyond them (`LogInv`), that the page is level with the relay or
one acknowledgement behind (`ClientInv`), that the request it waits for is its own
(`OwnRequest`), and that every request carries the batch of its sequence, at most the
next one, and an acknowledgement only for a committed one (`RequestOK`).

Both proofs have a lemma per action and close with the refinement, step by step: on the
downlink a batch that a poll takes is `Send` and a posted body is `Deliver`, on the uplink
a queued batch is `Send` and an applied one is `Deliver`; the session's closing and
the page's failure are `SenderEnds` and `ReceiverEnds`, or the other way round. That a failed page
posts nothing more needs that it waits for no request (`FailedWaitsForNone`).

For the manager, each group of counters has an invariant of its own that only some
actions disturb: the unused bootstraps of an address; the registered sessions of an
address and of a profile; streams and dials, which need that a running stream's session
was once made (`OwnersInv`); the charges, which are zero for a session that is not open.
`LinksInv` adds to `BootstrapNamesItsSession` that the bootstrap of a session is spent,
which is why no second session can come from it. `ShutdownInv` says of a shutdown under
way that every open session is in its snapshot. Every counter is compared with the size
of a set; the process-wide charge with the number of units all sessions hold
(`Charges`), so that a sum becomes a count.

For the lanes, `LaneChargeExact` is not inductive: that a release or an eviction returns
exactly what a lane holds needs that no other id has the same lane, that a lane in no
place of the table holds nothing, so that one that is made starts from nothing, and that
while a poll waits nothing is unacknowledged (`TableInv`). `ChargeInv` states the charge
as a sum over all lanes and all streams, whose set does not change, and `ExactOf` takes
it back to the known lanes and the live streams. `Total` is the number of units of a sum:
what one change does to it is proved by counting (`Counting`), where a fold would need
induction over the set. Taking a batch moves cost from the queue to the replayable frames
(`CostCut`), queueing adds `QueueCost`, whether the frame joins another one or not
(`QueuedIs`). `LiveStreamHasLane` is needed for the charge as well: a stream that is
evicted with its tombstone must not be live.

Every step is one of eight shapes (`Serves`: the session closes, a lane is made or
changed, an id is remembered, a frame is queued, a byte is written, a lane is released,
or nothing; and `Polls`, a poll changes the lane it is at), and each shape preserves
`SessionInv`. For the wake-ups a step either leaves the polls alone (`Stays`), and then
`ServesWakes` shows that whatever gives a poll of a lane a reason to return (`Quiet`) also
leaves a token there, or it is one of a poll (`Goes`), and then `Wakes` lists why nobody
is left waiting: the lane has no current poll any more, a token is there, the poll itself
has looked and found no reason, it holds the token, or it changes nothing and held none.
`Tells` says the same of X-Lane-Closed, for `LaneClosedComesLast`.

For the keys panel, the actions fall into seven shapes (a call starts, places a profile,
passes its checks, works, ends; a backend is provisioned by hand; or the host acts), and each invariant is proved over the
shapes. The types need that a provisioned backend has room, so that an import always finds
one, and `PlacedInv` that every profile is on a registered backend. `FitsInv` says that every
file a call may still install, or go back to, fits. `ServiceInv` is the heart: a call that
runs alone and without doubt holds, at each program counter, as much of "files and
services agree with the target" as it has established (`EditPhase` for an edit and its
rollback, `SyncPhase` for a Sync, which starts from nothing). It needs `AloneInv`: without
doubt at most one call runs. `EnvInv` says that a file of the helper has no secrets, so
that an edit may restart its backend and a rollback never meets such a file. `RetiredInv` needs `KeysInv` (no two profiles share a key, and
a new key is new) and says that no file a call could install or restore holds a retired one.

For the page, none of the three invariants is inductive: each handler is a chain of operators,
and in the middle of a chain a page can be charged for a frame it has not yet queued, or have
closed. `IInv` (`Held`) says of an open page that

- its lanes are in order (`LaneGood`: socket, poll, body and entry fit together, a lane
  that the map holds will hear from the relay) and the charge is exact (`PageCharged`, in `InOrder`);
- every queue carries what it was given (`Feeds`: nothing before it has a lane, all of it
  while it has one, a prefix afterwards) and a lane that has left was told to the app or
  ended by it (`Ends`), unless a message was overtaken;
- what was handed over before the session was up waits in the early messages (`Early`), the
  app was told exactly of what the relay or the page ended (`ToldOf`), and a stream begins
  with OPEN and ends with CLOSE (`AppOf`).

`Feeding` says of a step of a chain that it takes a page that is in order and follows the frames
given so far to one that follows the frames given then; two of them make one (`FeedingTwice`),
so that the loops of `queueCarrier` and of the early messages are proved by induction on the
number of frames and of messages. A page that closes on the way owes nothing more. The loops
are recursive functions of their length. That joining and splitting the items of a queue
leaves its frames as they were (`JoinedIs`, `JoinedCarries`) and its size what was charged
for it is shown once for every carrier; a frame is queued in its
stream's lane, so what a lane was given is the part of the messages that has its id (`OfStream`).

`OneParser` (upActive is set exactly while one call parses) is proved and not in a run's
configuration. It is what rules out an `upActive` left set: the run would not
notice one, since the page ends after its bounded waits and `BatchesArrive` then holds.

Only model-checked: liveness (fairness and ENABLED are beyond the prover). Every other
property that a run finds to hold is a theorem. `ValidatedBatchApplies`, `AllowedReadsFit` and the claim of
`lanes_orphan` are false (findings).

## 5. Not modelled, and the plan

Not modelled: tokens, site and secret routing, configuration, process start and the
installation scripts (stateless, or read once); rates and idle times (no clock: a refusal
or an idle close may come at any moment); byte layout of frames; the panel's labels, logins
and pages; the page's HTML and the messages about its status.

What would be worth doing next: the frame codec as operators checked against a reference
definition; a configuration of `KeysPanel` for the claim of its README about failures at
step 4, and one for the panel's lost updates.
