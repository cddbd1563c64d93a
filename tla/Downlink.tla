------------------------------- MODULE Downlink --------------------------------
(***************************************************************************)
(* The downlink of the https carrier, end to end: Session.Poll with its    *)
(* waiting, superseding and wake-ups (internal/session/session.go), the    *)
(* handler around it (serveDown in internal/server/server.go) and the      *)
(* polling loop of the bridge page (poll and request in                    *)
(* internal/bridge/page.go), over a network that delays, loses and         *)
(* reorders requests and responses.                                        *)
(*                                                                         *)
(* Frames are numbered in the order queueFrameLocked appends them, so the  *)
(* queue, the replayable batch and a response body are intervals:          *)
(* pendingFrames is taken+1 .. produced and unacked is acked+1 .. taken,   *)
(* both empty once the session is closed.                                  *)
(***************************************************************************)
EXTENDS Integers, Sequences, FiniteSets

CONSTANTS
    None,           \* no poll
    Polls,          \* requests that may be under way at once
    MaxFrames,      \* bound: frames the relay queues
    MaxBatch,       \* the most frames one batch carries
    MaxAttempts     \* failed attempts after which request() throws

ASSUME DownlinkAssumption ==
    None \notin Polls /\ MaxFrames \in Nat /\ MaxBatch \in Nat \ {0} /\ MaxAttempts \in Nat \ {0}

VARIABLES
    closed,         \* Session.closed
    produced, taken, acked,
    downCursor,     \* Session.downCursor
    unackedBase,    \* Session.unackedBase
    superseded,     \* the poll whose channel Session.superseded is, or None
    downActive,     \* Session.downActive
    notify,         \* a token is in Session.notify (capacity one)
    polls,          \* every request and the Poll call it becomes
    client,         \* the bridge page's loop
    received        \* what the page has posted to the client: frame numbers

streamVars == <<produced, taken, acked>>
cursorVars == <<downCursor, unackedBase>>
waitVars   == <<superseded, downActive, notify>>
serverVars == <<closed, streamVars, cursorVars, waitVars>>
vars == <<serverVars, polls, client, received>>

\* A request: on its way (sent), waiting in Poll's select (parked), out of the
\* select with a token (woken), or answered.  mine: its channel is closed.
NoPoll == [pc |-> "none", cursor |-> 0, mine |-> FALSE, kind |-> "none",
           from |-> 0, to |-> 0, next |-> 0]

PollState ==
    [pc : {"none", "sent", "parked", "woken", "answered"}, cursor : Nat,
     mine : BOOLEAN, kind : {"none", "empty", "batch", "error"},
     from : Nat, to : Nat, next : Nat]

ClientState ==
    [poll : Polls \cup {None}, cursor : Nat, attempts : Nat, failed : BOOLEAN]

\* Mutant: closeLocked keeps pendingFrames.
HasPendingKept == taken < produced

HasPending == ~closed /\ taken < produced
HasUnacked == ~closed /\ acked < taken

--------------------------------------------------------------------------------
(* The session.                                                            *)

\* queueFrameLocked: append and signal.
Produce ==
    /\ ~closed /\ produced < MaxFrames
    /\ produced' = produced + 1
    /\ notify' = TRUE
    /\ UNCHANGED <<closed, taken, acked, cursorVars, superseded, downActive,
                   polls, client, received>>

\* closeLocked: the queue and the batch are dropped and one waiter is woken.
CloseLocked == closed' = TRUE /\ notify' = TRUE

Close ==
    /\ ~closed /\ CloseLocked
    /\ UNCHANGED <<streamVars, cursorVars, superseded, downActive, polls, client,
                   received>>

Answer(p, kind, from, to, next) ==
    polls' = [polls EXCEPT ![p] = [@ EXCEPT !.pc = "answered", !.kind = kind,
                                     !.from = from, !.to = to, !.next = next,
                                     !.mine = FALSE]]

AnswerEmpty(p) == Answer(p, "empty", 0, 0, polls[p].cursor)
AnswerError(p) == Answer(p, "error", 0, 0, 0)

\* Mutant: the replay base is off by one.
TakesBatchBaseOff(p, to) ==
    /\ to - taken <= MaxBatch
    /\ taken' = to
    /\ downCursor' = downCursor + 1
    /\ unackedBase' = polls[p].cursor - 1
    /\ downActive' = FALSE /\ superseded' = None

\* takeDownBatchLocked and the assignments around it: frames taken+1 .. to.
TakesBatch(p, to) ==
    /\ to - taken <= MaxBatch
    /\ taken' = to
    /\ downCursor' = downCursor + 1
    /\ unackedBase' = polls[p].cursor
    /\ downActive' = FALSE /\ superseded' = None

TakeBatch(p) ==
    \E to \in taken + 1 .. produced :
      TakesBatch(p, to) /\ Answer(p, "batch", taken + 1, to, downCursor + 1)

\* Poll on a closed session, or with a cursor that is neither the current one
\* nor the one of the unacknowledged batch: protocolFailure.
PollRejected(p) ==
    /\ polls[p].pc = "sent"
    /\ IF closed THEN UNCHANGED <<closed, notify>>
       ELSE /\ polls[p].cursor # downCursor
            /\ HasUnacked => polls[p].cursor # unackedBase
            /\ CloseLocked
    /\ AnswerError(p)
    /\ UNCHANGED <<streamVars, cursorVars, superseded, downActive, client, received>>

\* Mutant: a replay also carries what was queued meanwhile.
PollReplaysAll(p) ==
    /\ polls[p].pc = "sent"
    /\ HasUnacked /\ polls[p].cursor = unackedBase
    /\ Answer(p, "batch", acked + 1, produced, downCursor)
    /\ UNCHANGED <<serverVars, client, received>>

\* The unacknowledged batch again, byte for byte.
PollReplays(p) ==
    /\ polls[p].pc = "sent"
    /\ HasUnacked /\ polls[p].cursor = unackedBase
    /\ Answer(p, "batch", acked + 1, taken, downCursor)
    /\ UNCHANGED <<serverVars, client, received>>

\* Mutant: the replay cursor acknowledges as well.
PollAdmittedLoosely(p) ==
    /\ polls[p].pc = "sent" /\ ~closed
    /\ polls[p].cursor = downCursor \/ (HasUnacked /\ polls[p].cursor = unackedBase)
    /\ acked' = taken

\* The current cursor acknowledges...
PollAdmitted(p) ==
    /\ polls[p].pc = "sent" /\ ~closed
    /\ polls[p].cursor = downCursor
    /\ ~(HasUnacked /\ polls[p].cursor = unackedBase)
    /\ acked' = taken

\* Mutant: the older waiter is not told.
SupersedeSilently(p, state) ==
    polls' = [q \in Polls |-> IF q = p THEN state ELSE polls[q]]

\* ...closes the channel of an older waiter, and p goes on in state.
Supersede(p, state) ==
    polls' = [q \in Polls |->
                IF q = p THEN state
                ELSE IF downActive /\ q = superseded THEN [polls[q] EXCEPT !.mine = TRUE]
                ELSE polls[q]]

PollTakesAtOnce(p) ==
    /\ PollAdmitted(p)
    /\ \E to \in taken + 1 .. produced :
         /\ TakesBatch(p, to)
         /\ Supersede(p, [polls[p] EXCEPT !.pc = "answered", !.kind = "batch",
                            !.from = taken + 1, !.to = to, !.next = downCursor + 1])
    /\ UNCHANGED <<closed, produced, notify, client, received>>

PollParks(p) ==
    /\ PollAdmitted(p) /\ ~HasPending
    /\ superseded' = p /\ downActive' = TRUE
    /\ Supersede(p, [polls[p] EXCEPT !.pc = "parked"])
    /\ UNCHANGED <<closed, produced, taken, cursorVars, notify, client, received>>

\* select: the notify token is received before the mutex is taken again.
PollReceivesToken(p) ==
    /\ polls[p].pc = "parked" /\ notify
    /\ notify' = FALSE
    /\ polls' = [polls EXCEPT ![p].pc = "woken"]
    /\ UNCHANGED <<closed, streamVars, cursorVars, superseded, downActive, client,
                   received>>

\* select: mine was closed by a newer poll.  The token it may have been owed
\* is passed on.
PollSuperseded(p) ==
    /\ polls[p].pc = "parked" /\ polls[p].mine
    /\ notify' = TRUE
    /\ AnswerEmpty(p)
    /\ UNCHANGED <<closed, streamVars, cursorVars, superseded, downActive, client,
                   received>>

\* Mutant: the token is not handed back.
PollWokenSupersededKeeps(p) ==
    /\ polls[p].pc = "woken" /\ superseded # p
    /\ AnswerEmpty(p)
    /\ UNCHANGED <<serverVars, client, received>>

\* After a token: hand it back when a newer poll has taken over...
PollWokenSuperseded(p) ==
    /\ polls[p].pc = "woken" /\ superseded # p
    /\ notify' = TRUE
    /\ AnswerEmpty(p)
    /\ UNCHANGED <<closed, streamVars, cursorVars, superseded, downActive, client,
                   received>>

\* ...otherwise go round the loop: take a batch, see the close, or park again.
PollWokenTakes(p) ==
    /\ polls[p].pc = "woken" /\ superseded = p /\ HasPending
    /\ TakeBatch(p)
    /\ UNCHANGED <<closed, produced, acked, notify, client, received>>

PollWokenClosed(p) ==
    /\ polls[p].pc = "woken" /\ superseded = p /\ closed
    /\ downActive' = FALSE /\ superseded' = None
    /\ AnswerError(p)
    /\ UNCHANGED <<closed, streamVars, cursorVars, notify, client, received>>

PollParksAgain(p) ==
    /\ polls[p].pc = "woken" /\ superseded = p /\ ~closed /\ ~HasPending
    /\ polls' = [polls EXCEPT ![p].pc = "parked"]
    /\ UNCHANGED <<serverVars, client, received>>

\* select: the request's context is done, because its connection is gone; the
\* handler writes nothing.
PollCancelled(p) ==
    /\ polls[p].pc = "parked" /\ client.poll # p
    /\ IF superseded = p THEN downActive' = FALSE /\ superseded' = None
       ELSE UNCHANGED <<superseded, downActive>>
    /\ polls' = [polls EXCEPT ![p] = NoPoll]
    /\ UNCHANGED <<closed, streamVars, cursorVars, notify, client, received>>

\* select: the long-poll deadline.
PollExpired(p) ==
    /\ polls[p].pc = "parked"
    /\ \/ /\ superseded # p
          /\ notify' = TRUE /\ AnswerEmpty(p)
          /\ UNCHANGED <<streamVars, cursorVars, superseded, downActive>>
       \/ /\ superseded = p /\ HasPending
          /\ TakeBatch(p)
          /\ UNCHANGED <<produced, acked, notify>>
       \/ /\ superseded = p /\ ~HasPending
          /\ downActive' = FALSE /\ superseded' = None
          /\ AnswerEmpty(p)
          /\ UNCHANGED <<streamVars, cursorVars, notify>>
    /\ UNCHANGED <<closed, client, received>>

--------------------------------------------------------------------------------
(* The network and the bridge page.                                        *)

\* A request or a response the page no longer waits for disappears.
Vanish(p) ==
    /\ polls[p].pc \in {"sent", "answered"} /\ client.poll # p
    /\ polls' = [polls EXCEPT ![p] = NoPoll]
    /\ UNCHANGED <<serverVars, client, received>>

\* Mutant: the loop ends, without failing the page, at the first failed fetch.
ClientSendsOnce(p) ==
    /\ ~client.failed /\ client.poll = None /\ polls[p].pc = "none"
    /\ client.attempts = 0
    /\ polls' = [polls EXCEPT ![p] = [NoPoll EXCEPT !.pc = "sent",
                                                    !.cursor = client.cursor]]
    /\ client' = [client EXCEPT !.poll = p]
    /\ UNCHANGED <<serverVars, received>>

\* poll / request: fetch with the page's cursor.
ClientSends(p) ==
    /\ ~client.failed /\ client.poll = None /\ polls[p].pc = "none"
    /\ polls' = [polls EXCEPT ![p] = [NoPoll EXCEPT !.pc = "sent",
                                                    !.cursor = client.cursor]]
    /\ client' = [client EXCEPT !.poll = p]
    /\ UNCHANGED <<serverVars, received>>

\* fetch throws (network error, or the 90 s timer): the same request again,
\* until attempts run out.  The old one may still reach the relay.
ClientRetries ==
    /\ ~client.failed /\ client.poll # None
    /\ client' = [client EXCEPT !.poll = None, !.attempts = @ + 1,
                                !.failed = (client.attempts + 1 = MaxAttempts)]
    /\ UNCHANGED <<serverVars, polls, received>>

\* fail or close: the body of a 200 breaks off, the client closes its port, or
\* another part of the page fails.  The DELETE it sends is a Close.
ClientStops ==
    /\ ~client.failed
    /\ client' = [client EXCEPT !.poll = None, !.failed = TRUE]
    /\ UNCHANGED <<serverVars, polls, received>>

\* A response arrives: 204 polls again with the same cursor; 200 posts the
\* body to the client and moves the cursor; anything else fails the page.
ClientReceives(p) ==
    /\ client.poll = p /\ polls[p].pc = "answered"
    /\ LET answer == polls[p]
       IN  /\ client' = [client EXCEPT
                !.poll = None, !.attempts = 0,
                !.failed = (answer.kind = "error"),
                !.cursor = IF answer.kind = "batch" THEN answer.next ELSE @]
           /\ received' = IF answer.kind = "batch"
                THEN received \o [k \in 1 .. answer.to - answer.from + 1 |->
                                     answer.from + k - 1]
                ELSE received
    /\ polls' = [polls EXCEPT ![p] = NoPoll]
    /\ UNCHANGED serverVars

--------------------------------------------------------------------------------
Init ==
    /\ closed = FALSE
    /\ produced = 0 /\ taken = 0 /\ acked = 0
    /\ downCursor = 0 /\ unackedBase = 0
    /\ superseded = None /\ downActive = FALSE /\ notify = FALSE
    /\ polls = [p \in Polls |-> NoPoll]
    /\ client = [poll |-> None, cursor |-> 0, attempts |-> 0, failed |-> FALSE]
    /\ received = <<>>

PollEnters(p) ==
    PollRejected(p) \/ PollReplays(p) \/ PollTakesAtOnce(p) \/ PollParks(p)

PollWoken(p) ==
    \/ PollWokenSuperseded(p) \/ PollWokenTakes(p)
    \/ PollWokenClosed(p) \/ PollParksAgain(p)

Next ==
    \/ Produce \/ Close \/ ClientRetries \/ ClientStops
    \/ \E p \in Polls :
         \/ PollEnters(p) \/ PollReceivesToken(p) \/ PollSuperseded(p) \/ PollWoken(p)
         \/ PollCancelled(p) \/ PollExpired(p)
         \/ Vanish(p) \/ ClientSends(p) \/ ClientReceives(p)

Spec == Init /\ [][Next]_vars

\* The scheduler runs a Poll call whose select can proceed; the page's loop
\* always goes on; a request reaches the relay or is lost, and an abandoned
\* response is dropped.  Neither the deadline nor a cancellation is relied on.
Fairness ==
    /\ WF_vars(ClientRetries \/ \E p \in Polls : ClientSends(p) \/ ClientReceives(p))
    /\ \A p \in Polls :
         /\ WF_vars(PollEnters(p) \/ Vanish(p))
         /\ WF_vars(PollReceivesToken(p) \/ PollSuperseded(p) \/ PollWoken(p))

FairSpec == Spec /\ Fairness

--------------------------------------------------------------------------------
(* Properties.                                                             *)

TypeOK ==
    /\ closed \in BOOLEAN
    /\ produced \in Nat /\ taken \in Nat /\ acked \in Nat
    /\ downCursor \in Nat /\ unackedBase \in Nat
    /\ superseded \in Polls \cup {None} /\ downActive \in BOOLEAN
    /\ notify \in BOOLEAN
    /\ polls \in [Polls -> PollState]
    /\ client \in ClientState
    /\ received \in Seq(Nat)

\* Whatever is delayed, lost, repeated or superseded, the page posts every
\* frame once and in the order the relay queued it.
ExactlyOnceInOrder ==
    \A k \in 1 .. Len(received) : received[k] = k

\* The relay never forgets a frame the page has not posted: a batch is
\* released only by the cursor that proves its delivery.
AckedIsReceived == acked <= Len(received)

\* Newest poll wins: the poll that holds the session's superseded channel is
\* waiting and was not told to leave; every other waiter was.
NewestWins ==
    /\ downActive <=> superseded # None
    /\ \A p \in Polls : polls[p].pc \in {"parked", "woken"} =>
         (superseded = p <=> ~polls[p].mine)

\* The downlink implements the abstract channel.  What has left the relay is
\* what some poll took: a closed session lets nothing more go, although Poll
\* looks at pendingFrames before it looks at closed, and although the close
\* may come between a waiter's token and the mutex.  What leaves comes out
\* once and in order, and nothing comes out of a page that has failed.
Chan == INSTANCE Channel WITH sent <- taken, delivered <- received,
                              senderEnded <- closed, receiverEnded <- client.failed
ImplementsChannel == Chan!ChanSafe

\* No wake-up is lost: a poll that waits while frames are queued, or while the
\* session is closed, returns without its deadline.
WaiterServed ==
    \A p \in Polls :
      (polls[p].pc = "parked" /\ superseded = p /\ (HasPending \/ closed))
        ~> polls[p].pc \notin {"parked", "woken"}

\* Every queued frame reaches the client, or the session or the page ends.
FramesArrive ==
    \A n \in 1 .. MaxFrames :
      produced >= n ~> (Len(received) >= n \/ closed \/ client.failed)
================================================================================
