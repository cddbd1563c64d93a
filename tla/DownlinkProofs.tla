----------------------------- MODULE DownlinkProofs ----------------------------
(***************************************************************************)
(* The downlink delivers every frame exactly once and in order, for any    *)
(* number of polls, frames and attempts, and so implements Channel.        *)
(***************************************************************************)
EXTENDS Downlink, TLAPS

Waiting(p) == polls[p].pc \in {"parked", "woken"}

\* The counters are ordered, and the replayable batch is the last one taken.
CountersInv ==
    /\ acked <= taken /\ taken <= produced
    /\ acked < taken => downCursor = unackedBase + 1

\* The page is either up to date with what the relay has taken, or exactly one
\* batch, the replayable one, behind.
ClientInv ==
    \/ client.cursor = downCursor /\ Len(received) = taken
    \/ /\ acked < taken
       /\ client.cursor = unackedBase /\ Len(received) = acked

\* The current waiter holds the current cursor, and nothing is unacknowledged.
WaiterInv ==
    /\ downActive <=> superseded # None
    /\ superseded # None =>
         /\ Waiting(superseded)
         /\ polls[superseded].cursor = downCursor
         /\ acked = taken
    /\ \A p \in Polls : Waiting(p) => (superseded = p <=> ~polls[p].mine)
    /\ \A p \in Polls : polls[p].pc \in {"none", "sent"} => ~polls[p].mine

\* No request is ahead of the page, the one it waits for has its cursor, and
\* an answer the page could still use is the replayable batch.
RequestInv ==
    /\ \A p \in Polls : polls[p].pc # "none" => polls[p].cursor <= client.cursor
    /\ client.poll # None =>
         polls[client.poll].pc # "none" /\ polls[client.poll].cursor = client.cursor
    /\ \A p \in Polls :
         polls[p].pc = "answered" /\ polls[p].kind = "batch"
           /\ polls[p].cursor = client.cursor =>
             /\ acked < taken /\ polls[p].cursor = unackedBase
             /\ polls[p].from = acked + 1 /\ polls[p].to = taken
             /\ polls[p].next = downCursor

IInv ==
    /\ TypeOK /\ CountersInv /\ ClientInv /\ WaiterInv /\ RequestInv
    /\ ExactlyOnceInOrder

--------------------------------------------------------------------------------
\* Initially the invariant holds.
LEMMA InitInv == Init => IInv
<1> SUFFICES ASSUME Init PROVE IInv
  OBVIOUS
<1>1. TypeOK
  <2>1. polls \in [Polls -> PollState]
    BY DEF Init, NoPoll, PollState
  <2>2. client \in ClientState
    BY DEF Init, ClientState
  <2>3. received \in Seq(Nat)
    BY DEF Init
  <2> QED
    BY <2>1, <2>2, <2>3 DEF Init, TypeOK
<1>2. Len(received) = 0
  BY DEF Init
<1>3. \A p \in Polls : polls[p].pc = "none" /\ ~polls[p].mine
  BY DEF Init, NoPoll
<1>4. CountersInv /\ ClientInv
  BY <1>2 DEF Init, CountersInv, ClientInv
<1>5. WaiterInv /\ RequestInv
  BY <1>3 DEF Init, WaiterInv, RequestInv, Waiting
<1>6. ExactlyOnceInOrder
  BY <1>2 DEF ExactlyOnceInOrder
<1> QED
  BY <1>1, <1>4, <1>5, <1>6 DEF IInv

\* Queueing a frame leaves every relation as it is.
LEMMA ProduceInv == IInv /\ Produce => IInv'
  BY DownlinkAssumption
  DEF IInv, TypeOK, CountersInv, ClientInv, WaiterInv, RequestInv, ExactlyOnceInOrder,
      Waiting, PollState, ClientState,
      Produce, cursorVars

\* Closing drops the queue and the batch, and loses nothing the page has posted.
LEMMA CloseInv == IInv /\ Close => IInv'
  BY DownlinkAssumption
  DEF IInv, TypeOK, CountersInv, ClientInv, WaiterInv, RequestInv, ExactlyOnceInOrder,
      Waiting, PollState, ClientState,
      Close, CloseLocked, streamVars, cursorVars

--------------------------------------------------------------------------------
(* What an assignment to one poll does to all of them.                     *)

\* Only poll p changes.
OnlyPoll(p) ==
    /\ polls' \in [Polls -> PollState]
    /\ \A q \in Polls \ {p} : polls'[q] = polls[q]

\* Answering a poll (the returns of Poll) changes that poll only.
LEMMA AnswerFacts ==
  ASSUME TypeOK, NEW p \in Polls, NEW kind \in {"empty", "batch", "error"},
         NEW from \in Nat, NEW to \in Nat, NEW next \in Nat,
         Answer(p, kind, from, to, next)
  PROVE  /\ OnlyPoll(p)
         /\ polls'[p].pc = "answered" /\ polls'[p].cursor = polls[p].cursor
         /\ polls'[p].mine = FALSE /\ polls'[p].kind = kind
         /\ polls'[p].from = from /\ polls'[p].to = to /\ polls'[p].next = next
<1> DEFINE r == [polls[p] EXCEPT !.pc = "answered", !.kind = kind, !.from = from,
                    !.to = to, !.next = next, !.mine = FALSE]
<1>1. polls[p] \in PollState
  BY DEF TypeOK
<1>2. r \in PollState
  BY <1>1 DEF PollState
<1>3. /\ r.pc = "answered" /\ r.cursor = polls[p].cursor /\ r.mine = FALSE
      /\ r.kind = kind /\ r.from = from /\ r.to = to /\ r.next = next
  BY <1>1 DEF PollState
<1>4. polls' = [polls EXCEPT ![p] = r]
  BY DEF Answer
<1> HIDE DEF r
<1> QED
  BY <1>2, <1>3, <1>4 DEF OnlyPoll, TypeOK

\* An empty answer repeats the request's cursor.
LEMMA EmptyFacts ==
  ASSUME TypeOK, NEW p \in Polls, AnswerEmpty(p)
  PROVE  /\ OnlyPoll(p)
         /\ polls'[p].pc = "answered" /\ polls'[p].cursor = polls[p].cursor
         /\ polls'[p].mine = FALSE /\ polls'[p].kind = "empty"
<1> DEFINE n == polls[p].cursor
<1>1. n \in Nat
  BY DEF TypeOK, PollState
<1>2. Answer(p, "empty", 0, 0, n)
  BY DEF AnswerEmpty
<1> HIDE DEF n
<1>3. /\ OnlyPoll(p)
      /\ polls'[p].pc = "answered" /\ polls'[p].cursor = polls[p].cursor
      /\ polls'[p].mine = FALSE /\ polls'[p].kind = "empty"
  BY <1>1, <1>2, AnswerFacts
<1> QED
  BY <1>3

\* Moving a poll inside the select loop changes its position only.
LEMMA PcFacts ==
  ASSUME TypeOK, NEW p \in Polls, NEW pc \in {"parked", "woken"},
         polls' = [polls EXCEPT ![p].pc = pc]
  PROVE  /\ OnlyPoll(p)
         /\ polls'[p].pc = pc /\ polls'[p].cursor = polls[p].cursor
         /\ polls'[p].mine = polls[p].mine
<1> DEFINE r == [polls[p] EXCEPT !.pc = pc]
<1>1. polls[p] \in PollState
  BY DEF TypeOK
<1>2. r \in PollState
  BY <1>1 DEF PollState
<1>3. r.pc = pc /\ r.cursor = polls[p].cursor /\ r.mine = polls[p].mine
  BY <1>1 DEF PollState
<1>4. polls' = [polls EXCEPT ![p] = r]
  OBVIOUS
<1> HIDE DEF r
<1> QED
  BY <1>2, <1>3, <1>4 DEF OnlyPoll, TypeOK

\* A poll that is gone leaves its slot free.
LEMMA ResetFacts ==
  ASSUME TypeOK, NEW p \in Polls, polls' = [polls EXCEPT ![p] = NoPoll]
  PROVE  OnlyPoll(p) /\ polls'[p].pc = "none" /\ polls'[p].mine = FALSE
<1>1. NoPoll \in PollState /\ NoPoll.pc = "none" /\ NoPoll.mine = FALSE
  BY DEF NoPoll, PollState
<1> QED
  BY <1>1 DEF OnlyPoll, TypeOK

\* Closing the older waiter's channel changes that poll's flag and poll p.
LEMMA SupersedeFacts ==
  ASSUME TypeOK, NEW p \in Polls, NEW state \in PollState, Supersede(p, state)
  PROVE  /\ polls' \in [Polls -> PollState]
         /\ polls'[p] = state
         /\ \A q \in Polls \ {p} :
              /\ polls'[q].pc = polls[q].pc /\ polls'[q].cursor = polls[q].cursor
              /\ polls'[q].kind = polls[q].kind /\ polls'[q].from = polls[q].from
              /\ polls'[q].to = polls[q].to /\ polls'[q].next = polls[q].next
              /\ polls'[q].mine = IF downActive /\ q = superseded THEN TRUE
                                  ELSE polls[q].mine
<1> DEFINE r(q) == [polls[q] EXCEPT !.mine = TRUE]
<1>1. \A q \in Polls : polls[q] \in PollState
  BY DEF TypeOK
<1>2. \A q \in Polls :
        /\ r(q) \in PollState /\ r(q).mine = TRUE
        /\ r(q).pc = polls[q].pc /\ r(q).cursor = polls[q].cursor
        /\ r(q).kind = polls[q].kind /\ r(q).from = polls[q].from
        /\ r(q).to = polls[q].to /\ r(q).next = polls[q].next
  BY <1>1 DEF PollState
<1>3. polls' = [q \in Polls |-> IF q = p THEN state
                                ELSE IF downActive /\ q = superseded THEN r(q)
                                ELSE polls[q]]
  BY DEF Supersede
<1> HIDE DEF r
<1>4. polls' \in [Polls -> PollState]
  BY <1>1, <1>2, <1>3
<1>5. polls'[p] = state
  BY <1>3
<1>6. ASSUME NEW q \in Polls \ {p}
      PROVE  polls'[q] = IF downActive /\ q = superseded THEN r(q) ELSE polls[q]
  BY <1>3
<1> QED
  BY <1>2, <1>4, <1>5, <1>6, ZenonT(60)

\* The fields the other lemmas compute with.
LEMMA FieldTypes ==
  ASSUME TypeOK
  PROVE  /\ client.cursor \in Nat /\ client.poll \in Polls \cup {None}
         /\ \A q \in Polls : polls[q].cursor \in Nat /\ polls[q].mine \in BOOLEAN
  BY DEF TypeOK, PollState, ClientState

\* A Poll call that only moves on, or returns what it may return, keeps the
\* relation between requests and the page.
LEMMA RequestKept ==
  ASSUME IInv, NEW p \in Polls, OnlyPoll(p),
         UNCHANGED <<taken, acked, downCursor, unackedBase, client>>,
         polls[p].pc # "none", polls'[p].pc # "none",
         polls'[p].cursor = polls[p].cursor,
         polls'[p].pc = "answered" /\ polls'[p].kind = "batch" =>
             /\ acked < taken /\ polls[p].cursor = unackedBase
             /\ polls'[p].from = acked + 1 /\ polls'[p].to = taken
             /\ polls'[p].next = downCursor
  PROVE  RequestInv'
<1>1. RequestInv /\ client' = client
  BY DEF IInv
<1>2. client.poll \in Polls \cup {None}
  BY FieldTypes DEF IInv
<1>3. \A q \in Polls : q = p \/ polls'[q] = polls[q]
  BY DEF OnlyPoll
<1>4. \A q \in Polls : polls'[q].pc # "none" => polls'[q].cursor <= client'.cursor
  BY <1>1, <1>3 DEF RequestInv
<1>5. client'.poll # None =>
        polls'[client'.poll].pc # "none" /\ polls'[client'.poll].cursor = client'.cursor
  BY <1>1, <1>2, <1>3 DEF RequestInv
<1>6. \A q \in Polls :
        polls'[q].pc = "answered" /\ polls'[q].kind = "batch"
          /\ polls'[q].cursor = client'.cursor =>
            /\ acked' < taken' /\ polls'[q].cursor = unackedBase'
            /\ polls'[q].from = acked' + 1 /\ polls'[q].to = taken'
            /\ polls'[q].next = downCursor'
  BY <1>1, <1>3 DEF RequestInv
<1> QED
  BY <1>4, <1>5, <1>6 DEF RequestInv

--------------------------------------------------------------------------------
(* Each action preserves the invariant.                                    *)

\* A rejected cursor closes the session and answers with an error.
LEMMA PollRejectedInv == ASSUME NEW p \in Polls, IInv, PollRejected(p) PROVE IInv'
<1> USE DownlinkAssumption DEF IInv, TypeOK
<1>1. /\ OnlyPoll(p)
      /\ polls'[p].pc = "answered" /\ polls'[p].cursor = polls[p].cursor
      /\ polls'[p].mine = FALSE /\ polls'[p].kind = "error"
  <2>1. Answer(p, "error", 0, 0, 0)
    BY DEF PollRejected, AnswerError
  <2> QED
    BY <2>1, AnswerFacts
<1>2. TypeOK'
  BY <1>1 DEF OnlyPoll, PollRejected, CloseLocked, streamVars, cursorVars
<1>3. CountersInv' /\ ClientInv' /\ ExactlyOnceInOrder'
  BY <1>1 DEF CountersInv, ClientInv, ExactlyOnceInOrder, PollRejected,
     CloseLocked, streamVars, cursorVars
<1>4. WaiterInv'
  BY <1>1, FieldTypes DEF WaiterInv, Waiting, OnlyPoll, PollRejected,
     CloseLocked, streamVars, cursorVars
<1>5. RequestInv'
  BY <1>1, RequestKept DEF PollRejected, CloseLocked, streamVars, cursorVars
<1> QED
  BY <1>2, <1>3, <1>4, <1>5

\* A replay answers with the batch the page lacks.
LEMMA PollReplaysInv == ASSUME NEW p \in Polls, IInv, PollReplays(p) PROVE IInv'
<1> USE DownlinkAssumption DEF IInv, TypeOK
<1>1. /\ OnlyPoll(p)
      /\ polls'[p].pc = "answered" /\ polls'[p].cursor = polls[p].cursor
      /\ polls'[p].mine = FALSE /\ polls'[p].kind = "batch"
      /\ polls'[p].from = acked + 1 /\ polls'[p].to = taken /\ polls'[p].next = downCursor
  <2>1. acked + 1 \in Nat /\ taken \in Nat /\ downCursor \in Nat
    OBVIOUS
  <2>2. Answer(p, "batch", acked + 1, taken, downCursor)
    BY DEF PollReplays
  <2> QED
    BY <2>1, <2>2, AnswerFacts
<1>2. TypeOK'
  BY <1>1 DEF OnlyPoll, PollReplays, HasUnacked, serverVars, streamVars,
     cursorVars, waitVars
<1>3. CountersInv' /\ ClientInv' /\ ExactlyOnceInOrder'
  BY <1>1 DEF CountersInv, ClientInv, ExactlyOnceInOrder, PollReplays,
     HasUnacked, serverVars, streamVars, cursorVars, waitVars
<1>4. WaiterInv'
  BY <1>1, FieldTypes DEF WaiterInv, Waiting, OnlyPoll, PollReplays, HasUnacked,
     serverVars, streamVars, cursorVars, waitVars
<1>5. RequestInv'
  BY <1>1, RequestKept DEF PollReplays, HasUnacked, serverVars, streamVars,
     cursorVars, waitVars
<1> QED
  BY <1>2, <1>3, <1>4, <1>5

\* Receiving the notify token moves the poll out of its select.
LEMMA PollReceivesTokenInv == ASSUME NEW p \in Polls, IInv, PollReceivesToken(p) PROVE IInv'
<1> USE DownlinkAssumption DEF IInv, TypeOK
<1>1. /\ OnlyPoll(p)
      /\ polls'[p].pc = "woken" /\ polls'[p].cursor = polls[p].cursor
      /\ polls'[p].mine = polls[p].mine
  BY PcFacts DEF PollReceivesToken
<1>2. TypeOK'
  BY <1>1 DEF OnlyPoll, PollReceivesToken, streamVars, cursorVars
<1>3. CountersInv' /\ ClientInv' /\ ExactlyOnceInOrder'
  BY <1>1 DEF CountersInv, ClientInv, ExactlyOnceInOrder, PollReceivesToken,
     streamVars, cursorVars
<1>4. WaiterInv'
  BY <1>1, FieldTypes DEF WaiterInv, Waiting, OnlyPoll, PollReceivesToken,
     streamVars, cursorVars
<1>5. RequestInv'
  BY <1>1, RequestKept DEF PollReceivesToken, streamVars, cursorVars
<1> QED
  BY <1>2, <1>3, <1>4, <1>5

\* A superseded poll leaves with an empty answer.
LEMMA PollSupersededInv == ASSUME NEW p \in Polls, IInv, PollSuperseded(p) PROVE IInv'
<1> USE DownlinkAssumption DEF IInv, TypeOK
<1>1. /\ OnlyPoll(p)
      /\ polls'[p].pc = "answered" /\ polls'[p].cursor = polls[p].cursor
      /\ polls'[p].mine = FALSE /\ polls'[p].kind = "empty"
  BY EmptyFacts DEF PollSuperseded
<1>2. TypeOK'
  BY <1>1 DEF OnlyPoll, PollSuperseded, streamVars, cursorVars
<1>3. CountersInv' /\ ClientInv' /\ ExactlyOnceInOrder'
  BY <1>1 DEF CountersInv, ClientInv, ExactlyOnceInOrder, PollSuperseded,
     streamVars, cursorVars
<1>4. WaiterInv'
  BY <1>1, FieldTypes DEF WaiterInv, Waiting, OnlyPoll, PollSuperseded,
     streamVars, cursorVars
<1>5. RequestInv'
  BY <1>1, RequestKept DEF PollSuperseded, streamVars, cursorVars
<1> QED
  BY <1>2, <1>3, <1>4, <1>5

\* A poll that lost its turn while it held the token leaves as well.
LEMMA PollWokenSupersededInv == ASSUME NEW p \in Polls, IInv, PollWokenSuperseded(p) PROVE IInv'
<1> USE DownlinkAssumption DEF IInv, TypeOK
<1>1. /\ OnlyPoll(p)
      /\ polls'[p].pc = "answered" /\ polls'[p].cursor = polls[p].cursor
      /\ polls'[p].mine = FALSE /\ polls'[p].kind = "empty"
  BY EmptyFacts DEF PollWokenSuperseded
<1>2. TypeOK'
  BY <1>1 DEF OnlyPoll, PollWokenSuperseded, streamVars, cursorVars
<1>3. CountersInv' /\ ClientInv' /\ ExactlyOnceInOrder'
  BY <1>1 DEF CountersInv, ClientInv, ExactlyOnceInOrder, PollWokenSuperseded,
     streamVars, cursorVars
<1>4. WaiterInv'
  BY <1>1, FieldTypes DEF WaiterInv, Waiting, OnlyPoll, PollWokenSuperseded,
     streamVars, cursorVars
<1>5. RequestInv'
  BY <1>1, RequestKept DEF PollWokenSuperseded, streamVars, cursorVars
<1> QED
  BY <1>2, <1>3, <1>4, <1>5

\* A woken poll that finds the session closed answers with an error.
LEMMA PollWokenClosedInv == ASSUME NEW p \in Polls, IInv, PollWokenClosed(p) PROVE IInv'
<1> USE DownlinkAssumption DEF IInv, TypeOK
<1>1. /\ OnlyPoll(p)
      /\ polls'[p].pc = "answered" /\ polls'[p].cursor = polls[p].cursor
      /\ polls'[p].mine = FALSE /\ polls'[p].kind = "error"
  <2>1. Answer(p, "error", 0, 0, 0)
    BY DEF PollWokenClosed, AnswerError
  <2> QED
    BY <2>1, AnswerFacts
<1>2. TypeOK'
  BY <1>1 DEF OnlyPoll, PollWokenClosed, streamVars, cursorVars
<1>3. CountersInv' /\ ClientInv' /\ ExactlyOnceInOrder'
  BY <1>1 DEF CountersInv, ClientInv, ExactlyOnceInOrder, PollWokenClosed,
     streamVars, cursorVars
<1>4. WaiterInv'
  BY <1>1, FieldTypes DEF WaiterInv, Waiting, OnlyPoll, PollWokenClosed,
     streamVars, cursorVars
<1>5. RequestInv'
  BY <1>1, RequestKept DEF PollWokenClosed, streamVars, cursorVars
<1> QED
  BY <1>2, <1>3, <1>4, <1>5

\* A woken poll with nothing to take goes back to its select.
LEMMA PollParksAgainInv == ASSUME NEW p \in Polls, IInv, PollParksAgain(p) PROVE IInv'
<1> USE DownlinkAssumption DEF IInv, TypeOK
<1>1. /\ OnlyPoll(p)
      /\ polls'[p].pc = "parked" /\ polls'[p].cursor = polls[p].cursor
      /\ polls'[p].mine = polls[p].mine
  BY PcFacts DEF PollParksAgain
<1>2. TypeOK'
  BY <1>1 DEF OnlyPoll, PollParksAgain, serverVars, streamVars, cursorVars, waitVars
<1>3. CountersInv' /\ ClientInv' /\ ExactlyOnceInOrder'
  BY <1>1 DEF CountersInv, ClientInv, ExactlyOnceInOrder, PollParksAgain,
     serverVars, streamVars, cursorVars, waitVars
<1>4. WaiterInv'
  BY <1>1, FieldTypes DEF WaiterInv, Waiting, OnlyPoll, PollParksAgain,
     serverVars, streamVars, cursorVars, waitVars
<1>5. RequestInv'
  BY <1>1, RequestKept DEF PollParksAgain, serverVars, streamVars, cursorVars,
     waitVars
<1> QED
  BY <1>2, <1>3, <1>4, <1>5

\* A cancelled poll gives up the session's superseded channel if it holds it.
LEMMA PollCancelledInv == ASSUME NEW p \in Polls, IInv, PollCancelled(p) PROVE IInv'
<1> USE DownlinkAssumption DEF IInv, TypeOK
<1>1. OnlyPoll(p) /\ polls'[p].pc = "none" /\ polls'[p].mine = FALSE
  BY ResetFacts DEF PollCancelled
<1>2. TypeOK'
  BY <1>1 DEF OnlyPoll, PollCancelled, streamVars, cursorVars
<1>3. CountersInv' /\ ClientInv' /\ ExactlyOnceInOrder'
  BY <1>1 DEF CountersInv, ClientInv, ExactlyOnceInOrder, PollCancelled,
     streamVars, cursorVars
<1>4. WaiterInv'
  BY <1>1, FieldTypes DEF WaiterInv, Waiting, OnlyPoll, PollCancelled,
     streamVars, cursorVars
<1>5. RequestInv'
  BY <1>1, FieldTypes DEF RequestInv, OnlyPoll, PollCancelled, streamVars,
     cursorVars
<1> QED
  BY <1>2, <1>3, <1>4, <1>5

\* Losing an abandoned request or response changes nothing else.
LEMMA VanishInv == ASSUME NEW p \in Polls, IInv, Vanish(p) PROVE IInv'
<1> USE DownlinkAssumption DEF IInv, TypeOK
<1>1. OnlyPoll(p) /\ polls'[p].pc = "none" /\ polls'[p].mine = FALSE
  BY ResetFacts DEF Vanish
<1>2. TypeOK'
  BY <1>1 DEF OnlyPoll, Vanish, serverVars, streamVars, cursorVars, waitVars
<1>3. CountersInv' /\ ClientInv' /\ ExactlyOnceInOrder'
  BY <1>1 DEF CountersInv, ClientInv, ExactlyOnceInOrder, Vanish, serverVars,
     streamVars, cursorVars, waitVars
<1>4. WaiterInv'
  BY <1>1, FieldTypes DEF WaiterInv, Waiting, OnlyPoll, Vanish, serverVars,
     streamVars, cursorVars, waitVars
<1>5. RequestInv'
  BY <1>1, FieldTypes DEF RequestInv, OnlyPoll, Vanish, serverVars, streamVars,
     cursorVars, waitVars
<1> QED
  BY <1>2, <1>3, <1>4, <1>5

\* A waiter that takes a batch puts the page exactly one batch behind.
LEMMA TakeBatchInv ==
  ASSUME NEW p \in Polls, IInv, Waiting(p), superseded = p, TakeBatch(p),
         UNCHANGED <<closed, produced, acked, notify, client, received>>
  PROVE  IInv'
<1>1. PICK to \in taken + 1 .. produced :
        TakesBatch(p, to) /\ Answer(p, "batch", taken + 1, to, downCursor + 1)
  BY DEF TakeBatch
<1>2. TypeOK /\ to \in Nat /\ taken + 1 \in Nat /\ downCursor + 1 \in Nat
  BY DEF IInv, TypeOK
<1>3. /\ OnlyPoll(p)
      /\ polls'[p].pc = "answered" /\ polls'[p].cursor = polls[p].cursor
      /\ polls'[p].mine = FALSE /\ polls'[p].kind = "batch"
      /\ polls'[p].from = taken + 1 /\ polls'[p].to = to
      /\ polls'[p].next = downCursor + 1
  BY <1>1, <1>2, AnswerFacts
<1>4. p # None /\ acked = taken /\ polls[p].cursor = downCursor
  BY DownlinkAssumption DEF IInv, WaiterInv
<1>5. client.cursor = downCursor /\ Len(received) = taken
  BY <1>2, <1>4 DEF IInv, ClientInv, TypeOK
<1>6. TypeOK'
  BY <1>1, <1>2, <1>3, <1>4 DEF TypeOK, TakesBatch, OnlyPoll
<1>7. CountersInv' /\ ClientInv' /\ ExactlyOnceInOrder'
  BY <1>1, <1>2, <1>4, <1>5 DEF IInv, TypeOK, CountersInv, ClientInv,
     ExactlyOnceInOrder,
      TakesBatch
<1>8. WaiterInv'
  <2>1. superseded' = None /\ downActive' = FALSE
    BY <1>1 DEF TakesBatch
  <2>2. \A q \in Polls : polls'[q].pc \in {"parked", "woken"} => polls'[q].mine /\ q # None
    BY <1>3, DownlinkAssumption DEF IInv, WaiterInv, Waiting, OnlyPoll
  <2>3. \A q \in Polls : polls'[q].pc \in {"none", "sent"} => ~polls'[q].mine
    BY <1>3 DEF IInv, WaiterInv, OnlyPoll
  <2> QED
    BY <2>1, <2>2, <2>3 DEF WaiterInv, Waiting
<1>9. RequestInv'
  <2>1. \A q \in Polls : q = p \/ polls'[q] = polls[q]
    BY <1>3 DEF OnlyPoll
  <2>2. client' = client /\ client.poll \in Polls \cup {None}
    BY <1>2, FieldTypes
  <2>3. \A q \in Polls \ {p} :
          ~(/\ polls'[q].pc = "answered" /\ polls'[q].kind = "batch"
            /\ polls'[q].cursor = client'.cursor)
    BY <1>2, <1>4, <2>1, <2>2 DEF IInv, RequestInv, TypeOK
  <2>4. /\ acked' < taken' /\ polls'[p].cursor = unackedBase'
        /\ polls'[p].from = acked' + 1 /\ polls'[p].to = taken'
        /\ polls'[p].next = downCursor'
    BY <1>1, <1>2, <1>3, <1>4 DEF TypeOK, TakesBatch
  <2>5. \A q \in Polls : polls'[q].pc # "none" => polls'[q].cursor <= client'.cursor
    BY <1>2, <1>3, <1>4, <1>5, <2>1, <2>2 DEF IInv, RequestInv, TypeOK
  <2>6. client'.poll # None =>
          polls'[client'.poll].pc # "none" /\ polls'[client'.poll].cursor = client'.cursor
    BY <1>3, <2>1, <2>2 DEF IInv, RequestInv
  <2> QED
    BY <2>3, <2>4, <2>5, <2>6 DEF RequestInv
<1> QED
  BY <1>6, <1>7, <1>8, <1>9 DEF IInv

\* The woken waiter takes a batch.
LEMMA PollWokenTakesInv == ASSUME NEW p \in Polls, IInv, PollWokenTakes(p) PROVE IInv'
  BY TakeBatchInv DEF PollWokenTakes, Waiting

\* At the deadline a waiter takes a batch or leaves with an empty answer.
LEMMA PollExpiredInv == ASSUME NEW p \in Polls, IInv, PollExpired(p) PROVE IInv'
<1>1. CASE superseded = p /\ HasPending
  BY <1>1, TakeBatchInv DEF PollExpired, Waiting
<1>2. CASE ~(superseded = p /\ HasPending)
  <2> USE DownlinkAssumption DEF IInv, TypeOK
  <2>1. /\ AnswerEmpty(p)
        /\ UNCHANGED <<closed, produced, taken, acked, downCursor, unackedBase, client,
                       received>>
        /\ notify' \in BOOLEAN
        /\ \/ superseded # p /\ UNCHANGED <<superseded, downActive>>
           \/ superseded = p /\ superseded' = None /\ downActive' = FALSE
        /\ polls[p].pc = "parked"
    BY <1>2 DEF PollExpired, streamVars, cursorVars
  <2>2. /\ OnlyPoll(p)
        /\ polls'[p].pc = "answered" /\ polls'[p].cursor = polls[p].cursor
        /\ polls'[p].mine = FALSE /\ polls'[p].kind = "empty"
    BY <2>1, EmptyFacts
  <2>3. TypeOK'
    BY <2>1, <2>2 DEF OnlyPoll
  <2>4. CountersInv' /\ ClientInv' /\ ExactlyOnceInOrder'
    BY <2>1 DEF CountersInv, ClientInv, ExactlyOnceInOrder
  <2>5. WaiterInv'
    BY <2>1, <2>2, FieldTypes DEF WaiterInv, Waiting, OnlyPoll
  <2>6. RequestInv'
    BY <2>1, <2>2, RequestKept
  <2> QED
    BY <2>3, <2>4, <2>5, <2>6
<1> QED
  BY <1>1, <1>2

\* What an admitted cursor says: the page has everything that was taken.
LEMMA AdmittedIsCurrent ==
  ASSUME NEW p \in Polls, IInv, PollAdmitted(p)
  PROVE  /\ client.cursor = downCursor /\ Len(received) = taken
         /\ \A q \in Polls : ~(/\ polls[q].pc = "answered" /\ polls[q].kind = "batch"
                               /\ polls[q].cursor = client.cursor)
<1>1. TypeOK /\ downCursor \in Nat /\ unackedBase \in Nat /\ acked \in Nat /\ taken \in Nat
  BY DEF IInv, TypeOK
<1>2. client.cursor \in Nat /\ polls[p].cursor = downCursor /\ downCursor <= client.cursor
  BY <1>1, FieldTypes DEF PollAdmitted, IInv, RequestInv
<1>3. client.cursor = downCursor /\ Len(received) = taken
  BY <1>1, <1>2 DEF IInv, ClientInv, CountersInv
<1>4. acked < taken => unackedBase # downCursor
  BY <1>1 DEF IInv, CountersInv
<1> QED
  BY <1>3, <1>4 DEF IInv, RequestInv

\* Newest poll wins: once the older waiter's channel is closed, every waiter
\* other than the new poll has been told to leave.
LEMMA OthersSuperseded ==
  ASSUME NEW p \in Polls, IInv,
         \A q \in Polls \ {p} :
           /\ polls'[q].pc = polls[q].pc
           /\ polls'[q].mine = IF downActive /\ q = superseded THEN TRUE ELSE polls[q].mine
  PROVE  \A q \in Polls \ {p} :
           /\ polls'[q].pc \in {"parked", "woken"} => polls'[q].mine
           /\ polls'[q].pc \in {"none", "sent"} => ~polls'[q].mine
<1> SUFFICES ASSUME NEW q \in Polls \ {p}
             PROVE  /\ polls'[q].pc \in {"parked", "woken"} => polls'[q].mine
                    /\ polls'[q].pc \in {"none", "sent"} => ~polls'[q].mine
  OBVIOUS
<1>1. q # None /\ TypeOK
  BY DownlinkAssumption DEF IInv
<1>2. CASE superseded = q
  <2>1. Waiting(q) /\ downActive
    BY <1>1, <1>2 DEF IInv, WaiterInv
  <2> QED
    BY <1>2, <2>1 DEF Waiting
<1>3. CASE superseded # q
  <2>1. polls'[q].mine = polls[q].mine /\ polls'[q].pc = polls[q].pc
    BY <1>3
  <2>2. polls[q].pc \in {"parked", "woken"} => polls[q].mine
    BY <1>1, <1>3, FieldTypes DEF IInv, WaiterInv, Waiting
  <2>3. polls[q].pc \in {"none", "sent"} => ~polls[q].mine
    BY DEF IInv, WaiterInv
  <2> QED
    BY <2>1, <2>2, <2>3
<1> QED
  BY <1>2, <1>3

\* An admitted poll with nothing to take becomes the waiter.
LEMMA PollParksInv == ASSUME NEW p \in Polls, IInv, PollParks(p) PROVE IInv'
<1> DEFINE r == [polls[p] EXCEPT !.pc = "parked"]
<1>1. TypeOK /\ polls[p] \in PollState
  BY DEF IInv, TypeOK
<1>2. /\ r \in PollState /\ r.pc = "parked" /\ r.cursor = polls[p].cursor
      /\ r.mine = polls[p].mine
  BY <1>1 DEF PollState
<1>3. Supersede(p, r)
  BY DEF PollParks
<1> HIDE DEF r
<1>4. /\ polls' \in [Polls -> PollState]
      /\ polls'[p].pc = "parked" /\ polls'[p].cursor = downCursor
      /\ polls'[p].mine = polls[p].mine
      /\ \A q \in Polls \ {p} :
           /\ polls'[q].pc = polls[q].pc /\ polls'[q].cursor = polls[q].cursor
           /\ polls'[q].kind = polls[q].kind
           /\ polls'[q].mine = IF downActive /\ q = superseded THEN TRUE
                               ELSE polls[q].mine
  BY <1>1, <1>2, <1>3, SupersedeFacts DEF PollParks, PollAdmitted
<1>5. /\ client.cursor = downCursor /\ Len(received) = taken
      /\ \A q \in Polls : ~(/\ polls[q].pc = "answered" /\ polls[q].kind = "batch"
                            /\ polls[q].cursor = client.cursor)
  BY AdmittedIsCurrent DEF PollParks
<1>6. /\ acked' = taken /\ superseded' = p /\ downActive' = TRUE
      /\ UNCHANGED <<closed, produced, taken, downCursor, unackedBase, notify, client,
                     received>>
      /\ polls[p].pc = "sent" /\ polls[p].cursor = downCursor /\ p # None
  BY DownlinkAssumption DEF PollParks, PollAdmitted, cursorVars
<1>7. TypeOK'
  BY <1>1, <1>4, <1>6 DEF TypeOK
<1>8. CountersInv' /\ ClientInv' /\ ExactlyOnceInOrder'
  BY <1>1, <1>5, <1>6 DEF IInv, TypeOK, CountersInv, ClientInv, ExactlyOnceInOrder
<1>9. WaiterInv'
  <2>1. ~polls'[p].mine
    BY <1>4, <1>6 DEF IInv, WaiterInv
  <2>2. \A q \in Polls \ {p} :
          /\ polls'[q].pc \in {"parked", "woken"} => polls'[q].mine
          /\ polls'[q].pc \in {"none", "sent"} => ~polls'[q].mine
    BY <1>4, OthersSuperseded
  <2>3. \A q \in Polls : polls'[q].pc \in {"none", "sent"} => ~polls'[q].mine
    BY <1>4, <2>2
  <2> QED
    BY <1>4, <1>6, <2>1, <2>2, <2>3 DEF WaiterInv, Waiting
<1>10. RequestInv'
  <2>1. client.poll \in Polls \cup {None} /\ client.cursor \in Nat
    BY <1>1, FieldTypes
  <2>2. \A q \in Polls : polls'[q].pc # "none" => polls'[q].cursor <= client'.cursor
    BY <1>4, <1>5, <1>6, <2>1 DEF IInv, RequestInv
  <2>3. client'.poll # None =>
          polls'[client'.poll].pc # "none" /\ polls'[client'.poll].cursor = client'.cursor
    BY <1>4, <1>5, <1>6, <2>1 DEF IInv, RequestInv
  <2>4. \A q \in Polls : ~(/\ polls'[q].pc = "answered" /\ polls'[q].kind = "batch"
                           /\ polls'[q].cursor = client'.cursor)
    BY <1>4, <1>5, <1>6
  <2> QED
    BY <2>2, <2>3, <2>4 DEF RequestInv
<1> QED
  BY <1>7, <1>8, <1>9, <1>10 DEF IInv

\* An admitted poll takes a batch at once.
LEMMA PollTakesAtOnceInv ==
  ASSUME NEW p \in Polls, IInv, PollTakesAtOnce(p) PROVE IInv'
<1>1. TypeOK /\ polls[p] \in PollState
  BY DEF IInv, TypeOK
<1>2. PICK to \in taken + 1 .. produced :
        /\ TakesBatch(p, to)
        /\ Supersede(p, [polls[p] EXCEPT !.pc = "answered", !.kind = "batch",
                           !.from = taken + 1, !.to = to, !.next = downCursor + 1])
  BY DEF PollTakesAtOnce
<1> DEFINE r == [polls[p] EXCEPT !.pc = "answered", !.kind = "batch",
                    !.from = taken + 1, !.to = to, !.next = downCursor + 1]
<1>3. to \in Nat /\ taken + 1 \in Nat /\ downCursor + 1 \in Nat
  BY <1>1 DEF TypeOK
<1>4. /\ r \in PollState /\ r.pc = "answered" /\ r.kind = "batch"
      /\ r.cursor = polls[p].cursor /\ r.from = taken + 1 /\ r.to = to
      /\ r.next = downCursor + 1
  BY <1>1, <1>3 DEF PollState
<1>5. Supersede(p, r)
  BY <1>2
<1> HIDE DEF r
<1>6. /\ polls' \in [Polls -> PollState]
      /\ polls'[p].pc = "answered" /\ polls'[p].kind = "batch"
      /\ polls'[p].cursor = downCursor /\ polls'[p].from = taken + 1
      /\ polls'[p].to = to /\ polls'[p].next = downCursor + 1
      /\ \A q \in Polls \ {p} :
           /\ polls'[q].pc = polls[q].pc /\ polls'[q].cursor = polls[q].cursor
           /\ polls'[q].kind = polls[q].kind
           /\ polls'[q].mine = IF downActive /\ q = superseded THEN TRUE
                               ELSE polls[q].mine
  BY <1>1, <1>4, <1>5, SupersedeFacts DEF PollTakesAtOnce, PollAdmitted
<1>7. /\ client.cursor = downCursor /\ Len(received) = taken
      /\ \A q \in Polls : ~(/\ polls[q].pc = "answered" /\ polls[q].kind = "batch"
                            /\ polls[q].cursor = client.cursor)
  BY AdmittedIsCurrent DEF PollTakesAtOnce
<1>8. /\ acked' = taken /\ taken' = to /\ downCursor' = downCursor + 1
      /\ unackedBase' = downCursor /\ superseded' = None /\ downActive' = FALSE
      /\ UNCHANGED <<closed, produced, notify, client, received>>
  BY <1>2 DEF PollTakesAtOnce, PollAdmitted, TakesBatch
<1>9. TypeOK'
  BY <1>1, <1>3, <1>6, <1>8 DEF TypeOK
<1>10. CountersInv' /\ ClientInv' /\ ExactlyOnceInOrder'
  BY <1>1, <1>3, <1>7, <1>8 DEF IInv, TypeOK, CountersInv, ClientInv,
     ExactlyOnceInOrder
<1>11. WaiterInv'
  <2>1. \A q \in Polls \ {p} :
          /\ polls'[q].pc \in {"parked", "woken"} => polls'[q].mine
          /\ polls'[q].pc \in {"none", "sent"} => ~polls'[q].mine
    BY <1>6, OthersSuperseded
  <2>2. \A q \in Polls : /\ polls'[q].pc \in {"parked", "woken"} => polls'[q].mine
                         /\ polls'[q].pc \in {"none", "sent"} => ~polls'[q].mine
    BY <1>6, <2>1
  <2>3. \A q \in Polls : superseded' # q
    BY <1>8, DownlinkAssumption
  <2> QED
    BY <1>8, <2>2, <2>3 DEF WaiterInv, Waiting
<1>12. RequestInv'
  <2>1. client.poll \in Polls \cup {None} /\ client.cursor \in Nat
    BY <1>1, FieldTypes
  <2>2. \A q \in Polls : polls'[q].pc # "none" => polls'[q].cursor <= client'.cursor
    <3>1. polls'[p].cursor <= client'.cursor
      BY <1>6, <1>7, <1>8, <2>1
    <3>2. \A q \in Polls \ {p} : polls'[q].pc # "none" => polls'[q].cursor <= client'.cursor
      BY <1>6, <1>8 DEF IInv, RequestInv
    <3> QED
      BY <3>1, <3>2
  <2>3. client'.poll # None =>
          polls'[client'.poll].pc # "none" /\ polls'[client'.poll].cursor = client'.cursor
    BY <1>6, <1>7, <1>8, <2>1 DEF IInv, RequestInv
  <2>4. \A q \in Polls \ {p} :
          ~(/\ polls'[q].pc = "answered" /\ polls'[q].kind = "batch"
            /\ polls'[q].cursor = client'.cursor)
    BY <1>6, <1>7, <1>8
  <2>5. acked' < taken'
    BY <1>1, <1>8 DEF TypeOK
  <2> QED
    BY <1>6, <1>8, <2>2, <2>3, <2>4, <2>5 DEF RequestInv
<1> QED
  BY <1>9, <1>10, <1>11, <1>12 DEF IInv

\* The page gives its request up, to retry or for good, and keeps its cursor.
LEMMA ClientGivesUpInv == ASSUME IInv, ClientRetries \/ ClientStops PROVE IInv'
<1>1. TypeOK /\ client \in ClientState
  BY DEF IInv, TypeOK
<1>2. /\ client' \in ClientState /\ client'.cursor = client.cursor /\ client'.poll = None
  <2>1. client.attempts + 1 \in Nat /\ (client.attempts + 1 = MaxAttempts) \in BOOLEAN
    BY <1>1 DEF ClientState
  <2> DEFINE failed == client.attempts + 1 = MaxAttempts
  <2>2. \/ /\ failed \in BOOLEAN
           /\ client' = [client EXCEPT !.poll = None, !.attempts = @ + 1, !.failed = failed]
        \/ client' = [client EXCEPT !.poll = None, !.failed = TRUE]
    BY DEF ClientRetries, ClientStops
  <2> HIDE DEF failed
  <2> QED
    BY <1>1, <2>1, <2>2 DEF ClientState
<1>3. UNCHANGED <<closed, produced, taken, acked, downCursor, unackedBase, superseded,
                  downActive, notify, polls, received>>
  BY DEF ClientRetries, ClientStops, serverVars, streamVars, cursorVars, waitVars
<1>4. TypeOK'
  BY <1>1, <1>2, <1>3 DEF TypeOK
<1>5. CountersInv' /\ ClientInv' /\ ExactlyOnceInOrder' /\ WaiterInv'
  BY <1>2, <1>3 DEF IInv, CountersInv, ClientInv, ExactlyOnceInOrder, WaiterInv,
     Waiting
<1>6. RequestInv'
  BY <1>2, <1>3 DEF IInv, RequestInv
<1> QED
  BY <1>4, <1>5, <1>6 DEF IInv

\* The page sends a request with its own cursor.
LEMMA ClientSendsInv == ASSUME NEW p \in Polls, IInv, ClientSends(p) PROVE IInv'
<1> DEFINE r == [NoPoll EXCEPT !.pc = "sent", !.cursor = client.cursor]
<1>1. TypeOK /\ client \in ClientState /\ client.cursor \in Nat
  BY FieldTypes DEF IInv, TypeOK
<1>2. r \in PollState /\ r.pc = "sent" /\ r.cursor = client.cursor /\ r.mine = FALSE
  BY <1>1 DEF NoPoll, PollState
<1>3. polls' = [polls EXCEPT ![p] = r]
  BY DEF ClientSends
<1> HIDE DEF r
<1>4. /\ OnlyPoll(p) /\ polls'[p].pc = "sent" /\ polls'[p].cursor = client.cursor
      /\ polls'[p].mine = FALSE
  BY <1>1, <1>2, <1>3 DEF OnlyPoll, TypeOK
<1>5. client' \in ClientState /\ client'.cursor = client.cursor /\ client'.poll = p
  BY <1>1 DEF ClientSends, ClientState
<1>6. /\ UNCHANGED <<closed, produced, taken, acked, downCursor, unackedBase, superseded,
                     downActive, notify, received>>
      /\ polls[p].pc = "none"
  BY DEF ClientSends, serverVars, streamVars, cursorVars, waitVars
<1>7. TypeOK'
  BY <1>1, <1>4, <1>5, <1>6 DEF TypeOK, OnlyPoll
<1>8. CountersInv' /\ ClientInv' /\ ExactlyOnceInOrder'
  BY <1>5, <1>6 DEF IInv, CountersInv, ClientInv, ExactlyOnceInOrder
<1>9. WaiterInv'
  <2>1. superseded # p
    BY <1>6, DownlinkAssumption DEF IInv, WaiterInv, Waiting
  <2>2. \A q \in Polls : q = p \/ polls'[q] = polls[q]
    BY <1>4 DEF OnlyPoll
  <2>3. superseded \in Polls \cup {None}
    BY <1>1 DEF TypeOK
  <2>4. \A q \in Polls : polls'[q].pc \in {"parked", "woken"} =>
          (superseded = q <=> ~polls'[q].mine)
    BY <1>4, <2>2 DEF IInv, WaiterInv, Waiting
  <2>5. \A q \in Polls : polls'[q].pc \in {"none", "sent"} => ~polls'[q].mine
    BY <1>4, <2>2 DEF IInv, WaiterInv
  <2>6. superseded # None =>
          /\ polls'[superseded].pc \in {"parked", "woken"}
          /\ polls'[superseded].cursor = downCursor /\ acked = taken
    BY <2>1, <2>2, <2>3 DEF IInv, WaiterInv, Waiting
  <2> QED
    BY <1>6, <2>4, <2>5, <2>6 DEF IInv, WaiterInv, Waiting
<1>10. RequestInv'
  BY <1>1, <1>4, <1>5, <1>6, DownlinkAssumption DEF IInv, RequestInv, OnlyPoll
<1> QED
  BY <1>7, <1>8, <1>9, <1>10 DEF IInv

\* A batch that arrives is the replayable one, and the page is one batch
\* behind: it appends exactly the frames it lacks.
LEMMA ReceivedAppends ==
  ASSUME NEW p \in Polls, IInv, ClientReceives(p), polls[p].kind = "batch"
  PROVE  /\ acked < taken /\ Len(received) = acked
         /\ received' \in Seq(Nat) /\ Len(received') = taken
         /\ \A k \in 1 .. Len(received') : received'[k] = k
         /\ polls[p].next = downCursor
<1>1. TypeOK /\ acked \in Nat /\ taken \in Nat /\ received \in Seq(Nat)
  BY DEF IInv, TypeOK
<1>2. /\ polls[p].cursor = client.cursor /\ acked < taken
      /\ polls[p].cursor = unackedBase /\ polls[p].from = acked + 1
      /\ polls[p].to = taken /\ polls[p].next = downCursor
  BY DownlinkAssumption DEF IInv, RequestInv, ClientReceives
<1>3. Len(received) = acked
  BY <1>1, <1>2 DEF IInv, ClientInv, CountersInv, TypeOK
<1> DEFINE new == [k \in 1 .. taken - acked |-> acked + k]
<1>4. new \in Seq(Nat) /\ Len(new) = taken - acked
  <2> DEFINE n == taken - acked
  <2>1. n \in Nat /\ \A k \in 1 .. n : acked + k \in Nat
    BY <1>1, <1>2
  <2> HIDE DEF n
  <2>2. [k \in 1 .. n |-> acked + k] \in Seq(Nat) /\ Len([k \in 1 .. n |-> acked + k]) = n
    BY <2>1
  <2> QED
    BY <2>2 DEF n
<1>5. received' = received \o new
  <2>1. received' = received \o [k \in 1 .. polls[p].to - polls[p].from + 1 |->
                                   polls[p].from + k - 1]
    BY DEF ClientReceives
  <2>2. received' = received \o [k \in 1 .. taken - (acked + 1) + 1 |-> acked + 1 + k - 1]
    BY <1>2, <2>1
  <2>3. taken - (acked + 1) + 1 = taken - acked
    BY <1>1
  <2>4. \A k \in 1 .. taken - acked : acked + 1 + k - 1 = acked + k
    BY <1>1
  <2> QED
    BY <2>2, <2>3, <2>4
<1>6. \A k \in 1 .. taken - acked : new[k] = acked + k
  OBVIOUS
<1> HIDE DEF new
<1>7. received' \in Seq(Nat) /\ Len(received') = taken
  BY <1>1, <1>2, <1>3, <1>4, <1>5
<1>8. ASSUME NEW k \in 1 .. taken PROVE received'[k] = k
  <2>1. CASE k <= acked
    BY <1>1, <1>3, <1>4, <1>5, <2>1 DEF IInv, ExactlyOnceInOrder
  <2>2. CASE k > acked
    <3>1. k - acked \in 1 .. taken - acked
      BY <1>1, <2>2
    <3>2. received'[k] = new[k - acked]
      BY <1>1, <1>3, <1>4, <1>5, <2>2, <3>1
    <3> QED
      BY <1>1, <1>6, <3>1, <3>2
  <2> QED
    BY <1>1, <2>1, <2>2
<1> QED
  BY <1>2, <1>3, <1>7, <1>8

\* The page receives an answer.
LEMMA ClientReceivesInv == ASSUME NEW p \in Polls, IInv, ClientReceives(p) PROVE IInv'
<1>1. TypeOK /\ client \in ClientState /\ polls[p] \in PollState
  BY DEF IInv, TypeOK
<1>2. /\ OnlyPoll(p) /\ polls'[p].pc = "none" /\ polls'[p].mine = FALSE
  BY <1>1, ResetFacts DEF ClientReceives
<1>3. /\ client.poll = p /\ polls[p].pc = "answered" /\ polls[p].cursor = client.cursor
      /\ UNCHANGED <<closed, produced, taken, acked, downCursor, unackedBase, superseded,
                     downActive, notify>>
  BY DownlinkAssumption DEF IInv, RequestInv, ClientReceives, serverVars,
     streamVars,
      cursorVars, waitVars
<1>4. /\ client' \in ClientState /\ client'.poll = None
      /\ client'.cursor = IF polls[p].kind = "batch" THEN polls[p].next ELSE client.cursor
  <2> DEFINE failed == polls[p].kind = "error"
             cursor == IF polls[p].kind = "batch" THEN polls[p].next ELSE client.cursor
  <2>1. failed \in BOOLEAN /\ cursor \in Nat
    BY <1>1 DEF PollState, ClientState
  <2>2. client' = [client EXCEPT !.poll = None, !.attempts = 0, !.failed = failed,
                                 !.cursor = cursor]
    BY DEF ClientReceives
  <2> HIDE DEF failed, cursor
  <2>3. client' \in ClientState /\ client'.poll = None /\ client'.cursor = cursor
    BY <1>1, <2>1, <2>2 DEF ClientState
  <2> QED
    BY <2>3 DEF cursor
<1>5. /\ client.cursor <= client'.cursor
      /\ received' \in Seq(Nat) /\ ExactlyOnceInOrder' /\ ClientInv'
      /\ polls[p].kind = "batch" => client'.cursor = downCursor /\ acked < taken
      /\ polls[p].kind # "batch" => client'.cursor = client.cursor
  <2>1. CASE polls[p].kind = "batch"
    <3>1. /\ acked < taken /\ Len(received) = acked
          /\ received' \in Seq(Nat) /\ Len(received') = taken
          /\ \A k \in 1 .. Len(received') : received'[k] = k
          /\ polls[p].next = downCursor
      BY <2>1, ReceivedAppends
    <3>2. client.cursor = unackedBase /\ downCursor = unackedBase + 1 /\ unackedBase \in Nat
      BY <3>1, <1>1 DEF IInv, ClientInv, CountersInv, TypeOK
    <3> QED
      BY <1>3, <1>4, <2>1, <3>1, <3>2 DEF ExactlyOnceInOrder, ClientInv
  <2>2. CASE polls[p].kind # "batch"
    <3>1. received' = received /\ client'.cursor = client.cursor /\ client.cursor \in Nat
      BY <1>1, <1>4, <2>2, FieldTypes DEF ClientReceives
    <3> QED
      BY <1>1, <1>3, <2>2, <3>1 DEF IInv, ExactlyOnceInOrder, ClientInv, TypeOK
  <2> QED
    BY <2>1, <2>2
<1>6. TypeOK'
  BY <1>1, <1>2, <1>3, <1>4, <1>5 DEF TypeOK, OnlyPoll
<1>7. CountersInv'
  BY <1>3 DEF IInv, CountersInv
<1>8. WaiterInv'
  <2>1. superseded # p
    BY <1>3, DownlinkAssumption DEF IInv, WaiterInv, Waiting
  <2>2. \A q \in Polls : q = p \/ polls'[q] = polls[q]
    BY <1>2 DEF OnlyPoll
  <2>3. superseded \in Polls \cup {None}
    BY <1>1 DEF TypeOK
  <2>4. \A q \in Polls : polls'[q].pc \in {"parked", "woken"} =>
          (superseded = q <=> ~polls'[q].mine)
    BY <1>2, <2>2 DEF IInv, WaiterInv, Waiting
  <2>5. \A q \in Polls : polls'[q].pc \in {"none", "sent"} => ~polls'[q].mine
    BY <1>2, <2>2 DEF IInv, WaiterInv
  <2>6. superseded # None =>
          /\ polls'[superseded].pc \in {"parked", "woken"}
          /\ polls'[superseded].cursor = downCursor /\ acked = taken
    BY <2>1, <2>2, <2>3 DEF IInv, WaiterInv, Waiting
  <2> QED
    BY <1>3, <2>4, <2>5, <2>6 DEF IInv, WaiterInv, Waiting
<1>9. RequestInv'
  <2>1. \A q \in Polls : q = p \/ polls'[q] = polls[q]
    BY <1>2 DEF OnlyPoll
  <2>2. client.cursor \in Nat /\ client'.cursor \in Nat
        /\ \A q \in Polls : polls[q].cursor \in Nat
    BY <1>1, <1>4, FieldTypes DEF ClientState
  <2>3. \A q \in Polls : polls'[q].pc # "none" => polls'[q].cursor <= client'.cursor
    <3> SUFFICES ASSUME NEW q \in Polls, polls'[q].pc # "none"
                 PROVE  polls'[q].cursor <= client'.cursor
      OBVIOUS
    <3>1. polls'[q] = polls[q]
      BY <1>2, <2>1
    <3>2. polls[q].cursor <= client.cursor
      BY <3>1 DEF IInv, RequestInv
    <3> QED
      BY <1>5, <2>2, <3>1, <3>2
  <2>4. \A q \in Polls :
          polls'[q].pc = "answered" /\ polls'[q].kind = "batch"
            /\ polls'[q].cursor = client'.cursor =>
              /\ acked < taken /\ polls'[q].cursor = unackedBase
              /\ polls'[q].from = acked + 1 /\ polls'[q].to = taken
              /\ polls'[q].next = downCursor
    <3> SUFFICES ASSUME NEW q \in Polls, polls'[q].pc = "answered",
                        polls'[q].kind = "batch", polls'[q].cursor = client'.cursor
                 PROVE  /\ acked < taken /\ polls[q].cursor = unackedBase
                        /\ polls[q].from = acked + 1 /\ polls[q].to = taken
                        /\ polls[q].next = downCursor
                        /\ polls'[q] = polls[q]
      OBVIOUS
    <3>1. polls'[q] = polls[q]
      BY <1>2, <2>1
    <3>2. polls[q].cursor <= client.cursor
      BY <3>1 DEF IInv, RequestInv
    <3>3. polls[q].cursor = client.cursor
      BY <1>5, <2>2, <3>1, <3>2
    <3> QED
      BY <3>1, <3>3 DEF IInv, RequestInv
  <2> QED
    BY <1>3, <1>4, <2>3, <2>4 DEF RequestInv
<1> QED
  BY <1>5, <1>6, <1>7, <1>8, <1>9 DEF IInv

--------------------------------------------------------------------------------
(* The theorems.                                                           *)

\* Every step preserves the invariant.
LEMMA StepInv == IInv /\ [Next]_vars => IInv'
<1> SUFFICES ASSUME IInv, [Next]_vars PROVE IInv'
  OBVIOUS
<1>1. CASE Produce
  BY <1>1, ProduceInv
<1>2. CASE Close
  BY <1>2, CloseInv
<1>3. CASE ClientRetries \/ ClientStops
  BY <1>3, ClientGivesUpInv
<1>4. CASE \E p \in Polls : PollEnters(p)
  BY <1>4, PollRejectedInv, PollReplaysInv, PollTakesAtOnceInv, PollParksInv DEF
     PollEnters
<1>5. CASE \E p \in Polls : PollReceivesToken(p) \/ PollSuperseded(p) \/ PollWoken(p)
  BY <1>5, PollReceivesTokenInv, PollSupersededInv, PollWokenSupersededInv,
     PollWokenTakesInv, PollWokenClosedInv, PollParksAgainInv DEF PollWoken
<1>6. CASE \E p \in Polls : PollCancelled(p) \/ PollExpired(p)
  BY <1>6, PollCancelledInv, PollExpiredInv
<1>7. CASE \E p \in Polls : Vanish(p) \/ ClientSends(p) \/ ClientReceives(p)
  BY <1>7, VanishInv, ClientSendsInv, ClientReceivesInv
<1>8. CASE UNCHANGED vars
  BY <1>8 DEF vars, serverVars, streamVars, cursorVars, waitVars, IInv, TypeOK,
     CountersInv,
     ClientInv, WaiterInv, RequestInv, ExactlyOnceInOrder, Waiting
<1> QED
  BY <1>1, <1>2, <1>3, <1>4, <1>5, <1>6, <1>7, <1>8 DEF Next

\* The strengthened invariant holds of every behaviour of the downlink.
THEOREM Invariance == Spec => []IInv
  BY InitInv, StepInv, PTL DEF Spec

\* Every variable of the downlink keeps its type.
THEOREM TypeCorrect == Spec => []TypeOK
<1>1. IInv => TypeOK
  BY DEF IInv
<1> QED
  BY <1>1, Invariance, PTL

\* Whatever the network delays, loses or reorders and however polls supersede
\* one another, the page posts every frame once and in order.
THEOREM DeliversExactlyOnceInOrder == Spec => []ExactlyOnceInOrder
<1>1. IInv => ExactlyOnceInOrder
  BY DEF IInv
<1> QED
  BY <1>1, Invariance, PTL

\* Poll acknowledges, and so forgets, only frames the page has posted.
THEOREM AcknowledgesOnlyReceived == Spec => []AckedIsReceived
<1>1. IInv => AckedIsReceived
  BY DEF IInv, TypeOK, CountersInv, ClientInv, AckedIsReceived
<1> QED
  BY <1>1, Invariance, PTL

\* The newest poll is the only waiter that was not told to leave.
THEOREM NewestPollWins == Spec => []NewestWins
<1>1. IInv => NewestWins
  BY DEF IInv, WaiterInv, NewestWins, Waiting
<1> QED
  BY <1>1, Invariance, PTL

\* A page that has failed waits for no poll.
FailedWaitsForNone == client.failed => client.poll = None

\* fail() and close() end the loop, and only a living page sends a request.
LEMMA FailedInvariance == Spec => []FailedWaitsForNone
<1>1. Init => FailedWaitsForNone
  BY DEF Init, FailedWaitsForNone
<1>2. IInv /\ FailedWaitsForNone /\ [Next]_vars => FailedWaitsForNone'
  <2> SUFFICES ASSUME IInv, FailedWaitsForNone, [Next]_vars PROVE FailedWaitsForNone'
    OBVIOUS
  <2>1. client \in ClientState
    BY DEF IInv, TypeOK
  <2>2. CASE client' = client
    BY <2>2 DEF FailedWaitsForNone
  <2>3. CASE ClientRetries \/ ClientStops
    BY <2>1, <2>3 DEF ClientRetries, ClientStops, FailedWaitsForNone, ClientState
  <2>4. ASSUME NEW p \in Polls, ClientSends(p) PROVE FailedWaitsForNone'
    BY <2>1, <2>4 DEF ClientSends, FailedWaitsForNone, ClientState
  <2>5. ASSUME NEW p \in Polls, ClientReceives(p) PROVE FailedWaitsForNone'
    BY <2>1, <2>5 DEF ClientReceives, FailedWaitsForNone, ClientState
  <2>6. ASSUME NEW p \in Polls,
               \/ PollEnters(p) \/ PollReceivesToken(p) \/ PollSuperseded(p)
               \/ PollWoken(p) \/ PollCancelled(p) \/ PollExpired(p) \/ Vanish(p)
        PROVE  client' = client
    <3>1. CASE PollEnters(p)
      BY <3>1 DEF PollEnters, PollRejected, PollReplays, PollTakesAtOnce, PollParks
    <3>2. CASE PollWoken(p)
      BY <3>2 DEF PollWoken, PollWokenSuperseded, PollWokenTakes, PollWokenClosed,
         PollParksAgain
    <3>3. CASE PollReceivesToken(p) \/ PollSuperseded(p) \/ PollCancelled(p)
      BY <3>3 DEF PollReceivesToken, PollSuperseded, PollCancelled
    <3>4. CASE PollExpired(p)
      BY <3>4 DEF PollExpired
    <3>5. CASE Vanish(p)
      BY <3>5 DEF Vanish
    <3> QED
      BY <2>6, <3>1, <3>2, <3>3, <3>4, <3>5
  <2>7. CASE Produce \/ Close \/ UNCHANGED vars
    BY <2>2, <2>7 DEF Produce, Close, vars
  <2> QED
    BY <2>2, <2>3, <2>4, <2>5, <2>6, <2>7 DEF Next
<1> QED
  BY <1>1, <1>2, Invariance, PTL DEF Spec

\* Taking a batch is Send: it is taken from a queue, and a close drops it.
LEMMA TakingSends ==
  ASSUME IInv, NEW p \in Polls, NEW to \in taken + 1 .. produced, ~closed,
         TakesBatch(p, to), UNCHANGED <<closed, client, received>>
  PROVE  Chan!Send
<1>1. taken \in Nat /\ produced \in Nat
  BY DEF IInv, TypeOK
<1> QED
  BY <1>1 DEF TakesBatch, Chan!Send

\* The downlink implements Channel: a poll that takes a batch is Send, closing
\* the session is SenderEnds, a 200 response that reaches the page is Deliver,
\* the page's fail is ReceiverEnds, and the rest stutters.
THEOREM Refinement == Spec => ImplementsChannel
<1>1. Init => Chan!ChanInit
  BY DEF Init, Chan!ChanInit
<1>2. IInv /\ FailedWaitsForNone /\ [Next]_vars => [Chan!ChanNext]_(Chan!chanVars)
  <2> SUFFICES ASSUME IInv, FailedWaitsForNone, [Next]_vars
               PROVE  [Chan!ChanNext]_(Chan!chanVars)
    OBVIOUS
  <2> USE DEF Chan!ChanNext, Chan!chanVars
  <2>0. client \in ClientState /\ None \notin Polls
    BY DownlinkAssumption DEF IInv, TypeOK
  <2>1. CASE Produce
    BY <2>1 DEF Produce
  <2>2. CASE Close
    <3>1. ~closed /\ closed' = TRUE
      BY <2>2 DEF Close, CloseLocked
    <3>2. UNCHANGED <<taken, received, client>>
      BY <2>2 DEF Close, streamVars
    <3> QED
      BY <3>1, <3>2 DEF Chan!SenderEnds
  <2>3. CASE ClientRetries \/ ClientStops
    BY <2>0, <2>3 DEF ClientRetries, ClientStops, serverVars, streamVars, ClientState,
       Chan!ReceiverEnds
  <2>4. ASSUME NEW p \in Polls, PollRejected(p) PROVE [Chan!ChanNext]_(Chan!chanVars)
    BY <2>4 DEF PollRejected, CloseLocked, streamVars, Chan!SenderEnds
  <2>5. ASSUME NEW p \in Polls, PollTakesAtOnce(p) PROVE Chan!Send
    BY <2>5, TakingSends DEF PollTakesAtOnce, PollAdmitted
  <2>6. ASSUME NEW p \in Polls, PollWokenTakes(p) PROVE Chan!Send
    BY <2>6, TakingSends DEF PollWokenTakes, HasPending, TakeBatch
  <2>7. ASSUME NEW p \in Polls, PollExpired(p) PROVE [Chan!ChanNext]_(Chan!chanVars)
    <3>1. CASE HasPending /\ TakeBatch(p)
      BY <2>7, <3>1, TakingSends DEF PollExpired, HasPending, TakeBatch
    <3>2. CASE UNCHANGED taken
      BY <2>7, <3>2 DEF PollExpired
    <3> QED
      BY <2>7, <3>1, <3>2 DEF PollExpired, streamVars
  <2>8. ASSUME NEW p \in Polls,
               \/ PollReplays(p) \/ PollParks(p)
               \/ PollReceivesToken(p) \/ PollSuperseded(p)
               \/ PollWokenSuperseded(p) \/ PollWokenClosed(p) \/ PollParksAgain(p)
               \/ PollCancelled(p) \/ Vanish(p)
        PROVE  UNCHANGED Chan!chanVars
    BY <2>8 DEF PollReplays, PollParks, PollReceivesToken, PollSuperseded,
       PollWokenSuperseded, PollWokenClosed, PollParksAgain, PollCancelled, Vanish,
       serverVars, streamVars
  <2>9. ASSUME NEW p \in Polls, ClientSends(p) PROVE UNCHANGED Chan!chanVars
    BY <2>0, <2>9 DEF ClientSends, serverVars, streamVars, ClientState
  <2>10. ASSUME NEW p \in Polls, ClientReceives(p), polls[p].kind # "batch"
        PROVE  [Chan!ChanNext]_(Chan!chanVars)
    BY <2>0, <2>10 DEF ClientReceives, serverVars, streamVars, ClientState,
       FailedWaitsForNone, Chan!ReceiverEnds
  <2>11. ASSUME NEW p \in Polls, ClientReceives(p), polls[p].kind = "batch"
        PROVE  Chan!Deliver
    <3>1. /\ acked < taken /\ Len(received) = acked
          /\ received' \in Seq(Nat) /\ Len(received') = taken
          /\ \A k \in 1 .. Len(received') : received'[k] = k
      BY <2>11, ReceivedAppends
    <3>2. acked \in Nat /\ taken \in Nat
      BY DEF IInv, TypeOK
    <3>3. received' = Chan!FirstItems(taken)
      BY <3>1, <3>2 DEF Chan!FirstItems
    <3>4. taken \in Len(received) + 1 .. taken
      BY <3>1, <3>2
    <3>5. client.failed = FALSE /\ client'.failed = FALSE
      BY <2>0, <2>11 DEF ClientReceives, ClientState, FailedWaitsForNone
    <3> QED
      BY <2>11, <3>3, <3>4, <3>5 DEF Chan!Deliver, ClientReceives, serverVars, streamVars
  <2>12. CASE UNCHANGED vars
    BY <2>12 DEF vars, serverVars, streamVars
  <2> QED
    BY <2>1, <2>2, <2>3, <2>4, <2>5, <2>6, <2>7, <2>8, <2>9, <2>10, <2>11, <2>12
    DEF Next, PollEnters, PollWoken
<1> QED
  BY <1>1, <1>2, Invariance, FailedInvariance, PTL
  DEF Spec, ImplementsChannel, Chan!ChanSafe
================================================================================
