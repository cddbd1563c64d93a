------------------------------ MODULE UplinkProofs -----------------------------
(***************************************************************************)
(* The uplink applies every batch exactly once and in order, for any       *)
(* number of requests, batches, attempts and refusals, and so implements   *)
(* Channel.                                                                *)
(***************************************************************************)
EXTENDS Uplink, TLAPS

\* The committed sequence is the length of what was applied, and the digest
\* is the last batch's.
LogInv ==
    /\ Len(applied) = lastUpSequence /\ lastUpDigest = lastUpSequence
    /\ ExactlyOnceInOrder

\* The page is at the committed batch or one past it.
ClientInv ==
    /\ client.upSequence \in Nat \ {0}
    /\ lastUpSequence <= client.upSequence /\ client.upSequence <= lastUpSequence + 1

\* A request carries a batch the page has reached and the client has handed
\* over; an acknowledged one is committed; one that is being parsed is next.
RequestOK(request) ==
    request.pc # "none" =>
      /\ request.body = request.sequence
      /\ request.sequence \in Nat \ {0}
      /\ request.sequence <= client.upSequence
      /\ request.sequence <= queued
      /\ request.pc = "parsing" => request.sequence = lastUpSequence + 1
      /\ request.pc = "answered" /\ request.kind = "ack" =>
           request.sequence <= lastUpSequence

\* The request the page waits for carries the page's batch.
OwnRequest ==
    client.request # None =>
      /\ requests[client.request].pc # "none"
      /\ requests[client.request].sequence = client.upSequence

IInv ==
    /\ TypeOK /\ LogInv /\ ClientInv /\ OwnRequest /\ OneParser
    /\ \A r \in Requests : RequestOK(requests[r])

--------------------------------------------------------------------------------
(* What an assignment to one request does to all of them.                  *)

\* Only request r changes, to the given record.
Becomes(r, request) ==
    /\ requests' \in [Requests -> RequestState]
    /\ requests'[r] = request
    /\ \A q \in Requests \ {r} : requests'[q] = requests[q]

\* The fields the other lemmas compute with.
LEMMA FieldTypes ==
  ASSUME TypeOK
  PROVE  /\ client.upSequence \in Nat /\ client.request \in Requests \cup {None}
         /\ \A q \in Requests :
              /\ requests[q] \in RequestState
              /\ requests[q].sequence \in Nat /\ requests[q].body \in Nat
  BY DEF TypeOK, RequestState, ClientState

\* Answering a request (the returns of ProcessUp) changes its pc and kind only.
LEMMA AnswerFacts ==
  ASSUME TypeOK, NEW r \in Requests, NEW kind \in {"ack", "retry", "error"}, Answer(r, kind)
  PROVE  /\ Becomes(r, requests'[r])
         /\ requests'[r].pc = "answered" /\ requests'[r].kind = kind
         /\ requests'[r].sequence = requests[r].sequence
         /\ requests'[r].body = requests[r].body
<1> DEFINE new == [requests[r] EXCEPT !.pc = "answered", !.kind = kind]
<1>1. requests[r] \in RequestState
  BY DEF TypeOK
<1>2. /\ new \in RequestState /\ new.pc = "answered" /\ new.kind = kind
      /\ new.sequence = requests[r].sequence /\ new.body = requests[r].body
  BY <1>1 DEF RequestState
<1>3. requests' = [requests EXCEPT ![r] = new]
  BY DEF Answer, TypeOK
<1> HIDE DEF new
<1> QED
  BY <1>2, <1>3 DEF Becomes, TypeOK

\* Moving a request on changes its pc only.
LEMMA PcFacts ==
  ASSUME TypeOK, NEW r \in Requests, NEW pc \in {"parsing", "failing"},
         requests' = [requests EXCEPT ![r].pc = pc]
  PROVE  /\ Becomes(r, requests'[r])
         /\ requests'[r].pc = pc
         /\ requests'[r].sequence = requests[r].sequence
         /\ requests'[r].body = requests[r].body
<1> DEFINE new == [requests[r] EXCEPT !.pc = pc]
<1>1. requests[r] \in RequestState
  BY DEF TypeOK
<1>2. /\ new \in RequestState /\ new.pc = pc
      /\ new.sequence = requests[r].sequence /\ new.body = requests[r].body
  BY <1>1 DEF RequestState
<1>3. requests' = [requests EXCEPT ![r] = new]
  OBVIOUS
<1> HIDE DEF new
<1> QED
  BY <1>2, <1>3 DEF Becomes, TypeOK

\* A request that is gone leaves its slot free.
LEMMA ResetFacts ==
  ASSUME TypeOK, NEW r \in Requests, requests' = [requests EXCEPT ![r] = NoRequest]
  PROVE  Becomes(r, requests'[r]) /\ requests'[r].pc = "none"
<1>1. NoRequest \in RequestState /\ NoRequest.pc = "none"
  BY DEF NoRequest, RequestState
<1> QED
  BY <1>1 DEF Becomes, TypeOK

\* A request that moves on without a commit keeps what the requests promise.
LEMMA RequestsKept ==
  ASSUME IInv, NEW r \in Requests, Becomes(r, requests'[r]),
         UNCHANGED <<client, queued, lastUpSequence>>,
         requests[r].pc # "none", requests'[r].pc # "none",
         requests'[r].sequence = requests[r].sequence,
         requests'[r].body = requests[r].body,
         requests'[r].pc = "parsing" => requests[r].sequence = lastUpSequence + 1,
         requests'[r].pc = "answered" /\ requests'[r].kind = "ack" =>
           requests[r].sequence <= lastUpSequence
  PROVE  OwnRequest' /\ \A q \in Requests : RequestOK(requests[q])'
<1>1. \A q \in Requests : q = r \/ requests'[q] = requests[q]
  BY DEF Becomes
<1>2. OwnRequest'
  BY <1>1, FieldTypes DEF IInv, OwnRequest
<1>3. ASSUME NEW q \in Requests PROVE RequestOK(requests[q])'
  BY <1>1 DEF IInv, RequestOK
<1> QED
  BY <1>2, <1>3

--------------------------------------------------------------------------------
(* Each action preserves the invariant.                                    *)

\* Initially the invariant holds.
LEMMA InitInv == Init => IInv
<1> SUFFICES ASSUME Init PROVE IInv
  OBVIOUS
<1>1. /\ requests \in [Requests -> RequestState]
      /\ \A r \in Requests : requests[r].pc = "none"
  BY DEF Init, NoRequest, RequestState
<1>2. client \in ClientState /\ client.upSequence = 1 /\ client.request = None
  BY DEF Init, ClientState
<1>3. applied \in Seq(Nat) /\ Len(applied) = 0
  BY DEF Init
<1>4. TypeOK
  BY <1>1, <1>2, <1>3 DEF Init, TypeOK
<1>5. LogInv /\ ClientInv /\ OwnRequest
  BY <1>2, <1>3 DEF Init, LogInv, ExactlyOnceInOrder, ClientInv, OwnRequest
<1>6. OneParser /\ \A r \in Requests : RequestOK(requests[r])
  BY <1>1 DEF Init, OneParser, RequestOK
<1> QED
  BY <1>4, <1>5, <1>6 DEF IInv

\* A call that is answered or fails in the first critical section changes
\* only its request.
LEMMA FirstSectionInv ==
  ASSUME NEW r \in Requests, IInv,
         UpRefused(r) \/ UpRepeated(r) \/ UpOutOfOrder(r) \/ UpConcurrent(r)
  PROVE  IInv'
<1>1. TypeOK
  BY DEF IInv
<1>2. /\ Becomes(r, requests'[r]) /\ requests[r].pc = "sent"
      /\ requests'[r].pc \in {"answered", "failing"}
      /\ requests'[r].sequence = requests[r].sequence
      /\ requests'[r].body = requests[r].body
      /\ requests'[r].pc = "answered" /\ requests'[r].kind = "ack" =>
           requests[r].sequence = lastUpSequence
  <2>1. CASE UpRefused(r)
    BY <1>1, <2>1, AnswerFacts DEF UpRefused
  <2>2. CASE UpRepeated(r)
    BY <1>1, <2>2, AnswerFacts DEF UpRepeated
  <2>3. CASE UpOutOfOrder(r)
    BY <1>1, <2>3, PcFacts DEF UpOutOfOrder
  <2>4. CASE UpConcurrent(r)
    BY <1>1, <2>4, AnswerFacts DEF UpConcurrent
  <2> QED
    BY <2>1, <2>2, <2>3, <2>4
<1>3. UNCHANGED <<closed, lastUpSequence, lastUpDigest, upActive, applied, partial, client,
                  queued>>
  BY DEF UpRefused, UpRepeated, UpOutOfOrder, UpConcurrent, serverVars
<1>4. TypeOK' /\ LogInv' /\ ClientInv'
  BY <1>2, <1>3 DEF IInv, TypeOK, LogInv, ExactlyOnceInOrder, ClientInv, Becomes
<1>5. OneParser'
  BY <1>2, <1>3 DEF IInv, OneParser, Becomes
<1>6. OwnRequest' /\ \A q \in Requests : RequestOK(requests[q])'
  BY <1>2, <1>3, RequestsKept DEF IInv, TypeOK
<1> QED
  BY <1>4, <1>5, <1>6 DEF IInv

\* An admitted call becomes the one that parses.
LEMMA AdmittedInv == ASSUME NEW r \in Requests, IInv, UpAdmitted(r) PROVE IInv'
<1>1. TypeOK
  BY DEF IInv
<1>2. /\ Becomes(r, requests'[r]) /\ requests'[r].pc = "parsing"
      /\ requests'[r].sequence = requests[r].sequence
      /\ requests'[r].body = requests[r].body
  BY <1>1, PcFacts DEF UpAdmitted
<1>3. /\ UNCHANGED <<closed, lastUpSequence, lastUpDigest, applied, partial, client, queued>>
      /\ requests[r].pc = "sent" /\ requests[r].sequence = lastUpSequence + 1
      /\ ~upActive /\ upActive' = TRUE
  BY DEF UpAdmitted
<1>4. TypeOK' /\ LogInv' /\ ClientInv'
  BY <1>2, <1>3 DEF IInv, TypeOK, LogInv, ExactlyOnceInOrder, ClientInv, Becomes
<1>5. OneParser'
  BY <1>2, <1>3 DEF IInv, OneParser, Becomes
<1>6. OwnRequest' /\ \A q \in Requests : RequestOK(requests[q])'
  BY <1>2, <1>3, RequestsKept
<1> QED
  BY <1>4, <1>5, <1>6 DEF IInv

\* The call that parsed leaves without a commit.
LEMMA UncommittedInv ==
  ASSUME NEW r \in Requests, IInv,
         \/ UpClosedMeanwhile(r) \/ UpInvalid(r) \/ UpBackpressure(r)
         \/ UpPartlyApplied(r)
  PROVE  IInv'
<1>1. TypeOK
  BY DEF IInv
<1>2. /\ Becomes(r, requests'[r]) /\ requests[r].pc = "parsing"
      /\ requests'[r].pc \in {"answered", "failing"}
      /\ ~(requests'[r].pc = "answered" /\ requests'[r].kind = "ack")
      /\ requests'[r].sequence = requests[r].sequence
      /\ requests'[r].body = requests[r].body
  <2>1. CASE UpClosedMeanwhile(r)
    BY <1>1, <2>1, AnswerFacts DEF UpClosedMeanwhile
  <2>2. CASE UpInvalid(r)
    BY <1>1, <2>2, PcFacts DEF UpInvalid
  <2>3. CASE UpBackpressure(r)
    BY <1>1, <2>3, AnswerFacts DEF UpBackpressure, MayBeValid
  <2>4. CASE UpPartlyApplied(r)
    BY <1>1, <2>4, PcFacts DEF UpPartlyApplied, MayBeValid
  <2> QED
    BY <2>1, <2>2, <2>3, <2>4
<1>3. /\ UNCHANGED <<closed, lastUpSequence, lastUpDigest, applied, client, queued>>
      /\ upActive' = FALSE
      /\ partial' \in {partial, partial \cup {requests[r].body}}
  BY DEF UpClosedMeanwhile, UpInvalid, UpBackpressure, UpPartlyApplied
<1>4. requests[r].body = lastUpSequence + 1 /\ requests[r].body \in Nat
  BY <1>1, <1>2, FieldTypes DEF IInv, RequestOK
<1>5. TypeOK'
  BY <1>2, <1>3, <1>4 DEF IInv, TypeOK, Becomes
<1>6. LogInv' /\ ClientInv'
  BY <1>1, <1>3, <1>4 DEF IInv, LogInv, ExactlyOnceInOrder, ClientInv, TypeOK
<1>7. OneParser'
  BY <1>2, <1>3 DEF IInv, OneParser, Becomes
<1>8. OwnRequest' /\ \A q \in Requests : RequestOK(requests[q])'
  BY <1>2, <1>3, RequestsKept
<1> QED
  BY <1>5, <1>6, <1>7, <1>8 DEF IInv

\* The call that parsed commits the next batch.
LEMMA AppliedInv == ASSUME NEW r \in Requests, IInv, UpApplied(r) PROVE IInv'
<1>1. /\ TypeOK /\ lastUpSequence \in Nat /\ applied \in Seq(Nat)
      /\ Len(applied) = lastUpSequence
  BY DEF IInv, TypeOK, LogInv
<1>2. /\ Becomes(r, requests'[r]) /\ requests'[r].pc = "answered"
      /\ requests'[r].sequence = requests[r].sequence
      /\ requests'[r].body = requests[r].body
  BY <1>1, AnswerFacts DEF UpApplied
<1>3. /\ UNCHANGED <<closed, partial, client, queued>> /\ upActive' = FALSE
      /\ lastUpSequence' = requests[r].sequence /\ lastUpDigest' = requests[r].body
      /\ applied' = Append(applied, requests[r].body)
      /\ requests[r].pc = "parsing" /\ requests[r].body \notin partial
  BY DEF UpApplied, MayBeValid
<1>4. /\ requests[r].sequence = lastUpSequence + 1
      /\ requests[r].body = lastUpSequence + 1
      /\ requests[r].sequence <= client.upSequence
  BY <1>3 DEF IInv, RequestOK
<1>5. TypeOK'
  <2>1. applied' \in Seq(Nat) /\ lastUpSequence' \in Nat /\ lastUpDigest' \in Nat
    BY <1>1, <1>3, <1>4
  <2> QED
    BY <1>1, <1>2, <1>3, <2>1 DEF TypeOK, Becomes
<1>6. LogInv'
  <2>1. Len(applied') = lastUpSequence' /\ lastUpDigest' = lastUpSequence'
    BY <1>1, <1>3, <1>4
  <2>2. \A k \in 1 .. Len(applied') : applied'[k] = k
    BY <1>1, <1>3, <1>4 DEF IInv, LogInv, ExactlyOnceInOrder
  <2>3. \A n \in partial' : n > Len(applied')
    BY <1>1, <1>3, <1>4, <2>1 DEF IInv, LogInv, ExactlyOnceInOrder, TypeOK
  <2> QED
    BY <2>1, <2>2, <2>3 DEF LogInv, ExactlyOnceInOrder
<1>7. ClientInv'
  BY <1>1, <1>3, <1>4, FieldTypes DEF IInv, ClientInv
<1>8. OneParser'
  BY <1>2, <1>3 DEF IInv, OneParser, Becomes
<1>9. OwnRequest'
  BY <1>1, <1>2, <1>3, FieldTypes DEF IInv, OwnRequest, Becomes
<1>10. ASSUME NEW q \in Requests PROVE RequestOK(requests[q])'
  <2>1. CASE q = r
    BY <1>1, <1>2, <1>3, <1>4, <2>1 DEF IInv, RequestOK
  <2>2. CASE q # r
    <3>1. requests'[q] = requests[q] /\ requests[q].sequence \in Nat
      BY <1>1, <1>2, <2>2, FieldTypes DEF Becomes
    <3>2. requests[q].pc # "parsing"
      BY <1>3, <2>2 DEF IInv, OneParser
    <3> QED
      BY <1>1, <1>3, <1>4, <3>1, <3>2 DEF IInv, RequestOK
  <2> QED
    BY <2>1, <2>2
<1> QED
  BY <1>5, <1>6, <1>7, <1>8, <1>9, <1>10 DEF IInv

\* A failed call closes the session and is answered.
LEMMA ClosesInv == ASSUME NEW r \in Requests, IInv, UpCloses(r) PROVE IInv'
<1>1. TypeOK
  BY DEF IInv
<1>2. /\ Becomes(r, requests'[r]) /\ requests'[r].pc = "answered"
      /\ requests'[r].kind = "error"
      /\ requests'[r].sequence = requests[r].sequence
      /\ requests'[r].body = requests[r].body
  BY <1>1, AnswerFacts DEF UpCloses
<1>3. /\ UNCHANGED <<lastUpSequence, lastUpDigest, upActive, applied, partial, client, queued>>
      /\ requests[r].pc = "failing" /\ closed' = TRUE
  BY DEF UpCloses
<1>4. TypeOK' /\ LogInv' /\ ClientInv'
  BY <1>2, <1>3 DEF IInv, TypeOK, LogInv, ExactlyOnceInOrder, ClientInv, Becomes
<1>5. OneParser'
  BY <1>2, <1>3 DEF IInv, OneParser, Becomes
<1>6. OwnRequest' /\ \A q \in Requests : RequestOK(requests[q])'
  BY <1>2, <1>3, RequestsKept
<1> QED
  BY <1>4, <1>5, <1>6 DEF IInv

\* Closing for another reason touches no request.
LEMMA CloseInv == ASSUME IInv, Close PROVE IInv'
  BY DEF IInv, Close, TypeOK, LogInv, ExactlyOnceInOrder, ClientInv, OwnRequest, OneParser,
     RequestOK

\* Losing an abandoned request or response frees its slot.
LEMMA VanishInv == ASSUME NEW r \in Requests, IInv, Vanish(r) PROVE IInv'
<1>1. TypeOK
  BY DEF IInv
<1>2. Becomes(r, requests'[r]) /\ requests'[r].pc = "none"
  BY <1>1, ResetFacts DEF Vanish
<1>3. /\ UNCHANGED <<closed, lastUpSequence, lastUpDigest, upActive, applied, partial, client,
                     queued>>
      /\ requests[r].pc \in {"sent", "answered"} /\ client.request # r
  BY DEF Vanish, serverVars
<1>4. TypeOK' /\ LogInv' /\ ClientInv'
  BY <1>2, <1>3 DEF IInv, TypeOK, LogInv, ExactlyOnceInOrder, ClientInv, Becomes
<1>5. OneParser'
  BY <1>2, <1>3 DEF IInv, OneParser, Becomes
<1>6. OwnRequest'
  BY <1>1, <1>2, <1>3, FieldTypes DEF IInv, OwnRequest, Becomes
<1>7. \A q \in Requests : RequestOK(requests[q])'
  BY <1>2, <1>3 DEF IInv, RequestOK, Becomes
<1> QED
  BY <1>4, <1>5, <1>6, <1>7 DEF IInv

\* The client hands the page another batch.
LEMMA EnqueueInv == ASSUME IInv, Enqueue PROVE IInv'
<1>1. TypeOK /\ queued \in Nat /\ queued' = queued + 1
  BY DEF IInv, TypeOK, Enqueue
<1>2. UNCHANGED <<closed, lastUpSequence, lastUpDigest, upActive, applied, partial, requests,
                  client>>
  BY DEF Enqueue, serverVars
<1>3. TypeOK' /\ LogInv' /\ ClientInv' /\ OwnRequest' /\ OneParser'
  BY <1>1, <1>2 DEF IInv, TypeOK, LogInv, ExactlyOnceInOrder, ClientInv, OwnRequest, OneParser
<1>4. \A q \in Requests : RequestOK(requests[q])'
  BY <1>1, <1>2, FieldTypes DEF IInv, RequestOK
<1> QED
  BY <1>3, <1>4 DEF IInv

\* The page posts its current batch.
LEMMA ClientSendsInv == ASSUME NEW r \in Requests, IInv, ClientSends(r) PROVE IInv'
<1> DEFINE new == [NoRequest EXCEPT !.pc = "sent", !.sequence = client.upSequence,
                                    !.body = client.upSequence]
<1>1. TypeOK /\ client \in ClientState /\ client.upSequence \in Nat
  BY FieldTypes DEF IInv, TypeOK
<1>2. /\ new \in RequestState /\ new.pc = "sent" /\ new.sequence = client.upSequence
      /\ new.body = client.upSequence
  BY <1>1 DEF NoRequest, RequestState
<1>3. requests' = [requests EXCEPT ![r] = new]
  BY DEF ClientSends
<1> HIDE DEF new
<1>4. /\ Becomes(r, requests'[r]) /\ requests'[r].pc = "sent"
      /\ requests'[r].sequence = client.upSequence
      /\ requests'[r].body = client.upSequence
  BY <1>1, <1>2, <1>3 DEF Becomes, TypeOK
<1>5. /\ client' \in ClientState /\ client'.upSequence = client.upSequence
      /\ client'.request = r
  BY <1>1 DEF ClientSends, ClientState
<1>6. /\ UNCHANGED <<closed, lastUpSequence, lastUpDigest, upActive, applied, partial, queued>>
      /\ requests[r].pc = "none" /\ client.upSequence <= queued
  BY DEF ClientSends, serverVars
<1>7. TypeOK' /\ LogInv' /\ ClientInv'
  BY <1>1, <1>4, <1>5, <1>6 DEF IInv, TypeOK, LogInv, ExactlyOnceInOrder, ClientInv, Becomes
<1>8. OneParser'
  BY <1>4, <1>6 DEF IInv, OneParser, Becomes
<1>9. OwnRequest'
  BY <1>4, <1>5 DEF OwnRequest
<1>10. ASSUME NEW q \in Requests PROVE RequestOK(requests[q])'
  <2>1. CASE q = r
    BY <1>1, <1>4, <1>5, <1>6, <2>1 DEF IInv, ClientInv, RequestOK
  <2>2. CASE q # r
    BY <1>4, <1>5, <1>6, <2>2 DEF IInv, RequestOK, Becomes
  <2> QED
    BY <2>1, <2>2
<1> QED
  BY <1>7, <1>8, <1>9, <1>10 DEF IInv

\* The page gives its request up, to retry or for good, and keeps its batch.
LEMMA ClientGivesUpInv == ASSUME IInv, ClientRetries \/ ClientStops PROVE IInv'
<1>1. TypeOK /\ client \in ClientState
  BY DEF IInv, TypeOK
<1>2. /\ client' \in ClientState /\ client'.upSequence = client.upSequence
      /\ client'.request = None
  <2> DEFINE failed == client.attempts + 1 = MaxAttempts
  <2>1. /\ failed \in BOOLEAN /\ client.attempts + 1 \in Nat
        /\ \/ client' = [client EXCEPT !.request = None, !.attempts = @ + 1, !.failed = failed]
           \/ client' = [client EXCEPT !.request = None, !.failed = TRUE]
    BY <1>1 DEF ClientRetries, ClientStops, ClientState
  <2> HIDE DEF failed
  <2> QED
    BY <1>1, <2>1 DEF ClientState
<1>3. UNCHANGED <<closed, lastUpSequence, lastUpDigest, upActive, applied, partial, requests,
                  queued>>
  BY DEF ClientRetries, ClientStops, serverVars
<1>4. TypeOK' /\ LogInv' /\ ClientInv' /\ OwnRequest' /\ OneParser'
  BY <1>1, <1>2, <1>3 DEF IInv, TypeOK, LogInv, ExactlyOnceInOrder, ClientInv, OwnRequest,
     OneParser
<1>5. \A q \in Requests : RequestOK(requests[q])'
  BY <1>2, <1>3 DEF IInv, RequestOK
<1> QED
  BY <1>4, <1>5 DEF IInv

\* An answer reaches the page; only an acknowledgement moves it on, and only
\* past a committed batch.
LEMMA ClientReceivesInv == ASSUME NEW r \in Requests, IInv, ClientReceives(r) PROVE IInv'
<1>1. /\ TypeOK /\ client \in ClientState /\ client.upSequence \in Nat
      /\ lastUpSequence \in Nat
  BY FieldTypes DEF IInv, TypeOK
<1>2. Becomes(r, requests'[r]) /\ requests'[r].pc = "none"
  BY <1>1, ResetFacts DEF ClientReceives
<1>3. /\ UNCHANGED <<closed, lastUpSequence, lastUpDigest, upActive, applied, partial, queued>>
      /\ client.request = r /\ requests[r].pc = "answered"
      /\ requests[r].sequence = client.upSequence
  BY UplinkAssumption DEF ClientReceives, serverVars, IInv, OwnRequest
<1>4. /\ client' \in ClientState /\ client'.request = None
      /\ \/ client'.upSequence = client.upSequence
         \/ requests[r].kind = "ack" /\ client'.upSequence = client.upSequence + 1
  <2>1. CASE requests[r].kind = "ack"
    <3>1. client' = [client EXCEPT !.request = None, !.attempts = 0, !.waits = 0,
                                   !.upSequence = @ + 1]
      BY <2>1 DEF ClientReceives
    <3>2. client.upSequence + 1 \in Nat
      BY <1>1
    <3>3. client' \in ClientState
      BY <1>1, <3>1, <3>2 DEF ClientState
    <3>4. client'.request = None /\ client'.upSequence = client.upSequence + 1
      BY <1>1, <3>1 DEF ClientState
    <3> QED
      BY <2>1, <3>3, <3>4
  <2>2. CASE requests[r].kind = "retry"
    <3> DEFINE failed == client.waits + 1 = MaxWaits
    <3>1. /\ failed \in BOOLEAN /\ client.waits + 1 \in Nat
          /\ client' = [client EXCEPT !.request = None, !.waits = @ + 1, !.failed = failed]
      BY <1>1, <2>2 DEF ClientReceives, ClientState
    <3> HIDE DEF failed
    <3> QED
      BY <1>1, <3>1 DEF ClientState
  <2>3. CASE requests[r].kind \notin {"ack", "retry"}
    BY <1>1, <2>3 DEF ClientReceives, ClientState
  <2> QED
    BY <2>1, <2>2, <2>3
<1>5. /\ client'.upSequence \in Nat \ {0} /\ client.upSequence <= client'.upSequence
      /\ client'.upSequence <= lastUpSequence + 1
  BY <1>1, <1>3, <1>4 DEF IInv, ClientInv, RequestOK
<1>6. TypeOK' /\ LogInv'
  BY <1>2, <1>3, <1>4 DEF IInv, TypeOK, LogInv, ExactlyOnceInOrder, Becomes
<1>7. ClientInv' /\ OwnRequest'
  BY <1>1, <1>3, <1>4, <1>5 DEF IInv, ClientInv, OwnRequest
<1>8. OneParser'
  BY <1>2, <1>3 DEF IInv, OneParser, Becomes
<1>9. ASSUME NEW q \in Requests PROVE RequestOK(requests[q])'
  <2>1. CASE q = r
    BY <1>2, <2>1 DEF RequestOK
  <2>2. CASE q # r
    <3>1. requests'[q] = requests[q] /\ requests[q].sequence \in Nat
      BY <1>1, <1>2, <2>2, FieldTypes DEF Becomes
    <3> QED
      BY <1>1, <1>3, <1>5, <3>1 DEF IInv, RequestOK
  <2> QED
    BY <2>1, <2>2
<1> QED
  BY <1>6, <1>7, <1>8, <1>9 DEF IInv

--------------------------------------------------------------------------------
(* The theorems.                                                           *)

\* Every step preserves the invariant.
LEMMA StepInv == IInv /\ [Next]_vars => IInv'
<1> SUFFICES ASSUME IInv, [Next]_vars PROVE IInv'
  OBVIOUS
<1>1. CASE Close \/ Enqueue \/ ClientRetries \/ ClientStops
  BY <1>1, CloseInv, EnqueueInv, ClientGivesUpInv
<1>2. CASE \E r \in Requests : ProcessUp(r)
  BY <1>2, FirstSectionInv, AdmittedInv, UncommittedInv, AppliedInv, ClosesInv DEF ProcessUp
<1>3. CASE \E r \in Requests : Vanish(r) \/ ClientSends(r) \/ ClientReceives(r)
  BY <1>3, VanishInv, ClientSendsInv, ClientReceivesInv
<1>4. CASE UNCHANGED vars
  BY <1>4 DEF vars, serverVars, IInv, TypeOK, LogInv, ExactlyOnceInOrder, ClientInv,
     OwnRequest, OneParser, RequestOK
<1> QED
  BY <1>1, <1>2, <1>3, <1>4 DEF Next

\* The strengthened invariant holds of every behaviour of the uplink.
THEOREM Invariance == Spec => []IInv
  BY InitInv, StepInv, PTL DEF Spec

\* Every variable of the uplink keeps its type.
THEOREM TypeCorrect == Spec => []TypeOK
<1>1. IInv => TypeOK
  BY DEF IInv
<1> QED
  BY <1>1, Invariance, PTL

\* ProcessUp applies every batch once and in order, whatever is delayed, lost,
\* repeated or refused, and never one it has applied in part.
THEOREM AppliesExactlyOnceInOrder == Spec => []ExactlyOnceInOrder
<1>1. IInv => ExactlyOnceInOrder
  BY DEF IInv, LogInv
<1> QED
  BY <1>1, Invariance, PTL

\* The page drops only batches that ProcessUp has applied.
THEOREM AcknowledgesOnlyApplied == Spec => []AckedIsApplied
<1>1. IInv => AckedIsApplied
  BY DEF IInv, LogInv, ClientInv, AckedIsApplied
<1> QED
  BY <1>1, Invariance, PTL

\* upActive is set exactly while one call parses outside the mutex.
THEOREM AtMostOneParser == Spec => []OneParser
<1>1. IInv => OneParser
  BY DEF IInv
<1> QED
  BY <1>1, Invariance, PTL

\* A page that has failed waits for no request.
FailedWaitsForNone == client.failed => client.request = None

\* fail() and close() end the loop, and only a living page sends a request.
LEMMA FailedInvariance == Spec => []FailedWaitsForNone
<1>1. Init => FailedWaitsForNone
  BY DEF Init, FailedWaitsForNone
<1>2. IInv /\ FailedWaitsForNone /\ [Next]_vars => FailedWaitsForNone'
  <2> SUFFICES ASSUME IInv, FailedWaitsForNone, [Next]_vars PROVE FailedWaitsForNone'
    OBVIOUS
  <2>1. client \in ClientState
    BY DEF IInv, TypeOK
  <2>2. CASE client' = client
    BY <2>2 DEF FailedWaitsForNone
  <2>3. CASE ClientRetries \/ ClientStops
    BY <2>1, <2>3 DEF ClientRetries, ClientStops, FailedWaitsForNone, ClientState
  <2>4. ASSUME NEW r \in Requests, ClientSends(r) PROVE FailedWaitsForNone'
    BY <2>1, <2>4 DEF ClientSends, FailedWaitsForNone, ClientState
  <2>5. ASSUME NEW r \in Requests, ClientReceives(r) PROVE FailedWaitsForNone'
    BY <2>1, <2>5 DEF ClientReceives, FailedWaitsForNone, ClientState
  <2>6. ASSUME NEW r \in Requests, ProcessUp(r) \/ Vanish(r) PROVE client' = client
    BY <2>6 DEF ProcessUp, UpRefused, UpRepeated, UpOutOfOrder, UpConcurrent, UpAdmitted,
       UpClosedMeanwhile, UpInvalid, UpBackpressure, UpPartlyApplied, UpApplied, UpCloses,
       Vanish
  <2>7. CASE Close \/ Enqueue \/ UNCHANGED vars
    BY <2>2, <2>7 DEF Close, Enqueue, vars
  <2> QED
    BY <2>2, <2>3, <2>4, <2>5, <2>6, <2>7 DEF Next
<1> QED
  BY <1>1, <1>2, Invariance, PTL DEF Spec

\* The uplink implements Channel: queueUp is Send, the page's fail is
\* SenderEnds, a committed batch is Deliver, closing the session is
\* ReceiverEnds, and the rest stutters.
THEOREM Refinement == Spec => ImplementsChannel
<1>1. Init => Chan!ChanInit
  BY DEF Init, Chan!ChanInit
<1>2. IInv /\ FailedWaitsForNone /\ [Next]_vars => [Chan!ChanNext]_(Chan!chanVars)
  <2> SUFFICES ASSUME IInv, FailedWaitsForNone, [Next]_vars
               PROVE  [Chan!ChanNext]_(Chan!chanVars)
    OBVIOUS
  <2> USE DEF Chan!ChanNext, Chan!chanVars
  <2>0. client \in ClientState /\ None \notin Requests /\ queued \in Nat /\ closed \in BOOLEAN
    BY UplinkAssumption DEF IInv, TypeOK
  <2>1. CASE Enqueue
    BY <2>0, <2>1 DEF Enqueue, serverVars, Chan!Send
  <2>2. CASE Close
    BY <2>2 DEF Close, Chan!ReceiverEnds
  <2>3. ASSUME NEW r \in Requests, UpCloses(r) PROVE [Chan!ChanNext]_(Chan!chanVars)
    BY <2>0, <2>3 DEF UpCloses, Chan!ReceiverEnds
  <2>4. ASSUME NEW r \in Requests, UpApplied(r) PROVE Chan!Deliver
    <3>1. /\ applied \in Seq(Nat) /\ Len(applied) = lastUpSequence /\ lastUpSequence \in Nat
          /\ queued \in Nat /\ \A k \in 1 .. Len(applied) : applied[k] = k
      BY DEF IInv, TypeOK, LogInv, ExactlyOnceInOrder
    <3>2. requests[r].body = lastUpSequence + 1 /\ lastUpSequence + 1 <= queued
      BY <2>4 DEF UpApplied, MayBeValid, IInv, RequestOK
    <3>3. applied' = Append(applied, lastUpSequence + 1)
      BY <2>4, <3>2 DEF UpApplied
    <3>4. applied' = Chan!FirstItems(lastUpSequence + 1)
      <4> DEFINE n == lastUpSequence + 1
      <4>1. applied' \in Seq(Nat) /\ Len(applied') = n /\ n \in Nat
        BY <3>1, <3>3
      <4>2. \A k \in 1 .. n : applied'[k] = k
        BY <3>1, <3>3
      <4> HIDE DEF n
      <4>3. applied' = Chan!FirstItems(n)
        BY <4>1, <4>2 DEF Chan!FirstItems
      <4> QED
        BY <4>3 DEF n
    <3>5. lastUpSequence + 1 \in Len(applied) + 1 .. queued
      BY <3>1, <3>2
    <3> QED
      BY <2>4, <3>4, <3>5 DEF Chan!Deliver, UpApplied, MayBeValid
  <2>5. ASSUME NEW r \in Requests,
               \/ UpRefused(r) \/ UpRepeated(r) \/ UpOutOfOrder(r) \/ UpConcurrent(r)
               \/ UpAdmitted(r) \/ UpClosedMeanwhile(r) \/ UpInvalid(r)
               \/ UpBackpressure(r) \/ UpPartlyApplied(r) \/ Vanish(r)
        PROVE  UNCHANGED Chan!chanVars
    BY <2>5 DEF UpRefused, UpRepeated, UpOutOfOrder, UpConcurrent, UpAdmitted,
       UpClosedMeanwhile, UpInvalid, UpBackpressure, UpPartlyApplied, Vanish, serverVars
  <2>6. ASSUME NEW r \in Requests, ClientSends(r) PROVE UNCHANGED Chan!chanVars
    BY <2>0, <2>6 DEF ClientSends, serverVars, ClientState
  <2>7. ASSUME NEW r \in Requests, ClientReceives(r)
        PROVE  [Chan!ChanNext]_(Chan!chanVars)
    <3>1. client.failed = FALSE
      BY <2>0, <2>7 DEF ClientReceives, FailedWaitsForNone, ClientState
    <3>2. client'.failed \in BOOLEAN
      BY <2>0, <2>7 DEF ClientReceives, ClientState
    <3>3. UNCHANGED <<queued, applied, closed>>
      BY <2>7 DEF ClientReceives, serverVars
    <3> QED
      BY <3>1, <3>2, <3>3 DEF Chan!SenderEnds
  <2>8. CASE ClientRetries \/ ClientStops
    BY <2>0, <2>8 DEF ClientRetries, ClientStops, serverVars, ClientState, Chan!SenderEnds
  <2>9. CASE UNCHANGED vars
    BY <2>9 DEF vars, serverVars
  <2> QED
    BY <2>1, <2>2, <2>3, <2>4, <2>5, <2>6, <2>7, <2>8, <2>9 DEF Next, ProcessUp
<1> QED
  BY <1>1, <1>2, Invariance, FailedInvariance, PTL
  DEF Spec, ImplementsChannel, Chan!ChanSafe
================================================================================
