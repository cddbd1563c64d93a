-------------------------------- MODULE Uplink ---------------------------------
(***************************************************************************)
(* The uplink of the https carrier, end to end: the sequence and retry     *)
(* rules of Session.ProcessUp (internal/session/session.go), the handler   *)
(* around it (serveUp in internal/server/server.go) and the sending loop   *)
(* of the bridge page (runUp and request in internal/bridge/page.go), over *)
(* a network that delays, loses and reorders requests and responses.       *)
(*                                                                         *)
(* Batches are numbered in the order the page joins them; a body is its    *)
(* number, and so is its digest.  Session.tla has what a batch does to the *)
(* streams; here its outcome is applied, refused for lack of budget,       *)
(* invalid, or only partly applied (the CLOSE of a rejected OPEN did not   *)
(* fit in the control budget).                                             *)
(***************************************************************************)
EXTENDS Integers, Sequences, FiniteSets

CONSTANTS
    None,           \* no request
    Requests,       \* requests that may be under way at once
    MaxBatches,     \* bound: batches the client hands to the page
    MaxAttempts,    \* failed attempts after which request() throws
    MaxWaits        \* 503 answers that fit in request()'s 90 s budget

ASSUME UplinkAssumption ==
    None \notin Requests /\ MaxBatches \in Nat
    /\ MaxAttempts \in Nat \ {0} /\ MaxWaits \in Nat \ {0}

VARIABLES
    closed,          \* Session.closed
    lastUpSequence,  \* Session.lastUpSequence
    lastUpDigest,    \* Session.lastUpDigest
    upActive,        \* Session.upActive
    requests,        \* every request and the ProcessUp call it becomes
    client,          \* the bridge page's loop
    queued,          \* batches the client has handed to the page
    applied,         \* the batches the session has applied, in order
    partial          \* the batches it has applied only a first part of

serverVars == <<closed, lastUpSequence, lastUpDigest, upActive, applied, partial>>
vars == <<serverVars, requests, client, queued>>

\* A request: on its way, inside ProcessUp without the mutex (parsing, or
\* about to close the session), or answered with 204, 503 or 404.
NoRequest == [pc |-> "none", sequence |-> 0, body |-> 0, kind |-> "none"]

RequestState ==
    [pc : {"none", "sent", "parsing", "failing", "answered"},
     sequence : Nat, body : Nat, kind : {"none", "ack", "retry", "error"}]

ClientState ==
    [request : Requests \cup {None}, upSequence : Nat, attempts : Nat,
     waits : Nat, failed : BOOLEAN]

Answer(r, kind) ==
    requests' = [requests EXCEPT ![r].pc = "answered", ![r].kind = kind]

--------------------------------------------------------------------------------
(* The session.                                                            *)

\* Mutant: a closed session answers with a status the page does not know.
UpRefusedGone(r) ==
    /\ requests[r].pc = "sent" /\ closed
    /\ Answer(r, "gone")
    /\ UNCHANGED <<serverVars, client, queued>>

\* ProcessUp's first critical section.  The session is closed...
UpRefused(r) ==
    /\ requests[r].pc = "sent" /\ closed
    /\ Answer(r, "error")
    /\ UNCHANGED <<serverVars, client, queued>>

\* ...the sequence is the last committed one: a byte-identical body is
\* acknowledged again, any other is a protocol failure...
UpRepeated(r) ==
    /\ requests[r].pc = "sent" /\ ~closed
    /\ requests[r].sequence = lastUpSequence /\ lastUpSequence # 0
    /\ requests[r].body = lastUpDigest
    /\ Answer(r, "ack")
    /\ UNCHANGED <<serverVars, client, queued>>

\* ...or it is not the next one either: protocolFailure, after the unlock...
UpOutOfOrder(r) ==
    /\ requests[r].pc = "sent" /\ ~closed
    /\ IF requests[r].sequence = lastUpSequence /\ lastUpSequence # 0
       THEN requests[r].body # lastUpDigest
       ELSE requests[r].sequence # lastUpSequence + 1
    /\ requests' = [requests EXCEPT ![r].pc = "failing"]
    /\ UNCHANGED <<serverVars, client, queued>>

\* ...or it is, while another call for it is parsing (ErrConcurrent)...
UpConcurrent(r) ==
    /\ requests[r].pc = "sent" /\ ~closed
    /\ requests[r].sequence = lastUpSequence + 1 /\ upActive
    /\ Answer(r, "retry")
    /\ UNCHANGED <<serverVars, client, queued>>

\* ...or it is admitted, and the body is parsed without the mutex.
UpAdmitted(r) ==
    /\ requests[r].pc = "sent" /\ ~closed
    /\ requests[r].sequence = lastUpSequence + 1 /\ ~upActive
    /\ upActive' = TRUE
    /\ requests' = [requests EXCEPT ![r].pc = "parsing"]
    /\ UNCHANGED <<closed, lastUpSequence, lastUpDigest, applied, partial, client, queued>>

\* The second critical section: closed meanwhile...
UpClosedMeanwhile(r) ==
    /\ requests[r].pc = "parsing" /\ closed
    /\ upActive' = FALSE
    /\ Answer(r, "error")
    /\ UNCHANGED <<closed, lastUpSequence, lastUpDigest, applied, partial, client, queued>>

\* ...the batch is invalid, and the session is closed after the unlock...
UpInvalid(r) ==
    /\ requests[r].pc = "parsing" /\ ~closed
    /\ upActive' = FALSE
    /\ requests' = [requests EXCEPT ![r].pc = "failing"]
    /\ UNCHANGED <<closed, lastUpSequence, lastUpDigest, applied, partial, client, queued>>

\* (A batch that was partly applied is never valid again: the OPEN it failed
\* at has left a tombstone.)
MayBeValid(r) == requests[r].pc = "parsing" /\ ~closed /\ requests[r].body \notin partial

\* Mutant: a refused batch is acknowledged.
UpBackpressureAcks(r) ==
    /\ MayBeValid(r)
    /\ upActive' = FALSE
    /\ Answer(r, "ack")
    /\ UNCHANGED <<closed, lastUpSequence, lastUpDigest, applied, partial, client, queued>>

\* ...there is no room for its writes (ErrBackpressure)...
UpBackpressure(r) ==
    /\ MayBeValid(r)
    /\ upActive' = FALSE
    /\ Answer(r, "retry")
    /\ UNCHANGED <<closed, lastUpSequence, lastUpDigest, applied, partial, client, queued>>

\* ...only its first frames can be applied: they stay applied, nothing is
\* committed, and the session is closed after the unlock...
UpPartlyApplied(r) ==
    /\ MayBeValid(r)
    /\ upActive' = FALSE
    /\ partial' = partial \cup {requests[r].body}
    /\ requests' = [requests EXCEPT ![r].pc = "failing"]
    /\ UNCHANGED <<closed, lastUpSequence, lastUpDigest, applied, client, queued>>

\* Mutant: the applied batch is not committed.
UpAppliedUncommitted(r) ==
    /\ MayBeValid(r)
    /\ upActive' = FALSE
    /\ applied' = Append(applied, requests[r].body)
    /\ Answer(r, "ack")
    /\ UNCHANGED <<closed, lastUpSequence, lastUpDigest, partial, client, queued>>

\* ...or it is applied and committed.
UpApplied(r) ==
    /\ MayBeValid(r)
    /\ upActive' = FALSE
    /\ lastUpSequence' = requests[r].sequence
    /\ lastUpDigest' = requests[r].body
    /\ applied' = Append(applied, requests[r].body)
    /\ Answer(r, "ack")
    /\ UNCHANGED <<closed, partial, client, queued>>

\* protocolFailure, or Close after a batch that was not applied.
UpCloses(r) ==
    /\ requests[r].pc = "failing"
    /\ closed' = TRUE
    /\ Answer(r, "error")
    /\ UNCHANGED <<lastUpSequence, lastUpDigest, upActive, applied, partial, client, queued>>

\* Any other reason to close the session.
Close ==
    /\ ~closed /\ closed' = TRUE
    /\ UNCHANGED <<lastUpSequence, lastUpDigest, upActive, applied, partial,
                   requests, client, queued>>

--------------------------------------------------------------------------------
(* The network and the bridge page.                                        *)

\* A request or a response the page no longer waits for disappears.
Vanish(r) ==
    /\ requests[r].pc \in {"sent", "answered"} /\ client.request # r
    /\ requests' = [requests EXCEPT ![r] = NoRequest]
    /\ UNCHANGED <<serverVars, client, queued>>

\* queueUp: the client's frames wait in upPending.
Enqueue ==
    /\ ~client.failed /\ queued < MaxBatches
    /\ queued' = queued + 1
    /\ UNCHANGED <<serverVars, requests, client>>

\* Mutant: the page posts before the client has handed it a batch.
ClientSendsEarly(r) ==
    /\ ~client.failed /\ client.request = None
    /\ client.upSequence <= MaxBatches
    /\ requests[r].pc = "none"
    /\ requests' = [requests EXCEPT ![r] = [NoRequest EXCEPT !.pc = "sent",
                      !.sequence = client.upSequence, !.body = client.upSequence]]
    /\ client' = [client EXCEPT !.request = r]
    /\ UNCHANGED <<serverVars, queued>>

\* Mutant: the loop ends, without failing the page, at the first failed fetch.
ClientSendsOnce(r) ==
    /\ ~client.failed /\ client.request = None /\ client.attempts = 0
    /\ client.upSequence <= queued
    /\ requests[r].pc = "none"
    /\ requests' = [requests EXCEPT ![r] = [NoRequest EXCEPT !.pc = "sent",
                      !.sequence = client.upSequence, !.body = client.upSequence]]
    /\ client' = [client EXCEPT !.request = r]
    /\ UNCHANGED <<serverVars, queued>>

\* runUp: POST the next batch, or the same one again.
ClientSends(r) ==
    /\ ~client.failed /\ client.request = None
    /\ client.upSequence <= queued
    /\ requests[r].pc = "none"
    /\ requests' = [requests EXCEPT ![r] = [NoRequest EXCEPT !.pc = "sent",
                      !.sequence = client.upSequence, !.body = client.upSequence]]
    /\ client' = [client EXCEPT !.request = r]
    /\ UNCHANGED <<serverVars, queued>>

\* fetch throws: retry until attempts run out; the old request lives on.
ClientRetries ==
    /\ ~client.failed /\ client.request # None
    /\ client' = [client EXCEPT !.request = None, !.attempts = @ + 1,
                                !.failed = (client.attempts + 1 = MaxAttempts)]
    /\ UNCHANGED <<serverVars, requests, queued>>

\* fail or close: the client closes its port, or another part of the page
\* fails.  The DELETE it sends is a Close.
ClientStops ==
    /\ ~client.failed
    /\ client' = [client EXCEPT !.request = None, !.failed = TRUE]
    /\ UNCHANGED <<serverVars, requests, queued>>

\* A response: 204 with this sequence moves on, 503 waits and retries within
\* its budget, anything else fails the page.
ClientReceives(r) ==
    /\ client.request = r /\ requests[r].pc = "answered"
    /\ client' =
         CASE requests[r].kind = "ack" ->
                [client EXCEPT !.request = None, !.attempts = 0, !.waits = 0,
                               !.upSequence = @ + 1]
           [] requests[r].kind = "retry" ->
                [client EXCEPT !.request = None, !.waits = @ + 1,
                               !.failed = (client.waits + 1 = MaxWaits)]
           [] OTHER -> [client EXCEPT !.request = None, !.failed = TRUE]
    /\ requests' = [requests EXCEPT ![r] = NoRequest]
    /\ UNCHANGED <<serverVars, queued>>

--------------------------------------------------------------------------------
Init ==
    /\ closed = FALSE
    /\ lastUpSequence = 0 /\ lastUpDigest = 0 /\ upActive = FALSE
    /\ requests = [r \in Requests |-> NoRequest]
    /\ client = [request |-> None, upSequence |-> 1, attempts |-> 0, waits |-> 0,
                 failed |-> FALSE]
    /\ queued = 0 /\ applied = <<>> /\ partial = {}

ProcessUp(r) ==
    \/ UpRefused(r) \/ UpRepeated(r) \/ UpOutOfOrder(r) \/ UpConcurrent(r)
    \/ UpAdmitted(r) \/ UpClosedMeanwhile(r) \/ UpInvalid(r) \/ UpBackpressure(r)
    \/ UpPartlyApplied(r) \/ UpApplied(r) \/ UpCloses(r)

Next ==
    \/ Close \/ Enqueue \/ ClientRetries \/ ClientStops
    \/ \E r \in Requests :
         ProcessUp(r) \/ Vanish(r) \/ ClientSends(r) \/ ClientReceives(r)

Spec == Init /\ [][Next]_vars

\* Handlers run; requests arrive or are lost; the page's loop goes on.
Fairness ==
    /\ WF_vars(ClientRetries \/ \E r \in Requests : ClientSends(r) \/ ClientReceives(r))
    /\ \A r \in Requests : WF_vars(ProcessUp(r) \/ Vanish(r))

FairSpec == Spec /\ Fairness

--------------------------------------------------------------------------------
(* Properties.                                                             *)

TypeOK ==
    /\ closed \in BOOLEAN /\ upActive \in BOOLEAN
    /\ lastUpSequence \in Nat /\ lastUpDigest \in Nat
    /\ requests \in [Requests -> RequestState]
    /\ client \in ClientState
    /\ queued \in Nat /\ applied \in Seq(Nat) /\ partial \subseteq Nat

\* Whatever is delayed, lost or repeated, and however often a batch is
\* refused for lack of budget, the session applies every batch once, in order,
\* and never the rest or the whole of one it has applied in part.
ExactlyOnceInOrder ==
    /\ \A k \in 1 .. Len(applied) : applied[k] = k
    /\ \A n \in partial : n > Len(applied)

\* The page drops a batch only when the session has applied it: an
\* acknowledgement is never for something else.
AckedIsApplied == client.upSequence <= Len(applied) + 1

\* upActive is set exactly while one call is parsing outside the mutex, so a
\* refused or failed call can never lock out the ones after it.
OneParser ==
    /\ upActive <=> \E r \in Requests : requests[r].pc = "parsing"
    /\ \A r, q \in Requests :
         requests[r].pc = "parsing" /\ requests[q].pc = "parsing" => r = q

\* The uplink implements the abstract channel: nothing is applied that the
\* client has not handed to the page, nothing is handed to a page that has
\* failed, and nothing is applied once the session is closed, even when the
\* close comes while the batch is parsed without the mutex.
Chan == INSTANCE Channel WITH sent <- queued, delivered <- applied,
                              senderEnded <- client.failed, receiverEnded <- closed
ImplementsChannel == Chan!ChanSafe

\* Every batch is applied, or the session or the page ends.
BatchesArrive ==
    \A n \in 1 .. MaxBatches :
      queued >= n ~> (Len(applied) >= n \/ closed \/ client.failed)
================================================================================
