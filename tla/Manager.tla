-------------------------------- MODULE Manager --------------------------------
(***************************************************************************)
(* The session manager: bootstraps, sessions, streams and the process-wide *)
(* budgets (internal/session/manager.go).  An action is one critical       *)
(* section of Manager.mu.                                                  *)
(*                                                                         *)
(* Bootstraps, sessions and streams are numbered in the order they are     *)
(* created; the number stands for the token and its hash.  All bootstraps  *)
(* have the same lifetime, so they expire in that order.  The token        *)
(* buckets of allowRateLocked and allowProfileRateLocked answer anything.  *)
(***************************************************************************)
EXTENDS Integers, Sequences, FiniteSets

CONSTANTS
    IPs, Profiles,
    MaxBootstrapsGlobal, MaxBootstrapsPerIP,
    MaxSessionsGlobal, MaxSessionsPerIP, MaxSessionsPerProfile,
    MaxStreamsGlobal, MaxStreamsPerProfile,
    MaxBackendDialsInFlight, MaxDialsPerProfile,
    MaxPendingGlobal, ControlReserve,   \* pending cost; pending items follow the same rule
    ClosedTokenLimit,                   \* MaxSessionsGlobal*16
    MaxBootstraps, MaxSessions, MaxStreams, MaxCharge   \* bounds of the model

ASSUME ManagerAssumption ==
    /\ IPs # {} /\ Profiles # {}
    /\ {MaxBootstrapsGlobal, MaxSessionsGlobal, MaxSessionsPerProfile,
        MaxStreamsGlobal, MaxStreamsPerProfile, MaxBackendDialsInFlight,
        MaxDialsPerProfile, MaxPendingGlobal, ClosedTokenLimit} \subseteq Nat \ {0}
    /\ {MaxBootstrapsPerIP, MaxSessionsPerIP, ControlReserve,
        MaxBootstraps, MaxSessions, MaxStreams, MaxCharge} \subseteq Nat

VARIABLES
    closed,              \* Manager.closed
    bootstraps,          \* Manager.bootstraps
    bootstrapsPerIP,
    sessions,            \* every Session created, registered or not
    sessionsPerIP, sessionsPerProfile,
    closedTokens,        \* Manager.closedTokens, oldest first
    streams,             \* every stream goroutine a session has started
    streamsLive, streamsPerProfile,
    backendDialsInFlight, dialsPerProfile,
    pendingGlobal,       \* Manager.pendingGlobalCost
    shutdown             \* the call of Shutdown: its progress and its snapshot

bootVars    == <<bootstraps, bootstrapsPerIP>>
sessionVars == <<sessions, sessionsPerIP, sessionsPerProfile, closedTokens>>
streamVars  == <<streams, streamsLive, streamsPerProfile, backendDialsInFlight,
                 dialsPerProfile>>
vars == <<closed, bootVars, sessionVars, streamVars, pendingGlobal, shutdown>>

Bootstraps == 1 .. MaxBootstraps
Sessions   == 1 .. MaxSessions
Streams    == 1 .. MaxStreams

\* A bootstrap entry: absent before it is issued and after it is removed.
BootstrapState ==
    [state : {"new", "unused", "used", "removed"}, expired : BOOLEAN,
     ip : IPs, profile : Profiles, session : 0 .. MaxSessions]

\* A session: registered while open, and still registered when closed until
\* sessionFinished has run.
SessionState ==
    [state : {"new", "open", "closed", "finished"},
     ip : IPs, profile : Profiles, pending : Nat, bootstrap : 0 .. MaxBootstraps]

StreamState ==
    [state : {"new", "dialing", "connected", "finished"}, session : 0 .. MaxSessions]

AnyIP == CHOOSE ip \in IPs : TRUE
AnyProfile == CHOOSE profile \in Profiles : TRUE

Present == {h \in Bootstraps : bootstraps[h].state \in {"unused", "used"}}
Unused == {h \in Bootstraps : bootstraps[h].state = "unused"}
Registered == {s \in Sessions : sessions[s].state \in {"open", "closed"}}
Running == {t \in Streams : streams[t].state \in {"dialing", "connected"}}
Dialing == {t \in Streams : streams[t].state = "dialing"}
StreamProfile(t) == sessions[streams[t].session].profile

Least(S) == CHOOSE x \in S : \A y \in S : x <= y
New(f, S) == {x \in S : f[x].state = "new"}

--------------------------------------------------------------------------------
(* Bootstraps.                                                             *)

\* removeBootstrapLocked on every entry of a set: an unused one gives its
\* place in the per-address count back.
WithoutBootstraps(gone) ==
    [h \in Bootstraps |->
        IF h \in gone THEN [bootstraps[h] EXCEPT !.state = "removed", !.expired = FALSE]
        ELSE bootstraps[h]]

PerIPWithout(gone) ==
    [ip \in IPs |->
        bootstrapsPerIP[ip] - Cardinality({h \in gone \cap Unused : bootstraps[h].ip = ip})]

Expired == {h \in Present : bootstraps[h].expired}

\* removeExpiredBootstrapsLocked: also drops the closed tokens whose time is
\* over, the oldest first.
TokensExpire ==
    \E n \in 0 .. Len(closedTokens) :
      closedTokens' = SubSeq(closedTokens, n + 1, Len(closedTokens))

\* IssueBootstrap refused for the address's count or the rate, and a tick of
\* cleanupLoop: only what has expired goes.  The idle sessions of the tick's
\* snapshot are then closed one by one (CloseSession).
RemoveExpired ==
    /\ shutdown.pc # "done"
    /\ bootstraps' = WithoutBootstraps(Expired)
    /\ bootstrapsPerIP' = PerIPWithout(Expired)
    /\ TokensExpire
    /\ UNCHANGED <<closed, sessions, sessionsPerIP, sessionsPerProfile, streamVars,
                   pendingGlobal, shutdown>>

\* IssueBootstrap: expired entries go first, and when the table is still full
\* the oldest unused entry makes room.
IssueBootstrap(ip, profile) ==
    LET live == Present \ Expired
        full == Cardinality(live) >= MaxBootstrapsGlobal
        candidates == live \cap Unused
        gone == Expired \cup (IF full THEN {Least(candidates)} ELSE {})
        new == Least(New(bootstraps, Bootstraps))
    IN  /\ ~closed
        /\ New(bootstraps, Bootstraps) # {}
        /\ MaxBootstrapsPerIP # 0 => PerIPWithout(Expired)[ip] < MaxBootstrapsPerIP
        /\ full => candidates # {}
        /\ bootstraps' = [WithoutBootstraps(gone) EXCEPT ![new] =
              [state |-> "unused", expired |-> FALSE, ip |-> ip,
               profile |-> profile, session |-> 0]]
        /\ bootstrapsPerIP' = [PerIPWithout(gone) EXCEPT ![ip] = @ + 1]
        /\ TokensExpire
        /\ UNCHANGED <<closed, sessions, sessionsPerIP, sessionsPerProfile, streamVars,
                       pendingGlobal, shutdown>>

\* Time passes over the oldest bootstrap still valid.
BootstrapExpires ==
    /\ {h \in Present : ~bootstraps[h].expired} # {}
    /\ bootstraps' = [bootstraps EXCEPT
          ![Least({h \in Present : ~bootstraps[h].expired})].expired = TRUE]
    /\ UNCHANGED <<closed, bootstrapsPerIP, sessionVars, streamVars, pendingGlobal,
                   shutdown>>

--------------------------------------------------------------------------------
(* Sessions.                                                               *)

\* Mutant: a manager that is shutting down still creates sessions.
CreateUnchecked(h, ip) ==
    LET profile == bootstraps[h].profile
        new == Least(New(sessions, Sessions))
    IN  /\ bootstraps[h].state = "unused" /\ ~bootstraps[h].expired
        /\ New(sessions, Sessions) # {}
        /\ Cardinality(Registered) < MaxSessionsGlobal
        /\ sessionsPerProfile[profile] < MaxSessionsPerProfile
        /\ MaxSessionsPerIP # 0 => sessionsPerIP[ip] < MaxSessionsPerIP
        /\ sessions' = [sessions EXCEPT ![new] =
              [state |-> "open", ip |-> ip, profile |-> profile, pending |-> 0,
               bootstrap |-> h]]
        /\ sessionsPerIP' = [sessionsPerIP EXCEPT ![ip] = @ + 1]
        /\ sessionsPerProfile' = [sessionsPerProfile EXCEPT ![profile] = @ + 1]
        /\ bootstrapsPerIP' = [bootstrapsPerIP EXCEPT ![bootstraps[h].ip] = @ - 1]
        /\ bootstraps' = [bootstraps EXCEPT ![h].state = "used", ![h].session = new]
        /\ UNCHANGED <<closed, closedTokens, streamVars, pendingGlobal, shutdown>>

\* Create with a valid unused bootstrap, within every limit.  With a used
\* bootstrap it returns that bootstrap's session and changes nothing.
Create(h, ip) ==
    LET profile == bootstraps[h].profile
        new == Least(New(sessions, Sessions))
    IN  /\ bootstraps[h].state = "unused" /\ ~bootstraps[h].expired
        /\ ~closed
        /\ New(sessions, Sessions) # {}
        /\ Cardinality(Registered) < MaxSessionsGlobal
        /\ sessionsPerProfile[profile] < MaxSessionsPerProfile
        /\ MaxSessionsPerIP # 0 => sessionsPerIP[ip] < MaxSessionsPerIP
        /\ sessions' = [sessions EXCEPT ![new] =
              [state |-> "open", ip |-> ip, profile |-> profile, pending |-> 0,
               bootstrap |-> h]]
        /\ sessionsPerIP' = [sessionsPerIP EXCEPT ![ip] = @ + 1]
        /\ sessionsPerProfile' = [sessionsPerProfile EXCEPT ![profile] = @ + 1]
        /\ bootstrapsPerIP' = [bootstrapsPerIP EXCEPT ![bootstraps[h].ip] = @ - 1]
        /\ bootstraps' = [bootstraps EXCEPT ![h].state = "used", ![h].session = new]
        /\ UNCHANGED <<closed, closedTokens, streamVars, pendingGlobal, shutdown>>

\* Session.Close, from a DELETE (CloseToken), a protocol failure, or the
\* session's own code: everything it has charged comes back at once.
CloseSession(s) ==
    /\ sessions[s].state = "open"
    /\ pendingGlobal' = pendingGlobal - sessions[s].pending
    /\ sessions' = [sessions EXCEPT ![s].state = "closed", ![s].pending = 0]
    /\ UNCHANGED <<closed, bootVars, sessionsPerIP, sessionsPerProfile, closedTokens,
                   streamVars, shutdown>>

\* Mutant: the address that was issued the bootstrap gets the place back.
SessionFinishedForIssuer(s) ==
    LET gone == {h \in Present : bootstraps[h].session = s}
        issuer == bootstraps[sessions[s].bootstrap].ip
    IN  /\ sessions[s].state = "closed"
        /\ sessions' = [sessions EXCEPT ![s].state = "finished"]
        /\ closedTokens' =
             Append(IF Len(closedTokens) >= ClosedTokenLimit
                    THEN Tail(closedTokens) ELSE closedTokens, s)
        /\ sessionsPerIP' = [sessionsPerIP EXCEPT ![issuer] = @ - 1]
        /\ sessionsPerProfile' = [sessionsPerProfile EXCEPT ![sessions[s].profile] = @ - 1]
        /\ bootstraps' = WithoutBootstraps(gone)
        /\ bootstrapsPerIP' = PerIPWithout(gone)
        /\ UNCHANGED <<closed, streamVars, pendingGlobal, shutdown>>

\* Mutant: the bootstrap of a finished session stays.
SessionFinishedKeepsBootstrap(s) ==
    /\ sessions[s].state = "closed"
    /\ sessions' = [sessions EXCEPT ![s].state = "finished"]
    /\ closedTokens' =
         Append(IF Len(closedTokens) >= ClosedTokenLimit
                THEN Tail(closedTokens) ELSE closedTokens, s)
    /\ sessionsPerIP' = [sessionsPerIP EXCEPT ![sessions[s].ip] = @ - 1]
    /\ sessionsPerProfile' = [sessionsPerProfile EXCEPT ![sessions[s].profile] = @ - 1]
    /\ UNCHANGED <<closed, bootVars, streamVars, pendingGlobal, shutdown>>

\* sessionFinished, in a goroutine of its own.
SessionFinished(s) ==
    LET gone == {h \in Present : bootstraps[h].session = s}
    IN  /\ sessions[s].state = "closed"
        /\ sessions' = [sessions EXCEPT ![s].state = "finished"]
        /\ closedTokens' =
             Append(IF Len(closedTokens) >= ClosedTokenLimit
                    THEN Tail(closedTokens) ELSE closedTokens, s)
        /\ sessionsPerIP' = [sessionsPerIP EXCEPT ![sessions[s].ip] = @ - 1]
        /\ sessionsPerProfile' = [sessionsPerProfile EXCEPT ![sessions[s].profile] = @ - 1]
        /\ bootstraps' = WithoutBootstraps(gone)
        /\ bootstrapsPerIP' = PerIPWithout(gone)
        /\ UNCHANGED <<closed, streamVars, pendingGlobal, shutdown>>

--------------------------------------------------------------------------------
(* Streams and the pending budget.                                         *)

\* acquireStream, called by applyBatchLocked of an open session.
AcquireStream(s) ==
    LET profile == sessions[s].profile
        new == Least(New(streams, Streams))
    IN  /\ sessions[s].state = "open" /\ ~closed
        /\ New(streams, Streams) # {}
        /\ streamsLive < MaxStreamsGlobal
        /\ backendDialsInFlight < MaxBackendDialsInFlight
        /\ streamsPerProfile[profile] < MaxStreamsPerProfile
        /\ dialsPerProfile[profile] < MaxDialsPerProfile
        /\ streamsLive' = streamsLive + 1
        /\ backendDialsInFlight' = backendDialsInFlight + 1
        /\ streamsPerProfile' = [streamsPerProfile EXCEPT ![profile] = @ + 1]
        /\ dialsPerProfile' = [dialsPerProfile EXCEPT ![profile] = @ + 1]
        /\ streams' = [streams EXCEPT ![new] = [state |-> "dialing", session |-> s]]
        /\ UNCHANGED <<closed, bootVars, sessionVars, pendingGlobal, shutdown>>

\* backendDialFinished, once per stream, whatever the dial's outcome.
BackendDialFinished(t) ==
    /\ streams[t].state = "dialing"
    /\ streams' = [streams EXCEPT ![t].state = "connected"]
    /\ backendDialsInFlight' = backendDialsInFlight - 1
    /\ dialsPerProfile' = [dialsPerProfile EXCEPT ![StreamProfile(t)] = @ - 1]
    /\ UNCHANGED <<closed, bootVars, sessionVars, streamsLive, streamsPerProfile,
                   pendingGlobal, shutdown>>

\* Mutant: the stream of a closed session never ends.
StreamFinishedWhileOpen(t) ==
    /\ streams[t].state = "connected"
    /\ sessions[streams[t].session].state = "open"
    /\ streams' = [streams EXCEPT ![t].state = "finished"]
    /\ streamsLive' = streamsLive - 1
    /\ streamsPerProfile' = [streamsPerProfile EXCEPT ![StreamProfile(t)] = @ - 1]
    /\ UNCHANGED <<closed, bootVars, sessionVars, backendDialsInFlight,
                   dialsPerProfile, pendingGlobal, shutdown>>

\* streamFinished, deferred in runBackend; its session may be long gone.
StreamFinished(t) ==
    /\ streams[t].state = "connected"
    /\ streams' = [streams EXCEPT ![t].state = "finished"]
    /\ streamsLive' = streamsLive - 1
    /\ streamsPerProfile' = [streamsPerProfile EXCEPT ![StreamProfile(t)] = @ - 1]
    /\ UNCHANGED <<closed, bootVars, sessionVars, backendDialsInFlight,
                   dialsPerProfile, pendingGlobal, shutdown>>

\* changePendingBudget: data leaves the control reserve of every possible
\* session free, control frames may use it.
DataLimit == IF ControlReserve > MaxPendingGlobal \div MaxSessionsGlobal
             THEN 0 ELSE MaxPendingGlobal - ControlReserve * MaxSessionsGlobal

ReservePending(s, cost, class) ==
    LET limit == IF class = "control" THEN MaxPendingGlobal ELSE DataLimit
    IN  /\ sessions[s].state = "open"
        /\ pendingGlobal + cost <= limit
        /\ pendingGlobal' = pendingGlobal + cost
        /\ sessions' = [sessions EXCEPT ![s].pending = @ + cost]
        /\ UNCHANGED <<closed, bootVars, sessionsPerIP, sessionsPerProfile,
                       closedTokens, streamVars, shutdown>>

\* Mutant: a session may release more than it has charged.
ReleasePendingUnchecked(s, cost) ==
    /\ sessions[s].state = "open"
    /\ pendingGlobal' = pendingGlobal - cost
    /\ sessions' = [sessions EXCEPT ![s].pending = @ - cost]
    /\ UNCHANGED <<closed, bootVars, sessionsPerIP, sessionsPerProfile,
                   closedTokens, streamVars, shutdown>>

ReleasePending(s, cost) ==
    /\ sessions[s].state = "open" /\ cost <= sessions[s].pending
    /\ pendingGlobal' = pendingGlobal - cost
    /\ sessions' = [sessions EXCEPT ![s].pending = @ - cost]
    /\ UNCHANGED <<closed, bootVars, sessionsPerIP, sessionsPerProfile,
                   closedTokens, streamVars, shutdown>>

--------------------------------------------------------------------------------
(* Shutdown.                                                               *)

ShutdownBegins ==
    /\ shutdown.pc = "no"
    /\ closed' = TRUE
    /\ shutdown' = [pc |-> "closing", snapshot |-> Registered]
    /\ UNCHANGED <<bootVars, sessionVars, streamVars, pendingGlobal>>

\* value.Close() on one session of the snapshot; on a closed one a no-op.
ShutdownCloses(s) ==
    /\ shutdown.pc = "closing" /\ s \in shutdown.snapshot
    /\ CloseSession(s)

\* value.wait() on every session of the snapshot, all of them closed.
ShutdownReturns ==
    /\ shutdown.pc = "closing"
    /\ \A s \in shutdown.snapshot : sessions[s].state # "open"
    /\ \A t \in Running : streams[t].session \notin shutdown.snapshot
    /\ shutdown' = [shutdown EXCEPT !.pc = "done"]
    /\ UNCHANGED <<closed, bootVars, sessionVars, streamVars, pendingGlobal>>

--------------------------------------------------------------------------------
Init ==
    /\ closed = FALSE
    /\ bootstraps = [h \in Bootstraps |->
          [state |-> "new", expired |-> FALSE, ip |-> AnyIP, profile |-> AnyProfile,
           session |-> 0]]
    /\ bootstrapsPerIP = [ip \in IPs |-> 0]
    /\ sessions = [s \in Sessions |->
          [state |-> "new", ip |-> AnyIP, profile |-> AnyProfile, pending |-> 0,
           bootstrap |-> 0]]
    /\ sessionsPerIP = [ip \in IPs |-> 0]
    /\ sessionsPerProfile = [profile \in Profiles |-> 0]
    /\ closedTokens = <<>>
    /\ streams = [t \in Streams |-> [state |-> "new", session |-> 0]]
    /\ streamsLive = 0 /\ backendDialsInFlight = 0
    /\ streamsPerProfile = [profile \in Profiles |-> 0]
    /\ dialsPerProfile = [profile \in Profiles |-> 0]
    /\ pendingGlobal = 0
    /\ shutdown = [pc |-> "no", snapshot |-> {}]

Next ==
    \/ RemoveExpired
    \/ \E ip \in IPs, profile \in Profiles : IssueBootstrap(ip, profile)
    \/ BootstrapExpires
    \/ \E h \in Bootstraps, ip \in IPs : Create(h, ip)
    \/ \E s \in Sessions : CloseSession(s)
    \/ \E s \in Sessions : SessionFinished(s)
    \/ \E s \in Sessions : AcquireStream(s)
    \/ \E t \in Streams : BackendDialFinished(t)
    \/ \E t \in Streams : StreamFinished(t)
    \/ \E s \in Sessions, cost \in 1 .. MaxCharge, class \in {"data", "control"} :
         ReservePending(s, cost, class)
    \/ \E s \in Sessions, cost \in 1 .. MaxCharge : ReleasePending(s, cost)
    \/ ShutdownBegins
    \/ \E s \in Sessions : ShutdownCloses(s)
    \/ ShutdownReturns

Spec == Init /\ [][Next]_vars

\* Goroutines run; a stream of a closed session ends (Session.tla: the
\* property CancelledBackendsEnd of a cancelled backend).
Fairness ==
    /\ \A s \in Sessions : WF_vars(SessionFinished(s)) /\ WF_vars(ShutdownCloses(s))
    /\ \A t \in Streams :
         WF_vars(/\ BackendDialFinished(t) \/ StreamFinished(t)
                 /\ sessions[streams[t].session].state # "open")
    /\ WF_vars(ShutdownReturns)

FairSpec == Spec /\ Fairness

--------------------------------------------------------------------------------
(* Properties.                                                             *)

TypeOK ==
    /\ closed \in BOOLEAN
    /\ bootstraps \in [Bootstraps -> BootstrapState]
    /\ bootstrapsPerIP \in [IPs -> Int]
    /\ sessions \in [Sessions -> SessionState]
    /\ sessionsPerIP \in [IPs -> Int] /\ sessionsPerProfile \in [Profiles -> Int]
    /\ closedTokens \in Seq(Sessions)
    /\ streams \in [Streams -> StreamState]
    /\ streamsLive \in Int /\ backendDialsInFlight \in Int
    /\ streamsPerProfile \in [Profiles -> Int] /\ dialsPerProfile \in [Profiles -> Int]
    /\ pendingGlobal \in Int
    /\ shutdown \in [pc : {"no", "closing", "done"}, snapshot : SUBSET Sessions]

\* The per-address count of bootstraps is the number of unused ones that
\* address was issued, whether they expire, are evicted, are exchanged from
\* another address, or go with their session.
BootstrapCountsExact ==
    \A ip \in IPs :
      bootstrapsPerIP[ip] = Cardinality({h \in Unused : bootstraps[h].ip = ip})

\* The per-address and per-profile counts are those of the registered
\* sessions, so no limit ever leaks or goes negative.
SessionCountsExact ==
    /\ \A ip \in IPs :
         sessionsPerIP[ip] = Cardinality({s \in Registered : sessions[s].ip = ip})
    /\ \A profile \in Profiles :
         sessionsPerProfile[profile] =
           Cardinality({s \in Registered : sessions[s].profile = profile})

\* Stream and dial counts are those of the goroutines: backendDialFinished and
\* streamFinished never panic, also for streams that outlive their session.
StreamCountsExact ==
    /\ streamsLive = Cardinality(Running)
    /\ backendDialsInFlight = Cardinality(Dialing)
    /\ \A profile \in Profiles :
         /\ streamsPerProfile[profile] =
              Cardinality({t \in Running : StreamProfile(t) = profile})
         /\ dialsPerProfile[profile] =
              Cardinality({t \in Dialing : StreamProfile(t) = profile})

\* The units the sessions have charged.
Charges == UNION {{s} \X (1 .. sessions[s].pending) : s \in Sessions}

\* The process-wide charge is the sum of the sessions' charges and within its
\* limit.
PendingExact ==
    /\ pendingGlobal = Cardinality(Charges)
    /\ pendingGlobal <= MaxPendingGlobal

\* Every counter of the manager is the size of what it counts: a leak would
\* refuse clients for ever, a double release would panic.
CountsExact ==
    BootstrapCountsExact /\ SessionCountsExact /\ StreamCountsExact /\ PendingExact

\* A bootstrap is exchanged for at most one session, and a bootstrap that is
\* still present names a session that is still registered: a retried creation
\* never gets a session the manager has already forgotten.
BootstrapNamesItsSession ==
    /\ \A r, s \in Sessions \ New(sessions, Sessions) :
         sessions[r].bootstrap = sessions[s].bootstrap => r = s
    /\ \A h \in Present : bootstraps[h].state = "used" =>
         /\ bootstraps[h].session \in Registered
         /\ sessions[bootstraps[h].session].bootstrap = h

\* When Shutdown returns no session is open and none can be created, no stream
\* of the sessions it found is left, and the whole budget is back.
ShutdownComplete ==
    shutdown.pc = "done" =>
      /\ closed
      /\ \A s \in Sessions : sessions[s].state # "open"
      /\ \A t \in Running : streams[t].session \notin shutdown.snapshot
      /\ pendingGlobal = 0

\* Shutdown returns.
ShutdownEnds == shutdown.pc = "closing" ~> shutdown.pc = "done"
================================================================================
