------------------------------ MODULE ManagerProofs ------------------------------
(***************************************************************************)
(* The manager's books are exact for any numbers of addresses, profiles,   *)
(* bootstraps, sessions and streams, and whatever the limits are: every    *)
(* counter is the size of what it counts, a present bootstrap names its    *)
(* registered session, and a shutdown that has returned missed nothing.    *)
(* The invariant is proved in parts: the types first, then each group of   *)
(* counters, which only some actions touch, from the types.                *)
(***************************************************************************)
EXTENDS Manager, Counting, SequenceTheorems

--------------------------------------------------------------------------------
(* The numbers the tables are indexed by.                                  *)

\* The bootstraps, sessions and streams are finitely many.
LEMMA FinitelyMany ==
    /\ IsFiniteSet(Bootstraps) /\ IsFiniteSet(Sessions) /\ IsFiniteSet(Streams)
    /\ Bootstraps \subseteq Nat /\ Sessions \subseteq Nat /\ Streams \subseteq Nat
<1>1. MaxBootstraps \in Nat /\ MaxSessions \in Nat /\ MaxStreams \in Nat
  BY ManagerAssumption
<1>2. QED
  BY <1>1, FS_Interval DEF Bootstraps, Sessions, Streams

\* What Least(New(...)) numbers: an entry that is still absent.
LEMMA NewIsNew ==
    ASSUME NEW f, NEW S, S \subseteq Nat, New(f, S) # {}
    PROVE  Least(New(f, S)) \in S /\ f[Least(New(f, S))].state = "new"
<1>1. New(f, S) \subseteq S /\ New(f, S) \subseteq Nat
  BY DEF New
<1>2. Least(New(f, S)) \in New(f, S)
  BY <1>1, LeastElement DEF Least
<1>3. QED
  BY <1>1, <1>2 DEF New

--------------------------------------------------------------------------------
(* Types.                                                                  *)

bootTypes == bootstraps \in [Bootstraps -> BootstrapState] /\ bootstrapsPerIP \in [IPs -> Int]

\* Removing bootstraps keeps the types of their table and of their counts.
LEMMA RemovalTypes ==
    ASSUME bootTypes, NEW gone
    PROVE  /\ WithoutBootstraps(gone) \in [Bootstraps -> BootstrapState]
           /\ PerIPWithout(gone) \in [IPs -> Int]
<1>1. WithoutBootstraps(gone) \in [Bootstraps -> BootstrapState]
  BY DEF bootTypes, WithoutBootstraps, BootstrapState
<1>2. ASSUME NEW ip \in IPs
      PROVE  Cardinality({h \in gone \cap Unused : bootstraps[h].ip = ip}) \in Nat
  <2>1. {h \in gone \cap Unused : bootstraps[h].ip = ip} \subseteq Bootstraps
    BY DEF Unused
  <2>2. QED
    BY <2>1, FinitelyMany, PartIsFinite
<1>3. PerIPWithout(gone) \in [IPs -> Int]
  BY <1>2 DEF bootTypes, PerIPWithout
<1>4. QED
  BY <1>1, <1>3

\* Closed tokens that expire leave a sequence of sessions.
LEMMA TokensExpireType ==
    ASSUME closedTokens \in Seq(Sessions), TokensExpire
    PROVE  closedTokens' \in Seq(Sessions)
<1>1. PICK n \in 0 .. Len(closedTokens) :
        closedTokens' = SubSeq(closedTokens, n + 1, Len(closedTokens))
  BY DEF TokensExpire
<1>2. Len(closedTokens) \in Nat
  BY LenProperties
<1>3. SubSeq(closedTokens, n + 1, Len(closedTokens)) \in Seq(Sessions)
  BY <1>2, SubSeqProperties
<1>4. QED
  BY <1>1, <1>3

\* The queue of closed tokens, cut at its limit, takes one more.
LEMMA TokensAppendType ==
    ASSUME closedTokens \in Seq(Sessions), NEW s \in Sessions
    PROVE  Append(IF Len(closedTokens) >= ClosedTokenLimit
                  THEN Tail(closedTokens) ELSE closedTokens, s) \in Seq(Sessions)
<1>1. ClosedTokenLimit \in Nat \ {0} /\ Len(closedTokens) \in Nat
  BY ManagerAssumption, LenProperties
<1>2. CASE Len(closedTokens) >= ClosedTokenLimit
  <2>1. closedTokens # <<>>
    BY <1>1, <1>2
  <2>2. Tail(closedTokens) \in Seq(Sessions)
    BY <2>1, HeadTailProperties
  <2>3. QED
    BY <1>2, <2>2, AppendProperties
<1>3. CASE ~(Len(closedTokens) >= ClosedTokenLimit)
  BY <1>3, AppendProperties
<1>4. QED
  BY <1>2, <1>3

\* A counter per address or per profile that changes at one place.
LEMMA CounterType ==
    ASSUME NEW S, NEW f \in [S -> Int], NEW x
    PROVE  /\ [f EXCEPT ![x] = @ + 1] \in [S -> Int]
           /\ [f EXCEPT ![x] = @ - 1] \in [S -> Int]
<1>1. \A y \in S : f[y] \in Int /\ f[y] + 1 \in Int /\ f[y] - 1 \in Int
  OBVIOUS
<1>2. [f EXCEPT ![x] = @ + 1] \in [S -> Int]
  BY <1>1
<1>3. [f EXCEPT ![x] = @ - 1] \in [S -> Int]
  BY <1>1
<1>4. QED
  BY <1>2, <1>3

\* A table of records of which one entry changes.
LEMMA EntryType ==
    ASSUME NEW S, NEW R, NEW f \in [S -> R], NEW x, NEW r \in R
    PROVE  [f EXCEPT ![x] = r] \in [S -> R]
OBVIOUS

\* The manager starts well typed.
LEMMA InitTypes == Init => TypeOK
<1> SUFFICES ASSUME Init PROVE TypeOK
  OBVIOUS
<1>1. AnyIP \in IPs /\ AnyProfile \in Profiles
  BY ManagerAssumption DEF AnyIP, AnyProfile
<1>2. MaxBootstraps \in Nat /\ MaxSessions \in Nat
  BY ManagerAssumption
<1>3. bootstraps \in [Bootstraps -> BootstrapState]
  BY <1>1, <1>2 DEF Init, BootstrapState
<1>4. sessions \in [Sessions -> SessionState]
  BY <1>1, <1>2 DEF Init, SessionState
<1>5. streams \in [Streams -> StreamState]
  BY <1>2 DEF Init, StreamState
<1>6. closedTokens \in Seq(Sessions) /\ closed \in BOOLEAN
  <2>1. closedTokens \in Seq(Sessions)
    BY DEF Init
  <2>2. closed \in BOOLEAN
    BY DEF Init
  <2>3. QED
    BY <2>1, <2>2
<1>7. /\ bootstrapsPerIP \in [IPs -> Int] /\ sessionsPerIP \in [IPs -> Int]
      /\ sessionsPerProfile \in [Profiles -> Int]
  BY DEF Init
<1>8. /\ streamsLive \in Int /\ backendDialsInFlight \in Int
      /\ streamsPerProfile \in [Profiles -> Int] /\ dialsPerProfile \in [Profiles -> Int]
  BY DEF Init
<1>9. /\ pendingGlobal \in Int
      /\ shutdown \in [pc : {"no", "closing", "done"}, snapshot : SUBSET Sessions]
  BY DEF Init
<1>10. QED
  BY <1>3, <1>4, <1>5, <1>6, <1>7, <1>8, <1>9 DEF TypeOK

\* Every critical section leaves the manager well typed.
LEMMA NextTypes == TypeOK /\ [Next]_vars => TypeOK'
<1> SUFFICES ASSUME TypeOK, [Next]_vars PROVE TypeOK'
  OBVIOUS
<1>a. bootTypes
  BY DEF TypeOK, bootTypes
<1>b. /\ MaxBootstraps \in Nat /\ MaxSessions \in Nat /\ MaxStreams \in Nat
      /\ MaxCharge \in Nat
  BY ManagerAssumption
<1>1. CASE RemoveExpired
  <2>1. bootTypes'
    BY <1>1, <1>a, RemovalTypes DEF RemoveExpired, bootTypes
  <2>2. closedTokens' \in Seq(Sessions)
    BY <1>1, TokensExpireType DEF RemoveExpired, TypeOK
  <2>3. QED
    BY <1>1, <2>1, <2>2 DEF RemoveExpired, TypeOK, bootTypes, streamVars
<1>2. ASSUME NEW ip \in IPs, NEW profile \in Profiles, IssueBootstrap(ip, profile)
      PROVE  TypeOK'
  <2> DEFINE live == Present \ Expired
             full == Cardinality(live) >= MaxBootstrapsGlobal
             gone == Expired \cup (IF full THEN {Least(live \cap Unused)} ELSE {})
             new == Least(New(bootstraps, Bootstraps))
             issued == [state |-> "unused", expired |-> FALSE, ip |-> ip,
                        profile |-> profile, session |-> 0]
  <2>1. /\ bootstraps' = [WithoutBootstraps(gone) EXCEPT ![new] = issued]
        /\ bootstrapsPerIP' = [PerIPWithout(gone) EXCEPT ![ip] = @ + 1]
    BY <1>2 DEF IssueBootstrap
  <2>2. issued \in BootstrapState
    BY <1>b DEF BootstrapState
  <2> HIDE DEF gone, new, issued
  <2>3. /\ WithoutBootstraps(gone) \in [Bootstraps -> BootstrapState]
        /\ PerIPWithout(gone) \in [IPs -> Int]
    BY <1>a, RemovalTypes
  <2>4. bootTypes'
    BY <2>1, <2>2, <2>3, EntryType, CounterType DEF bootTypes
  <2>5. closedTokens' \in Seq(Sessions)
    BY <1>2, TokensExpireType DEF IssueBootstrap, TypeOK
  <2>6. QED
    BY <1>2, <2>4, <2>5 DEF IssueBootstrap, TypeOK, bootTypes, streamVars
<1>3. CASE BootstrapExpires
  BY <1>3, ZenonT(60) DEF BootstrapExpires, TypeOK, BootstrapState, sessionVars, streamVars
<1>4. ASSUME NEW h \in Bootstraps, NEW ip \in IPs, Create(h, ip)
      PROVE  TypeOK'
  <2> DEFINE new == Least(New(sessions, Sessions))
             opened == [state |-> "open", ip |-> ip, profile |-> bootstraps[h].profile,
                        pending |-> 0, bootstrap |-> h]
  <2>1. new \in Sessions
    BY <1>4, NewIsNew, FinitelyMany DEF Create
  <2>2. /\ sessions' = [sessions EXCEPT ![new] = opened]
        /\ bootstraps' = [bootstraps EXCEPT ![h].state = "used", ![h].session = new]
    BY <1>4 DEF Create
  <2>3. opened \in SessionState
    BY <1>b DEF TypeOK, SessionState, BootstrapState, Bootstraps
  <2> HIDE DEF new, opened
  <2>4. sessions' \in [Sessions -> SessionState]
    BY <2>2, <2>3, EntryType DEF TypeOK
  <2>5. bootstraps' \in [Bootstraps -> BootstrapState]
    <3>1. new \in 0 .. MaxSessions
      BY <1>b, <2>1 DEF Sessions
    <3>2. [bootstraps[h] EXCEPT !.state = "used", !.session = new] \in BootstrapState
      BY <3>1 DEF TypeOK, BootstrapState
    <3>3. bootstraps' = [bootstraps EXCEPT
             ![h] = [bootstraps[h] EXCEPT !.state = "used", !.session = new]]
      BY <2>2 DEF TypeOK
    <3>4. QED
      BY <3>2, <3>3, EntryType DEF TypeOK
  <2>6. /\ sessionsPerIP' \in [IPs -> Int] /\ sessionsPerProfile' \in [Profiles -> Int]
        /\ bootstrapsPerIP' \in [IPs -> Int]
    BY <1>4, CounterType DEF Create, TypeOK
  <2>7. QED
    BY <1>4, <2>4, <2>5, <2>6 DEF Create, TypeOK, streamVars
<1>5. ASSUME NEW s \in Sessions, CloseSession(s)
      PROVE  TypeOK'
  <2>1. sessions' \in [Sessions -> SessionState]
    BY <1>5, ZenonT(60) DEF CloseSession, TypeOK, SessionState
  <2>2. pendingGlobal' \in Int
    BY <1>5 DEF CloseSession, TypeOK, SessionState
  <2>3. QED
    BY <1>5, <2>1, <2>2 DEF CloseSession, TypeOK, bootVars, streamVars
<1>6. ASSUME NEW s \in Sessions, SessionFinished(s)
      PROVE  TypeOK'
  <2>1. bootTypes'
    BY <1>6, <1>a, RemovalTypes DEF SessionFinished, bootTypes
  <2>2. closedTokens' \in Seq(Sessions)
    BY <1>6, TokensAppendType DEF SessionFinished, TypeOK
  <2>3. sessions' \in [Sessions -> SessionState]
    BY <1>6 DEF SessionFinished, TypeOK, SessionState
  <2>4. sessionsPerIP' \in [IPs -> Int] /\ sessionsPerProfile' \in [Profiles -> Int]
    BY <1>6, CounterType DEF SessionFinished, TypeOK
  <2>5. QED
    BY <1>6, <2>1, <2>2, <2>3, <2>4 DEF SessionFinished, TypeOK, bootTypes, streamVars
<1>7. ASSUME NEW s \in Sessions, AcquireStream(s)
      PROVE  TypeOK'
  <2> DEFINE dialing == [state |-> "dialing", session |-> s]
  <2>1. dialing \in StreamState
    BY <1>b DEF StreamState, Sessions
  <2>2. streams' \in [Streams -> StreamState]
    BY <1>7, <2>1, EntryType DEF AcquireStream, TypeOK
  <2>3. streamsPerProfile' \in [Profiles -> Int] /\ dialsPerProfile' \in [Profiles -> Int]
    BY <1>7, CounterType DEF AcquireStream, TypeOK
  <2>4. QED
    BY <1>7, <2>2, <2>3 DEF AcquireStream, TypeOK, bootVars, sessionVars
<1>8. ASSUME NEW t \in Streams, BackendDialFinished(t)
      PROVE  TypeOK'
  <2>1. streams' \in [Streams -> StreamState]
    BY <1>8 DEF BackendDialFinished, TypeOK, StreamState
  <2>2. dialsPerProfile' \in [Profiles -> Int]
    BY <1>8, CounterType DEF BackendDialFinished, TypeOK
  <2>3. QED
    BY <1>8, <2>1, <2>2 DEF BackendDialFinished, TypeOK, bootVars, sessionVars
<1>9. ASSUME NEW t \in Streams, StreamFinished(t)
      PROVE  TypeOK'
  <2>1. streams' \in [Streams -> StreamState]
    BY <1>9 DEF StreamFinished, TypeOK, StreamState
  <2>2. streamsPerProfile' \in [Profiles -> Int]
    BY <1>9, CounterType DEF StreamFinished, TypeOK
  <2>3. QED
    BY <1>9, <2>1, <2>2 DEF StreamFinished, TypeOK, bootVars, sessionVars
<1>10. ASSUME NEW s \in Sessions, NEW cost \in 1 .. MaxCharge,
              NEW class \in {"data", "control"}, ReservePending(s, cost, class)
       PROVE  TypeOK'
  <2>1. sessions' \in [Sessions -> SessionState]
    <3>1. sessions[s].pending + cost \in Nat
      BY <1>10, <1>b DEF ReservePending, TypeOK, SessionState
    <3>2. [sessions[s] EXCEPT !.pending = @ + cost] \in SessionState
      BY <3>1, ZenonT(60) DEF TypeOK, SessionState
    <3>3. QED
      BY <1>10, <3>2, EntryType DEF ReservePending, TypeOK
  <2>2. pendingGlobal' \in Int
    BY <1>10, <1>b DEF ReservePending, TypeOK
  <2>3. QED
    BY <1>10, <2>1, <2>2 DEF ReservePending, TypeOK, bootVars, streamVars
<1>11. ASSUME NEW s \in Sessions, NEW cost \in 1 .. MaxCharge, ReleasePending(s, cost)
       PROVE  TypeOK'
  <2>1. sessions' \in [Sessions -> SessionState]
    <3>1. sessions[s].pending - cost \in Nat
      BY <1>11, <1>b, SMTT(30) DEF ReleasePending, TypeOK, SessionState
    <3>2. [sessions[s] EXCEPT !.pending = @ - cost] \in SessionState
      BY <3>1, ZenonT(60) DEF TypeOK, SessionState
    <3>3. QED
      BY <1>11, <3>2, EntryType DEF ReleasePending, TypeOK
  <2>2. pendingGlobal' \in Int
    BY <1>11, <1>b DEF ReleasePending, TypeOK
  <2>3. QED
    BY <1>11, <2>1, <2>2 DEF ReleasePending, TypeOK, bootVars, streamVars
<1>12. CASE ShutdownBegins
  BY <1>12 DEF ShutdownBegins, TypeOK, Registered, bootVars, sessionVars, streamVars
<1>13. CASE ShutdownReturns
  BY <1>13 DEF ShutdownReturns, TypeOK, bootVars, sessionVars, streamVars
<1>14. CASE UNCHANGED vars
  BY <1>14 DEF vars, bootVars, sessionVars, streamVars, TypeOK
<1>15. QED
  BY <1>1, <1>2, <1>3, <1>4, <1>5, <1>6, <1>7, <1>8, <1>9, <1>10, <1>11, <1>12, <1>13,
     <1>14
  DEF Next, ShutdownCloses

--------------------------------------------------------------------------------
(* The bootstraps of an address.                                           *)

\* The unused bootstraps of an address, in a table.
UnusedOf(table, ip) == {h \in Bootstraps : table[h].state = "unused" /\ table[h].ip = ip}

\* The bootstraps one address has not used yet can be counted.
LEMMA UnusedOfFinite ==
    ASSUME NEW table, NEW ip
    PROVE  IsFiniteSet(UnusedOf(table, ip)) /\ Cardinality(UnusedOf(table, ip)) \in Nat
BY FinitelyMany, PartIsFinite DEF UnusedOf

\* BootstrapCountsExact, over the set of unused bootstraps.
LEMMA BootstrapCountsOf ==
    BootstrapCountsExact <=>
      \A ip \in IPs : bootstrapsPerIP[ip] = Cardinality(UnusedOf(bootstraps, ip))
<1>1. \A ip \in IPs : {h \in Unused : bootstraps[h].ip = ip} = UnusedOf(bootstraps, ip)
  BY DEF Unused, UnusedOf
<1>2. QED
  BY <1>1 DEF BootstrapCountsExact

\* Whatever is removed, the counts stay exact.
LEMMA RemovalCounts ==
    ASSUME bootTypes, BootstrapCountsExact, NEW gone, NEW ip \in IPs
    PROVE  PerIPWithout(gone)[ip] = Cardinality(UnusedOf(WithoutBootstraps(gone), ip))
<1> DEFINE S == UnusedOf(bootstraps, ip)
           T == {h \in gone \cap Unused : bootstraps[h].ip = ip}
<1>1. UnusedOf(WithoutBootstraps(gone), ip) = S \ T
  <2>1. \A h \in Bootstraps :
          WithoutBootstraps(gone)[h].state =
            (IF h \in gone THEN "removed" ELSE bootstraps[h].state)
    BY DEF bootTypes, WithoutBootstraps, BootstrapState
  <2>2. \A h \in Bootstraps : WithoutBootstraps(gone)[h].ip = bootstraps[h].ip
    BY DEF bootTypes, WithoutBootstraps, BootstrapState
  <2>3. QED
    BY <2>1, <2>2 DEF UnusedOf, Unused
<1>2. S \cap T = T
  BY DEF UnusedOf, Unused
<1>3. Cardinality(S \ T) = Cardinality(S) - Cardinality(T)
  BY <1>2, UnusedOfFinite, FS_Difference, ZenonT(60)
<1>4. PerIPWithout(gone)[ip] = bootstrapsPerIP[ip] - Cardinality(T)
  BY DEF PerIPWithout
<1>5. QED
  BY <1>1, <1>3, <1>4, BootstrapCountsOf

\* A table of bootstraps whose count of each address is exact.
CountsOf(table, perIP) == \A ip \in IPs : perIP[ip] = Cardinality(UnusedOf(table, ip))

\* IssueBootstrap, Create and expiry keep bootstrapsPerIP exact.
LEMMA NextBootstrapCounts ==
    TypeOK /\ BootstrapCountsExact /\ [Next]_vars => BootstrapCountsExact'
<1> SUFFICES ASSUME TypeOK, BootstrapCountsExact, [Next]_vars
             PROVE  CountsOf(bootstraps, bootstrapsPerIP)'
  BY BootstrapCountsOf, PTL DEF CountsOf
<1>a. bootTypes /\ CountsOf(bootstraps, bootstrapsPerIP)
  BY BootstrapCountsOf DEF TypeOK, bootTypes, CountsOf
<1>1. CASE RemoveExpired
  BY <1>1, <1>a, RemovalCounts DEF RemoveExpired, CountsOf
<1>2. ASSUME NEW ip \in IPs, NEW profile \in Profiles, IssueBootstrap(ip, profile)
      PROVE  CountsOf(bootstraps, bootstrapsPerIP)'
  <2> DEFINE live == Present \ Expired
             full == Cardinality(live) >= MaxBootstrapsGlobal
             gone == Expired \cup (IF full THEN {Least(live \cap Unused)} ELSE {})
             new == Least(New(bootstraps, Bootstraps))
             issued == [state |-> "unused", expired |-> FALSE, ip |-> ip,
                        profile |-> profile, session |-> 0]
             left == WithoutBootstraps(gone)
  <2>1. /\ bootstraps' = [left EXCEPT ![new] = issued]
        /\ bootstrapsPerIP' = [PerIPWithout(gone) EXCEPT ![ip] = @ + 1]
        /\ new \in Bootstraps /\ bootstraps[new].state = "new"
    BY <1>2, NewIsNew, FinitelyMany DEF IssueBootstrap
  <2>2. issued.state = "unused" /\ issued.ip = ip
    OBVIOUS
  <2> HIDE DEF gone, new, issued
  <2>3. left \in [Bootstraps -> BootstrapState] /\ PerIPWithout(gone) \in [IPs -> Int]
    BY <1>a, RemovalTypes
  <2>4. left[new].state # "unused"
    BY <1>a, <2>1 DEF bootTypes, WithoutBootstraps, BootstrapState
  <2> HIDE DEF left
  <2>5. ASSUME NEW x \in IPs
        PROVE  bootstrapsPerIP'[x] = Cardinality(UnusedOf(bootstraps', x))
    <3>1. PerIPWithout(gone)[x] = Cardinality(UnusedOf(left, x))
      BY <1>a, RemovalCounts DEF left
    <3>2. new \notin UnusedOf(left, x)
      BY <2>4 DEF UnusedOf
    <3>3. CASE x = ip
      <4>1. UnusedOf(bootstraps', x) = UnusedOf(left, x) \cup {new}
        BY <2>1, <2>2, <2>3, <3>3 DEF UnusedOf
      <4>2. Cardinality(UnusedOf(bootstraps', x)) = Cardinality(UnusedOf(left, x)) + 1
        BY <4>1, <3>2, CountEntered, UnusedOfFinite
      <4>3. QED
        BY <2>1, <2>3, <3>1, <3>3, <4>2
    <3>4. CASE x # ip
      <4>1. UnusedOf(bootstraps', x) = UnusedOf(left, x)
        BY <2>1, <2>2, <2>3, <2>4, <3>4 DEF UnusedOf
      <4>2. QED
        BY <2>1, <2>3, <3>1, <3>4, <4>1
    <3>5. QED
      BY <3>3, <3>4
  <2>6. QED
    BY <2>5 DEF CountsOf
<1>3. CASE BootstrapExpires
  <2>1. \A h \in Bootstraps : bootstraps'[h].state = bootstraps[h].state
                              /\ bootstraps'[h].ip = bootstraps[h].ip
    BY <1>3, <1>a DEF BootstrapExpires, bootTypes, BootstrapState
  <2>2. \A ip \in IPs : UnusedOf(bootstraps', ip) = UnusedOf(bootstraps, ip)
    BY <2>1 DEF UnusedOf
  <2>3. QED
    BY <1>3, <1>a, <2>2 DEF BootstrapExpires, CountsOf
<1>4. ASSUME NEW h \in Bootstraps, NEW ip \in IPs, Create(h, ip)
      PROVE  CountsOf(bootstraps, bootstrapsPerIP)'
  <2>1. /\ bootstraps'[h].state = "used"
        /\ \A k \in Bootstraps : bootstraps'[k].ip = bootstraps[k].ip
        /\ \A k \in Bootstraps \ {h} : bootstraps'[k].state = bootstraps[k].state
        /\ bootstraps[h].state = "unused" /\ bootstraps[h].ip \in IPs
        /\ bootstrapsPerIP' = [bootstrapsPerIP EXCEPT ![bootstraps[h].ip] = @ - 1]
    BY <1>4, <1>a DEF Create, bootTypes, BootstrapState
  <2>2. ASSUME NEW x \in IPs
        PROVE  bootstrapsPerIP'[x] = Cardinality(UnusedOf(bootstraps', x))
    <3>1. bootstrapsPerIP[x] = Cardinality(UnusedOf(bootstraps, x))
      BY <1>a DEF CountsOf
    <3>2. CASE x = bootstraps[h].ip
      <4>1. UnusedOf(bootstraps', x) = UnusedOf(bootstraps, x) \ {h}
            /\ h \in UnusedOf(bootstraps, x)
        BY <2>1, <3>2 DEF UnusedOf
      <4>2. Cardinality(UnusedOf(bootstraps', x)) = Cardinality(UnusedOf(bootstraps, x)) - 1
        BY <4>1, CountLeft, UnusedOfFinite
      <4>3. QED
        BY <1>a, <2>1, <3>1, <3>2, <4>2 DEF bootTypes
    <3>3. CASE x # bootstraps[h].ip
      <4>1. UnusedOf(bootstraps', x) = UnusedOf(bootstraps, x)
        BY <2>1, <3>3 DEF UnusedOf
      <4>2. QED
        BY <1>a, <2>1, <3>1, <3>3, <4>1 DEF bootTypes
    <3>4. QED
      BY <3>2, <3>3
  <2>3. QED
    BY <2>2 DEF CountsOf
<1>5. ASSUME NEW s \in Sessions, SessionFinished(s)
      PROVE  CountsOf(bootstraps, bootstrapsPerIP)'
  BY <1>5, <1>a, RemovalCounts DEF SessionFinished, CountsOf
<1>6. CASE UNCHANGED bootVars
  BY <1>6, <1>a DEF bootVars, CountsOf, UnusedOf
<1>7. QED
  BY <1>1, <1>2, <1>3, <1>4, <1>5, <1>6
  DEF Next, vars, CloseSession, AcquireStream, BackendDialFinished, StreamFinished,
      ReservePending, ReleasePending, ShutdownBegins, ShutdownCloses, ShutdownReturns

--------------------------------------------------------------------------------
(* A bootstrap and its session.                                            *)

\* A session was created with a bootstrap that can never be exchanged again.
BootstrapIsSpent(s) ==
    /\ sessions[s].bootstrap \in Bootstraps
    /\ bootstraps[sessions[s].bootstrap].state \in {"used", "removed"}

LinksInv ==
    /\ \A s \in Sessions : sessions[s].state # "new" => BootstrapIsSpent(s)
    /\ BootstrapNamesItsSession

\* What an action may do to the bootstraps without disturbing the links: it
\* spends none, and takes away those of the sessions it takes away.
LinksStable ==
    /\ \A s \in Sessions :
         /\ sessions'[s].bootstrap = sessions[s].bootstrap
         /\ sessions'[s].state = "new" <=> sessions[s].state = "new"
    /\ \A h \in Bootstraps :
         /\ bootstraps'[h].state = "used" =>
              /\ bootstraps[h].state = "used"
              /\ bootstraps'[h].session = bootstraps[h].session
              /\ sessions[bootstraps[h].session].state \in {"open", "closed"} =>
                   sessions'[bootstraps[h].session].state \in {"open", "closed"}
         /\ bootstraps[h].state \in {"used", "removed"} =>
              bootstraps'[h].state \in {"used", "removed"}

\* A step that touches neither table keeps the links between them.
LEMMA StableLinks ==
    ASSUME LinksInv, LinksStable
    PROVE  LinksInv'
<1>1. \A s \in Sessions : sessions'[s].state # "new" => BootstrapIsSpent(s)'
  BY DEF LinksInv, LinksStable, BootstrapIsSpent
<1>2. \A r, s \in Sessions \ New(sessions', Sessions) :
        sessions'[r].bootstrap = sessions'[s].bootstrap => r = s
  BY DEF LinksInv, LinksStable, BootstrapNamesItsSession, New
<1>3. ASSUME NEW h \in Bootstraps, bootstraps'[h].state = "used"
      PROVE  /\ bootstraps'[h].session \in Registered'
             /\ sessions'[bootstraps'[h].session].bootstrap = h
  BY <1>3 DEF LinksInv, LinksStable, BootstrapNamesItsSession, Present, Registered
<1>4. QED
  BY <1>1, <1>2, <1>3 DEF LinksInv, BootstrapNamesItsSession, Present

\* Removing bootstraps spends none of them.
LEMMA RemovalSpends ==
    ASSUME bootTypes, NEW gone
    PROVE  \A h \in Bootstraps :
             /\ WithoutBootstraps(gone)[h].state =
                  (IF h \in gone THEN "removed" ELSE bootstraps[h].state)
             /\ WithoutBootstraps(gone)[h].session = bootstraps[h].session
BY DEF bootTypes, WithoutBootstraps, BootstrapState

\* Every step keeps the links between bootstraps, sessions and tokens.
LEMMA NextLinks == TypeOK /\ LinksInv /\ [Next]_vars => LinksInv'
<1> SUFFICES ASSUME TypeOK, LinksInv, [Next]_vars PROVE LinksInv'
  OBVIOUS
<1>a. bootTypes /\ sessions \in [Sessions -> SessionState]
  BY DEF TypeOK, bootTypes
<1>1. CASE RemoveExpired
  BY <1>1, <1>a, RemovalSpends, StableLinks DEF RemoveExpired, LinksStable
<1>2. ASSUME NEW ip \in IPs, NEW profile \in Profiles, IssueBootstrap(ip, profile)
      PROVE  LinksInv'
  <2> DEFINE live == Present \ Expired
             full == Cardinality(live) >= MaxBootstrapsGlobal
             gone == Expired \cup (IF full THEN {Least(live \cap Unused)} ELSE {})
             new == Least(New(bootstraps, Bootstraps))
             issued == [state |-> "unused", expired |-> FALSE, ip |-> ip,
                        profile |-> profile, session |-> 0]
  <2>1. /\ bootstraps' = [WithoutBootstraps(gone) EXCEPT ![new] = issued]
        /\ new \in Bootstraps /\ bootstraps[new].state = "new"
        /\ sessions' = sessions
    BY <1>2, NewIsNew, FinitelyMany DEF IssueBootstrap
  <2> HIDE DEF gone, new
  <2>2. WithoutBootstraps(gone) \in [Bootstraps -> BootstrapState]
    BY <1>a, RemovalTypes
  <2>3. \A h \in Bootstraps \ {new} :
          /\ bootstraps'[h].state =
               (IF h \in gone THEN "removed" ELSE bootstraps[h].state)
          /\ bootstraps'[h].session = bootstraps[h].session
    BY <1>a, <2>1, <2>2, RemovalSpends
  <2>4. bootstraps'[new].state = "unused"
    BY <2>1, <2>2
  <2>5. LinksStable
    BY <2>1, <2>3, <2>4 DEF LinksStable
  <2>6. QED
    BY <2>5, StableLinks
<1>3. CASE BootstrapExpires
  <2>1. \A h \in Bootstraps : bootstraps'[h].state = bootstraps[h].state
                              /\ bootstraps'[h].session = bootstraps[h].session
    BY <1>3, <1>a DEF BootstrapExpires, bootTypes, BootstrapState
  <2>2. QED
    BY <1>3, <2>1, StableLinks DEF BootstrapExpires, LinksStable, sessionVars
<1>4. ASSUME NEW h \in Bootstraps, NEW ip \in IPs, Create(h, ip)
      PROVE  LinksInv'
  <2> DEFINE new == Least(New(sessions, Sessions))
             opened == [state |-> "open", ip |-> ip, profile |-> bootstraps[h].profile,
                        pending |-> 0, bootstrap |-> h]
  <2>1. /\ new \in Sessions /\ sessions[new].state = "new"
        /\ sessions' = [sessions EXCEPT ![new] = opened]
        /\ bootstraps[h].state = "unused"
        /\ bootstraps' = [bootstraps EXCEPT ![h].state = "used", ![h].session = new]
    BY <1>4, NewIsNew, FinitelyMany DEF Create
  <2>2. sessions'[new].state = "open" /\ sessions'[new].bootstrap = h
    BY <1>a, <2>1
  <2> HIDE DEF new, opened
  <2>3. \A s \in Sessions \ {new} : sessions'[s] = sessions[s]
    BY <1>a, <2>1
  <2>4. /\ bootstraps'[h].state = "used" /\ bootstraps'[h].session = new
        /\ \A k \in Bootstraps \ {h} : bootstraps'[k] = bootstraps[k]
    BY <1>a, <2>1 DEF bootTypes, BootstrapState
  <2>5. \A s \in Sessions : sessions[s].state # "new" => sessions[s].bootstrap # h
    BY <2>1 DEF LinksInv, BootstrapIsSpent
  <2>6. ASSUME NEW s \in Sessions, sessions'[s].state # "new"
        PROVE  /\ sessions'[s].bootstrap \in Bootstraps
               /\ bootstraps'[sessions'[s].bootstrap].state \in {"used", "removed"}
    <3>1. CASE s = new
      BY <2>2, <2>4, <3>1
    <3>2. CASE s # new
      BY <2>3, <2>4, <2>5, <2>6, <3>2 DEF LinksInv, BootstrapIsSpent
    <3>3. QED
      BY <3>1, <3>2
  <2>7. \A r, s \in Sessions \ New(sessions', Sessions) :
          sessions'[r].bootstrap = sessions'[s].bootstrap => r = s
    BY <2>1, <2>2, <2>3, <2>5 DEF LinksInv, BootstrapNamesItsSession, New
  <2>8. ASSUME NEW k \in Bootstraps, bootstraps'[k].state = "used"
        PROVE  /\ bootstraps'[k].session \in Registered'
               /\ sessions'[bootstraps'[k].session].bootstrap = k
    <3>1. CASE k = h
      BY <2>1, <2>2, <2>4, <3>1 DEF Registered
    <3>2. CASE k # h
      <4>1. /\ bootstraps[k].session \in Registered
            /\ sessions[bootstraps[k].session].bootstrap = k
            /\ bootstraps'[k] = bootstraps[k]
        BY <2>4, <2>8, <3>2 DEF LinksInv, BootstrapNamesItsSession, Present
      <4>2. bootstraps[k].session \in Sessions \ {new}
        BY <2>1, <4>1 DEF Registered
      <4>3. QED
        BY <2>3, <4>1, <4>2 DEF Registered
    <3>3. QED
      BY <3>1, <3>2
  <2>9. QED
    BY <2>6, <2>7, <2>8 DEF LinksInv, BootstrapIsSpent, BootstrapNamesItsSession, Present
<1>5. ASSUME NEW s \in Sessions, CloseSession(s)
      PROVE  LinksInv'
  <2>1. /\ sessions[s].state = "open" /\ sessions'[s].state = "closed"
        /\ sessions'[s].bootstrap = sessions[s].bootstrap
        /\ \A r \in Sessions \ {s} : sessions'[r] = sessions[r]
    BY <1>5, <1>a DEF CloseSession, SessionState
  <2>2. \A h \in Bootstraps :
          bootstraps[h].state = "used" => bootstraps[h].session \in Sessions
    BY DEF Present, LinksInv, BootstrapNamesItsSession, Registered
  <2>3. LinksStable
    BY <1>5, <2>1, <2>2 DEF CloseSession, LinksStable, bootVars
  <2>4. QED
    BY <2>3, StableLinks
<1>6. ASSUME NEW s \in Sessions, SessionFinished(s)
      PROVE  LinksInv'
  <2> DEFINE gone == {h \in Present : bootstraps[h].session = s}
  <2>1. /\ sessions[s].state = "closed" /\ sessions'[s].state = "finished"
        /\ sessions'[s].bootstrap = sessions[s].bootstrap
        /\ \A r \in Sessions \ {s} : sessions'[r] = sessions[r]
    BY <1>6, <1>a DEF SessionFinished, SessionState
  <2>2. \A h \in Bootstraps :
          /\ bootstraps'[h].state =
               (IF h \in gone THEN "removed" ELSE bootstraps[h].state)
          /\ bootstraps'[h].session = bootstraps[h].session
    BY <1>6, <1>a, RemovalSpends DEF SessionFinished
  <2>3. \A h \in Bootstraps : bootstraps'[h].state = "used" =>
          /\ bootstraps[h].state = "used" /\ bootstraps[h].session # s
          /\ bootstraps[h].session \in Sessions
    BY <2>2 DEF Present, LinksInv, BootstrapNamesItsSession, Registered
  <2> HIDE DEF gone
  <2>4. LinksStable
    BY <2>1, <2>2, <2>3 DEF LinksStable
  <2>5. QED
    BY <2>4, StableLinks
<1>7. ASSUME NEW s \in Sessions, NEW cost \in 1 .. MaxCharge,
             NEW class \in {"data", "control"}, ReservePending(s, cost, class)
      PROVE  LinksInv'
  <2>1. \A r \in Sessions : sessions'[r].state = sessions[r].state
                            /\ sessions'[r].bootstrap = sessions[r].bootstrap
    BY <1>7, <1>a DEF ReservePending, SessionState
  <2>2. QED
    BY <1>7, <2>1, StableLinks DEF ReservePending, LinksStable, bootVars
<1>8. ASSUME NEW s \in Sessions, NEW cost \in 1 .. MaxCharge, ReleasePending(s, cost)
      PROVE  LinksInv'
  <2>1. \A r \in Sessions : sessions'[r].state = sessions[r].state
                            /\ sessions'[r].bootstrap = sessions[r].bootstrap
    BY <1>8, <1>a DEF ReleasePending, SessionState
  <2>2. QED
    BY <1>8, <2>1, StableLinks DEF ReleasePending, LinksStable, bootVars
<1>9. CASE UNCHANGED <<bootVars, sessions>>
  BY <1>9, StableLinks DEF bootVars, LinksStable
<1>10. QED
  BY <1>1, <1>2, <1>3, <1>4, <1>5, <1>6, <1>7, <1>8, <1>9
  DEF Next, vars, sessionVars, AcquireStream, BackendDialFinished, StreamFinished,
      ShutdownBegins, ShutdownCloses, ShutdownReturns

--------------------------------------------------------------------------------
(* The sessions of an address and of a profile.                            *)

Counted(table, s) == table[s].state \in {"open", "closed"}
SessionsFrom(table, ip) == {s \in Sessions : Counted(table, s) /\ table[s].ip = ip}
SessionsAs(table, profile) ==
    {s \in Sessions : Counted(table, s) /\ table[s].profile = profile}

\* The sessions of an address or a profile can be counted.
LEMMA SessionsOfFinite ==
    ASSUME NEW table, NEW x
    PROVE  IsFiniteSet(SessionsFrom(table, x)) /\ IsFiniteSet(SessionsAs(table, x))
BY FinitelyMany, PartIsFinite DEF SessionsFrom, SessionsAs

\* The counts of a table of sessions.
SessionCounts(table, perIP, perProfile) ==
    /\ \A ip \in IPs : perIP[ip] = Cardinality(SessionsFrom(table, ip))
    /\ \A profile \in Profiles : perProfile[profile] = Cardinality(SessionsAs(table, profile))

\* SessionCountsExact, over the tables.
LEMMA SessionCountsOf ==
    SessionCountsExact <=> SessionCounts(sessions, sessionsPerIP, sessionsPerProfile)
<1>1. \A ip \in IPs :
        {s \in Registered : sessions[s].ip = ip} = SessionsFrom(sessions, ip)
  BY DEF Registered, SessionsFrom, Counted
<1>2. \A profile \in Profiles :
        {s \in Registered : sessions[s].profile = profile} = SessionsAs(sessions, profile)
  BY DEF Registered, SessionsAs, Counted
<1>3. QED
  BY <1>1, <1>2 DEF SessionCountsExact, SessionCounts

\* The counts stay exact while no session is counted or discounted.
LEMMA StableSessionCounts ==
    ASSUME SessionCounts(sessions, sessionsPerIP, sessionsPerProfile),
           UNCHANGED <<sessionsPerIP, sessionsPerProfile>>,
           \A s \in Sessions : /\ Counted(sessions', s) <=> Counted(sessions, s)
                               /\ sessions'[s].ip = sessions[s].ip
                               /\ sessions'[s].profile = sessions[s].profile
    PROVE  SessionCounts(sessions, sessionsPerIP, sessionsPerProfile)'
<1>1. \A x : /\ SessionsFrom(sessions', x) = SessionsFrom(sessions, x)
             /\ SessionsAs(sessions', x) = SessionsAs(sessions, x)
  BY DEF SessionsFrom, SessionsAs
<1>2. QED
  BY <1>1 DEF SessionCounts

\* Create and sessionFinished keep the counts of sessions exact.
LEMMA NextSessionCounts ==
    TypeOK /\ SessionCountsExact /\ [Next]_vars => SessionCountsExact'
<1> SUFFICES ASSUME TypeOK, SessionCountsExact, [Next]_vars
             PROVE  SessionCounts(sessions, sessionsPerIP, sessionsPerProfile)'
  BY SessionCountsOf, PTL
<1>a. /\ SessionCounts(sessions, sessionsPerIP, sessionsPerProfile)
      /\ sessions \in [Sessions -> SessionState]
      /\ sessionsPerIP \in [IPs -> Int] /\ sessionsPerProfile \in [Profiles -> Int]
  BY SessionCountsOf DEF TypeOK
<1>1. ASSUME NEW h \in Bootstraps, NEW ip \in IPs, Create(h, ip)
      PROVE  SessionCounts(sessions, sessionsPerIP, sessionsPerProfile)'
  <2> DEFINE new == Least(New(sessions, Sessions))
             profile == bootstraps[h].profile
             opened == [state |-> "open", ip |-> ip, profile |-> profile,
                        pending |-> 0, bootstrap |-> h]
  <2>1. /\ new \in Sessions /\ sessions[new].state = "new"
        /\ sessions' = [sessions EXCEPT ![new] = opened]
        /\ sessionsPerIP' = [sessionsPerIP EXCEPT ![ip] = @ + 1]
        /\ sessionsPerProfile' = [sessionsPerProfile EXCEPT ![profile] = @ + 1]
        /\ profile \in Profiles
    BY <1>1, NewIsNew, FinitelyMany DEF Create, TypeOK, BootstrapState
  <2>2. sessions'[new].state = "open" /\ sessions'[new].ip = ip
        /\ sessions'[new].profile = profile
    BY <1>a, <2>1
  <2> HIDE DEF new, opened, profile
  <2>3. \A s \in Sessions \ {new} : sessions'[s] = sessions[s]
    BY <1>a, <2>1
  <2>4. ASSUME NEW x \in IPs
        PROVE  sessionsPerIP'[x] = Cardinality(SessionsFrom(sessions', x))
    <3>1. new \notin SessionsFrom(sessions, x)
      BY <2>1 DEF SessionsFrom, Counted
    <3>2. CASE x = ip
      <4>1. SessionsFrom(sessions', x) = SessionsFrom(sessions, x) \cup {new}
        BY <2>1, <2>2, <2>3, <3>2 DEF SessionsFrom, Counted
      <4>2. QED
        BY <1>a, <2>1, <3>1, <3>2, <4>1, CountEntered, SessionsOfFinite DEF SessionCounts
    <3>3. CASE x # ip
      <4>1. SessionsFrom(sessions', x) = SessionsFrom(sessions, x)
        BY <2>1, <2>2, <2>3, <3>3 DEF SessionsFrom, Counted
      <4>2. QED
        BY <1>a, <2>1, <3>3, <4>1 DEF SessionCounts
    <3>4. QED
      BY <3>2, <3>3
  <2>5. ASSUME NEW x \in Profiles
        PROVE  sessionsPerProfile'[x] = Cardinality(SessionsAs(sessions', x))
    <3>1. new \notin SessionsAs(sessions, x)
      BY <2>1 DEF SessionsAs, Counted
    <3>2. CASE x = profile
      <4>1. SessionsAs(sessions', x) = SessionsAs(sessions, x) \cup {new}
        BY <2>1, <2>2, <2>3, <3>2 DEF SessionsAs, Counted
      <4>2. QED
        BY <1>a, <2>1, <3>1, <3>2, <4>1, CountEntered, SessionsOfFinite DEF SessionCounts
    <3>3. CASE x # profile
      <4>1. SessionsAs(sessions', x) = SessionsAs(sessions, x)
        BY <2>1, <2>2, <2>3, <3>3 DEF SessionsAs, Counted
      <4>2. QED
        BY <1>a, <2>1, <3>3, <4>1 DEF SessionCounts
    <3>4. QED
      BY <3>2, <3>3
  <2>6. QED
    BY <2>4, <2>5 DEF SessionCounts
<1>2. ASSUME NEW s \in Sessions, CloseSession(s)
      PROVE  SessionCounts(sessions, sessionsPerIP, sessionsPerProfile)'
  BY <1>2, <1>a, StableSessionCounts DEF CloseSession, SessionState, Counted
<1>3. ASSUME NEW s \in Sessions, SessionFinished(s)
      PROVE  SessionCounts(sessions, sessionsPerIP, sessionsPerProfile)'
  <2>1. /\ Counted(sessions, s) /\ ~Counted(sessions', s)
        /\ \A r \in Sessions \ {s} : sessions'[r] = sessions[r]
        /\ sessions[s].ip \in IPs /\ sessions[s].profile \in Profiles
        /\ sessionsPerIP' = [sessionsPerIP EXCEPT ![sessions[s].ip] = @ - 1]
        /\ sessionsPerProfile' =
             [sessionsPerProfile EXCEPT ![sessions[s].profile] = @ - 1]
    BY <1>3, <1>a DEF SessionFinished, SessionState, Counted
  <2>2. ASSUME NEW x \in IPs
        PROVE  sessionsPerIP'[x] = Cardinality(SessionsFrom(sessions', x))
    <3>1. CASE x = sessions[s].ip
      <4>1. SessionsFrom(sessions', x) = SessionsFrom(sessions, x) \ {s}
            /\ s \in SessionsFrom(sessions, x)
        BY <2>1, <3>1 DEF SessionsFrom, Counted
      <4>2. QED
        BY <1>a, <2>1, <3>1, <4>1, CountLeft, SessionsOfFinite DEF SessionCounts
    <3>2. CASE x # sessions[s].ip
      <4>1. SessionsFrom(sessions', x) = SessionsFrom(sessions, x)
        BY <2>1, <3>2 DEF SessionsFrom, Counted
      <4>2. QED
        BY <1>a, <2>1, <3>2, <4>1 DEF SessionCounts
    <3>3. QED
      BY <3>1, <3>2
  <2>3. ASSUME NEW x \in Profiles
        PROVE  sessionsPerProfile'[x] = Cardinality(SessionsAs(sessions', x))
    <3>1. CASE x = sessions[s].profile
      <4>1. SessionsAs(sessions', x) = SessionsAs(sessions, x) \ {s}
            /\ s \in SessionsAs(sessions, x)
        BY <2>1, <3>1 DEF SessionsAs, Counted
      <4>2. QED
        BY <1>a, <2>1, <3>1, <4>1, CountLeft, SessionsOfFinite DEF SessionCounts
    <3>2. CASE x # sessions[s].profile
      <4>1. SessionsAs(sessions', x) = SessionsAs(sessions, x)
        BY <2>1, <3>2 DEF SessionsAs, Counted
      <4>2. QED
        BY <1>a, <2>1, <3>2, <4>1 DEF SessionCounts
    <3>3. QED
      BY <3>1, <3>2
  <2>4. QED
    BY <2>2, <2>3 DEF SessionCounts
<1>4. ASSUME NEW s \in Sessions, NEW cost \in 1 .. MaxCharge,
             NEW class \in {"data", "control"}, ReservePending(s, cost, class)
      PROVE  SessionCounts(sessions, sessionsPerIP, sessionsPerProfile)'
  BY <1>4, <1>a, StableSessionCounts DEF ReservePending, SessionState, Counted
<1>5. ASSUME NEW s \in Sessions, NEW cost \in 1 .. MaxCharge, ReleasePending(s, cost)
      PROVE  SessionCounts(sessions, sessionsPerIP, sessionsPerProfile)'
  BY <1>5, <1>a, StableSessionCounts DEF ReleasePending, SessionState, Counted
<1>6. CASE UNCHANGED <<sessions, sessionsPerIP, sessionsPerProfile>>
  BY <1>6, <1>a, StableSessionCounts
<1>7. QED
  BY <1>1, <1>2, <1>3, <1>4, <1>5, <1>6
  DEF Next, vars, sessionVars, RemoveExpired, IssueBootstrap, BootstrapExpires,
      AcquireStream, BackendDialFinished, StreamFinished, ShutdownBegins,
      ShutdownCloses, ShutdownReturns

--------------------------------------------------------------------------------
(* The streams, and their backend dials, of a profile.                     *)

RunningAs(profile) == {t \in Running : StreamProfile(t) = profile}
DialingAs(profile) == {t \in Dialing : StreamProfile(t) = profile}

\* A running stream belongs to a session that was created, so the profile it
\* is charged to never changes.
OwnersInv ==
    \A t \in Running :
      streams[t].session \in Sessions /\ sessions[streams[t].session].state # "new"

StreamCounts ==
    /\ streamsLive = Cardinality(Running)
    /\ backendDialsInFlight = Cardinality(Dialing)
    /\ \A profile \in Profiles :
         /\ streamsPerProfile[profile] = Cardinality(RunningAs(profile))
         /\ dialsPerProfile[profile] = Cardinality(DialingAs(profile))

StreamsInv == OwnersInv /\ StreamCounts

\* The streams and the dials under way can be counted.
LEMMA StreamsFinite ==
    /\ IsFiniteSet(Running) /\ IsFiniteSet(Dialing)
    /\ \A profile : IsFiniteSet(RunningAs(profile)) /\ IsFiniteSet(DialingAs(profile))
BY FinitelyMany, PartIsFinite DEF Running, Dialing, RunningAs, DialingAs

\* StreamCountsExact, over the sets of streams.
LEMMA StreamCountsOf == StreamCountsExact <=> StreamCounts
BY DEF StreamCountsExact, StreamCounts, RunningAs, DialingAs

\* What the sessions do among themselves does not disturb the streams.
LEMMA StableStreams ==
    ASSUME StreamsInv, UNCHANGED streamVars,
           \A s \in Sessions : sessions[s].state # "new" =>
             sessions'[s].state # "new" /\ sessions'[s].profile = sessions[s].profile
    PROVE  StreamsInv'
<1>1. Running' = Running /\ Dialing' = Dialing
  BY DEF streamVars, Running, Dialing
<1>2. \A t \in Running : StreamProfile(t)' = StreamProfile(t)
  BY DEF StreamsInv, OwnersInv, StreamProfile, streamVars
<1>3. Dialing \subseteq Running
  BY DEF Dialing, Running
<1>4. \A profile : RunningAs(profile)' = RunningAs(profile)
                   /\ DialingAs(profile)' = DialingAs(profile)
  BY <1>1, <1>2, <1>3 DEF RunningAs, DialingAs
<1>5. StreamCounts'
  BY <1>1, <1>4 DEF StreamsInv, StreamCounts, streamVars
<1>6. OwnersInv'
  BY <1>1 DEF StreamsInv, OwnersInv, streamVars
<1>7. QED
  BY <1>5, <1>6 DEF StreamsInv

\* AcquireStream, the end of a dial and the end of a stream keep their counts exact.
LEMMA NextStreams == TypeOK /\ StreamsInv /\ [Next]_vars => StreamsInv'
<1> SUFFICES ASSUME TypeOK, StreamsInv, [Next]_vars PROVE StreamsInv'
  OBVIOUS
<1>a. /\ streams \in [Streams -> StreamState] /\ sessions \in [Sessions -> SessionState]
      /\ streamsPerProfile \in [Profiles -> Int] /\ dialsPerProfile \in [Profiles -> Int]
  BY DEF TypeOK
<1>b. /\ streamsLive = Cardinality(Running)
      /\ backendDialsInFlight = Cardinality(Dialing)
      /\ \A profile \in Profiles :
           /\ streamsPerProfile[profile] = Cardinality(RunningAs(profile))
           /\ dialsPerProfile[profile] = Cardinality(DialingAs(profile))
  BY DEF StreamsInv, StreamCounts
<1>1. ASSUME NEW h \in Bootstraps, NEW ip \in IPs, Create(h, ip)
      PROVE  StreamsInv'
  <2> DEFINE new == Least(New(sessions, Sessions))
  <2>1. /\ new \in Sessions /\ sessions[new].state = "new"
        /\ \A s \in Sessions \ {new} : sessions'[s] = sessions[s]
    BY <1>1, <1>a, NewIsNew, FinitelyMany DEF Create
  <2> HIDE DEF new
  <2>2. \A s \in Sessions : sessions[s].state # "new" => sessions'[s] = sessions[s]
    BY <2>1
  <2>3. UNCHANGED streamVars
    BY <1>1 DEF Create
  <2>4. QED
    BY <2>2, <2>3, StableStreams
<1>2. ASSUME NEW s \in Sessions, CloseSession(s)
      PROVE  StreamsInv'
  BY <1>2, <1>a, StableStreams DEF CloseSession, SessionState
<1>3. ASSUME NEW s \in Sessions, SessionFinished(s)
      PROVE  StreamsInv'
  BY <1>3, <1>a, StableStreams DEF SessionFinished, SessionState
<1>4. ASSUME NEW s \in Sessions, NEW cost \in 1 .. MaxCharge,
             NEW class \in {"data", "control"}, ReservePending(s, cost, class)
      PROVE  StreamsInv'
  BY <1>4, <1>a, StableStreams DEF ReservePending, SessionState
<1>5. ASSUME NEW s \in Sessions, NEW cost \in 1 .. MaxCharge, ReleasePending(s, cost)
      PROVE  StreamsInv'
  BY <1>5, <1>a, StableStreams DEF ReleasePending, SessionState
<1>6. ASSUME NEW s \in Sessions, AcquireStream(s)
      PROVE  StreamsInv'
  <2> DEFINE new == Least(New(streams, Streams))
             profile == sessions[s].profile
  <2>1. /\ new \in Streams /\ streams[new].state = "new"
        /\ streams' = [streams EXCEPT ![new] = [state |-> "dialing", session |-> s]]
        /\ sessions[s].state = "open" /\ profile \in Profiles
        /\ UNCHANGED sessions
        /\ streamsPerProfile' = [streamsPerProfile EXCEPT ![profile] = @ + 1]
        /\ dialsPerProfile' = [dialsPerProfile EXCEPT ![profile] = @ + 1]
    BY <1>6, <1>a, NewIsNew, FinitelyMany DEF AcquireStream, sessionVars, SessionState
  <2> HIDE DEF new
  <2>2. /\ streams'[new].state = "dialing" /\ streams'[new].session = s
        /\ \A t \in Streams \ {new} : streams'[t] = streams[t]
    BY <1>a, <2>1
  <2>3. /\ Running' = Running \cup {new} /\ new \notin Running
        /\ Dialing' = Dialing \cup {new} /\ new \notin Dialing
    BY <2>1, <2>2 DEF Running, Dialing
  <2>4. OwnersInv'
    BY <2>1, <2>2, <2>3 DEF StreamsInv, OwnersInv, Running
  <2>5. /\ sessions'[streams'[new].session].profile = profile
        /\ \A t \in Running : StreamProfile(t)' = StreamProfile(t)
    <3>1. sessions'[streams'[new].session].profile = profile
      BY <2>1, <2>2
    <3>2. \A t \in Running : t \in Streams \ {new}
      BY <2>3 DEF Running
    <3>3. \A t \in Running : StreamProfile(t)' = StreamProfile(t)
      BY <2>1, <2>2, <3>2 DEF StreamProfile
    <3>4. QED
      BY <3>1, <3>3
  <2> HIDE DEF profile
  <2>6. ASSUME NEW x \in Profiles
        PROVE  /\ streamsPerProfile'[x] = Cardinality(RunningAs(x)')
               /\ dialsPerProfile'[x] = Cardinality(DialingAs(x)')
    <3>1. new \notin RunningAs(x) /\ new \notin DialingAs(x)
      BY <2>3 DEF RunningAs, DialingAs
    <3>2. Dialing \subseteq Running
      BY DEF Dialing, Running
    <3>3. CASE x = profile
      <4>1. RunningAs(x)' = RunningAs(x) \cup {new} /\ DialingAs(x)' = DialingAs(x) \cup {new}
        BY <2>3, <2>5, <3>2, <3>3 DEF RunningAs, DialingAs, StreamProfile
      <4>2. QED
        BY <1>a, <1>b, <2>1, <3>1, <3>3, <4>1, CountEntered, StreamsFinite, SMTT(30)
    <3>4. CASE x # profile
      <4>1. RunningAs(x)' = RunningAs(x) /\ DialingAs(x)' = DialingAs(x)
        BY <2>3, <2>5, <3>2, <3>4 DEF RunningAs, DialingAs, StreamProfile
      <4>2. QED
        BY <1>a, <1>b, <2>1, <3>4, <4>1
    <3>5. QED
      BY <3>3, <3>4
  <2>7. streamsLive' = Cardinality(Running') /\ backendDialsInFlight' = Cardinality(Dialing')
    BY <1>6, <1>b, <2>3, CountEntered, StreamsFinite DEF AcquireStream
  <2>8. StreamCounts'
    BY <2>6, <2>7 DEF StreamCounts
  <2>9. QED
    BY <2>4, <2>8 DEF StreamsInv
<1>7. ASSUME NEW t \in Streams, BackendDialFinished(t)
      PROVE  StreamsInv'
  <2> DEFINE profile == StreamProfile(t)
  <2>1. /\ streams[t].state = "dialing" /\ streams'[t].state = "connected"
        /\ streams'[t].session = streams[t].session
        /\ \A u \in Streams \ {t} : streams'[u] = streams[u]
        /\ UNCHANGED <<sessions, streamsLive, streamsPerProfile>>
        /\ dialsPerProfile' = [dialsPerProfile EXCEPT ![profile] = @ - 1]
    BY <1>7, <1>a DEF BackendDialFinished, sessionVars, StreamState
  <2>2. Running' = Running /\ Dialing' = Dialing \ {t} /\ t \in Dialing
    BY <2>1 DEF Running, Dialing
  <2>3. OwnersInv'
    BY <2>1, <2>2 DEF StreamsInv, OwnersInv, Running
  <2>4. \A u \in Running : StreamProfile(u)' = StreamProfile(u)
    BY <2>1 DEF StreamProfile, Running
  <2> HIDE DEF profile
  <2>5. ASSUME NEW x \in Profiles
        PROVE  /\ streamsPerProfile'[x] = Cardinality(RunningAs(x)')
               /\ dialsPerProfile'[x] = Cardinality(DialingAs(x)')
    <3>1. RunningAs(x)' = RunningAs(x)
      BY <2>2, <2>4 DEF RunningAs
    <3>2. Dialing \subseteq Running
      BY DEF Dialing, Running
    <3>3. CASE x = profile
      <4>1. DialingAs(x)' = DialingAs(x) \ {t} /\ t \in DialingAs(x)
        BY <2>2, <2>4, <3>2, <3>3 DEF DialingAs, profile
      <4>2. QED
        BY <1>a, <1>b, <2>1, <3>1, <3>3, <4>1, CountLeft, StreamsFinite
    <3>4. CASE x # profile
      <4>1. DialingAs(x)' = DialingAs(x)
        BY <2>2, <2>4, <3>2, <3>4 DEF DialingAs, profile
      <4>2. QED
        BY <1>a, <1>b, <2>1, <3>1, <3>4, <4>1
    <3>5. QED
      BY <3>3, <3>4
  <2>6. streamsLive' = Cardinality(Running') /\ backendDialsInFlight' = Cardinality(Dialing')
    BY <1>7, <1>b, <2>1, <2>2, CountLeft, StreamsFinite DEF BackendDialFinished
  <2>7. StreamCounts'
    BY <2>5, <2>6 DEF StreamCounts
  <2>8. QED
    BY <2>3, <2>7 DEF StreamsInv
<1>8. ASSUME NEW t \in Streams, StreamFinished(t)
      PROVE  StreamsInv'
  <2> DEFINE profile == StreamProfile(t)
  <2>1. /\ streams[t].state = "connected" /\ streams'[t].state = "finished"
        /\ \A u \in Streams \ {t} : streams'[u] = streams[u]
        /\ UNCHANGED <<sessions, backendDialsInFlight, dialsPerProfile>>
        /\ streamsPerProfile' = [streamsPerProfile EXCEPT ![profile] = @ - 1]
    BY <1>8, <1>a DEF StreamFinished, sessionVars, StreamState
  <2>2. Running' = Running \ {t} /\ Dialing' = Dialing /\ t \in Running /\ t \notin Dialing
    BY <2>1 DEF Running, Dialing
  <2>3. OwnersInv'
    BY <2>1, <2>2 DEF StreamsInv, OwnersInv, Running
  <2>4. \A u \in Running' : StreamProfile(u)' = StreamProfile(u)
    BY <2>1, <2>2 DEF StreamProfile, Running
  <2> HIDE DEF profile
  <2>5. ASSUME NEW x \in Profiles
        PROVE  /\ streamsPerProfile'[x] = Cardinality(RunningAs(x)')
               /\ dialsPerProfile'[x] = Cardinality(DialingAs(x)')
    <3>1. Dialing \subseteq Running'
      <4>1. Dialing \subseteq Running
        BY DEF Dialing, Running
      <4>2. QED
        BY <2>2, <4>1
    <3>2. DialingAs(x)' = DialingAs(x)
      BY <2>2, <2>4, <3>1 DEF DialingAs
    <3>3. CASE x = profile
      <4>1. RunningAs(x)' = RunningAs(x) \ {t} /\ t \in RunningAs(x)
        BY <2>2, <2>4, <3>3 DEF RunningAs, profile
      <4>2. QED
        BY <1>a, <1>b, <2>1, <3>2, <3>3, <4>1, CountLeft, StreamsFinite
    <3>4. CASE x # profile
      <4>1. RunningAs(x)' = RunningAs(x)
        BY <2>2, <2>4, <3>4 DEF RunningAs, profile
      <4>2. QED
        BY <1>a, <1>b, <2>1, <3>2, <3>4, <4>1
    <3>5. QED
      BY <3>3, <3>4
  <2>6. streamsLive' = Cardinality(Running') /\ backendDialsInFlight' = Cardinality(Dialing')
    BY <1>8, <1>b, <2>1, <2>2, CountLeft, StreamsFinite DEF StreamFinished
  <2>7. StreamCounts'
    BY <2>5, <2>6 DEF StreamCounts
  <2>8. QED
    BY <2>3, <2>7 DEF StreamsInv
<1>9. CASE UNCHANGED <<sessions, streamVars>>
  BY <1>9, StableStreams
<1>10. QED
  BY <1>1, <1>2, <1>3, <1>4, <1>5, <1>6, <1>7, <1>8, <1>9
  DEF Next, vars, sessionVars, RemoveExpired, IssueBootstrap, BootstrapExpires,
      ShutdownBegins, ShutdownCloses, ShutdownReturns

--------------------------------------------------------------------------------
(* The pending budget.  What a session has charged is a column of units,   *)
(* so the sum of the charges is the number of units.                       *)

Units(s, n) == {s} \X (1 .. n)

\* A charge of n has n units.
LEMMA UnitsCount ==
    ASSUME NEW s, NEW n \in Nat
    PROVE  IsFiniteSet(Units(s, n)) /\ Cardinality(Units(s, n)) = n
<1>1. IsFiniteSet({s}) /\ Cardinality({s}) = 1
  BY FS_Singleton
<1>2. IsFiniteSet(1 .. n) /\ Cardinality(1 .. n) = n
  BY FS_Interval
<1>3. /\ IsFiniteSet({s} \X (1 .. n))
      /\ Cardinality({s} \X (1 .. n)) = Cardinality({s}) * Cardinality(1 .. n)
  BY <1>1, <1>2, FS_Product, Zenon
<1>4. QED
  BY <1>1, <1>2, <1>3 DEF Units

\* Only an open session has charges, and the process-wide charge is their sum.
PendingInv ==
    /\ \A s \in Sessions : sessions[s].state # "open" => sessions[s].pending = 0
    /\ IsFiniteSet(Charges)
    /\ PendingExact

\* One session's charge changes, and the sum by as much.
LEMMA ChargesChange ==
    ASSUME NEW s \in Sessions, IsFiniteSet(Charges),
           sessions[s].pending \in Nat, sessions'[s].pending \in Nat,
           \A r \in Sessions \ {s} : sessions'[r].pending = sessions[r].pending
    PROVE  /\ IsFiniteSet(Charges')
           /\ Cardinality(Charges') =
                Cardinality(Charges) - sessions[s].pending + sessions'[s].pending
<1> DEFINE out == Units(s, sessions[s].pending)
           in == Units(s, sessions'[s].pending)
<1>1. \A z : z \in Charges <=>
               \E r \in Sessions : z \in Units(r, sessions[r].pending)
  BY DEF Charges, Units
<1>2. \A z : z \in Charges' <=>
               \E r \in Sessions : z \in Units(r, sessions'[r].pending)
  BY DEF Charges, Units
<1>3. \A r \in Sessions \ {s} : \A n, m : Units(r, n) \cap Units(s, m) = {}
  BY DEF Units
<1>4. ASSUME NEW z, z \in Charges, z \in in
      PROVE  z \in out
  <2>1. PICK r \in Sessions : z \in Units(r, sessions[r].pending)
    BY <1>1, <1>4
  <2>2. r = s
    BY <1>3, <1>4, <2>1
  <2>3. QED
    BY <2>1, <2>2
<1>5. \A z : z \in Charges' <=> (z \in Charges /\ z \notin out) \/ z \in in
  BY <1>1, <1>2, <1>3
<1>6. Replaced(Charges, Charges', out, in)
  <2>1. \A z : z \in out => z \in Charges
    BY <1>1
  <2> HIDE DEF in, out
  <2>2. QED
    BY <1>4, <1>5, <2>1 DEF Replaced
<1>7. /\ IsFiniteSet(in) /\ Cardinality(in) = sessions'[s].pending
      /\ Cardinality(out) = sessions[s].pending
  BY UnitsCount
<1> HIDE DEF in, out
<1>8. /\ IsFiniteSet(Charges')
      /\ Cardinality(Charges') = Cardinality(Charges) - Cardinality(out) + Cardinality(in)
  BY <1>6, <1>7, CountChange
<1>9. QED
  BY <1>7, <1>8

\* Nothing is charged and nothing is released.
LEMMA StablePending ==
    ASSUME PendingInv, UNCHANGED pendingGlobal,
           \A s \in Sessions : /\ sessions'[s].pending = sessions[s].pending
                               /\ sessions'[s].state = "open" \/ sessions'[s].pending = 0
    PROVE  PendingInv'
<1>1. Charges' = Charges
  BY DEF Charges
<1>2. QED
  BY <1>1 DEF PendingInv, PendingExact

\* The process-wide charge stays what the sessions hold.
LEMMA NextPending == TypeOK /\ PendingInv /\ [Next]_vars => PendingInv'
<1> SUFFICES ASSUME TypeOK, PendingInv, [Next]_vars PROVE PendingInv'
  OBVIOUS
<1>a. /\ sessions \in [Sessions -> SessionState] /\ pendingGlobal \in Int
      /\ IsFiniteSet(Charges) /\ pendingGlobal = Cardinality(Charges)
      /\ pendingGlobal <= MaxPendingGlobal
      /\ \A s \in Sessions : sessions[s].state # "open" => sessions[s].pending = 0
  BY DEF TypeOK, PendingInv, PendingExact
<1>b. /\ MaxPendingGlobal \in Nat /\ MaxSessionsGlobal \in Nat \ {0}
      /\ ControlReserve \in Nat /\ MaxCharge \in Nat
  BY ManagerAssumption
<1>1. ASSUME NEW h \in Bootstraps, NEW ip \in IPs, Create(h, ip)
      PROVE  PendingInv'
  <2> DEFINE new == Least(New(sessions, Sessions))
             opened == [state |-> "open", ip |-> ip, profile |-> bootstraps[h].profile,
                        pending |-> 0, bootstrap |-> h]
  <2>1. /\ new \in Sessions /\ sessions[new].state = "new"
        /\ sessions' = [sessions EXCEPT ![new] = opened]
        /\ UNCHANGED pendingGlobal
    BY <1>1, NewIsNew, FinitelyMany DEF Create
  <2>2. sessions'[new].state = "open" /\ sessions'[new].pending = 0
    BY <1>a, <2>1
  <2> HIDE DEF new, opened
  <2>3. \A s \in Sessions \ {new} : sessions'[s] = sessions[s]
    BY <1>a, <2>1
  <2>4. \A s \in Sessions : /\ sessions'[s].pending = sessions[s].pending
                            /\ sessions'[s].state = "open" \/ sessions'[s].pending = 0
    BY <1>a, <2>1, <2>2, <2>3
  <2>5. QED
    BY <2>1, <2>4, StablePending
<1>2. ASSUME NEW s \in Sessions, CloseSession(s)
      PROVE  PendingInv'
  <2>1. /\ sessions[s].pending \in Nat /\ sessions'[s].pending = 0
        /\ pendingGlobal' = pendingGlobal - sessions[s].pending
        /\ \A r \in Sessions \ {s} : sessions'[r] = sessions[r]
    BY <1>2, <1>a DEF CloseSession, SessionState
  <2>2. /\ IsFiniteSet(Charges')
        /\ Cardinality(Charges') = Cardinality(Charges) - sessions[s].pending
    BY <1>a, <2>1, ChargesChange, FS_CardinalityType
  <2>3. QED
    BY <1>a, <1>b, <2>1, <2>2 DEF PendingInv, PendingExact
<1>3. ASSUME NEW s \in Sessions, SessionFinished(s)
      PROVE  PendingInv'
  <2>1. /\ sessions[s].state = "closed" /\ sessions'[s].pending = sessions[s].pending
        /\ \A r \in Sessions \ {s} : sessions'[r] = sessions[r]
        /\ UNCHANGED pendingGlobal
    BY <1>3, <1>a DEF SessionFinished, SessionState
  <2>2. QED
    BY <1>a, <2>1, StablePending
<1>4. ASSUME NEW s \in Sessions, NEW cost \in 1 .. MaxCharge,
             NEW class \in {"data", "control"}, ReservePending(s, cost, class)
      PROVE  PendingInv'
  <2>1. /\ sessions[s].pending \in Nat /\ sessions'[s].pending = sessions[s].pending + cost
        /\ sessions'[s].state = "open" /\ cost \in Nat
        /\ pendingGlobal' = pendingGlobal + cost
        /\ \A r \in Sessions \ {s} : sessions'[r] = sessions[r]
    BY <1>4, <1>a, <1>b DEF ReservePending, SessionState
  <2>2. DataLimit \in Int /\ DataLimit <= MaxPendingGlobal
    <3>1. ControlReserve * MaxSessionsGlobal \in Nat
      BY <1>b
    <3>2. QED
      BY <1>b, <3>1 DEF DataLimit
  <2>3. pendingGlobal + cost <= MaxPendingGlobal
    BY <1>4, <1>a, <1>b, <2>1, <2>2 DEF ReservePending
  <2>4. /\ IsFiniteSet(Charges')
        /\ Cardinality(Charges') = Cardinality(Charges) + cost
    BY <1>a, <2>1, ChargesChange, FS_CardinalityType
  <2>5. QED
    BY <1>a, <2>1, <2>3, <2>4 DEF PendingInv, PendingExact
<1>5. ASSUME NEW s \in Sessions, NEW cost \in 1 .. MaxCharge, ReleasePending(s, cost)
      PROVE  PendingInv'
  <2>1. /\ sessions[s].pending \in Nat /\ sessions'[s].pending = sessions[s].pending - cost
        /\ cost \in Nat /\ cost <= sessions[s].pending
        /\ sessions'[s].state = "open"
        /\ pendingGlobal' = pendingGlobal - cost
        /\ \A r \in Sessions \ {s} : sessions'[r] = sessions[r]
    BY <1>5, <1>a, <1>b DEF ReleasePending, SessionState
  <2>2. /\ IsFiniteSet(Charges')
        /\ Cardinality(Charges') = Cardinality(Charges) - cost
    BY <1>a, <2>1, ChargesChange, FS_CardinalityType
  <2>3. QED
    BY <1>a, <1>b, <2>1, <2>2 DEF PendingInv, PendingExact
<1>6. CASE UNCHANGED <<sessions, pendingGlobal>>
  BY <1>6, <1>a, StablePending
<1>7. QED
  BY <1>1, <1>2, <1>3, <1>4, <1>5, <1>6
  DEF Next, vars, sessionVars, RemoveExpired, IssueBootstrap, BootstrapExpires,
      AcquireStream, BackendDialFinished, StreamFinished, ShutdownBegins,
      ShutdownCloses, ShutdownReturns

--------------------------------------------------------------------------------
(* Shutdown.                                                               *)

\* Once closed, the manager opens nothing, and what is still open is in the
\* snapshot that Shutdown waits for.
ShutdownInv ==
    /\ shutdown.pc # "no" =>
         closed /\ \A s \in Sessions : sessions[s].state = "open" => s \in shutdown.snapshot
    /\ shutdown.pc = "done" =>
         /\ \A s \in Sessions : sessions[s].state # "open"
         /\ \A t \in Running : streams[t].session \notin shutdown.snapshot

\* A step that opens no session and starts no stream.
OpensNothing ==
    /\ \A s \in Sessions : sessions'[s].state = "open" => sessions[s].state = "open"
    /\ \A t \in Running' : t \in Running /\ streams'[t].session = streams[t].session

\* A step that opens nothing keeps the shutdown complete.
LEMMA StableShutdown ==
    ASSUME ShutdownInv, OpensNothing, UNCHANGED <<closed, shutdown>>
    PROVE  ShutdownInv'
BY DEF ShutdownInv, OpensNothing

\* Nothing is registered that the shutdown would not find.
LEMMA NextShutdown == TypeOK /\ ShutdownInv /\ [Next]_vars => ShutdownInv'
<1> SUFFICES ASSUME TypeOK, ShutdownInv, [Next]_vars PROVE ShutdownInv'
  OBVIOUS
<1>a. sessions \in [Sessions -> SessionState] /\ streams \in [Streams -> StreamState]
  BY DEF TypeOK
<1>1. ASSUME NEW h \in Bootstraps, NEW ip \in IPs, Create(h, ip)
      PROVE  ShutdownInv'
  <2>1. shutdown.pc = "no" /\ shutdown' = shutdown
    BY <1>1 DEF Create, ShutdownInv
  <2>2. QED
    BY <2>1 DEF ShutdownInv
<1>2. ASSUME NEW s \in Sessions, AcquireStream(s)
      PROVE  ShutdownInv'
  <2>1. shutdown.pc = "no" /\ shutdown' = shutdown
    BY <1>2 DEF AcquireStream, ShutdownInv
  <2>2. QED
    BY <2>1 DEF ShutdownInv
<1>3. ASSUME NEW s \in Sessions, CloseSession(s)
      PROVE  ShutdownInv'
  <2>1. OpensNothing
    BY <1>3, <1>a DEF CloseSession, SessionState, OpensNothing, streamVars, Running
  <2>2. QED
    BY <1>3, <2>1, StableShutdown DEF CloseSession
<1>4. ASSUME NEW s \in Sessions, SessionFinished(s)
      PROVE  ShutdownInv'
  <2>1. OpensNothing
    BY <1>4, <1>a DEF SessionFinished, SessionState, OpensNothing, streamVars, Running
  <2>2. QED
    BY <1>4, <2>1, StableShutdown DEF SessionFinished
<1>5. ASSUME NEW t \in Streams, BackendDialFinished(t)
      PROVE  ShutdownInv'
  <2>1. OpensNothing
    BY <1>5, <1>a DEF BackendDialFinished, StreamState, OpensNothing, sessionVars, Running
  <2>2. QED
    BY <1>5, <2>1, StableShutdown DEF BackendDialFinished
<1>6. ASSUME NEW t \in Streams, StreamFinished(t)
      PROVE  ShutdownInv'
  <2>1. OpensNothing
    BY <1>6, <1>a DEF StreamFinished, StreamState, OpensNothing, sessionVars, Running
  <2>2. QED
    BY <1>6, <2>1, StableShutdown DEF StreamFinished
<1>7. ASSUME NEW s \in Sessions, NEW cost \in 1 .. MaxCharge,
             NEW class \in {"data", "control"}, ReservePending(s, cost, class)
      PROVE  ShutdownInv'
  <2>1. OpensNothing
    BY <1>7, <1>a DEF ReservePending, SessionState, OpensNothing, streamVars, Running
  <2>2. QED
    BY <1>7, <2>1, StableShutdown DEF ReservePending
<1>8. ASSUME NEW s \in Sessions, NEW cost \in 1 .. MaxCharge, ReleasePending(s, cost)
      PROVE  ShutdownInv'
  <2>1. OpensNothing
    BY <1>8, <1>a DEF ReleasePending, SessionState, OpensNothing, streamVars, Running
  <2>2. QED
    BY <1>8, <2>1, StableShutdown DEF ReleasePending
<1>9. CASE ShutdownBegins
  <2>1. /\ shutdown'.pc = "closing" /\ shutdown'.snapshot = Registered
        /\ closed' /\ UNCHANGED sessions
    BY <1>9 DEF ShutdownBegins, sessionVars
  <2>2. QED
    BY <2>1 DEF ShutdownInv, Registered
<1>10. CASE ShutdownReturns
  <2>1. /\ shutdown.pc = "closing" /\ shutdown'.pc = "done"
        /\ shutdown'.snapshot = shutdown.snapshot
        /\ \A s \in shutdown.snapshot : sessions[s].state # "open"
        /\ \A t \in Running : streams[t].session \notin shutdown.snapshot
        /\ UNCHANGED <<closed, sessions, streams>>
    BY <1>10 DEF ShutdownReturns, sessionVars, streamVars, TypeOK
  <2>2. QED
    BY <2>1 DEF ShutdownInv, Running
<1>11. CASE UNCHANGED <<closed, sessions, streams, shutdown>>
  BY <1>11, StableShutdown DEF OpensNothing, Running
<1>12. QED
  BY <1>1, <1>2, <1>3, <1>4, <1>5, <1>6, <1>7, <1>8, <1>9, <1>10, <1>11
  DEF Next, vars, sessionVars, streamVars, RemoveExpired, IssueBootstrap,
      BootstrapExpires, ShutdownCloses

--------------------------------------------------------------------------------
(* The invariant and what it shows.                                        *)

IInv ==
    /\ TypeOK /\ BootstrapCountsExact /\ LinksInv /\ SessionCountsExact
    /\ StreamsInv /\ PendingInv /\ ShutdownInv

\* The inductive invariant holds at the start.
LEMMA InitInv == Init => IInv
<1> SUFFICES ASSUME Init PROVE IInv
  OBVIOUS
<1>1. TypeOK
  BY InitTypes
<1>2. /\ \A h \in Bootstraps : bootstraps[h].state = "new"
      /\ \A s \in Sessions : sessions[s].state = "new" /\ sessions[s].pending = 0
      /\ \A t \in Streams : streams[t].state = "new"
  BY DEF Init
<1>3. Cardinality({}) = 0 /\ IsFiniteSet({})
  BY FS_EmptySet
<1>4. BootstrapCountsExact
  <2>1. \A ip \in IPs : UnusedOf(bootstraps, ip) = {}
    BY <1>2 DEF UnusedOf
  <2>2. QED
    BY <1>3, <2>1, BootstrapCountsOf DEF Init
<1>5. LinksInv
  BY <1>2 DEF LinksInv, BootstrapNamesItsSession, New, Present
<1>6. SessionCountsExact
  <2>1. \A x : SessionsFrom(sessions, x) = {} /\ SessionsAs(sessions, x) = {}
    BY <1>2 DEF SessionsFrom, SessionsAs, Counted
  <2>2. QED
    BY <1>3, <2>1, SessionCountsOf DEF Init, SessionCounts
<1>7. StreamsInv
  <2>1. Running = {} /\ Dialing = {}
    BY <1>2 DEF Running, Dialing
  <2>2. \A x : RunningAs(x) = {} /\ DialingAs(x) = {}
    BY <2>1 DEF RunningAs, DialingAs
  <2>3. QED
    BY <1>3, <2>1, <2>2 DEF Init, StreamsInv, OwnersInv, StreamCounts
<1>8. PendingInv
  <2>1. Charges = {}
    BY <1>2 DEF Charges
  <2>2. MaxPendingGlobal \in Nat
    BY ManagerAssumption
  <2>3. QED
    BY <1>2, <1>3, <2>1, <2>2 DEF Init, PendingInv, PendingExact
<1>9. ShutdownInv
  BY DEF Init, ShutdownInv
<1>10. QED
  BY <1>1, <1>4, <1>5, <1>6, <1>7, <1>8, <1>9 DEF IInv

\* Every step keeps the inductive invariant.
LEMMA NextInv == IInv /\ [Next]_vars => IInv'
BY NextTypes, NextBootstrapCounts, NextLinks, NextSessionCounts, NextStreams, NextPending,
   NextShutdown
DEF IInv

\* The invariant holds of every reachable state.
THEOREM Invariance == Spec => []IInv
<1>1. Init => IInv
  BY InitInv
<1>2. IInv /\ [Next]_vars => IInv'
  BY NextInv
<1>3. QED
  BY <1>1, <1>2, PTL DEF Spec

\* The manager's state has its types, whatever is issued, created, exchanged,
\* closed and charged.
THEOREM TypeCorrect == Spec => []TypeOK
<1>1. IInv => TypeOK
  BY DEF IInv
<1>2. QED
  BY <1>1, Invariance, PTL

\* Every counter of the manager is the size of what it counts: the unused
\* bootstraps of an address, the registered sessions of an address and of a
\* profile, the streams and the dials, and the sum of the pending charges.
THEOREM CountsAreExact == Spec => []CountsExact
<1>1. IInv => CountsExact
  BY StreamCountsOf DEF IInv, StreamsInv, PendingInv, CountsExact
<1>2. QED
  BY <1>1, Invariance, PTL

\* A bootstrap is exchanged for at most one session, and a present one that
\* was exchanged names its own, still registered session.
THEOREM LinksHold == Spec => []BootstrapNamesItsSession
<1>1. IInv => BootstrapNamesItsSession
  BY DEF IInv, LinksInv
<1>2. QED
  BY <1>1, Invariance, PTL

\* Shutdown returns only when nothing is open, none of the streams it found is
\* running, and the whole pending budget is back.
THEOREM ShutdownIsComplete == Spec => []ShutdownComplete
<1>1. ASSUME IInv, shutdown.pc = "done"
      PROVE  pendingGlobal = 0
  <2>1. \A s \in Sessions : sessions[s].pending = 0
    BY <1>1 DEF IInv, ShutdownInv, PendingInv
  <2>2. Charges = {}
    BY <2>1 DEF Charges
  <2>3. QED
    BY <1>1, <2>2, FS_EmptySet DEF IInv, PendingInv, PendingExact
<1>2. IInv => ShutdownComplete
  BY <1>1 DEF IInv, ShutdownInv, ShutdownComplete
<1>3. QED
  BY <1>2, Invariance, PTL
================================================================================
