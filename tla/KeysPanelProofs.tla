----------------------------- MODULE KeysPanelProofs -----------------------------
(***************************************************************************)
(* The keys panel keeps files and services together for any number of      *)
(* concurrent calls, names, backends, secrets and faults.                  *)
(***************************************************************************)
EXTENDS KeysPanel, Counting, SequenceTheorems

--------------------------------------------------------------------------------
(* Calls and types.                                                        *)

PCs == {"idle", "assign", "validate", "install", "sync", "putback", "restart",
        "ready", "restore"}

\* From the end of Apply's checks on, and so for the whole of Sync.
Late == {"install", "sync", "putback", "restart", "ready", "restore"}

CallState ==
    [pc : PCs, op : {"none", "add", "revoke", "rotate", "sync"}, todo : Seq(Names),
     file : ProfileFile \cup {<< >>}, previous : ProfileFile \cup {<< >>},
     known : 0..MaxBackends, at : Backends, changed : SUBSET Backends,
     units : SUBSET Backends, rollback : BOOLEAN, old : SUBSET (0..MaxSecrets),
     alone : BOOLEAN]

\* Where a call has got to bounds what it holds.
CallInv(call, registered) ==
    /\ call.pc = "idle" <=> call = Idle
    /\ call.pc \in Late => call.known \in 1..registered
    /\ call.pc \in {"assign", "validate", "install"} => call.at = 1 /\ call.units = {}
    /\ call.pc = "sync" => call.at <= call.known
    /\ call.pc # "idle" => call.file \in ProfileFile
    /\ call.pc = "assign" => call.todo # << >>
    /\ call.op = "sync" => call.pc \in {"sync", "restart", "ready"} /\ ~call.rollback
    /\ call.rollback => call.pc \in {"sync", "restart", "ready"}
    /\ call.pc \in Late /\ call.op # "sync" => call.previous \in ProfileFile

\* The limits of the panel are numbers.
LEMMA Bounds ==
    /\ MaxBackends \in Nat \ {0} /\ MaxSecretsPerBackend \in Nat \ {0}
    /\ MaxProfiles \in Nat \ {0}
    /\ MaxSecrets \in Nat /\ MaxCalls \in Nat /\ MaxFaults \in Nat
    /\ Backends \subseteq Nat /\ 1 \in Backends
BY KeysPanelAssumption DEF Backends

\* A client that makes no call satisfies the invariant of calls.
LEMMA IdleCall == Idle \in CallState /\ \A registered : CallInv(Idle, registered)
<1>1. Idle \in CallState
  BY Bounds DEF Idle, CallState, PCs
<1>2. \A registered : CallInv(Idle, registered)
  BY DEF Idle, CallInv, Late
<1>3. QED
  BY <1>1, <1>2

\* A client's call moves on, and the others' stay.
LEMMA ContinueCall ==
    ASSUME calls \in [Clients -> CallState], NEW c \in Clients,
           NEW call \in CallState, Continue(c, call)
    PROVE  /\ calls' \in [Clients -> CallState]
           /\ calls'[c] = call
           /\ \A d \in Clients \ {c} : calls'[d] = calls[d]
BY DEF Continue

\* A call that returns leaves the table of calls well typed.
LEMMA EndCall ==
    ASSUME calls \in [Clients -> CallState], NEW c \in Clients, End(c)
    PROVE  /\ calls' \in [Clients -> CallState]
           /\ calls'[c] = Idle
           /\ \A d \in Clients \ {c} : calls'[d] = calls[d]
BY IdleCall, ContinueCall DEF End

\* What a call is, whoever runs beside it.
Same(call, other) ==
    /\ call.pc = other.pc /\ call.op = other.op /\ call.todo = other.todo
    /\ call.file = other.file /\ call.previous = other.previous
    /\ call.known = other.known /\ call.at = other.at /\ call.changed = other.changed
    /\ call.units = other.units /\ call.rollback = other.rollback /\ call.old = other.old

\* A call begins: the others' calls are the same, and none is alone any more.
LEMMA BeginCall ==
    ASSUME calls \in [Clients -> CallState], NEW c \in Clients,
           NEW call \in CallState, Begin(c, call)
    PROVE  /\ calls' \in [Clients -> CallState]
           /\ calls[c] = Idle
           /\ Same(calls'[c], call)
           /\ calls'[c].alone = ~ \E d \in Clients : calls[d] # Idle
           /\ \A d \in Clients \ {c} :
                /\ Same(calls'[d], calls[d]) /\ ~calls'[d].alone
                /\ calls[d] = Idle => calls'[d] = Idle
<1> DEFINE meets == \E d \in Clients : calls[d] # Idle
<1>1. /\ calls' = [d \in Clients |->
                     IF d = c THEN [call EXCEPT !.alone = ~meets]
                     ELSE [calls[d] EXCEPT !.alone = FALSE]]
      /\ calls[c] = Idle
  BY DEF Begin
<1>2. meets \in BOOLEAN
  OBVIOUS
<1> HIDE DEF meets
<1>3. ASSUME NEW x \in CallState, NEW a \in BOOLEAN
      PROVE  /\ [x EXCEPT !.alone = a] \in CallState
             /\ Same([x EXCEPT !.alone = a], x)
             /\ [x EXCEPT !.alone = a].alone = a
  BY DEF CallState, Same
<1>4. /\ [call EXCEPT !.alone = ~meets] \in CallState
      /\ Same([call EXCEPT !.alone = ~meets], call)
      /\ [call EXCEPT !.alone = ~meets].alone = ~meets
  BY <1>2, <1>3
<1>5. ASSUME NEW d \in Clients
      PROVE  /\ [calls[d] EXCEPT !.alone = FALSE] \in CallState
             /\ Same([calls[d] EXCEPT !.alone = FALSE], calls[d])
             /\ ~[calls[d] EXCEPT !.alone = FALSE].alone
  BY <1>3
<1>6. calls' \in [Clients -> CallState]
  BY <1>1, <1>4, <1>5
<1>7. /\ Same(calls'[c], call)
      /\ calls'[c].alone = ~meets
      /\ \A d \in Clients \ {c} : Same(calls'[d], calls[d]) /\ ~calls'[d].alone
  BY <1>1, <1>4, <1>5
<1>8. [Idle EXCEPT !.alone = FALSE] = Idle
  <2>1. \A x \in CallState : x.alone = FALSE => [x EXCEPT !.alone = FALSE] = x
    BY DEF CallState
  <2>2. Idle \in CallState /\ Idle.alone = FALSE
    BY IdleCall DEF Idle
  <2>3. QED
    BY <2>1, <2>2
<1>9. \A d \in Clients \ {c} : calls[d] = Idle => calls'[d] = Idle
  BY <1>1, <1>8
<1>10. QED
  BY <1>1, <1>6, <1>7, <1>9 DEF meets

\* A call that satisfies its bounds keeps them when the registry grows.
LEMMA CallInvKept ==
    ASSUME NEW call, NEW other, NEW r \in Nat, NEW s \in Nat, r <= s,
           CallInv(call, r), Same(other, call), call.pc = "idle" => other = Idle,
           call.known \in Nat
    PROVE  CallInv(other, s)
BY IdleCall DEF CallInv, Same, Idle

\* The types of everything but the calls.
DataTypes ==
    /\ profiles \in ProfileFile
    /\ registry \in Backends
    /\ leftover \in BOOLEAN
    /\ env \in [Backends -> SUBSET (0..MaxSecrets)]
    /\ fresh \subseteq 1..registry
    /\ running \in [Backends -> (SUBSET (0..MaxSecrets)) \cup {None}]
    /\ relay = None \/ relay \in ProfileFile
    /\ minted \in 0..MaxSecrets /\ begun \in 0..MaxCalls /\ faults \in 0..MaxFaults
    /\ doubtful \in BOOLEAN /\ overlapped \in BOOLEAN /\ retired \subseteq 0..MaxSecrets

CallTypes ==
    /\ calls \in [Clients -> CallState]
    /\ \A c \in Clients : CallInv(calls[c], registry)

TypesInv == DataTypes /\ CallTypes

\* The inductive type invariant implies TypeOK.
LEMMA TypesMeanTypeOK == TypesInv => TypeOK
<1> SUFFICES ASSUME TypesInv PROVE TypeOK
  OBVIOUS
<1>1. \A b \in Backends : running[b] = None \/ running[b] \subseteq 0..MaxSecrets
  <2>1. \A b \in Backends : running[b] \in (SUBSET (0..MaxSecrets)) \cup {None}
    BY DEF TypesInv, DataTypes
  <2>2. QED
    BY <2>1
<1>2. ASSUME NEW c \in Clients
      PROVE  /\ calls[c].file = << >> \/ calls[c].file \in ProfileFile
             /\ calls[c].previous = << >> \/ calls[c].previous \in ProfileFile
             /\ calls[c].units \subseteq Backends /\ calls[c].changed \subseteq Backends
             /\ calls[c].known \in 0..MaxBackends /\ calls[c].at \in Backends
  BY DEF TypesInv, CallTypes, CallState
<1>3. QED
  BY <1>1, <1>2 DEF TypesInv, DataTypes, TypeOK

\* A call that moves on, to a state within its bounds.
LEMMA ContinueTypes ==
    ASSUME TypesInv, NEW c \in Clients, NEW call \in CallState, Continue(c, call),
           registry' \in Backends, registry <= registry', CallInv(call, registry')
    PROVE  CallTypes'
<1>1. \A d \in Clients \ {c} : CallInv(calls[d], registry')
  <2>1. ASSUME NEW d \in Clients \ {c}
        PROVE  CallInv(calls[d], registry')
    <3>1. calls[d] \in CallState /\ CallInv(calls[d], registry)
      BY DEF TypesInv, CallTypes
    <3>2. calls[d].known \in Nat /\ registry \in Nat /\ registry' \in Nat
      <4>1. calls[d].known \in 0..MaxBackends /\ MaxBackends \in Nat
        BY <3>1, Bounds DEF CallState
      <4>2. registry \in Backends
        BY DEF TypesInv, DataTypes
      <4>3. QED
        BY <4>1, <4>2, Bounds
    <3>3. Same(calls[d], calls[d]) /\ (calls[d].pc = "idle" => calls[d] = Idle)
      BY <3>1 DEF Same, CallInv
    <3>4. QED
      BY <3>1, <3>2, <3>3, CallInvKept
  <2>2. QED
    BY <2>1
<1>2. QED
  BY <1>1, ContinueCall DEF TypesInv, CallTypes

\* A call that ends.
LEMMA EndTypes ==
    ASSUME TypesInv, NEW c \in Clients, End(c), UNCHANGED registry
    PROVE  CallTypes'
<1>1. registry \in Nat
  BY Bounds DEF TypesInv, DataTypes
<1>2. QED
  BY <1>1, IdleCall, ContinueTypes DEF End, TypesInv, DataTypes

\* A call that begins.
LEMMA BeginTypes ==
    ASSUME TypesInv, NEW c \in Clients, NEW call \in CallState, Begin(c, call),
           call.pc # "idle", CallInv(call, registry)
    PROVE  /\ CallTypes'
           /\ DataTypes' <=> minted' \in 0..MaxSecrets
<1>1. registry \in Nat /\ UNCHANGED registry
  BY Bounds DEF TypesInv, DataTypes, Begin, files
<1>2. /\ calls' \in [Clients -> CallState]
      /\ Same(calls'[c], call)
      /\ \A d \in Clients \ {c} :
           Same(calls'[d], calls[d]) /\ (calls[d] = Idle => calls'[d] = Idle)
  BY BeginCall DEF TypesInv, CallTypes
<1>3. CallInv(calls'[c], registry')
  BY <1>1, <1>2, CallInvKept DEF CallState
<1>4. ASSUME NEW d \in Clients \ {c}
      PROVE  CallInv(calls'[d], registry')
  <2>1. calls[d] \in CallState /\ CallInv(calls[d], registry)
    BY DEF TypesInv, CallTypes
  <2>2. calls[d].known \in Nat /\ (calls[d].pc = "idle" => calls'[d] = Idle)
    BY <1>2, <2>1 DEF CallState, CallInv
  <2>3. QED
    BY <1>1, <1>2, <2>1, <2>2, CallInvKept
<1>5. CallTypes'
  BY <1>2, <1>3, <1>4 DEF CallTypes
<1>6. begun' \in 0..MaxCalls
  BY Bounds DEF TypesInv, DataTypes, Begin
<1>7. QED
  BY <1>5, <1>6 DEF TypesInv, DataTypes, Begin, files, services

--------------------------------------------------------------------------------
(* Files of profiles.                                                      *)

\* What a profiles file is made of.
LEMMA FileType ==
    ASSUME NEW file \in ProfileFile
    PROVE  /\ DOMAIN file \subseteq Names
           /\ file \in [DOMAIN file -> Profile]
           /\ \A n \in DOMAIN file : /\ file[n] \in Profile
                                     /\ file[n].secret.key \in 0..MaxSecrets
                                     /\ file[n].backend \in Backends
<1>1. PICK D \in SUBSET Names : file \in [D -> Profile]
  BY DEF ProfileFile
<1>2. DOMAIN file = D
  BY <1>1
<1>3. QED
  BY <1>1, <1>2 DEF Profile, Secret

\* Any assignment of profiles to some names is a profiles file.
LEMMA FileIs ==
    ASSUME NEW D \in SUBSET Names, NEW file \in [D -> Profile]
    PROVE  file \in ProfileFile
BY DEF ProfileFile

\* A minted secret has a key no call has used.
LEMMA SecretIsNew ==
    ASSUME minted \in 0..MaxSecrets, minted < MaxSecrets
    PROVE  NewSecret \in Secret /\ NewSecret.key = minted + 1
BY Bounds DEF NewSecret, Secret

\* The three edits: a key is added, revoked, given a new secret.
LEMMA FileAdded ==
    ASSUME NEW file \in ProfileFile, NEW name \in Names, NEW secret \in Secret,
           NEW b \in Backends,
           NEW added, added = [n \in DOMAIN file \cup {name} |->
             IF n = name THEN [secret |-> secret, backend |-> b] ELSE file[n]]
    PROVE  /\ added \in ProfileFile
           /\ DOMAIN added = DOMAIN file \cup {name}
           /\ added[name] = [secret |-> secret, backend |-> b]
           /\ \A n \in DOMAIN file \ {name} : added[n] = file[n]
<1> DEFINE profile == [secret |-> secret, backend |-> b]
<1>1. profile \in Profile
  BY DEF Profile
<1> HIDE DEF profile
<1>4. added \in [DOMAIN file \cup {name} -> Profile]
  BY <1>1, FileType DEF profile
<1>5. DOMAIN file \cup {name} \in SUBSET Names
  BY FileType
<1>6. QED
  BY <1>4, <1>5, FileIs DEF profile

\* RevokeKey leaves a well-typed file without the profile.
LEMMA FileRevoked ==
    ASSUME NEW file \in ProfileFile, NEW name,
           NEW left, left = [n \in DOMAIN file \ {name} |-> file[n]]
    PROVE  /\ left \in ProfileFile
           /\ DOMAIN left = DOMAIN file \ {name}
           /\ \A n \in DOMAIN left : left[n] = file[n]
<1>1. left \in [DOMAIN file \ {name} -> Profile]
  BY FileType
<1>2. DOMAIN file \ {name} \in SUBSET Names
  BY FileType
<1>3. QED
  BY <1>1, <1>2, FileIs

\* RotateKey leaves a well-typed file with the new secret.
LEMMA FileRotated ==
    ASSUME NEW file \in ProfileFile, NEW name \in DOMAIN file, NEW secret \in Secret,
           NEW rotated, rotated = [file EXCEPT ![name].secret = secret]
    PROVE  /\ rotated \in ProfileFile
           /\ DOMAIN rotated = DOMAIN file
           /\ rotated[name].secret = secret /\ rotated[name].backend = file[name].backend
           /\ \A n \in DOMAIN file \ {name} : rotated[n] = file[n]
<1>1. [file[name] EXCEPT !.secret = secret] \in Profile
  BY FileType DEF Profile
<1>2. rotated = [file EXCEPT ![name] = [file[name] EXCEPT !.secret = secret]]
  OBVIOUS
<1>3. rotated \in [DOMAIN file -> Profile]
  BY <1>1, <1>2, FileType
<1>4. rotated[name].secret = secret /\ rotated[name].backend = file[name].backend
  BY FileType, <1>2 DEF Profile
<1>5. QED
  BY <1>2, <1>3, <1>4, FileType, FileIs

\* The secrets of a file, on each backend and altogether.
Keys(file) == {file[n].secret.key : n \in DOMAIN file}

\* KeysOf, as a set of keys of profiles.
LEMMA KeysOfFile ==
    ASSUME NEW file \in ProfileFile
    PROVE  /\ KeysOf(file) = Keys(file)
           /\ Keys(file) \subseteq 0..MaxSecrets
           /\ \A b : Arguments(file, b) \subseteq Keys(file)
           /\ \A b : \A k : k \in Arguments(file, b) <=>
                \E n \in DOMAIN file : file[n].backend = b /\ file[n].secret.key = k
<1>1. \A b : \A k : k \in Arguments(file, b) <=>
        \E n \in DOMAIN file : file[n].backend = b /\ file[n].secret.key = k
  BY DEF Arguments, OnBackend, backendSecret
<1>2. \A k : k \in KeysOf(file) <=> \E b \in Backends : k \in Arguments(file, b)
  BY DEF KeysOf
<1>3. \A k : k \in KeysOf(file) <=> k \in Keys(file)
  BY <1>1, <1>2, FileType DEF Keys
<1>4. QED
  BY <1>1, <1>3, FileType DEF Keys

\* The first of some backends is one of them.
LEMMA FirstIsIn ==
    ASSUME NEW S, S \subseteq Backends, S # {}
    PROVE  First(S) \in S
<1>1. S \subseteq Nat
  BY Bounds
<1>2. \E b \in S : \A other \in S : b <= other
  BY <1>1, LeastElement
<1>3. QED
  BY <1>2 DEF First

--------------------------------------------------------------------------------
(* Types.                                                                  *)

\* The panel starts well typed.
LEMMA InitTypes == Init => TypesInv
<1> SUFFICES ASSUME Init PROVE TypesInv
  OBVIOUS
<1>1. profiles \in ProfileFile
  <2> DEFINE profile == [secret |-> [dd |-> TRUE, key |-> 0], backend |-> 1]
  <2>1. profile \in Profile
    BY Bounds DEF Profile, Secret
  <2> HIDE DEF profile
  <2>2. profiles \in [{Default} -> Profile]
    BY <2>1 DEF Init, profile
  <2>3. QED
    BY <2>2, KeysPanelAssumption, FileIs
<1>2. registry \in Backends /\ leftover \in BOOLEAN /\ fresh \subseteq 1..registry
  BY Bounds DEF Init
<1>3. env \in [Backends -> SUBSET (0..MaxSecrets)]
  BY Bounds DEF Init
<1>4. running \in [Backends -> (SUBSET (0..MaxSecrets)) \cup {None}]
  BY Bounds DEF Init
<1>5. minted \in 0..MaxSecrets /\ begun \in 0..MaxCalls /\ faults \in 0..MaxFaults
  BY Bounds DEF Init
<1>6. doubtful \in BOOLEAN /\ overlapped \in BOOLEAN /\ retired \subseteq 0..MaxSecrets
  BY DEF Init
<1>7. CallTypes
  BY IdleCall DEF Init, CallTypes
<1>8. QED
  BY <1>1, <1>2, <1>3, <1>4, <1>5, <1>6, <1>7 DEF Init, TypesInv, DataTypes

\* What the types say of one call.
LEMMA CallType ==
    ASSUME TypesInv, NEW c \in Clients
    PROVE  /\ calls[c] \in CallState /\ CallInv(calls[c], registry)
           /\ registry \in Backends /\ registry \in Nat
BY Bounds DEF TypesInv, DataTypes, CallTypes

\* What MTProxy loads from an environment file is well typed.
LEMMA LoadedType ==
    ASSUME NEW secrets \in SUBSET (0..MaxSecrets)
    PROVE  Loaded(secrets) \in (SUBSET (0..MaxSecrets)) \cup {None}
BY DEF Loaded

\* The file a sync works from is a file of profiles.
LEMMA TargetType ==
    ASSUME TypesInv, NEW c \in Clients, calls[c].pc \in Late
    PROVE  Target(calls[c]) \in ProfileFile
BY CallType DEF CallInv, Target, Late

\* The steps with which a call begins.
LEMMA BeginStepTypes ==
    ASSUME TypesInv, NEW c \in Clients,
           \/ \E batch \in Imports : AddKeys(c, batch)
           \/ \E name \in Names : RevokeKey(c, name) \/ RotateKey(c, name)
           \/ Sync(c)
    PROVE  TypesInv'
<1>0. /\ Idle \in CallState /\ profiles \in ProfileFile /\ registry \in Backends
      /\ minted \in 0..MaxSecrets /\ registry \in Nat /\ registry \in 1..registry
      /\ registry \in 0..MaxBackends
  BY IdleCall, Bounds DEF TypesInv, DataTypes, Backends
<1>1. ASSUME NEW batch \in Imports, AddKeys(c, batch)
      PROVE  TypesInv'
  <2> DEFINE call == [Idle EXCEPT !.pc = "assign", !.op = "add",
                        !.todo = batch, !.file = profiles, !.known = registry]
  <2>1. batch \in Seq(Names) /\ batch # << >>
    BY KeysPanelAssumption
  <2>2. call \in CallState
    BY <1>0, <2>1 DEF CallState, PCs
  <2>3. CallInv(call, registry) /\ call.pc # "idle"
    BY <1>0, <2>1 DEF CallInv, Late, Idle
  <2>4. Begin(c, call) /\ UNCHANGED minted
    BY <1>1 DEF AddKeys
  <2>5. QED
    BY <1>0, <2>2, <2>3, <2>4, BeginTypes DEF TypesInv
<1>2. ASSUME NEW name \in Names, RevokeKey(c, name)
      PROVE  TypesInv'
  <2> DEFINE left == [n \in DOMAIN profiles \ {name} |-> profiles[n]]
             old == {backendSecret(profiles[name].secret)}
             call == [Idle EXCEPT !.pc = "validate", !.op = "revoke",
                        !.file = left, !.old = old]
  <2>0. name \in DOMAIN profiles
    BY <1>2 DEF RevokeKey
  <2>1. left \in ProfileFile /\ old \subseteq 0..MaxSecrets
    <3>1. left \in ProfileFile
      BY <1>0, FileRevoked
    <3>2. old \subseteq 0..MaxSecrets
      BY <1>0, <2>0, FileType DEF backendSecret
    <3>3. QED
      BY <3>1, <3>2
  <2>2. Begin(c, call) /\ UNCHANGED minted
    BY <1>2 DEF RevokeKey
  <2> HIDE DEF left, old
  <2>3. call \in CallState
    BY <1>0, <2>1 DEF CallState, PCs
  <2>4. CallInv(call, registry) /\ call.pc # "idle"
    BY <1>0, <2>1 DEF CallInv, Late, Idle
  <2>5. QED
    BY <1>0, <2>2, <2>3, <2>4, BeginTypes DEF TypesInv
<1>3. ASSUME NEW name \in Names, RotateKey(c, name)
      PROVE  TypesInv'
  <2> DEFINE rotated == [profiles EXCEPT ![name].secret = NewSecret]
             old == {backendSecret(profiles[name].secret)}
             call == [Idle EXCEPT !.pc = "validate", !.op = "rotate",
                        !.file = rotated, !.old = old]
  <2>0. name \in DOMAIN profiles /\ minted < MaxSecrets /\ minted' = minted + 1
    BY <1>3 DEF RotateKey
  <2>1. rotated \in ProfileFile /\ old \subseteq 0..MaxSecrets
    <3>1. rotated \in ProfileFile
      BY <1>0, <2>0, SecretIsNew, FileRotated
    <3>2. old \subseteq 0..MaxSecrets
      BY <1>0, <2>0, FileType DEF backendSecret
    <3>3. QED
      BY <3>1, <3>2
  <2>2. Begin(c, call) /\ minted' \in 0..MaxSecrets
    <3>1. Begin(c, call)
      BY <1>3 DEF RotateKey
    <3>2. minted' \in 0..MaxSecrets
      BY <1>0, <2>0, Bounds
    <3>3. QED
      BY <3>1, <3>2
  <2> HIDE DEF rotated, old
  <2>3. call \in CallState
    BY <1>0, <2>1 DEF CallState, PCs
  <2>4. CallInv(call, registry) /\ call.pc # "idle"
    BY <1>0, <2>1 DEF CallInv, Late, Idle
  <2>5. QED
    BY <2>2, <2>3, <2>4, BeginTypes DEF TypesInv
<1>4. ASSUME Sync(c)
      PROVE  TypesInv'
  <2> DEFINE call == [Idle EXCEPT !.pc = "sync", !.op = "sync", !.file = profiles,
                        !.known = registry]
  <2>1. call \in CallState
    BY <1>0 DEF CallState, PCs
  <2>2. CallInv(call, registry) /\ call.pc # "idle"
    <3>1. /\ call.pc = "sync" /\ call.op = "sync" /\ call.file = profiles
          /\ call.known = registry /\ call.at = 1 /\ ~call.rollback /\ Idle.pc = "idle"
      BY DEF Idle
    <3> HIDE DEF call
    <3>2. QED
      BY <1>0, <3>1 DEF CallInv, Late
  <2>3. Begin(c, call) /\ UNCHANGED minted
    BY <1>4 DEF Sync
  <2>4. QED
    BY <1>0, <2>1, <2>2, <2>3, BeginTypes DEF TypesInv
<1>5. QED
  BY <1>1, <1>2, <1>3, <1>4

\* The steps of a call that ends with the data as it is.
LEMMA EndStepTypes ==
    ASSUME TypesInv, NEW c \in Clients,
           \/ ProvisionFails(c) \/ Refuse(c) \/ PutBack(c) \/ Killed(c) \/ Ready(c)
    PROVE  TypesInv'
<1>0. calls[c] \in CallState /\ CallInv(calls[c], registry)
  BY CallType
<1>1. /\ End(c)
      /\ UNCHANGED << registry, env, fresh, services, minted, begun >>
      /\ faults' \in 0..MaxFaults /\ leftover' \in BOOLEAN
  BY Bounds DEF TypesInv, DataTypes, ProvisionFails, Refuse, PutBack, Killed, Ready,
                Restored, Fault, NoFault, files, history
<1>2. doubtful' \in BOOLEAN /\ overlapped' \in BOOLEAN
  BY DEF TypesInv, DataTypes, ProvisionFails, Refuse, PutBack, Killed, Ready, Restored,
         Doubt, history
<1>3. retired' \subseteq 0..MaxSecrets
  BY <1>0 DEF TypesInv, DataTypes, ProvisionFails, Refuse, PutBack, Killed, Ready, Restored,
              Doubt, history, CallState
<1>4. profiles' \in ProfileFile
  BY <1>0 DEF TypesInv, DataTypes, ProvisionFails, Refuse, PutBack, Killed, Ready, Restored,
              files, CallInv, Late
<1>5. CallTypes'
  BY <1>1, EndTypes
<1>6. QED
  BY <1>1, <1>2, <1>3, <1>4, <1>5 DEF TypesInv, DataTypes, services

\* A key of an import is assigned to a backend.
LEMMA AssignCall ==
    ASSUME TypesInv, NEW c \in Clients, NEW known \in 0..MaxBackends, NEW b \in Backends,
           calls[c].pc = "assign", Assign(c, known, b)
    PROVE  LET call == calls'[c]
           IN  /\ Continue(c, call) /\ call \in CallState
               /\ call.pc \in {"assign", "validate"} /\ call.op = calls[c].op
               /\ call.op # "sync" /\ ~call.rollback
               /\ call.pc = "assign" => call.todo # << >>
               /\ call.file \in ProfileFile
               /\ DOMAIN call.file = DOMAIN calls[c].file \cup {Head(calls[c].todo)}
               /\ call.file[Head(calls[c].todo)] = [secret |-> NewSecret, backend |-> b]
               /\ \A n \in DOMAIN calls[c].file \ {Head(calls[c].todo)} :
                    call.file[n] = calls[c].file[n]
               /\ call.previous = calls[c].previous /\ call.known = known
               /\ call.old = calls[c].old /\ call.alone = calls[c].alone
               /\ call.at = 1 /\ call.units = {}
               /\ minted' = minted + 1 /\ minted' \in 0..MaxSecrets
               /\ \A d \in Clients \ {c} : calls'[d] = calls[d]
<1> DEFINE name == Head(calls[c].todo)
           profile == [secret |-> NewSecret, backend |-> b]
           added == [n \in DOMAIN calls[c].file \cup {name} |->
                       IF n = name THEN profile ELSE calls[c].file[n]]
           phase == IF Len(calls[c].todo) = 1 THEN "validate" ELSE "assign"
           call == [calls[c] EXCEPT !.file = added, !.todo = Tail(calls[c].todo),
                                    !.known = known, !.pc = phase]
<1>0. calls[c] \in CallState /\ CallInv(calls[c], registry)
  BY CallType
<1>1. /\ calls[c].todo \in Seq(Names) /\ calls[c].todo # << >>
      /\ calls[c].file \in ProfileFile
      /\ calls[c].op # "sync" /\ ~calls[c].rollback
  BY <1>0 DEF CallState, CallInv
<1>2. name \in Names /\ Tail(calls[c].todo) \in Seq(Names)
      /\ (phase = "assign" => Tail(calls[c].todo) # << >>)
  <2>1. name \in Names /\ Tail(calls[c].todo) \in Seq(Names)
        /\ Len(Tail(calls[c].todo)) = Len(calls[c].todo) - 1 /\ Len(calls[c].todo) \in Nat
    BY <1>1, HeadTailProperties, LenProperties
  <2>2. Len(calls[c].todo) # 1 => Tail(calls[c].todo) # << >>
    <3>1. Len(calls[c].todo) # 1 => Len(Tail(calls[c].todo)) # 0
      BY <2>1
    <3>2. QED
      BY <3>1
  <2>3. QED
    BY <2>1, <2>2
<1>3. /\ minted < MaxSecrets /\ minted' = minted + 1 /\ minted \in 0..MaxSecrets
      /\ Continue(c, call)
  BY DEF Assign, TypesInv, DataTypes
<1>4. NewSecret \in Secret
  BY <1>3, SecretIsNew
<1>5. /\ added \in ProfileFile
      /\ DOMAIN added = DOMAIN calls[c].file \cup {name}
      /\ added[name] = profile
      /\ \A n \in DOMAIN calls[c].file \ {name} : added[n] = calls[c].file[n]
  <2> DEFINE file == calls[c].file
  <2>1. file \in ProfileFile /\ name \in Names /\ NewSecret \in Secret
        /\ added = [n \in DOMAIN file \cup {name} |->
                     IF n = name THEN [secret |-> NewSecret, backend |-> b] ELSE file[n]]
    BY <1>1, <1>2, <1>4
  <2> HIDE DEF file, added, name
  <2>2. /\ added \in ProfileFile
        /\ DOMAIN added = DOMAIN file \cup {name}
        /\ added[name] = profile
        /\ \A n \in DOMAIN file \ {name} : added[n] = file[n]
    BY <2>1, FileAdded
  <2>3. QED
    BY <2>2 DEF file
<1>6. phase \in {"assign", "validate"}
  OBVIOUS
<1> HIDE DEF added, name, profile, phase
<1>7. call \in CallState
  BY <1>0, <1>2, <1>5, <1>6 DEF CallState, PCs
<1>8. /\ call.pc = phase /\ call.op = calls[c].op /\ call.rollback = calls[c].rollback
      /\ call.todo = Tail(calls[c].todo) /\ call.file = added
      /\ call.previous = calls[c].previous /\ call.known = known
      /\ call.old = calls[c].old /\ call.alone = calls[c].alone
      /\ call.at = calls[c].at /\ calls[c].at = 1
      /\ call.units = calls[c].units /\ calls[c].units = {}
  BY <1>0 DEF CallState, CallInv
<1> HIDE DEF call
<1>9. calls'[c] = call /\ \A d \in Clients \ {c} : calls'[d] = calls[d]
  BY <1>3, <1>7, ContinueCall DEF TypesInv, CallTypes
<1>10. minted' \in 0..MaxSecrets
  BY <1>3, Bounds
<1>11. QED
  BY <1>1, <1>2, <1>3, <1>5, <1>6, <1>7, <1>8, <1>9, <1>10 DEF name, profile

--------------------------------------------------------------------------------
(* The steps of Apply and Sync: what becomes of the call.                  *)

\* The client's call moves on and keeps what it edits.
Kept(next, call) ==
    /\ next.op = call.op /\ next.file = call.file /\ next.previous = call.previous
    /\ next.known = call.known /\ next.old = call.old /\ next.alone = call.alone

Moves(c) ==
    /\ calls' \in [Clients -> CallState]
    /\ CallInv(calls'[c], registry)
    /\ \A d \in Clients \ {c} : calls'[d] = calls[d]

\* A call that moves on leaves the table of calls well typed.
LEMMA MovesTypes ==
    ASSUME TypesInv, NEW c \in Clients, Moves(c), UNCHANGED registry
    PROVE  CallTypes'
BY DEF Moves, TypesInv, CallTypes

\* What Validate changes: the program counter of its call, or it ends.
LEMMA MoveValidate ==
    ASSUME TypesInv, NEW c \in Clients, Validate(c)
    PROVE  /\ Moves(c)
           /\ \/ End(c)
              \/ /\ Valid(calls[c].file) /\ calls'[c].pc = "install"
                 /\ calls'[c].op = calls[c].op /\ calls'[c].op # "sync"
                 /\ ~calls'[c].rollback
                 /\ calls'[c].file = calls[c].file /\ calls'[c].file \in ProfileFile
                 /\ calls'[c].previous = profiles /\ calls'[c].known = registry
                 /\ calls'[c].old = calls[c].old /\ calls'[c].alone = calls[c].alone
<1> DEFINE next == [calls[c] EXCEPT !.pc = "install", !.known = registry,
                                    !.previous = profiles]
<1>0. /\ calls[c] \in CallState /\ CallInv(calls[c], registry) /\ calls[c].pc = "validate"
      /\ calls[c].file \in ProfileFile /\ calls[c].op # "sync" /\ ~calls[c].rollback
      /\ calls[c].at = 1 /\ calls[c].units = {}
      /\ profiles \in ProfileFile /\ registry \in 0..MaxBackends /\ registry \in 1..registry
  <2>1. calls[c] \in CallState /\ CallInv(calls[c], registry) /\ calls[c].pc = "validate"
    BY CallType DEF Validate
  <2>2. /\ calls[c].file \in ProfileFile /\ calls[c].op # "sync" /\ ~calls[c].rollback
        /\ calls[c].at = 1 /\ calls[c].units = {}
    BY <2>1 DEF CallInv
  <2>3. profiles \in ProfileFile /\ registry \in 0..MaxBackends /\ registry \in 1..registry
    BY Bounds DEF TypesInv, DataTypes, Backends
  <2>4. QED
    BY <2>1, <2>2, <2>3
<1>1. CASE ~Valid(calls[c].file)
  <2>1. End(c)
    BY <1>1 DEF Validate
  <2>2. QED
    BY <2>1, EndCall, IdleCall DEF TypesInv, CallTypes, Moves
<1>2. CASE Valid(calls[c].file)
  <2>1. Continue(c, next)
    BY <1>2 DEF Validate
  <2>2. next \in CallState
    BY <1>0 DEF CallState, PCs
  <2>3. /\ next.pc = "install" /\ next.op = calls[c].op /\ next.rollback = calls[c].rollback
        /\ next.file = calls[c].file /\ next.previous = profiles /\ next.known = registry
        /\ next.old = calls[c].old /\ next.alone = calls[c].alone /\ next.at = calls[c].at
        /\ next.units = calls[c].units
    BY <1>0 DEF CallState
  <2> HIDE DEF next
  <2>4. /\ calls' \in [Clients -> CallState] /\ calls'[c] = next
        /\ \A d \in Clients \ {c} : calls'[d] = calls[d]
    BY <2>1, <2>2, ContinueCall DEF TypesInv, CallTypes
  <2>5. CallInv(next, registry)
    <3>1. next # Idle
      BY <2>3 DEF Idle
    <3>2. QED
      BY <1>0, <2>3, <3>1 DEF CallInv, Late
  <2>6. QED
    BY <1>0, <1>2, <2>3, <2>4, <2>5 DEF Moves
<1>3. QED
  BY <1>1, <1>2

\* What the invariant says of a call past Apply's checks.
LEMMA LateCall ==
    ASSUME TypesInv, NEW c \in Clients, calls[c].pc \in Late
    PROVE  /\ calls[c] \in CallState /\ CallInv(calls[c], registry)
           /\ calls[c].file \in ProfileFile /\ Target(calls[c]) \in ProfileFile
           /\ calls[c].op # "sync" => calls[c].previous \in ProfileFile
           /\ calls[c].known \in 1..registry /\ calls[c].known \in Backends
           /\ calls[c].known \in Nat /\ calls[c].at \in Backends /\ calls[c].at \in Nat
           /\ registry \in Nat /\ registry <= MaxBackends
<1>1. calls[c] \in CallState /\ CallInv(calls[c], registry) /\ registry \in Backends
  BY CallType
<1>2. Target(calls[c]) \in ProfileFile
  BY TargetType
<1>3. /\ calls[c].known \in 1..registry /\ calls[c].file \in ProfileFile
      /\ calls[c].op # "sync" => calls[c].previous \in ProfileFile
  BY <1>1 DEF CallInv, Late
<1>4. registry \in Nat /\ registry <= MaxBackends /\ calls[c].at \in Backends
  BY <1>1, Bounds DEF Backends, CallState
<1>5. calls[c].known \in Backends /\ calls[c].known \in Nat /\ calls[c].at \in Nat
  BY <1>3, <1>4, Bounds DEF Backends
<1>6. QED
  BY <1>1, <1>2, <1>3, <1>4, <1>5

\* A step of Apply or Sync keeps what the call edits and changes its phase.
LEMMA MovePhase ==
    ASSUME TypesInv, NEW c \in Clients, calls[c].pc \in Late,
           NEW next \in CallState, Continue(c, next), Kept(next, calls[c]),
           next.pc \in {"sync", "putback", "restart", "ready", "restore"},
           next.pc = "sync" => next.at <= calls[c].known,
           calls[c].op = "sync" => next.pc \in {"sync", "restart", "ready"} /\ ~next.rollback,
           next.rollback => next.pc \in {"sync", "restart", "ready"}
    PROVE  Moves(c) /\ calls'[c] = next
<1>1. CallInv(next, registry)
  <2>1. /\ calls[c].known \in 1..registry /\ calls[c].file \in ProfileFile
        /\ calls[c].op # "sync" => calls[c].previous \in ProfileFile
    BY LateCall
  <2>2. next.pc # "idle" /\ next # Idle
    BY DEF Idle
  <2>3. QED
    BY <2>1, <2>2 DEF CallInv, Kept, Late
<1>2. /\ calls' \in [Clients -> CallState] /\ calls'[c] = next
      /\ \A d \in Clients \ {c} : calls'[d] = calls[d]
  BY ContinueCall DEF TypesInv, CallTypes
<1>3. QED
  BY <1>1, <1>2 DEF Moves

\* What Install changes: the profiles file.
LEMMA MoveInstall ==
    ASSUME TypesInv, NEW c \in Clients, Install(c)
    PROVE  /\ Moves(c) /\ Kept(calls'[c], calls[c])
           /\ calls'[c].pc = "sync" /\ calls'[c].at = 1 /\ calls'[c].units = {}
           /\ calls[c].op # "sync" /\ ~calls'[c].rollback
<1> DEFINE next == [calls[c] EXCEPT !.pc = "sync"]
<1>1. calls[c].pc = "install" /\ Continue(c, next)
  BY DEF Install
<1>2. /\ calls[c] \in CallState /\ calls[c].at = 1 /\ calls[c].units = {} /\ calls[c].op # "sync"
      /\ ~calls[c].rollback /\ calls[c].known \in 1..registry /\ registry \in Nat
  BY <1>1, CallType DEF CallInv, Late
<1>3. /\ next \in CallState /\ Kept(next, calls[c]) /\ next.pc = "sync"
      /\ next.at = 1 /\ next.units = {} /\ ~next.rollback
  BY <1>2 DEF CallState, PCs, Kept
<1> HIDE DEF next
<1>4. Moves(c) /\ calls'[c] = next
  BY <1>1, <1>2, <1>3, MovePhase DEF Late
<1>5. QED
  BY <1>2, <1>3, <1>4

\* The units a sync has found to change, with the backend it has come to.
UnitsAfter(c) ==
    IF /\ Arguments(Target(calls[c]), calls[c].at) = env[calls[c].at]
       /\ calls[c].at \notin fresh
    THEN calls[c].units ELSE calls[c].units \cup {calls[c].at}

\* The panel rewrites a file whose secrets change, and one of the helper's.
LEMMA TextKept ==
    ASSUME NEW b, NEW arguments
    PROVE  /\ upsertSecretArgs(Text(b), arguments).secrets = arguments
           /\ upsertSecretArgs(Text(b), arguments) = Text(b) <=>
                arguments = env[b] /\ b \notin fresh
<1>1. ASSUME NEW x, NEW y, NEW p \in BOOLEAN
      PROVE  [secrets |-> x, helper |-> FALSE] = [secrets |-> y, helper |-> p] <=>
               x = y /\ ~p
  <2>1. CASE p = TRUE
    BY <2>1
  <2>2. CASE p = FALSE
    BY <2>2
  <2>3. QED
    BY <2>1, <2>2
<1>2. (b \in fresh) \in BOOLEAN
  OBVIOUS
<1>3. QED
  BY <1>1, <1>2 DEF upsertSecretArgs, Text

\* What SyncBackend changes: one environment file.
LEMMA MoveSyncBackend ==
    ASSUME TypesInv, NEW c \in Clients, SyncBackend(c)
    PROVE  /\ Moves(c) /\ Kept(calls'[c], calls[c])
           /\ calls[c].pc = "sync" /\ calls[c].at \in 1..calls[c].known
           /\ env' = [env EXCEPT ![calls[c].at] = Arguments(Target(calls[c]), calls[c].at)]
           /\ fresh' = fresh \ {calls[c].at}
           /\ Arguments(Target(calls[c]), calls[c].at) \in SUBSET (0..MaxSecrets)
           /\ calls'[c].rollback = calls[c].rollback
           /\ \/ /\ calls[c].at = calls[c].known /\ calls'[c].pc = "restart"
                 /\ calls'[c].units = IF calls[c].op = "sync" THEN 1..calls[c].known
                                      ELSE UnitsAfter(c)
              \/ /\ calls[c].at < calls[c].known /\ calls'[c].pc = "sync"
                 /\ calls'[c].at = calls[c].at + 1 /\ calls'[c].units = UnitsAfter(c)
<1> DEFINE call == calls[c]
           b == call.at
           restart == IF call.op = "sync" THEN 1..call.known ELSE UnitsAfter(c)
           changed == IF call.rollback THEN call.changed ELSE restart
           finished == [call EXCEPT !.pc = "restart", !.at = 1, !.units = restart,
                                    !.changed = changed]
           going == [call EXCEPT !.at = b + 1, !.units = UnitsAfter(c)]
<1>0. /\ upsertSecretArgs(Text(b), Arguments(Target(call), b)).secrets
           = Arguments(Target(call), b)
      /\ UnitsAfter(c) = IF upsertSecretArgs(Text(b), Arguments(Target(call), b)) = Text(b)
                         THEN call.units ELSE call.units \cup {b}
  BY TextKept DEF UnitsAfter
<1>1. /\ call.pc = "sync"
      /\ env' = [env EXCEPT ![b] = Arguments(Target(call), b)]
      /\ fresh' = fresh \ {b}
      /\ Continue(c, IF b = call.known THEN finished ELSE going)
  BY <1>0 DEF SyncBackend
<1>2. /\ call \in CallState /\ CallInv(call, registry) /\ Target(call) \in ProfileFile
      /\ call.known \in 1..registry /\ call.known \in Nat /\ b \in Backends /\ b \in Nat
      /\ registry \in Nat /\ registry <= MaxBackends
  BY <1>1, LateCall DEF Late
<1>3. b <= call.known /\ (call.op = "sync" => ~call.rollback) /\ b \in 1..call.known
  BY <1>1, <1>2 DEF CallInv, Backends
<1>4. Arguments(Target(call), b) \in SUBSET (0..MaxSecrets)
  <2>1. Arguments(Target(call), b) \subseteq Keys(Target(call))
        /\ Keys(Target(call)) \subseteq 0..MaxSecrets
    BY <1>2, KeysOfFile
  <2>2. QED
    BY <2>1
<1>5. UnitsAfter(c) \in SUBSET Backends /\ 1..call.known \in SUBSET Backends
      /\ restart \in SUBSET Backends /\ changed \in SUBSET Backends
  <2>1. UnitsAfter(c) \in SUBSET Backends
    BY <1>2 DEF UnitsAfter, CallState
  <2>2. 1..call.known \in SUBSET Backends
    BY <1>2, Bounds DEF Backends
  <2>3. changed \in SUBSET Backends
    BY <1>2, <2>1, <2>2 DEF CallState
  <2>4. QED
    BY <2>1, <2>2, <2>3
<1> HIDE DEF restart, changed
<1>6. CASE b = call.known
  <2>1. /\ finished \in CallState /\ Kept(finished, call) /\ finished.pc = "restart"
        /\ finished.units = restart /\ finished.rollback = call.rollback
    BY <1>2, <1>5, Bounds DEF CallState, PCs, Kept
  <2>2. Continue(c, finished)
    BY <1>1, <1>6
  <2> HIDE DEF finished
  <2>3. Moves(c) /\ calls'[c] = finished
    BY <1>1, <1>3, <2>1, <2>2, MovePhase DEF Late
  <2>4. QED
    BY <1>1, <1>3, <1>4, <1>6, <2>1, <2>3 DEF restart
<1>7. CASE b # call.known
  <2>1. b + 1 \in Backends /\ b < call.known /\ b + 1 <= call.known
    BY <1>2, <1>3, <1>7, Bounds DEF Backends
  <2>2. /\ going \in CallState /\ Kept(going, call) /\ going.pc = "sync"
        /\ going.units = UnitsAfter(c) /\ going.rollback = call.rollback /\ going.at = b + 1
    BY <1>1, <1>2, <1>5, <2>1 DEF CallState, PCs, Kept
  <2>3. Continue(c, going)
    BY <1>1, <1>7
  <2> HIDE DEF going
  <2>4. Moves(c) /\ calls'[c] = going
    BY <1>1, <1>3, <2>1, <2>2, <2>3, MovePhase DEF Late
  <2>5. QED
    BY <1>1, <1>3, <1>4, <2>1, <2>2, <2>4
<1>8. QED
  BY <1>6, <1>7

\* What a failed write changes: the call goes on to PutBack, or ends.
LEMMA MoveSyncFails ==
    ASSUME TypesInv, NEW c \in Clients, SyncFails(c)
    PROVE  /\ calls[c].pc = "sync" /\ doubtful' = TRUE
           /\ faults' \in 0..MaxFaults
           /\ \/ End(c) /\ calls[c].op = "sync"
              \/ /\ Moves(c) /\ Kept(calls'[c], calls[c]) /\ calls[c].op # "sync"
                 /\ calls'[c].rollback = calls[c].rollback
                 /\ calls'[c].pc = IF calls[c].rollback THEN "restart" ELSE "putback"
<1> DEFINE call == calls[c]
           again == [call EXCEPT !.pc = "restart", !.at = 1, !.units = call.changed]
           back == [call EXCEPT !.pc = "putback"]
<1>1. /\ call.pc = "sync" /\ doubtful' = TRUE /\ faults' \in 0..MaxFaults
      /\ CASE call.op = "sync" -> End(c)
           [] call.rollback -> Continue(c, again)
           [] OTHER -> Continue(c, back)
  BY Bounds DEF SyncFails, Fault, Doubt, TypesInv, DataTypes
<1>2. call \in CallState /\ (call.op = "sync" => ~call.rollback)
  BY CallType DEF CallInv
<1>3. CASE call.op # "sync" /\ call.rollback
  <2>1. /\ again \in CallState /\ Kept(again, call) /\ again.pc = "restart"
        /\ again.rollback = call.rollback
    BY <1>2, Bounds DEF CallState, PCs, Kept
  <2>2. Continue(c, again)
    BY <1>1, <1>3
  <2> HIDE DEF again
  <2>3. QED
    BY <1>1, <1>3, <2>1, <2>2, MovePhase DEF Late
<1>4. CASE call.op # "sync" /\ ~call.rollback
  <2>1. /\ back \in CallState /\ Kept(back, call) /\ back.pc = "putback"
        /\ back.rollback = call.rollback
    BY <1>2, <1>4 DEF CallState, PCs, Kept
  <2>2. Continue(c, back)
    BY <1>1, <1>4
  <2> HIDE DEF back
  <2>3. QED
    BY <1>1, <1>4, <2>1, <2>2, MovePhase DEF Late
<1>5. CASE call.op = "sync"
  <2>1. End(c)
    BY <1>1, <1>2, <1>5
  <2>2. QED
    BY <1>1, <1>5, <2>1
<1>6. QED
  BY <1>3, <1>4, <1>5

\* What RestartUnit changes: what one backend has loaded.
LEMMA MoveRestartUnit ==
    ASSUME TypesInv, NEW c \in Clients, RestartUnit(c)
    PROVE  /\ Moves(c) /\ Kept(calls'[c], calls[c])
           /\ calls[c].pc = "restart" /\ calls'[c].pc = "restart"
           /\ calls'[c].rollback = calls[c].rollback
           /\ First(calls[c].units) \in calls[c].units /\ calls[c].units \subseteq Backends
           /\ running' = [running EXCEPT ![First(calls[c].units)] =
                            Loaded(env[First(calls[c].units)])]
           /\ calls'[c].units = calls[c].units \ {First(calls[c].units)}
<1> DEFINE call == calls[c]
           b == First(call.units)
           next == [call EXCEPT !.units = call.units \ {b}]
<1>1. /\ call.pc = "restart" /\ call.units # {} /\ Continue(c, next)
      /\ running' = [running EXCEPT ![b] = Loaded(env[b])]
  BY DEF RestartUnit
<1>2. /\ call \in CallState /\ call.units \subseteq Backends
      /\ (call.op = "sync" => ~call.rollback)
  BY CallType DEF CallInv, CallState
<1>3. b \in call.units
  BY <1>1, <1>2, FirstIsIn
<1> HIDE DEF b
<1>4. /\ next \in CallState /\ Kept(next, call) /\ next.pc = "restart"
      /\ next.units = call.units \ {b} /\ next.rollback = call.rollback
  BY <1>1, <1>2 DEF CallState, Kept
<1> HIDE DEF next
<1>5. Moves(c) /\ calls'[c] = next
  BY <1>1, <1>2, <1>4, MovePhase DEF Late
<1>6. QED
  BY <1>1, <1>2, <1>3, <1>4, <1>5 DEF b

\* What RestartRelay changes: what the relay has loaded.
LEMMA MoveRestartRelay ==
    ASSUME TypesInv, NEW c \in Clients, RestartRelay(c)
    PROVE  /\ Moves(c) /\ Kept(calls'[c], calls[c])
           /\ calls[c].pc = "restart" /\ calls[c].units = {} /\ calls'[c].pc = "ready"
           /\ calls'[c].units = {} /\ calls'[c].rollback = calls[c].rollback
<1> DEFINE call == calls[c]
           next == [call EXCEPT !.pc = "ready"]
<1>1. call.pc = "restart" /\ call.units = {} /\ Continue(c, next)
  BY DEF RestartRelay
<1>2. call \in CallState /\ (call.op = "sync" => ~call.rollback)
  BY CallType DEF CallInv
<1>3. /\ next \in CallState /\ Kept(next, call) /\ next.pc = "ready"
      /\ next.units = call.units /\ next.rollback = call.rollback
  BY <1>2 DEF CallState, PCs, Kept
<1> HIDE DEF next
<1>4. Moves(c) /\ calls'[c] = next
  BY <1>1, <1>2, <1>3, MovePhase DEF Late
<1>5. QED
  BY <1>1, <1>3, <1>4

\* What a failed restart changes: the call turns back, or ends.
LEMMA MoveStackFailed ==
    ASSUME TypesInv, NEW c \in Clients, StackFailed(c), calls[c].pc \in {"restart", "ready"}
    PROVE  \/ End(c) /\ doubtful' = TRUE /\ UNCHANGED << overlapped, retired >>
           \/ /\ Moves(c) /\ Kept(calls'[c], calls[c]) /\ calls'[c].pc = "restore"
              /\ calls[c].op # "sync" /\ ~calls[c].rollback
              /\ UNCHANGED history
<1> DEFINE call == calls[c]
           next == [call EXCEPT !.pc = "restore"]
<1>1. CASE call.rollback \/ call.op = "sync"
  BY <1>1 DEF StackFailed, Doubt
<1>2. CASE ~call.rollback /\ call.op # "sync"
  <2>1. Continue(c, next) /\ UNCHANGED history
    BY <1>2 DEF StackFailed
  <2>2. call \in CallState
    BY CallType
  <2>3. /\ next \in CallState /\ Kept(next, call) /\ next.pc = "restore"
        /\ next.rollback = call.rollback
    BY <2>2 DEF CallState, PCs, Kept
  <2> HIDE DEF next
  <2>4. Moves(c) /\ calls'[c] = next
    BY <1>2, <2>1, <2>3, MovePhase DEF Late
  <2>5. QED
    BY <1>2, <2>1, <2>3, <2>4
<1>3. QED
  BY <1>1, <1>2

\* What Restore changes: the profiles file, put back.
LEMMA MoveRestore ==
    ASSUME TypesInv, NEW c \in Clients, Restore(c)
    PROVE  /\ Moves(c) /\ Kept(calls'[c], calls[c])
           /\ calls[c].pc = "restore" /\ calls'[c].pc = "sync" /\ calls[c].op # "sync"
           /\ calls'[c].rollback = TRUE /\ calls'[c].at = 1 /\ calls'[c].units = {}
           /\ calls[c].previous \in ProfileFile /\ ~calls[c].rollback
<1> DEFINE call == calls[c]
           next == [call EXCEPT !.pc = "sync", !.rollback = TRUE, !.at = 1, !.units = {}]
<1>1. call.pc = "restore" /\ Continue(c, next)
  BY DEF Restore
<1>2. /\ call \in CallState /\ call.op # "sync" /\ call.previous \in ProfileFile
      /\ call.known \in 1..registry /\ registry \in Nat /\ ~call.rollback
  BY <1>1, CallType DEF CallInv, Late
<1>3. /\ next \in CallState /\ Kept(next, call) /\ next.pc = "sync"
      /\ next.rollback = TRUE /\ next.at = 1 /\ next.units = {}
  BY <1>2, Bounds DEF CallState, PCs, Kept
<1> HIDE DEF next
<1>4. Moves(c) /\ calls'[c] = next
  BY <1>1, <1>2, <1>3, MovePhase DEF Late
<1>5. QED
  BY <1>1, <1>2, <1>3, <1>4

\* A failed restart leaves one service down; a slow start leaves them as they are.
LEMMA MoveFailed ==
    ASSUME TypesInv, NEW c \in Clients, RestartFails(c) \/ NotReady(c)
    PROVE  /\ StackFailed(c) /\ calls[c].pc \in {"restart", "ready"}
           /\ faults' \in 0..MaxFaults
           /\ UNCHANGED << files, minted, begun >>
           /\ \/ UNCHANGED services
              \/ /\ relay' = None /\ UNCHANGED running
                 /\ calls[c].pc = "restart" /\ calls[c].units = {}
              \/ /\ UNCHANGED relay /\ calls[c].pc = "restart"
                 /\ First(calls[c].units) \in calls[c].units /\ calls[c].units \subseteq Backends
                 /\ running' = [running EXCEPT ![First(calls[c].units)] = None]
<1>1. calls[c].units \subseteq Backends
  BY CallType DEF CallState
<1>2. CASE RestartFails(c)
  <2>1. /\ StackFailed(c) /\ calls[c].pc = "restart" /\ faults' \in 0..MaxFaults
        /\ UNCHANGED << files, minted, begun >>
    BY <1>2, Bounds DEF RestartFails, Fault, TypesInv, DataTypes
  <2>2. CASE calls[c].units = {}
    BY <1>2, <2>1, <2>2 DEF RestartFails
  <2>3. CASE calls[c].units # {}
    <3>1. First(calls[c].units) \in calls[c].units
      BY <1>1, <2>3, FirstIsIn
    <3>2. QED
      BY <1>1, <1>2, <2>1, <2>3, <3>1 DEF RestartFails
  <2>4. QED
    BY <2>2, <2>3
<1>3. CASE NotReady(c)
  BY <1>3, Bounds DEF NotReady, Fault, NoFault, TypesInv, DataTypes
<1>4. QED
  BY <1>2, <1>3

\* Every profile of a file is on one of the first k backends.
Placed(file, k) == \A n \in DOMAIN file : file[n].backend \in 1..k

\* Profiles are on registered backends: those of an import on the ones it knows.
PlacedInv ==
    /\ Placed(profiles, registry)
    /\ \A c \in Clients :
         /\ calls[c].pc \in Late => Placed(calls[c].file, registry)
         /\ calls[c].pc \in Late /\ calls[c].op # "sync" => Placed(calls[c].previous, registry)
         /\ calls[c].pc = "assign" =>
              calls[c].known \in 1..registry /\ Placed(calls[c].file, calls[c].known)

\* A backend that has just been provisioned has room.
LEMMA RoomAfterProvisioning ==
    ASSUME TypesInv, PlacedInv, NEW c \in Clients, ProvisionBackend(c)
    PROVE  LET room == WithRoom(registry + 1, calls[c].file)
           IN  First(room) \in room /\ room \subseteq Backends /\ room \subseteq 1..registry + 1
<1> DEFINE room == WithRoom(registry + 1, calls[c].file)
<1>1. /\ registry \in Nat /\ registry < MaxBackends /\ calls[c].pc = "assign"
      /\ calls[c].known \in 1..registry /\ Placed(calls[c].file, calls[c].known)
  BY CallType DEF ProvisionBackend, Provision, PlacedInv
<1>2. OnBackend(calls[c].file, registry + 1) = {}
  BY <1>1 DEF OnBackend, Placed
<1>3. Cardinality(OnBackend(calls[c].file, registry + 1)) = 0
  BY <1>2, FS_EmptySet
<1>4. registry + 1 \in room
  BY <1>1, <1>3, Bounds DEF WithRoom
<1>5. room \subseteq Backends /\ room \subseteq 1..registry + 1
  BY <1>1, Bounds DEF WithRoom, Backends
<1>6. First(room) \in room
  BY <1>4, <1>5, FirstIsIn
<1>7. QED
  BY <1>5, <1>6

\* A placed profile keeps the call within its bounds.
LEMMA AssignBounds ==
    ASSUME TypesInv, NEW c \in Clients, NEW known \in 0..MaxBackends, NEW b \in Backends,
           calls[c].pc = "assign", Assign(c, known, b), NEW r
    PROVE  /\ Continue(c, calls'[c]) /\ calls'[c] \in CallState
           /\ CallInv(calls'[c], r) /\ minted' \in 0..MaxSecrets
<1>1. /\ Continue(c, calls'[c]) /\ calls'[c] \in CallState /\ minted' \in 0..MaxSecrets
      /\ calls'[c].pc \in {"assign", "validate"} /\ calls'[c].op # "sync"
      /\ ~calls'[c].rollback
      /\ calls'[c].pc = "assign" => calls'[c].todo # << >>
      /\ calls'[c].file \in ProfileFile /\ calls'[c].at = 1 /\ calls'[c].units = {}
  BY AssignCall
<1>2. calls'[c] # Idle
  BY <1>1 DEF Idle
<1>3. CallInv(calls'[c], r)
  BY <1>1, <1>2 DEF CallInv, Late
<1>4. QED
  BY <1>1, <1>3

\* The steps of AddKeys' loop.
LEMMA AssignStepTypes ==
    ASSUME TypesInv, PlacedInv, NEW c \in Clients, ChooseBackend(c) \/ ProvisionBackend(c)
    PROVE  TypesInv'
<1>0. /\ calls[c] \in CallState /\ calls[c].pc = "assign"
      /\ calls[c].known \in 0..MaxBackends /\ calls[c].known \in Nat
      /\ registry \in Backends /\ registry \in Nat
  BY CallType, Bounds DEF CallState, ChooseBackend, ProvisionBackend
<1>1. CASE ChooseBackend(c)
  <2> DEFINE room == WithRoom(calls[c].known, calls[c].file)
             b == First(room)
  <2>1. room # {} /\ Assign(c, calls[c].known, b)
        /\ UNCHANGED << files, services, begun, faults, history >>
    BY <1>1 DEF ChooseBackend
  <2>2. room \subseteq Backends
    BY <1>0, Bounds DEF WithRoom, Backends
  <2>3. b \in Backends
    BY <2>1, <2>2, FirstIsIn
  <2> HIDE DEF room, b
  <2>4. /\ Continue(c, calls'[c]) /\ calls'[c] \in CallState /\ minted' \in 0..MaxSecrets
        /\ CallInv(calls'[c], registry')
    BY <1>0, <2>1, <2>3, AssignBounds
  <2>5. CallTypes'
    BY <1>0, <2>1, <2>4, ContinueTypes DEF files
  <2>6. QED
    BY <2>1, <2>4, <2>5 DEF TypesInv, DataTypes, files, services, history
<1>2. CASE ProvisionBackend(c)
  <2> DEFINE room == WithRoom(registry + 1, calls[c].file)
             b == First(room)
  <2>1. /\ registry < MaxBackends /\ registry' = registry + 1
        /\ registry + 1 \in Backends /\ registry + 1 \in 0..MaxBackends
        /\ Assign(c, registry + 1, b)
        /\ running' = [running EXCEPT ![registry + 1] = env[registry + 1]]
        /\ fresh' = fresh \cup {registry + 1}
        /\ UNCHANGED << profiles, leftover, env, relay, begun, faults, history >>
    BY <1>0, <1>2, Bounds DEF ProvisionBackend, Provision, Backends
  <2>2. b \in Backends
    BY <1>0, <1>2, RoomAfterProvisioning
  <2> HIDE DEF room, b
  <2>4. /\ Continue(c, calls'[c]) /\ calls'[c] \in CallState /\ minted' \in 0..MaxSecrets
        /\ CallInv(calls'[c], registry')
    BY <1>0, <2>1, <2>2, AssignBounds
  <2>5. CallTypes'
    BY <1>0, <2>1, <2>4, ContinueTypes
  <2>6. env[registry + 1] \in SUBSET (0..MaxSecrets)
    BY <2>1 DEF TypesInv, DataTypes
  <2>7. running' \in [Backends -> (SUBSET (0..MaxSecrets)) \cup {None}]
    BY <2>1, <2>6 DEF TypesInv, DataTypes
  <2>8. fresh' \subseteq 1..registry'
    BY <1>0, <2>1 DEF TypesInv, DataTypes
  <2>9. QED
    BY <2>1, <2>4, <2>5, <2>7, <2>8 DEF TypesInv, DataTypes, history
<1>3. QED
  BY <1>1, <1>2

\* The steps of Apply and Sync.
LEMMA ApplyStepTypes ==
    ASSUME TypesInv, NEW c \in Clients,
           \/ Validate(c) \/ Install(c) \/ SyncBackend(c) \/ SyncFails(c) \/ RestartUnit(c)
           \/ RestartRelay(c) \/ RestartFails(c) \/ NotReady(c) \/ Restore(c)
    PROVE  TypesInv'
<1>1. UNCHANGED << registry, minted, begun >> /\ leftover' \in BOOLEAN
  BY MoveFailed DEF TypesInv, DataTypes, Validate, Install, SyncBackend, SyncFails,
     RestartUnit, RestartRelay, Restore, files
<1>2. CallTypes'
  <2>1. CASE Validate(c)
    BY <1>1, <2>1, MoveValidate, MovesTypes DEF Moves
  <2>2. CASE Install(c)
    BY <1>1, <2>2, MoveInstall, MovesTypes
  <2>3. CASE SyncBackend(c)
    BY <1>1, <2>3, MoveSyncBackend, MovesTypes
  <2>4. CASE SyncFails(c)
    BY <1>1, <2>4, MoveSyncFails, MovesTypes, EndTypes
  <2>5. CASE RestartUnit(c)
    BY <1>1, <2>5, MoveRestartUnit, MovesTypes
  <2>6. CASE RestartRelay(c)
    BY <1>1, <2>6, MoveRestartRelay, MovesTypes
  <2>7. CASE RestartFails(c) \/ NotReady(c)
    BY <1>1, <2>7, MoveFailed, MoveStackFailed, MovesTypes, EndTypes
  <2>8. CASE Restore(c)
    BY <1>1, <2>8, MoveRestore, MovesTypes
  <2>9. QED
    BY <2>1, <2>2, <2>3, <2>4, <2>5, <2>6, <2>7, <2>8
<1>3. faults' \in 0..MaxFaults
  <2>1. CASE RestartFails(c) \/ NotReady(c)
    BY <2>1, MoveFailed
  <2>2. CASE Restore(c)
    BY <2>2, Bounds DEF TypesInv, DataTypes, Restore, Restored, Fault, NoFault
  <2>3. CASE SyncFails(c)
    BY <2>3, MoveSyncFails
  <2>4. QED
    BY <2>1, <2>2, <2>3 DEF TypesInv, DataTypes, Validate, Install, SyncBackend,
       RestartUnit, RestartRelay
<1>4. /\ doubtful' \in BOOLEAN /\ overlapped' \in BOOLEAN /\ retired' \subseteq 0..MaxSecrets
  <2>1. CASE RestartFails(c) \/ NotReady(c)
    BY <2>1, MoveFailed, MoveStackFailed DEF TypesInv, DataTypes, history
  <2>2. QED
    BY <2>1 DEF TypesInv, DataTypes, Validate, Install, SyncBackend, SyncFails, Restore,
       Restored, RestartUnit, RestartRelay, Doubt, history
<1>5. profiles' \in ProfileFile
  <2>1. CASE Install(c)
    <3>1. calls[c].file \in ProfileFile
      BY <2>1, LateCall DEF Install, Late
    <3>2. QED
      BY <2>1, <3>1 DEF Install
  <2>2. CASE Restore(c)
    BY <2>2, MoveRestore DEF Restore, Restored, TypesInv, DataTypes
  <2>3. QED
    BY <2>1, <2>2, MoveFailed DEF TypesInv, DataTypes, Validate, SyncBackend, SyncFails,
       RestartUnit, RestartRelay, files
<1>6. env' \in [Backends -> SUBSET (0..MaxSecrets)]
  <2>1. CASE SyncBackend(c)
    BY <2>1, MoveSyncBackend DEF TypesInv, DataTypes
  <2>2. QED
    BY <2>1, MoveFailed DEF TypesInv, DataTypes, Validate, Install, SyncFails,
       RestartUnit, RestartRelay, Restore, files
<1>7. running' \in [Backends -> (SUBSET (0..MaxSecrets)) \cup {None}]
      /\ (relay' = None \/ relay' \in ProfileFile)
  <2>1. CASE RestartUnit(c)
    <3>1. First(calls[c].units) \in Backends
      BY <2>1, MoveRestartUnit
    <3>2. Loaded(env[First(calls[c].units)]) \in (SUBSET (0..MaxSecrets)) \cup {None}
      BY <3>1, LoadedType DEF TypesInv, DataTypes
    <3>3. QED
      BY <2>1, <3>1, <3>2, MoveRestartUnit DEF TypesInv, DataTypes, RestartUnit
  <2>2. CASE RestartRelay(c)
    BY <2>2 DEF TypesInv, DataTypes, RestartRelay
  <2>3. CASE RestartFails(c) \/ NotReady(c)
    BY <2>3, MoveFailed DEF TypesInv, DataTypes, services
  <2>4. QED
    BY <2>1, <2>2, <2>3 DEF TypesInv, DataTypes, Validate, Install, SyncBackend, SyncFails,
       Restore, services
<1>8. fresh' \subseteq 1..registry'
  <2>1. fresh' \subseteq fresh
    BY MoveFailed DEF Validate, Install, SyncBackend, SyncFails, RestartUnit, RestartRelay,
       Restore, files
  <2>2. QED
    BY <1>1, <2>1 DEF TypesInv, DataTypes
<1>9. QED
  BY <1>1, <1>2, <1>3, <1>4, <1>5, <1>6, <1>7, <1>8 DEF TypesInv, DataTypes

\* The steps of the host, of its service manager and of its administrator.
LEMMA HostStepTypes ==
    ASSUME TypesInv,
           \/ Reboot \/ (\E b \in Backends : UnitRestarts(b)) \/ RelayRestarts
           \/ ProvisionByHand
    PROVE  TypesInv'
<1>1. CASE Reboot
  <2>1. CallTypes'
    BY <1>1, IdleCall DEF Reboot, CallTypes
  <2>2. running' \in [Backends -> (SUBSET (0..MaxSecrets)) \cup {None}]
    <3>1. \A b \in Backends : Loaded(env[b]) \in (SUBSET (0..MaxSecrets)) \cup {None}
      BY LoadedType DEF TypesInv, DataTypes
    <3>2. QED
      BY <1>1, <3>1 DEF Reboot
  <2>3. faults' \in 0..MaxFaults /\ doubtful' \in BOOLEAN
    BY <1>1, Bounds DEF Reboot, Fault, TypesInv, DataTypes
  <2>4. QED
    BY <1>1, <2>1, <2>2, <2>3 DEF Reboot, TypesInv, DataTypes, files
<1>2. ASSUME NEW b \in Backends, UnitRestarts(b)
      PROVE  TypesInv'
  <2>1. Loaded(env[b]) \in (SUBSET (0..MaxSecrets)) \cup {None}
    BY LoadedType DEF TypesInv, DataTypes
  <2>2. running' \in [Backends -> (SUBSET (0..MaxSecrets)) \cup {None}]
    BY <1>2, <2>1 DEF UnitRestarts, TypesInv, DataTypes
  <2>3. QED
    BY <1>2, <2>2 DEF UnitRestarts, TypesInv, DataTypes, CallTypes, files, history
<1>3. CASE RelayRestarts
  BY <1>3 DEF RelayRestarts, TypesInv, DataTypes, CallTypes, files, history
<1>4. CASE ProvisionByHand
  <2>1. /\ registry < MaxBackends /\ registry' = registry + 1
        /\ running' = [running EXCEPT ![registry + 1] = env[registry + 1]]
        /\ fresh' = fresh \cup {registry + 1}
        /\ UNCHANGED << profiles, leftover, env, relay, minted, calls, begun, faults, history >>
    BY <1>4 DEF ProvisionByHand, Provision
  <2>2. registry \in Nat /\ registry' \in Backends /\ registry <= registry'
    BY <2>1, Bounds DEF TypesInv, DataTypes, Backends
  <2>3. \A c \in Clients : CallInv(calls[c], registry')
    <3>1. ASSUME NEW c \in Clients
          PROVE  CallInv(calls[c], registry')
      <4>1. calls[c] \in CallState /\ CallInv(calls[c], registry)
        BY DEF TypesInv, CallTypes
      <4>2. calls[c].known \in Nat /\ registry' \in Nat
        BY <2>1, <2>2, <4>1, Bounds DEF CallState
      <4>3. Same(calls[c], calls[c]) /\ (calls[c].pc = "idle" => calls[c] = Idle)
        BY <4>1 DEF Same, CallInv
      <4>4. QED
        BY <2>2, <4>1, <4>2, <4>3, CallInvKept
    <3>2. QED
      BY <3>1
  <2>4. CallTypes'
    BY <2>1, <2>3 DEF TypesInv, CallTypes
  <2>5. running' \in [Backends -> (SUBSET (0..MaxSecrets)) \cup {None}]
    BY <2>1, <2>2 DEF TypesInv, DataTypes
  <2>6. fresh' \subseteq 1..registry'
    BY <2>1, <2>2 DEF TypesInv, DataTypes
  <2>7. QED
    BY <2>1, <2>2, <2>4, <2>5, <2>6 DEF TypesInv, DataTypes, history
<1>5. QED
  BY <1>1, <1>2, <1>3, <1>4

--------------------------------------------------------------------------------
(* The steps by what they do to the files of profiles and the calls.       *)

Others(c) == \A d \in Clients \ {c} : calls'[d] = calls[d]

\* What a new call edits.
StartsWith(call) ==
    \/ /\ call.pc = "assign" /\ call.op = "add" /\ call.file = profiles
       /\ call.known = registry /\ call.old = {} /\ UNCHANGED minted
    \/ /\ call.pc = "sync" /\ call.op = "sync" /\ call.file = profiles
       /\ call.known = registry /\ call.old = {} /\ UNCHANGED minted
    \/ /\ call.pc = "validate" /\ call.op = "revoke" /\ UNCHANGED minted
       /\ \E name \in DOMAIN profiles :
            /\ call.file \in ProfileFile /\ DOMAIN call.file = DOMAIN profiles \ {name}
            /\ \A n \in DOMAIN call.file : call.file[n] = profiles[n]
            /\ call.old = {profiles[name].secret.key}
    \/ /\ call.pc = "validate" /\ call.op = "rotate" /\ minted' = minted + 1
       /\ \E name \in DOMAIN profiles :
            /\ call.file \in ProfileFile /\ DOMAIN call.file = DOMAIN profiles
            /\ call.file[name].secret.key = minted + 1
            /\ call.file[name].backend = profiles[name].backend
            /\ \A n \in DOMAIN profiles \ {name} : call.file[n] = profiles[n]
            /\ call.old = {profiles[name].secret.key}

Starts(c) ==
    LET meets == \E d \in Clients : calls[d] # Idle
    IN  /\ calls[c] = Idle /\ StartsWith(calls'[c])
        /\ calls'[c].previous = << >> /\ calls'[c].units = {} /\ calls'[c].at = 1
        /\ ~calls'[c].rollback
        /\ calls'[c].alone = ~meets
        /\ overlapped' = (overlapped \/ meets) /\ doubtful' = (doubtful \/ meets)
        /\ \A d \in Clients \ {c} : Same(calls'[d], calls[d]) /\ ~calls'[d].alone
        /\ UNCHANGED << files, services, retired >>

\* A backend is provisioned.
Added ==
    /\ registry' = registry + 1
    /\ running' = [running EXCEPT ![registry + 1] = env[registry + 1]]
    /\ fresh' = fresh \cup {registry + 1}

\* A key of an import gets a secret, on a backend with room.
Assigns(c) ==
    LET call == calls'[c]
        name == Head(calls[c].todo)
    IN  /\ calls[c].pc = "assign" /\ call.pc \in {"assign", "validate"}
        /\ call.op = calls[c].op /\ call.op # "sync"
        /\ call.file \in ProfileFile /\ DOMAIN call.file = DOMAIN calls[c].file \cup {name}
        /\ call.file[name].secret.key = minted + 1
        /\ call.file[name].backend \in 1..call.known
        /\ \A n \in DOMAIN calls[c].file \ {name} : call.file[n] = calls[c].file[n]
        /\ call.known \in 1..registry' /\ calls[c].known <= call.known
        /\ call.previous = calls[c].previous /\ call.old = calls[c].old
        /\ call.alone = calls[c].alone
        /\ minted' = minted + 1
        /\ UNCHANGED << registry, fresh, running >> \/ Added
        /\ Others(c)
        /\ UNCHANGED << profiles, env, relay, history >>

\* Apply accepts a candidate.
Validates(c) ==
    LET call == calls'[c]
    IN  /\ calls[c].pc = "validate" /\ Valid(calls[c].file) /\ call.pc = "install"
        /\ call.op = calls[c].op /\ call.op # "sync" /\ ~call.rollback
        /\ call.file = calls[c].file /\ call.previous = profiles /\ call.known = registry
        /\ call.old = calls[c].old /\ call.alone = calls[c].alone
        /\ Others(c)
        /\ UNCHANGED << files, services, minted, history >>

\* Apply, its rollback or Sync goes on.
Works(c) ==
    LET call == calls'[c]
    IN  /\ Kept(call, calls[c]) /\ calls[c].pc \in Late /\ call.pc \in Late
        /\ Others(c)
        /\ UNCHANGED << registry, minted, overlapped, retired >>
        /\ \/ UNCHANGED << env, fresh >>
           \/ /\ calls[c].pc = "sync"
              /\ env' = [env EXCEPT ![calls[c].at] = Arguments(Target(calls[c]), calls[c].at)]
              /\ fresh' = fresh \ {calls[c].at}
        /\ \/ /\ calls[c].pc = "install" /\ call.pc = "sync" /\ calls[c].op # "sync"
              /\ ~call.rollback /\ profiles' = calls[c].file /\ UNCHANGED relay
           \/ /\ calls[c].pc = "restore" /\ call.pc = "sync" /\ calls[c].op # "sync"
              /\ call.rollback /\ UNCHANGED relay
              /\ profiles' = profiles \/ profiles' = calls[c].previous
           \/ /\ UNCHANGED profiles
              /\ relay' = relay \/ relay' = None \/ relay' = profiles
              /\ call.pc = "ready" => relay' = profiles
              /\ call.pc \in {"sync", "restart", "ready"} /\ ~call.rollback =>
                   calls[c].pc \in {"sync", "restart", "ready"} /\ ~calls[c].rollback

\* A call is over.
Ends(c) ==
    LET call == calls[c]
    IN  /\ call.pc # "idle" /\ End(c)
        /\ UNCHANGED << registry, env, fresh, minted, overlapped >>
        /\ \/ UNCHANGED profiles
           \/ call.pc = "putback" /\ call.op # "sync" /\ profiles' = call.previous
        /\ relay' = relay \/ relay' = None
        /\ \/ UNCHANGED retired
           \/ /\ call.pc = "ready" /\ call.op # "sync" /\ ~call.rollback
              /\ retired' = retired \cup call.old
              /\ UNCHANGED << profiles, relay >>

\* A service restarts on its own, or the host does.
Hosts ==
    /\ UNCHANGED << files, minted, overlapped, retired >>
    /\ relay' = relay \/ relay' = profiles
    /\ \/ UNCHANGED << calls, doubtful >>
       \/ /\ calls' = [c \in Clients |-> Idle] /\ relay' = profiles
          /\ doubtful' = (doubtful \/ \E c \in Clients : Halfway(calls[c]))

\* A backend is provisioned by hand.
Grows ==
    /\ Added
    /\ UNCHANGED << profiles, env, relay, minted, calls, history >>

\* The four operations start a call.
LEMMA StartShape ==
    ASSUME TypesInv, NEW c \in Clients,
           \/ \E batch \in Imports : AddKeys(c, batch)
           \/ \E name \in Names : RevokeKey(c, name) \/ RotateKey(c, name)
           \/ Sync(c)
    PROVE  Starts(c)
<1> DEFINE meets == \E d \in Clients : calls[d] # Idle
<1>0. /\ Idle \in CallState /\ profiles \in ProfileFile /\ registry \in Backends
      /\ minted \in 0..MaxSecrets /\ registry \in Nat /\ registry \in 0..MaxBackends
      /\ calls \in [Clients -> CallState]
  BY IdleCall, Bounds DEF TypesInv, DataTypes, CallTypes, Backends
<1>1. ASSUME NEW call \in CallState, Begin(c, call), StartsWith(call),
             call.previous = << >>, call.units = {}, call.at = 1, ~call.rollback
      PROVE  Starts(c)
  <2>1. /\ calls[c] = Idle /\ Same(calls'[c], call)
        /\ calls'[c].alone = ~meets
        /\ \A d \in Clients \ {c} : Same(calls'[d], calls[d]) /\ ~calls'[d].alone
    BY <1>0, <1>1, BeginCall
  <2>2. /\ overlapped' = (overlapped \/ meets) /\ doubtful' = (doubtful \/ meets)
        /\ UNCHANGED << files, services, retired >>
    BY <1>1 DEF Begin
  <2> HIDE DEF meets
  <2>3. StartsWith(calls'[c])
    BY <1>1, <2>1 DEF StartsWith, Same
  <2>4. /\ calls'[c].previous = << >> /\ calls'[c].units = {} /\ calls'[c].at = 1
        /\ ~calls'[c].rollback
    BY <1>1, <2>1 DEF Same
  <2>5. QED
    BY <2>1, <2>2, <2>3, <2>4 DEF Starts, meets
<1>2. ASSUME NEW batch \in Imports, AddKeys(c, batch)
      PROVE  Starts(c)
  <2> DEFINE call == [Idle EXCEPT !.pc = "assign", !.op = "add",
                        !.todo = batch, !.file = profiles, !.known = registry]
  <2>1. batch \in Seq(Names)
    BY KeysPanelAssumption
  <2>2. call \in CallState
    BY <1>0, <2>1 DEF CallState, PCs
  <2>3. Begin(c, call) /\ UNCHANGED minted
    BY <1>2 DEF AddKeys
  <2>4. StartsWith(call) /\ call.previous = << >> /\ call.units = {} /\ call.at = 1
        /\ ~call.rollback
    BY <2>3 DEF StartsWith, Idle
  <2> HIDE DEF call
  <2>5. QED
    BY <1>1, <2>2, <2>3, <2>4
<1>3. ASSUME NEW name \in Names, RevokeKey(c, name)
      PROVE  Starts(c)
  <2> DEFINE left == [n \in DOMAIN profiles \ {name} |-> profiles[n]]
             old == {backendSecret(profiles[name].secret)}
             call == [Idle EXCEPT !.pc = "validate", !.op = "revoke",
                        !.file = left, !.old = old]
  <2>1. name \in DOMAIN profiles /\ Begin(c, call) /\ UNCHANGED minted
    BY <1>3 DEF RevokeKey
  <2>2. /\ left \in ProfileFile /\ DOMAIN left = DOMAIN profiles \ {name}
        /\ \A n \in DOMAIN left : left[n] = profiles[n]
    BY <1>0, FileRevoked
  <2>3. old = {profiles[name].secret.key} /\ old \subseteq 0..MaxSecrets
    BY <1>0, <2>1, FileType DEF backendSecret
  <2> HIDE DEF left, old
  <2>4. call \in CallState
    BY <1>0, <2>2, <2>3 DEF CallState, PCs
  <2>5. /\ call.pc = "validate" /\ call.op = "revoke" /\ call.file = left /\ call.old = old
        /\ call.previous = << >> /\ call.units = {} /\ call.at = 1 /\ ~call.rollback
    BY DEF Idle
  <2> HIDE DEF call
  <2>6. StartsWith(call)
    BY <2>1, <2>2, <2>3, <2>5 DEF StartsWith
  <2>7. QED
    BY <1>1, <2>1, <2>4, <2>5, <2>6
<1>4. ASSUME NEW name \in Names, RotateKey(c, name)
      PROVE  Starts(c)
  <2> DEFINE rotated == [profiles EXCEPT ![name].secret = NewSecret]
             old == {backendSecret(profiles[name].secret)}
             call == [Idle EXCEPT !.pc = "validate", !.op = "rotate",
                        !.file = rotated, !.old = old]
  <2>1. /\ name \in DOMAIN profiles /\ Begin(c, call) /\ minted' = minted + 1
        /\ minted < MaxSecrets
    BY <1>4 DEF RotateKey
  <2>2. /\ rotated \in ProfileFile /\ DOMAIN rotated = DOMAIN profiles
        /\ rotated[name].secret.key = minted + 1
        /\ rotated[name].backend = profiles[name].backend
        /\ \A n \in DOMAIN profiles \ {name} : rotated[n] = profiles[n]
    <3>1. NewSecret \in Secret /\ NewSecret.key = minted + 1
      BY <1>0, <2>1, SecretIsNew
    <3>2. QED
      BY <1>0, <2>1, <3>1, FileRotated
  <2>3. old = {profiles[name].secret.key} /\ old \subseteq 0..MaxSecrets
    BY <1>0, <2>1, FileType DEF backendSecret
  <2> HIDE DEF rotated, old
  <2>4. call \in CallState
    BY <1>0, <2>2, <2>3 DEF CallState, PCs
  <2>5. /\ call.pc = "validate" /\ call.op = "rotate" /\ call.file = rotated /\ call.old = old
        /\ call.previous = << >> /\ call.units = {} /\ call.at = 1 /\ ~call.rollback
    BY DEF Idle
  <2> HIDE DEF call
  <2>6. StartsWith(call)
    BY <2>1, <2>2, <2>3, <2>5 DEF StartsWith
  <2>7. QED
    BY <1>1, <2>1, <2>4, <2>5, <2>6
<1>5. ASSUME Sync(c)
      PROVE  Starts(c)
  <2> DEFINE call == [Idle EXCEPT !.pc = "sync", !.op = "sync", !.file = profiles,
                        !.known = registry]
  <2>1. call \in CallState
    BY <1>0 DEF CallState, PCs
  <2>2. Begin(c, call) /\ UNCHANGED minted
    BY <1>5 DEF Sync
  <2>3. StartsWith(call) /\ call.previous = << >> /\ call.units = {} /\ call.at = 1
        /\ ~call.rollback
    BY <2>2 DEF StartsWith, Idle
  <2> HIDE DEF call
  <2>4. QED
    BY <1>1, <2>1, <2>2, <2>3
<1>6. QED
  BY <1>2, <1>3, <1>4, <1>5

\* chooseBackend and the provisioning of a backend place a profile.
LEMMA AssignShape ==
    ASSUME TypesInv, PlacedInv, NEW c \in Clients, ChooseBackend(c) \/ ProvisionBackend(c)
    PROVE  /\ Assigns(c)
           /\ \E room : /\ room = WithRoom(calls'[c].known, calls[c].file)
                        /\ calls'[c].file[Head(calls[c].todo)].backend \in room
<1>0. /\ calls[c].pc = "assign" /\ registry \in Nat /\ registry <= MaxBackends
      /\ calls[c].known \in 1..registry /\ calls[c].known \in 0..MaxBackends
  <2>1. calls[c].pc = "assign"
    BY DEF ChooseBackend, ProvisionBackend
  <2>2. registry \in Nat /\ registry <= MaxBackends
    BY CallType, Bounds DEF Backends
  <2>3. calls[c].known \in 1..registry
    BY <2>1 DEF PlacedInv
  <2>4. calls[c].known \in 0..MaxBackends
    BY CallType DEF CallState
  <2>5. QED
    BY <2>1, <2>2, <2>3, <2>4
<1>1. ASSUME NEW known \in 0..MaxBackends, NEW b \in Backends, Assign(c, known, b),
             b \in WithRoom(known, calls[c].file), known \in 1..registry',
             calls[c].known <= known, UNCHANGED << profiles, env, relay, history >>,
             UNCHANGED << registry, fresh, running >> \/ Added
      PROVE  /\ Assigns(c)
             /\ calls'[c].known = known
             /\ calls'[c].file[Head(calls[c].todo)].backend = b
  <2> DEFINE name == Head(calls[c].todo)
  <2>1. LET call == calls'[c]
        IN  /\ call.pc \in {"assign", "validate"} /\ call.op = calls[c].op
            /\ call.op # "sync"
            /\ call.file \in ProfileFile
            /\ DOMAIN call.file = DOMAIN calls[c].file \cup {name}
            /\ call.file[name] = [secret |-> NewSecret, backend |-> b]
            /\ \A n \in DOMAIN calls[c].file \ {name} : call.file[n] = calls[c].file[n]
            /\ call.previous = calls[c].previous /\ call.known = known
            /\ call.old = calls[c].old /\ call.alone = calls[c].alone
            /\ minted' = minted + 1
            /\ Others(c)
    BY <1>0, <1>1, AssignCall DEF Others
  <2>2. NewSecret.key = minted + 1
    BY DEF NewSecret
  <2>3. b \in 1..known
    BY <1>1 DEF WithRoom
  <2> HIDE DEF name
  <2>4. /\ calls'[c].file[name].secret.key = minted + 1
        /\ calls'[c].file[name].backend = b
    BY <2>1, <2>2
  <2>5. QED
    BY <1>0, <1>1, <2>1, <2>3, <2>4 DEF Assigns, name
<1>2. CASE ChooseBackend(c)
  <2> DEFINE room == WithRoom(calls[c].known, calls[c].file)
  <2>1. /\ room # {} /\ Assign(c, calls[c].known, First(room))
        /\ UNCHANGED << files, services, begun, faults, history >>
    BY <1>2 DEF ChooseBackend
  <2>2. room \subseteq Backends
    BY <1>0, Bounds DEF WithRoom, Backends
  <2>3. First(room) \in room
    BY <2>1, <2>2, FirstIsIn
  <2> DEFINE b == First(room)
  <2>4. b \in Backends /\ b \in room
    BY <2>2, <2>3
  <2>5. /\ UNCHANGED << profiles, env, relay, history >>
        /\ UNCHANGED << registry, fresh, running >>
        /\ calls[c].known \in 1..registry' /\ calls[c].known <= calls[c].known
    BY <1>0, <2>1 DEF files, services
  <2>6. Assign(c, calls[c].known, b)
    BY <2>1
  <2> HIDE DEF b
  <2>7. QED
    BY <1>0, <1>1, <2>4, <2>5, <2>6
<1>3. CASE ProvisionBackend(c)
  <2> DEFINE room == WithRoom(registry + 1, calls[c].file)
             b == First(room)
  <2>1. /\ registry < MaxBackends /\ registry' = registry + 1
        /\ Assign(c, registry + 1, b) /\ Added
        /\ UNCHANGED << profiles, leftover, env, relay, begun, faults, history >>
    BY <1>3 DEF ProvisionBackend, Provision, Added
  <2>2. b \in room /\ b \in Backends
    BY <1>3, RoomAfterProvisioning
  <2>3. /\ registry + 1 \in 1..registry' /\ calls[c].known <= registry + 1
        /\ registry + 1 \in 0..MaxBackends
    BY <1>0, <2>1, Bounds
  <2> HIDE DEF b
  <2>4. QED
    BY <1>1, <2>1, <2>2, <2>3
<1>4. QED
  BY <1>2, <1>3

\* The ways a call returns.
LEMMA EndShape ==
    ASSUME TypesInv, NEW c \in Clients,
           \/ ProvisionFails(c) \/ Refuse(c) \/ PutBack(c) \/ Killed(c) \/ Ready(c)
           \/ Validate(c) /\ End(c)
           \/ SyncFails(c) /\ calls[c].op = "sync"
           \/ (RestartFails(c) \/ NotReady(c)) /\ End(c)
    PROVE  Ends(c)
<1>0. calls[c].pc # "idle"
  BY CallType, MoveFailed DEF ProvisionFails, Refuse, PutBack, Killed, Ready, Validate,
     SyncFails, CallInv
<1>1. CASE RestartFails(c) \/ NotReady(c)
  <2>1. End(c) /\ UNCHANGED << registry, env, fresh, minted >> /\ UNCHANGED profiles
        /\ (relay' = relay \/ relay' = None)
    BY <1>1, MoveFailed DEF ProvisionFails, Refuse, PutBack, Killed, Ready, Validate,
       SyncFails, files, services
  <2>2. UNCHANGED << overlapped, retired >>
    BY <1>1, MoveFailed, MoveStackFailed DEF history
  <2>3. QED
    BY <1>0, <2>1, <2>2 DEF Ends
<1>2. CASE ProvisionFails(c) \/ Refuse(c) \/ Killed(c) \/ Ready(c)
  BY <1>0, <1>2 DEF ProvisionFails, Refuse, Killed, Ready, Ends, files, services, history
<1>3. CASE PutBack(c)
  <2>1. calls[c].pc = "putback" /\ calls[c].op # "sync"
    BY <1>3, CallType DEF PutBack, CallInv
  <2>2. QED
    BY <1>0, <1>3, <2>1 DEF PutBack, Restored, Doubt, Ends, services, history
<1>4. CASE Validate(c) /\ End(c)
  BY <1>0, <1>4 DEF Validate, Ends, files, services, history
<1>5. CASE SyncFails(c) /\ calls[c].op = "sync"
  <2>1. End(c)
    BY <1>5, MoveSyncFails
  <2>2. QED
    BY <1>0, <1>5, <2>1 DEF SyncFails, Doubt, Ends, files, services
<1>6. QED
  BY <1>1, <1>2, <1>3, <1>4, <1>5

\* Apply's steps, and those of its way back, work on a valid candidate.
LEMMA WorkShape ==
    ASSUME TypesInv, NEW c \in Clients,
           \/ Install(c) \/ SyncBackend(c) \/ RestartUnit(c) \/ RestartRelay(c) \/ Restore(c)
           \/ SyncFails(c) /\ calls[c].op # "sync"
           \/ (RestartFails(c) \/ NotReady(c)) /\ calls'[c].pc = "restore"
    PROVE  Works(c)
<1>1. CASE Install(c)
  BY <1>1, MoveInstall DEF Moves, Others, Install, Works, Late, services, history
<1>2. CASE SyncBackend(c)
  BY <1>2, MoveSyncBackend DEF Moves, Others, SyncBackend, Works, Late, services, history
<1>3. CASE RestartUnit(c)
  BY <1>3, MoveRestartUnit DEF Moves, Others, RestartUnit, Works, Late, files, history
<1>4. CASE RestartRelay(c)
  BY <1>4, MoveRestartRelay DEF Moves, Others, RestartRelay, Works, Late, files, history
<1>5. CASE Restore(c)
  BY <1>5, MoveRestore DEF Moves, Others, Restore, Restored, Doubt, Works, Late, services,
     history
<1>6. CASE SyncFails(c) /\ calls[c].op # "sync"
  <2>1. /\ Moves(c) /\ Kept(calls'[c], calls[c])
        /\ calls[c].pc = "sync" /\ calls'[c].pc \in {"restart", "putback"}
        /\ calls'[c].rollback = calls[c].rollback
    BY <1>6, MoveSyncFails
  <2>2. UNCHANGED << files, services, minted, overlapped, retired >>
    BY <1>6 DEF SyncFails, Doubt
  <2>3. QED
    BY <2>1, <2>2 DEF Moves, Others, Works, Late, files, services
<1>7. CASE (RestartFails(c) \/ NotReady(c)) /\ calls'[c].pc = "restore"
  <2>1. /\ StackFailed(c) /\ calls[c].pc \in {"restart", "ready"}
        /\ UNCHANGED << files, minted >> /\ (relay' = relay \/ relay' = None)
    BY <1>7, MoveFailed DEF services
  <2>2. ~End(c)
    <3>1. End(c) => calls'[c] = Idle
      BY EndCall DEF TypesInv, CallTypes
    <3>2. QED
      BY <1>7, <3>1 DEF Idle
  <2>3. Moves(c) /\ Kept(calls'[c], calls[c]) /\ UNCHANGED history
    BY <2>1, <2>2, MoveStackFailed
  <2>4. QED
    BY <1>7, <2>1, <2>3 DEF Moves, Others, Works, Late, files, history
<1>8. QED
  BY <1>1, <1>2, <1>3, <1>4, <1>5, <1>6, <1>7

\* A Validate that does not refuse lets the call go on.
LEMMA ValidateShape ==
    ASSUME TypesInv, NEW c \in Clients, Validate(c), ~End(c)
    PROVE  Validates(c)
BY MoveValidate DEF Moves, Others, Validate, Validates

\* Restarts by systemd and reboots touch no call and no file.
LEMMA HostShape ==
    ASSUME Reboot \/ (\E b \in Backends : UnitRestarts(b)) \/ RelayRestarts \/ UNCHANGED vars
    PROVE  Hosts
BY DEF Reboot, UnitRestarts, RelayRestarts, vars, services, history, Hosts

\* The helper adds a backend.
LEMMA GrowShape ==
    ASSUME ProvisionByHand
    PROVE  Grows
BY DEF ProvisionByHand, Provision, Grows, Added

\* Every step has one of the shapes.
LEMMA Shapes ==
    ASSUME TypesInv, PlacedInv, [Next]_vars
    PROVE  \/ \E c \in Clients :
                Starts(c) \/ Assigns(c) \/ Validates(c) \/ Works(c) \/ Ends(c)
           \/ Hosts
           \/ Grows
<1>1. ASSUME NEW c \in Clients,
             \/ \E batch \in Imports : AddKeys(c, batch)
             \/ \E name \in Names : RevokeKey(c, name) \/ RotateKey(c, name)
             \/ Sync(c)
      PROVE  Starts(c)
  BY <1>1, StartShape
<1>2. ASSUME NEW c \in Clients, ChooseBackend(c) \/ ProvisionBackend(c)
      PROVE  Assigns(c)
  BY <1>2, AssignShape
<1>3. ASSUME NEW c \in Clients, Validate(c)
      PROVE  Validates(c) \/ Ends(c)
  BY <1>3, EndShape, ValidateShape
<1>4. ASSUME NEW c \in Clients,
             ProvisionFails(c) \/ Refuse(c) \/ PutBack(c) \/ Killed(c) \/ Ready(c)
      PROVE  Ends(c)
  BY <1>4, EndShape
<1>5. ASSUME NEW c \in Clients,
             Install(c) \/ SyncBackend(c) \/ RestartUnit(c) \/ RestartRelay(c) \/ Restore(c)
      PROVE  Works(c)
  BY <1>5, WorkShape
<1>6. ASSUME NEW c \in Clients, SyncFails(c)
      PROVE  Works(c) \/ Ends(c)
  BY <1>6, WorkShape, EndShape
<1>7. ASSUME NEW c \in Clients, RestartFails(c) \/ NotReady(c)
      PROVE  Works(c) \/ Ends(c)
  BY <1>7, MoveFailed, MoveStackFailed, WorkShape, EndShape
<1>8. QED
  BY <1>1, <1>2, <1>3, <1>4, <1>5, <1>6, <1>7, HostShape, GrowShape DEF Next

--------------------------------------------------------------------------------
(* Types and backends.                                                     *)

\* PlacedInv holds at the start.
LEMMA InitPlaced == Init => PlacedInv
BY DEF Init, PlacedInv, Placed, Idle, Late

\* A file placed on some backends is placed on more of them.
LEMMA PlacedMore ==
    ASSUME NEW file, NEW k \in Nat, NEW l \in Nat, k <= l, Placed(file, k)
    PROVE  Placed(file, l)
BY DEF Placed

\* What PlacedInv says of one call.
PlacedCall(call, registered) ==
    /\ call.pc \in Late => Placed(call.file, registered)
    /\ call.pc \in Late /\ call.op # "sync" => Placed(call.previous, registered)
    /\ call.pc = "assign" =>
         call.known \in 1..registered /\ Placed(call.file, call.known)

\* Every step keeps PlacedInv.
LEMMA NextPlaced ==
    ASSUME TypesInv, PlacedInv, [Next]_vars
    PROVE  PlacedInv'
<1>0. /\ registry \in Nat /\ registry >= 1 /\ Placed(profiles, registry)
      /\ \A c \in Clients : PlacedCall(calls[c], registry)
  BY Bounds DEF TypesInv, DataTypes, PlacedInv, PlacedCall, Backends
<1>1. SUFFICES /\ Placed(profiles', registry')
               /\ \A c \in Clients : PlacedCall(calls'[c], registry')
  BY DEF PlacedInv, PlacedCall, Placed
<1>2. PlacedCall(Idle, registry')
  BY DEF PlacedCall, Idle, Late
<1>3. ASSUME NEW c \in Clients, Starts(c)
      PROVE  Placed(profiles', registry') /\ \A d \in Clients : PlacedCall(calls'[d], registry')
  <2>1. UNCHANGED << profiles, registry >>
    BY <1>3 DEF Starts, files
  <2>2. PlacedCall(calls'[c], registry)
    BY <1>0, <1>3 DEF Starts, StartsWith, PlacedCall, Late
  <2>3. \A d \in Clients \ {c} : PlacedCall(calls'[d], registry)
    BY <1>0, <1>3 DEF Starts, Same, PlacedCall
  <2>4. QED
    BY <1>0, <2>1, <2>2, <2>3
<1>4. ASSUME NEW c \in Clients, Assigns(c)
      PROVE  Placed(profiles', registry') /\ \A d \in Clients : PlacedCall(calls'[d], registry')
  <2>1. /\ UNCHANGED profiles /\ registry' \in Nat /\ registry <= registry'
        /\ calls[c].known \in 1..registry /\ Placed(calls[c].file, calls[c].known)
    BY <1>0, <1>4 DEF Assigns, Added, PlacedCall
  <2>2. Placed(calls'[c].file, calls'[c].known) /\ calls'[c].known \in 1..registry'
        /\ calls'[c].pc \notin Late
    <3>1. /\ calls'[c].known \in 1..registry' /\ calls[c].known <= calls'[c].known
          /\ calls'[c].pc \notin Late
      BY <1>4 DEF Assigns, Late
    <3>2. Placed(calls[c].file, calls'[c].known)
      BY <2>1, <3>1, PlacedMore
    <3>3. Placed(calls'[c].file, calls'[c].known)
      BY <1>4, <3>2 DEF Assigns, Placed
    <3>4. QED
      BY <3>1, <3>3
  <2>3. PlacedCall(calls'[c], registry')
    BY <2>2 DEF PlacedCall
  <2>4. ASSUME NEW d \in Clients \ {c}
        PROVE  PlacedCall(calls'[d], registry')
    <3>1. calls'[d] = calls[d] /\ PlacedCall(calls[d], registry)
      BY <1>0, <1>4 DEF Assigns, Others
    <3>2. QED
      BY <1>0, <2>1, <3>1, PlacedMore DEF PlacedCall
  <2>5. QED
    BY <1>0, <2>1, <2>3, <2>4, PlacedMore
<1>5. ASSUME NEW c \in Clients, Validates(c)
      PROVE  Placed(profiles', registry') /\ \A d \in Clients : PlacedCall(calls'[d], registry')
  <2>1. UNCHANGED << profiles, registry >> /\ Others(c)
    BY <1>5 DEF Validates, files
  <2>2. Placed(calls'[c].file, registry) /\ Placed(calls'[c].previous, registry)
        /\ calls'[c].pc # "assign"
    BY <1>0, <1>5 DEF Validates, Valid, Placed
  <2>3. QED
    BY <1>0, <2>1, <2>2 DEF PlacedCall, Others
<1>6. ASSUME NEW c \in Clients, Works(c)
      PROVE  Placed(profiles', registry') /\ \A d \in Clients : PlacedCall(calls'[d], registry')
  <2>1. /\ UNCHANGED registry /\ Others(c) /\ calls'[c].pc # "assign"
        /\ calls[c].pc \in Late /\ Kept(calls'[c], calls[c])
        /\ \/ profiles' = profiles
           \/ calls[c].op # "sync" /\ (profiles' = calls[c].file \/ profiles' = calls[c].previous)
    BY <1>6 DEF Works, Late
  <2>2. PlacedCall(calls'[c], registry)
    BY <1>0, <2>1 DEF Kept, PlacedCall
  <2>3. Placed(profiles', registry)
    BY <1>0, <2>1 DEF PlacedCall
  <2>4. QED
    BY <1>0, <2>1, <2>2, <2>3 DEF Others
<1>7. ASSUME NEW c \in Clients, Ends(c)
      PROVE  Placed(profiles', registry') /\ \A d \in Clients : PlacedCall(calls'[d], registry')
  <2>1. UNCHANGED registry /\ calls'[c] = Idle /\ Others(c)
    BY <1>7, EndCall DEF Ends, Others, TypesInv, CallTypes
  <2>2. Placed(profiles', registry)
    BY <1>0, <1>7 DEF Ends, PlacedCall, Late
  <2>3. QED
    BY <1>0, <1>2, <2>1, <2>2 DEF Others
<1>8. CASE Hosts
  BY <1>0, <1>2, <1>8 DEF Hosts, files
<1>9. CASE Grows
  <2>1. UNCHANGED << profiles, calls >> /\ registry' \in Nat /\ registry <= registry'
    BY <1>0, <1>9 DEF Grows, Added
  <2>2. \A c \in Clients : PlacedCall(calls[c], registry')
    BY <1>0, <2>1, PlacedMore DEF PlacedCall
  <2>3. QED
    BY <1>0, <2>1, <2>2, PlacedMore
<1>10. QED
  BY <1>3, <1>4, <1>5, <1>6, <1>7, <1>8, <1>9, Shapes

\* Every step keeps the type invariant.
LEMMA NextTypes ==
    ASSUME TypesInv, PlacedInv, [Next]_vars
    PROVE  TypesInv'
<1>1. ASSUME NEW c \in Clients,
             \/ \E batch \in Imports : AddKeys(c, batch)
             \/ \E name \in Names : RevokeKey(c, name) \/ RotateKey(c, name)
             \/ Sync(c)
      PROVE  TypesInv'
  BY <1>1, BeginStepTypes
<1>2. ASSUME NEW c \in Clients, ChooseBackend(c) \/ ProvisionBackend(c)
      PROVE  TypesInv'
  BY <1>2, AssignStepTypes
<1>3. ASSUME NEW c \in Clients,
             ProvisionFails(c) \/ Refuse(c) \/ PutBack(c) \/ Killed(c) \/ Ready(c)
      PROVE  TypesInv'
  BY <1>3, EndStepTypes
<1>4. ASSUME NEW c \in Clients,
             \/ Validate(c) \/ Install(c) \/ SyncBackend(c) \/ SyncFails(c) \/ RestartUnit(c)
             \/ RestartRelay(c) \/ RestartFails(c) \/ NotReady(c) \/ Restore(c)
      PROVE  TypesInv'
  BY <1>4, ApplyStepTypes
<1>5. CASE \/ Reboot \/ (\E b \in Backends : UnitRestarts(b)) \/ RelayRestarts
           \/ ProvisionByHand
  BY <1>5, HostStepTypes
<1>6. CASE UNCHANGED vars
  BY <1>6 DEF vars, files, services, history, TypesInv, DataTypes, CallTypes
<1>7. QED
  BY <1>1, <1>2, <1>3, <1>4, <1>5, <1>6 DEF Next

--------------------------------------------------------------------------------
(* Secrets fit.                                                            *)

\* A file whose secret lists MTProxy takes.
Fits(file) ==
    /\ IsFiniteSet(DOMAIN file)
    /\ \A b \in Backends : Cardinality(OnBackend(file, b)) <= MaxSecretsPerBackend

FitsCall(call) ==
    /\ call.pc # "idle" => IsFiniteSet(DOMAIN call.file)
    /\ call.pc \in Late => Fits(call.file)
    /\ call.pc \in Late /\ call.op # "sync" => Fits(call.previous)

\* Every file a call may install or sync from fits, and so does what is synced.
FitsInv ==
    /\ Fits(profiles)
    /\ \A c \in Clients : FitsCall(calls[c])
    /\ SecretsFit

\* A secret list is no longer than the list of its profiles.
LEMMA FitsArguments ==
    ASSUME NEW file, Fits(file), NEW b \in Backends
    PROVE  Cardinality(Arguments(file, b)) <= MaxSecretsPerBackend
<1> DEFINE S == OnBackend(file, b)
           T == Arguments(file, b)
           f == [n \in S |-> backendSecret(file[n].secret)]
<1>1. IsFiniteSet(S) /\ Cardinality(S) <= MaxSecretsPerBackend
  <2>1. S \subseteq DOMAIN file
    BY DEF OnBackend
  <2>2. QED
    BY <2>1, PartIsFinite DEF Fits
<1>2. f \in Surjection(S, T)
  BY DEF Surjection, Arguments
<1> HIDE DEF S, T, f
<1>3. IsFiniteSet(T) /\ Cardinality(T) <= Cardinality(S)
  BY <1>1, <1>2, FS_Surjection
<1>4. Cardinality(T) \in Nat /\ Cardinality(S) \in Nat
  BY <1>1, <1>3, FS_CardinalityType
<1>5. QED
  BY <1>1, <1>3, <1>4, Bounds DEF T

\* A candidate that Apply accepts fits.
LEMMA FitsValid ==
    ASSUME NEW file, IsFiniteSet(DOMAIN file), Valid(file)
    PROVE  Fits(file)
<1>1. ASSUME NEW b \in Backends
      PROVE  Cardinality(OnBackend(file, b)) <= MaxSecretsPerBackend
  <2>1. CASE b \in 1..registry
    BY <2>1 DEF Valid
  <2>2. CASE b \notin 1..registry
    <3>1. OnBackend(file, b) = {}
      BY <2>2 DEF Valid, OnBackend
    <3>2. Cardinality(OnBackend(file, b)) = 0
      BY <3>1, FS_EmptySet
    <3>3. QED
      BY <3>2, Bounds
  <2>3. QED
    BY <2>1, <2>2
<1>2. QED
  BY <1>1 DEF Fits

\* FitsInv holds at the start: one secret on one backend.
LEMMA InitFits == Init => FitsInv
<1> SUFFICES ASSUME Init PROVE FitsInv
  OBVIOUS
<1>1. DOMAIN profiles = {Default}
  BY DEF Init
<1>2. IsFiniteSet({Default}) /\ Cardinality({Default}) = 1 /\ Cardinality({}) = 0
      /\ IsFiniteSet({0}) /\ Cardinality({0}) = 1
  BY FS_Singleton, FS_EmptySet
<1>3. ASSUME NEW b \in Backends
      PROVE  Cardinality(OnBackend(profiles, b)) <= MaxSecretsPerBackend
  <2>1. OnBackend(profiles, b) = {Default} \/ OnBackend(profiles, b) = {}
    BY <1>1 DEF OnBackend
  <2>2. QED
    BY <1>2, <2>1, Bounds
<1>4. Fits(profiles)
  BY <1>1, <1>2, <1>3 DEF Fits
<1>5. SecretsFit
  <2>1. \A b \in Backends : env[b] = {0} \/ env[b] = {}
    BY DEF Init
  <2>2. QED
    BY <1>2, <2>1, Bounds DEF SecretsFit
<1>6. QED
  BY <1>4, <1>5 DEF Init, FitsInv, FitsCall, Idle, Late

\* Every step keeps FitsInv.
LEMMA NextFits ==
    ASSUME TypesInv, PlacedInv, FitsInv, [Next]_vars
    PROVE  FitsInv'
<1>0. Fits(profiles) /\ \A c \in Clients : FitsCall(calls[c])
  BY DEF FitsInv
<1>1. SUFFICES Fits(profiles') /\ (\A c \in Clients : FitsCall(calls'[c])) /\ SecretsFit'
  BY DEF FitsInv, Fits, FitsCall, OnBackend
<1>2. FitsCall(Idle)
  BY DEF FitsCall, Idle, Late
<1>3. SecretsFit
  BY DEF FitsInv
<1>4. ASSUME NEW c \in Clients, Starts(c)
      PROVE  Fits(profiles') /\ (\A d \in Clients : FitsCall(calls'[d])) /\ SecretsFit'
  <2>1. UNCHANGED << profiles, env >>
    BY <1>4 DEF Starts, files
  <2>2. IsFiniteSet(DOMAIN calls'[c].file)
    <3>1. DOMAIN calls'[c].file \subseteq DOMAIN profiles
      BY <1>4 DEF Starts, StartsWith
    <3>2. QED
      BY <1>0, <3>1, PartIsFinite DEF Fits
  <2>3. FitsCall(calls'[c])
    BY <1>0, <1>4, <2>2 DEF Starts, StartsWith, FitsCall, Late
  <2>4. \A d \in Clients \ {c} : FitsCall(calls'[d])
    BY <1>0, <1>4 DEF Starts, Same, FitsCall
  <2>5. QED
    BY <1>0, <1>3, <2>1, <2>3, <2>4 DEF SecretsFit
<1>5. ASSUME NEW c \in Clients, Assigns(c)
      PROVE  Fits(profiles') /\ (\A d \in Clients : FitsCall(calls'[d])) /\ SecretsFit'
  <2>1. UNCHANGED << profiles, env >> /\ Others(c) /\ calls'[c].pc \notin Late
    BY <1>5 DEF Assigns, Late
  <2>2. IsFiniteSet(DOMAIN calls[c].file)
    BY <1>0, <1>5 DEF FitsCall, Assigns
  <2>3. IsFiniteSet(DOMAIN calls'[c].file)
    BY <1>5, <2>2, FS_AddElement DEF Assigns
  <2>4. FitsCall(calls'[c])
    BY <2>1, <2>3 DEF FitsCall
  <2>5. QED
    BY <1>0, <1>3, <2>1, <2>4 DEF Others, SecretsFit
<1>6. ASSUME NEW c \in Clients, Validates(c)
      PROVE  Fits(profiles') /\ (\A d \in Clients : FitsCall(calls'[d])) /\ SecretsFit'
  <2>1. UNCHANGED << profiles, env >> /\ Others(c)
    BY <1>6 DEF Validates, files
  <2>2. IsFiniteSet(DOMAIN calls[c].file) /\ Valid(calls[c].file)
    BY <1>0, <1>6 DEF FitsCall, Validates
  <2>3. Fits(calls[c].file)
    BY <2>2, FitsValid
  <2>4. FitsCall(calls'[c])
    BY <1>0, <1>6, <2>2, <2>3 DEF FitsCall, Validates
  <2>5. QED
    BY <1>0, <1>3, <2>1, <2>4 DEF Others, SecretsFit
<1>7. ASSUME NEW c \in Clients, Works(c)
      PROVE  Fits(profiles') /\ (\A d \in Clients : FitsCall(calls'[d])) /\ SecretsFit'
  <2>1. /\ Others(c) /\ calls[c].pc \in Late /\ Kept(calls'[c], calls[c])
        /\ calls[c].pc # "idle"
        /\ \/ profiles' = profiles
           \/ calls[c].op # "sync" /\ (profiles' = calls[c].file \/ profiles' = calls[c].previous)
        /\ \/ env' = env
           \/ env' = [env EXCEPT ![calls[c].at] = Arguments(Target(calls[c]), calls[c].at)]
    BY <1>7 DEF Works, Late
  <2>2. FitsCall(calls'[c])
    BY <1>0, <2>1 DEF Kept, FitsCall
  <2>3. Fits(profiles')
    BY <1>0, <2>1 DEF FitsCall
  <2>4. SecretsFit'
    <3>1. calls[c].at \in Backends
      BY <2>1, LateCall
    <3>2. Fits(Target(calls[c]))
      BY <1>0, <2>1, LateCall DEF FitsCall, Target, CallInv
    <3>3. Cardinality(Arguments(Target(calls[c]), calls[c].at)) <= MaxSecretsPerBackend
      BY <3>1, <3>2, FitsArguments
    <3>4. env \in [Backends -> SUBSET (0..MaxSecrets)]
      BY DEF TypesInv, DataTypes
    <3>5. QED
      BY <1>3, <2>1, <3>3, <3>4 DEF SecretsFit
  <2>5. QED
    BY <1>0, <2>1, <2>2, <2>3, <2>4 DEF Others
<1>8. ASSUME NEW c \in Clients, Ends(c)
      PROVE  Fits(profiles') /\ (\A d \in Clients : FitsCall(calls'[d])) /\ SecretsFit'
  <2>1. UNCHANGED env /\ calls'[c] = Idle /\ Others(c)
    BY <1>8, EndCall DEF Ends, Others, TypesInv, CallTypes
  <2>2. Fits(profiles')
    BY <1>0, <1>8 DEF Ends, FitsCall, Late
  <2>3. QED
    BY <1>0, <1>2, <1>3, <2>1, <2>2 DEF Others, SecretsFit
<1>9. CASE Hosts
  BY <1>0, <1>2, <1>3, <1>9 DEF Hosts, files, SecretsFit
<1>10. CASE Grows
  BY <1>0, <1>3, <1>10 DEF Grows, SecretsFit
<1>11. QED
  BY <1>4, <1>5, <1>6, <1>7, <1>8, <1>9, <1>10, Shapes

--------------------------------------------------------------------------------
(* Secrets stay apart, and the retired ones stay away.                     *)

Distinct(file) ==
    \A m, n \in DOMAIN file : file[m].secret.key = file[n].secret.key => m = n

KeysCall(call, last) == call.pc # "idle" =>
    /\ Distinct(call.file) /\ Keys(call.file) \subseteq 0..last
    /\ Distinct(call.previous) /\ Keys(call.previous) \subseteq 0..last
    /\ call.old \subseteq 0..last /\ call.old \cap Keys(call.file) = {}

\* No two profiles of a file share a key, and no key is used before it is made.
KeysInv ==
    /\ Distinct(profiles) /\ Keys(profiles) \subseteq 0..minted
    /\ relay # None => Keys(relay) \subseteq 0..minted
    /\ retired \subseteq 0..minted
    /\ \A c \in Clients : KeysCall(calls[c], minted)

\* A file that differs from another in one profile, with a fresh key if it is there.
Edited(edited, file, name, last) ==
    /\ \A n \in DOMAIN edited \ {name} : n \in DOMAIN file /\ edited[n] = file[n]
    /\ name \in DOMAIN edited => edited[name].secret.key = last + 1

\* An edit with a fresh secret keeps a file's keys distinct and drops the old one.
LEMMA KeysEdited ==
    ASSUME NEW file, NEW edited, NEW name, NEW last \in Nat, Edited(edited, file, name, last),
           Distinct(file), Keys(file) \subseteq 0..last
    PROVE  /\ Distinct(edited) /\ Keys(edited) \subseteq Keys(file) \cup {last + 1}
           /\ Keys(edited) \subseteq 0..last + 1
           /\ name \notin DOMAIN edited => Keys(edited) \subseteq Keys(file)
           /\ name \in DOMAIN file => file[name].secret.key \notin Keys(edited)
<1>1. \A n \in DOMAIN file : file[n].secret.key \in 0..last
  BY DEF Keys
<1>2. Distinct(edited)
  BY <1>1 DEF Edited, Distinct
<1>3. Keys(edited) \subseteq Keys(file) \cup {last + 1}
  BY DEF Edited, Keys
<1>4. name \notin DOMAIN edited => Keys(edited) \subseteq Keys(file)
  BY DEF Edited, Keys
<1>5. ASSUME name \in DOMAIN file, NEW n \in DOMAIN edited
      PROVE  edited[n].secret.key # file[name].secret.key
  BY <1>1, <1>5 DEF Edited, Distinct
<1>6. QED
  BY <1>2, <1>3, <1>4, <1>5 DEF Keys

\* KeysInv holds at the start.
LEMMA InitKeys == Init => KeysInv
BY Bounds DEF Init, KeysInv, KeysCall, Idle, Distinct, Keys

\* What the shapes do to the number of keys and to the others' calls.
LEMMA MintedGrows ==
    ASSUME TypesInv, PlacedInv, [Next]_vars
    PROVE  minted \in Nat /\ minted' \in Nat /\ minted <= minted'
<1>1. minted \in Nat /\ minted' \in Nat
  BY NextTypes, Bounds DEF TypesInv, DataTypes
<1>2. minted' = minted \/ minted' = minted + 1
  BY Shapes DEF Starts, StartsWith, Assigns, Validates, Works, Ends, Hosts, Grows
<1>3. QED
  BY <1>1, <1>2

\* The keys a new call edits.
LEMMA StartKeys ==
    ASSUME TypesInv, KeysInv, NEW c \in Clients, Starts(c)
    PROVE  /\ KeysCall(calls'[c], minted')
           /\ Keys(calls'[c].file) \subseteq Keys(profiles) \cup {minted + 1}
           /\ Keys(calls'[c].previous) = {}
<1>0. minted \in Nat /\ Distinct(profiles) /\ Keys(profiles) \subseteq 0..minted
  BY Bounds DEF TypesInv, DataTypes, KeysInv
<1> DEFINE call == calls'[c]
<1>1. Keys(call.previous) = {} /\ Distinct(call.previous)
  BY DEF Starts, Keys, Distinct
<1>2. CASE call.file = profiles /\ call.old = {} /\ minted' = minted
  BY <1>0, <1>1, <1>2 DEF KeysCall
<1>3. ASSUME NEW name \in DOMAIN profiles, Edited(call.file, profiles, name, minted),
             call.old = {profiles[name].secret.key},
             minted' = minted + 1 \/ (minted' = minted /\ name \notin DOMAIN call.file)
      PROVE  /\ KeysCall(calls'[c], minted')
             /\ Keys(calls'[c].file) \subseteq Keys(profiles) \cup {minted + 1}
  <2>1. /\ Distinct(call.file) /\ Keys(call.file) \subseteq Keys(profiles) \cup {minted + 1}
        /\ Keys(call.file) \subseteq 0..minted + 1
        /\ name \notin DOMAIN call.file => Keys(call.file) \subseteq Keys(profiles)
        /\ profiles[name].secret.key \notin Keys(call.file)
    BY <1>0, <1>3, KeysEdited
  <2>2. profiles[name].secret.key \in 0..minted
    BY <1>0 DEF Keys
  <2>3. Keys(call.file) \subseteq 0..minted' /\ call.old \subseteq 0..minted'
    BY <1>0, <1>3, <2>1, <2>2
  <2>4. QED
    BY <1>1, <1>3, <2>1, <2>3 DEF KeysCall
<1>4. CASE \E name \in DOMAIN profiles :
             /\ DOMAIN call.file = DOMAIN profiles \ {name}
             /\ \A n \in DOMAIN call.file : call.file[n] = profiles[n]
             /\ call.old = {profiles[name].secret.key} /\ UNCHANGED minted
  <2>1. PICK name \in DOMAIN profiles :
             /\ DOMAIN call.file = DOMAIN profiles \ {name}
             /\ \A n \in DOMAIN call.file : call.file[n] = profiles[n]
             /\ call.old = {profiles[name].secret.key} /\ UNCHANGED minted
    BY <1>4
  <2>2. Edited(call.file, profiles, name, minted)
    BY <2>1 DEF Edited
  <2>3. QED
    BY <1>1, <1>3, <2>1, <2>2
<1>5. CASE minted' = minted + 1
           /\ \E name \in DOMAIN profiles :
                /\ DOMAIN call.file = DOMAIN profiles
                /\ call.file[name].secret.key = minted + 1
                /\ \A n \in DOMAIN profiles \ {name} : call.file[n] = profiles[n]
                /\ call.old = {profiles[name].secret.key}
  <2>1. PICK name \in DOMAIN profiles :
                /\ DOMAIN call.file = DOMAIN profiles
                /\ call.file[name].secret.key = minted + 1
                /\ \A n \in DOMAIN profiles \ {name} : call.file[n] = profiles[n]
                /\ call.old = {profiles[name].secret.key}
    BY <1>5
  <2>2. Edited(call.file, profiles, name, minted)
    BY <2>1 DEF Edited
  <2>3. QED
    BY <1>1, <1>3, <1>5, <2>1, <2>2
<1>6. QED
  BY <1>1, <1>2, <1>4, <1>5 DEF Starts, StartsWith

\* The keys an import has after one more assignment.
LEMMA AssignKeys ==
    ASSUME TypesInv, KeysInv, NEW c \in Clients, Assigns(c)
    PROVE  /\ KeysCall(calls'[c], minted')
           /\ Keys(calls'[c].file) \subseteq Keys(calls[c].file) \cup {minted + 1}
           /\ Keys(calls'[c].previous) = Keys(calls[c].previous)
<1> DEFINE call == calls[c]
           next == calls'[c]
           name == Head(calls[c].todo)
<1>1. /\ minted \in Nat /\ minted' = minted + 1 /\ next.previous = call.previous
      /\ next.old = call.old /\ KeysCall(call, minted) /\ call.pc # "idle"
  <2>1. minted \in Nat
    BY Bounds DEF TypesInv, DataTypes
  <2>2. KeysCall(call, minted)
    BY DEF KeysInv
  <2>3. QED
    BY <2>1, <2>2 DEF Assigns
<1>2. Edited(next.file, call.file, name, minted)
  BY DEF Assigns, Edited
<1>3. /\ Distinct(call.file) /\ Keys(call.file) \subseteq 0..minted
      /\ Distinct(call.previous) /\ Keys(call.previous) \subseteq 0..minted
      /\ call.old \subseteq 0..minted
      /\ call.old \cap Keys(call.file) = {}
  BY <1>1 DEF KeysCall
<1>4. /\ Distinct(next.file) /\ Keys(next.file) \subseteq Keys(call.file) \cup {minted + 1}
      /\ Keys(next.file) \subseteq 0..minted + 1
  BY <1>1, <1>2, <1>3, KeysEdited
<1>5. next.old \cap Keys(next.file) = {}
  BY <1>1, <1>3, <1>4
<1>6. QED
  BY <1>1, <1>3, <1>4, <1>5 DEF KeysCall

\* Every step keeps KeysInv.
LEMMA NextKeys ==
    ASSUME TypesInv, PlacedInv, KeysInv, [Next]_vars
    PROVE  KeysInv'
<1>0. /\ minted \in Nat /\ minted' \in Nat /\ minted <= minted'
      /\ Distinct(profiles) /\ Keys(profiles) \subseteq 0..minted /\ retired \subseteq 0..minted
      /\ (relay # None => Keys(relay) \subseteq 0..minted)
      /\ \A c \in Clients : KeysCall(calls[c], minted)
  BY MintedGrows DEF KeysInv
<1> DEFINE Files ==
             /\ Distinct(profiles') /\ Keys(profiles') \subseteq 0..minted'
             /\ (relay' # None => Keys(relay') \subseteq 0..minted')
             /\ retired' \subseteq 0..minted'
           Calls == \A c \in Clients : KeysCall(calls'[c], minted')
<1>1. SUFFICES Files /\ Calls
  BY DEF KeysInv, KeysCall, Distinct, Keys
<1>2. /\ KeysCall(Idle, minted')
      /\ \A c \in Clients : KeysCall(calls[c], minted')
  BY <1>0 DEF KeysCall, Idle
<1>3. /\ Keys(profiles) \subseteq 0..minted' /\ retired \subseteq 0..minted'
      /\ relay # None => Keys(relay) \subseteq 0..minted'
  BY <1>0
<1>4. ASSUME NEW c \in Clients, Starts(c)
      PROVE  Files /\ Calls
  <2>1. UNCHANGED << profiles, relay, retired >>
    BY <1>4 DEF Starts, files, services
  <2>2. \A d \in Clients \ {c} : KeysCall(calls'[d], minted')
    BY <1>2, <1>4 DEF Starts, Same, KeysCall
  <2>3. KeysCall(calls'[c], minted')
    BY <1>4, StartKeys
  <2>4. QED
    BY <1>0, <1>3, <2>1, <2>2, <2>3
<1>5. ASSUME NEW c \in Clients, Assigns(c)
      PROVE  Files /\ Calls
  <2>1. UNCHANGED << profiles, relay, retired >> /\ Others(c)
    BY <1>5 DEF Assigns, history
  <2>2. KeysCall(calls'[c], minted')
    BY <1>5, AssignKeys
  <2>3. QED
    BY <1>0, <1>2, <1>3, <2>1, <2>2 DEF Others
<1>6. ASSUME NEW c \in Clients, Validates(c)
      PROVE  Files /\ Calls
  <2>1. UNCHANGED << profiles, relay, retired, minted >> /\ Others(c)
    BY <1>6 DEF Validates, files, services, history
  <2>2. KeysCall(calls'[c], minted')
    BY <1>0, <1>6, <2>1 DEF Validates, KeysCall
  <2>3. QED
    BY <1>0, <1>2, <1>3, <2>1, <2>2 DEF Others
<1>7. ASSUME NEW c \in Clients, Works(c)
      PROVE  Files /\ Calls
  <2>1. /\ Others(c) /\ calls[c].pc # "idle" /\ Kept(calls'[c], calls[c])
        /\ UNCHANGED << retired, minted >>
    BY <1>7 DEF Works, Late
  <2>2. KeysCall(calls'[c], minted')
    BY <1>2, <2>1 DEF Kept, KeysCall
  <2>3. Distinct(profiles') /\ Keys(profiles') \subseteq 0..minted'
    <3>1. \/ profiles' = profiles \/ profiles' = calls[c].file
          \/ profiles' = calls[c].previous
      BY <1>7 DEF Works
    <3>2. QED
      BY <1>0, <1>2, <2>1, <3>1 DEF KeysCall
  <2>4. QED
    BY <1>0, <1>2, <1>3, <1>7, <2>1, <2>2, <2>3 DEF Works, Others
<1>8. ASSUME NEW c \in Clients, Ends(c)
      PROVE  Files /\ Calls
  <2>1. UNCHANGED minted /\ calls'[c] = Idle /\ Others(c)
    BY <1>8, EndCall DEF Ends, Others, TypesInv, CallTypes
  <2>2. Distinct(profiles') /\ Keys(profiles') \subseteq 0..minted'
    <3>1. \/ profiles' = profiles
          \/ profiles' = calls[c].previous /\ calls[c].pc # "idle"
      BY <1>8 DEF Ends
    <3>2. QED
      BY <1>0, <1>2, <2>1, <3>1 DEF KeysCall
  <2>3. retired' \subseteq 0..minted'
    <3>1. \/ retired' = retired
          \/ retired' = retired \cup calls[c].old /\ calls[c].pc # "idle"
      BY <1>8 DEF Ends
    <3>2. QED
      BY <1>0, <1>2, <2>1, <3>1 DEF KeysCall
  <2>4. QED
    BY <1>2, <1>3, <1>8, <2>1, <2>2, <2>3 DEF Ends, Others
<1>9. CASE Hosts
  BY <1>0, <1>2, <1>3, <1>9 DEF Hosts, files
<1>10. CASE Grows
  BY <1>0, <1>10 DEF Grows, history
<1>11. QED
  BY <1>4, <1>5, <1>6, <1>7, <1>8, <1>9, <1>10, Shapes

RetiredCall(call) == call.pc # "idle" =>
    /\ retired \cap Keys(call.file) = {} /\ retired \cap Keys(call.previous) = {}
    /\ call.pc \in {"sync", "restart", "ready"} /\ call.op # "sync" /\ ~call.rollback =>
         profiles = call.file
    /\ call.pc = "ready" => relay = profiles

\* As long as no two calls have overlapped, a retired secret is in no file that
\* could be installed, and an edit reports success from what it installed.
RetiredInv == ~overlapped =>
    /\ \A c, d \in Clients : calls[c].pc # "idle" /\ calls[d].pc # "idle" => c = d
    /\ retired \cap Keys(profiles) = {}
    /\ relay # None => retired \cap Keys(relay) = {}
    /\ \A c \in Clients : RetiredCall(calls[c])

\* RetiredInv holds at the start.
LEMMA InitRetired == Init => RetiredInv
BY DEF Init, RetiredInv, RetiredCall, Idle

\* Every step keeps RetiredInv.
LEMMA NextRetired ==
    ASSUME TypesInv, PlacedInv, KeysInv, RetiredInv, [Next]_vars
    PROVE  RetiredInv'
<1> SUFFICES ASSUME ~overlapped'
             PROVE  /\ \A c, d \in Clients :
                         calls'[c].pc # "idle" /\ calls'[d].pc # "idle" => c = d
                    /\ retired' \cap Keys(profiles') = {}
                    /\ relay' # None => retired' \cap Keys(relay') = {}
                    /\ \A c \in Clients : RetiredCall(calls[c])'
  BY DEF RetiredInv, Keys
<1> DEFINE Single == \A c, d \in Clients : calls'[c].pc # "idle" /\ calls'[d].pc # "idle" => c = d
           Away == /\ retired' \cap Keys(profiles') = {}
                   /\ relay' # None => retired' \cap Keys(relay') = {}
           Calls == \A c \in Clients : RetiredCall(calls[c])'
<1>1. SUFFICES Single /\ Away /\ Calls
  OBVIOUS
<1>2. ~overlapped
  BY Shapes DEF Starts, Assigns, Validates, Works, Ends, Hosts, Grows, history
<1>3. /\ \A c, d \in Clients : calls[c].pc # "idle" /\ calls[d].pc # "idle" => c = d
      /\ retired \cap Keys(profiles) = {}
      /\ (relay # None => retired \cap Keys(relay) = {})
      /\ \A c \in Clients : RetiredCall(calls[c])
      /\ minted \in Nat /\ retired \subseteq 0..minted
      /\ \A c \in Clients : KeysCall(calls[c], minted)
      /\ \A c \in Clients : calls[c] = Idle => calls[c].pc = "idle"
  BY <1>2, Bounds DEF RetiredInv, KeysInv, TypesInv, DataTypes, Idle
<1>4. ASSUME NEW c \in Clients, \A d \in Clients \ {c} : calls'[d].pc = "idle",
             RetiredCall(calls[c])'
      PROVE  Single /\ Calls
  BY <1>4 DEF RetiredCall
<1>5. ASSUME NEW c \in Clients, calls[c].pc # "idle", Others(c)
      PROVE  \A d \in Clients \ {c} : calls'[d].pc = "idle"
  BY <1>3, <1>5 DEF Others
<1>6. ASSUME NEW c \in Clients, Starts(c)
      PROVE  Single /\ Away /\ Calls
  <2>1. \A d \in Clients : calls[d] = Idle
    BY <1>6 DEF Starts
  <2>2. \A d \in Clients \ {c} : calls'[d].pc = "idle"
    BY <1>3, <1>6, <2>1 DEF Starts, Same
  <2>3. UNCHANGED << profiles, relay, retired >>
    BY <1>6 DEF Starts, files, services
  <2>4. /\ Keys(calls'[c].file) \subseteq Keys(profiles) \cup {minted + 1}
        /\ Keys(calls'[c].previous) = {}
    BY <1>6, StartKeys DEF KeysInv
  <2>5. /\ retired \cap Keys(calls'[c].file) = {}
        /\ retired \cap Keys(calls'[c].previous) = {}
    BY <1>3, <2>4
  <2>6. /\ calls'[c].pc \in {"sync", "restart", "ready"} => calls'[c].op = "sync"
        /\ calls'[c].pc # "ready"
    BY <1>6 DEF Starts, StartsWith
  <2>7. RetiredCall(calls[c])'
    BY <2>3, <2>5, <2>6 DEF RetiredCall, Keys
  <2>8. QED
    BY <1>3, <1>4, <2>2, <2>3, <2>7
<1>7. ASSUME NEW c \in Clients, Assigns(c)
      PROVE  Single /\ Away /\ Calls
  <2>1. UNCHANGED << profiles, relay, retired >> /\ Others(c) /\ calls[c].pc # "idle"
    BY <1>7 DEF Assigns, history
  <2>2. /\ Keys(calls'[c].file) \subseteq Keys(calls[c].file) \cup {minted + 1}
        /\ Keys(calls'[c].previous) = Keys(calls[c].previous)
    BY <1>7, AssignKeys
  <2>3. /\ retired \cap Keys(calls[c].file) = {}
        /\ retired \cap Keys(calls[c].previous) = {}
    BY <1>3, <2>1 DEF RetiredCall
  <2>4. /\ retired \cap Keys(calls'[c].file) = {}
        /\ retired \cap Keys(calls'[c].previous) = {}
    BY <1>3, <2>2, <2>3
  <2>5. calls'[c].pc \in {"assign", "validate"}
    BY <1>7 DEF Assigns
  <2>6. RetiredCall(calls[c])'
    BY <2>1, <2>4, <2>5 DEF RetiredCall, Keys
  <2>7. QED
    BY <1>3, <1>4, <1>5, <2>1, <2>6
<1>8. ASSUME NEW c \in Clients, Validates(c)
      PROVE  Single /\ Away /\ Calls
  <2>1. UNCHANGED << profiles, relay, retired >> /\ Others(c) /\ calls[c].pc # "idle"
    BY <1>8 DEF Validates, files, services, history
  <2>2. /\ retired \cap Keys(calls'[c].file) = {}
        /\ retired \cap Keys(calls'[c].previous) = {}
        /\ calls'[c].pc = "install"
    BY <1>3, <1>8, <2>1 DEF RetiredCall, Validates
  <2>3. RetiredCall(calls[c])'
    BY <2>1, <2>2 DEF RetiredCall, Keys
  <2>4. QED
    BY <1>3, <1>4, <1>5, <2>1, <2>3
<1>9. ASSUME NEW c \in Clients, Works(c)
      PROVE  Single /\ Away /\ Calls
  <2>1. UNCHANGED retired /\ Others(c) /\ calls[c].pc # "idle" /\ Kept(calls'[c], calls[c])
    BY <1>9 DEF Works, Late
  <2>2. /\ retired \cap Keys(calls[c].file) = {}
        /\ retired \cap Keys(calls[c].previous) = {}
        /\ calls'[c].file = calls[c].file /\ calls'[c].previous = calls[c].previous
        /\ calls'[c].op = calls[c].op
    BY <1>3, <2>1 DEF RetiredCall, Kept
  <2>3. /\ retired \cap Keys(profiles') = {}
        /\ relay' # None => retired \cap Keys(relay') = {}
    BY <1>3, <1>9, <2>2 DEF Works
  <2>4. /\ calls'[c].pc \in {"sync", "restart", "ready"} /\ calls'[c].op # "sync"
             /\ ~calls'[c].rollback => profiles' = calls'[c].file
        /\ calls'[c].pc = "ready" => relay' = profiles'
    BY <1>3, <1>9, <2>1, <2>2 DEF Works, RetiredCall
  <2>5. RetiredCall(calls[c])'
    BY <2>1, <2>2, <2>4 DEF RetiredCall, Keys
  <2>6. QED
    BY <1>4, <1>5, <2>1, <2>3, <2>5
<1>10. ASSUME NEW c \in Clients, Ends(c)
      PROVE  Single /\ Away /\ Calls
  <2>1. calls'[c] = Idle /\ Others(c) /\ calls'[c].pc = "idle"
    BY <1>10, EndCall DEF Ends, Others, TypesInv, CallTypes, Idle
  <2>2. Single /\ \A d \in Clients : calls'[d].pc # "idle" => calls'[d] = calls[d] /\ d # c
    BY <1>3, <2>1 DEF Others
  <2>3. CASE calls[c].pc = "ready" /\ calls[c].op # "sync" /\ ~calls[c].rollback
             /\ retired' = retired \cup calls[c].old /\ UNCHANGED << profiles, relay >>
    <3>1. relay = profiles /\ profiles = calls[c].file /\ calls[c].old \cap Keys(calls[c].file) = {}
      BY <1>3, <2>3 DEF RetiredCall, KeysCall
    <3>2. Away
      BY <1>3, <2>3, <3>1
    <3>3. \A d \in Clients : calls'[d].pc = "idle"
      BY <1>3, <2>1, <2>3 DEF Others
    <3>4. QED
      BY <2>2, <3>2, <3>3 DEF RetiredCall
  <2>4. CASE UNCHANGED retired
    <3>1. Away
      <4>1. \/ profiles' = profiles
            \/ profiles' = calls[c].previous /\ calls[c].pc # "idle"
        BY <1>10 DEF Ends
      <4>2. QED
        BY <1>3, <1>10, <2>4, <4>1 DEF Ends, RetiredCall
    <3>2. \A d \in Clients : calls'[d].pc = "idle"
      BY <1>3, <1>10, <2>1 DEF Others, Ends
    <3>3. QED
      BY <2>2, <3>1, <3>2 DEF RetiredCall
  <2>5. QED
    BY <1>10, <2>3, <2>4 DEF Ends
<1>11. CASE Hosts
  <2>1. UNCHANGED << profiles, retired >> /\ (relay' = relay \/ relay' = profiles)
    BY <1>11 DEF Hosts, files
  <2>2. Away
    BY <1>3, <2>1
  <2>3. CASE UNCHANGED calls
    BY <1>3, <2>1, <2>2, <2>3 DEF RetiredCall, Keys
  <2>4. CASE calls' = [c \in Clients |-> Idle]
    <3>1. \A c \in Clients : calls'[c].pc = "idle"
      BY <2>4 DEF Idle
    <3>2. QED
      BY <2>2, <3>1 DEF RetiredCall
  <2>5. QED
    BY <1>11, <2>3, <2>4 DEF Hosts
<1>12. CASE Grows
  <2>1. UNCHANGED << profiles, relay, retired, calls >>
    BY <1>12 DEF Grows, history
  <2>2. QED
    BY <1>3, <2>1 DEF RetiredCall, Keys
<1>13. QED
  BY <1>6, <1>7, <1>8, <1>9, <1>10, <1>11, <1>12, Shapes

--------------------------------------------------------------------------------
(* Files and services.                                                     *)

\* Serving and Holds, of a backend whose process and file are given.
Runs(loaded, secrets) == loaded = secrets \/ (secrets = {} /\ loaded = None)
Holds(b, file) == env[b] = Arguments(file, b)
Other(call) == IF call.rollback THEN call.file ELSE call.previous

\* The backends whose secrets an edit changes, and those that have none before
\* and none after it.
Changes(call) ==
    {b \in Backends : Arguments(call.file, b) # Arguments(call.previous, b)}
Unused(call) ==
    {b \in Backends : Arguments(call.file, b) = {} /\ Arguments(call.previous, b) = {}}

\* The files of a call are on the backends it knows.
PlacedAt(call) ==
    /\ Placed(call.file, call.known)
    /\ call.op # "sync" => Placed(call.previous, call.known)

\* A call that began alone and has stayed alone is the only one; and without
\* doubt every call is.
AloneInv ==
    /\ \A c \in Clients : calls[c].alone =>
         /\ calls[c].pc # "idle"
         /\ \A d \in Clients : calls[d].pc # "idle" => d = c
    /\ ~doubtful => \A c \in Clients : calls[c].pc # "idle" => calls[c].alone

\* A backend that is not registered, or whose file is the helper's, has no secrets.
EnvInv ==
    /\ \A b \in Backends \ 1..registry : env[b] = {}
    /\ \A b \in fresh : env[b] = {}

\* An edit that runs alone and without doubt, phase by phase.  On its way back
\* it meets no file of the helper's: the first sync has rewritten them.
EditPhase(call) ==
    /\ call.pc \in {"assign", "validate", "install"} => InService
    /\ call.pc = "install" => call.previous = profiles
    /\ call.pc # "putback"
    /\ call.pc = "sync" =>
         /\ profiles = Target(call)
         /\ \A b \in 1..registry : Holds(b, IF b < call.at THEN Target(call) ELSE Other(call))
         /\ {b \in Changes(call) : b < call.at} \subseteq call.units
         /\ \A b \in fresh : b >= call.at /\ (call.rollback => b > call.known)
    /\ call.pc \in {"restart", "ready"} =>
         /\ profiles = Target(call)
         /\ \A b \in 1..registry : Holds(b, Target(call))
         /\ \A b \in 1..registry \ call.units : Serving(b)
    /\ call.pc \in {"sync", "restart", "ready"} =>
         /\ call.units \subseteq Changes(call) \cup Unused(call)
         /\ call.rollback => call.units \subseteq Changes(call)
    /\ call.pc = "ready" => call.units = {} /\ relay = profiles
    /\ call.pc = "restore" =>
         /\ profiles = call.file
         /\ \A b \in 1..registry : Holds(b, call.file)
    /\ call.pc \in {"sync", "restart", "ready", "restore"} =>
         \A b \in 1..registry \ Changes(call) : Serving(b)
    /\ call.pc \in {"restart", "ready", "restore"} => \A b \in fresh : b > call.known

\* A Sync that runs alone, whatever it found.
SyncPhase(call) ==
    /\ profiles = call.file
    /\ call.pc = "sync" =>
         \A b \in 1..registry :
           /\ b < call.at \/ b > call.known => Holds(b, profiles)
           /\ b > call.known => Serving(b)
    /\ call.pc \in {"restart", "ready"} =>
         /\ \A b \in 1..registry : Holds(b, profiles)
         /\ \A b \in 1..registry \ call.units : Serving(b)
    /\ call.pc = "ready" => call.units = {} /\ relay = profiles

ServiceCall(call) == call.alone =>
    /\ call.pc \in Late => PlacedAt(call)
    /\ call.op = "sync" => SyncPhase(call)
    /\ call.op # "sync" /\ ~doubtful => EditPhase(call)

\* Between calls without doubt everything serves the profiles file; in a call
\* that is alone, files and services are as far as the call has come.
ServiceInv ==
    /\ QuietMeansInService
    /\ \A c \in Clients : ServiceCall(calls[c])

\* The inductive invariant for what is in service.
AllInv == TypesInv /\ PlacedInv /\ FitsInv /\ AloneInv /\ EnvInv /\ ServiceInv

\* A list that fits is loaded whole.
LEMMA LoadedFits ==
    ASSUME FitsInv, NEW b \in Backends
    PROVE  Loaded(env[b]) = env[b]
BY DEF FitsInv, SecretsFit, Loaded

\* A backend no profile of a file is on has no secret in it.
LEMMA NoProfiles ==
    ASSUME NEW file, NEW k, Placed(file, k), NEW b, b \notin 1..k
    PROVE  Arguments(file, b) = {}
BY DEF Placed, Arguments, OnBackend

\* Doubt ends with a Sync that has run alone, and with nothing else.
LEMMA DoubtEnds ==
    ASSUME TypesInv, [Next]_vars, doubtful, ~doubtful'
    PROVE  \E c \in Clients : /\ Ready(c) /\ calls[c].op = "sync" /\ calls[c].alone
<1>1. doubtful = TRUE
  BY DEF TypesInv, DataTypes
<1>2. ASSUME NEW c \in Clients,
             \/ \E batch \in Imports : AddKeys(c, batch)
             \/ \E name \in Names : RevokeKey(c, name) \/ RotateKey(c, name)
             \/ Sync(c)
      PROVE  FALSE
  BY <1>2 DEF AddKeys, RevokeKey, RotateKey, Sync, Begin
<1>3. ASSUME NEW c \in Clients,
             \/ ChooseBackend(c) \/ ProvisionBackend(c) \/ ProvisionFails(c)
             \/ Validate(c) \/ Refuse(c) \/ Install(c) \/ SyncBackend(c)
             \/ RestartUnit(c) \/ RestartRelay(c)
      PROVE  FALSE
  BY <1>3 DEF ChooseBackend, ProvisionBackend, ProvisionFails, Validate, Refuse, Install,
              SyncBackend, RestartUnit, RestartRelay, history
<1>4. ASSUME NEW c \in Clients, SyncFails(c) \/ PutBack(c) \/ Restore(c) \/ Killed(c)
      PROVE  FALSE
  BY <1>4 DEF SyncFails, PutBack, Restore, Restored, Killed, Doubt, history
<1>5. ASSUME NEW c \in Clients, RestartFails(c) \/ NotReady(c)
      PROVE  FALSE
  BY <1>1, <1>5 DEF RestartFails, NotReady, StackFailed, Doubt, history
<1>6. ASSUME NEW c \in Clients, Ready(c)
      PROVE  calls[c].op = "sync" /\ calls[c].alone
  BY <1>6 DEF Ready
<1>7. ~(\/ Reboot \/ (\E b \in Backends : UnitRestarts(b)) \/ RelayRestarts
        \/ ProvisionByHand \/ UNCHANGED vars)
  BY DEF Reboot, UnitRestarts, RelayRestarts, ProvisionByHand, vars, history
<1>8. QED
  BY <1>2, <1>3, <1>4, <1>5, <1>6, <1>7 DEF Next

\* What files and services agree on holds at the start.
LEMMA InitService == Init => AloneInv /\ EnvInv /\ ServiceInv
<1> SUFFICES ASSUME Init PROVE AloneInv /\ EnvInv /\ ServiceInv
  OBVIOUS
<1>1. AloneInv
  BY DEF Init, AloneInv, Idle
<1>2. EnvInv
  BY DEF Init, EnvInv
<1>3. \A c \in Clients : ServiceCall(calls[c])
  BY DEF Init, ServiceCall, Idle
<1>4. InService
  <2>1. /\ registry = 1 /\ env[1] = {0} /\ running[1] = env[1] /\ relay = profiles
    BY Bounds DEF Init
  <2>2. DOMAIN profiles = {Default} /\ profiles[Default].secret.key = 0
        /\ profiles[Default].backend = 1
    BY DEF Init
  <2>3. Arguments(profiles, 1) = {0}
    BY <2>2 DEF Arguments, OnBackend, backendSecret
  <2>4. QED
    BY <2>1, <2>3 DEF InService, Serving
<1>5. QED
  BY <1>1, <1>2, <1>3, <1>4 DEF ServiceInv, QuietMeansInService

\* Every step keeps EnvInv.
LEMMA NextEnv ==
    ASSUME TypesInv, PlacedInv, EnvInv, [Next]_vars
    PROVE  EnvInv'
<1>0. /\ registry \in Nat /\ env \in [Backends -> SUBSET (0..MaxSecrets)]
      /\ fresh \subseteq Backends
  BY Bounds DEF TypesInv, DataTypes, Backends
<1>1. ASSUME NEW c \in Clients, Works(c)
      PROVE  EnvInv'
  <2>1. /\ UNCHANGED registry
        /\ \/ UNCHANGED << env, fresh >>
           \/ /\ calls[c].pc = "sync"
              /\ env' = [env EXCEPT ![calls[c].at] = Arguments(Target(calls[c]), calls[c].at)]
              /\ fresh' = fresh \ {calls[c].at}
    BY <1>1 DEF Works
  <2>2. calls[c].pc = "sync" => calls[c].at \in 1..registry
    BY LateCall, Bounds DEF CallInv, Late, Backends
  <2>3. QED
    BY <1>0, <2>1, <2>2 DEF EnvInv
<1>2. ASSUME UNCHANGED env, Added, registry' \in Backends
      PROVE  EnvInv'
  <2>1. registry' = registry + 1 /\ fresh' = fresh \cup {registry + 1}
    BY <1>2 DEF Added
  <2>2. env[registry + 1] = {}
    BY <1>0, <1>2, <2>1 DEF EnvInv
  <2>3. QED
    BY <1>0, <1>2, <2>1, <2>2 DEF EnvInv
<1>3. registry' \in Backends
  BY NextTypes DEF TypesInv, DataTypes
<1>4. ASSUME NEW c \in Clients, Assigns(c)
      PROVE  EnvInv'
  <2>1. UNCHANGED env /\ (UNCHANGED << registry, fresh >> \/ Added)
    BY <1>4 DEF Assigns
  <2>2. QED
    BY <1>2, <1>3, <2>1 DEF EnvInv
<1>5. ASSUME NEW c \in Clients, Starts(c) \/ Validates(c) \/ Ends(c)
      PROVE  EnvInv'
  BY <1>5 DEF Starts, Validates, Ends, EnvInv, files
<1>6. CASE Hosts
  BY <1>6 DEF Hosts, EnvInv, files
<1>7. CASE Grows
  BY <1>2, <1>3, <1>7 DEF Grows
<1>8. QED
  BY <1>1, <1>4, <1>5, <1>6, <1>7, Shapes

\* Every step keeps AloneInv.
LEMMA NextAlone ==
    ASSUME TypesInv, PlacedInv, AloneInv, [Next]_vars
    PROVE  AloneInv'
<1> DEFINE AloneAfter ==
             \A c \in Clients : calls'[c].alone =>
               /\ calls'[c].pc # "idle"
               /\ \A d \in Clients : calls'[d].pc # "idle" => d = c
           NoDoubt == ~doubtful' => \A c \in Clients : calls'[c].pc # "idle" => calls'[c].alone
<1>1. SUFFICES AloneAfter /\ NoDoubt
  BY DEF AloneInv
<1>2. /\ \A c \in Clients : calls[c].alone =>
           calls[c].pc # "idle" /\ \A d \in Clients : calls[d].pc # "idle" => d = c
      /\ \A c \in Clients : calls[c] = Idle => calls[c].pc = "idle"
      /\ Idle.pc = "idle" /\ ~Idle.alone
  BY DEF AloneInv, Idle
<1>3. CASE doubtful /\ ~doubtful'
  <2>1. PICK c \in Clients : Ready(c) /\ calls[c].alone
    BY <1>3, DoubtEnds
  <2>2. /\ calls'[c] = Idle /\ \A d \in Clients \ {c} : calls'[d] = calls[d]
    BY <2>1, EndCall DEF Ready, TypesInv, CallTypes
  <2>3. \A d \in Clients : calls'[d].pc = "idle" /\ ~calls'[d].alone
    BY <1>2, <2>1, <2>2
  <2>4. QED
    BY <2>3
<1>4. CASE doubtful' \/ ~doubtful
  <2>1. ~doubtful' => \A c \in Clients : calls[c].pc # "idle" => calls[c].alone
    BY <1>4 DEF AloneInv
  <2>2. ASSUME NEW c \in Clients, Starts(c)
        PROVE  AloneAfter /\ NoDoubt
    <3>1. /\ calls'[c].pc # "idle"
          /\ calls'[c].alone => \A d \in Clients : calls[d] = Idle
          /\ ~doubtful' => calls'[c].alone /\ \A d \in Clients : calls[d] = Idle
          /\ \A d \in Clients \ {c} : calls'[d].pc = calls[d].pc /\ ~calls'[d].alone
      BY <2>2 DEF Starts, StartsWith, Same
    <3>2. QED
      BY <1>2, <3>1
  <2>3. ASSUME NEW c \in Clients, calls[c].pc # "idle", calls'[c].pc # "idle",
               calls'[c].alone = calls[c].alone, Others(c)
        PROVE  AloneAfter /\ NoDoubt
    BY <1>2, <2>1, <2>3 DEF Others
  <2>4. ASSUME NEW c \in Clients, Assigns(c) \/ Validates(c) \/ Works(c)
        PROVE  AloneAfter /\ NoDoubt
    <3>1. /\ calls[c].pc # "idle" /\ calls'[c].pc # "idle"
          /\ calls'[c].alone = calls[c].alone /\ Others(c)
      BY <2>4 DEF Assigns, Validates, Works, Kept, Late
    <3>2. QED
      BY <2>3, <3>1
  <2>5. ASSUME NEW c \in Clients, Ends(c)
        PROVE  AloneAfter /\ NoDoubt
    <3>1. calls'[c] = Idle /\ \A d \in Clients \ {c} : calls'[d] = calls[d]
      BY <2>5, EndCall DEF Ends, TypesInv, CallTypes
    <3>2. QED
      BY <1>2, <2>1, <3>1
  <2>6. CASE Hosts
    <3>1. UNCHANGED calls \/ \A c \in Clients : calls'[c] = Idle
      BY <2>6 DEF Hosts
    <3>2. QED
      BY <1>2, <2>1, <3>1
  <2>7. CASE Grows
    BY <1>2, <2>1, <2>7 DEF Grows, history
  <2>8. QED
    BY <2>2, <2>4, <2>5, <2>6, <2>7, Shapes
<1>5. QED
  BY <1>3, <1>4

\* What ServiceInv says of a call that is alone.
LEMMA AloneCall ==
    ASSUME AllInv, NEW c \in Clients, calls[c].alone
    PROVE  /\ calls[c].pc # "idle"
           /\ calls[c].pc \in Late => PlacedAt(calls[c])
           /\ calls[c].op = "sync" => SyncPhase(calls[c])
           /\ calls[c].op # "sync" /\ ~doubtful => EditPhase(calls[c])
BY DEF AllInv, AloneInv, ServiceInv, ServiceCall

\* The files a call edits stay on the backends it knows.
LEMMA PlacedKept ==
    ASSUME AllInv, NEW c \in Clients, calls[c].alone, calls[c].pc \in Late,
           Kept(calls'[c], calls[c])
    PROVE  PlacedAt(calls'[c])
<1>1. PlacedAt(calls[c])
  BY AloneCall
<1>2. QED
  BY <1>1 DEF Kept, PlacedAt, Placed

\* A backend that is provisioned serves its empty list.
LEMMA AddedServes ==
    ASSUME AllInv, Added, UNCHANGED << profiles, env, relay >>, registry' \in Backends
    PROVE  /\ registry \in Nat /\ registry' = registry + 1
           /\ \A b \in 1..registry' : b \in 1..registry \/ b = registry'
           /\ env'[registry'] = {} /\ running'[registry'] = {}
           /\ \A b \in 1..registry : running'[b] = running[b]
           /\ InService => InService'
<1>1. /\ registry \in Nat /\ registry' = registry + 1 /\ 1..registry \subseteq Backends
      /\ running \in [Backends -> (SUBSET (0..MaxSecrets)) \cup {None}]
      /\ running' = [running EXCEPT ![registry + 1] = env[registry + 1]]
  BY Bounds DEF AllInv, TypesInv, DataTypes, Added, Backends
<1>2. env[registry + 1] = {}
  BY <1>1 DEF AllInv, EnvInv
<1>3. /\ env'[registry'] = {} /\ running'[registry'] = {}
      /\ \A b \in 1..registry : running'[b] = running[b]
  BY <1>1, <1>2
<1>4. \A b \in 1..registry' : b \in 1..registry \/ b = registry'
  BY <1>1
<1>5. Arguments(profiles, registry') = {}
  <2>1. registry' \notin 1..registry
    BY <1>1
  <2>2. QED
    BY <2>1, NoProfiles DEF AllInv, PlacedInv
<1>6. ASSUME InService
      PROVE  InService'
  <2>1. \A b \in 1..registry' : env'[b] = Arguments(profiles, b) /\ Serving(b)'
    BY <1>3, <1>4, <1>5, <1>6 DEF InService, Serving
  <2>2. QED
    BY <1>6, <2>1 DEF InService, Arguments, OnBackend
<1>7. QED
  BY <1>1, <1>3, <1>4, <1>6

\* A call that starts satisfies ServiceCall.
LEMMA ServiceStart ==
    ASSUME AllInv, NEW c \in Clients, Starts(c)
    PROVE  ServiceCall(calls[c])'
<1> SUFFICES ASSUME calls'[c].alone
             PROVE  ServiceCall(calls[c])'
  BY DEF ServiceCall
<1>1. /\ UNCHANGED << profiles, registry, env, running, relay >>
      /\ \A d \in Clients : calls[d] = Idle
      /\ ~doubtful' => ~doubtful
      /\ StartsWith(calls'[c]) /\ calls'[c].at = 1
  BY DEF Starts, files, services
<1>2. CASE calls'[c].op = "sync"
  <2>1. /\ calls'[c].pc = "sync" /\ calls'[c].file = profiles /\ calls'[c].known = registry
    BY <1>1, <1>2 DEF StartsWith
  <2>2. registry \in Nat
    BY Bounds DEF AllInv, TypesInv, DataTypes
  <2>3. SyncPhase(calls[c])'
    BY <1>1, <2>1, <2>2 DEF SyncPhase
  <2>4. PlacedAt(calls'[c])
    BY <1>2, <2>1 DEF AllInv, PlacedInv, PlacedAt
  <2>5. QED
    BY <1>1, <1>2, <2>1, <2>3, <2>4 DEF ServiceCall, PlacedAt, Placed
<1>3. CASE calls'[c].op # "sync"
  <2>1. calls'[c].pc \in {"assign", "validate"}
    BY <1>1, <1>3 DEF StartsWith
  <2>2. ~doubtful' => InService
    BY <1>1 DEF AllInv, ServiceInv, QuietMeansInService, Quiet
  <2>3. ~doubtful' => InService'
    BY <1>1, <2>2 DEF InService, Serving, Arguments, OnBackend
  <2>4. ~doubtful' => EditPhase(calls[c])'
    BY <2>1, <2>3 DEF EditPhase
  <2>5. QED
    BY <1>3, <2>1, <2>4 DEF ServiceCall, Late
<1>4. QED
  BY <1>2, <1>3

\* A placed profile keeps ServiceCall.
LEMMA ServiceAssign ==
    ASSUME AllInv, NEW c \in Clients, Assigns(c), TypesInv'
    PROVE  ServiceCall(calls[c])'
<1> SUFFICES ASSUME calls'[c].alone
             PROVE  ServiceCall(calls[c])'
  BY DEF ServiceCall
<1>1. /\ calls[c].pc = "assign" /\ calls'[c].pc \in {"assign", "validate"}
      /\ calls'[c].op = calls[c].op /\ calls'[c].op # "sync" /\ calls[c].alone
      /\ UNCHANGED << profiles, env, relay, doubtful >>
      /\ UNCHANGED << registry, fresh, running >> \/ Added
  BY DEF Assigns, history
<1>2. ~doubtful => InService
  BY <1>1, AloneCall DEF EditPhase
<1>3. InService => InService'
  <2>1. registry' \in Backends
    BY DEF TypesInv, DataTypes
  <2>2. CASE Added
    BY <1>1, <2>1, <2>2, AddedServes
  <2>3. CASE UNCHANGED << registry, fresh, running >>
    BY <1>1, <2>3 DEF InService, Serving, Arguments, OnBackend
  <2>4. QED
    BY <1>1, <2>2, <2>3
<1>4. ~doubtful => EditPhase(calls[c])'
  BY <1>1, <1>2, <1>3 DEF EditPhase
<1>5. QED
  BY <1>1, <1>4 DEF ServiceCall, Late

\* Validate keeps ServiceCall.
LEMMA ServiceValidate ==
    ASSUME AllInv, NEW c \in Clients, Validates(c)
    PROVE  ServiceCall(calls[c])'
<1> SUFFICES ASSUME calls'[c].alone
             PROVE  ServiceCall(calls[c])'
  BY DEF ServiceCall
<1>1. /\ calls[c].pc = "validate" /\ calls'[c].pc = "install" /\ calls[c].alone
      /\ calls'[c].op # "sync" /\ calls[c].op # "sync" /\ calls'[c].known = registry
      /\ calls'[c].previous = profiles /\ calls'[c].file = calls[c].file
      /\ Valid(calls[c].file)
      /\ UNCHANGED << profiles, registry, env, running, relay, doubtful >>
  BY DEF Validates, files, services, history
<1>2. ~doubtful => InService
  BY <1>1, AloneCall DEF EditPhase
<1>3. ~doubtful => InService'
  BY <1>1, <1>2 DEF InService, Serving, Arguments, OnBackend
<1>4. ~doubtful => EditPhase(calls[c])'
  BY <1>1, <1>3 DEF EditPhase
<1>5. PlacedAt(calls'[c])
  BY <1>1 DEF AllInv, PlacedInv, PlacedAt, Placed, Valid
<1>6. QED
  BY <1>1, <1>4, <1>5 DEF ServiceCall, PlacedAt, Placed

\* A step that keeps what a call edits keeps the backends it changes.
LEMMA ChangesKept ==
    ASSUME NEW c \in Clients, Kept(calls'[c], calls[c])
    PROVE  /\ Changes(calls[c])' = Changes(calls[c])
           /\ Unused(calls[c])' = Unused(calls[c])
           /\ calls'[c].rollback = calls[c].rollback => Target(calls[c])' = Target(calls[c])
           /\ calls'[c].rollback = calls[c].rollback => Other(calls[c])' = Other(calls[c])
BY DEF Kept, Changes, Unused, Target, Other, Arguments, OnBackend, backendSecret

\* Install keeps ServiceCall.
LEMMA ServiceInstall ==
    ASSUME AllInv, NEW c \in Clients, Install(c)
    PROVE  ServiceCall(calls[c])'
<1> SUFFICES ASSUME calls'[c].alone
             PROVE  ServiceCall(calls[c])'
  BY DEF ServiceCall
<1>1. /\ Kept(calls'[c], calls[c]) /\ calls[c].pc = "install" /\ calls'[c].pc = "sync"
      /\ calls'[c].at = 1 /\ calls'[c].units = {} /\ ~calls'[c].rollback
      /\ calls[c].op # "sync" /\ calls'[c].op # "sync" /\ calls[c].alone
      /\ calls'[c].file = calls[c].file /\ calls'[c].previous = calls[c].previous
      /\ calls'[c].known = calls[c].known
      /\ profiles' = calls[c].file
      /\ UNCHANGED << registry, env, fresh, running, doubtful >>
  BY MoveInstall DEF AllInv, Install, Kept, services, history
<1>2. registry \in Nat /\ fresh \subseteq 1..registry /\ PlacedAt(calls'[c])
      /\ \A b \in Changes(calls[c])' : ~(b < 1)
  <2>1. PlacedAt(calls'[c])
    BY <1>1, PlacedKept DEF Late
  <2>2. \A b \in Changes(calls[c])' : ~(b < 1)
    BY Bounds DEF Changes, Backends
  <2>3. QED
    BY <2>1, <2>2, Bounds DEF AllInv, TypesInv, DataTypes
<1>3. ~doubtful => InService /\ calls[c].previous = profiles
  BY <1>1, AloneCall DEF EditPhase
<1>4. ASSUME ~doubtful
      PROVE  EditPhase(calls[c])'
  <2>1. profiles' = Target(calls[c])'
    BY <1>1 DEF Target
  <2>2. \A b \in 1..registry' :
          Holds(b, IF b < calls[c].at THEN Target(calls[c]) ELSE Other(calls[c]))'
    BY <1>1, <1>2, <1>3, <1>4 DEF Holds, Other, InService
  <2>3. {b \in Changes(calls[c])' : b < calls'[c].at} \subseteq calls'[c].units
    BY <1>1, <1>2
  <2>4. \A b \in 1..registry' : Serving(b)'
    BY <1>1, <1>3, <1>4 DEF Serving, InService
  <2>5. \A b \in fresh' : b >= calls'[c].at
    BY <1>1, <1>2
  <2>6. QED
    BY <1>1, <2>1, <2>2, <2>3, <2>4, <2>5 DEF EditPhase
<1>5. QED
  BY <1>1, <1>2, <1>4 DEF ServiceCall, PlacedAt, Placed

\* SyncBackend keeps ServiceCall: the file it wrote is the one that changes.
LEMMA ServiceSyncBackend ==
    ASSUME AllInv, NEW c \in Clients, SyncBackend(c)
    PROVE  ServiceCall(calls[c])'
<1> SUFFICES ASSUME calls'[c].alone
             PROVE  ServiceCall(calls[c])'
  BY DEF ServiceCall
<1> DEFINE call == calls[c]
           b == calls[c].at
<1>1. /\ Kept(calls'[c], call) /\ call.pc = "sync" /\ b \in 1..call.known
      /\ env' = [env EXCEPT ![b] = Arguments(Target(call), b)]
      /\ fresh' = fresh \ {b}
      /\ calls'[c].rollback = call.rollback
      /\ \/ /\ b = call.known /\ calls'[c].pc = "restart"
            /\ calls'[c].units = IF call.op = "sync" THEN 1..call.known ELSE UnitsAfter(c)
         \/ /\ b < call.known /\ calls'[c].pc = "sync"
            /\ calls'[c].at = b + 1 /\ calls'[c].units = UnitsAfter(c)
  BY MoveSyncBackend DEF AllInv
<1>2. /\ calls'[c].op = call.op /\ calls'[c].file = call.file
      /\ calls'[c].known = call.known /\ call.alone
      /\ UNCHANGED << profiles, registry, running, relay, doubtful >>
      /\ Changes(call)' = Changes(call) /\ Unused(call)' = Unused(call)
      /\ Target(call)' = Target(call) /\ Other(call)' = Other(call)
  BY <1>1, ChangesKept DEF SyncBackend, Kept, services, history
<1>3. /\ registry \in Nat /\ call.known \in 1..registry /\ call.known \in Nat
      /\ b \in Nat /\ b \in 1..registry /\ 1..registry \subseteq Backends
      /\ env \in [Backends -> SUBSET (0..MaxSecrets)]
      /\ fresh \subseteq 1..registry
      /\ call.op = "sync" => ~call.rollback
      /\ PlacedAt(call) /\ PlacedAt(calls'[c])
  <2>1. /\ call.known \in 1..registry /\ call.known \in Nat /\ registry \in Nat
        /\ b \in Nat
    BY <1>1, LateCall DEF AllInv, Late
  <2>2. /\ env \in [Backends -> SUBSET (0..MaxSecrets)] /\ fresh \subseteq 1..registry
        /\ 1..registry \subseteq Backends
    BY Bounds DEF AllInv, TypesInv, DataTypes, Backends
  <2>3. call.op = "sync" => ~call.rollback
    BY CallType DEF AllInv, CallInv
  <2>4. PlacedAt(call) /\ PlacedAt(calls'[c])
    BY <1>1, <1>2, AloneCall, PlacedKept DEF Late
  <2>5. QED
    BY <1>1, <2>1, <2>2, <2>3, <2>4
<1>4. /\ env'[b] = Arguments(Target(call), b)
      /\ \A o \in 1..registry : o # b => env'[o] = env[o]
  BY <1>1, <1>3
<1>5. ASSUME call.op = "sync"
      PROVE  SyncPhase(calls[c])'
  <2>1. /\ profiles = call.file /\ Target(call) = profiles
        /\ \A o \in 1..registry : o < b \/ o > call.known => Holds(o, profiles)
        /\ \A o \in 1..registry : o > call.known => Serving(o)
    BY <1>1, <1>2, <1>3, <1>5, AloneCall DEF SyncPhase, Target
  <2>2. \A o \in 1..registry : o <= b \/ o > call.known => Holds(o, profiles)'
    BY <1>2, <1>3, <1>4, <2>1 DEF Holds, Arguments, OnBackend
  <2>3. \A o \in 1..registry : o > call.known => Serving(o)'
    BY <1>1, <1>2, <1>3, <1>4, <2>1 DEF Serving
  <2>4. CASE b = call.known /\ calls'[c].pc = "restart" /\ calls'[c].units = 1..call.known
    <3>1. \A o \in 1..registry' : Holds(o, profiles)'
      BY <1>2, <1>3, <2>2, <2>4
    <3>2. \A o \in 1..registry' \ calls'[c].units : Serving(o)'
      BY <1>2, <1>3, <2>3, <2>4
    <3>3. QED
      BY <1>2, <2>1, <2>4, <3>1, <3>2 DEF SyncPhase
  <2>5. CASE calls'[c].pc = "sync" /\ calls'[c].at = b + 1
    <3>1. \A o \in 1..registry' :
            o < calls'[c].at \/ o > calls'[c].known => Holds(o, profiles)'
      BY <1>2, <1>3, <2>2, <2>5
    <3>2. QED
      BY <1>2, <2>1, <2>3, <2>5, <3>1 DEF SyncPhase
  <2>6. QED
    BY <1>1, <1>5, <2>4, <2>5
<1>6. ASSUME call.op # "sync", ~doubtful
      PROVE  EditPhase(calls[c])'
  <2>1. /\ profiles = Target(call)
        /\ \A o \in 1..registry : Holds(o, IF o < b THEN Target(call) ELSE Other(call))
        /\ {o \in Changes(call) : o < b} \subseteq call.units
        /\ call.units \subseteq Changes(call) \cup Unused(call)
        /\ call.rollback => call.units \subseteq Changes(call)
        /\ \A o \in 1..registry \ Changes(call) : Serving(o)
        /\ \A o \in fresh : o >= b /\ (call.rollback => o > call.known)
    BY <1>1, <1>2, <1>6, AloneCall DEF EditPhase
  <2>2. /\ b \in Changes(call) <=> Arguments(Target(call), b) # Arguments(Other(call), b)
        /\ Arguments(Target(call), b) = {} /\ Arguments(Other(call), b) = {} =>
             b \in Unused(call)
    BY <1>3 DEF Changes, Unused, Target, Other
  <2>3. env[b] = Arguments(Other(call), b)
    BY <1>3, <2>1 DEF Holds
  <2>4. b \in fresh => ~call.rollback /\ (b \in Changes(call) \/ b \in Unused(call))
    <3>1. b \in fresh => env[b] = {}
      BY DEF AllInv, EnvInv
    <3>2. b <= call.known
      BY <1>1
    <3>3. QED
      BY <1>3, <2>1, <2>2, <2>3, <3>1, <3>2
  <2>5. /\ {o \in Changes(call) : o <= b} \subseteq UnitsAfter(c)
        /\ UnitsAfter(c) \subseteq Changes(call) \cup Unused(call)
        /\ call.rollback => UnitsAfter(c) \subseteq Changes(call)
    <3>1. UnitsAfter(c) = IF b \in Changes(call) \/ b \in fresh
                          THEN call.units \cup {b} ELSE call.units
      BY <2>2, <2>3 DEF UnitsAfter
    <3>2. \A o \in Changes(call) : o <= b => o < b \/ o = b
      <4>1. Changes(call) \subseteq Nat
        BY Bounds DEF Changes
      <4>2. QED
        BY <1>3, <4>1
    <3>3. {o \in Changes(call) : o <= b} \subseteq UnitsAfter(c)
      BY <2>1, <3>1, <3>2
    <3>4. QED
      BY <2>1, <2>4, <3>1, <3>3
  <2>6. \A o \in 1..registry :
          env'[o] = IF o <= b THEN Arguments(Target(call), o) ELSE Arguments(Other(call), o)
    BY <1>3, <1>4, <2>1 DEF Holds
  <2>7. \A o \in 1..registry \ Changes(call) : Serving(o)'
    <3>1. \A o \in 1..registry \ Changes(call) : env'[o] = env[o]
      BY <1>3, <1>4, <2>2, <2>3
    <3>2. QED
      BY <1>2, <2>1, <3>1 DEF Serving
  <2>8. profiles' = Target(calls[c])'
    BY <1>2, <2>1
  <2>9. CASE b = call.known /\ calls'[c].pc = "restart" /\ calls'[c].units = UnitsAfter(c)
    <3>1. \A o \in 1..registry' : Holds(o, Target(calls[c]))'
      <4>1. ASSUME NEW o \in 1..registry, o > call.known
            PROVE  Arguments(Other(call), o) = Arguments(Target(call), o)
        <5>1. o \notin 1..call.known
          BY <1>3, <4>1
        <5>2. Arguments(call.file, o) = {} /\ Arguments(call.previous, o) = {}
          BY <1>3, <1>6, <5>1, NoProfiles DEF PlacedAt
        <5>3. QED
          BY <5>2 DEF Target, Other
      <4>2. \A o \in 1..registry' : env'[o] = Arguments(Target(call), o)
        BY <1>2, <1>3, <2>6, <2>9, <4>1
      <4>3. QED
        BY <1>2, <4>2 DEF Holds, Arguments, OnBackend
    <3>2. Changes(call) \subseteq calls'[c].units
      <4>1. \A o \in Changes(call) : o \in 1..call.known
        BY <1>3, <1>6, NoProfiles DEF Changes, PlacedAt
      <4>2. QED
        BY <1>3, <2>5, <2>9, <4>1
    <3>3. \A o \in 1..registry' \ calls'[c].units : Serving(o)'
      BY <1>2, <2>7, <3>2
    <3>4. \A o \in fresh' : o > calls'[c].known
      BY <1>1, <1>2, <1>3, <2>1, <2>9
    <3>5. QED
      BY <1>1, <1>2, <2>5, <2>7, <2>8, <2>9, <3>1, <3>3, <3>4 DEF EditPhase
  <2>10. CASE calls'[c].pc = "sync" /\ calls'[c].at = b + 1 /\ calls'[c].units = UnitsAfter(c)
    <3>1. \A o \in 1..registry' :
            Holds(o, IF o < calls[c].at THEN Target(calls[c]) ELSE Other(calls[c]))'
      <4>1. \A o \in 1..registry' : env'[o] = IF o < calls'[c].at
                                               THEN Arguments(Target(call), o)
                                               ELSE Arguments(Other(call), o)
        BY <1>2, <1>3, <2>6, <2>10
      <4>2. QED
        BY <1>2, <4>1 DEF Holds, Arguments, OnBackend
    <3>2. {o \in Changes(call) : o < calls'[c].at} \subseteq calls'[c].units
      <4>1. \A o \in Changes(call) : o < b + 1 => o <= b
        <5>1. Changes(call) \subseteq Nat
          BY Bounds DEF Changes
        <5>2. QED
          BY <1>3, <5>1
      <4>2. QED
        BY <2>5, <2>10, <4>1
    <3>3. \A o \in fresh' : o >= calls'[c].at /\ (call.rollback => o > calls'[c].known)
      BY <1>1, <1>2, <1>3, <2>1, <2>10
    <3>4. QED
      BY <1>1, <1>2, <2>5, <2>7, <2>8, <2>10, <3>1, <3>2, <3>3 DEF EditPhase
  <2>11. QED
    BY <1>1, <1>6, <2>9, <2>10
<1>7. QED
  BY <1>2, <1>3, <1>5, <1>6 DEF ServiceCall, PlacedAt, Placed

\* RestartUnit keeps ServiceCall: the unit serves its file.
LEMMA ServiceRestartUnit ==
    ASSUME AllInv, NEW c \in Clients, RestartUnit(c)
    PROVE  ServiceCall(calls[c])'
<1> SUFFICES ASSUME calls'[c].alone
             PROVE  ServiceCall(calls[c])'
  BY DEF ServiceCall
<1> DEFINE call == calls[c]
           b == First(calls[c].units)
<1>1. /\ Kept(calls'[c], call) /\ call.pc = "restart" /\ calls'[c].pc = "restart"
      /\ calls'[c].rollback = call.rollback /\ b \in call.units /\ b \in Backends
      /\ running' = [running EXCEPT ![b] = Loaded(env[b])]
      /\ calls'[c].units = call.units \ {b}
  BY MoveRestartUnit DEF AllInv
<1>2. /\ calls'[c].op = call.op /\ calls'[c].file = call.file
      /\ calls'[c].known = call.known /\ call.alone
      /\ UNCHANGED << profiles, registry, env, fresh, relay, doubtful >>
      /\ Changes(call)' = Changes(call) /\ Unused(call)' = Unused(call)
      /\ Target(call)' = Target(call)
  BY <1>1, ChangesKept DEF RestartUnit, Kept, files, history
<1>3. PlacedAt(calls'[c])
  BY <1>1, <1>2, PlacedKept DEF Late
<1>4. running'[b] = env[b] /\ \A o : o # b /\ o \in Backends => running'[o] = running[o]
  BY <1>1, LoadedFits DEF AllInv, TypesInv, DataTypes
<1>5. 1..registry \subseteq Backends
  BY Bounds DEF AllInv, TypesInv, DataTypes, Backends
<1> HIDE DEF b
<1>6. /\ Runs(running'[b], env'[b])
      /\ \A o \in 1..registry : Runs(running[o], env[o]) => Runs(running'[o], env'[o])
  BY <1>1, <1>2, <1>4, <1>5 DEF Runs
<1>7. ASSUME call.op = "sync"
      PROVE  SyncPhase(calls[c])'
  <2>1. /\ profiles = call.file /\ \A o \in 1..registry : Holds(o, profiles)
        /\ \A o \in 1..registry \ call.units : Runs(running[o], env[o])
    BY <1>1, <1>2, <1>7, AloneCall DEF SyncPhase, Serving, Runs
  <2>2. \A o \in 1..registry' : Holds(o, profiles)'
    BY <1>2, <2>1 DEF Holds, Arguments, OnBackend
  <2>3. \A o \in 1..registry' \ calls'[c].units : Runs(running'[o], env'[o])
    BY <1>1, <1>2, <1>6, <2>1
  <2>4. QED
    BY <1>1, <1>2, <2>1, <2>2, <2>3 DEF SyncPhase, Serving, Runs
<1>8. ASSUME call.op # "sync", ~doubtful
      PROVE  EditPhase(calls[c])'
  <2>1. /\ profiles = Target(call) /\ \A o \in 1..registry : Holds(o, Target(call))
        /\ call.units \subseteq Changes(call) \cup Unused(call)
        /\ call.rollback => call.units \subseteq Changes(call)
        /\ \A o \in 1..registry \ call.units : Runs(running[o], env[o])
        /\ \A o \in 1..registry \ Changes(call) : Runs(running[o], env[o])
        /\ \A o \in fresh : o > call.known
    BY <1>1, <1>2, <1>8, AloneCall DEF EditPhase, Serving, Runs
  <2>2. \A o \in 1..registry' : Holds(o, Target(calls[c]))'
    BY <1>2, <2>1 DEF Holds, Arguments, OnBackend
  <2>3. /\ \A o \in 1..registry' \ calls'[c].units : Runs(running'[o], env'[o])
        /\ \A o \in 1..registry' \ Changes(calls[c])' : Runs(running'[o], env'[o])
    BY <1>1, <1>2, <1>6, <2>1
  <2>4. /\ calls'[c].units \subseteq Changes(calls[c])' \cup Unused(calls[c])'
        /\ call.rollback => calls'[c].units \subseteq Changes(calls[c])'
    BY <1>1, <1>2, <2>1
  <2>5. QED
    BY <1>1, <1>2, <2>1, <2>2, <2>3, <2>4 DEF EditPhase, Serving, Runs
<1>9. QED
  BY <1>2, <1>3, <1>7, <1>8 DEF ServiceCall, PlacedAt, Placed

\* RestartRelay keeps ServiceCall.
LEMMA ServiceRestartRelay ==
    ASSUME AllInv, NEW c \in Clients, RestartRelay(c)
    PROVE  ServiceCall(calls[c])'
<1> SUFFICES ASSUME calls'[c].alone
             PROVE  ServiceCall(calls[c])'
  BY DEF ServiceCall
<1> DEFINE call == calls[c]
<1>1. /\ Kept(calls'[c], call) /\ call.pc = "restart" /\ calls'[c].pc = "ready"
      /\ calls'[c].rollback = call.rollback /\ call.units = {} /\ calls'[c].units = {}
  BY MoveRestartRelay DEF AllInv
<1>2. /\ calls'[c].op = call.op /\ calls'[c].file = call.file
      /\ calls'[c].known = call.known /\ call.alone /\ relay' = profiles
      /\ UNCHANGED << profiles, registry, env, fresh, running, doubtful >>
      /\ Changes(call)' = Changes(call) /\ Target(call)' = Target(call)
  BY <1>1, ChangesKept DEF RestartRelay, Kept, files, history
<1>3. PlacedAt(calls'[c])
  BY <1>1, <1>2, PlacedKept DEF Late
<1>4. ASSUME call.op = "sync"
      PROVE  SyncPhase(calls[c])'
  <2>1. /\ profiles = call.file /\ \A o \in 1..registry : Holds(o, profiles)
        /\ \A o \in 1..registry : Serving(o)
    BY <1>1, <1>2, <1>4, AloneCall DEF SyncPhase
  <2>2. /\ \A o \in 1..registry' : Holds(o, profiles)'
        /\ \A o \in 1..registry' : Serving(o)'
    BY <1>2, <2>1 DEF Holds, Serving, Arguments, OnBackend
  <2>3. QED
    BY <1>1, <1>2, <2>1, <2>2 DEF SyncPhase
<1>5. ASSUME call.op # "sync", ~doubtful
      PROVE  EditPhase(calls[c])'
  <2>1. /\ profiles = Target(call) /\ \A o \in 1..registry : Holds(o, Target(call))
        /\ \A o \in 1..registry : Serving(o)
        /\ \A o \in fresh : o > call.known
    BY <1>1, <1>2, <1>5, AloneCall DEF EditPhase
  <2>2. /\ \A o \in 1..registry' : Holds(o, Target(calls[c]))'
        /\ \A o \in 1..registry' : Serving(o)'
    BY <1>2, <2>1 DEF Holds, Serving, Arguments, OnBackend
  <2>3. QED
    BY <1>1, <1>2, <2>1, <2>2 DEF EditPhase
<1>6. QED
  BY <1>2, <1>3, <1>4, <1>5 DEF ServiceCall, PlacedAt, Placed

\* The stack has not come up, and the call goes back to the previous profiles.
LEMMA ServiceFailed ==
    ASSUME AllInv, NEW c \in Clients, RestartFails(c) \/ NotReady(c), ~End(c)
    PROVE  ServiceCall(calls[c])'
<1> SUFFICES ASSUME calls'[c].alone
             PROVE  ServiceCall(calls[c])'
  BY DEF ServiceCall
<1> DEFINE call == calls[c]
<1>1. /\ StackFailed(c) /\ call.pc \in {"restart", "ready"}
      /\ UNCHANGED << profiles, registry, env, fresh >>
      /\ \/ UNCHANGED running
         \/ /\ call.pc = "restart" /\ First(call.units) \in call.units
            /\ running' = [running EXCEPT ![First(call.units)] = None]
  BY MoveFailed DEF AllInv, files, services
<1>2. /\ Kept(calls'[c], call) /\ calls'[c].pc = "restore"
      /\ call.op # "sync" /\ ~call.rollback /\ UNCHANGED doubtful
  BY <1>1, MoveStackFailed DEF AllInv, history
<1>3. /\ calls'[c].op = call.op /\ calls'[c].file = call.file
      /\ calls'[c].known = call.known /\ call.alone
      /\ Changes(call)' = Changes(call)
  BY <1>1, <1>2, ChangesKept DEF Kept
<1>4. PlacedAt(calls'[c])
  BY <1>1, <1>2, <1>3, PlacedKept DEF Late
<1>5. ASSUME ~doubtful
      PROVE  EditPhase(calls[c])'
  <2>1. /\ profiles = call.file /\ \A o \in 1..registry : Holds(o, call.file)
        /\ call.units \subseteq Changes(call) \cup Unused(call)
        /\ \A o \in 1..registry \ Changes(call) : Serving(o)
        /\ \A o \in fresh : o > call.known
    BY <1>1, <1>2, <1>3, <1>5, AloneCall DEF EditPhase, Target
  <2>2. /\ running \in [Backends -> (SUBSET (0..MaxSecrets)) \cup {None}]
        /\ 1..registry \subseteq Backends
    BY Bounds DEF AllInv, TypesInv, DataTypes, Backends
  <2>3. ASSUME NEW o \in 1..registry \ Changes(call)
        PROVE  Serving(o)'
    <3>1. CASE running'[o] = running[o]
      BY <1>1, <2>1, <3>1 DEF Serving
    <3>2. CASE call.pc = "restart" /\ o \in call.units /\ running'[o] = None
      <4>1. o \in Unused(call)
        BY <2>1, <2>3, <3>2
      <4>2. env[o] = {}
        BY <2>1, <2>3, <4>1 DEF Unused, Holds
      <4>3. QED
        BY <1>1, <3>2, <4>2 DEF Serving
    <3>3. QED
      BY <1>1, <2>2, <2>3, <3>1, <3>2
  <2>4. \A o \in 1..registry' : Holds(o, calls[c].file)'
    BY <1>1, <1>3, <2>1 DEF Holds, Arguments, OnBackend
  <2>5. QED
    BY <1>1, <1>2, <1>3, <2>1, <2>3, <2>4 DEF EditPhase
<1>6. QED
  BY <1>1, <1>2, <1>3, <1>4, <1>5 DEF ServiceCall, PlacedAt, Placed

\* Restore keeps ServiceCall: the way back has the same obligations.
LEMMA ServiceRestore ==
    ASSUME AllInv, NEW c \in Clients, Restore(c)
    PROVE  ServiceCall(calls[c])'
<1> SUFFICES ASSUME calls'[c].alone
             PROVE  ServiceCall(calls[c])'
  BY DEF ServiceCall
<1> DEFINE call == calls[c]
<1>1. /\ Kept(calls'[c], call) /\ call.pc = "restore" /\ calls'[c].pc = "sync"
      /\ call.op # "sync" /\ calls'[c].rollback = TRUE /\ calls'[c].at = 1
      /\ calls'[c].units = {}
  BY MoveRestore DEF AllInv
<1>2. /\ calls'[c].op = call.op /\ calls'[c].file = call.file
      /\ calls'[c].previous = call.previous
      /\ calls'[c].known = call.known /\ call.alone
      /\ UNCHANGED << registry, env, fresh, running, relay >>
      /\ Changes(call)' = Changes(call)
  BY <1>1, ChangesKept DEF Restore, Kept, services
<1>3. ~doubtful' => ~doubtful /\ profiles' = call.previous
  BY DEF Restore, Restored, Doubt, history
<1>4. /\ registry \in Nat /\ fresh \subseteq 1..registry /\ PlacedAt(calls'[c])
      /\ \A o \in Changes(call) : ~(o < 1)
  <2>1. PlacedAt(calls'[c])
    BY <1>1, <1>2, PlacedKept DEF Late
  <2>2. \A o \in Changes(call) : ~(o < 1)
    BY Bounds DEF Changes, Backends
  <2>3. QED
    BY <2>1, <2>2, Bounds DEF AllInv, TypesInv, DataTypes
<1>5. ASSUME ~doubtful, profiles' = call.previous
      PROVE  EditPhase(calls[c])'
  <2>1. /\ \A o \in 1..registry : Holds(o, call.file)
        /\ \A o \in 1..registry \ Changes(call) : Serving(o)
        /\ \A o \in fresh : o > call.known
    BY <1>1, <1>2, <1>5, AloneCall DEF EditPhase
  <2>2. profiles' = Target(calls[c])'
    BY <1>1, <1>2, <1>5 DEF Target
  <2>3. \A o \in 1..registry' :
          Holds(o, IF o < calls[c].at THEN Target(calls[c]) ELSE Other(calls[c]))'
    BY <1>1, <1>2, <1>4, <2>1 DEF Holds, Other
  <2>4. {o \in Changes(calls[c])' : o < calls'[c].at} \subseteq calls'[c].units
    BY <1>1, <1>2, <1>4
  <2>5. \A o \in 1..registry' \ Changes(calls[c])' : Serving(o)'
    BY <1>2, <2>1 DEF Serving
  <2>6. \A o \in fresh' : o >= calls'[c].at /\ o > calls'[c].known
    BY <1>1, <1>2, <1>4, <2>1
  <2>7. QED
    BY <1>1, <2>2, <2>3, <2>4, <2>5, <2>6 DEF EditPhase
<1>6. QED
  BY <1>1, <1>2, <1>3, <1>4, <1>5 DEF ServiceCall, PlacedAt, Placed

\* A failed write keeps ServiceCall.
LEMMA ServiceSyncFails ==
    ASSUME AllInv, NEW c \in Clients, SyncFails(c), calls[c].op # "sync"
    PROVE  ServiceCall(calls[c])'
<1>1. /\ Kept(calls'[c], calls[c]) /\ calls[c].pc = "sync" /\ doubtful' = TRUE
      /\ UNCHANGED registry
  BY MoveSyncFails DEF AllInv, SyncFails, files
<1>2. calls[c].alone => PlacedAt(calls'[c])
  BY <1>1, PlacedKept DEF Late
<1>3. QED
  BY <1>1, <1>2 DEF ServiceCall, Kept, PlacedAt, Placed

\* A call that ends without doubt leaves everything in service.
LEMMA ServiceEnds ==
    ASSUME AllInv, NEW c \in Clients, ~doubtful',
           \/ ProvisionFails(c) \/ Refuse(c) \/ PutBack(c) \/ Killed(c) \/ Ready(c)
           \/ Validate(c) /\ End(c)
           \/ SyncFails(c) /\ calls[c].op = "sync"
           \/ (RestartFails(c) \/ NotReady(c)) /\ End(c)
    PROVE  InService'
<1>0. ~doubtful /\ calls[c].pc # "idle" => calls[c].alone
  BY DEF AllInv, AloneInv
<1>1. ASSUME InService, UNCHANGED << profiles, registry, env, running, relay >>
      PROVE  InService'
  BY <1>1 DEF InService, Serving, Arguments, OnBackend
<1>2. ASSUME ~doubtful, calls[c].pc \in {"assign", "validate", "install"}
      PROVE  InService
  <2>1. calls[c].alone /\ calls[c].op # "sync"
    BY <1>0, <1>2, CallType DEF AllInv, CallInv
  <2>2. QED
    BY <1>2, <2>1, AloneCall DEF EditPhase
<1>3. CASE ProvisionFails(c) \/ Refuse(c) \/ Validate(c)
  <2>1. /\ UNCHANGED << profiles, registry, env, running, relay, doubtful >>
        /\ calls[c].pc \in {"assign", "validate", "install"}
    BY <1>3 DEF ProvisionFails, Refuse, Validate, files, services, history
  <2>2. QED
    BY <1>1, <1>2, <2>1
<1>4. CASE PutBack(c)
  <2>1. calls[c].pc = "putback" /\ ~doubtful
    BY <1>4 DEF PutBack, Restored, Doubt, history
  <2>2. calls[c].alone /\ calls[c].op # "sync"
    BY <1>0, <2>1, CallType DEF AllInv, CallInv
  <2>3. FALSE
    BY <2>1, <2>2, AloneCall DEF EditPhase
  <2>4. QED
    BY <2>3
<1>5. CASE Killed(c)
  <2>1. /\ ~doubtful /\ ~Halfway(calls[c]) /\ calls[c].pc \in PCs
        /\ calls[c].pc # "idle"
        /\ UNCHANGED << profiles, registry, env, running, relay >>
    BY <1>5, CallType DEF AllInv, Killed, CallState, CallInv, files, services
  <2>2. calls[c].pc \in {"assign", "validate", "install"}
    BY <2>1 DEF PCs, Halfway
  <2>3. QED
    BY <1>1, <1>2, <2>1, <2>2
<1>6. CASE Ready(c)
  <2>1. /\ calls[c].pc = "ready" /\ calls[c].alone
        /\ UNCHANGED << profiles, registry, env, running, relay >>
        /\ calls[c].op = "sync" \/ ~doubtful
    BY <1>0, <1>6 DEF Ready, files, services
  <2>2. CASE calls[c].op = "sync"
    <3>1. SyncPhase(calls[c])
      BY <2>1, <2>2, AloneCall
    <3>2. InService
      BY <2>1, <3>1 DEF SyncPhase, InService, Holds
    <3>3. QED
      BY <1>1, <2>1, <3>2
  <2>3. CASE calls[c].op # "sync" /\ ~doubtful
    <3>1. EditPhase(calls[c])
      BY <2>1, <2>3, AloneCall
    <3>2. InService
      BY <2>1, <3>1 DEF EditPhase, InService, Holds
    <3>3. QED
      BY <1>1, <2>1, <3>2
  <2>4. QED
    BY <2>1, <2>2, <2>3
<1>7. CASE SyncFails(c) /\ calls[c].op = "sync"
  BY <1>7, MoveSyncFails DEF AllInv
<1>8. CASE (RestartFails(c) \/ NotReady(c)) /\ End(c)
  <2>1. calls'[c] = Idle
    BY <1>8, EndCall DEF AllInv, TypesInv, CallTypes
  <2>2. calls'[c].pc # "restore"
    BY <2>1 DEF Idle
  <2>3. FALSE
    BY <1>8, <2>2, MoveFailed, MoveStackFailed DEF AllInv
  <2>4. QED
    BY <2>3
<1>9. QED
  BY <1>3, <1>4, <1>5, <1>6, <1>7, <1>8

\* The service manager restarts a service, or the host reboots.
LEMMA ServiceHosts ==
    ASSUME AllInv,
           Reboot \/ (\E b \in Backends : UnitRestarts(b)) \/ RelayRestarts \/ UNCHANGED vars
    PROVE  /\ Quiet' /\ ~doubtful' => InService'
           /\ \A c \in Clients : ServiceCall(calls[c])'
<1>0. /\ registry \in Nat /\ 1..registry \subseteq Backends
      /\ running \in [Backends -> (SUBSET (0..MaxSecrets)) \cup {None}]
  BY Bounds DEF AllInv, TypesInv, DataTypes, Backends
<1>1. CASE Reboot
  <2>1. \A c \in Clients : calls'[c] = Idle /\ ~calls'[c].alone
    BY <1>1 DEF Reboot, Idle
  <2>2. ASSUME ~doubtful'
        PROVE  InService'
    <3>1. ~doubtful /\ \A c \in Clients : ~Halfway(calls[c])
      BY <1>1, <2>2 DEF Reboot
    <3>2. InService
      <4>1. CASE Quiet
        BY <3>1, <4>1 DEF AllInv, ServiceInv, QuietMeansInService
      <4>2. CASE ~Quiet
        <5>1. PICK c \in Clients : calls[c] # Idle
          BY <4>2 DEF Quiet
        <5>2. calls[c].pc \in PCs /\ calls[c].pc # "idle"
          BY <5>1, CallType DEF AllInv, CallState, CallInv
        <5>3. calls[c].pc \in {"assign", "validate", "install"}
          BY <3>1, <5>2 DEF PCs, Halfway
        <5>4. calls[c].alone /\ calls[c].op # "sync"
          BY <3>1, <5>2, <5>3, CallType DEF AllInv, AloneInv, CallInv
        <5>5. QED
          BY <3>1, <5>3, <5>4, AloneCall DEF EditPhase
      <4>3. QED
        BY <4>1, <4>2
    <3>3. /\ relay' = profiles' /\ UNCHANGED << profiles, registry, env >>
          /\ \A b \in 1..registry : running'[b] = Loaded(env[b])
      BY <1>0, <1>1 DEF Reboot, files
    <3>4. \A b \in 1..registry : running'[b] = env[b]
      BY <1>0, <3>3, LoadedFits DEF AllInv
    <3>5. QED
      BY <3>2, <3>3, <3>4 DEF InService, Serving, Arguments, OnBackend
  <2>3. QED
    BY <2>1, <2>2 DEF ServiceCall
<1>2. ASSUME UNCHANGED << profiles, registry, env, fresh, calls, doubtful >>,
             relay' = relay \/ relay' = profiles,
             \A b \in 1..registry : Serving(b) => Serving(b)'
      PROVE  /\ Quiet' /\ ~doubtful' => InService'
             /\ \A c \in Clients : ServiceCall(calls[c])'
  <2>1. InService => InService'
    BY <1>2 DEF InService, Arguments, OnBackend
  <2>2. Quiet' /\ ~doubtful' => InService'
    BY <1>2, <2>1 DEF AllInv, ServiceInv, QuietMeansInService, Quiet
  <2>3. ASSUME NEW c \in Clients, calls[c].alone
        PROVE  ServiceCall(calls[c])'
    <3>1. \A b \in 1..registry : Serving(b) => Serving(b)'
      BY <1>2
    <3>2. Changes(calls[c])' = Changes(calls[c]) /\ Unused(calls[c])' = Unused(calls[c])
      BY <1>2 DEF Changes, Unused
    <3>3. relay = profiles => relay' = profiles'
      BY <1>2
    <3>4. SyncPhase(calls[c]) => SyncPhase(calls[c])'
      BY <1>2, <3>1, <3>3 DEF SyncPhase, Holds, Arguments, OnBackend
    <3>5. EditPhase(calls[c]) => EditPhase(calls[c])'
      BY <1>2, <2>1, <3>1, <3>2, <3>3 DEF EditPhase, Holds, Target, Other
    <3>6. QED
      BY <1>2, <2>3, <3>4, <3>5, AloneCall DEF ServiceCall, PlacedAt, Placed
  <2>4. QED
    BY <1>2, <2>2, <2>3 DEF ServiceCall
<1>3. ASSUME NEW b \in Backends, UnitRestarts(b)
      PROVE  /\ Quiet' /\ ~doubtful' => InService'
             /\ \A c \in Clients : ServiceCall(calls[c])'
  <2>1. \A o \in 1..registry : Serving(o) => Serving(o)'
    BY <1>0, <1>3, LoadedFits DEF UnitRestarts, Serving, AllInv, files
  <2>2. QED
    BY <1>2, <1>3, <2>1 DEF UnitRestarts, files, history
<1>4. CASE RelayRestarts \/ UNCHANGED vars
  BY <1>2, <1>4 DEF RelayRestarts, Serving, vars, files, services, history
<1>5. QED
  BY <1>1, <1>3, <1>4

\* A backend provisioned by hand: it is beyond those a call knows.
LEMMA ServiceGrows ==
    ASSUME AllInv, Grows, registry' \in Backends
    PROVE  /\ Quiet' /\ ~doubtful' => InService'
           /\ \A c \in Clients : ServiceCall(calls[c])'
<1>1. /\ UNCHANGED << profiles, env, relay, calls, doubtful >>
      /\ fresh' = fresh \cup {registry'}
      /\ registry \in Nat /\ registry' = registry + 1
      /\ \A b \in 1..registry' : b \in 1..registry \/ b = registry'
      /\ env'[registry'] = {} /\ running'[registry'] = {}
      /\ \A b \in 1..registry : running'[b] = running[b]
      /\ InService => InService'
  <2>1. /\ Added /\ UNCHANGED << profiles, env, relay, calls, doubtful >>
        /\ fresh' = fresh \cup {registry'}
    BY DEF Grows, Added, history
  <2>2. QED
    BY <2>1, AddedServes
<1>2. /\ Runs(running'[registry'], env'[registry'])
      /\ \A b \in 1..registry : Runs(running[b], env[b]) => Runs(running'[b], env'[b])
  BY <1>1 DEF Runs
<1>3. Quiet' /\ ~doubtful' => InService'
  BY <1>1 DEF AllInv, ServiceInv, QuietMeansInService, Quiet
<1>4. ASSUME NEW c \in Clients, calls[c].alone
      PROVE  ServiceCall(calls[c])'
  <2> DEFINE call == calls[c]
  <2>1. /\ calls'[c] = call
        /\ Changes(call)' = Changes(call) /\ Unused(call)' = Unused(call)
        /\ Target(call)' = Target(call) /\ Other(call)' = Other(call)
    BY <1>1 DEF Changes, Unused, Target, Other
  <2>2. /\ call.pc \in Late => PlacedAt(call)
        /\ call.op = "sync" => SyncPhase(call)
        /\ call.op # "sync" /\ ~doubtful => EditPhase(call)
    BY <1>4, AloneCall
  <2>3. call.pc \in Late =>
          /\ call.known \in 1..registry /\ registry' > call.known
          /\ Arguments(call.file, registry') = {}
          /\ call.op # "sync" => Arguments(call.previous, registry') = {}
    <3>1. ASSUME call.pc \in Late
          PROVE  call.known \in 1..registry /\ registry' > call.known
      BY <1>1, <3>1, LateCall DEF AllInv
    <3>2. ASSUME call.pc \in Late
          PROVE  registry' \notin 1..call.known
      BY <1>1, <3>1, <3>2
    <3>3. QED
      BY <2>2, <3>1, <3>2, NoProfiles DEF PlacedAt
  <2>4. call.pc = "sync" => call.at <= call.known /\ call.at \in Nat /\ call.known \in Nat
    BY LateCall DEF AllInv, Late, CallInv
  <2>5. ASSUME call.op = "sync"
        PROVE  SyncPhase(calls[c])'
    <3>1. /\ profiles = call.file /\ call.pc \in {"sync", "restart", "ready"}
          /\ Arguments(profiles, registry') = {}
      <4>1. call.pc \in {"sync", "restart", "ready"}
        BY <2>5, CallType DEF AllInv, CallInv
      <4>2. QED
        BY <2>2, <2>3, <2>5, <4>1 DEF SyncPhase, Late
    <3>2. CASE call.pc = "sync"
      <4>1. \A b \in 1..registry :
              /\ b < call.at \/ b > call.known => env[b] = Arguments(profiles, b)
              /\ b > call.known => Runs(running[b], env[b])
        BY <2>2, <2>5, <3>2 DEF SyncPhase, Holds, Serving, Runs
      <4>2. \A b \in 1..registry' :
              /\ b < call.at \/ b > call.known => env'[b] = Arguments(profiles, b)
              /\ b > call.known => Runs(running'[b], env'[b])
        BY <1>1, <1>2, <3>1, <4>1
      <4>3. QED
        BY <1>1, <2>1, <3>1, <3>2, <4>2 DEF SyncPhase, Holds, Serving, Runs, Arguments, OnBackend
    <3>3. CASE call.pc \in {"restart", "ready"}
      <4>1. /\ \A b \in 1..registry : env[b] = Arguments(profiles, b)
            /\ \A b \in 1..registry \ call.units : Runs(running[b], env[b])
            /\ call.pc = "ready" => call.units = {} /\ relay = profiles
        BY <2>2, <2>5, <3>3 DEF SyncPhase, Holds, Serving, Runs
      <4>2. /\ \A b \in 1..registry' : env'[b] = Arguments(profiles, b)
            /\ \A b \in 1..registry' \ call.units : Runs(running'[b], env'[b])
        BY <1>1, <1>2, <3>1, <4>1
      <4>3. QED
        BY <1>1, <2>1, <3>1, <3>3, <4>1, <4>2
           DEF SyncPhase, Holds, Serving, Runs, Arguments, OnBackend
    <3>4. QED
      BY <3>1, <3>2, <3>3
  <2>6. ASSUME call.op # "sync", ~doubtful
        PROVE  EditPhase(calls[c])'
    <3>1. EditPhase(call)
      BY <2>2, <2>6
    <3>2. CASE call.pc \in {"sync", "restart", "ready", "restore"}
      <4>1. /\ Arguments(Target(call), registry') = {} /\ Arguments(Other(call), registry') = {}
            /\ Arguments(call.file, registry') = {}
        BY <2>3, <2>6, <3>2 DEF Target, Other, Late
      <4>2. \A b \in 1..registry' \ Changes(call) : Runs(running'[b], env'[b])
        <5>1. \A b \in 1..registry \ Changes(call) : Runs(running[b], env[b])
          BY <3>1, <3>2 DEF EditPhase, Serving, Runs
        <5>2. QED
          BY <1>1, <1>2, <5>1
      <4>3. CASE call.pc = "sync"
        <5>1. /\ \A b \in 1..registry :
                   env[b] = IF b < call.at THEN Arguments(Target(call), b)
                            ELSE Arguments(Other(call), b)
              /\ \A b \in fresh : b >= call.at /\ (call.rollback => b > call.known)
          BY <3>1, <4>3 DEF EditPhase, Holds
        <5>2. \A b \in 1..registry' :
                env'[b] = IF b < call.at THEN Arguments(Target(call), b)
                          ELSE Arguments(Other(call), b)
          BY <1>1, <4>1, <5>1
        <5>3. ASSUME NEW b \in 1..registry'
              PROVE  Holds(b, IF b < calls[c].at THEN Target(calls[c]) ELSE Other(calls[c]))'
          <6>1. CASE b < calls'[c].at
            <7>1. env'[b] = Arguments(Target(call), b)
              BY <2>1, <5>2, <6>1
            <7>2. QED
              BY <2>1, <6>1, <7>1 DEF Holds, Arguments, OnBackend
          <6>2. CASE ~(b < calls'[c].at)
            <7>1. env'[b] = Arguments(Other(call), b)
              BY <2>1, <5>2, <6>2
            <7>2. QED
              BY <2>1, <6>2, <7>1 DEF Holds, Arguments, OnBackend
          <6>3. QED
            BY <6>1, <6>2
        <5>4. registry' >= call.at /\ registry' > call.known
          BY <1>1, <2>3, <2>4, <4>3 DEF Late
        <5>5. \A b \in fresh' : b >= call.at /\ (call.rollback => b > call.known)
          BY <1>1, <5>1, <5>4
        <5>6. QED
          BY <1>1, <2>1, <3>1, <4>2, <4>3, <5>3, <5>5 DEF EditPhase, Serving, Runs
      <4>4. CASE call.pc \in {"restart", "ready"}
        <5>1. /\ \A b \in 1..registry : env[b] = Arguments(Target(call), b)
              /\ \A b \in 1..registry \ call.units : Runs(running[b], env[b])
              /\ \A b \in fresh : b > call.known
          BY <3>1, <4>4 DEF EditPhase, Holds, Serving, Runs
        <5>2. /\ \A b \in 1..registry' : env'[b] = Arguments(Target(call), b)
              /\ \A b \in 1..registry' \ call.units : Runs(running'[b], env'[b])
          BY <1>1, <1>2, <4>1, <5>1
        <5>3. \A b \in 1..registry' : Holds(b, Target(calls[c]))'
          BY <2>1, <5>2 DEF Holds, Arguments, OnBackend
        <5>4. \A b \in fresh' : b > call.known
          BY <1>1, <2>3, <4>4, <5>1 DEF Late
        <5>5. QED
          BY <1>1, <2>1, <3>1, <4>2, <4>4, <5>2, <5>3, <5>4 DEF EditPhase, Serving, Runs
      <4>5. CASE call.pc = "restore"
        <5>1. /\ \A b \in 1..registry : env[b] = Arguments(call.file, b)
              /\ \A b \in fresh : b > call.known
          BY <3>1, <4>5 DEF EditPhase, Holds
        <5>2. \A b \in 1..registry' : env'[b] = Arguments(call.file, b)
          BY <1>1, <4>1, <5>1
        <5>3. \A b \in 1..registry' : Holds(b, calls[c].file)'
          BY <2>1, <5>2 DEF Holds, Arguments, OnBackend
        <5>4. \A b \in fresh' : b > call.known
          BY <1>1, <2>3, <4>5, <5>1 DEF Late
        <5>5. QED
          BY <1>1, <2>1, <3>1, <4>2, <4>5, <5>3, <5>4 DEF EditPhase, Serving, Runs
      <4>6. QED
        BY <3>2, <4>3, <4>4, <4>5
    <3>3. CASE call.pc \notin {"sync", "restart", "ready", "restore"}
      BY <1>1, <2>1, <3>1, <3>3 DEF EditPhase
    <3>4. QED
      BY <3>2, <3>3
  <2>7. QED
    BY <1>1, <2>1, <2>2, <2>5, <2>6 DEF ServiceCall, PlacedAt, Placed
<1>5. QED
  BY <1>1, <1>3, <1>4 DEF ServiceCall

\* Every step keeps ServiceInv.
LEMMA NextService ==
    ASSUME AllInv, [Next]_vars
    PROVE  ServiceInv'
<1> DEFINE After == /\ Quiet' /\ ~doubtful' => InService'
                    /\ \A c \in Clients : ServiceCall(calls[c])'
<1>0. SUFFICES After
  BY DEF ServiceInv, QuietMeansInService
<1>1. TypesInv'
  BY NextTypes DEF AllInv
<1>2. Idle.pc = "idle" /\ ~Idle.alone
  BY DEF Idle
<1>3. \A c \in Clients : calls[c].alone => \A d \in Clients : calls[d].pc # "idle" => d = c
  BY DEF AllInv, AloneInv
\* A client's step settles its own call; no other call is alone beside it.
<1>4. ASSUME NEW c \in Clients, calls[c].pc # "idle", calls'[c].pc # "idle", Others(c),
             ServiceCall(calls[c])'
      PROVE  After
  <2>1. ~Quiet'
    BY <1>2, <1>4 DEF Quiet
  <2>2. ASSUME NEW d \in Clients \ {c}
        PROVE  ServiceCall(calls[d])'
    <3>1. calls'[d] = calls[d] /\ ~calls[d].alone
      BY <1>3, <1>4 DEF Others
    <3>2. QED
      BY <3>1 DEF ServiceCall
  <2>3. QED
    BY <1>4, <2>1, <2>2
<1>5. ASSUME NEW c \in Clients, calls[c].pc # "idle", End(c), ~doubtful' => InService'
      PROVE  After
  <2>1. calls'[c] = Idle /\ \A d \in Clients \ {c} : calls'[d] = calls[d] /\ ~calls[d].alone
    BY <1>3, <1>5, EndCall DEF AllInv, TypesInv, CallTypes
  <2>2. QED
    BY <1>2, <1>5, <2>1 DEF ServiceCall
<1>6. ASSUME NEW c \in Clients,
             \/ \E batch \in Imports : AddKeys(c, batch)
             \/ \E name \in Names : RevokeKey(c, name) \/ RotateKey(c, name)
             \/ Sync(c)
      PROVE  After
  <2>1. Starts(c)
    BY <1>6, StartShape DEF AllInv
  <2>2. ServiceCall(calls[c])'
    BY <2>1, ServiceStart
  <2>3. calls'[c].pc # "idle" /\ \A d \in Clients \ {c} : ~calls'[d].alone
    BY <2>1 DEF Starts, StartsWith
  <2>4. ~Quiet'
    BY <1>2, <2>3 DEF Quiet
  <2>5. \A d \in Clients \ {c} : ServiceCall(calls[d])'
    BY <2>3 DEF ServiceCall
  <2>6. QED
    BY <2>2, <2>4, <2>5
<1>7. ASSUME NEW c \in Clients, ChooseBackend(c) \/ ProvisionBackend(c)
      PROVE  After
  <2>1. Assigns(c)
    BY <1>7, AssignShape DEF AllInv
  <2>2. ServiceCall(calls[c])'
    BY <1>1, <2>1, ServiceAssign
  <2>3. calls[c].pc # "idle" /\ calls'[c].pc # "idle" /\ Others(c)
    BY <2>1 DEF Assigns
  <2>4. QED
    BY <1>4, <2>2, <2>3
<1>8. ASSUME NEW c \in Clients, Validate(c), ~End(c)
      PROVE  After
  <2>1. Validates(c)
    BY <1>8, ValidateShape DEF AllInv
  <2>2. ServiceCall(calls[c])'
    BY <2>1, ServiceValidate
  <2>3. calls[c].pc # "idle" /\ calls'[c].pc # "idle" /\ Others(c)
    BY <2>1 DEF Validates
  <2>4. QED
    BY <1>4, <2>2, <2>3
<1>9. ASSUME NEW c \in Clients,
             \/ Install(c) \/ SyncBackend(c) \/ RestartUnit(c) \/ RestartRelay(c) \/ Restore(c)
             \/ SyncFails(c) /\ calls[c].op # "sync"
             \/ (RestartFails(c) \/ NotReady(c)) /\ ~End(c)
      PROVE  After
  <2>1. Works(c)
    BY <1>9, MoveFailed, MoveStackFailed, WorkShape DEF AllInv
  <2>2. ServiceCall(calls[c])'
    BY <1>9, ServiceInstall, ServiceSyncBackend, ServiceRestartUnit, ServiceRestartRelay,
       ServiceRestore, ServiceSyncFails, ServiceFailed
  <2>3. calls[c].pc # "idle" /\ calls'[c].pc # "idle" /\ Others(c)
    BY <2>1 DEF Works, Late
  <2>4. QED
    BY <1>4, <2>2, <2>3
<1>10. ASSUME NEW c \in Clients,
             \/ ProvisionFails(c) \/ Refuse(c) \/ PutBack(c) \/ Killed(c) \/ Ready(c)
             \/ Validate(c) /\ End(c)
             \/ SyncFails(c) /\ calls[c].op = "sync"
             \/ (RestartFails(c) \/ NotReady(c)) /\ End(c)
      PROVE  After
  <2>1. Ends(c)
    BY <1>10, EndShape DEF AllInv
  <2>2. ~doubtful' => InService'
    BY <1>10, ServiceEnds
  <2>3. calls[c].pc # "idle" /\ End(c)
    BY <2>1 DEF Ends
  <2>4. QED
    BY <1>5, <2>2, <2>3
<1>11. CASE Reboot \/ (\E b \in Backends : UnitRestarts(b)) \/ RelayRestarts \/ UNCHANGED vars
  BY <1>11, ServiceHosts
<1>12. CASE ProvisionByHand
  BY <1>1, <1>12, GrowShape, ServiceGrows DEF TypesInv, DataTypes
<1> HIDE DEF After
<1>13. QED
  BY <1>6, <1>7, <1>8, <1>9, <1>10, <1>11, <1>12 DEF Next

--------------------------------------------------------------------------------
(* The theorems.                                                           *)

\* The inductive invariant holds in every reachable state: types, backends,
\* lists that fit, calls that are alone, and what is in service.
THEOREM Invariance == Spec => []AllInv
<1>1. Init => AllInv
  BY InitTypes, InitPlaced, InitFits, InitService DEF AllInv
<1>2. AllInv /\ [Next]_vars => AllInv'
  BY NextTypes, NextPlaced, NextFits, NextAlone, NextEnv, NextService DEF AllInv
<1>3. QED
  BY <1>1, <1>2, PTL DEF Spec

\* The variables of the keys panel have their types.
THEOREM TypeCorrect == Spec => []TypeOK
<1>1. AllInv => TypeOK
  BY TypesMeanTypeOK DEF AllInv
<1>2. QED
  BY <1>1, Invariance, PTL

\* No environment file ever holds more secrets than MTProxy takes, however many
\* calls run and overlap and wherever they fail.
THEOREM SecretsAlwaysFit == Spec => []SecretsFit
<1>1. AllInv => SecretsFit
  BY DEF AllInv, FitsInv
<1>2. QED
  BY <1>1, Invariance, PTL

\* Between calls, unless doubt is left, the relay and every backend serve exactly
\* the profiles file: Apply, its rollback and Sync keep them together.
THEOREM QuietServes == Spec => []QuietMeansInService
<1>1. AllInv => QuietMeansInService
  BY DEF AllInv, ServiceInv
<1>2. QED
  BY <1>1, Invariance, PTL

\* An edit and its rollback disconnect no users but those of the backends whose
\* secrets they change.  A backend without users is restarted by the edit that
\* first rewrites the file the helper gave it, never by the way back.
THEOREM OthersAreLeftAlone == Spec => []OnlyAffectedRestart
<1>1. AllInv => OnlyAffectedRestart
  <2> SUFFICES ASSUME AllInv, NEW c \in Clients, calls[c].pc = "restart",
                      calls[c].op # "sync", ~doubtful, NEW b \in calls[c].units
               PROVE  \/ Arguments(calls[c].file, b) # Arguments(calls[c].previous, b)
                      \/ Arguments(calls[c].previous, b) = {} /\ ~calls[c].rollback
    BY DEF OnlyAffectedRestart
  <2>1. calls[c].alone
    BY DEF AllInv, AloneInv
  <2>2. EditPhase(calls[c])
    BY <2>1, AloneCall
  <2>3. /\ b \in Changes(calls[c]) \/ b \in Unused(calls[c])
        /\ calls[c].rollback => b \in Changes(calls[c])
    BY <2>2 DEF EditPhase
  <2>4. calls[c].rollback \in BOOLEAN
    BY CallType DEF AllInv, CallState
  <2>5. QED
    BY <2>3, <2>4 DEF Changes, Unused
<1>2. QED
  BY <1>1, Invariance, PTL

\* A secret whose revocation or rotation was reported never comes back, as long
\* as no two calls overlap.
THEOREM RetiredNeverReturns == Spec => []RetiredStaysRetired
<1> DEFINE Inv == TypesInv /\ PlacedInv /\ KeysInv /\ RetiredInv
<1>1. Init => Inv
  BY InitTypes, InitPlaced, InitKeys, InitRetired
<1>2. Inv /\ [Next]_vars => Inv'
  BY NextTypes, NextPlaced, NextKeys, NextRetired
<1>3. Inv => RetiredStaysRetired
  <2> SUFFICES ASSUME Inv, ~overlapped
               PROVE  retired \cap (KeysOf(profiles) \cup
                        (IF relay = None THEN {} ELSE KeysOf(relay))) = {}
    BY DEF RetiredStaysRetired
  <2>1. KeysOf(profiles) = Keys(profiles) /\ (relay # None => KeysOf(relay) = Keys(relay))
    BY KeysOfFile DEF TypesInv, DataTypes
  <2>2. QED
    BY <2>1 DEF RetiredInv
<1>4. QED
  BY <1>1, <1>2, <1>3, PTL DEF Spec
================================================================================
