------------------------------- MODULE KeysPanel -------------------------------
(***************************************************************************)
(* The keys panel: the command line and the web panel change the relay's   *)
(* profiles file, the secret list of every MTProxy backend and the         *)
(* services that read them.  There is no lock: a call loads the profiles,  *)
(* builds a candidate, and Apply installs it, rewrites the environment     *)
(* files one by one, restarts what changed, and rolls back on failure.     *)
(* Any write, check or restart can fail, a call can be killed and the host *)
(* can reboot between two steps.  The order of profiles in the file is     *)
(* left out: calls keep it, so two secret lists are equal when their sets  *)
(* are.  Of the text of an environment file two things are kept: its       *)
(* secrets, and whether it is still the text the provisioning helper wrote *)
(* or already the one the panel writes.                                    *)
(***************************************************************************)
EXTENDS Naturals, FiniteSets, Sequences

CONSTANTS
    Clients,                \* concurrent calls: a command, a web request
    Names,                  \* key names
    Default,                \* the key the installer creates
    Imports,                \* batches of new names, as sequences
    None,                   \* a service that is down
    MaxBackends,            \* the helper's bound on backends
    MaxSecretsPerBackend,
    MaxProfiles,            \* limits.max_profiles of the relay
    MaxSecrets,             \* bound: secrets generated
    MaxCalls,               \* bound: calls begun
    MaxFaults               \* bound: failures, kills and reboots

ASSUME KeysPanelAssumption ==
    /\ Default \in Names
    /\ {MaxBackends, MaxSecretsPerBackend, MaxProfiles} \subseteq Nat \ {0}
    /\ {MaxSecrets, MaxCalls, MaxFaults} \subseteq Nat
    /\ Imports \subseteq Seq(Names) \ {<< >>}

VARIABLES
    profiles,   \* the profiles file: a function on the names it lists
    registry,   \* the backends 1..registry are registered
    leftover,   \* a half-finished provisioning left its environment file
    env,        \* the secrets in each backend's environment file
    fresh,      \* the backends whose file is still the helper's text
    running,    \* the secrets each backend process was started with
    relay,      \* the profiles the relay process was started with
    minted,     \* secrets generated so far
    calls,      \* what each client is doing
    begun, faults,
    doubtful,   \* history: a step failed halfway or calls overlapped, and no
                \* Sync has succeeded on its own since
    overlapped, \* history: two calls that change keys have overlapped
    retired     \* history: the secrets revoked or replaced with success

files == << profiles, registry, leftover, env, fresh >>
services == << running, relay >>
history == << doubtful, overlapped, retired >>
vars == << files, services, minted, calls, begun, faults, history >>

Backends == 1..MaxBackends

\* A secret as the profiles file has it: sixteen bytes, perhaps behind "dd".
Secret == [dd : BOOLEAN, key : 0..MaxSecrets]
Profile == [secret : Secret, backend : Backends]
ProfileFile == UNION { [D -> Profile] : D \in SUBSET Names }

\* NewSecret
NewSecret == [dd |-> FALSE, key |-> minted + 1]

\* backendSecret: MTProxy takes the bare value.
backendSecret(secret) == secret.key

OnBackend(file, b) == { n \in DOMAIN file : file[n].backend = b }

\* syncBackendSecrets: the arguments it computes for one backend.
Arguments(file, b) == { backendSecret(file[n].secret) : n \in OnBackend(file, b) }

KeysOf(file) == UNION { Arguments(file, b) : b \in Backends }

First(S) == CHOOSE b \in S : \A other \in S : b <= other

\* pickBackend: the backends with room for one more secret.
WithRoom(known, file) ==
    { b \in 1..known : Cardinality(OnBackend(file, b)) < MaxSecretsPerBackend }

\* What Apply demands of a candidate before it touches anything.
Valid(file) ==
    /\ DOMAIN file # {}
    /\ Cardinality(DOMAIN file) <= MaxProfiles
    /\ \A m, n \in DOMAIN file : m # n => file[m].secret # file[n].secret
    /\ \A n \in DOMAIN file : file[n].backend \in 1..registry
    /\ \A b \in 1..registry : Cardinality(OnBackend(file, b)) <= MaxSecretsPerBackend

--------------------------------------------------------------------------------

(* A call.  "file" is its candidate, "previous" what Apply read before it  *)
(* installed, "known" the registry it loaded, "at" the backend             *)
(* syncBackendSecrets has come to, "changed" the units of the first sync,  *)
(* "units" those still to restart.  "alone" is history: no other change of *)
(* keys ran since it began.                                                *)
Idle == [pc |-> "idle", op |-> "none", todo |-> << >>,
         file |-> << >>, previous |-> << >>, known |-> 0, at |-> 1,
         changed |-> {}, units |-> {}, rollback |-> FALSE,
         old |-> {}, alone |-> FALSE]

\* The installation has ended with a Sync, as keys-panel/README.md asks.
Init ==
    /\ profiles = [n \in {Default} |-> [secret |-> [dd |-> TRUE, key |-> 0], backend |-> 1]]
    /\ registry = 1
    /\ leftover = FALSE
    /\ env = [b \in Backends |-> IF b = 1 THEN {0} ELSE {}]
    /\ fresh = {}
    /\ running = [b \in Backends |-> IF b = 1 THEN {0} ELSE None]
    /\ relay = profiles
    /\ minted = 0
    /\ calls = [c \in Clients |-> Idle]
    /\ begun = 0 /\ faults = 0
    /\ doubtful = FALSE /\ overlapped = FALSE /\ retired = {}

\* A fault happens: bounded, and counted.
Fault == faults < MaxFaults /\ faults' = faults + 1
NoFault == UNCHANGED faults

Doubt == doubtful' = TRUE /\ UNCHANGED << overlapped, retired >>

Continue(c, call) == calls' = [calls EXCEPT ![c] = call]
End(c) == Continue(c, Idle)

\* A call begins.  Calls refused for their arguments change nothing and are
\* left out.
Begin(c, call) ==
    LET meets == \E d \in Clients : calls[d] # Idle
    IN  /\ calls[c] = Idle
        /\ begun < MaxCalls
        /\ begun' = begun + 1
        /\ calls' = [d \in Clients |->
                        IF d = c THEN [call EXCEPT !.alone = ~meets]
                        ELSE [calls[d] EXCEPT !.alone = FALSE]]
        /\ overlapped' = (overlapped \/ meets)
        /\ doubtful' = (doubtful \/ meets)
        /\ UNCHANGED << files, services, faults, retired >>

\* AddKeys, up to the assignment of backends: the whole batch is validated
\* against the file just loaded.
AddKeys(c, batch) ==
    LET names == { batch[i] : i \in DOMAIN batch }
    IN  /\ names \cap DOMAIN profiles = {}
        /\ Cardinality(DOMAIN profiles) + Len(batch) <= MaxProfiles
        /\ Begin(c, [Idle EXCEPT !.pc = "assign", !.op = "add",
                     !.todo = batch, !.file = profiles, !.known = registry])
        /\ UNCHANGED minted

RevokeKey(c, name) ==
    /\ name \in DOMAIN profiles
    /\ DOMAIN profiles # {name}
    /\ Begin(c, [Idle EXCEPT !.pc = "validate", !.op = "revoke", 
                 !.file = [n \in DOMAIN profiles \ {name} |-> profiles[n]],
                 !.old = {backendSecret(profiles[name].secret)}])
    /\ UNCHANGED minted

RotateKey(c, name) ==
    /\ name \in DOMAIN profiles
    /\ minted < MaxSecrets
    /\ minted' = minted + 1
    /\ Begin(c, [Idle EXCEPT !.pc = "validate", !.op = "rotate", 
                 !.file = [profiles EXCEPT ![name].secret = NewSecret],
                 !.old = {backendSecret(profiles[name].secret)}])

Sync(c) ==
    /\ Begin(c, [Idle EXCEPT !.pc = "sync", !.op = "sync", !.file = profiles,
                 !.known = registry])
    /\ UNCHANGED minted

--------------------------------------------------------------------------------

\* One turn of AddKeys' loop, with the backend chosen.
Assign(c, known, b) ==
    LET call == calls[c]
        name == Head(call.todo)
        profile == [secret |-> NewSecret, backend |-> b]
    IN  /\ minted < MaxSecrets
        /\ minted' = minted + 1
        /\ Continue(c, [call EXCEPT
               !.file = [n \in DOMAIN @ \cup {name} |-> IF n = name THEN profile ELSE @[n]],
               !.todo = Tail(@),
               !.known = known,
               !.pc = IF Len(call.todo) = 1 THEN "validate" ELSE "assign"])

\* Mutant: pickBackend's empty answer is taken for a backend.
ChooseBackendUnchecked(c) ==
    LET room == WithRoom(calls[c].known, calls[c].file)
    IN  /\ calls[c].pc = "assign"
        /\ Assign(c, calls[c].known, IF room = {} THEN 0 ELSE First(room))
        /\ UNCHANGED << files, services, begun, faults, history >>

ChooseBackend(c) ==
    LET room == WithRoom(calls[c].known, calls[c].file)
    IN  /\ calls[c].pc = "assign"
        /\ room # {}
        /\ Assign(c, calls[c].known, First(room))
        /\ UNCHANGED << files, services, begun, faults, history >>

\* provision-mtproxy-backend.sh: it writes an environment file with ports and
\* no secret, starts the backend and registers it last.
Provision ==
    /\ registry < MaxBackends /\ ~leftover
    /\ registry' = registry + 1
    /\ running' = [running EXCEPT ![registry + 1] = env[registry + 1]]
    /\ fresh' = fresh \cup {registry + 1}

\* Run by hand, to add capacity ahead of time.
ProvisionByHand ==
    /\ Provision
    /\ UNCHANGED << profiles, leftover, env, relay, minted, calls, begun, faults, history >>

\* Every backend it knows is full: the helper adds one, the registry is loaded
\* again, and the first with room is taken.
ProvisionBackend(c) ==
    LET room == WithRoom(registry + 1, calls[c].file)
    IN  /\ calls[c].pc = "assign"
        /\ WithRoom(calls[c].known, calls[c].file) = {}
        /\ Provision
        /\ Assign(c, registry + 1, First(room))
        /\ UNCHANGED << profiles, leftover, env, relay, begun, faults, history >>

\* The helper refuses past its bound or over a file it finds, or fails
\* halfway with or without leaving such a file.
ProvisionFails(c) ==
    /\ calls[c].pc = "assign"
    /\ WithRoom(calls[c].known, calls[c].file) = {}
    /\ \/ /\ registry = MaxBackends \/ leftover
          /\ NoFault /\ UNCHANGED leftover
       \/ /\ registry < MaxBackends /\ ~leftover
          /\ Fault /\ leftover' \in BOOLEAN
    /\ End(c)
    /\ UNCHANGED << profiles, registry, env, fresh, services, minted, begun, history >>

--------------------------------------------------------------------------------

\* Apply, up to the dry run.
Validate(c) ==
    /\ calls[c].pc = "validate"
    /\ IF Valid(calls[c].file)
       THEN Continue(c, [calls[c] EXCEPT !.pc = "install", !.known = registry,
                                         !.previous = profiles])
       ELSE End(c)
    /\ UNCHANGED << files, services, minted, begun, faults, history >>

\* The dry run rejects the candidate, or it cannot be written.
Refuse(c) ==
    /\ calls[c].pc = "install"
    /\ Fault
    /\ End(c)
    /\ UNCHANGED << files, services, minted, begun, history >>

Install(c) ==
    /\ calls[c].pc = "install"
    /\ profiles' = calls[c].file
    /\ Continue(c, [calls[c] EXCEPT !.pc = "sync"])
    /\ UNCHANGED << registry, leftover, env, fresh, services, minted, begun, faults, history >>

\* The file syncBackendSecrets works from: the previous one in a rollback.
Target(call) == IF call.rollback THEN call.previous ELSE call.file

\* The text of an environment file, as far as it is kept.
Text(b) == [secrets |-> env[b], helper |-> b \in fresh]

\* Mutant: the old secret lines are kept with the foreign ones.
upsertSecretArgsKept(existing, arguments) ==
    [secrets |-> existing.secrets \cup arguments, helper |-> FALSE]

\* upsertSecretArgs: the two secret lines are replaced, the others kept.  The
\* helper's text has one of the two lines and not the header, so it changes
\* even when the list stays empty.
upsertSecretArgs(existing, arguments) == [secrets |-> arguments, helper |-> FALSE]

\* Mutant: every backend is restarted, changed or not.
SyncBackendRestartsAll(c) ==
    LET call == calls[c]
        b == call.at
    IN  /\ call.pc = "sync"
        /\ env' = [env EXCEPT ![b] = Arguments(Target(call), b)]
        /\ fresh' = fresh \ {b}
        /\ Continue(c, IF b = call.known
               THEN [call EXCEPT !.pc = "restart", !.at = 1, !.units = 1..b, !.changed = 1..b]
               ELSE [call EXCEPT !.at = b + 1])
        /\ UNCHANGED << profiles, registry, leftover, services, minted, begun, faults, history >>

\* One turn of the loop of syncBackendSecrets: the file is written, and its
\* unit is to be restarted, when its text changes.
SyncBackend(c) ==
    LET call == calls[c]
        b == call.at
        content == upsertSecretArgs(Text(b), Arguments(Target(call), b))
        units == IF content = Text(b) THEN call.units ELSE call.units \cup {b}
        last == b = call.known
        restart == IF call.op = "sync" THEN 1..call.known ELSE units
    IN  /\ call.pc = "sync"
        /\ env' = [env EXCEPT ![b] = content.secrets]
        /\ fresh' = fresh \ {b}
        /\ Continue(c, IF last
               THEN [call EXCEPT !.pc = "restart", !.at = 1, !.units = restart,
                                 !.changed = IF call.rollback THEN @ ELSE restart]
               ELSE [call EXCEPT !.at = b + 1, !.units = units])
        /\ UNCHANGED << profiles, registry, leftover, services, minted, begun, faults, history >>

\* An environment file cannot be read or written.  Apply only puts the
\* profiles back; a rollback goes on with the units of the first attempt.
SyncFails(c) ==
    LET call == calls[c]
    IN  /\ call.pc = "sync"
        /\ Fault
        /\ Doubt
        /\ CASE call.op = "sync" -> End(c)
             [] call.rollback -> Continue(c, [call EXCEPT !.pc = "restart", !.at = 1,
                                                          !.units = call.changed])
             [] OTHER -> Continue(c, [call EXCEPT !.pc = "putback"])
        /\ UNCHANGED << files, services, minted, begun >>

\* restore: the previous profiles are written back; a failure is ignored.
Restored(call) ==
    \/ profiles' = call.previous /\ NoFault /\ UNCHANGED history
    \/ Fault /\ Doubt /\ UNCHANGED profiles

\* Apply returns after a failed sync.
PutBack(c) ==
    /\ calls[c].pc = "putback"
    /\ Restored(calls[c])
    /\ End(c)
    /\ UNCHANGED << registry, leftover, env, fresh, services, minted, begun >>

--------------------------------------------------------------------------------

\* MTProxy aborts past its limit.
Loaded(secrets) == IF Cardinality(secrets) <= MaxSecretsPerBackend THEN secrets ELSE None

RestartUnit(c) ==
    LET b == First(calls[c].units)
    IN  /\ calls[c].pc = "restart"
        /\ calls[c].units # {}
        /\ running' = [running EXCEPT ![b] = Loaded(env[b])]
        /\ Continue(c, [calls[c] EXCEPT !.units = @ \ {b}])
        /\ UNCHANGED << files, relay, minted, begun, faults, history >>

\* Mutant: the relay is restarted only when some secret list has changed.
RestartRelayIfChanged(c) ==
    /\ calls[c].pc = "restart"
    /\ calls[c].units = {}
    /\ relay' = IF calls[c].changed = {} THEN relay ELSE profiles
    /\ Continue(c, [calls[c] EXCEPT !.pc = "ready"])
    /\ UNCHANGED << files, running, minted, begun, faults, history >>

RestartRelay(c) ==
    /\ calls[c].pc = "restart"
    /\ calls[c].units = {}
    /\ relay' = profiles
    /\ Continue(c, [calls[c] EXCEPT !.pc = "ready"])
    /\ UNCHANGED << files, running, minted, begun, faults, history >>

\* serveReady: the relay answers and can dial the backend of every profile.
StackReady ==
    /\ relay # None
    /\ \A n \in DOMAIN relay : running[relay[n].backend] # None

\* restartStack has failed: the first time Apply rolls back, the second time
\* (and in Sync) the call gives up.
StackFailed(c) ==
    IF calls[c].rollback \/ calls[c].op = "sync"
    THEN End(c) /\ Doubt
    ELSE Continue(c, [calls[c] EXCEPT !.pc = "restore"]) /\ UNCHANGED history

\* systemctl reports a failure and the service stays down.
RestartFails(c) ==
    /\ calls[c].pc = "restart"
    /\ Fault
    /\ IF calls[c].units # {}
       THEN running' = [running EXCEPT ![First(calls[c].units)] = None] /\ UNCHANGED relay
       ELSE relay' = None /\ UNCHANGED running
    /\ StackFailed(c)
    /\ UNCHANGED << files, minted, begun >>

\* The relay is not ready in time: something is down, or it was slow.
NotReady(c) ==
    /\ calls[c].pc = "ready"
    /\ \/ ~StackReady /\ NoFault
       \/ StackReady /\ Fault
    /\ StackFailed(c)
    /\ UNCHANGED << files, services, minted, begun >>

\* The relay reports ready: Apply, Sync or the rollback is over.
Ready(c) ==
    LET call == calls[c]
        applied == ~call.rollback /\ call.op # "sync"
    IN  /\ call.pc = "ready"
        /\ StackReady
        /\ End(c)
        /\ retired' = IF applied THEN retired \cup call.old ELSE retired
        /\ doubtful' = (doubtful /\ ~(call.op = "sync" /\ call.alone))
        /\ UNCHANGED << files, services, minted, begun, faults, overlapped >>

\* Mutant: the rollback restarts without resyncing the secret lists.
RestoreNoResync(c) ==
    LET call == calls[c]
    IN  /\ call.pc = "restore"
        /\ Restored(call)
        /\ Continue(c, [call EXCEPT !.pc = "restart", !.rollback = TRUE, !.units = call.changed])
        /\ UNCHANGED << registry, leftover, env, fresh, services, minted, begun >>

\* Apply puts the previous profiles back and starts over from them.
Restore(c) ==
    LET call == calls[c]
    IN  /\ call.pc = "restore"
        /\ Restored(call)
        /\ Continue(c, [call EXCEPT !.pc = "sync", !.rollback = TRUE, !.at = 1, !.units = {}])
        /\ UNCHANGED << registry, leftover, env, fresh, services, minted, begun >>

--------------------------------------------------------------------------------

\* The steps after which a call leaves files and services disagreeing.
Halfway(call) == call.pc \in {"sync", "putback", "restart", "ready", "restore"}

\* The command is interrupted, or the panel's process ends.
Killed(c) ==
    /\ calls[c] # Idle
    /\ Fault
    /\ End(c)
    /\ doubtful' = (doubtful \/ Halfway(calls[c]))
    /\ UNCHANGED << files, services, minted, begun, overlapped, retired >>

\* The host reboots: every call ends and every service reads its file.
Reboot ==
    /\ Fault
    /\ calls' = [c \in Clients |-> Idle]
    /\ running' = [b \in Backends |-> IF b <= registry THEN Loaded(env[b]) ELSE None]
    /\ relay' = profiles
    /\ doubtful' = (doubtful \/ \E c \in Clients : Halfway(calls[c]))
    /\ UNCHANGED << files, minted, begun, overlapped, retired >>

\* systemd restarts a service on its own, or an operator does.
UnitRestarts(b) ==
    /\ b <= registry
    /\ running' = [running EXCEPT ![b] = Loaded(env[b])]
    /\ UNCHANGED << files, relay, minted, calls, begun, faults, history >>

RelayRestarts ==
    /\ relay' = profiles
    /\ UNCHANGED << files, running, minted, calls, begun, faults, history >>

Next ==
    \/ \E c \in Clients :
        \/ \E batch \in Imports : AddKeys(c, batch)
        \/ \E name \in Names : RevokeKey(c, name) \/ RotateKey(c, name)
        \/ Sync(c)
        \/ ChooseBackend(c) \/ ProvisionBackend(c) \/ ProvisionFails(c)
        \/ Validate(c) \/ Refuse(c) \/ Install(c)
        \/ SyncBackend(c) \/ SyncFails(c) \/ PutBack(c)
        \/ RestartUnit(c) \/ RestartRelay(c) \/ RestartFails(c)
        \/ Ready(c) \/ NotReady(c) \/ Restore(c)
        \/ Killed(c)
    \/ Reboot
    \/ \E b \in Backends : UnitRestarts(b)
    \/ RelayRestarts
    \/ ProvisionByHand

Spec == Init /\ [][Next]_vars

--------------------------------------------------------------------------------
(* Properties.                                                             *)

\* The variables have their types.
TypeOK ==
    /\ profiles \in ProfileFile
    /\ registry \in Backends
    /\ leftover \in BOOLEAN
    /\ env \in [Backends -> SUBSET (0..MaxSecrets)]
    /\ fresh \subseteq 1..registry
    /\ \A b \in Backends : running[b] = None \/ running[b] \subseteq 0..MaxSecrets
    /\ relay = None \/ relay \in ProfileFile
    /\ minted \in 0..MaxSecrets /\ begun \in 0..MaxCalls /\ faults \in 0..MaxFaults
    /\ doubtful \in BOOLEAN /\ overlapped \in BOOLEAN /\ retired \subseteq 0..MaxSecrets
    /\ \A c \in Clients :
        /\ calls[c].file = << >> \/ calls[c].file \in ProfileFile
        /\ calls[c].previous = << >> \/ calls[c].previous \in ProfileFile
        /\ calls[c].units \subseteq Backends /\ calls[c].changed \subseteq Backends
        /\ calls[c].known \in 0..MaxBackends /\ calls[c].at \in Backends

Quiet == \A c \in Clients : calls[c] = Idle

\* A backend runs with what its file says; one that has no secret may be down.
\* (A rollback leaves it so: the restart of a newly provisioned backend may
\* fail, and the second sync finds its rewritten file unchanged.)
Serving(b) == running[b] = env[b] \/ (env[b] = {} /\ running[b] = None)

\* Files and services agree: every environment file has exactly the secrets of
\* its profiles, every backend process those of its file, and the relay runs
\* with the profiles.
InService ==
    /\ \A b \in 1..registry : env[b] = Arguments(profiles, b) /\ Serving(b)
    /\ relay = profiles

\* Apply and its rollback keep files and services together: between calls the
\* relay and every backend serve exactly the profiles file, whether calls
\* succeeded, were refused or rolled back, unless a write failed after the
\* installation, the rollback failed, a call was cut short or two overlapped;
\* and a Sync that succeeds alone repairs whatever they left.
QuietMeansInService == Quiet /\ ~doubtful => InService

\* No environment file ever holds more secrets than MTProxy takes, in the
\* middle of an import, a rollback or two overlapping calls either.
SecretsFit == \A b \in Backends : Cardinality(env[b]) <= MaxSecretsPerBackend

\* An edit, or its rollback, disconnects no users but those of the backends
\* whose secrets it changes.  The one other backend it may restart has no user:
\* its file, as the helper wrote it, is rewritten by the first edit after the
\* provisioning.
OnlyAffectedRestart ==
    \A c \in Clients :
        LET call == calls[c]
        IN  call.pc = "restart" /\ call.op # "sync" /\ ~doubtful =>
              \A b \in call.units :
                \/ Arguments(call.file, b) # Arguments(call.previous, b)
                \/ Arguments(call.previous, b) = {} /\ ~call.rollback

\* A secret whose revocation or replacement was reported never comes back to
\* the profiles file or the relay, whatever later calls fail, roll back or are
\* killed, as long as no two calls overlap.
RetiredStaysRetired ==
    ~overlapped => retired \cap (KeysOf(profiles) \cup (IF relay = None THEN {} ELSE KeysOf(relay))) = {}
================================================================================
