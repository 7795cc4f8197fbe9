------------------------------ MODULE RepoLock ------------------------------
(***************************************************************************)
(* One borg repository (one shard) and everything that takes its           *)
(* exclusive lock: backups of the nodes assigned to the shard, the nightly *)
(* prune, and the archive deletions (a node's purge, a history clean-up).  *)
(*                                                                         *)
(* core/repo_lock.py keeps two announcements in Redis: the maintenance     *)
(* flag (one token with a TTL) and the writer registry (a sorted set       *)
(* scored by expiry, under a key that expires too).  The pre-flight of a   *)
(* backup (backup_tasks.cleanup_locks_and_resolve_ip) reads both and breaks*)
(* borg's lock when neither names anybody.                                 *)
(*                                                                         *)
(* Every participant is one model value.  A backup starts over for ever, a *)
(* prune and a deletion run once.  The uuid of a token is abstracted: a    *)
(* token is its live owner, or Abandoned once the process that drew it is  *)
(* gone.  Lifetimes are counted down by Tick, so no clock is kept.         *)
(***************************************************************************)
EXTENDS Naturals

CONSTANTS
    Backups,       \* backup tasks, one per node of the shard
    Prunes,        \* runs of the nightly prune
    Deleters,      \* purge_node_archives and archive_cleanup.delete_archives
    NoOne,         \* nobody holds the lock or the flag
    Abandoned,     \* the token of a prune that no longer runs
    MaintTTL,      \* DEFAULT_TTL_SECONDS, in ticks
    WriterTTL,     \* [Backups -> ticks], the per-node lock_ttl
    MaxFaults,     \* bound on killed workers, killed borgs and cut transfers
    CutOff         \* participants whose Redis calls may raise

Participants == Backups \cup Prunes \cup Deleters

ASSUME RepoLockAssumption ==
    /\ Backups \cap Prunes = {}
    /\ Backups \cap Deleters = {}
    /\ Prunes \cap Deleters = {}
    /\ NoOne \notin Participants
    /\ Abandoned \notin Participants
    /\ NoOne # Abandoned
    /\ MaintTTL \in Nat \ {0}
    /\ WriterTTL \in [Backups -> Nat \ {0}]
    /\ MaxFaults \in Nat
    /\ CutOff \subseteq Participants

VARIABLES
    pc,            \* where each worker is
    borg,          \* its borg process: none, waiting for the lock, holding it
    lock,          \* whose lock is on disk in the repository
    owner,         \* whose token is in the maintenance flag
    ownerLeft,     \* remaining TTL of the flag
    reg,           \* remaining life of each running backup's registration
    abandoned,     \* remaining life of a registration nobody will clear
    registryLeft,  \* remaining TTL of the registry's key
    phase,         \* what a prune does next
    faults,
    unseen,        \* history: announcements made behind a pre-flight's back
    lapsed         \* history: whose announcement outlived its own TTL under them

vars == <<pc, borg, lock, owner, ownerLeft, reg, abandoned, registryLeft,
          phase, faults, unseen, lapsed>>

history == <<unseen, lapsed>>
redisVars == <<owner, ownerLeft, reg, abandoned, registryLeft>>
repoVars == <<borg, lock>>

BackupPc == {"idle", "checkWriters", "breakLock", "register", "start",
             "transfer", "unregister"}
PrunePc == {"idle", "list", "beat", "extend", "step", "running", "release",
            "done"}
DeleterPc == {"idle", "running", "done"}

Init ==
    /\ pc = [x \in Participants |-> "idle"]
    /\ borg = [x \in Participants |-> "none"]
    /\ lock = NoOne
    /\ owner = NoOne
    /\ ownerLeft = 0
    /\ reg = [b \in Backups |-> 0]
    /\ abandoned = [b \in Backups |-> 0]
    /\ registryLeft = 0
    /\ phase = [p \in Prunes |-> "delete"]
    /\ faults = 0
    /\ unseen = [b \in Backups |-> {}]
    /\ lapsed = {}

----------------------------------------------------------------------------
(* What the two announcements say.                                         *)

MaintenanceInProgress == owner # NoOne

Registered(b) == reg[b] > 0 \/ abandoned[b] > 0

WriterInProgress == \E b \in Backups : Registered(b)

\* x is named in Redis as a holder of the repository.
Announced(x) ==
    \/ x \in Prunes /\ owner = x
    \/ x \in Backups /\ Registered(x)

Holding(x) == borg[x] = "holding"

\* A prune inside `with repository_maintenance(...)`.
Working(p) == pc[p] \notin {"idle", "done"}

\* A backup inside `with repository_writer(...)`.
Writing(b) == pc[b] \in {"start", "transfer"}

Larger(m, n) == IF m > n THEN m ELSE n

\* The backups between their reads and their `borg break-lock`.
NoteUnseen(x, stages) ==
    unseen' = [c \in Backups |->
                 IF pc[c] \in stages THEN unseen[c] \cup {x} ELSE unseen[c]]

----------------------------------------------------------------------------
(* borg's own lock: exclusive, on disk, taken after at most --lock-wait.   *)

BorgAcquire(x) ==
    /\ borg[x] = "waiting"
    /\ lock = NoOne
    /\ borg' = [borg EXCEPT ![x] = "holding"]
    /\ lock' = x
    /\ UNCHANGED <<pc, redisVars, phase, faults, history>>

BorgTimeout(x) ==
    /\ borg[x] = "waiting"
    /\ lock # NoOne
    /\ borg' = [borg EXCEPT ![x] = "none"]
    /\ UNCHANGED <<pc, lock, redisVars, phase, faults, history>>

\* borg ends, and takes away its own lock only.
BorgFinish(x) ==
    /\ borg[x] = "holding"
    /\ borg' = [borg EXCEPT ![x] = "none"]
    /\ lock' = IF lock = x THEN NoOne ELSE lock
    /\ UNCHANGED <<pc, redisVars, phase, faults, history>>

\* borg is killed outright (the node loses power, or delete_archives' 120 s
\* subprocess timeout kills its child) and leaves its lock on disk.
BorgKilled(x) ==
    /\ borg[x] # "none"
    /\ x \in Backups \cup Deleters
    /\ faults < MaxFaults
    /\ borg' = [borg EXCEPT ![x] = "none"]
    /\ faults' = faults + 1
    /\ UNCHANGED <<pc, lock, redisVars, phase, history>>

----------------------------------------------------------------------------
(* A backup: pre-flight, registration, transfer.                           *)

\* (mutant) The pre-flight forgets the maintenance flag.
CheckMaintenanceSkipped(b) ==
    /\ pc[b] = "idle"
    /\ pc' = [pc EXCEPT ![b] = "checkWriters"]
    /\ unseen' = [unseen EXCEPT ![b] = {}]
    /\ UNCHANGED <<repoVars, redisVars, phase, faults, lapsed>>

\* maintenance_in_progress: a Redis that cannot be read answers None.
CheckMaintenance(b) ==
    /\ pc[b] = "idle"
    /\ \/ /\ pc' = [pc EXCEPT ![b] =
                      IF MaintenanceInProgress THEN "register" ELSE "checkWriters"]
          /\ unseen' = [unseen EXCEPT ![b] = {}]
       \/ /\ b \in CutOff
          /\ pc' = [pc EXCEPT ![b] = "checkWriters"]
          /\ unseen' = [unseen EXCEPT ![b] = Prunes]
    /\ UNCHANGED <<repoVars, redisVars, phase, faults, lapsed>>

\* (mutant) The test on the writer registry is inverted.
CheckWritersInverted(b) ==
    /\ pc[b] = "checkWriters"
    /\ pc' = [pc EXCEPT ![b] =
                IF WriterInProgress THEN "breakLock" ELSE "register"]
    /\ UNCHANGED <<repoVars, redisVars, phase, faults, history>>

\* writer_in_progress: a Redis that cannot be read answers True.
CheckWriters(b) ==
    /\ pc[b] = "checkWriters"
    /\ \/ /\ ~WriterInProgress
          /\ pc' = [pc EXCEPT ![b] = "breakLock"]
          /\ UNCHANGED unseen
       \/ /\ WriterInProgress \/ b \in CutOff
          /\ pc' = [pc EXCEPT ![b] = "register"]
          /\ unseen' = [unseen EXCEPT ![b] = {}]
    /\ UNCHANGED <<repoVars, redisVars, phase, faults, lapsed>>

\* `borg break-lock`, or the removal of the lock files when that fails.
BreakLock(b) ==
    /\ pc[b] = "breakLock"
    /\ lock' = NoOne
    /\ pc' = [pc EXCEPT ![b] = "register"]
    /\ unseen' = [unseen EXCEPT ![b] = {}]
    /\ UNCHANGED <<borg, redisVars, phase, faults, lapsed>>

\* (mutant) The key is given one TTL instead of two.
AnnounceShortKey(b) ==
    \/ /\ reg' = [reg EXCEPT ![b] = WriterTTL[b]]
       /\ registryLeft' = WriterTTL[b]
       /\ NoteUnseen(b, {"breakLock"})
       /\ lapsed' = lapsed \ {b}
    \/ /\ b \in CutOff
       /\ UNCHANGED <<reg, registryLeft, history>>

\* zadd of the token and expire of the whole key at twice this node's TTL.
\* A Redis failure is swallowed.
Announce(b) ==
    \/ /\ reg' = [reg EXCEPT ![b] = WriterTTL[b]]
       /\ registryLeft' = 2 * WriterTTL[b]
       /\ NoteUnseen(b, {"breakLock"})
       /\ lapsed' = lapsed \ {b}
    \/ /\ b \in CutOff
       /\ UNCHANGED <<reg, registryLeft, history>>

Register(b) ==
    /\ pc[b] = "register"
    /\ Announce(b)
    /\ pc' = [pc EXCEPT ![b] = "start"]
    /\ UNCHANGED <<repoVars, owner, ownerLeft, abandoned, phase, faults>>

\* The remote script.  It exits with 75 while an earlier borg of this node
\* still holds the node's flock (core/node_lock.py).
StartRemote(b) ==
    /\ pc[b] = "start"
    /\ \/ /\ borg[b] = "none"
          /\ borg' = [borg EXCEPT ![b] = "waiting"]
          /\ pc' = [pc EXCEPT ![b] = "transfer"]
       \/ /\ borg[b] # "none"
          /\ pc' = [pc EXCEPT ![b] = "unregister"]
          /\ UNCHANGED borg
    /\ UNCHANGED <<lock, redisVars, phase, faults, history>>

\* Driven by borg's progress lines, so only while it holds the lock.
WriterHeartbeat(b) ==
    /\ pc[b] = "transfer"
    /\ Holding(b)
    /\ Announce(b)
    /\ UNCHANGED <<pc, repoVars, owner, ownerLeft, abandoned, phase, faults>>

\* The script exits and the worker reads the end of its output.
TransferEnds(b) ==
    /\ pc[b] = "transfer"
    /\ borg[b] = "none"
    /\ pc' = [pc EXCEPT ![b] = "unregister"]
    /\ UNCHANGED <<repoVars, redisVars, phase, faults, history>>

\* An operator stops the run (process.terminate) or the link drops: the
\* worker's ssh ends, borg on the node is not there to be waited for.
Disconnect(b) ==
    /\ pc[b] = "transfer"
    /\ borg[b] # "none"
    /\ faults < MaxFaults
    /\ faults' = faults + 1
    /\ pc' = [pc EXCEPT ![b] = "unregister"]
    /\ UNCHANGED <<repoVars, redisVars, phase, history>>

\* zrem of this run's token; left to age out when Redis fails.
Unregister(b) ==
    /\ pc[b] = "unregister"
    /\ reg' = [reg EXCEPT ![b] = 0]
    /\ \/ UNCHANGED abandoned
       \/ /\ b \in CutOff
          /\ abandoned' = [abandoned EXCEPT ![b] = Larger(@, reg[b])]
    /\ pc' = [pc EXCEPT ![b] = "idle"]
    /\ UNCHANGED <<repoVars, owner, ownerLeft, registryLeft, phase, faults, history>>

\* The worker process is killed: no `finally` runs, borg on the node lives on.
BackupCrash(b) ==
    /\ pc[b] # "idle"
    /\ faults < MaxFaults
    /\ faults' = faults + 1
    /\ pc' = [pc EXCEPT ![b] = "idle"]
    /\ reg' = [reg EXCEPT ![b] = 0]
    /\ abandoned' = [abandoned EXCEPT ![b] = Larger(@, reg[b])]
    /\ unseen' = [unseen EXCEPT ![b] = {}]
    /\ UNCHANGED <<repoVars, owner, ownerLeft, registryLeft, phase, lapsed>>

----------------------------------------------------------------------------
(* The nightly prune of this repository: _prune_one_shard.                 *)

\* (mutant) SET without NX.
ClaimAnyway(p) ==
    /\ pc[p] = "idle"
    /\ owner' = p
    /\ ownerLeft' = MaintTTL
    /\ NoteUnseen(p, {"checkWriters", "breakLock"})
    /\ pc' = [pc EXCEPT ![p] = "list"]
    /\ UNCHANGED <<repoVars, reg, abandoned, registryLeft, phase, faults, lapsed>>

\* SET NX EX; a lost race and a Redis failure both skip this repository.
Claim(p) ==
    /\ pc[p] = "idle"
    /\ \/ /\ owner = NoOne
          /\ owner' = p
          /\ ownerLeft' = MaintTTL
          /\ NoteUnseen(p, {"checkWriters", "breakLock"})
          /\ pc' = [pc EXCEPT ![p] = "list"]
          /\ UNCHANGED lapsed
       \/ /\ p \in CutOff \/ owner # NoOne
          /\ pc' = [pc EXCEPT ![p] = "done"]
          /\ UNCHANGED <<owner, ownerLeft, history>>
    /\ UNCHANGED <<repoVars, reg, abandoned, registryLeft, phase, faults>>

\* `borg list` under the repository's lock; it gives up after --lock-wait.
\* With nothing to delete (or in a dry run) the batches are skipped.
ListArchives(p) ==
    /\ pc[p] = "list"
    /\ \/ /\ lock = NoOne
          /\ \E next \in {"delete", "compact"} :
                phase' = [phase EXCEPT ![p] = next]
          /\ pc' = [pc EXCEPT ![p] = "beat"]
       \/ /\ pc' = [pc EXCEPT ![p] = "release"]
          /\ UNCHANGED phase
    /\ UNCHANGED <<repoVars, redisVars, faults, history>>

\* heartbeat(): reads the flag, then extends the key it read.
HeartbeatCheck(p) ==
    /\ pc[p] = "beat"
    /\ \/ pc' = [pc EXCEPT ![p] = IF owner = p THEN "extend" ELSE "step"]
       \/ /\ p \in CutOff
          /\ pc' = [pc EXCEPT ![p] = "step"]
    /\ UNCHANGED <<repoVars, redisVars, phase, faults, history>>

HeartbeatExtend(p) ==
    /\ pc[p] = "extend"
    /\ \/ ownerLeft' = IF MaintenanceInProgress THEN MaintTTL ELSE 0
       \/ /\ p \in CutOff
          /\ UNCHANGED ownerLeft
    /\ pc' = [pc EXCEPT ![p] = "step"]
    /\ UNCHANGED <<repoVars, owner, reg, abandoned, registryLeft, phase, faults,
                   history>>

\* One `borg delete` batch or the `borg compact`, both under the exclusive
\* lock, or the last `borg list`.
StartStep(p) ==
    /\ pc[p] = "step"
    /\ \/ /\ phase[p] \in {"delete", "compact"}
          /\ borg' = [borg EXCEPT ![p] = "waiting"]
          /\ pc' = [pc EXCEPT ![p] = "running"]
       \/ /\ phase[p] = "relist"
          /\ pc' = [pc EXCEPT ![p] = "release"]
          /\ UNCHANGED borg
    /\ UNCHANGED <<lock, redisVars, phase, faults, history>>

\* A failed batch does not stop the prune: the next one follows.
StepEnds(p) ==
    /\ pc[p] = "running"
    /\ borg[p] = "none"
    /\ \E next \in IF phase[p] = "delete" THEN {"delete", "compact"}
                                           ELSE {"relist"} :
          phase' = [phase EXCEPT ![p] = next]
    /\ pc' = [pc EXCEPT ![p] = "beat"]
    /\ UNCHANGED <<repoVars, redisVars, faults, history>>

\* (mutant) A plain DEL of the flag, whoever's token is in it.
ReleaseAnyone(p) ==
    /\ pc[p] = "release"
    /\ owner' = NoOne
    /\ ownerLeft' = 0
    /\ pc' = [pc EXCEPT ![p] = "done"]
    /\ UNCHANGED <<repoVars, reg, abandoned, registryLeft, phase, faults, history>>

\* _release: compare-and-delete in Lua.
Release(p) ==
    /\ pc[p] = "release"
    /\ \/ /\ owner' = IF owner = p THEN NoOne ELSE owner
          /\ ownerLeft' = IF owner = p THEN 0 ELSE ownerLeft
       \/ /\ p \in CutOff
          /\ owner' = IF owner = p THEN Abandoned ELSE owner
          /\ UNCHANGED ownerLeft
    /\ pc' = [pc EXCEPT ![p] = "done"]
    /\ UNCHANGED <<repoVars, reg, abandoned, registryLeft, phase, faults, history>>

\* The worker is killed, its borg child with it; the flag and borg's lock stay.
PruneCrash(p) ==
    /\ Working(p)
    /\ faults < MaxFaults
    /\ faults' = faults + 1
    /\ pc' = [pc EXCEPT ![p] = "done"]
    /\ borg' = [borg EXCEPT ![p] = "none"]
    /\ owner' = IF owner = p THEN Abandoned ELSE owner
    /\ UNCHANGED <<lock, ownerLeft, reg, abandoned, registryLeft, phase, history>>

----------------------------------------------------------------------------
(* Archive deletions: they take borg's lock and announce nothing.          *)

DeleteStart(d) ==
    /\ pc[d] = "idle"
    /\ borg' = [borg EXCEPT ![d] = "waiting"]
    /\ pc' = [pc EXCEPT ![d] = "running"]
    /\ UNCHANGED <<lock, redisVars, phase, faults, history>>

\* The next archive, or `borg compact`, or the end.
DeleteNext(d) ==
    /\ pc[d] = "running"
    /\ borg[d] = "none"
    /\ \/ /\ borg' = [borg EXCEPT ![d] = "waiting"]
          /\ UNCHANGED pc
       \/ /\ pc' = [pc EXCEPT ![d] = "done"]
          /\ UNCHANGED borg
    /\ UNCHANGED <<lock, redisVars, phase, faults, history>>

----------------------------------------------------------------------------
(* Redis lets a lifetime run out.                                          *)

\* (mutant) A lifetime counts past zero.
LessUnfloored(n) == n - 1

Less(n) == IF n = 0 THEN 0 ELSE n - 1

Tick ==
    /\ ownerLeft > 0 \/ registryLeft > 0
    /\ ownerLeft' = Less(ownerLeft)
    /\ owner' = IF ownerLeft <= 1 THEN NoOne ELSE owner
    /\ registryLeft' = Less(registryLeft)
    /\ reg' = [b \in Backups |-> IF registryLeft <= 1 THEN 0 ELSE Less(reg[b])]
    /\ abandoned' = [b \in Backups |->
                       IF registryLeft <= 1 THEN 0 ELSE Less(abandoned[b])]
    /\ lapsed' = lapsed \cup {b \in Backups : Writing(b) /\ reg[b] = 1}
                       \cup {p \in Prunes : owner = p /\ ownerLeft = 1}
    /\ UNCHANGED <<pc, repoVars, phase, faults, unseen>>

----------------------------------------------------------------------------
BorgStep(x) == BorgAcquire(x) \/ BorgTimeout(x) \/ BorgFinish(x) \/ BorgKilled(x)

BackupStep(b) ==
    \/ CheckMaintenance(b) \/ CheckWriters(b) \/ BreakLock(b)
    \/ Register(b) \/ StartRemote(b) \/ WriterHeartbeat(b)
    \/ TransferEnds(b) \/ Disconnect(b) \/ Unregister(b) \/ BackupCrash(b)

PruneStep(p) ==
    \/ Claim(p) \/ ListArchives(p) \/ HeartbeatCheck(p) \/ HeartbeatExtend(p)
    \/ StartStep(p) \/ StepEnds(p) \/ Release(p) \/ PruneCrash(p)

DeleterStep(d) == DeleteStart(d) \/ DeleteNext(d)

Next ==
    \/ \E x \in Participants : BorgStep(x)
    \/ \E b \in Backups : BackupStep(b)
    \/ \E p \in Prunes : PruneStep(p)
    \/ \E d \in Deleters : DeleterStep(d)
    \/ Tick

Spec == Init /\ [][Next]_vars

\* Fairness.  Workers run what they started and Redis's clock advances; borg
\* ends, since --lock-wait and the size of the data bound it.  Nothing obliges
\* a prune, a deletion, an operator or a crash to happen, and a heartbeat comes
\* only if borg prints.  Backups are dispatched and retried for ever.
BorgProgress(x) == BorgAcquire(x) \/ BorgTimeout(x) \/ BorgFinish(x)

BackupProgress(b) ==
    \/ CheckMaintenance(b) \/ CheckWriters(b) \/ BreakLock(b)
    \/ Register(b) \/ StartRemote(b) \/ TransferEnds(b) \/ Unregister(b)

PruneProgress(p) ==
    \/ ListArchives(p) \/ HeartbeatCheck(p) \/ HeartbeatExtend(p)
    \/ StartStep(p) \/ StepEnds(p) \/ Release(p)

FairSpec ==
    /\ Spec
    /\ WF_vars(Tick)
    /\ \A x \in Participants : WF_vars(BorgProgress(x))
    /\ \A b \in Backups : WF_vars(BackupProgress(b))
    /\ \A p \in Prunes : WF_vars(PruneProgress(p))
    /\ \A d \in Deleters : WF_vars(DeleteNext(d))

----------------------------------------------------------------------------
(* Properties.                                                             *)

TypeOK ==
    /\ pc \in [Participants -> BackupPc \cup PrunePc \cup DeleterPc]
    /\ borg \in [Participants -> {"none", "waiting", "holding"}]
    /\ lock \in Participants \cup {NoOne}
    /\ owner \in Prunes \cup {NoOne, Abandoned}
    /\ ownerLeft \in 0 .. MaintTTL
    /\ reg \in [Backups -> Nat]
    /\ abandoned \in [Backups -> Nat]
    /\ registryLeft \in Nat
    /\ phase \in [Prunes -> {"delete", "compact", "relist"}]
    /\ faults \in 0 .. MaxFaults
    /\ unseen \in [Backups -> SUBSET (Prunes \cup Backups)]
    /\ lapsed \subseteq Backups \cup Prunes

\* A pre-flight takes borg's lock from a running borg only when that borg's
\* owner is not announced in Redis, or announced itself after the pre-flight
\* had read the announcement of its kind (or failed to read it).
BreakSparesAnnounced ==
    [][ \A b \in Backups, h \in Participants :
          (BreakLock(b) /\ lock = h /\ Holding(h) /\ Announced(h))
             => h \in unseen[b] ]_vars

\* The maintenance flag leaves a prune's token only by that prune's own release
\* or crash, or by running out of time: no other prune's heartbeat, release or
\* claim replaces or removes it.
FlagLeavesOnlyItsOwner ==
    [][ \A p \in Prunes :
          (owner = p /\ owner' # p)
             => \/ (ownerLeft = 1 /\ owner' = NoOne)
                \/ (Working(p) /\ pc'[p] = "done") ]_vars

\* Two prunes never work on one repository unless the flag of one of them ran
\* out under it: a prune at work whose own TTL never lapsed is the one the flag
\* names, whatever late heartbeats and releases of other prunes, whose flags
\* did lapse, do to that flag.
ExclusiveMaintenance ==
    \A p \in Prunes : Working(p) => owner = p \/ p \in lapsed

\* No other node's heartbeat can give the shared key a life shorter than b's
\* own registration.
LongLived(b) == \A c \in Backups : WriterTTL[b] <= 2 * WriterTTL[c]

\* A backup whose worker is attached to its transfer is in the registry, unless
\* its own TTL ran out since its last progress line or Redis failed it: what
\* other backups do to the lifetime of the shared key never ends it early, as
\* long as no node's TTL is less than half of this one's.
RegisteredWhileWriting ==
    \A b \in Backups \ (CutOff \cup lapsed) :
        Writing(b) /\ LongLived(b) => reg[b] > 0

\* A lock whose owner is gone.
StaleLock(x) == lock = x /\ ~Holding(x)

\* A pre-flight leaves the lock alone because a live backup is registered.
DefersToAnother ==
    \E b, c \in Backups :
        reg[c] > 0 /\ CheckWriters(b) /\ pc'[b] = "register"

\* A lock whose owner is gone is broken by some pre-flight, unless for ever new
\* pre-flights find another live backup registered and defer to it; what a dead
\* backup or prune left in Redis never keeps it.
StaleLockCleared ==
    \A x \in Participants :
        <>[]StaleLock(x) => []<><<DefersToAnother>>_vars
=============================================================================
