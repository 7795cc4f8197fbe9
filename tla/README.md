# edge-bro: a formal model of its core

edge-bro is the backup orchestrator of a fleet of edge nodes: a FastAPI
backend, Celery workers and beat, PostgreSQL, Redis, and five borg repositories
("shards") on the orchestrator's disk. Nodes are reached over SSH; each backup
runs `borg create` on the node, which writes through a reverse tunnel into the
node's shard. Technicians restore from kiosk sticks that the orchestrator
builds and enrols.

This directory holds TLA+ modules that model the parts of the program whose
correctness depends on order, failure and time, TLC configurations that check
them on small instances, and TLAPS proofs that hold for every instance. All
paths below are relative to `src/backend/` unless they name another directory.

- [Inventory](#inventory)
- [The modules](#the-modules)
- [What the runs check](#what-the-runs-check)
- [Fairness](#fairness)
- [What is proved](#what-is-proved)
- [Disagreements between the code and its comments](#disagreements-between-the-code-and-its-comments)
- [What is only model-checked, and what is not modelled](#what-is-only-model-checked-and-what-is-not-modelled)
- [Plan](#plan)
- [Running it](#running-it)

## Inventory

### Repository lock (`core/repo_lock.py`, users in `backup_tasks.py`, `restore_tasks.py`, `core/archive_cleanup.py`)

*State.* borg's own exclusive lock, files in the repository; in Redis the
maintenance flag `borg_maintenance:<repo>` (a token with a TTL) and the writer
registry `borg_repo_writers:<repo>` (a sorted set of tokens scored by expiry,
under a key that expires too).
*Operations.* `repository_maintenance` (claim, heartbeat, release),
`repository_writer` (register, heartbeat, unregister), `maintenance_in_progress`,
`writer_in_progress`, and the pre-flight `cleanup_locks_and_resolve_ip`, which
breaks borg's lock if neither announcement names anybody.
*Hard.* Several workers, nodes and prunes share one repository; a lock may be
stale or very much alive and looks the same; every Redis call may fail and each
fails to a different default; TTLs lapse under work that takes longer.
*Correct when* a pre-flight never breaks the lock of an announced borg, the
flag has one owner, an attached transfer stays registered, and a stale lock
stays only while backups defer to each other.

### Backup task (`backup_tasks.py`, `core/transfer_retry.py`, `core/node_lock.py`, `core/task_log.py`, `routers/nodes_actions.py`, `celery_app.py`)

*State.* The Celery message and result of each run; Redis keys
`backup_running:<node>` and `backup_cancel:<node>`; a `flock` on the node;
`BackupHistory` and `TaskLog` rows.
*Operations.* dispatch (scheduler, press, group press), the run itself (refuse,
pre-flight, transfer, record, retry, clean up), stop, and the fleet list, which
deletes keys it finds stale.
*Hard.* Messages are acknowledged late and redelivered; keys are read, judged
and deleted in separate steps by several processes; the id outlives many
retries; a stop must reach the run it was meant for; a transfer may go on after
its worker has left it.
*Correct when* two transfers never run on one node, a stop stops only what it
names, a reported success has its history row, a run that ended is not shown as
running, every run ends, and no stale key blocks a node.

### Scheduler tick (`core/scheduler.py`, `tasks/scheduler.py`, `core/schedule_slots.py`)

*State.* Per group: start, end, interval, concurrency and rate limits. Per node:
`status`, `backup_paused`, `backup_today`, `missed_window`, last ping, history
rows, running key.
*Operations.* A tick every minute: close the window (mark the missed), or clear
flags, build the queue, and dispatch as many as limits and cooldowns allow.
*Hard.* Windows across midnight, test intervals, runs longer than the window,
limits pulled up by the deadline and down by the link and the shards, cooldown,
nodes that come and go.
*Correct when* a due node is wanted until it has a success, is left alone once
it has one, is not retried early, is served in the end, and the link is not
oversubscribed.

### Schedule slots (`core/schedule_slots.py`)

Pure functions of the group, the hash of the host name and the date. *Hard*:
month ends, weeks of the month, quarters, windows of any length. *Correct when*
every period of a group has a due day, and only one, and a turn lies within its
window.

### Nightly prune, purges and history (`backup_tasks.py` 1168-1498, `core/retention.py`, `restore_tasks.py`, `routers/nodes_crud.py`)

*State.* The archives of every shard; `BackupHistory` rows; `Node.last_backup`.
*Operations.* The nightly prune: list, plan, delete in batches, compact and list
again, shard after shard, then reconcile rows and markers with the union of the
listings. The purge of a node; the deletion of a node. `retention.select`, a port
of borg's own rules.
*Hard.* The listings are minutes or hours apart and older than the rows they are
compared with; a shard may not list, a batch may fail; purges and deletions run
in between; host names that are prefixes of others; counts of zero.
*Correct when* the newest archive survives every policy, pruning night after
night keeps what the policy would keep of the whole, a row goes only when a
listing has missed its archive, and rows, markers and archives agree in the end.

### Node enrolment and licence (`tasks/bootstrap.py`, `tasks/scheduler.py`, `routers/restore.py`, `routers/nodes_crud.py`)

*State.* `Node.status`, the bootstrap credentials in Redis (24 hours), the saved
licence file. *Operations.* enrolment, bootstrap, its retry every five minutes,
preparation, flash, first check-in, licence upload, the tick's probe of RESTORED
nodes, the refusal of a backup for want of a licence, deletion.
*Hard.* Almost every task reads the row, is away for minutes of ansible or SSH,
and writes its verdict whatever the row says by then.
*Correct when* no lost node with known credentials is forgotten and a restored
machine with its licence is put back to work.

### Alerts (`core/alerts.py`, `tasks/alerts.py`, `core/alert_sources/`, `routers/notifications.py`)

*State.* `Alert` rows, unique per key while unresolved; the lock of the sweep.
*Operations.* the hourly sweep (ask each source, read, commit the difference,
notify), acknowledge, the settings, the deletion of a node.
*Hard.* A sweep longer than its lock; an acknowledgement or a deletion between
its read and its commit; a source that raises.
*Correct when* what is wrong has a live alert of its severity, and what is right
has none.

### Telemetry harvest (`playbooks/files/edge-bro-collect.sh`, `core/harvest.py`, `core/telemetry.py`, `tasks/monitoring.py`)

*State.* The buffer on the node, the staged and the trimmed file; rollup and fit
rows; `last_harvest_at`. *Operations.* collect and trim, drain, difference into
readings, cut into windows and buckets, store, sweep, retention.
*Hard.* The collector, two harvests and a shell whose link is gone work on the
same files; a reboot resets counters; a commit may fail after the drain.
*Correct when* a sample is lost only to a named accident, no reading is fitted
twice, and a node that is due is harvested.

### Kiosk access and the SSH key audit (`routers/kiosks.py`, `core/ssh_keys.py`, `core/ssh_audit.py`, `payload_client/backend/main.py`)

*State.* `Kiosk` rows, `authorized_keys`, `SshKeyFinding` rows; on the stick its
key and what it believes its standing to be. *Operations.* check-in every ten
seconds, handshake, request for activation, the operator's orders, the scan with
its streaks, the guarded prune, the purge by hand.
*Hard.* The file is read, edited and written without a lock by several threads
and a worker; answers get lost; keys change with the image.
*Correct when* a grant without a record goes, an approved kiosk gets in, and a
machine that lost its standing learns of it.

### Image builder (`iso_tasks.py`, `core/iso_build.py`, `routers/iso.py`, `tasks/kiosk_template.py`, `payload_hash.py`, `main.py`)

*State.* The base image with its temporary file and lock, the template and the
hash stored beside it, the failed hash in Redis, `TaskLog` rows,
`rebuild_required`. *Operations.* download, build, the periodic check, issue,
update and re-creation of a kiosk, restart of the API.
*Hard.* A guard that reads a row which only the started task writes; sources that
change while they are copied; workers and API that die over files and rows.
*Correct when* the stored hash never claims more than the template holds, and
the template catches up with its sources again and again.

### Restore and the kiosk client (`core/disk_ops.py`, `core/guest_config.py`, `restore_logic.py`, `restore_tasks.py`, `payload_client/backend/main.py`, `routers/iso.py`)

*State.* The disk, `/mnt/target`, the task's status; on the stick the cached
repositories with their layout files. *Operations.* the flash on the
orchestrator, the restore on the kiosk from its cache or from the orchestrator,
the copy of a node's repository to the stick.
*Hard.* A dozen steps on one disk, each of which may fail; one mount point for all
restores of a host, and no lock; messages delivered again while the first is at
work; links that go down in a copy that has already removed the old cache.
*Correct when* SUCCESS is only told of a disk that boots the system that was asked
for, or of a cache that holds the archive, and nothing stays mounted.

### The rest

Estimates and projection of backups, drive and thermal verdicts, capacity and
statistics compute and display. Users, settings, groups, history, terminal and
network requests are single transactions. The front end polls.

*Interactions.* The scheduler and the buttons dispatch the backup task through
Celery and share the running key with it. The backup task, prunes and deletions
share a repository through the lock. The outcome of a backup is the history the
scheduler reads and the alert sources grade. A successful backup dispatches a
harvest. Bootstrap, licence and restore move the status that scheduler, alerts
and buttons look at. The kiosk's standing decides whether it may copy or restore
from the orchestrator; the images carry the kiosk client.

## The modules

| Module | Models | Uses |
|---|---|---|
| `RepoLock` | one repository and all that lock it | |
| `RunSlot` | abstract: a node is given to one run at a time and given back | |
| `BackupTask` | the runs of one node | `RunSlot` (refined) |
| `Scheduler` | the tick over one group through a week | `ScheduleSlots` |
| `ScheduleSlots` | due days over the calendar, turns within a window (operators) | |
| `Retention` | what a policy keeps of a node's archives (operators) | |
| `Archives` | archives, history rows and markers under backups, prunes, purges and deletions | `Retention` |
| `NodeLife` | the status of nodes | |
| `Alerts` | the alerts of the fleet, composed with the life of its nodes | `NodeLife` |
| `Harvest` | one node's telemetry from collector to database | |
| `KioskAccess` | kiosks, grants and the audit | |
| `Images` | base image, template and kiosk images | |
| `Restore` | `format_and_restore` on the disks of two hosts | |
| `KioskClient` | restores and copies at the kiosk, composed with the orchestrator's flashes | `Restore` |
| `MCRepoLock`, `MCBackupTask`, `MCScheduler`, `MCArchives`, `MCAlerts`, `MCHarvest`, `MCKioskAccess`, `MCImages`, `MCKioskClient` | values of the constants for TLC | the above |
| `RepoLock_proofs`, `BackupTask_proofs`, `Scheduler_proofs`, `Retention_proofs`, `Archives_proofs`, `Harvest_proofs`, `Images_proofs`, `KioskClient_proofs` | theorems | the module each is named after (`Scheduler_proofs`: `ScheduleSlots` too; `Archives_proofs`: `Retention_proofs`; `KioskClient_proofs`: `Restore`), TLAPS |

Definitions whose comment begins with `(mutant)` are plausible wrong versions
of the definition that follows them: substituting one must break a property.
They are not part of any specification.

### RepoLock

Participants are backups (which start over for ever), prunes and deletions
(once each). `pc` is the worker's place in its Python function; `borg` is its
borg process, which outlives a disconnected worker; `lock` is whose lock is on
disk. `owner`/`ownerLeft` are the maintenance flag and its remaining TTL, `reg`
and `registryLeft` the registry and the remaining TTL of its key, `abandoned`
the entries whose run can no longer remove them. Two history variables: `unseen`
is what was announced after a pre-flight had looked (or when Redis did not answer),
`lapsed` is whose own TTL ran out while they were still at work.

Each Redis call is one action, with its failure outcome as a disjunct. The two
halves of the prune's heartbeat are two actions. `Claim` is `SET NX EX`,
`Release` the compare-and-delete script. `BreakLock` is the break-lock command
with its fallback `force_cleanup_stale_repo_locks` (both leave no lock). `Tick`
is Redis's clock: remaining lifetimes are counted down, so no clock is kept and
the state space is finite; nothing obliges a step to end within its TTL. A token's uuid is abstracted to its owner. Which
archives exist is left out: a prune nondeterministically has more batches, or none.

### BackupTask

One node. A worker's `pc` follows `run_backup_task` from `setex` of the key,
over the stop check, the licence check and the transfer, to the record, the
task log, the retry or `finally`; every access to Redis, the database or the
node is one step. A message of the queue is the task id with its retry count;
`WorkerLost` puts it back, `Redeliver` duplicates it. `flock` on the node is
free, held by an attached run, by an orphan (a script whose worker is gone) or
by another orchestrator. Clients read the key into `raw` and go on with that
copy: the tick judges it twice, the press once (then clears the stop flag and
dispatches), the list once; `Judge` is `is_backup_lock_live`, with its
deletion by name. Whether the tick wants the node at all is left open
(`Decline`), since `Scheduler` says when. A transaction may be refused: that of the
history row raises and turns the run into a failed one, that of the task log is
swallowed (`LogStatus`), which `unlogged` remembers. `faults` bounds these, lost
workers, redeliveries and keys that expire.

The repository is left open too: a transfer may end because it is busy.
`RepoLock` says when. The two modules meet at `StartRemote`/`Launch` and
`Unregister`/`DropKey`.

### Scheduler

`day` and `slot` are the group's local time, with as many slots as the
distinctions need; ages of the last success and failure are counted in slots
and capped at `Horizon + 1` ("none in reach"; no look-back, interval or cooldown is
longer than `Horizon`, a day). One tick is one step, since the
races of ticks with runs are `BackupTask`'s; `TickInWindow` is the flag
clearing and the whole dispatch loop, `TickOutside` the marking. `Chosen`
takes the first free slots of the queue with the cooling nodes passed over, as
the loop does. Failures have a look-back of their own (`FailureLookBack`), since a window
or an interval may be shorter than the cooldown. `running` holds both dispatched and transferring runs, as the
key does. `PressGroup` is the group's "backup now": it honours the configured
limit only, neither link nor shards nor cooldown, it takes nodes that are not READY
too (of those outside `enrolled` any may be merely that), and its slots may go to nodes
that are at work already (`routers/groups.py:138`, `nodes[:free_slots]`). What the
properties promise is therefore promised of the tick. `Pending` and the run count
that the link bounds are taken over nodes that are enrolled and not paused, as the
code's queries are: the running backup of a node that was paused under way is not
counted, so `LinkNotOversubscribed` speaks of the others.

`owed` is a history variable: nodes whose slot has come up, that have not been
paused since and have not succeeded since. A node is marked as late on the day it
was due, and only while its backup is not at work. One whose run outlasts that day
and then fails is not marked and waits for its next turn, a week or a quarter later;
`OwedIsPursued` is therefore stated for windows within one day and for `QuietNights`:
runs end before the day does, and no operator starts one in its last slot.

### ScheduleSlots

Operators only: `Years` are the years, leap or ordinary, that begin on any
weekday, and `PeriodsServed` compares the due days of every placement (interval,
target week, residue of the hash) with its periods: each day for a test interval, any
seven days on end for a weekly one, months, quarters and years. `TurnsInWindow` does
the same for the stagger within a window. `Scheduler` takes of the slot the weekday
(`DueDay`) and the place in the queue (`Stagger`) only; its `CalendarServed` and
`TurnsKept` are those two formulas, looked at where a behaviour begins.

### Retention and Archives

An archive is a node and a day. `Period` gives each rule's period of a day, so
that days, weeks and months keep their nesting and a few days suffice.
`Retention!Select` is `select`: what the window keeps, then the rules one after the
other in borg's order, each of which sees what the ones before it have kept.
`Split` is `prune_split` with its two oddities (a head kept already is passed over
without using up a place; a rule that stays short keeps the oldest archive). `IsPolicy`
says which policies `rules_from_policy` can produce: a window of days comes with
`secondly`, which keeps the newest archives by number, and never with the calendar rules.
No two archives of a node are made in one second.

In `Archives` each borg command is one step, since borg's lock makes it one;
everything between two commands is open to others. The prune goes through
`list`, `delete` and `relist` for each shard and then, if no shard failed to
list, through the four steps of `_reconcile_history_with_repo`: which rows are
stale, what is left, which markers differ, commit. They are one transaction, but
each query sees what others have committed by then. `Claims[n]` is the set of
nodes whose archives `startswith(hostname-)` fits; `Tables` are the orders in
which the unordered query may return nodes, since the first fit claims. A shard
that is not initialised is a shard without archives. `made`, `late` and
`touched` are history variables.

### NodeLife and Alerts

A task is a record in `job`: its kind, node and stage, and whether the node was
down at some time meanwhile (`blind`), which is what its verdict says. A verdict
is written by id, `Verdict`, as the code does. An id is final: a deleted node does
not come back. A retry pass reads its batch (`RetryReads`) and goes through it one node
at a time, since a node deleted meanwhile ends the pass: it commits the new status
(`RetryMarks`), then sends the bootstrap (`RetryHands`), and may be lost in between
(`RetryLost`). `parked` is a history variable: the nodes whose last bootstrap was
refused, failed or was lost, which nothing in the code takes up again.

A sweep of `Alerts` is three steps: it asks (`SweepBegins`), reads the live rows
(`SweepReads`) and commits (`SweepCommits`). The commit writes attribute by
attribute what the read implied (`Written`), over whatever the row has become;
what the database refuses (the unique index, the foreign key, a row that is gone)
fails all of it. `NodeOffline`, `StaleBackup` and `Graded` are the sources.

### Harvest

Samples are numbers; a file is `{}` or `{contents}`. The drain is a shell on the
node with one step per command (`test`, `mv`, `cat`, `rm`), apart from the task's
`pc`, so that either may outlive the other; the collector has its own steps
between opening and writing, and its trim. `Readings`, `Windows` and `Rollups`
translate `core/telemetry.py`, with the thermal fit reduced to the question
whether it is accepted; `Windows` walks through the readings with `cut`, a recursive
function whose value at a sample is the windows closed by then and the one still open
(`Extend` and `Closed` are the loop's body and its end). `harmed` and `copied` are history variables that name each
accident the properties grant.

### KioskAccess

`file` is `authorized_keys`; every writer has its `copy`, so a read and a write
are two steps and updates get lost as they do. A machine has one row. The audit's
finding of a key is its `streak`, whether it has `aged`, and whether it is
`closed`. Machines start paired or unknown; images bring the orchestrator's own
key along, as the code has it.

### Images

The payload's sources are a version number that stands for its hash too. A build
is a message, a worker's place and a row; `row` distinguishes a RUNNING row that
is young from one past 45 minutes, which the guard takes for dead. A repack is one
step, an unpacked template is `content`. An image is the version it holds, so that
`TemplateCatchesUp` can ask for the sources themselves; what the code believes of it is
`stored` and `IsStale`. A build that fails, or loses its worker, while it packs may
leave the old image, none or a `Torn` one.

### Restore and KioskClient

A disk is a root filesystem and the others below it, the names its filesystems were
made with and the names its `fstab` calls them by, and whether it boots. A restore is
given a plan: a list of partitions, and beside it an `efi_uuid` that need not be the one
in the list. `Made` and `Expected` are what `mkfs` and what `fstab` and its audit make
of it. `mounts` is the stack of roots on
`/mnt/target` of a host. A disk is busy (`Held`) while it is anywhere in the stack,
mounted over or not, or while a borg works in it; the unmount that precedes each
`mkfs` takes away only what lies on top (`Bared`). A step that fails may have done its work by halves (`HalfDone`): a partition
table begun, a root mounted without the rest. What is mounted below a root goes with it,
so a root stands for all of it. Every step of `format_and_restore` is an action that works
on whatever is on top of the stack by then, except borg, which stays in the
directory it was started in. `lapped` is the history variable of runs during which
another was at work on the same host. `KioskClient` adds the requests, the choice
of source and plan (`Listed` is the id a cached directory has with and without
a layout file), the cache of the stick, the copies and the faults of link, backend
and prune. A flash is delivered again while it is extracting, left by its worker,
or dead.

## What the runs check

| Run | Instance | Shows |
|---|---|---|
| `repolock_safety` | 1 backup, 2 prunes, 1 deletion, 1 fault (worker, borg or link), Redis may fail for all of them, TTLs lapse at any moment | `TypeOK`; `ExclusiveMaintenance`: prunes overlap only after a flag lapsed under one of them; `FlagLeavesOnlyItsOwner`: the late release, heartbeat and claim of one prune leave another's flag alone; `BreakSparesAnnounced`: a break never hits an announced borg that could have been seen |
| `repolock_recovery` | 2 backups, one with twice the TTL of the other, 1 prune whose Redis fails, 1 fault | `RegisteredWhileWriting`: the fast node's heartbeats do not end the slow node's registration; `StaleLockCleared` (liveness): a lock left behind goes, unless the backups defer to each other for ever |
| `backuptask_faults` | 2 runs without retries, 2 workers, 1 operator who looks, presses and stops; 1 fault (lost worker, redelivery, expired key, refused transaction), Redis failures, lapsing results | `TypeOK`, `OneTransferOnNode`, `LoggedSuccessHasRow`; `EndedIsLogged`: an ended run is not shown as running unless its last report was refused or its retries were spent; `CancelOnlyIfAsked`: a stop reaches no other run of the node |
| `backuptask_slot` | 2 runs, 2 workers, 1 tick, another orchestrator | `RunsOneAtATime` (refines `RunSlot`), `EveryRunSettles`, `StaleKeyCleared` (liveness) |
| `scheduler_week` | five groups of 2 nodes: by day on a link for one stream with a node that may be paused, all day, across midnight, test interval with a paused node too, and a narrow link with a node that may fail for ever, the last two also started by hand; the whole calendar | `OwedIsPursued`, `RestAfterSuccess`, `CooldownKept`, `LinkNotOversubscribed`, `OwedIsServed` (liveness), `CalendarServed`, `TurnsKept` |
| `archives_nights` | 1 node, 6 days, 6 policies, prunes at any moment, batches that fail | `NightsLoseNothing`: piecemeal pruning keeps what one prune of everything would; `QuotaHeld`: each rule has as many archives as it counts, or else the newest of every period and the first of all; `NewestKept` |
| `archives_history` | 2 nodes whose names overlap, 2 shards, 2 days, 1 mishap (refused listing, lost worker, purge, deletion of node or archive) | `TypeOK`, `ReconcileSparesListed`, `HistoryConverges` (liveness) |
| `images` | 2 builds, 1 kiosk; any two of an edit, faults and requests | `StoredHashHonest`; `TemplateCatchesUp`, `LockReleased` (liveness) |
| `kiosk_access` | 2 machines, the orchestrator's own key and another, 2 requests, 1 fault | `WithdrawnGrantsGo`, `ApprovedGetsIn`, `ClientLearns` (liveness) |
| `alerts` | 1 node; 2 sources or the third one, 2 overlapping sweeps, 1 task, 3 requests and faults; or no sweep, 2 tasks, 4 requests and faults | `NobodyForgotten`, `AlertsFollowTheFleet` (liveness) |
| `harvest` | 2 harvests, 4 samples over a reboot, a buffer of 2, 1 fault | `NothingLostSilently`, `FitsIndependent`; `DueIsHarvested` (liveness) |
| `kiosk_client` | 2 runs and 2 copies, 2 disks at the kiosk and 2 at the orchestrator (one its own), 3 archives, 2 requests, 1 fault | `RestoredIsWhole`: SUCCESS means the system that was asked for, bootable, on the filesystems its `fstab` names; `NothingLeftMounted` |

*Bounds, and why they are enough.* Two participants of a kind are what every
property about shared state speaks of, and TTLs of one and two ticks give
every order of "lapses before, between and after". One fault
suffices for every property that a single fault could break; two are the
business of the proofs, which bound nothing. `RetryLimit` 1 in `backuptask_slot`
passes through "retried" and "spent"; `backuptask_faults`, where two runs meet
every fault, has 0, so that the first busy node spends the retries. Two runs of one node are the race a stop or a press can
cause. A week of two days with four slots has a day that is due and one that is
not, and a slot before, two within and one after each window, and the window
that crosses midnight. The residues of the hash that `ScheduleSlots` takes meet
every combination of month, week and weekday that `node_slot` can draw (the theorem
takes every hash). Six days
are three "weeks" and two "months" of the archives' calendar, more than any of the
policies counts; two shards give a listing that is older than another.
In `harvest`, four samples give a reading before and after a reboot, a bucket and a
window with two readings and a buffer past its cap. `alerts` has three scenes, one of
which a behaviour keeps to: two kinds of alert of a node that meet in one commit, the
third, whose severity depends on its own row, and two overlapping tasks without alerts.
That its batch holds one node leaves the starvation of a batch out (see below). In `kiosk_access` a second key is one an image brings
along, and `PruneMinScans` 2 tells a streak from a first sighting; the caps of a
prune (5 and 8) are not reached. In `kiosk_client` two requests with a redelivery
are up to three executions asked of two run places; disks and hosts are chosen so
that two restores share a host, a mount point, a disk or nothing. Of the three nodes one's layout was collected, of one
only the EFI UUID is known, which is on the stick at the start, and of one nothing. Symmetry is used only where no
liveness property is checked. Deadlock is not checked in `harvest`,
`kiosk_client` and `alerts`, whose bounds on samples and requests let every actor come to
rest (in `alerts` without sweeps).

## Fairness

- `RepoLock!FairSpec`: workers go on, borg ends (the lock wait and the data
  bound it) and Redis's clock advances. Crashes, stops, heartbeats and the start
  of a prune or deletion are never owed. Backups are dispatched again and again,
  which is what the beat and the retries do.
- `BackupTask!FairSpec`: a worker takes messages and finishes what it took, a
  transfer ends (the soft time limit bounds it), a script left on the node ends,
  the beat ticks, a begun request is served. No press, fault or expiry is owed.
- `Scheduler!FairSpec`: the tick, the clock and the end of a run (weak: the soft
  time limit bounds it), and strong fairness of a healthy node's success: one that
  is dispatched again and again succeeds in the end. A node outside `Healthy` may
  fail for ever, and the healthy ones must be served all the same.

- `Archives!FairSpec`: the prune starts again every night and goes on, a
  deletion that has begun goes on, and a committed archive gets its row or its
  worker is lost. Refused listings are bounded by `MaxMishaps`: a repository that
  is never listed is never reconciled. No backup, purge or mishap is owed.
- `Images!FairSpec`: workers take messages and finish, the check comes round, rows
  grow old. `KioskAccess!FairSpec`: pollers go on, begun requests end, the audit
  runs. `Alerts!Spec`: the beat's tasks come again and end, locks lapse, a begun
  acknowledgement writes. `Harvest!FairSpec`: the sweep comes again, tasks and
  shells go on or end (each command has a timeout). Requests, edits and faults are
  never owed; faults are bounded, because what is lost again and again never
  arrives.
- `KioskClient` states no fairness: an extraction over a silent link has no
  timeout in the code, so nothing owes a restore its end.

## What is proved

For every value of the constants that satisfies the modules' assumptions. These say
that sets of participants are disjoint or finite and that markers such as `NoTask`,
`NoDisk` and `NoImage` are none of the values they stand beside; that TTLs, days and
weeks have a length; that every disk belongs to one host and the orchestrator has
one of its own; that a node has one due day and no two have the same stagger (ties
are broken by the queue's order in the code); that the clock of a node goes
forward, and an accepted window has a reading at least (`thermal.MIN_SAMPLES` is 60);
that a later archive is in no earlier period of any rule, and two archives of a node in no
one second (`core/retention.py` says so of itself); that placements and windows are
such as a group can be given. TLC evaluates each on the run of its module. Nothing bounds the numbers of
runs, nodes, faults or requests. Every proof starts from an inductive invariant that
holds in the initial states and that each action is shown to keep, action by action;
what follows says what that invariant needs beyond the property, and why.

- `RepoLock_proofs`: `TypeCorrect`, `BreakSafety`, `FlagSafety`,
  `MaintenanceIsExclusive`, `WriterStaysRegistered`. `TypeOK` is inductive by
  itself. `BreakSafety` needs `SeenInv`: from its reads on, a pre-flight either
  was told that nobody is there or has the newcomer in `unseen`. `FlagSafety`
  and `MaintenanceIsExclusive` need `FlagInv`: the flag is there exactly while it
  has time left. `WriterStaysRegistered` needs `KeyInv`: the registry's key
  outlives the registration of every node whose TTL no other node undercuts by more
  than half, because the code gives the key twice the TTL of whoever beat last. None
  of them assumes that a step ends within its TTL.
- `BackupTask_proofs`: `TypeCorrect`, `CancelSafety`, `TransfersExclude`,
  `SuccessHasRow`, `EndedRunsAreLogged`, `ImplementsSlot`. `TypeOK` is inductive only together with
  `HoldInv` (a busy worker has a run; a stop under way has read one).
  `CancelSafety` rests on `FlagInv` (the stop flag names a stopped run);
  `TransfersExclude` is inductive given the types, because only a free `flock`
  starts a transfer and only its holder's end frees it; `SuccessHasRow` needs
  that a worker about to log a success has recorded it (`RowInv`); `EndedRunsAreLogged` needs
  `AliveInv`: a run shown as running has a message, or a worker that is not yet
  in `finally`, unless its last report was refused.
  `ImplementsSlot` is the refinement of `RunSlot` without its fairness, step by step,
  for any number of runs and workers, retry limits, lapsing results and other
  orchestrators, `Undisturbed` by what the code does not protect the node from: a second
  tick, a press, a look at the list, a lost worker, a redelivery, a key that expires
  or cannot be read. `SlotInv` says that a run is one message or in one worker's hands
  (`OneTokenInv`), is not `ready` while it is under way (`PendingInv`), is named by the
  key or by the tick about to write it (`KeyInv`), and that what the tick has read is
  still so when it judges (`TickInv`), since only the tick itself dispatches.
- `Scheduler_proofs`: `TypeCorrect`, `RestKept`, `LinkKept`,
  `OwedPursued`, `TurnsAreKept`, `EveryPeriodIsServed`. `RestKept` needs no more than the types and
  `AgeIsOpenFor`: the look-back that the code computes from two clock times is how
  long the window has been open, by day, across midnight and all day (this is where
  `AheadOfItself` has to be excepted). `LinkKept` has two lemmas: `CutQueue`, that a
  queue cut at its k-th place holds k nodes at most, and `EffectiveWithinLink`, that the
  deadline never raises the limit past the link; each dispatch then fits what is free.
  `OwedPursued` needs `DebtInv`: a node that is owed has no success since the window
  began (`OwedInv`), and it is marked as late, or it is its day and the tick that
  marks it is still to come (`MarkedInv`); that this tick finds the node idle is
  `NightInv`. `TurnsAreKept` is about `ScheduleSlots`, for every hash and every
  window of an hour or more: whole hours and minutes of an hour make less than the
  window (`OffsetBound`). `EveryPeriodIsServed` too: of seven days on end one has the
  weekday (`OneOfSeven`), the first three weeks of a month are seven days and the last
  at least that (`WeekComes`), and each interval looks for such a day in one month of
  its period (`OneDayIsScheduled`). The run can only sample hashes by their residues.
- `Retention_proofs`: `SelectPiecemeal`, `SelectShrinks`, `SelectGrown`, `SelectCounts`,
  lemmas about what a policy keeps of different archives. `SelectPiecemeal`: as long as
  what is kept of all archives is left, exactly that is kept of those that are left.
  `SelectShrinks`: a later day keeps no more. `SelectGrown`: neither does a newer archive
  of the old ones. The last is where a policy's shape is needed: a rule of its own
  pushes out at most what the newcomer replaces, but a window that has kept the
  newcomer's period head already would leave a calendar rule a place for an older
  one. Each is a relation between two runs of `Select` that each `Split` preserves
  (`SplitPiecemeal`, `SplitMonotone`, `SplitGrown`); no induction is needed, because
  the rules are four and `Split` is described by how many newer heads there are.
- `Archives_proofs`: `TypeCorrect`, `ReconcileSafety`, `NewestSafety`, `NightsSafety`,
  `QuotaSafety`.
  `ReconcileSafety` rests on `ListedInv`: what is stored in a shard that is done
  with has been listed or is `late`, and so is every stored archive among the
  stale rows. `NewestSafety` rests on `DecidedInv`: an archive about to be deleted
  has a newer one of its node beside it, unless a person deleted that since. That
  a newest archive exists uses the well-foundedness of the naturals
  (`WellFoundedInduction`).
  `NightsSafety` and `QuotaSafety` rest on `RetainedInv`: what the policy would keep of
  all a node's archives ever made is stored and in no plan. A plan is what the policy
  does not keep of what is stored: by `SelectPiecemeal` that spares all it should. By the
  time a batch is deleted the day and the archives have moved on, and `SelectShrinks` and
  `SelectGrown` say that nothing has become worth keeping in between; that a backup is
  newer than all before it is `DatedInv`. `QuotaSafety` is then `SelectCounts`, about
  one selection. Stating it so for every policy showed that the property once checked
  here, at least as many archives as a rule counts or as there ever were, was too
  strong and held for counts up to two only: of ten archives made in one month, a rule
  of three months keeps the newest and, being short, the oldest, and no third. The
  property and the run's policies (`Grandfather` counts three) now tell these apart.
- `Harvest_proofs`: `TypeCorrect`, `NothingLost`, `FitsSafety`. `NothingLostSilently` grants a sample that is in
  somebody's hands, so it cannot be inductive: a `cat` may put a sample there and a
  commit may fail. `HandOver` says what each file may contain. Whatever a harvest has
  not committed is in the buffer, the staged file or its hands (`WrittenInv`), and the
  staged file may hold what exists nowhere else only while one drain alone stands
  between its `mv` and its `cat` and is listened to (`StagedInv`); that is why an
  older shell's `mv` or `rm` cannot destroy it unnoticed. `HandsInv` keeps what was
  printed from being forgotten before it is stored or named.
  `FitsSafety` is about fits stored by different drains. Its invariant, `BatchInv`,
  speaks of whole batches: whatever a shell has printed, a harvest holds or a stored fit
  was cut from is `Fresh`, that is, it has nothing in common with the buffer, nor with
  any other such batch or the staged file, unless a trim left it twice or one of the two
  is where the other begins (`Opens`): the file was read, stayed, and was added to
  by a late collector. The windows of a batch are a recursive function's values, so
  what they satisfy is proved of the least sample at which it would fail
  (`WindowsApart`, `CutAlike`): they are disjoint, and up to a sample they do not depend
  on what follows. Two windows that share a reading therefore begin with the same one,
  and the table's unique key, which is that beginning, keeps the one or the other.
- `Images_proofs`: `TypeCorrect`, `HashHonest`. A build reads the hash before it copies
  the sources, so what it packs is no older than what it will store (`HashInv`); while
  builds do not overlap there is one at a time (`AloneInv`) and nobody replaces the
  template between its packing and its hash (`ShipInv`).
- `KioskClient_proofs`: `TypeCorrect`, `SuccessTrue`, `NothingStays`, both halves of
  the composition at once. The steps are first reduced to what they do to executions
  (`Turn`), mounts (`Carries`), disks (`Writes`) and the record of overlaps (`Laps`); the
  invariants are then proved from these. `NothingStays` is a matter of counting:
  however restores overlap, a host has no more mounts than it has runs that will take
  one down (`Count`), since each mounts one root and takes one down when it ends, whosever
  it is. What breaks the count is a lost worker; then either it had lapped another (`LostLapped`) or it
  was alone, and its single mount stays until somebody takes it (`LeftAlone`). `Own`
  says whose those mounts are, which a run that is alone needs in order to find only its
  own. `SuccessTrue` needs, of a run that nobody has lapped, that its disk is mounted
  on top exactly while it works in it (`Hung`) and is as far as its place in
  `format_and_restore` says (`Fit`); that no other has wiped the disk since (`FarInv`); and
  that a disk it has told SUCCESS of is not mounted and no borg is at work in it
  (`SettledInv`), so that nobody's later step can spoil it but a new restore's wipe.
  The names are part of `Fit`: what `mkfs` made and what `fstab` says are `Made` and
  `Expected` of the same plan, which is the same list always and the same ESP where the
  plan is `Agreed`. Copies need no invariant: what an offline restore finds in the cache
  is read by borg, which fails on a part.

Model-checked only:

- `CooldownKept`, whose premiss is the look-back's clock arithmetic over one slot;
- liveness, which is out of the provers' reach, and of `RunsOneAtATime` the fairness of
  its abstract specification;
- what `Alerts`, `NodeLife` and `KioskAccess` promise, all of it liveness.

## Disagreements between the code and its comments

- *Two writers.* `core/repo_lock.py` and `backup_tasks.py:307-310` say a live
  lock is never broken. Registration follows the pre-flight
  (`backup_tasks.py:838`), so a pre-flight that found nobody can break the lock of
  a backup that registered and started in between. A purge and a deletion by hand
  (`restore_tasks.py:79`, `core/archive_cleanup.py`) never register at all.
  `BreakSparesAnnounced` therefore speaks of who was announced when the pre-flight
  looked.
- *One key for all registrations.* `core/repo_lock.py:212` gives the key of the registry
  a life "so an abandoned registry cannot outlive every writer in it"; it is twice the
  TTL of whoever beat last. A node whose own TTL is more than twice another's drops out
  of the registry when that other has been the last to beat and the key expires first.
  `RegisteredWhileWriting` therefore speaks of nodes that are `LongLived`; outside them
  TLC finds it violated (TTLs 3 and 1).
- *Waiting crowds.* "A lock with nobody registered against it is still broken"
  (`core/repo_lock.py:27`), but a backup that merely waits for the stale lock is
  registered too. Two nodes whose backups start, each while the other waits, keep it for ever; `StaleLockCleared` names exactly that.
- *Late heartbeats.* `core/repo_lock.py:144-145` wants a heartbeat to extend its own claim
  only. It reads the owner and then extends the key by name: one whose flag lapsed in
  between extends the flag of the prune that took over. The token in it stays
  (`FlagLeavesOnlyItsOwner`), so the harm is a longer silence after a crash.
- *Spent retries.* `backup_tasks.py:606` waits for `MaxRetriesExceededError`,
  but `self.retry(exc=e)` raises `e` itself when the limit is reached: no
  `BackupHistory` row and no final `TaskLog` status are written, and the node's
  keys stay. No FAILED row also means no cooldown.
- *Refused reports.* `core/task_log.py:27-30` lets a database error pass so that it does not
  hide the failure being reported. When it is the last report that is lost, the run
  stays RUNNING in the log although its history row is there; nothing looks again.
  `EndedIsLogged` grants exactly that (`unlogged`).
- *All-day windows.* `core/scheduler.py:152-153` says that a window in its
  "after midnight" half "actually started yesterday"; equal bounds "mean a full 24h
  window" (`core/schedule_slots.py:70`), but only unequal ones are moved back. Between
  midnight and its start time an all-day group takes its window to begin in the
  future, no success counts, and the tick backs a due node up again as soon as it is
  done. TLC shows it in four steps when `AheadOfItself` is taken out of
  `RestAfterSuccess`. Such a window never closes either, so a node that is due and not
  served before midnight is not marked.
- *Nights.* A run that is still at work when its window closes and fails after
  midnight is never marked missed, since the closed hours of the new day are
  judged by that day's own window. TLC finds `OwedIsPursued` violated when
  `may.longest` is `"night"`; `scheduler_week` has runs that end within the day.

- *Rows and archives.* `backup_tasks.py:1318-1319` reasons that "a SUCCESS row only
  ever disappears with its archive". A backup that ends after its own shard has
  been listed, while the prune is busy with the other shards, is not in the
  listing and has a row: the reconciliation drops it and moves the marker back,
  and the scheduler sees a node without a success. `ReconcileSparesListed`
  therefore grants `late` archives, and nothing else.
- *Newest archives.* `backup_tasks.py:1247-1249` spares "every node's most recent
  archive". Archives are claimed by prefix and the first fit, so those of `edge-1`
  may be claimed by `edge`, pruned under its policy, and not be its newest.
  `NewestKept` speaks of `Unambiguous` names. A purge of `edge`
  (`restore_tasks.py:69`) takes the archives of `edge-1` in its shard too.
- *Markers.* A marker that was counted as without rows and is set by a backup
  before the reconciliation commits is blanked although its row exists, and later
  nights pass over empty markers (`backup_tasks.py:1329`).
  `HistoryConverges` therefore speaks of markers that are set.

- *Redelivered flashes.* `celery_app.py:59-61` calls late acknowledgement safe
  "because the tasks that matter are guarded by their own Redis locks".
  `flash_restore_device` has none. One that outlasts the visibility timeout (an
  hour, which nothing sets) is delivered again while it extracts: the copy takes the
  mounts away, finds the disk busy and fails, its error path unmounts once more, and
  the first run fails too or writes its `fstab` and bootloader to nothing.
- *One mount point.* No restore knows of another on its host. `safe_unmount_target`
  and `rmtree` of the later one (`core/disk_ops.py:489-490`) take down or delete the
  tree of the earlier one, and `audit_fstab`, which is there to notice a write to an
  unmounted directory (`core/guest_config.py:279-282`), reads the very path that was
  written. `RestoredIsWhole` therefore grants `lapped` runs; `NothingLeftMounted`
  grants nothing but lost processes.
- *Two names of an ESP.* `core/guest_config.py:233` wants an `fstab` "describing the
  partitions we just made". `mkfs` takes the list's uuid before `efi_uuid`
  (`core/disk_ops.py:449`), `fstab` and audit `efi_uuid` before the list's
  (`core/guest_config.py:256`, 297). The kiosk's default list names its ESP `458C-37BB`
  (`payload_client/backend/main.py:445`) and goes with the `efi_uuid` of a node whose
  layout was never collected (lines 406, 423), so such a restore tells SUCCESS over an
  `fstab` whose ESP does not exist. `RestoredIsWhole` asks for the ESP's name where list
  and `efi_uuid` are `Agreed`; without that TLC finds it in a single kiosk restore. The
  orchestrator writes the `efi_uuid` into its default list and is not affected.
- *Offline restores.* `payload_client/backend/main.py:306` says offline "needs no such
  check"; a cache that is missing its archive, or is a part, is found out by borg
  after the disk has been wiped. Lines 308-310 say the cache is preferred even
  online; an online restore always reads from the orchestrator. A cached node without
  a layout file has an id that depends on the listing (line 755), so the id may name
  another node when the restore looks again.
- *The copy to the stick.* Lines 1143-1146 describe borg-to-borg and resumable; it is a
  tar of a repository built for the occasion, and the old cache is removed first.
  A download of more than twelve hours "cannot still be serving anyone"
  (`routers/iso.py:356-360`): its directory is swept under it, tar's exit status is
  ignored (line 556), the announced size is never compared, and the copy reports
  SUCCESS, as it does over any other failure of that tar. No property speaks of the
  word of a copy; that a restore from a part never tells SUCCESS is in `RestoredIsWhole`.
- *Templates.* `iso_tasks.py` remembers a failed hash so that sources that do not build
  are tried once; the check dispatches again while a build waits in the queue, and the
  guard against two builds looks for a row that the task writes later. Overlapping
  builds can leave a newer hash over older content, which is why `StoredHashHonest`
  speaks of builds that did not overlap. `core/iso_build.py:437-439` says the old image is
  unlinked first "so a failed run cannot leave a truncated image sitting where the next
  build expects a whole one"; a run that dies over the new one does. When an earlier build
  has stored the hash of the same sources, the check finds them agreed and does nothing,
  for ever. `Deceived` is this and the overlap, the only exceptions of
  `TemplateCatchesUp`: TLC finds it violated without either. A leftover `base.iso.tmp` beside a base image
  disables the check for ever (`tmp # "none"` in `TemplateCatchesUp`). An IP changed
  during a repack loses its `rebuild_required`.
- *Keys.* `core/ssh_audit.py:18-20` wants several scans before a prune; a finding that was
  resolved by a prune or a purge keeps its streak, so a key that returns may be pruned
  at its first scan. A check-in that read the row before a disablement grants the key
  again afterwards; the audit takes it away (`WithdrawnGrantsGo`). A kiosk that asks
  for reactivation after 72 hours is swept at the operator's next look.
- *Lost nodes.* "Whatever is left over is picked up by the next run"
  (`tasks/bootstrap.py:359-360`): the first twenty OFFLINE ids are read whether or not
  their credentials are known, so twenty without them starve the rest. A bootstrap that
  overlaps another and fails late demotes a READY node to OFFLINE, whose credentials the
  other has dropped. README.md:336-338 promises that a failed monitoring roll-out does
  not fail a bootstrap; its playbook logs under the same task id, so the log ends FAILED.
- *Parked nodes.* A retry turns OFFLINE into NEEDS_BOOTSTRAP and commits before it
  publishes the bootstrap (`tasks/bootstrap.py:375-381`), and the next pass reads OFFLINE
  nodes only. "The node stays exactly as it was" (lines 146-147) when a backup is at work, so
  a retried node stays NEEDS_BOOTSTRAP; so does one whose task is lost, since its second
  delivery stumbles over the TaskLog row of the first. `NobodyForgotten` grants these
  (`parked`).
- *Alerts.* An open WATCH that becomes an ALERT is not announced to those who asked for
  ALERT only. An escalation that meets an acknowledgement ends ACKNOWLEDGED. A retry
  that flips OFFLINE to NEEDS_BOOTSTRAP lets the hourly sweep resolve the alert and
  start its age again. Notifications follow the commit and are lost with the worker.
- *Telemetry.* `tasks/monitoring.py:79-80` and `core/harvest.py:71` call the drain lossless;
  the buffer is removed before the commit, what is written after `cat` is lost, and a
  bucket split between two drains is overwritten by its second half.
- *Estimates.* `core/schedule_estimate.py:272-274` wants a lock that outlives the backup; a
  node that never ran gets four hours. The stagger of a window of less than an hour
  reaches past its end (`TurnsKept` speaks of the others).

## What is only model-checked, and what is not modelled

Left out of the modelled parts, on purpose:

- *Backup task and lock.* The hard time limit (a killed worker is `WorkerLost`); a broker
  that refuses a publish; Redis failing in the calls that do not swallow the exception;
  a worker lost between the publication of a retry and its acknowledgement; the
  contents of archives, log lines and progress; the `license_lock`; transfer rates.
- *Nodes and alerts.* Key sync and re-tagging, collected facts, the roll-out of monitoring,
  who is notified. Two nodes would show the starvation described above.
- *Harvest.* Switched-off nodes, SMART snapshots and capabilities, clocks that step back,
  readings out of range, the numbers of the thermal fit, retention of accepted fits. A
  harvest delivered again waits for its own old shell.
- *Kiosks.* Clashes of kiosk ids; the scan of the nodes' keys; the caps of a prune; the
  read and write of a purge by hand are one step. `config.json` is written by two threads
  and not atomically; the choice of another storage path moves the cache.
- *Images.* What an image contains; the files of kiosk images and the pruning of their
  history; a repack is one step.
- *Restore.* The text of the files that are written, LVM and LUKS holders, exclusions and the
  licence runtime, whose failures are warnings; partitions with neither label nor uuid; the
  order in which what is mounted below a root is taken down (they are one entry of
  `mounts`). A node's record does not change while the stick has a copy of it. `recreate_postgres_log_dirs` runs when
  nothing is mounted any more and does nothing.
- *The kiosk's self-update* (`payload_client/backend/main.py:1540-1618`) cannot be reached: no
  image carries `payload_hash.txt`, the check-in sends an empty hash, and
  `routers/kiosks.py:438` never calls an empty hash outdated.

`PROJECT.json` lists every part that no module covers and why. In short: pure display,
estimates and CRUD; statistics over floating-point readings; the front end; network
services and deployment, which are executed by external tools.

## Plan

All modules of the original plan are written, and every safety property that a run
checks is proved but `CooldownKept`. What could be added, in this order:

1. Estimates and projection as operators beside `ScheduleSlots`.
2. Two nodes in `Alerts`, for the batch of retries, and the roll-out of monitoring.

## Running it

    tlc -workers 2 -config KioskClient.cfg MCKioskClient.tla
    tlapm RepoLock_proofs.tla
    tlapm KioskClient_proofs.tla

Every run ends within four minutes on two workers.
