----------------------------- MODULE BackupTask -----------------------------
(***************************************************************************)
(* The backup runs of one node: run_backup_task (backup_tasks.py), from    *)
(* the scheduler's tick or an operator's press to the recorded outcome.    *)
(*                                                                         *)
(* A run is a Celery task id.  It travels as a message, is taken by a      *)
(* worker of the "backups" queue, and keeps its id over its retries.  The  *)
(* Redis key backup_running:<node> names the run that has the node,        *)
(* backup_cancel:<node> names the run an operator has stopped, and a flock *)
(* on the node itself keeps two transfers apart (core/node_lock.py).       *)
(*                                                                         *)
(* Every look at backup_running:<node> is a read followed by a question to *)
(* Celery and perhaps a deletion, in separate steps: the scheduler's tick, *)
(* a press of Backup and a look at the fleet list all interleave here.     *)
(* Whether a tick wants this node to run (window, cooldown, free slots) is *)
(* left open.                                                              *)
(***************************************************************************)
EXTENDS Naturals

CONSTANTS
    Tasks,            \* the task ids there are to draw
    NoTask,           \* an absent key
    Workers,          \* worker processes of the queue
    Ticks,            \* scheduler ticks that may be under way at once
    Operators,        \* API requests: press Backup, press Stop
    Viewers,          \* API requests that list the node
    RetryLimit,       \* max_retries of the three kinds of retry
    MaxFaults,        \* bound on lost workers, second deliveries, expired keys
                      \* and refused database transactions
    ResultsExpire,    \* whether result_expires may pass
    RedisMayFail,     \* whether the calls that swallow an error may meet one
    ForeignBackups    \* whether another orchestrator backs this node up

Clients == Ticks \cup Operators \cup Viewers

Interruptions == {"nodebusy", "repobusy", "lost"}

ASSUME BackupTaskAssumption ==
    /\ NoTask \notin Tasks
    /\ Ticks \cap Operators = {}
    /\ Ticks \cap Viewers = {}
    /\ RetryLimit \in [Interruptions -> Nat]
    /\ MaxFaults \in Nat
    /\ {ResultsExpire, RedisMayFail, ForeignBackups} \subseteq BOOLEAN

VARIABLES
    queue,         \* messages waiting for a worker, countdowns included
    pc,            \* where each worker is in run_backup_task
    task,          \* the run it works on
    tries,         \* self.request.retries
    out,           \* how its transfer ended
    key,           \* backup_running:<node>
    cancel,        \* backup_cancel:<node>
    flock,         \* who holds the lock file on the node
    ready,         \* runs whose result Celery calls ready
    rows,          \* BackupHistory rows of each run
    log,           \* status of each run's TaskLog row
    at,            \* where each client is
    raw,           \* the key as each client read it
    drawn,         \* task ids dispatched so far
    stopped,       \* history: runs an operator asked to stop
    gaveUp,        \* history: runs that spent their retries
    unlogged,      \* history: runs whose last final status was not written
    faults         \* how many of the bounded faults have happened

vars == <<queue, pc, task, tries, out, key, cancel, flock, ready, rows, log,
          at, raw, drawn, stopped, gaveUp, unlogged, faults>>

workerVars == <<pc, task, tries, out>>
recordVars == <<rows, log, unlogged>>
clientVars == <<at, raw, drawn, stopped>>

WorkerPc == {"idle", "check", "open", "launch", "transfer", "record", "log",
             "retry", "dropKey", "dropCancel", "finish"}
ClientPc == {"idle", "count", "admit", "judge", "look", "clear", "dispatch",
             "press", "setKey", "ask", "unset"}
Outcomes == {"none", "success", "failed"} \cup Interruptions

Messages == [task : Tasks, tries : Nat]

Init ==
    /\ queue = {}
    /\ pc = [w \in Workers |-> "idle"]
    /\ task = [w \in Workers |-> NoTask]
    /\ tries = [w \in Workers |-> 0]
    /\ out = [w \in Workers |-> "none"]
    /\ key = NoTask
    /\ cancel = NoTask
    /\ flock = "free"
    /\ ready = {}
    /\ rows = [t \in Tasks |-> {}]
    /\ log = [t \in Tasks |-> "none"]
    /\ at = [c \in Clients |-> "idle"]
    /\ raw = [c \in Clients |-> NoTask]
    /\ drawn = {}
    /\ stopped = {}
    /\ gaveUp = {}
    /\ unlogged = {}
    /\ faults = 0

Goto(w, label) == pc' = [pc EXCEPT ![w] = label]

\* The worker is free again and forgets what it worked on.
Leave(w) ==
    /\ Goto(w, "idle")
    /\ task' = [task EXCEPT ![w] = NoTask]
    /\ tries' = [tries EXCEPT ![w] = 0]
    /\ out' = [out EXCEPT ![w] = "none"]

Move(c, label) == at' = [at EXCEPT ![c] = label]

AddFault == faults < MaxFaults /\ faults' = faults + 1

\* A message of the run waits, or a worker has it.
Queued(t) == \E m \in queue : m.task = t
HeldBy(w, t) == pc[w] # "idle" /\ task[w] = t
Unfinished(t) == Queued(t) \/ \E w \in Workers : HeldBy(w, t)

----------------------------------------------------------------------------
(* A worker takes the message and marks the node as running.               *)

Begin(w, m) ==
    /\ pc[w] = "idle"
    /\ m \in queue
    /\ queue' = queue \ {m}
    /\ task' = [task EXCEPT ![w] = m.task]
    /\ tries' = [tries EXCEPT ![w] = m.tries]
    /\ out' = [out EXCEPT ![w] = "none"]
    /\ key' = m.task
    /\ Goto(w, "check")
    /\ UNCHANGED <<cancel, flock, ready, recordVars, clientVars, gaveUp, faults>>

\* (mutant) The request names the node: whatever runs there is to stop.
CancelRequestedOfNode(t) == cancel # NoTask

\* The request names the run, not the node.
CancelRequested(t) == cancel = t

\* log_to_task with a status: only a row that exists is updated, and a database
\* error is swallowed.
LogStatus(t, status) ==
    \/ /\ log' = [log EXCEPT ![t] = IF @ = "none" THEN @ ELSE status]
       /\ unlogged' = unlogged \ {t}
       /\ UNCHANGED faults
    \/ /\ AddFault
       /\ unlogged' = unlogged \cup {t}
       /\ UNCHANGED log

LogFailed(t) == LogStatus(t, "FAILED")

\* Stopped while it waited: it gives up before transferring.
GiveUpStopped(w) ==
    /\ pc[w] = "check"
    /\ CancelRequested(task[w])
    /\ LogFailed(task[w])
    /\ Goto(w, "dropKey")
    /\ UNCHANGED <<queue, task, tries, out, key, cancel, flock, ready, rows,
                   clientVars, gaveUp>>

\* An unreadable flag means "carry on".
NotStopped(w) ==
    /\ pc[w] = "check"
    /\ ~CancelRequested(task[w]) \/ RedisMayFail
    /\ Goto(w, "open")
    /\ UNCHANGED <<queue, task, tries, out, key, cancel, flock, ready,
                   recordVars, clientVars, gaveUp, faults>>

\* A lapsed licence, which writes the TaskLog row when there is none, or an
\* exception before the transfer, which does not.
Refuse(w) ==
    /\ pc[w] = "open"
    /\ \/ /\ log' = [log EXCEPT ![task[w]] = "FAILED"]
          /\ unlogged' = unlogged \ {task[w]}
          /\ UNCHANGED faults
       \/ LogFailed(task[w])
    /\ Goto(w, "dropKey")
    /\ UNCHANGED <<queue, task, tries, out, key, cancel, flock, ready, rows,
                   clientVars, gaveUp>>

\* The TaskLog row is made, or set back to RUNNING on a later attempt.
Open(w) ==
    /\ pc[w] = "open"
    /\ log' = [log EXCEPT ![task[w]] = "RUNNING"]
    /\ Goto(w, "launch")
    /\ UNCHANGED <<queue, task, tries, out, key, cancel, flock, ready, rows,
                   unlogged, clientVars, gaveUp, faults>>

----------------------------------------------------------------------------
(* The transfer.                                                           *)

\* (mutant) The remote script runs without the flock.
LaunchUnlocked(w) ==
    /\ pc[w] = "launch"
    /\ flock' = "run"
    /\ Goto(w, "transfer")
    /\ UNCHANGED <<queue, task, tries, out, key, cancel, ready, recordVars,
                   clientVars, gaveUp, faults>>

\* The remote script: `flock -n`, or exit 75.
Launch(w) ==
    /\ pc[w] = "launch"
    /\ \/ /\ flock = "free"
          /\ flock' = "run"
          /\ Goto(w, "transfer")
          /\ UNCHANGED out
       \/ /\ flock # "free"
          /\ out' = [out EXCEPT ![w] = "nodebusy"]
          /\ Goto(w, "retry")
          /\ UNCHANGED flock
    /\ UNCHANGED <<queue, task, tries, key, cancel, ready, recordVars,
                   clientVars, gaveUp, faults>>

\* The worker reads the end of the script.  After a lost link the script may
\* still be at work on the node.
TransferEnds(w) ==
    /\ pc[w] = "transfer"
    /\ \E end \in Outcomes \ {"none", "nodebusy"} :
          /\ out' = [out EXCEPT ![w] = end]
          /\ Goto(w, IF end \in Interruptions THEN "retry" ELSE "record")
          /\ \/ flock' = "free"
             \/ end = "lost" /\ flock' = "orphan"
    /\ UNCHANGED <<queue, task, tries, key, cancel, ready, recordVars,
                   clientVars, gaveUp, faults>>

\* The poll between two progress lines sees the request: ssh is terminated,
\* the script is left to notice.
PollCancel(w) ==
    /\ pc[w] = "transfer"
    /\ CancelRequested(task[w])
    /\ flock' = "orphan"
    /\ LogFailed(task[w])
    /\ Goto(w, "dropKey")
    /\ UNCHANGED <<queue, task, tries, out, key, cancel, ready, rows,
                   clientVars, gaveUp>>

\* The soft time limit raises in the worker, which leaves its ssh running.
SoftLimit(w) ==
    /\ pc[w] = "transfer"
    /\ flock' = "orphan"
    /\ LogFailed(task[w])
    /\ Goto(w, "dropKey")
    /\ UNCHANGED <<queue, task, tries, out, key, cancel, ready, rows,
                   clientVars, gaveUp>>

\* The script on the node ends by itself, or meets its closed pipe.
OrphanEnds ==
    /\ flock = "orphan"
    /\ flock' = "free"
    /\ UNCHANGED <<queue, workerVars, key, cancel, ready, recordVars,
                   clientVars, gaveUp, faults>>

ForeignStarts ==
    /\ ForeignBackups
    /\ flock = "free"
    /\ flock' = "foreign"
    /\ UNCHANGED <<queue, workerVars, key, cancel, ready, recordVars,
                   clientVars, gaveUp, faults>>

ForeignEnds ==
    /\ flock = "foreign"
    /\ flock' = "free"
    /\ UNCHANGED <<queue, workerVars, key, cancel, ready, recordVars,
                   clientVars, gaveUp, faults>>

----------------------------------------------------------------------------
(* The outcome: the history row, then the TaskLog, in two transactions.    *)

Final(end) == IF end = "success" THEN "SUCCESS" ELSE "FAILED"

\* (mutant) The history row is forgotten.
RecordForgotten(w) ==
    /\ pc[w] = "record"
    /\ Goto(w, "log")
    /\ UNCHANGED <<queue, task, tries, out, key, cancel, flock, ready, recordVars,
                   clientVars, gaveUp, faults>>

\* A transaction that fails raises, and the run is reported as failed.
Record(w) ==
    /\ pc[w] = "record"
    /\ \/ /\ rows' = [rows EXCEPT ![task[w]] = @ \cup {Final(out[w])}]
          /\ UNCHANGED <<out, faults>>
       \/ /\ AddFault
          /\ out' = [out EXCEPT ![w] = "failed"]
          /\ UNCHANGED rows
    /\ Goto(w, "log")
    /\ UNCHANGED <<queue, task, tries, key, cancel, flock, ready, log, unlogged,
                   clientVars, gaveUp>>

\* (mutant) The status is written as the transfer reported it.
LogOutcomeRaw(w) ==
    /\ pc[w] = "log"
    /\ log' = [log EXCEPT ![task[w]] = out[w]]
    /\ Goto(w, "dropKey")
    /\ UNCHANGED <<queue, task, tries, out, key, cancel, flock, ready, rows,
                   unlogged, clientVars, gaveUp, faults>>

\* (mutant) The outcome is not written to the TaskLog.
LogOutcomeForgotten(w) ==
    /\ pc[w] = "log"
    /\ Goto(w, "dropKey")
    /\ UNCHANGED <<queue, task, tries, out, key, cancel, flock, ready, recordVars,
                   clientVars, gaveUp, faults>>

LogOutcome(w) ==
    /\ pc[w] = "log"
    /\ LogStatus(task[w], Final(out[w]))
    /\ Goto(w, "dropKey")
    /\ UNCHANGED <<queue, task, tries, out, key, cancel, flock, ready, rows,
                   clientVars, gaveUp>>

\* log_to_task without a status: a final status is left as it is.
LogRunning(t) ==
    log' = [log EXCEPT ![t] =
              IF @ \in {"none", "SUCCESS", "FAILED"} THEN @ ELSE "RUNNING"]

\* (mutant) A retry that does not count.
RetryUncounted(w) ==
    /\ pc[w] = "retry"
    /\ queue' = queue \cup {[task |-> task[w], tries |-> tries[w]]}
    /\ LogRunning(task[w])
    /\ ready' = ready \ {task[w]}
    /\ Leave(w)
    /\ UNCHANGED <<key, cancel, flock, rows, unlogged,
                   clientVars, gaveUp, faults>>

\* (mutant) A retry that releases the node as if the run had ended.
RetryReleases(w) ==
    /\ pc[w] = "retry"
    /\ queue' = queue \cup {[task |-> task[w], tries |-> tries[w] + 1]}
    /\ tries[w] < RetryLimit[out[w]]
    /\ LogRunning(task[w])
    /\ key' = NoTask
    /\ Leave(w)
    /\ UNCHANGED <<cancel, flock, ready, rows,
                   unlogged, clientVars, gaveUp, faults>>

\* self.retry: the same id goes back to the queue, its state is RETRY, and
\* `finally` leaves the node's keys alone.
Retry(w) ==
    /\ pc[w] = "retry"
    /\ tries[w] < RetryLimit[out[w]]
    /\ queue' = queue \cup {[task |-> task[w], tries |-> tries[w] + 1]}
    /\ LogRunning(task[w])
    /\ ready' = ready \ {task[w]}
    /\ Leave(w)
    /\ UNCHANGED <<key, cancel, flock, rows, unlogged,
                   clientVars, gaveUp, faults>>

\* self.retry(exc=e) past its limit raises e itself, not the
\* MaxRetriesExceededError the handler waits for: no row, no final status, and
\* `retrying` is still set, so the keys stay.
Exhausted(w) ==
    /\ pc[w] = "retry"
    /\ tries[w] >= RetryLimit[out[w]]
    /\ gaveUp' = gaveUp \cup {task[w]}
    /\ LogRunning(task[w])
    /\ Goto(w, "finish")
    /\ UNCHANGED <<queue, task, tries, out, key, cancel, flock, ready, rows,
                   unlogged, clientVars, faults>>

----------------------------------------------------------------------------
(* `finally`: two unconditional deletions, then Celery stores the result.  *)

DropKey(w) ==
    /\ pc[w] = "dropKey"
    /\ key' = NoTask \/ (RedisMayFail /\ key' = key)
    /\ Goto(w, "dropCancel")
    /\ UNCHANGED <<queue, task, tries, out, cancel, flock, ready, recordVars,
                   clientVars, gaveUp, faults>>

DropCancel(w) ==
    /\ pc[w] = "dropCancel"
    /\ cancel' = NoTask \/ (RedisMayFail /\ cancel' = cancel)
    /\ Goto(w, "finish")
    /\ UNCHANGED <<queue, task, tries, out, key, flock, ready, recordVars,
                   clientVars, gaveUp, faults>>

StoreResult(w) ==
    /\ pc[w] = "finish"
    /\ ready' = ready \cup {task[w]}
    /\ Leave(w)
    /\ UNCHANGED <<queue, key, cancel, flock, recordVars,
                   clientVars, gaveUp, faults>>

----------------------------------------------------------------------------
(* Faults.  task_acks_late: a message is the broker's until its run ends.  *)

Return(w) == queue' = queue \cup {[task |-> task[w], tries |-> tries[w]]}

\* task_reject_on_worker_lost: the message goes back, no `finally` runs.
WorkerLost(w) ==
    /\ pc[w] # "idle"
    /\ AddFault
    /\ Return(w)
    /\ flock' = IF pc[w] = "transfer" THEN "orphan" ELSE flock
    /\ Leave(w)
    /\ UNCHANGED <<key, cancel, ready, recordVars, clientVars,
                   gaveUp>>

\* A run longer than the broker's visibility timeout is delivered again.
Redeliver(w) ==
    /\ pc[w] # "idle"
    /\ AddFault
    /\ Return(w)
    /\ UNCHANGED <<workerVars, key, cancel, flock, ready, recordVars, clientVars,
                   gaveUp>>

KeyExpires ==
    /\ AddFault
    /\ key # NoTask
    /\ key' = NoTask
    /\ UNCHANGED <<queue, workerVars, cancel, flock, ready, recordVars,
                   clientVars, gaveUp>>

CancelExpires ==
    /\ AddFault
    /\ cancel # NoTask
    /\ cancel' = NoTask
    /\ UNCHANGED <<queue, workerVars, key, flock, ready, recordVars,
                   clientVars, gaveUp>>

\* A result past result_expires reads PENDING, as if it had never been.  The
\* hour outlasts every request and tick under way.
ResultExpires(t) ==
    /\ ResultsExpire
    /\ \A c \in Clients : at[c] = "idle"
    /\ t \in ready
    /\ ready' = ready \ {t}
    /\ UNCHANGED <<queue, workerVars, key, cancel, flock, recordVars,
                   clientVars, gaveUp, faults>>

----------------------------------------------------------------------------
(* Clients: the scheduler's tick, the Backup and Stop buttons, the list.   *)

clientRest == <<queue, workerVars, flock, recordVars, ready, gaveUp, faults>>

ReadKey(c) == raw' = [raw EXCEPT ![c] = key]

\* The value read is of no more use.
Forget(c, done) == raw' = IF done THEN [raw EXCEPT ![c] = NoTask] ELSE raw

\* running_keys_for: one MGET at the start of the tick; unreadable is absent.
TickRead(c) ==
    /\ c \in Ticks
    /\ at[c] = "idle"
    /\ ReadKey(c) \/ (RedisMayFail /\ raw' = [raw EXCEPT ![c] = NoTask])
    /\ Move(c, "count")
    /\ UNCHANGED <<clientRest, key, cancel, drawn, stopped>>

PressBackup(c) ==
    /\ c \in Operators
    /\ at[c] = "idle"
    /\ ReadKey(c)
    /\ Move(c, "judge")
    /\ UNCHANGED <<clientRest, key, cancel, drawn, stopped>>

\* _backup_run_state, behind the fleet list and the node's page.
ViewNode(c) ==
    /\ c \in Viewers
    /\ at[c] = "idle"
    /\ ReadKey(c)
    /\ Move(c, "look")
    /\ UNCHANGED <<clientRest, key, cancel, drawn, stopped>>

Judging == {"count", "admit", "judge", "look"}

\* What follows an answer.  A tick asks twice, for the group's running count
\* and again for the queue.
AfterJudgement(stage, live) ==
    CASE stage = "count" -> "admit"
      [] stage = "admit" -> IF live THEN "idle" ELSE "dispatch"
      [] stage = "judge" -> IF live THEN "idle" ELSE "clear"
      [] stage = "look" -> "idle"

\* (mutant) The key alone decides.
JudgeByKeyOnly(c) ==
    /\ at[c] \in Judging
    /\ Move(c, AfterJudgement(at[c], raw[c] # NoTask))
    /\ Forget(c, at[c] # "count")
    /\ UNCHANGED <<clientRest, key, cancel, drawn, stopped>>

\* is_backup_lock_live on the value read before: no value is no run, a ready
\* result makes the key stale, and then whatever key is there is deleted.  A
\* result that cannot be read counts as a live run.
Judge(c) ==
    /\ at[c] \in Judging
    /\ \E stale \in {raw[c] \in ready} \cup (IF RedisMayFail THEN {FALSE} ELSE {}) :
          /\ Move(c, AfterJudgement(at[c], raw[c] # NoTask /\ ~stale))
          /\ key' = IF stale THEN NoTask ELSE key
    /\ Forget(c, at[c] # "count")
    /\ UNCHANGED <<clientRest, cancel, drawn, stopped>>

\* The press spends an old stop request.
PressClear(c) ==
    /\ at[c] = "clear"
    /\ cancel' = NoTask
    /\ Move(c, "press")
    /\ UNCHANGED <<clientRest, key, raw, drawn, stopped>>

Dispatch(t) ==
    /\ t \in Tasks \ drawn
    /\ drawn' = drawn \cup {t}
    /\ queue' = queue \cup {[task |-> t, tries |-> 0]}

PressDispatch(c, t) ==
    /\ at[c] = "press"
    /\ Dispatch(t)
    /\ Move(c, "idle")
    /\ UNCHANGED <<workerVars, key, cancel, flock, ready, recordVars, raw,
                   stopped, gaveUp, faults>>

TickDispatch(c, t) ==
    /\ at[c] = "dispatch"
    /\ Dispatch(t)
    /\ raw' = [raw EXCEPT ![c] = t]
    /\ Move(c, "setKey")
    /\ UNCHANGED <<workerVars, key, cancel, flock, ready, recordVars, stopped,
                   gaveUp, faults>>

\* Not scheduled today, in its cooldown, or no slot free; the press when the
\* ids of the model are spent.
Decline(c) ==
    /\ at[c] = "dispatch" \/ (at[c] = "press" /\ Tasks = drawn)
    /\ Move(c, "idle")
    /\ UNCHANGED <<clientRest, key, cancel, raw, drawn, stopped>>

\* The key is written after delay() has returned.
TickSetKey(c) ==
    /\ at[c] = "setKey"
    /\ key' = raw[c]
    /\ Forget(c, TRUE)
    /\ Move(c, "idle")
    /\ UNCHANGED <<clientRest, cancel, drawn, stopped>>

PressStop(c) ==
    /\ c \in Operators
    /\ at[c] = "idle"
    /\ key # NoTask
    /\ ReadKey(c)
    /\ Move(c, "ask")
    /\ UNCHANGED <<clientRest, key, cancel, drawn, stopped>>

RequestCancel(c) ==
    /\ at[c] = "ask"
    /\ cancel' = raw[c]
    /\ stopped' = stopped \cup {raw[c]}
    /\ Forget(c, TRUE)
    /\ Move(c, "unset")
    /\ UNCHANGED <<clientRest, key, drawn>>

StopUnsetsKey(c) ==
    /\ at[c] = "unset"
    /\ key' = NoTask \/ (RedisMayFail /\ key' = key)
    /\ Move(c, "idle")
    /\ UNCHANGED <<clientRest, cancel, raw, drawn, stopped>>

----------------------------------------------------------------------------
WorkerStep(w) ==
    \/ GiveUpStopped(w) \/ NotStopped(w) \/ Refuse(w) \/ Open(w)
    \/ Launch(w) \/ TransferEnds(w) \/ PollCancel(w) \/ SoftLimit(w)
    \/ Record(w) \/ LogOutcome(w) \/ Retry(w) \/ Exhausted(w)
    \/ DropKey(w) \/ DropCancel(w) \/ StoreResult(w)

NodeStep == OrphanEnds \/ ForeignStarts \/ ForeignEnds

FaultStep ==
    \/ \E w \in Workers : WorkerLost(w) \/ Redeliver(w)
    \/ KeyExpires
    \/ CancelExpires
    \/ \E t \in Tasks : ResultExpires(t)

ClientStep(c) ==
    \/ TickRead(c) \/ PressBackup(c) \/ ViewNode(c) \/ Judge(c)
    \/ PressClear(c) \/ Decline(c) \/ TickSetKey(c)
    \/ \E t \in Tasks : PressDispatch(c, t) \/ TickDispatch(c, t)
    \/ PressStop(c) \/ RequestCancel(c) \/ StopUnsetsKey(c)

Next ==
    \/ \E w \in Workers, m \in queue : Begin(w, m)
    \/ \E w \in Workers : WorkerStep(w)
    \/ NodeStep
    \/ FaultStep
    \/ \E c \in Clients : ClientStep(c)

Spec == Init /\ [][Next]_vars

\* Fairness.  Workers take messages and run them, a transfer ends (the soft
\* limit bounds it), a script on the node ends, the beat ticks every minute and
\* a request once begun is served.  Presses, looks, faults, expiries and the
\* other orchestrator's starts are never owed.
FairSpec ==
    /\ Spec
    /\ \A w \in Workers : WF_vars(WorkerStep(w))
    /\ WF_vars(\E w \in Workers, m \in queue : Begin(w, m))
    /\ WF_vars(OrphanEnds)
    /\ WF_vars(ForeignEnds)
    /\ \A c \in Ticks : WF_vars(ClientStep(c))
    /\ \A c \in Clients : WF_vars(at[c] # "idle" /\ ClientStep(c))

----------------------------------------------------------------------------
(* Properties.                                                             *)

TypeOK ==
    /\ queue \subseteq Messages
    /\ pc \in [Workers -> WorkerPc]
    /\ task \in [Workers -> Tasks \cup {NoTask}]
    /\ tries \in [Workers -> Nat]
    /\ out \in [Workers -> Outcomes]
    /\ key \in Tasks \cup {NoTask}
    /\ cancel \in Tasks \cup {NoTask}
    /\ flock \in {"free", "run", "foreign", "orphan"}
    /\ ready \subseteq Tasks
    /\ rows \in [Tasks -> SUBSET {"SUCCESS", "FAILED"}]
    /\ log \in [Tasks -> {"none", "RUNNING", "SUCCESS", "FAILED"}]
    /\ at \in [Clients -> ClientPc]
    /\ raw \in [Clients -> Tasks \cup {NoTask}]
    /\ drawn \subseteq Tasks
    /\ stopped \subseteq Tasks
    /\ gaveUp \subseteq Tasks
    /\ unlogged \subseteq Tasks
    /\ faults \in Nat

\* However stops, presses, retries and redeliveries interleave, a run is only
\* given up or cut off as stopped when an operator named that very run.
CancelOnlyIfAsked ==
    [][ \A w \in Workers :
          GiveUpStopped(w) \/ PollCancel(w) => task[w] \in stopped ]_vars

\* Whatever is dispatched twice, redelivered, orphaned or started by another
\* orchestrator, two transfers never run on the node together, and a transfer
\* has the node's lock.
OneTransferOnNode ==
    \A v, w \in Workers :
        pc[v] = "transfer" =>
            /\ flock = "run"
            /\ pc[w] = "transfer" => v = w

\* A TaskLog that reports success has a SUCCESS row in the history, across lost
\* workers and second deliveries of the same run.
LoggedSuccessHasRow ==
    \A t \in Tasks : log[t] = "SUCCESS" => "SUCCESS" \in rows[t]

\* A run that has ended is not shown as running, unless it spent its retries or
\* the database refused its last report: lost workers, second deliveries, stops
\* and two workers with one run always leave a worker that reports it.
EndedIsLogged ==
    \A t \in drawn \ (gaveUp \cup unlogged) :
        ~Unfinished(t) => log[t] # "RUNNING"

\* A run has the node from its dispatch until `finally` drops the key.
Occupies(t) ==
    \/ Queued(t)
    \/ \E w \in Workers : HeldBy(w, t) /\ pc[w] \notin {"dropCancel", "finish"}

Occupant == IF \E t \in Tasks : Occupies(t)
            THEN CHOOSE t \in Tasks : Occupies(t)
            ELSE NoTask

\* One scheduler, undisturbed by presses, lost workers and expiries, gives the
\* node to one run at a time: through every retry and every late key.
Slot == INSTANCE RunSlot WITH Runs <- Tasks, NoRun <- NoTask,
                              current <- Occupant, begun <- drawn

RunsOneAtATime == Slot!Spec

\* Every run that is dispatched comes to an end.
EveryRunSettles == \A t \in Tasks : t \in drawn ~> ~Unfinished(t)

\* A key whose run is over does not keep the node: some tick clears it.
StaleKeyCleared ==
    \A t \in Tasks : (key = t /\ ~Unfinished(t)) ~> (key # t)
=============================================================================
