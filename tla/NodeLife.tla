------------------------------ MODULE NodeLife ------------------------------
(***************************************************************************)
(* The status of a node: enrolment and its retries (tasks/bootstrap.py),   *)
(* disk preparation (backup_tasks.py), and what a restore and the licence  *)
(* of the restored machine do to it (tasks/scheduler.py, routers/restore.py*)
(* and routers/nodes_actions.py).                                          *)
(*                                                                         *)
(* Nearly every one of these works on a copy of the row read before minutes*)
(* of ansible or ssh, and writes its verdict when it is back, whatever the *)
(* row says by then.                                                       *)
(***************************************************************************)
EXTENDS Naturals, FiniteSets

CONSTANTS
    Nodes,       \* ids, in the order the database sorts them by
    Jobs,        \* places for tasks queued or at work
    BatchSize,   \* AUTO_RETRY_BATCH_SIZE
    MaxRequests, \* bound on what operators and technicians do
    MaxFaults,   \* bound on outages, losses and expiries
    Scenes       \* bounds of a behaviour, one of which it keeps to: the places
                 \* for tasks, and how many requests and faults in all

ASSUME NodeLifeAssumption ==
    /\ Nodes \subseteq Nat /\ IsFiniteSet(Nodes)
    /\ BatchSize \in Nat \ {0}
    /\ {MaxRequests, MaxFaults} \subseteq Nat
    /\ \A s \in Scenes : s.jobs \subseteq Jobs /\ s.events \in Nat

VARIABLES
    status,     \* nodes.status; "absent" before, "deleted" after it has a row
    creds,      \* nodes with a bootstrap_creds: key in Redis
    up,         \* nodes that answer
    fit,        \* nodes whose partitions carry the labels a restore needs
    licensed,   \* nodes whose Sentinel key is active
    saved,      \* nodes.hasp_license_v2c is set
    job,        \* what is queued or at work
    retrying,   \* OFFLINE nodes auto_retry_bootstrap_task has read
    handing,    \* the one it has marked and is about to hand to a bootstrap
    probed,     \* nodes the tick found licensed and is about to promote
    parked,     \* history: nodes whose last bootstrap came to nothing: refused
                \* by a backup, a playbook that failed, a task that was lost
    requests, faults,
    scene       \* the bounds this behaviour keeps to

retryVars == <<retrying, handing>>
machineVars == <<up, fit, licensed>>
bounds == <<requests, faults, scene>>
nodeState == <<status, creds, machineVars, saved, job, retryVars, probed, parked>>
nodeVars == <<nodeState, bounds>>

\* An id is not used again: what comes late for a deleted node finds no row.
Exists(n) == status[n] \notin {"absent", "deleted"}

\* A task: bootstrap and prepare play a playbook, "apply" and "upload" bring a
\* licence to the node.  `blind`: the node was down at some time meanwhile.
Free == [kind |-> "none"]
Task(kind, n, stage) ==
    [kind |-> kind, node |-> n, stage |-> stage, blind |-> n \notin up]

On(n) == {j \in Jobs : job[j] # Free /\ job[j].node = n}
Kind(n, kind) == {j \in On(n) : job[j].kind = kind}
Set(n, s) == [status EXCEPT ![n] = s]

\* A verdict written by id: nothing when the row is gone.
Verdict(n, s) == IF Exists(n) THEN Set(n, s) ELSE status

NodeInit ==
    /\ status \in [Nodes -> {"absent", "READY"}]
    /\ creds = {}
    /\ up = Nodes
    /\ fit \in SUBSET Nodes
    /\ \A n \in Nodes : status[n] = "READY" => n \in fit
    /\ licensed = Nodes
    /\ saved \in SUBSET {n \in Nodes : status[n] = "READY"}
    /\ job = [j \in Jobs |-> Free]
    /\ retrying = {} /\ handing = {} /\ probed = {} /\ parked = {}
    /\ requests = 0 /\ faults = 0
    /\ scene \in Scenes

Request ==
    /\ requests < MaxRequests /\ requests + faults < scene.events
    /\ requests' = requests + 1 /\ UNCHANGED <<faults, scene>>
Fault ==
    /\ faults < MaxFaults /\ requests + faults < scene.events
    /\ faults' = faults + 1 /\ UNCHANGED <<requests, scene>>

----------------------------------------------------------------------------
(* Enrolment.                                                              *)

\* The status first, then the credentials, then the task; a request that dies
\* leaves what it has done.
Enlist(n, j) ==
    /\ Request
    /\ job[j] = Free
    /\ status' = Set(n, "NEEDS_BOOTSTRAP")
    /\ \/ /\ creds' = creds \cup {n}
          /\ job' = [job EXCEPT ![j] = Task("bootstrap", n, "queued")]
          /\ parked' = parked \ {n}
       \/ /\ creds' \in {creds, creds \cup {n}}
          /\ parked' = parked \cup {n}
          /\ UNCHANGED job
    /\ UNCHANGED <<machineVars, saved, retryVars, probed>>

AddNode(n, j) == status[n] = "absent" /\ Enlist(n, j)
TriggerProvision(n, j) == Exists(n) /\ Enlist(n, j)

\* delete_node.  Tasks under way go on without a row.
DeleteNode(n) ==
    /\ Request
    /\ Exists(n)
    /\ status' = Set(n, "deleted")
    /\ creds' = creds \ {n}
    /\ saved' = saved \ {n}
    /\ parked' = parked \ {n}
    /\ UNCHANGED <<machineVars, job, retryVars, probed>>

\* _run_bootstrap up to its playbook: the row must be there and, at this
\* moment, no backup may run.  A blocked node stays as it was.
BootstrapStarts(j) ==
    /\ job[j].kind = "bootstrap" /\ job[j].stage = "queued"
    /\ LET n == job[j].node
       IN  \/ /\ Exists(n)
              /\ job' = [job EXCEPT ![j] = Task("bootstrap", n, "playing")]
              /\ UNCHANGED <<parked, bounds>>
           \/ /\ ~Exists(n)
              /\ job' = [job EXCEPT ![j] = Free]
              /\ UNCHANGED <<parked, bounds>>
           \/ /\ Exists(n) /\ Fault
              /\ job' = [job EXCEPT ![j] = Free]
              /\ parked' = parked \cup {n}
    /\ UNCHANGED <<status, creds, machineVars, saved, retryVars, probed>>

\* run_ansible_playbook comes to a good end on a node that answers; after a bad
\* one the log tells whether the node could not be reached.
PlaysToTheEnd(j) == job[j].node \in up
Unreachable(j) == job[j].blind

\* What the playbook collected: partitions with the labels a restore needs.
Prepared(n) == n \in fit

\* _record_bootstrap_success: the status tells whether the disk is prepared,
\* and the credentials are dropped, if Redis answers.  Without a row the task
\* just ends.
BootstrapSucceeds(j) ==
    /\ job[j].kind = "bootstrap" /\ job[j].stage = "playing"
    /\ PlaysToTheEnd(j)
    /\ LET n == job[j].node
       IN  /\ status' = Verdict(n, IF Prepared(n) THEN "READY" ELSE "NEEDS_FIX")
           /\ \/ creds' = creds \ {m \in {n} : Exists(m)} /\ UNCHANGED bounds
              \/ Exists(n) /\ Fault /\ UNCHANGED creds
    /\ job' = [job EXCEPT ![j] = Free]
    /\ UNCHANGED <<machineVars, saved, retryVars, probed, parked>>

\* _record_bootstrap_failure: OFFLINE when the node could not be reached,
\* whatever has become of it since; else back to the operator.
BootstrapFails(j) ==
    /\ job[j].kind = "bootstrap" /\ job[j].stage = "playing"
    /\ LET n == job[j].node
       IN  \/ /\ Unreachable(j)
              /\ status' = Verdict(n, "OFFLINE")
              /\ UNCHANGED <<parked, bounds>>
           \/ /\ Fault
              /\ status' = Verdict(n, "NEEDS_BOOTSTRAP")
              /\ parked' = parked \cup {m \in {n} : Exists(m)}
    /\ job' = [job EXCEPT ![j] = Free]
    /\ UNCHANGED <<creds, machineVars, saved, retryVars, probed>>

Offline == {n \in Nodes : status[n] = "OFFLINE"}

\* The first BatchSize of a set of ids.
Batch(S) == {n \in S : Cardinality({m \in S : m < n}) < BatchSize}

\* auto_retry_bootstrap_task reads a batch of OFFLINE nodes...
RetryReads ==
    /\ retrying = {} /\ handing = {} /\ Offline # {}
    /\ retrying' = Batch(Offline)
    /\ UNCHANGED <<status, creds, machineVars, saved, job, handing, probed, parked,
                   bounds>>

\* ... and takes them in turn: one with credentials is marked...  One deleted
\* meanwhile ends the whole pass.
RetryMarks(n) ==
    /\ n \in retrying /\ handing = {}
    /\ \/ /\ n \in creds /\ Exists(n)
          /\ status' = Set(n, "NEEDS_BOOTSTRAP")
          /\ retrying' = retrying \ {n}
          /\ handing' = {n}
       \/ /\ n \notin creds \/ ~Exists(n)
          /\ retrying' = IF Exists(n) THEN retrying \ {n} ELSE {}
          /\ UNCHANGED <<status, handing>>
    /\ UNCHANGED <<creds, machineVars, saved, job, probed, parked, bounds>>

\* (mutant) A node is marked, and nobody handed to a bootstrap.
RetryHandsNobody(n) ==
    /\ n \in handing
    /\ handing' = {}
    /\ UNCHANGED <<status, creds, machineVars, saved, job, retrying, probed, parked,
                   bounds>>

\* ... and, the mark committed, handed to a bootstrap.
RetryHands(n) ==
    /\ n \in handing
    /\ \/ /\ Exists(n)
          /\ \E j \in scene.jobs :
                /\ job[j] = Free
                /\ job' = [job EXCEPT ![j] = Task("bootstrap", n, "queued")]
          /\ parked' = parked \ {n}
          /\ UNCHANGED retrying
       \/ /\ ~Exists(n)
          /\ retrying' = {}
          /\ UNCHANGED <<job, parked>>
    /\ handing' = {}
    /\ UNCHANGED <<status, creds, machineVars, saved, probed, bounds>>

\* The pass is lost with its worker, or its message is refused by the broker.
RetryLost ==
    /\ Fault
    /\ retrying \cup handing # {}
    /\ retrying' = {} /\ handing' = {}
    /\ parked' = parked \cup {n \in handing : Exists(n)}
    /\ UNCHANGED <<status, creds, machineVars, saved, job, probed>>

\* A worker is lost, or the API with a licence it was bringing.  A playbook's
\* message comes again and stumbles over the TaskLog row of its first delivery.
TaskLost(j) ==
    /\ Fault
    /\ job[j] # Free /\ job[j].stage # "queued"
    /\ job' = [job EXCEPT ![j] = Free]
    /\ parked' = parked \cup {n \in Nodes : Exists(n) /\ j \in Kind(n, "bootstrap")}
    /\ UNCHANGED <<status, creds, machineVars, saved, retryVars, probed>>

----------------------------------------------------------------------------
(* Preparation of the disk.                                                *)

\* trigger_prepare.
RequestPrepare(n, j) ==
    /\ Request
    /\ Exists(n)
    /\ job[j] = Free
    /\ status' = Set(n, "NEEDS_FIX")
    /\ job' = [job EXCEPT ![j] = Task("prepare", n, "playing")]
    /\ UNCHANGED <<creds, machineVars, saved, retryVars, probed, parked>>

\* _run_prepare, when its playbook is over.
PrepareEnds(j) ==
    /\ job[j].kind = "prepare"
    /\ LET n == job[j].node
       IN  \/ /\ PlaysToTheEnd(j)
              /\ fit' = fit \cup {n}
              /\ status' = Verdict(n, "READY")
              /\ UNCHANGED bounds
           \/ /\ status' = Verdict(n, "NEEDS_FIX")
              /\ UNCHANGED fit
              /\ IF Unreachable(j) THEN UNCHANGED bounds ELSE Fault
    /\ job' = [job EXCEPT ![j] = Free]
    /\ UNCHANGED <<creds, up, licensed, saved, retryVars, probed, parked>>

----------------------------------------------------------------------------
(* Restore and licence.                                                    *)

\* flash_restore_device ends well: the node's disk is a copy now, in a machine
\* whose licence may not fit it.
Flash(n) ==
    /\ Request
    /\ Exists(n) /\ n \in fit
    /\ status' = Set(n, "RESTORED")
    /\ licensed' \in {licensed, licensed \ {n}}
    /\ UNCHANGED <<creds, up, fit, saved, job, retryVars, probed, parked>>

\* checkin_restored_node, at the machine's first boot: a saved licence is
\* brought to it in the background.
CheckIn(n, j) ==
    /\ Request
    /\ n \in up /\ Exists(n)
    /\ status' = Set(n, "RESTORED")
    /\ IF n \in saved
       THEN /\ job[j] = Free
            /\ job' = [job EXCEPT ![j] = Task("apply", n, "sending")]
       ELSE UNCHANGED job
    /\ UNCHANGED <<creds, machineVars, saved, retryVars, probed, parked>>

\* upload_hasp_license saves the file before it is sent.
Upload(n, j) ==
    /\ Request
    /\ Exists(n)
    /\ job[j] = Free
    /\ saved' = saved \cup {n}
    /\ job' = [job EXCEPT ![j] = Task("upload", n, "sending")]
    /\ UNCHANGED <<status, creds, machineVars, retryVars, probed, parked>>

\* The machine takes the licence, or not.
TakesLicence(j) ==
    /\ job[j].node \in up
    /\ licensed' = licensed \cup {job[j].node}
    /\ status' = Verdict(job[j].node, "READY")
    /\ UNCHANGED bounds
RefusesLicence(j) ==
    /\ UNCHANGED <<licensed, status>>
    /\ IF job[j].blind THEN UNCHANGED bounds ELSE Fault

\* If it did, the node is READY, be it prepared, in the middle of a bootstrap,
\* or neither: apply_saved_license_task asks the licence manager,
\* upload_hasp_license trusts the answer.
LicenceSent(kind, j) ==
    /\ job[j].kind = kind
    /\ TakesLicence(j) \/ RefusesLicence(j)
    /\ job' = [job EXCEPT ![j] = Free]
    /\ UNCHANGED <<creds, up, fit, saved, retryVars, probed, parked>>
ApplySaved(j) == LicenceSent("apply", j)
UploadSent(j) == LicenceSent("upload", j)

\* check_hasp_status_on_node, as "active" and as one of the answers that demote.
Active(n) == n \in up /\ n \in licensed
Lapsed(n) == n \in up /\ n \notin licensed

\* The tick asks every RESTORED node whose licence nobody is busy with...
Probe(n) ==
    /\ status[n] = "RESTORED" /\ n \notin probed
    /\ Kind(n, "upload") = {}
    /\ Active(n)
    /\ probed' = probed \cup {n}
    /\ UNCHANGED <<status, creds, machineVars, saved, job, retryVars, parked, bounds>>

\* ... and _promote_to_ready writes READY if the row is still RESTORED.
Promote(n) ==
    /\ n \in probed
    /\ status' = IF status[n] = "RESTORED" THEN Set(n, "READY") ELSE status
    /\ probed' = probed \ {n}
    /\ UNCHANGED <<creds, machineVars, saved, job, retryVars, parked, bounds>>

\* A backup is refused for the lapsed licence of its node (see BackupTask).
Demote(n) ==
    /\ Fault
    /\ status[n] = "READY" /\ Lapsed(n)
    /\ status' = Set(n, "RESTORED")
    /\ UNCHANGED <<creds, machineVars, saved, job, retryVars, probed, parked>>

----------------------------------------------------------------------------
(* The world.                                                              *)

GoDown(n) ==
    /\ Fault
    /\ n \in up
    /\ up' = up \ {n}
    /\ job' = [j \in Jobs |-> IF j \in On(n) THEN [job[j] EXCEPT !.blind = TRUE]
                                             ELSE job[j]]
    /\ UNCHANGED <<status, creds, fit, licensed, saved, retryVars, probed, parked>>

ComeUp(n) ==
    /\ n \notin up
    /\ up' = up \cup {n}
    /\ UNCHANGED <<status, creds, fit, licensed, saved, job, retryVars, probed,
                   parked, bounds>>

\* The licence runs out, or the machine was set up anew.
Lapse(n) ==
    /\ Fault
    /\ \/ n \in licensed /\ licensed' = licensed \ {n} /\ UNCHANGED fit
       \/ n \in fit /\ fit' = fit \ {n} /\ UNCHANGED licensed
    /\ UNCHANGED <<status, creds, up, saved, job, retryVars, probed, parked>>

\* 24 hours after the credentials were typed in.
CredsExpire(n) ==
    /\ n \in creds
    /\ creds' = creds \ {n}
    /\ UNCHANGED <<status, machineVars, saved, job, retryVars, probed, parked, bounds>>

JobStep(j) ==
    \/ BootstrapStarts(j) \/ BootstrapSucceeds(j) \/ BootstrapFails(j)
    \/ PrepareEnds(j) \/ ApplySaved(j) \/ UploadSent(j)

RetryStep == RetryReads \/ \E n \in Nodes : RetryMarks(n) \/ RetryHands(n)

NodeNext ==
    \/ \E j \in Jobs : JobStep(j)
    \/ \E n \in Nodes, j \in scene.jobs :
          \/ AddNode(n, j) \/ TriggerProvision(n, j)
          \/ RequestPrepare(n, j) \/ CheckIn(n, j) \/ Upload(n, j)
    \/ RetryStep \/ RetryLost
    \/ \E j \in Jobs : TaskLost(j)
    \/ \E n \in Nodes :
          \/ Flash(n) \/ Probe(n) \/ Promote(n) \/ Demote(n)
          \/ GoDown(n) \/ ComeUp(n) \/ Lapse(n) \/ CredsExpire(n)

\* Workers take what is queued and finish it; the beat calls every task again.
NodeFairness ==
    /\ \A j \in Jobs : WF_nodeVars(JobStep(j))
    /\ WF_nodeVars(RetryStep)
    /\ \A n \in Nodes : WF_nodeVars(Probe(n)) /\ WF_nodeVars(Promote(n))

----------------------------------------------------------------------------
(* Properties.                                                             *)

\* Bootstrapped, or no longer a matter of bootstrapping, or given up.
Settled(n) ==
    \/ n \notin creds
    \/ status[n] \notin {"OFFLINE", "NEEDS_BOOTSTRAP"}
    \/ n \in parked

\* Nobody is forgotten.  An OFFLINE node whose credentials are known and which
\* answers at last is bootstrapped, whatever older tasks write meanwhile, unless
\* its bootstrap is refused, fails or is lost, which the code leaves to the
\* operator; and a restored machine that has its licence and answers is put back
\* to work.  (With no more OFFLINE nodes than BatchSize: see RetryReads.)
NobodyForgotten ==
    \A n \in Nodes :
        /\ <>[](n \in up) => (status[n] = "OFFLINE" /\ n \in creds ~> Settled(n))
        /\ []<>(status[n] # "RESTORED" \/ ~Active(n) \/ Kind(n, "upload") # {})
=============================================================================
