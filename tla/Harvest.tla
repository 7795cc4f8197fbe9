------------------------------ MODULE Harvest -------------------------------
(***************************************************************************)
(* Telemetry of one node: the collector that appends a sample a minute to  *)
(* a bounded buffer on the node (playbooks/files/edge-bro-collect.sh), the *)
(* harvests that drain the buffer over SSH (core/harvest.py), difference   *)
(* the samples into readings and cut those into rollup buckets and fitting *)
(* windows (core/telemetry.py), and the tasks that dispatch harvests and   *)
(* store and age what they bring (tasks/monitoring.py).                    *)
(*                                                                         *)
(* Samples are numbered in the order they are taken; Stamp is their clock  *)
(* and Boot the boot they belong to.  A file on the node is {} when it     *)
(* does not exist and {contents} when it does.  The drain is a shell on    *)
(* the node, which may go on when its link is cut.                         *)
(***************************************************************************)
EXTENDS Integers, FiniteSets

CONSTANTS
    Harvests,    \* executions of harvest_node_task there may be at once
    MaxSamples,  \* bound on the samples the collector takes
    Stamp,       \* clock of a sample
    Boot,        \* boot of a sample: the uptime restarts with each
    Excited,     \* samples whose window the thermal fit accepts
    MaxGap,      \* MAX_SAMPLE_GAP_S
    Window,      \* FIT_WINDOW_SECONDS
    MinSamples,  \* thermal.MIN_SAMPLES
    Bucket,      \* ROLLUP_SECONDS
    Cap,         \* MAX_BYTES, in samples
    MaxFaults    \* bound on lost links, workers, brokers, databases and nodes

Samples == 1 .. MaxSamples

ASSUME HarvestAssumption ==
    /\ MaxSamples \in Nat /\ MaxFaults \in Nat /\ Cap \in Nat \ {0}
    /\ Stamp \in [Samples -> Nat] /\ Boot \in [Samples -> Nat]
    /\ \A s \in 1 .. MaxSamples - 1 : Stamp[s] < Stamp[s + 1] /\ Boot[s] <= Boot[s + 1]
    /\ Excited \subseteq Samples
    /\ MaxGap \in Nat /\ Window \in Nat /\ MinSamples \in Nat \ {0} /\ Bucket \in Nat \ {0}

VARIABLES
    taken,      \* samples taken so far
    buffer,     \* telemetry.jsonl
    staged,     \* telemetry.jsonl.harvest
    trim,       \* telemetry.jsonl.trim
    collector,  \* the collector: "idle", "trimming", "opening", "writing"
    fd,         \* the file it has open: "none", "buffer", "staged", "gone"
    pc,         \* where each harvest is
    shell,      \* its drain on the node
    out,        \* what that shell has printed
    got,        \* result.buffer_text
    seen,       \* the rows the storing session has read
    rollups,    \* telemetry_rollups: the readings each bucket was made of
    fits,       \* thermal_fits
    last,       \* last_harvest_at: "never", "fresh", "due"
    enrolled,   \* the node has a row
    faults,
    counted,    \* history: samples some harvest has stored
    harmed,     \* history: samples a named accident may lose
    copied      \* history: samples a trim has left in two files

nodeVars == <<taken, buffer, staged, trim, collector, fd>>
taskVars == <<pc, shell, out, got, seen>>
storeVars == <<rollups, fits, last>>
history == <<counted, harmed, copied>>
vars == <<nodeVars, taskVars, storeVars, enrolled, faults, history>>

----------------------------------------------------------------------------
(* What a drained batch is turned into.                                    *)

\* _continuous: counters cannot be differenced over a gap or a reboot.
Continuous(p, s) == Stamp[s] - Stamp[p] <= MaxGap /\ Boot[p] = Boot[s]

\* to_readings: a sample makes a reading with the one before it in its batch.
Readings(batch) ==
    {s \in batch : \E p \in batch :
        /\ p < s /\ Continuous(p, s)
        /\ ~\E q \in batch : p < q /\ q < s}

\* A window is closed by a gap, or by the first reading past its length once it
\* has enough of them; what stays too short is dropped.
Closed(w) == IF Cardinality(w.now) >= MinSamples THEN w.done \cup {w.now} ELSE w.done

Extend(w, s) ==
    IF /\ w.now # {}
       /\ \/ \A r \in w.now : Stamp[s] - Stamp[r] > MaxGap
          \/ /\ \E r \in w.now : Stamp[s] - Stamp[r] >= Window
             /\ Cardinality(w.now) >= MinSamples
    THEN [done |-> Closed(w), now |-> {s}]
    ELSE [done |-> w.done, now |-> w.now \cup {s}]

\* split_runs and windows, reading by reading.
Windows(batch) ==
    LET cut[s \in 0 .. MaxSamples] ==
            IF s = 0 THEN [done |-> {}, now |-> {}]
            ELSE IF s \in Readings(batch) THEN Extend(cut[s - 1], s)
            ELSE cut[s - 1]
    IN  Closed(cut[MaxSamples])

\* (mutant) A window is known by its last reading.
StartAtEnd(w) == CHOOSE s \in w : \A t \in w : t <= s

\* window_start, by which a stored window is known.
Start(w) == CHOOSE s \in w : \A t \in w : s <= t

BucketOf(s) == Stamp[s] \div Bucket
Buckets == {BucketOf(s) : s \in Samples}

\* rollups: the readings of a batch by bucket.
Rollups(batch) == [b \in Buckets |-> {s \in Readings(batch) : BucketOf(s) = b}]

\* thermal.fit: accepted, or a rejection that is stored all the same.
Fit(w) == [window |-> w, ok |-> w \cap Excited # {}]

----------------------------------------------------------------------------
Init ==
    /\ taken = 0
    /\ buffer = {} /\ staged = {} /\ trim = {}
    /\ collector = "idle" /\ fd = "none"
    /\ pc = [h \in Harvests |-> "idle"]
    /\ shell = [h \in Harvests |-> "none"]
    /\ out = [h \in Harvests |-> {}]
    /\ got = [h \in Harvests |-> {}]
    /\ seen = [h \in Harvests |-> {}]
    /\ rollups = [b \in Buckets |-> {}]
    /\ fits = {}
    /\ last = "never"
    /\ enrolled = TRUE
    /\ faults = 0
    /\ counted = {} /\ harmed = {} /\ copied = {}

Fault == faults < MaxFaults /\ faults' = faults + 1

Read(file) == UNION file

----------------------------------------------------------------------------
(* The collector.                                                          *)

\* The newest half of a buffer past its cap: tail -n KEEP > BUFFER.trim.
NewestHalf(batch) ==
    {s \in batch : Cardinality({t \in batch : t >= s}) <= Cardinality(batch) \div 2}

CollectorStarts ==
    /\ collector = "idle" /\ taken < MaxSamples
    /\ taken' = taken + 1
    /\ IF Cardinality(Read(buffer)) > Cap
       THEN trim' = {NewestHalf(Read(buffer))} /\ collector' = "trimming"
       ELSE collector' = "opening" /\ UNCHANGED trim
    /\ UNCHANGED <<buffer, staged, fd, taskVars, storeVars, enrolled, faults, history>>

\* mv BUFFER.trim BUFFER.  A drain that came first keeps the old file, and the
\* kept half is then in both.
CollectorTrims ==
    /\ collector = "trimming"
    /\ buffer' = trim /\ trim' = {}
    /\ collector' = "opening"
    /\ harmed' = harmed \cup (Read(buffer) \ Read(trim))
    /\ copied' = IF buffer = {} THEN copied \cup Read(trim) ELSE copied
    /\ UNCHANGED <<taken, staged, fd, taskVars, storeVars, enrolled, faults, counted>>

\* >> BUFFER, which makes the file when a drain has taken it away.
CollectorOpens ==
    /\ collector = "opening"
    /\ buffer' = IF buffer = {} THEN {{}} ELSE buffer
    /\ fd' = "buffer"
    /\ collector' = "writing"
    /\ UNCHANGED <<taken, staged, trim, taskVars, storeVars, enrolled, faults, history>>

\* A drain that is between its mv and its cat still reads the sample; any later
\* one has read the file already.
StillRead ==
    \/ fd = "buffer"
    \/ /\ fd = "staged"
       /\ \E h \in Harvests :
            /\ pc[h] = "draining" /\ shell[h] = "cat"
            /\ \A k \in Harvests \ {h} : shell[k] \notin {"cat", "rm"}

CollectorWrites ==
    /\ collector = "writing"
    /\ buffer' = IF fd = "buffer" THEN {Read(buffer) \cup {taken}} ELSE buffer
    /\ staged' = IF fd = "staged" THEN {Read(staged) \cup {taken}} ELSE staged
    /\ fd' = "none"
    /\ collector' = "idle"
    /\ harmed' = IF StillRead THEN harmed ELSE harmed \cup {taken}
    /\ UNCHANGED <<taken, trim, taskVars, storeVars, enrolled, faults, counted, copied>>

----------------------------------------------------------------------------
(* Who asks for a harvest.                                                 *)

\* (mutant) A node that was never harvested waits for its first interval.
MonitoringDueOnceHarvested == last = "due"

\* monitoring_due, of a node whose monitoring is not switched off.
MonitoringDue == last # "fresh"

\* harvest_node_task.apply_async.
Dispatch(h) ==
    /\ pc[h] = "idle" /\ shell[h] = "none"
    /\ pc' = [pc EXCEPT ![h] = "queued"]
    /\ UNCHANGED <<nodeVars, shell, out, got, seen, storeVars, enrolled, history>>

\* monitoring_sweep_task: what is due, however many harvests are already asked
\* for.
Sweep(h) == enrolled /\ MonitoringDue /\ Dispatch(h) /\ UNCHANGED faults

\* retry=False: a sweep that cannot reach the broker dispatches nothing.
SweepFails ==
    /\ enrolled /\ MonitoringDue /\ Fault
    /\ UNCHANGED <<nodeVars, taskVars, storeVars, enrolled, history>>

\* trigger_harvest: outside the schedule.
TriggerHarvest(h) == enrolled /\ Dispatch(h) /\ UNCHANGED faults

\* The end of run_backup_task.
AfterBackup(h) == Dispatch(h) /\ UNCHANGED faults

\* The interval passes; delete_node, with the rows that cascade.
Elapses ==
    /\ last = "fresh" /\ last' = "due"
    /\ UNCHANGED <<nodeVars, taskVars, rollups, fits, enrolled, faults, history>>

DeleteNode ==
    /\ enrolled /\ enrolled' = FALSE /\ Fault
    /\ rollups' = [b \in Buckets |-> {}] /\ fits' = {} /\ last' = "never"
    /\ counted' = {} /\ harmed' = {} /\ copied' = {}
    /\ UNCHANGED <<nodeVars, taskVars>>

----------------------------------------------------------------------------
(* The shell of drain_command on the node.                                 *)

Attended(h) == pc[h] = "draining"

\* The shell ends.  When a harvest still listens, what was printed counts only
\* if every command went well; the harvest goes on to the drives either way.
Ends(h, text) ==
    /\ shell' = [shell EXCEPT ![h] = "none"]
    /\ out' = [out EXCEPT ![h] = {}]
    /\ IF Attended(h)
       THEN pc' = [pc EXCEPT ![h] = "drained"] /\ got' = [got EXCEPT ![h] = text]
       ELSE UNCHANGED <<pc, got>>

GoesOn(h, to) ==
    /\ shell' = [shell EXCEPT ![h] = to]
    /\ UNCHANGED <<pc, got>>

\* [ -f buffer ]
ShellTests(h) ==
    /\ shell[h] = "test"
    /\ IF buffer = {} THEN Ends(h, {}) ELSE GoesOn(h, "mv") /\ UNCHANGED out
    /\ UNCHANGED <<nodeVars, seen, storeVars, enrolled, faults, history>>

\* Another drain has moved its file and is not done with it.
AtStaged(h) == \E k \in Harvests \ {h} : shell[k] \in {"cat", "rm"}

\* mv -f buffer staged, over whatever an earlier drain has left there.
ShellMoves(h) ==
    /\ shell[h] = "mv"
    /\ IF buffer = {}
       THEN Ends(h, {}) /\ UNCHANGED <<buffer, staged, fd, harmed>>
       ELSE /\ GoesOn(h, "cat") /\ UNCHANGED out
            /\ staged' = buffer /\ buffer' = {}
            /\ fd' = CASE fd = "buffer" -> "staged" [] fd = "staged" -> "gone" [] OTHER -> fd
            /\ harmed' = harmed \cup
                (IF AtStaged(h) THEN Read(staged) \cup Read(buffer) ELSE {}) \cup
                (IF Attended(h) THEN {} ELSE Read(buffer))
    /\ UNCHANGED <<taken, trim, collector, seen, storeVars, enrolled, faults, counted, copied>>

ShellCats(h) ==
    /\ shell[h] = "cat"
    /\ IF staged = {}
       THEN Ends(h, {})
       ELSE GoesOn(h, "rm") /\ out' = [out EXCEPT ![h] = IF Attended(h) THEN Read(staged) ELSE {}]
    /\ UNCHANGED <<nodeVars, seen, storeVars, enrolled, faults, history>>

\* (mutant) The path of the live buffer in the rm.
ShellRemovesBuffer(h) ==
    /\ shell[h] = "rm"
    /\ buffer' = {}
    /\ fd' = IF fd = "buffer" THEN "gone" ELSE fd
    /\ Ends(h, out[h])
    /\ UNCHANGED <<taken, staged, trim, collector, seen, storeVars, enrolled, faults, history>>

\* rm -f staged, whoever's it is by now.
ShellRemoves(h) ==
    /\ shell[h] = "rm"
    /\ staged' = {}
    /\ fd' = IF fd = "staged" THEN "gone" ELSE fd
    /\ Ends(h, out[h])
    /\ UNCHANGED <<taken, buffer, trim, collector, seen, storeVars, enrolled, faults, history>>

\* A shell whose link is gone ends, at whatever point.
ShellDies(h) ==
    /\ shell[h] # "none" /\ ~Attended(h)
    /\ shell' = [shell EXCEPT ![h] = "none"]
    /\ out' = [out EXCEPT ![h] = {}]
    /\ UNCHANGED <<nodeVars, pc, got, seen, storeVars, enrolled, faults, history>>

----------------------------------------------------------------------------
(* harvest_node.                                                           *)

\* The first session and the capability probe.  A harvest delivered again waits
\* for its own old shell here: two drains at once are another harvest's part.
Begin(h) ==
    /\ pc[h] = "queued" /\ shell[h] = "none"
    /\ IF enrolled
       THEN /\ pc' = [pc EXCEPT ![h] = "draining"]
            /\ shell' = [shell EXCEPT ![h] = "test"]
       ELSE pc' = [pc EXCEPT ![h] = "idle"] /\ UNCHANGED shell
    /\ UNCHANGED <<nodeVars, out, got, seen, storeVars, enrolled, faults, history>>

\* The probe does not get through: unreachable, and nothing is recorded.
Unreachable(h) ==
    /\ pc[h] = "queued" /\ Fault
    /\ pc' = [pc EXCEPT ![h] = "idle"]
    /\ UNCHANGED <<nodeVars, shell, out, got, seen, storeVars, enrolled, history>>

\* The link is lost or DRAIN_TIMEOUT_S passes; the shell may go on.
Held(h) == out[h] \cup got[h] \cup (IF shell[h] \in {"cat", "rm"} THEN Read(staged) ELSE {})

DrainCut(h) ==
    /\ pc[h] = "draining" /\ Fault
    /\ pc' = [pc EXCEPT ![h] = "drained"]
    /\ harmed' = harmed \cup Held(h)
    /\ out' = [out EXCEPT ![h] = {}]
    /\ UNCHANGED <<nodeVars, shell, got, seen, storeVars, enrolled, counted, copied>>

\* The unique keys of the rows stored, and of those a batch asks for.
Rows ==
    {<<"bucket", b>> : b \in {c \in Buckets : rollups[c] # {}}} \cup
    {<<"window", Start(f.window)>> : f \in fits}

Keys(batch) ==
    {<<"bucket", BucketOf(s)>> : s \in Readings(batch)} \cup
    {<<"window", Start(w)>> : w \in Windows(batch)}

\* The storing session: the node again, and the rows that are already there.
ReadsRows(h) ==
    /\ pc[h] = "drained"
    /\ IF enrolled
       THEN /\ pc' = [pc EXCEPT ![h] = "storing"]
            /\ seen' = [seen EXCEPT ![h] = Rows \cap Keys(got[h])]
            /\ UNCHANGED got
       ELSE /\ pc' = [pc EXCEPT ![h] = "idle"]
            /\ got' = [got EXCEPT ![h] = {}]
            /\ UNCHANGED seen
    /\ UNCHANGED <<nodeVars, shell, out, storeVars, enrolled, faults, history>>

\* _store_fits: the windows whose start no row has yet.
NewFits(batch, rows) == {Fit(w) : w \in {v \in Windows(batch) : <<"window", Start(v)>> \notin rows}}

\* uq_telemetry_rollup, uq_thermal_fit_window: rows another harvest has
\* inserted since they were looked for.
Conflicts(h) == (Rows \cap Keys(got[h])) \ seen[h] # {}

\* _store_rollups writes the batch's buckets over the stored ones.
Stored(h) ==
    /\ rollups' = [b \in Buckets |->
        IF Rollups(got[h])[b] # {} THEN Rollups(got[h])[b] ELSE rollups[b]]
    /\ fits' = fits \cup NewFits(got[h], seen[h])
    /\ last' = "fresh"
    /\ counted' = counted \cup got[h]
    /\ UNCHANGED harmed

NotStored(h) ==
    /\ harmed' = harmed \cup got[h]
    /\ UNCHANGED <<storeVars, counted>>

Settled(h) ==
    /\ pc' = [pc EXCEPT ![h] = "idle"]
    /\ got' = [got EXCEPT ![h] = {}]
    /\ seen' = [seen EXCEPT ![h] = {}]
    /\ UNCHANGED <<nodeVars, shell, out, enrolled, copied>>

Commit(h) ==
    /\ pc[h] = "storing"
    /\ IF enrolled /\ ~Conflicts(h) THEN Stored(h) ELSE NotStored(h)
    /\ Settled(h)
    /\ UNCHANGED faults

CommitFails(h) ==
    /\ pc[h] = "storing" /\ Fault
    /\ NotStored(h) /\ Settled(h)

\* acks_late, task_reject_on_worker_lost: the message is delivered again, what
\* the worker had in memory is not.
WorkerLost(h) ==
    /\ pc[h] \in {"draining", "drained", "storing"} /\ Fault
    /\ pc' = [pc EXCEPT ![h] = "queued"]
    /\ harmed' = harmed \cup Held(h)
    /\ out' = [out EXCEPT ![h] = {}]
    /\ got' = [got EXCEPT ![h] = {}]
    /\ seen' = [seen EXCEPT ![h] = {}]
    /\ UNCHANGED <<nodeVars, shell, storeVars, enrolled, counted, copied>>

\* monitoring_retention_task, with everything before the newest bucket past the
\* cutoff: buckets and rejected windows go, the accepted windows stay.  Their own
\* retention, off by default, is left out.
Retention ==
    /\ taken > 0
    /\ rollups' = [b \in Buckets |-> IF b < BucketOf(taken) THEN {} ELSE rollups[b]]
    /\ fits' = {f \in fits : f.ok \/ Start(f.window) >= taken}
    /\ UNCHANGED <<nodeVars, taskVars, last, enrolled, faults, history>>

----------------------------------------------------------------------------
Shell(h) == ShellTests(h) \/ ShellMoves(h) \/ ShellCats(h) \/ ShellRemoves(h)
Task(h) == Begin(h) \/ ReadsRows(h) \/ Commit(h)
Collector == CollectorStarts \/ CollectorTrims \/ CollectorOpens \/ CollectorWrites

Next ==
    \/ Collector
    \/ \E h \in Harvests :
        \/ Sweep(h) \/ TriggerHarvest(h) \/ AfterBackup(h)
        \/ Shell(h) \/ ShellDies(h)
        \/ Task(h) \/ Unreachable(h) \/ DrainCut(h) \/ CommitFails(h) \/ WorkerLost(h)
    \/ SweepFails \/ Elapses \/ DeleteNode \/ Retention

Spec == Init /\ [][Next]_vars

\* Beat runs the sweep every hour and workers run what is queued; a shell on
\* the node runs on or ends.
FairSpec ==
    /\ Spec
    /\ WF_vars(\E h \in Harvests : Sweep(h))
    /\ \A h \in Harvests : WF_vars(Task(h) \/ Shell(h) \/ ShellDies(h))

----------------------------------------------------------------------------
(* Properties.                                                             *)

\* The lossless hand-over of drain_command, as far as it goes: a sample is in a
\* file of the node, in the hands of a harvest or stored by one, unless the cap
\* trimmed it, a link, a worker or a commit failed over it, two drains ran into
\* each other, or it was written into a file that had been read.
Around ==
    UNION ({Read(buffer), Read(staged)} \cup {out[h] : h \in Harvests}
           \cup {got[h] : h \in Harvests})

Written == IF collector = "idle" THEN 1 .. taken ELSE 1 .. taken - 1

NothingLostSilently == enrolled => Written \subseteq counted \cup harmed \cup Around

\* "Windows do not overlap" (telemetry.windows), over the stored fits of all
\* harvests: two drains that read the same file store its windows once.  Only
\* the half a trim has left in two files may be fitted twice.
FitsIndependent ==
    \A f \in fits, g \in fits : f.window # g.window => f.window \cap g.window \subseteq copied

\* "Recovers by itself" (monitoring_sweep_task): whatever was lost on the way, a
\* node that is due is harvested.
DueIsHarvested == (enrolled /\ last # "fresh") ~> (last = "fresh" \/ ~enrolled)
=============================================================================
