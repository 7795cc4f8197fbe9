------------------------------ MODULE Scheduler ------------------------------
(***************************************************************************)
(* The scheduler's tick over one backup group: check_and_trigger_backups   *)
(* (core/scheduler.py) with the window arithmetic of core/schedule_slots.  *)
(*                                                                         *)
(* Time is a day of the week and a slot of the day; a week has WeekLength  *)
(* days and a day DayLength slots, in which the tick runs at least once.   *)
(* Ages of the last success and failure are counted in slots.  One tick is *)
(* one step here: how its reads race with runs, presses and other ticks is *)
(* BackupTask's matter.                                                    *)
(*                                                                         *)
(* A node's slot is reduced to its weekday and its place in the queue; what*)
(* slots the recurrence gives it is ScheduleSlots, over the whole calendar.*)
(***************************************************************************)
EXTENDS ScheduleSlots

CONSTANTS
    Groups,           \* the groups to look at, one per behaviour (see Group)
    Nodes,            \* the nodes of the group
    WeekLength,       \* days in a week
    DayLength,        \* slots in a day
    DueDay,           \* the weekday of each node's slot
    Stagger,          \* its place in the queue
    Shard             \* its repository

\* A day: no look-back, interval or cooldown reaches further, so that older ages
\* need not be told apart.
Horizon == DayLength

\* A group's settings: start_time and end_time as slots, the length of a test
\* interval ("10min") or 0 for a weekly group, concurrency_limit,
\* upload_rate_limit // 2048, retry_cooldown_s and the estimate of
\* estimate_group_backup_minutes, in slots.
Settings ==
    [start : 0 .. DayLength - 1, end : 0 .. DayLength - 1,
     interval : 0 .. Horizon, concurrency : Nat \ {0}, bandwidth : Nat \ {0},
     cooldown : 0 .. Horizon, meanDuration : Nat \ {0}]

\* What may happen to its nodes: those that are paused, demoted and resumed,
\* that the ping may find down, that operators ask "backup today" for, and that
\* do not fail for ever; the slots in which operators start the group by hand;
\* how a backup may fail ("recorded" with a FAILED row, "unrecorded" without:
\* stopped, refused, lost); how long one may take ("slot" within the slot it
\* began in, "day" until the day's last slot, "night").
Surroundings ==
    [pausable : SUBSET Nodes, losable : SUBSET Nodes, requestable : SUBSET Nodes,
     healthy : SUBSET Nodes, pressed : SUBSET (0 .. DayLength - 1),
     failures : SUBSET {"recorded", "unrecorded"}, longest : {"slot", "day", "night"}]

Group == [set : Settings, may : Surroundings]

ASSUME SchedulerAssumption ==
    /\ IsFiniteSet(Nodes)
    /\ WeekLength \in Nat \ {0}
    /\ DayLength \in Nat \ {0}
    /\ DueDay \in [Nodes -> 0 .. WeekLength - 1]
    /\ Stagger \in [Nodes -> Nat]
    /\ \A m, n \in Nodes : Stagger[m] = Stagger[n] => m = n
    /\ Groups \subseteq Group

VARIABLES
    group,         \* the group's settings and surroundings, which stay
    day, slot,     \* the group's local time
    ticked,        \* whether the tick has run in this slot
    enrolled,      \* nodes that are READY and not paused
    offline,       \* nodes whose last ping failed
    today,         \* backup_today
    missed,        \* missed_window
    running,       \* nodes with a live backup_running key
    sinceSuccess,  \* age of the newest SUCCESS row, Horizon + 1 for none
    sinceFailure,  \* age of the newest FAILED row
    owed           \* history: due, not paused and with no success since

vars == <<group, day, slot, ticked, enrolled, offline, today, missed, running,
          sinceSuccess, sinceFailure, owed>>

clockVars == <<group, day, slot, ticked>>
nodeVars == <<enrolled, offline>>
flagVars == <<today, missed>>
historyVars == <<sinceSuccess, sinceFailure>>

Init ==
    /\ group \in Groups
    /\ day = 0
    /\ slot = 0
    /\ ticked = FALSE
    /\ enrolled = Nodes
    /\ offline = {}
    /\ today = {}
    /\ missed = {}
    /\ running = {}
    /\ sinceSuccess = [n \in Nodes |-> Horizon + 1]
    /\ sinceFailure = [n \in Nodes |-> Horizon + 1]
    /\ owed = IF group.set.start = 0 /\ group.set.interval = 0
              THEN {n \in Nodes : DueDay[n] = 0} ELSE {}

----------------------------------------------------------------------------
(* WindowBounds.                                                           *)

Contains(s) ==
    \/ group.set.start < group.set.end /\ group.set.start <= s /\ s < group.set.end
    \/ group.set.start > group.set.end /\ (s >= group.set.start \/ s < group.set.end)
    \/ group.set.start = group.set.end

IsPast(s) ==
    \/ group.set.start < group.set.end /\ s >= group.set.end
    \/ group.set.start > group.set.end /\ group.set.end <= s /\ s < group.set.start

Duration ==
    IF group.set.start = group.set.end THEN DayLength
                               ELSE (group.set.end - group.set.start) % DayLength

\* The after-midnight half of a window that crosses midnight.
StartedYesterday == group.set.start > group.set.end /\ slot < group.set.end

\* window_start_local: its day, and how long ago it was (ahead when negative).
WindowDay == IF StartedYesterday THEN (day - 1) % WeekLength ELSE day

\* (mutant) The after-midnight half is taken for a window that opens today.
WindowAgeToday == slot - group.set.start

WindowAge == IF StartedYesterday THEN slot + DayLength - group.set.start
                                 ELSE slot - group.set.start

\* window_start_dt, from which a success counts.
LookBack == IF group.set.interval > 0 THEN group.set.interval ELSE WindowAge

\* is_scheduled_on the day the window started.
IsScheduled(n) == group.set.interval > 0 \/ DueDay[n] = WindowDay

SucceededInWindow(n) == sinceSuccess[n] <= LookBack

----------------------------------------------------------------------------
(* The tick.                                                               *)

NeedsToRun(n) == IsScheduled(n) \/ n \in today \/ n \in missed

Pending ==
    {n \in enrolled \ (offline \cup running) :
        NeedsToRun(n) /\ ~SucceededInWindow(n)}

SmallerOf(m, n) == IF m < n THEN m ELSE n
LargerOf(m, n) == IF m > n THEN m ELSE n

Remaining == LargerOf(1, Duration - WindowAge)

\* Enough streams to finish the queue before the window closes.
RequiredConcurrency ==
    (Cardinality(Pending) * group.set.meanDuration + Remaining - 1) \div Remaining

OccupiedShards == Cardinality({Shard[n] : n \in Pending})

\* (mutant) The deadline may raise the limit past the link.
EffectiveUncapped ==
    SmallerOf(LargerOf(SmallerOf(group.set.concurrency, group.set.bandwidth),
                       RequiredConcurrency),
              OccupiedShards)

EffectiveConcurrency ==
    SmallerOf(SmallerOf(LargerOf(group.set.concurrency, RequiredConcurrency),
                        group.set.bandwidth),
              OccupiedShards)

FreeSlots == EffectiveConcurrency - Cardinality(running \cap enrolled)

\* (mutant) Failures are looked for where successes are.
FailureLookBackOfWindow == LookBack

\* fail_lookback_dt: as far as successes count, and at least the cooldown.
FailureLookBack == LargerOf(LookBack, group.set.cooldown)

\* latest_failure_at finds the newest FAILED row that is not older than that.
FoundFailed(n) == sinceFailure[n] <= FailureLookBack

Eligible == {n \in Pending : FoundFailed(n) => sinceFailure[n] >= group.set.cooldown}

\* (mutant) A node in its cooldown ends the round instead of being passed over.
ChosenUntilCooldown ==
    {n \in Eligible :
        Cardinality({m \in Pending : Stagger[m] < Stagger[n]}) < FreeSlots}

\* The first free_slots of the queue, in stagger order.
Chosen ==
    {n \in Eligible :
        Cardinality({m \in Eligible : Stagger[m] < Stagger[n]}) < FreeSlots}

\* Inside the window: flags of the nodes that are done, then the queue.
TickInWindow ==
    /\ Contains(slot)
    /\ LET done == {n \in enrolled : NeedsToRun(n) /\ SucceededInWindow(n)}
       IN  /\ today' = today \ done
           /\ missed' = missed \ done
    /\ running' = running \cup Chosen
    /\ ticked' = TRUE
    /\ UNCHANGED <<group, day, slot, nodeVars, historyVars, owed>>

\* (mutant) A window that closes leaves no trace.
TickForgetsMissed ==
    /\ ~Contains(slot)
    /\ ticked' = TRUE
    /\ UNCHANGED <<group, day, slot, nodeVars, flagVars, running, historyVars,
                   owed>>

\* Outside: whoever should have run and has not is marked, except a node whose
\* backup is still at work.
TickOutside ==
    /\ ~Contains(slot)
    /\ LET late == IF IsPast(slot)
                   THEN {n \in enrolled \ (running \cup missed) :
                           /\ IsScheduled(n) \/ n \in today
                           /\ ~SucceededInWindow(n)}
                   ELSE {}
       IN  /\ missed' = missed \cup late
           /\ today' = today \ late
    /\ ticked' = TRUE
    /\ UNCHANGED <<group, day, slot, nodeVars, running, historyVars, owed>>

----------------------------------------------------------------------------
(* What the tick works on: backups, operators, pings and the clock.        *)

RunSucceeds(n) ==
    /\ n \in running
    /\ running' = running \ {n}
    /\ sinceSuccess' = [sinceSuccess EXCEPT ![n] = 0]
    /\ owed' = owed \ {n}
    /\ UNCHANGED <<clockVars, nodeVars, flagVars, sinceFailure>>

RunFails(n) ==
    /\ n \in running
    /\ running' = running \ {n}
    /\ \/ /\ "recorded" \in group.may.failures
          /\ sinceFailure' = [sinceFailure EXCEPT ![n] = 0]
       \/ /\ "unrecorded" \in group.may.failures
          /\ UNCHANGED sinceFailure
    /\ UNCHANGED <<clockVars, nodeVars, flagVars, sinceSuccess, owed>>

RequestToday(n) ==
    /\ n \in group.may.requestable \ today
    /\ today' = today \cup {n}
    /\ UNCHANGED <<clockVars, nodeVars, missed, running, historyVars, owed>>

\* trigger_group_backup: an operator starts the group at once, in or out of its
\* window, whatever is due, done or at rest, and whoever is not paused: of those
\* not enrolled, whoever has merely lost READY.  As many nodes as the configured
\* limit leaves room for, but perhaps ones that are at work already, which then
\* refuse a second run (see BackupTask).
PressGroup ==
    /\ slot \in group.may.pressed
    /\ \E demoted \in SUBSET (Nodes \ enrolled) :
       \E started \in SUBSET (enrolled \cup demoted) :
          /\ Cardinality(started) =
                SmallerOf(LargerOf(0, group.set.concurrency -
                                        Cardinality(running \cap (enrolled \cup demoted))),
                          Cardinality(enrolled \cup demoted))
          /\ running' = running \cup started
    /\ UNCHANGED <<clockVars, nodeVars, flagVars, historyVars, owed>>

\* A node is paused or loses READY, or comes back.
ToggleEnrolled(n) ==
    /\ n \in group.may.pausable
    /\ enrolled' = IF n \in enrolled THEN enrolled \ {n} ELSE enrolled \cup {n}
    /\ owed' = owed \ {n}
    /\ UNCHANGED <<clockVars, offline, flagVars, running, historyVars>>

TogglePing(n) ==
    /\ n \in group.may.losable
    /\ offline' = IF n \in offline THEN offline \ {n} ELSE offline \cup {n}
    /\ UNCHANGED <<clockVars, enrolled, flagVars, running, historyVars, owed>>

Older(age) == [n \in Nodes |-> SmallerOf(age[n] + 1, Horizon + 1)]

\* The beat ticks every minute, so no slot passes without a tick.
Advance ==
    /\ ticked
    /\ slot' = (slot + 1) % DayLength
    /\ group.may.longest = "slot" => running = {}
    /\ group.may.longest = "day" /\ slot' = DayLength - 1 => running = {}
    /\ day' = IF slot' = 0 THEN (day + 1) % WeekLength ELSE day
    /\ ticked' = FALSE
    /\ sinceSuccess' = Older(sinceSuccess)
    /\ sinceFailure' = Older(sinceFailure)
    /\ owed' = IF slot' = group.set.start /\ group.set.interval = 0
               THEN owed \cup {n \in enrolled : DueDay[n] = day'}
               ELSE owed
    /\ UNCHANGED <<group, nodeVars, flagVars, running>>

Tick == TickInWindow \/ TickOutside

Next ==
    \/ TickInWindow
    \/ TickOutside
    \/ Advance
    \/ PressGroup
    \/ \E n \in Nodes :
          \/ RunSucceeds(n) \/ RunFails(n) \/ RequestToday(n)
          \/ ToggleEnrolled(n) \/ TogglePing(n)

Spec == Init /\ [][Next]_vars

\* The beat and the clock go on, a run ends (its soft time limit sees to it), and
\* a healthy node that is dispatched again and again succeeds at last.
FairSpec ==
    /\ Spec
    /\ WF_vars(Tick)
    /\ WF_vars(Advance)
    /\ \A n \in Nodes : WF_vars(RunSucceeds(n) \/ RunFails(n))
    /\ \A n \in Nodes : SF_vars(n \in group.may.healthy /\ RunSucceeds(n))

----------------------------------------------------------------------------
(* Properties.                                                             *)

Ages == 0 .. Horizon + 1

TypeOK ==
    /\ group \in Groups
    /\ day \in 0 .. WeekLength - 1
    /\ slot \in 0 .. DayLength - 1
    /\ ticked \in BOOLEAN
    /\ {enrolled, offline, today, missed, running, owed} \subseteq SUBSET Nodes
    /\ sinceSuccess \in [Nodes -> Ages]
    /\ sinceFailure \in [Nodes -> Ages]

\* No run is at work as the day ends, nor may an operator start one then.
QuietNights == group.may.longest # "night" /\ DayLength - 1 \notin group.may.pressed

\* A node that was due and has had no success since is wanted until it has one,
\* on later days too, however its runs failed and its pings went (for a window
\* within one day: the tick marks a node as late on the day it was due, and only
\* while its backup is not at work).
OwedIsPursued ==
    group.set.start < group.set.end /\ QuietNights => \A n \in owed : NeedsToRun(n)

\* How long the window under way has been open, or the test interval.
OpenFor ==
    IF group.set.interval > 0 THEN group.set.interval
                          ELSE (slot - group.set.start) % DayLength

\* The hours of an all-day window before its own start: the code takes it to
\* begin today, in the future, and no success counts yet.
AheadOfItself ==
    group.set.interval = 0 /\ group.set.start = group.set.end /\ slot < group.set.start

\* A node that has a success in the window under way (within the interval, for
\* a test group) is not dispatched by the tick again in it, whatever flags it
\* carries and whoever started the run that succeeded.
RestAfterSuccess ==
    [][ Tick /\ ~AheadOfItself =>
          \A n \in running' \ running : sinceSuccess[n] > OpenFor ]_vars

\* The deadline of the window never makes the tick push the group past what its
\* link carries, not even when an operator's runs fill the link.  The backup of a
\* node that was paused under way is not counted.
LinkNotOversubscribed ==
    [][ Tick /\ running' # running =>
          Cardinality(running' \cap enrolled) <= group.set.bandwidth ]_vars

\* The tick does not try a node again within the cooldown of its failure, not
\* even when the window, or the interval, from which it counts successes began
\* after the failure: that of a run started by hand, say.
CooldownKept ==
    [][ Tick => \A n \in running' \ running :
                   sinceFailure[n] >= group.set.cooldown ]_vars

\* While runs are short and failures are recorded, a healthy node is served: one
\* at the head of the queue that fails for ever does not starve those behind it.
OwedIsServed ==
    \A n \in Nodes : (n \in group.may.healthy /\ n \in owed) ~> (n \notin owed)

\* The recurrence gives every period its backup (see PeriodsServed).  It does not
\* depend on the state: it is looked at where a behaviour begins.
CalendarServed == Init => PeriodsServed

\* A node's turn comes while its window is open (see TurnsInWindow).
TurnsKept == Init => TurnsInWindow
=============================================================================
