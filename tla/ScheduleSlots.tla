---------------------------- MODULE ScheduleSlots ----------------------------
(***************************************************************************)
(* Recurrence: on which calendar days a node of a group is due and where   *)
(* in the window it begins (core/schedule_slots.py), and the walk over the *)
(* days to come that the load calendar and the capacity report share       *)
(* (core/schedule_projection.py).  Pure functions: nothing here has state, *)
(* and the properties quantify over whole years.                           *)
(***************************************************************************)
EXTENDS Integers, FiniteSets

CONSTANTS
    Placements,   \* the nodes and groups to look at (see Placement)
    Windows       \* windows to try them with: pairs of minutes of the day

Intervals == {"10min", "30min", "weekly", "monthly", "quarterly", "yearly"}
TestIntervals == {"10min", "30min"}

\* A node of a group, as recurrence sees it: the group's settings, the window
\* in minutes of the day, and deterministic_hash of the host name.
Placement ==
    [interval : Intervals, target_week : 1 .. 4, randomize_days : BOOLEAN,
     start : 0 .. 1439, end : 0 .. 1439, hash : Nat]

ASSUME SlotsAssumption ==
    /\ Placements \subseteq Placement
    /\ Windows \subseteq (0 .. 1439) \X (0 .. 1439)

----------------------------------------------------------------------------
(* The calendar: a year is leap or not and begins on a weekday, 0 Monday.  *)

Years == [leap : BOOLEAN, starts : 0 .. 6]

DaysBefore == <<0, 31, 59, 90, 120, 151, 181, 212, 243, 273, 304, 334, 365>>
LeapDay(y, month) == IF y.leap /\ month > 2 THEN 1 ELSE 0
FirstOf(y, month) == DaysBefore[month] + LeapDay(y, month)

Date(y, month, day) ==
    [month |-> month, day |-> day,
     weekday |-> ((y.starts + FirstOf(y, month) + day - 1) % 7)]

Month(y, month) ==
    {Date(y, month, day) : day \in 1 .. FirstOf(y, month + 1) - FirstOf(y, month)}

Days(y, months) == UNION {Month(y, month) : month \in months}

\* (mutant) Off by one: the first week ends on the 6th.
WeekOfMonthShort(d) == IF (d \div 7) + 1 > 4 THEN 4 ELSE (d \div 7) + 1

\* The 29th onwards folds into week 4.
WeekOfMonth(d) == IF ((d - 1) \div 7) + 1 > 4 THEN 4 ELSE ((d - 1) \div 7) + 1

----------------------------------------------------------------------------
(* node_slot, is_scheduled_on and project_runs.                            *)

WindowMinutes(p) == IF p.start < p.end THEN p.end - p.start ELSE 1440 - p.start + p.end

\* (mutant) Off by one: a begun hour counts.
WindowHoursUp(p) == (WindowMinutes(p) \div 60) + 1

\* duration_hours: whole hours, at least one.
WindowHours(p) == IF WindowMinutes(p) < 60 THEN 1 ELSE WindowMinutes(p) \div 60

NodeSlot(p) ==
    LET dayIndex == IF p.randomize_days THEN p.hash % 7 ELSE 0
        offset == ((p.hash % WindowHours(p)) * 60) + ((p.hash \div WindowHours(p)) % 60)
    IN  IF p.interval = "quarterly"
        THEN [day_of_week |-> IF p.randomize_days THEN (p.hash \div 12) % 7 ELSE dayIndex,
              week_of_month |-> ((p.hash \div 3) % 4) + 1,
              month_of_quarter |-> p.hash % 3,
              stagger_offset_mins |-> offset]
        ELSE [day_of_week |-> dayIndex, week_of_month |-> p.target_week,
              month_of_quarter |-> 0,
              stagger_offset_mins |-> IF p.interval \in TestIntervals THEN 0 ELSE offset]

QuarterStartMonth(month) == ((month - 1) \div 3) * 3 + 1

InItsWeek(p, date) ==
    /\ date.weekday = NodeSlot(p).day_of_week
    /\ WeekOfMonth(date.day) = NodeSlot(p).week_of_month

IsScheduledOn(p, date) ==
    \/ p.interval \in TestIntervals
    \/ p.interval = "weekly" /\ date.weekday = NodeSlot(p).day_of_week
    \/ p.interval = "monthly" /\ InItsWeek(p, date)
    \/ /\ p.interval = "quarterly"
       /\ date.month = QuarterStartMonth(date.month) + NodeSlot(p).month_of_quarter
       /\ InItsWeek(p, date)
    \/ p.interval = "yearly" /\ date.month = 1 /\ InItsWeek(p, date)

\* The days a node runs on, and the minutes of those days it is to begin and
\* must be through.
ProjectRuns(p, days) ==
    {[date |-> date,
      run_at |-> p.start + NodeSlot(p).stagger_offset_mins,
      window_end |-> p.start + WindowMinutes(p)] :
        date \in {d \in days : IsScheduledOn(p, d)}}

----------------------------------------------------------------------------
(* Properties.                                                             *)

\* What an interval's name promises one backup of: sets of months, any seven
\* days on end, and for test groups every day.
Periods(p, y) ==
    CASE p.interval \in TestIntervals -> {{d} : d \in Days(y, 1 .. 12)}
      [] p.interval = "weekly" ->
            {{Date(y, month, day + i) : i \in 0 .. 6} : month \in 1 .. 12, day \in {1, 8, 15, 22}}
      [] p.interval = "monthly" -> {Month(y, month) : month \in 1 .. 12}
      [] p.interval = "quarterly" -> {Days(y, q .. q + 2) : q \in {1, 4, 7, 10}}
      [] p.interval = "yearly" -> {Days(y, 1 .. 12)}

\* The last week of the month has up to ten days, and some weekdays twice.
InLastWeek(p) ==
    p.interval \in {"monthly", "quarterly", "yearly"} /\ NodeSlot(p).week_of_month = 4

\* In every day, week, month, quarter or year of its group, whatever weekday the
\* year begins on, the projection sees a node run; and only once, unless its
\* week is the last of the month.
PeriodsServed ==
    \A p \in Placements, y \in Years : \A days \in Periods(p, y) :
        LET runs == ProjectRuns(p, days)
        IN  runs # {} /\ (~InLastWeek(p) => Cardinality(runs) = 1)

\* A node's turn comes while its window is open, across midnight too; if that is
\* an hour at least: the stagger of a shorter window reaches past its end.
TurnsInWindow ==
    \A p \in Placements, w \in Windows :
        LET q == [p EXCEPT !.start = w[1], !.end = w[2]]
            january == Month([leap |-> FALSE, starts |-> 0], 1)
        IN  WindowMinutes(q) >= 60 =>
                \A run \in ProjectRuns(q, january) : run.run_at < run.window_end
=============================================================================
