-------------------------- MODULE Scheduler_proofs --------------------------
(***************************************************************************)
(* The tick's safety for every set of groups and nodes, every length of    *)
(* the day and of the week, every queue and every placement in shards.     *)
(*                                                                         *)
(* The action properties need no more than the types and arithmetic: the   *)
(* age of a window, written by cases in the code, is its length on the     *)
(* clock (AgeIsOpenFor), and a queue cut at its k-th place holds no more   *)
(* than k nodes (CutQueue). That an owed node is pursued needs to know why *)
(* it is still wanted on later days (DebtInv): it was marked on the day it *)
(* was due, for nothing was at work at the end of that day.                *)
(*                                                                         *)
(* Of the recurrence, it is proved for every placement and window that a   *)
(* node's turn comes while its window is open (TurnsComeInTime), and that  *)
(* every period of every year has its backup (OneDayIsScheduled, one case  *)
(* per interval).                                                          *)
(***************************************************************************)
EXTENDS Scheduler, FiniteSetTheorems, TLAPS

LEMMA ModOfSmall ==
  ASSUME NEW d \in Nat \ {0}, NEW x \in Int, 0 <= x, x < d
  PROVE  x % d = x
  OBVIOUS

LEMMA ModOfNegative ==
  ASSUME NEW d \in Nat \ {0}, NEW x \in Int, -d <= x, x < 0
  PROVE  x % d = x + d
  OBVIOUS

LEMMA ModOfItself ==
  ASSUME NEW d \in Nat \ {0}
  PROVE  d % d = 0
  OBVIOUS

LEMMA ModInRange ==
  ASSUME NEW d \in Nat \ {0}, NEW x \in Int
  PROVE  x % d \in 0 .. d - 1
  OBVIOUS

\* The clock, one slot or one day further.
LEMMA NextOnClock ==
  ASSUME NEW d \in Nat \ {0}, NEW x \in 0 .. d - 1
  PROVE  (x + 1) % d = IF x = d - 1 THEN 0 ELSE x + 1
<1>1. CASE x = d - 1
  BY <1>1, ModOfItself
<1>2. CASE x < d - 1
  <2>1. x + 1 \in Int /\ 0 <= x + 1 /\ x + 1 < d
    BY <1>2
  <2>2. (x + 1) % d = x + 1
    BY <2>1, ModOfSmall
  <2>3. QED
    BY <1>2, <2>2
<1>3. QED
  BY <1>1, <1>2

----------------------------------------------------------------------------
LEMMA ClockAdvances ==
  ASSUME slot \in 0 .. DayLength - 1, day \in 0 .. WeekLength - 1
  PROVE  /\ (slot + 1) % DayLength = IF slot = DayLength - 1 THEN 0 ELSE slot + 1
         /\ (day + 1) % WeekLength = IF day = WeekLength - 1 THEN 0 ELSE day + 1
  BY NextOnClock, SchedulerAssumption

\* Types, for every value of the constants.
THEOREM TypeCorrect == Spec => []TypeOK
<1> USE SchedulerAssumption DEF TypeOK, Ages, Horizon
<1>1. Init => TypeOK
  <2> SUFFICES ASSUME Init PROVE TypeOK
    OBVIOUS
  <2>1. {enrolled, offline, today, missed, running, owed} \subseteq SUBSET Nodes
    BY DEF Init
  <2>2. [n \in Nodes |-> Horizon + 1] \in [Nodes -> Ages]
    OBVIOUS
  <2>3. ticked \in BOOLEAN
    BY DEF Init
  <2>4. QED
    BY <2>1, <2>2, <2>3 DEF Init
<1>2. TypeOK /\ [Next]_vars => TypeOK'
  <2> SUFFICES ASSUME TypeOK, [Next]_vars PROVE TypeOK'
    OBVIOUS
  <2> USE DEF clockVars, nodeVars, flagVars, historyVars
  <2>1. CASE TickInWindow
    BY <2>1 DEF TickInWindow, Chosen, Eligible, Pending
  <2>2. CASE TickOutside
    BY <2>2 DEF TickOutside
  <2>3. CASE Advance
    <3>1. /\ (slot + 1) % DayLength \in 0 .. DayLength - 1
          /\ (day + 1) % WeekLength \in 0 .. WeekLength - 1
      BY ClockAdvances
    <3>2. \A age \in [Nodes -> Ages] : Older(age) \in [Nodes -> Ages]
      BY DEF Older, SmallerOf
    <3>3. slot' \in 0 .. DayLength - 1 /\ day' \in 0 .. WeekLength - 1
      BY <2>3, <3>1 DEF Advance
    <3>4. sinceSuccess' \in [Nodes -> Ages] /\ sinceFailure' \in [Nodes -> Ages]
      BY <2>3, <3>2 DEF Advance
    <3>5. ticked' \in BOOLEAN /\ owed' \in SUBSET Nodes
      BY <2>3 DEF Advance
    <3>6. QED
      BY <2>3, <3>3, <3>4, <3>5 DEF Advance
  <2>4. CASE PressGroup
    BY <2>4 DEF PressGroup
  <2>5. ASSUME NEW n \in Nodes,
               \/ RunSucceeds(n) \/ RunFails(n) \/ RequestToday(n)
               \/ ToggleEnrolled(n) \/ TogglePing(n)
        PROVE  TypeOK'
    BY <2>5 DEF RunSucceeds, RunFails, RequestToday, ToggleEnrolled, TogglePing
  <2>6. CASE UNCHANGED vars
    BY <2>6 DEF vars
  <2>7. QED
    BY <2>1, <2>2, <2>3, <2>4, <2>5, <2>6 DEF Next
<1>3. QED
  BY <1>1, <1>2, PTL DEF Spec

\* A group has the settings and surroundings it is declared with.
LEMMA GroupHasType ==
  ASSUME TypeOK
  PROVE  /\ group.set \in Settings /\ group.may \in Surroundings
         /\ group.set.start \in 0 .. DayLength - 1 /\ group.set.end \in 0 .. DayLength - 1
         /\ group.set.interval \in 0 .. DayLength /\ group.set.cooldown \in 0 .. DayLength
         /\ group.set.bandwidth \in Nat \ {0} /\ group.set.concurrency \in Nat \ {0}
         /\ group.set.meanDuration \in Nat \ {0}
         /\ group.may.longest \in {"slot", "day", "night"}
         /\ group.may.pressed \subseteq 0 .. DayLength - 1
<1>1. group \in Group
  BY SchedulerAssumption DEF TypeOK
<1>2. group.set \in Settings /\ group.may \in Surroundings
  BY <1>1 DEF Group
<1>3. QED
  BY <1>2 DEF Settings, Surroundings, Horizon

----------------------------------------------------------------------------
\* Inside the window the look-back of the code, which goes by cases, reaches as
\* far as the window under way has been open.
LEMMA AgeIsOpenFor ==
  ASSUME TypeOK, Contains(slot), ~AheadOfItself
  PROVE  LookBack = OpenFor
<1> USE GroupHasType, SchedulerAssumption
    DEF TypeOK, LookBack, OpenFor, WindowAge, StartedYesterday, AheadOfItself, Contains
<1>1. CASE group.set.interval > 0
  BY <1>1
<1>2. CASE group.set.interval = 0 /\ StartedYesterday
  <2>1. (slot - group.set.start) % DayLength = slot - group.set.start + DayLength
    BY <1>2, ModOfNegative
  <2>2. QED
    BY <1>2, <2>1
<1>3. CASE group.set.interval = 0 /\ ~StartedYesterday
  <2>1. (slot - group.set.start) % DayLength = slot - group.set.start
    BY <1>3, ModOfSmall
  <2>2. QED
    BY <1>3, <2>1
<1>4. QED
  BY <1>1, <1>2, <1>3

\* A node with a success in the window under way is not dispatched in it again.
THEOREM RestKept == Spec => RestAfterSuccess
<1>1. TypeOK /\ [Next]_vars =>
        [ Tick /\ ~AheadOfItself =>
            \A n \in running' \ running : sinceSuccess[n] > OpenFor ]_vars
  <2> SUFFICES ASSUME TypeOK, Tick, ~AheadOfItself, NEW n \in running' \ running
               PROVE  sinceSuccess[n] > OpenFor
    OBVIOUS
  <2>1. TickInWindow /\ n \in Chosen
    BY DEF Tick, TickInWindow, TickOutside
  <2>2. n \in Nodes /\ ~(sinceSuccess[n] <= LookBack)
    BY <2>1 DEF Chosen, Eligible, Pending, SucceededInWindow, TypeOK
  <2>3. LookBack = OpenFor
    BY <2>1, AgeIsOpenFor DEF TickInWindow
  <2>4. OpenFor \in Int
    <3>1. group.set.interval \in Int /\ slot - group.set.start \in Int
      BY GroupHasType, SchedulerAssumption DEF TypeOK
    <3>2. (slot - group.set.start) % DayLength \in 0 .. DayLength - 1
      BY <3>1, SchedulerAssumption, ModInRange
    <3>3. QED
      BY <3>1, <3>2 DEF OpenFor
  <2>5. QED
    BY <2>2, <2>3, <2>4, SchedulerAssumption DEF TypeOK, Ages, Horizon
<1>2. QED
  BY <1>1, TypeCorrect, PTL DEF Spec, RestAfterSuccess

----------------------------------------------------------------------------
\* The first k of a queue in stagger order are no more than k: their places are
\* k numbers, and no two share one.
LEMMA CutQueue ==
  ASSUME NEW Q \in SUBSET Nodes, NEW k \in Nat,
         NEW cut, cut = {n \in Q : Cardinality({m \in Q : Stagger[m] < Stagger[n]}) < k}
  PROVE  IsFiniteSet(cut) /\ Cardinality(cut) <= k
<1> USE SchedulerAssumption
<1> DEFINE Before(n) == {m \in Q : Stagger[m] < Stagger[n]}
           Place == [n \in cut |-> Cardinality(Before(n))]
<1>1. \A n : IsFiniteSet(Before(n)) /\ Cardinality(Before(n)) \in Nat
  <2>1. IsFiniteSet(Q)
    BY FS_Subset
  <2>2. \A n : Before(n) \in SUBSET Q
    OBVIOUS
  <2>3. QED
    BY <2>1, <2>2, FS_Subset, FS_CardinalityType
<1>2. \A n \in cut : n \in Q /\ Cardinality(Before(n)) < k
  OBVIOUS
<1>3. \A m \in Q, n \in Q :
        Stagger[m] < Stagger[n] => Before(m) \cup {m} \subseteq Before(n) /\ m \notin Before(m)
  <2> SUFFICES ASSUME NEW m \in Q, NEW n \in Q, Stagger[m] < Stagger[n]
               PROVE  Before(m) \cup {m} \subseteq Before(n) /\ m \notin Before(m)
    OBVIOUS
  <2>1. \A l \in Q : Stagger[l] \in Nat
    OBVIOUS
  <2>2. QED
    BY <2>1
<1> HIDE DEF Before
<1>4. Place \in [cut -> 0 .. k - 1]
  BY <1>1, <1>2
<1>5. ASSUME NEW m \in cut, NEW n \in cut, Stagger[m] < Stagger[n]
      PROVE  Cardinality(Before(m)) < Cardinality(Before(n))
  <2>1. Before(m) \cup {m} \subseteq Before(n) /\ m \notin Before(m)
    BY <1>2, <1>3, <1>5
  <2>2. Cardinality(Before(m) \cup {m}) = Cardinality(Before(m)) + 1
    BY <2>1, <1>1, FS_AddElement
  <2>3. Cardinality(Before(m) \cup {m}) <= Cardinality(Before(n))
    BY <2>1, <1>1, FS_Subset
  <2>4. QED
    BY <2>2, <2>3, <1>1
<1>6. ASSUME NEW m \in cut, NEW n \in cut, Place[m] = Place[n]
      PROVE  m = n
  <2>1. Cardinality(Before(m)) = Cardinality(Before(n))
    BY <1>6
  <2>2. m \in Nodes /\ n \in Nodes /\ Stagger[m] \in Nat /\ Stagger[n] \in Nat
    BY <1>2
  <2>3. ~(Stagger[m] < Stagger[n]) /\ ~(Stagger[n] < Stagger[m])
    BY <1>1, <1>5, <2>1
  <2>4. QED
    BY <2>2, <2>3
<1>7. Place \in Injection(cut, 0 .. k - 1)
  BY <1>4, <1>6 DEF Injection, IsInjective
<1>8. IsFiniteSet(0 .. k - 1) /\ Cardinality(0 .. k - 1) = k
  BY FS_Interval
<1>9. QED
  BY <1>7, <1>8, FS_Injection

\* What the deadline, the link and the shards leave of a group's concurrency is
\* never more than its link carries.
LEMMA EffectiveWithinLink ==
  ASSUME TypeOK
  PROVE  EffectiveConcurrency \in Int /\ EffectiveConcurrency <= group.set.bandwidth
<1> USE GroupHasType, SchedulerAssumption
<1>1. IsFiniteSet(Pending) /\ Cardinality(Pending) \in Nat
  <2>1. Pending \in SUBSET Nodes
    BY DEF Pending, TypeOK
  <2>2. QED
    BY <2>1, FS_Subset, FS_CardinalityType
<1>2. OccupiedShards \in Nat
  <2> DEFINE shards == {Shard[n] : n \in Pending}
             home == [n \in Pending |-> Shard[n]]
  <2>1. home \in Surjection(Pending, shards)
    BY DEF Surjection
  <2>2. IsFiniteSet(shards)
    BY <1>1, <2>1, FS_Surjection
  <2>3. QED
    BY <2>2, FS_CardinalityType DEF OccupiedShards
<1>3. Remaining \in Int /\ Remaining > 0
  <2>1. WindowAge \in Int
    BY DEF WindowAge, TypeOK
  <2>2. (group.set.end - group.set.start) % DayLength \in Int
    <3>1. group.set.end - group.set.start \in Int
      OBVIOUS
    <3>2. QED
      BY <3>1, ModInRange
  <2>3. Duration \in Int
    BY <2>2 DEF Duration
  <2>4. QED
    BY <2>1, <2>3 DEF Remaining, LargerOf
<1>4. RequiredConcurrency \in Int
  <2>1. Cardinality(Pending) * group.set.meanDuration + Remaining - 1 \in Int
    BY <1>1, <1>3
  <2>2. QED
    BY <2>1, <1>3 DEF RequiredConcurrency
<1>5. QED
  BY <1>2, <1>4 DEF EffectiveConcurrency, SmallerOf, LargerOf

\* The tick dispatches no more backups than the link has room for.
THEOREM LinkKept == Spec => LinkNotOversubscribed
<1>1. TypeOK /\ [Next]_vars =>
        [ Tick /\ running' # running =>
            Cardinality(running' \cap enrolled) <= group.set.bandwidth ]_vars
  <2> SUFFICES ASSUME TypeOK, Tick, running' # running
               PROVE  Cardinality(running' \cap enrolled) <= group.set.bandwidth
    OBVIOUS
  <2> DEFINE at == running \cap enrolled
  <2>1. TickInWindow /\ Chosen # {}
    BY DEF Tick, TickInWindow, TickOutside
  <2>2. at \in SUBSET Nodes /\ Eligible \in SUBSET Nodes /\ Chosen \subseteq enrolled
    BY DEF TypeOK, Chosen, Eligible, Pending
  <2>3. IsFiniteSet(at) /\ Cardinality(at) \in Nat
    BY <2>2, SchedulerAssumption, FS_Subset, FS_CardinalityType
  <2>4. EffectiveConcurrency \in Int /\ EffectiveConcurrency <= group.set.bandwidth
    BY EffectiveWithinLink
  <2>5. FreeSlots = EffectiveConcurrency - Cardinality(at)
    BY DEF FreeSlots
  <2>6. FreeSlots \in Nat
    <3>1. PICK n \in Eligible : Cardinality({m \in Eligible : Stagger[m] < Stagger[n]}) < FreeSlots
      BY <2>1 DEF Chosen
    <3>2. Cardinality({m \in Eligible : Stagger[m] < Stagger[n]}) \in Nat
      <4>1. {m \in Eligible : Stagger[m] < Stagger[n]} \in SUBSET Nodes
        BY <2>2
      <4>2. QED
        BY <4>1, SchedulerAssumption, FS_Subset, FS_CardinalityType
    <3>3. QED
      BY <2>3, <2>4, <2>5, <3>1, <3>2
  <2>7. IsFiniteSet(Chosen) /\ Cardinality(Chosen) <= FreeSlots
    BY <2>2, <2>6, CutQueue DEF Chosen
  <2>8. running' \cap enrolled = at \cup Chosen
    BY <2>1, <2>2 DEF TickInWindow
  <2>9. Cardinality(at \cup Chosen) <= Cardinality(at) + Cardinality(Chosen)
    <3>1. IsFiniteSet(at \cap Chosen) /\ Cardinality(at \cap Chosen) \in Nat
      BY <2>3, FS_Intersection, FS_CardinalityType
    <3>2. Cardinality(Chosen) \in Nat
      BY <2>7, FS_CardinalityType
    <3>3. Cardinality(at \cup Chosen) =
             Cardinality(at) + Cardinality(Chosen) - Cardinality(at \cap Chosen)
      BY <2>3, <2>7, FS_Union
    <3>4. QED
      BY <2>3, <3>1, <3>2, <3>3
  <2>10. IsFiniteSet(at \cup Chosen) /\ Cardinality(at \cup Chosen) \in Nat
    BY <2>3, <2>7, FS_Union, FS_CardinalityType
  <2>11. Cardinality(Chosen) \in Nat
    BY <2>7, FS_CardinalityType
  <2>12. group.set.bandwidth \in Nat
    BY GroupHasType
  <2> HIDE DEF at
  <2>13. Cardinality(at \cup Chosen) <= group.set.bandwidth
    BY <2>3, <2>4, <2>5, <2>7, <2>9, <2>10, <2>11, <2>12
  <2>14. QED
    BY <2>8, <2>13
<1>2. QED
  BY <1>1, TypeCorrect, PTL DEF Spec, LinkNotOversubscribed
----------------------------------------------------------------------------
\* A weekly group whose window lies within one day and whose runs are over by
\* the end of it.
ByDay == group.set.interval = 0 /\ group.set.start < group.set.end /\ QuietNights

\* Nothing is at work in the last slot of its day.
NightInv == slot = DayLength - 1 => running = {}

\* A node that is owed has not been paused since, and its last success is older
\* than today's window.
OwedInv ==
    /\ owed \subseteq enrolled
    /\ \A n \in owed : slot >= group.set.start =>
           sinceSuccess[n] > slot - group.set.start

\* Why it is still wanted: it is marked, or this is its day and the last tick of
\* the day, which marks it, is still to come.
MarkedInv ==
    \A n \in owed :
        \/ n \in missed
        \/ DueDay[n] = day /\ slot >= group.set.start /\ ~(ticked /\ slot = DayLength - 1)

\* The inductive invariant.
DebtInv == ByDay => NightInv /\ OwedInv /\ MarkedInv

\* In the window of a weekly group by day, and after it, an owed node that has no
\* mark is due and has no success that counts.
LEMMA OwedIsDue ==
  ASSUME TypeOK, ByDay, OwedInv, MarkedInv, NEW n \in owed
  PROVE  /\ slot >= group.set.start => ~SucceededInWindow(n)
         /\ n \notin missed => IsScheduled(n) /\ slot >= group.set.start
<1> USE GroupHasType, SchedulerAssumption
<1>1. ~StartedYesterday /\ WindowDay = day /\ LookBack = slot - group.set.start
  BY DEF ByDay, StartedYesterday, WindowDay, LookBack, WindowAge, TypeOK
<1>2. n \in Nodes /\ sinceSuccess[n] \in Int /\ slot - group.set.start \in Int
  BY DEF TypeOK, Ages, Horizon
<1>3. QED
  BY <1>1, <1>2 DEF OwedInv, MarkedInv, SucceededInWindow, IsScheduled

\* What is owed, and why it is still wanted, at every moment.
LEMMA DebtInvariant == Spec => []DebtInv
<1> USE SchedulerAssumption
<1>1. Init => DebtInv
  BY DEF Init, DebtInv, ByDay, NightInv, OwedInv, MarkedInv, Horizon
<1>2. TypeOK /\ DebtInv /\ [Next]_vars => DebtInv'
  <2> SUFFICES ASSUME TypeOK, DebtInv, [Next]_vars, ByDay'
               PROVE  NightInv' /\ OwedInv' /\ MarkedInv'
    BY DEF DebtInv
  <2> USE DEF clockVars, nodeVars, flagVars, historyVars
  <2>1. group' = group
    BY DEF Next, TickInWindow, TickOutside, Advance, PressGroup, RunSucceeds, RunFails,
           RequestToday, ToggleEnrolled, TogglePing, vars
  <2>2. ByDay /\ NightInv /\ OwedInv /\ MarkedInv
    BY <2>1 DEF DebtInv, ByDay, QuietNights
  <2>3. /\ group.set.start \in 0 .. DayLength - 1 /\ group.set.end \in 0 .. DayLength - 1
        /\ group.set.interval = 0 /\ group.set.start < group.set.end
        /\ group.may.longest \in {"slot", "day"} /\ DayLength - 1 \notin group.may.pressed
        /\ slot \in 0 .. DayLength - 1
    BY <2>2, GroupHasType DEF ByDay, QuietNights, TypeOK
  <2> USE <2>1, <2>2, <2>3
  <2>4. CASE TickInWindow
    <3>1. group.set.start <= slot /\ slot < DayLength - 1
      BY <2>4 DEF TickInWindow, Contains
    <3>2. \A n \in owed : ~SucceededInWindow(n)
      BY <3>1, OwedIsDue
    <3>3. \A n \in owed : n \in missed => n \in missed'
      BY <2>4, <3>2 DEF TickInWindow
    <3>4. QED
      BY <2>4, <3>1, <3>3 DEF TickInWindow, NightInv, OwedInv, MarkedInv
  <2>5. CASE TickOutside
    <3>1. \A n \in owed : n \in missed => n \in missed'
      BY <2>5 DEF TickOutside
    <3>2. ASSUME NEW n \in owed, n \notin missed, slot = DayLength - 1 PROVE n \in missed'
      <4>1. IsScheduled(n) /\ ~SucceededInWindow(n) /\ slot >= group.set.start
        BY <3>2, OwedIsDue
      <4>2. IsPast(slot)
        BY <3>2 DEF IsPast
      <4>3. n \in enrolled \ (running \cup missed)
        BY <3>2 DEF NightInv, OwedInv
      <4>4. QED
        BY <2>5, <4>1, <4>2, <4>3 DEF TickOutside
    <3>3. QED
      BY <2>5, <3>1, <3>2 DEF TickOutside, NightInv, OwedInv, MarkedInv
  <2>6. CASE Advance
    <3>0. (slot + 1) % DayLength = IF slot = DayLength - 1 THEN 0 ELSE slot + 1
      BY ClockAdvances DEF TypeOK
    <3>1. CASE slot = DayLength - 1
      <4>1. slot' = 0
        BY <2>6, <3>1, <3>0 DEF Advance
      <4>2. NightInv'
        BY <4>1 DEF NightInv
      <4>3. OwedInv'
        BY <2>6, <4>1 DEF Advance, OwedInv, Older, SmallerOf, Horizon, TypeOK, Ages
      <4>4. MarkedInv'
        BY <2>6, <3>1, <4>1 DEF Advance, MarkedInv
      <4>5. QED
        BY <4>2, <4>3, <4>4
    <3>2. CASE slot < DayLength - 1
      <4>1. slot' = slot + 1 /\ day' = day
        BY <2>6, <3>2, <3>0 DEF Advance
      <4>2. NightInv'
        BY <2>6, <4>1 DEF Advance, NightInv
      <4>3. OwedInv'
        BY <2>6, <3>2, <4>1 DEF Advance, OwedInv, Older, SmallerOf, Horizon, TypeOK, Ages
      <4>4. MarkedInv'
        BY <2>6, <3>2, <4>1 DEF Advance, MarkedInv
      <4>5. QED
        BY <4>2, <4>3, <4>4
    <3>3. QED
      BY <3>1, <3>2
  <2>7. CASE PressGroup
    BY <2>7 DEF PressGroup, NightInv, OwedInv, MarkedInv
  <2>8. ASSUME NEW n \in Nodes, RunSucceeds(n) \/ RunFails(n)
        PROVE  NightInv' /\ OwedInv' /\ MarkedInv'
    BY <2>8 DEF RunSucceeds, RunFails, NightInv, OwedInv, MarkedInv, TypeOK
  <2>9. ASSUME NEW n \in Nodes, RequestToday(n) \/ ToggleEnrolled(n) \/ TogglePing(n)
        PROVE  NightInv' /\ OwedInv' /\ MarkedInv'
    BY <2>9 DEF RequestToday, ToggleEnrolled, TogglePing, NightInv, OwedInv, MarkedInv
  <2>10. CASE UNCHANGED vars
    BY <2>10 DEF vars, NightInv, OwedInv, MarkedInv
  <2>11. QED
    BY <2>4, <2>5, <2>6, <2>7, <2>8, <2>9, <2>10 DEF Next
<1>3. QED
  BY <1>1, <1>2, TypeCorrect, PTL DEF Spec

\* A node that was due and has had no success since is wanted in every window by
\* day until it has one.
THEOREM OwedPursued == Spec => []OwedIsPursued
<1>1. TypeOK /\ DebtInv => OwedIsPursued
  <2> SUFFICES ASSUME TypeOK, DebtInv, group.set.start < group.set.end, QuietNights,
                      NEW n \in owed
               PROVE  NeedsToRun(n)
    BY DEF OwedIsPursued
  <2>1. CASE group.set.interval > 0
    BY <2>1 DEF NeedsToRun, IsScheduled
  <2>2. CASE group.set.interval = 0
    BY <2>2, OwedIsDue DEF DebtInv, ByDay, NeedsToRun
  <2>3. QED
    BY <2>1, <2>2, GroupHasType
<1>2. QED
  BY <1>1, TypeCorrect, DebtInvariant, PTL

----------------------------------------------------------------------------
\* Whole hours of a window, and minutes of an hour, make less than the window.
LEMMA OffsetBound ==
  ASSUME NEW minutes \in Nat, minutes >= 60, NEW hash \in Nat,
         NEW hours, hours = minutes \div 60,
         NEW offset, offset = (hash % hours) * 60 + ((hash \div hours) % 60)
  PROVE  offset \in Nat /\ offset < minutes
<1>1. hours \in Nat \ {0} /\ hours * 60 <= minutes
  OBVIOUS
<1>2. hash % hours \in 0 .. hours - 1
  BY <1>1, ModInRange
<1>3. (hash \div hours) % 60 \in 0 .. 59
  <2>1. hash \div hours \in Int
    BY <1>1
  <2>2. QED
    BY <2>1
<1>4. \A i \in 0 .. hours - 1, j \in 0 .. 59 :
        i * 60 + j \in Nat /\ i * 60 + j < hours * 60
  BY <1>1
<1>5. QED
  BY <1>1, <1>2, <1>3, <1>4

LEMMA OffsetInWindow ==
  ASSUME NEW q, q.hash \in Nat, WindowMinutes(q) \in Nat, WindowMinutes(q) >= 60
  PROVE  /\ NodeSlot(q).stagger_offset_mins \in Nat
         /\ NodeSlot(q).stagger_offset_mins < WindowMinutes(q)
<1> DEFINE hours == WindowHours(q)
           offset == (q.hash % hours) * 60 + ((q.hash \div hours) % 60)
<1>1. hours = WindowMinutes(q) \div 60
  BY DEF WindowHours
<1>2. offset \in Nat /\ offset < WindowMinutes(q)
  <2> HIDE DEF hours
  <2>1. QED
    BY <1>1, OffsetBound
<1>3. NodeSlot(q).stagger_offset_mins \in {0, offset}
  BY DEF NodeSlot
<1> HIDE DEF offset
<1>4. QED
  BY <1>2, <1>3

\* A node's turn comes while its window is open, in every window of an hour or
\* more, across midnight too.
THEOREM TurnsComeInTime == TurnsInWindow
<1>1. SUFFICES ASSUME NEW p \in Placements, NEW w \in Windows,
                      NEW q, q = [p EXCEPT !.start = w[1], !.end = w[2]],
                      WindowMinutes(q) >= 60,
                      NEW days, NEW run \in ProjectRuns(q, days)
               PROVE  run.run_at < run.window_end
  BY DEF TurnsInWindow
<1>2. /\ run.run_at = q.start + NodeSlot(q).stagger_offset_mins
      /\ run.window_end = q.start + WindowMinutes(q)
  BY DEF ProjectRuns
<1>3. q.start = w[1] /\ q.end = w[2] /\ q.hash = p.hash
  BY <1>1, SlotsAssumption DEF Placement
<1>4. w[1] \in Nat /\ w[2] \in Nat /\ w[1] < 1440
  <2> DEFINE minutes == 0 .. 1439
  <2>1. w \in minutes \X minutes
    BY SlotsAssumption
  <2> HIDE DEF minutes
  <2>2. w[1] \in minutes /\ w[2] \in minutes
    BY <2>1
  <2>3. \A i \in minutes : i \in Nat /\ i < 1440
    BY DEF minutes
  <2>4. QED
    BY <2>2, <2>3
<1>5. WindowMinutes(q) \in Nat /\ q.start \in Nat
  <2>1. CASE q.start < q.end
    BY <1>3, <1>4, <2>1 DEF WindowMinutes
  <2>2. CASE ~(q.start < q.end)
    BY <1>3, <1>4, <2>2 DEF WindowMinutes
  <2>3. QED
    BY <2>1, <2>2
<1>6. q.hash \in Nat
  BY <1>3, SlotsAssumption DEF Placement
<1>7. /\ NodeSlot(q).stagger_offset_mins \in Nat
      /\ NodeSlot(q).stagger_offset_mins < WindowMinutes(q)
  BY <1>1, <1>5, <1>6, OffsetInWindow
<1>8. QED
  BY <1>2, <1>5, <1>7

\* What the run looks at where a behaviour begins.
THEOREM TurnsAreKept == Spec => []TurnsKept
<1>1. TurnsKept
  BY TurnsComeInTime DEF TurnsKept
<1>2. QED
  BY <1>1, PTL

----------------------------------------------------------------------------
(* The calendar.                                                           *)

\* Of seven days on end, one is the weekday looked for.
LEMMA OneOfSeven ==
  ASSUME NEW c \in Nat, NEW k \in 0 .. 6
  PROVE  \E i \in 0 .. 6 :
            (c + i) % 7 = k /\ \A j \in 0 .. 6 : (c + j) % 7 = k => j = i
<1>1. PICK q \in Nat, r \in 0 .. 6 : c = 7 * q + r
  <2>1. c \div 7 \in Nat /\ c % 7 \in 0 .. 6 /\ c = 7 * (c \div 7) + (c % 7)
    OBVIOUS
  <2>2. QED
    BY <2>1
<1>2. \A j \in 0 .. 6 : (c + j) % 7 = IF r + j < 7 THEN r + j ELSE r + j - 7
  BY <1>1
<1>3. CASE k >= r
  <2>1. k - r \in 0 .. 6
    BY <1>3
  <2>2. QED
    BY <1>2, <1>3, <2>1
<1>4. CASE k < r
  <2>1. k + 7 - r \in 0 .. 6
    BY <1>4
  <2>2. QED
    BY <1>2, <1>4, <2>1
<1>5. QED
  BY <1>3, <1>4

\* A month begins after so many days, and has four weeks at least.
LEMMA MonthLength ==
  ASSUME NEW y \in Years, NEW month \in 1 .. 12
  PROVE  /\ FirstOf(y, month) \in Nat
         /\ FirstOf(y, month + 1) \in Nat
         /\ FirstOf(y, month + 1) - FirstOf(y, month) \in 28 .. 31
<1>1. /\ DaysBefore[month] \in Nat /\ DaysBefore[month + 1] \in Nat
      /\ DaysBefore[month + 1] - DaysBefore[month] \in 28 .. 31
      /\ month = 2 => DaysBefore[month + 1] - DaysBefore[month] = 28
  BY DEF DaysBefore
<1>2. /\ LeapDay(y, month) \in 0 .. 1 /\ LeapDay(y, month + 1) \in 0 .. 1
      /\ month # 2 => LeapDay(y, month + 1) = LeapDay(y, month)
      /\ month = 2 => LeapDay(y, month) = 0
  BY DEF LeapDay
<1>3. QED
  BY <1>1, <1>2 DEF FirstOf

\* The fields of a date.
LEMMA DateFields ==
  ASSUME NEW y, NEW month, NEW d
  PROVE  /\ Date(y, month, d).month = month
         /\ Date(y, month, d).day = d
         /\ Date(y, month, d).weekday = (y.starts + FirstOf(y, month) + d - 1) % 7
BY DEF Date

\* A node's slot is a day of a week of a month.
LEMMA SlotHasType ==
  ASSUME NEW p \in Placement
  PROVE  /\ NodeSlot(p).day_of_week \in 0 .. 6
         /\ NodeSlot(p).week_of_month \in 1 .. 4
         /\ p.interval = "quarterly" => NodeSlot(p).month_of_quarter \in 0 .. 2
<1>1. p.hash \in Nat /\ p.target_week \in 1 .. 4
  BY DEF Placement
<1>2. /\ p.hash % 7 \in 0 .. 6 /\ (p.hash \div 12) % 7 \in 0 .. 6
      /\ ((p.hash \div 3) % 4) + 1 \in 1 .. 4 /\ p.hash % 3 \in 0 .. 2
  BY <1>1
<1>3. QED
  BY <1>1, <1>2 DEF NodeSlot

\* The projection has a run for every day that is scheduled.
LEMMA RunsOfDays ==
  ASSUME NEW p, NEW days, NEW d \in days, IsScheduledOn(p, d)
  PROVE  /\ ProjectRuns(p, days) # {}
         /\ (\A e \in days : IsScheduledOn(p, e) => e = d)
                => Cardinality(ProjectRuns(p, days)) = 1
<1> DEFINE run == [date |-> d, run_at |-> p.start + NodeSlot(p).stagger_offset_mins,
                   window_end |-> p.start + WindowMinutes(p)]
<1>1. run \in ProjectRuns(p, days)
  BY DEF ProjectRuns
<1>2. ASSUME \A e \in days : IsScheduledOn(p, e) => e = d
      PROVE  Cardinality(ProjectRuns(p, days)) = 1
  <2>1. {e \in days : IsScheduledOn(p, e)} = {d}
    BY <1>2
  <2>2. ProjectRuns(p, days) = {run}
    BY <2>1 DEF ProjectRuns
  <2> HIDE DEF run
  <2>3. QED
    BY <2>2, FS_Singleton
<1>3. QED
  BY <1>1, <1>2

\* Of seven days on end in a month, one has the weekday of the slot.
ComesOnce(y, month, first, k) ==
    \E i \in 0 .. 6 :
        /\ Date(y, month, first + i).weekday = k
        /\ \A j \in 0 .. 6 : Date(y, month, first + j).weekday = k => j = i

LEMMA WeekdayComes ==
  ASSUME NEW y \in Years, NEW month \in 1 .. 12, NEW first \in Nat \ {0}, NEW k \in 0 .. 6
  PROVE  ComesOnce(y, month, first, k)
<1> DEFINE c == y.starts + FirstOf(y, month) + first - 1
<1>1. y.starts \in Nat /\ FirstOf(y, month) \in Nat
  BY MonthLength DEF Years
<1>2. c \in Nat
  BY <1>1
<1>3. \A j \in 0 .. 6 : Date(y, month, first + j).weekday = (c + j) % 7
  <2>1. TAKE j \in 0 .. 6
  <2>2. y.starts + FirstOf(y, month) + (first + j) - 1 = c + j
    BY <1>1
  <2>3. QED
    BY <2>2, DateFields
<1> HIDE DEF c
<1>4. PICK i \in 0 .. 6 : (c + i) % 7 = k /\ \A j \in 0 .. 6 : (c + j) % 7 = k => j = i
  BY <1>2, OneOfSeven
<1>5. QED
  BY <1>3, <1>4 DEF ComesOnce

\* In every month, a day is the weekday and in the week of the slot, and no
\* other unless it is the last week.
LEMMA WeekComes ==
  ASSUME NEW p \in Placement, NEW y \in Years, NEW month \in 1 .. 12
  PROVE  \E d \in Month(y, month) :
            /\ InItsWeek(p, d)
            /\ NodeSlot(p).week_of_month < 4 =>
                  \A e \in Month(y, month) : InItsWeek(p, e) => e = d
<1> DEFINE week == NodeSlot(p).week_of_month
           k == NodeSlot(p).day_of_week
           first == 7 * week - 6
<1>1. week \in 1 .. 4 /\ k \in 0 .. 6
  BY SlotHasType
<1>2. \A d \in 1 .. 31 :
         /\ d \in first .. first + 6 => WeekOfMonth(d) = week
         /\ week < 4 /\ WeekOfMonth(d) = week => d \in first .. first + 6
  BY <1>1 DEF WeekOfMonth
<1> HIDE DEF week, k
<1>3. first \in Nat \ {0} /\ first + 6 <= 28
  BY <1>1
<1> HIDE DEF first
<1>4. PICK i \in 0 .. 6 :
         /\ Date(y, month, first + i).weekday = k
         /\ \A j \in 0 .. 6 : Date(y, month, first + j).weekday = k => j = i
  <2>1. ComesOnce(y, month, first, k)
    BY <1>1, <1>3, WeekdayComes
  <2>2. QED
    BY <2>1 DEF ComesOnce
<1> DEFINE length == FirstOf(y, month + 1) - FirstOf(y, month)
<1>5. length \in 28 .. 31 /\ Month(y, month) = {Date(y, month, d) : d \in 1 .. length}
  BY MonthLength DEF Month
<1> HIDE DEF length
<1>6. first + i \in 1 .. length /\ first + i \in 1 .. 31
  BY <1>3, <1>5
<1>7. Date(y, month, first + i) \in Month(y, month)
  BY <1>5, <1>6
<1>8. InItsWeek(p, Date(y, month, first + i))
  <2>1. WeekOfMonth(first + i) = week
    BY <1>2, <1>3, <1>6
  <2>2. QED
    BY <1>4, <2>1, DateFields DEF InItsWeek, week, k
<1>9. ASSUME week < 4, NEW e \in Month(y, month), InItsWeek(p, e)
      PROVE  e = Date(y, month, first + i)
  <2>1. PICK d \in 1 .. length : e = Date(y, month, d)
    BY <1>5
  <2>2. d \in 1 .. 31 /\ WeekOfMonth(d) = week /\ e.weekday = k
    BY <1>5, <1>9, <2>1, DateFields DEF InItsWeek, week, k
  <2>3. d \in first .. first + 6
    BY <1>2, <1>9, <2>2
  <2>4. PICK j \in 0 .. 6 : d = first + j
    <3>1. d - first \in 0 .. 6 /\ d = first + (d - first)
      BY <1>3, <2>3
    <3>2. QED
      BY <3>1
  <2>5. j = i
    BY <1>4, <2>1, <2>2, <2>4
  <2>6. QED
    BY <2>1, <2>4, <2>5
<1>10. QED
  BY <1>7, <1>8, <1>9 DEF week

----------------------------------------------------------------------------
\* In every period one day is scheduled, and no other unless the node's week is
\* the last of the month: one case per interval.
LEMMA OneDayIsScheduled ==
  ASSUME NEW p \in Placement, NEW y \in Years, NEW days \in Periods(p, y)
  PROVE  \E d \in days :
            /\ IsScheduledOn(p, d)
            /\ ~InLastWeek(p) => \A e \in days : IsScheduledOn(p, e) => e = d
<1>0. /\ p.interval \in {"10min", "30min", "weekly", "monthly", "quarterly", "yearly"}
      /\ NodeSlot(p).day_of_week \in 0 .. 6
      /\ NodeSlot(p).week_of_month \in 1 .. 4
  BY SlotHasType DEF Placement, Intervals
<1>1. CASE p.interval \in TestIntervals
  <2>1. PICK d : days = {d}
    BY <1>1 DEF Periods, TestIntervals
  <2>2. QED
    BY <1>1, <2>1 DEF IsScheduledOn
<1>2. CASE p.interval = "weekly"
  <2>1. PICK month \in 1 .. 12, first \in {1, 8, 15, 22} :
            days = {Date(y, month, first + i) : i \in 0 .. 6}
    BY <1>2 DEF Periods, TestIntervals
  <2>2. PICK i \in 0 .. 6 :
           /\ Date(y, month, first + i).weekday = NodeSlot(p).day_of_week
           /\ \A j \in 0 .. 6 :
                 Date(y, month, first + j).weekday = NodeSlot(p).day_of_week => j = i
    <3>1. first \in Nat \ {0}
      OBVIOUS
    <3>2. ComesOnce(y, month, first, NodeSlot(p).day_of_week)
      BY <1>0, <3>1, WeekdayComes
    <3>3. QED
      BY <3>2 DEF ComesOnce
  <2>3. \A d : IsScheduledOn(p, d) <=> d.weekday = NodeSlot(p).day_of_week
    BY <1>2 DEF IsScheduledOn, TestIntervals
  <2>4. QED
    BY <2>1, <2>2, <2>3
<1>3. CASE p.interval = "monthly"
  <2>1. PICK month \in 1 .. 12 : days = Month(y, month)
    BY <1>3 DEF Periods, TestIntervals
  <2>2. \A d : IsScheduledOn(p, d) <=> InItsWeek(p, d)
    BY <1>3 DEF IsScheduledOn, TestIntervals
  <2>3. QED
    BY <1>0, <1>3, <2>1, <2>2, WeekComes DEF InLastWeek
<1>4. CASE p.interval = "quarterly"
  <2>1. PICK q \in {1, 4, 7, 10} : days = Days(y, q .. q + 2)
    BY <1>4 DEF Periods, TestIntervals
  <2> DEFINE month == q + NodeSlot(p).month_of_quarter
  <2>2. month \in q .. q + 2 /\ month \in 1 .. 12
    BY <1>4, SlotHasType
  <2>3. \A d : IsScheduledOn(p, d) <=>
                  d.month = QuarterStartMonth(d.month) + NodeSlot(p).month_of_quarter
                  /\ InItsWeek(p, d)
    BY <1>4 DEF IsScheduledOn, TestIntervals
  <2>4. \A m \in q .. q + 2 : QuarterStartMonth(m) = q
    BY DEF QuarterStartMonth
  <2>5. \A m, d : d \in Month(y, m) => d.month = m
    BY DateFields DEF Month
  <2>6. \A d \in days : IsScheduledOn(p, d) <=> d \in Month(y, month) /\ InItsWeek(p, d)
    <3> TAKE d \in days
    <3>1. PICK m \in q .. q + 2 : d \in Month(y, m)
      BY <2>1 DEF Days
    <3>2. d.month = m /\ QuarterStartMonth(m) = q
      BY <2>4, <2>5, <3>1
    <3>3. QED
      BY <2>3, <2>5, <3>1, <3>2
  <2>7. Month(y, month) \subseteq days
    BY <2>1, <2>2 DEF Days
  <2> HIDE DEF month
  <2>8. QED
    BY <1>0, <1>4, <2>2, <2>6, <2>7, WeekComes DEF InLastWeek
<1>5. CASE p.interval = "yearly"
  <2>1. days = Days(y, 1 .. 12)
    BY <1>5 DEF Periods, TestIntervals
  <2>2. \A d : IsScheduledOn(p, d) <=> d.month = 1 /\ InItsWeek(p, d)
    BY <1>5 DEF IsScheduledOn, TestIntervals
  <2>3. \A m, d : d \in Month(y, m) => d.month = m
    BY DateFields DEF Month
  <2>4. \A d \in days : IsScheduledOn(p, d) <=> d \in Month(y, 1) /\ InItsWeek(p, d)
    BY <2>1, <2>2, <2>3 DEF Days
  <2>5. 1 \in 1 .. 12 /\ Month(y, 1) \subseteq days
    BY <2>1 DEF Days
  <2>6. QED
    BY <1>0, <1>5, <2>4, <2>5, WeekComes DEF InLastWeek
<1>6. QED
  BY <1>0, <1>1, <1>2, <1>3, <1>4, <1>5 DEF TestIntervals

\* Every period of a node's interval has its backup, whatever its group, its
\* hash and the year: the recurrence leaves out no day, week, month, quarter or
\* year, and gives none two but in the last week of a month.
THEOREM EveryPeriodIsServed == Spec => []CalendarServed
<1>1. PeriodsServed
  <2>1. SUFFICES ASSUME NEW p \in Placements, NEW y \in Years, NEW days \in Periods(p, y)
                 PROVE  /\ ProjectRuns(p, days) # {}
                        /\ ~InLastWeek(p) => Cardinality(ProjectRuns(p, days)) = 1
    BY DEF PeriodsServed
  <2>2. p \in Placement
    BY SlotsAssumption
  <2>3. PICK d \in days :
           /\ IsScheduledOn(p, d)
           /\ ~InLastWeek(p) => \A e \in days : IsScheduledOn(p, e) => e = d
    BY <2>2, OneDayIsScheduled
  <2>4. QED
    BY <2>3, RunsOfDays
<1>2. CalendarServed
  BY <1>1 DEF CalendarServed
<1>3. QED
  BY <1>2, PTL
=============================================================================
