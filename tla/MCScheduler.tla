---------------------------- MODULE MCScheduler ----------------------------
(* Values of Scheduler's constants for TLC: two nodes a and b; and of       *)
(* ScheduleSlots': placements and windows that make a difference.           *)
EXTENDS Scheduler, TLC

CONSTANTS a, b

\* Both are due on the first day; a is ahead of b in the queue.
Due == [n \in Nodes |-> 0]
Queue == a :> 1 @@ b :> 2
Repositories == a :> "shard_0" @@ b :> "shard_1"

Setting(start, end, interval) ==
    [start |-> start, end |-> end, interval |-> interval, concurrency |-> 1,
     bandwidth |-> 2, cooldown |-> 1, meanDuration |-> 1]

\* Backups that may run all day.
Eventful(pausable, losable, requestable, failures) ==
    [pausable |-> pausable, losable |-> losable, requestable |-> requestable,
     healthy |-> {}, pressed |-> {}, failures |-> failures, longest |-> "day"]

\* By day, with a node that is paused, failures that leave no row and a link for
\* one stream; all day and across midnight, with one that is lost; a test group
\* on a link for one stream, with one that is asked for and operators who start
\* them all late in the window.
Busy ==
    {[set |-> [Setting(1, 3, 0) EXCEPT !.bandwidth = 1],
      may |-> Eventful({a}, {}, {}, {"unrecorded"})],
     [set |-> Setting(2, 2, 0), may |-> Eventful({}, {a}, {}, {"recorded"})],
     [set |-> Setting(3, 1, 0), may |-> Eventful({}, {b}, {a}, {"recorded"})],
     [set |-> [Setting(1, 3, 1) EXCEPT !.concurrency = 2, !.bandwidth = 1],
      may |-> [Eventful({a}, {}, {b}, {"recorded"}) EXCEPT !.pressed = {2}]]}

\* A limit of two streams over a link that carries one, a window too short for
\* the queue, a cooldown that outlasts it, and a node that may fail for ever
\* ahead of the healthy one; before and in the window an operator may start the
\* group by hand.
Slow ==
    [set |-> [Setting(1, 3, 0) EXCEPT !.concurrency = 2, !.bandwidth = 1,
                                      !.cooldown = 2, !.meanDuration = 2],
     may |-> [pausable |-> {}, losable |-> {}, requestable |-> {b},
              healthy |-> {b}, pressed |-> {0, 1, 2},
              failures |-> {"recorded"}, longest |-> "slot"]]

\* Every interval that follows the calendar, the first and the last week, and
\* every residue of a hash that makes a difference to it.
Place(interval, week, hashes) ==
    {[interval |-> interval, target_week |-> week, randomize_days |-> TRUE,
      start |-> 1380, end |-> 300, hash |-> h] : h \in hashes}

EveryPlace ==
    Place("10min", 1, {0}) \cup Place("quarterly", 1, 0 .. 83) \cup
    UNION {Place(i, w, 0 .. 6) : i \in {"weekly", "monthly", "yearly"}, w \in {1, 4}}

\* By day, across midnight, all day, not of whole hours, and too short.
SomeWindows == {<<120, 300>>, <<1380, 300>>, <<120, 120>>, <<60, 150>>, <<60, 90>>}

BusyAndSlow == Busy \cup {Slow}
=============================================================================
