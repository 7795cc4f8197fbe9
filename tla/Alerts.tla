------------------------------- MODULE Alerts -------------------------------
(***************************************************************************)
(* The alerts of a fleet (core/alerts.py, tasks/alerts.py and              *)
(* core/alert_sources), and the operators who acknowledge them             *)
(* (routers/notifications.py), over the nodes of NodeLife.                 *)
(*                                                                         *)
(* A sweep asks each source what is wrong now, reads the alerts that are   *)
(* not resolved, and commits the difference; whoever wrote in between is   *)
(* overwritten attribute by attribute, or makes the whole commit fail.     *)
(***************************************************************************)
EXTENDS NodeLife

CONSTANTS
    Sources,     \* of {"node_offline", "stale_backup", "graded"}
    Sweepers     \* evaluations of alerts that may be at work at once

ASSUME AlertsAssumption ==
    /\ Sources \subseteq {"node_offline", "stale_backup", "graded"}
    /\ IsFiniteSet(Sweepers)
    /\ \A s \in Scenes : s.sources \subseteq Sources /\ s.sweepers \subseteq Sweepers

VARIABLES
    enabled,    \* sources that are switched on
    grade,      \* of a node's drives, its thermal state, or free space
    backedUp,   \* nodes with a backup young enough
    alert,      \* the row of a key that is not RESOLVED, or NoRow
    lock,       \* who holds alert_eval_lock
    sweep,      \* what each sweep has read
    acking      \* what an operator's request has read, per key

alertVars == <<enabled, grade, backedUp, alert, lock, sweep, acking>>
vars == <<nodeVars, alertVars>>

Keys == Sources \X Nodes
SeverityRank == [none |-> 0, WATCH |-> 1, ALERT |-> 2]

\* `aged`: first_seen is as many days ago as the threshold asks.  An id is only
\* as unique as those who still hold a copy need it.
NoRow == [state |-> "none"]
Row(id, state, severity, aged) ==
    [id |-> id, state |-> state, severity |-> severity, aged |-> aged]
Live(k) == alert[k] # NoRow
Resting == [stage |-> "idle"]

AlertInit ==
    /\ enabled = scene.sources
    /\ grade = [n \in Nodes |-> "none"]
    /\ backedUp = {n \in Nodes : status[n] = "READY"}
    /\ alert = [k \in Keys |-> NoRow]
    /\ lock = "nobody"
    /\ sweep = [s \in Sweepers |-> Resting]
    /\ acking = alert

----------------------------------------------------------------------------
(* The sources.                                                            *)

\* An OFFLINE node is worth a WATCH, an ALERT when its own alert is old enough.
NodeOffline(n) ==
    IF status[n] # "OFFLINE" THEN "none"
    ELSE IF Live(<<"node_offline", n>>) /\ alert[<<"node_offline", n>>].aged
         THEN "ALERT" ELSE "WATCH"

\* No backup for days, or never any although the node is READY.
StaleBackup(n) == IF status[n] = "READY" /\ n \notin backedUp THEN "ALERT" ELSE "none"

\* smart, thermal and storage: what the last measurement was graded.
Graded(n) == IF Exists(n) THEN grade[n] ELSE "none"

Candidate(k) ==
    IF k[1] \notin enabled THEN "none"
    ELSE CASE k[1] = "node_offline" -> NodeOffline(k[2])
           [] k[1] = "stale_backup" -> StaleBackup(k[2])
           [] OTHER -> Graded(k[2])

----------------------------------------------------------------------------
(* The sweep.                                                              *)

\* evaluate_alerts_task takes the lock and asks the sources.  One that raises
\* is left out, and its silence says nothing.
SweepBegins(s) ==
    /\ s \in scene.sweepers /\ sweep[s] = Resting
    /\ lock = "nobody"
    /\ lock' = s
    /\ \E raised \in {{}} \cup {{x} : x \in scene.sources} :
          /\ IF raised = {} THEN UNCHANGED bounds ELSE Fault
          /\ sweep' = [sweep EXCEPT ![s] =
                [stage |-> "evaluated", heard |-> Sources \ raised,
                 found |-> [k \in Keys |-> IF k[1] \in raised THEN "none" ELSE Candidate(k)]]]
    /\ UNCHANGED <<nodeState, enabled, grade, backedUp, alert, acking>>

\* sync reads every alert that is not RESOLVED.
SweepReads(s) ==
    /\ sweep[s].stage = "evaluated"
    /\ sweep' = [sweep EXCEPT ![s] =
          [stage |-> "read", heard |-> @.heard, found |-> @.found, rows |-> alert]]
    /\ UNCHANGED <<nodeVars, enabled, grade, backedUp, alert, lock, acking>>

\* What has become of a row somebody read.
Fate(k, row) ==
    IF row.state \in {"none", "deleted"} THEN row.state
    ELSE IF Live(k) /\ alert[k].id = row.id THEN "live" ELSE "resolved"

\* What the sweep makes of a key, by what it read: the attributes it writes.
Escalates(w, k) == SeverityRank[w.found[k]] > SeverityRank[w.rows[k].severity]
Opens(w, k) == w.rows[k] = NoRow /\ w.found[k] # "none"
Updates(w, k) == w.rows[k] # NoRow /\ w.found[k] # "none"
ResolvesOpen(w, k) ==        \* (mutant) an acknowledged alert is left alone
    /\ w.rows[k].state = "OPEN" /\ w.found[k] = "none" /\ k[1] \in w.heard
Resolves(w, k) == w.rows[k] # NoRow /\ w.found[k] = "none" /\ k[1] \in w.heard
Reopens(w, k) == Updates(w, k) /\ w.rows[k].state = "ACKNOWLEDGED" /\ Escalates(w, k)

\* The statements of the commit that the database refuses: a second live row
\* for a key, a row of a node that is gone, a row that is gone itself.
Refused(w, k) ==
    \/ Opens(w, k) /\ (Live(k) \/ ~Exists(k[2]))
    \/ (Updates(w, k) \/ Resolves(w, k)) /\ Fate(k, w.rows[k]) = "deleted"
    \/ Reopens(w, k) /\ Fate(k, w.rows[k]) = "resolved" /\ Live(k)

Ids == 0..(Cardinality(Sweepers) + 2)
Fresh(k) == CHOOSE i \in Ids :
    \A row \in {acking[k]} \cup {sweep[s].rows[k] : s \in {x \in Sweepers : sweep[x].stage = "read"}} :
        row = NoRow \/ row.id # i

\* The row of k afterwards.  A reopening brings even a resolved row back; an
\* escalation leaves the state as somebody else may have set it meanwhile.
Written(w, k) ==
    LET live == Fate(k, w.rows[k]) = "live"
    IN  CASE Opens(w, k) -> Row(Fresh(k), "OPEN", w.found[k], FALSE)
          [] Resolves(w, k) /\ live -> NoRow
          [] Reopens(w, k) ->
                [(IF live THEN alert[k] ELSE w.rows[k]) EXCEPT !.state = "OPEN",
                                                               !.severity = w.found[k]]
          [] Updates(w, k) /\ live /\ Escalates(w, k) ->
                [alert[k] EXCEPT !.severity = w.found[k]]
          [] OTHER -> alert[k]

Release(s) == IF lock = s THEN "nobody" ELSE lock

\* sync's commit, and the compare-and-delete of the lock.  Who is told of it is
\* settled after the commit and leaves no state.
SweepCommits(s) ==
    /\ sweep[s].stage = "read"
    /\ LET w == sweep[s]
       IN  alert' = IF \E k \in Keys : Refused(w, k) THEN alert
                    ELSE [k \in Keys |-> Written(w, k)]
    /\ sweep' = [sweep EXCEPT ![s] = Resting]
    /\ lock' = Release(s)
    /\ UNCHANGED <<nodeVars, enabled, grade, backedUp, acking>>

\* The worker dies; its lock stays until its TTL.
SweepDies(s) ==
    /\ Fault
    /\ sweep[s] # Resting
    /\ sweep' = [sweep EXCEPT ![s] = Resting]
    /\ UNCHANGED <<nodeState, enabled, grade, backedUp, alert, lock, acking>>

\* The TTL, which a sweep of a large fleet may outlast.
LockLapses ==
    /\ lock # "nobody"
    /\ IF sweep[lock] = Resting THEN UNCHANGED bounds ELSE Fault
    /\ lock' = "nobody"
    /\ UNCHANGED <<nodeState, enabled, grade, backedUp, alert, sweep, acking>>

----------------------------------------------------------------------------
(* Operators and the world.                                                *)

\* acknowledge_alert finds the row unresolved...
AcknowledgeReads(k) ==
    /\ Request
    /\ acking[k] = NoRow /\ Live(k)
    /\ acking' = [acking EXCEPT ![k] = alert[k]]
    /\ UNCHANGED <<nodeState, enabled, grade, backedUp, alert, lock, sweep>>

\* ... and writes ACKNOWLEDGED to it, resolved or not.  With a newer row in its
\* place, or none at all, the request fails.
AcknowledgeWrites(k) ==
    /\ acking[k] # NoRow
    /\ LET fate == Fate(k, acking[k])
       IN  alert' = [alert EXCEPT ![k] =
              CASE fate = "live" -> [@ EXCEPT !.state = "ACKNOWLEDGED"]
                [] fate = "resolved" /\ ~Live(k) -> [acking[k] EXCEPT !.state = "ACKNOWLEDGED"]
                [] OTHER -> @]
    /\ acking' = [acking EXCEPT ![k] = NoRow]
    /\ UNCHANGED <<nodeVars, enabled, grade, backedUp, lock, sweep>>

\* The settings page.
Switch(x) ==
    /\ Request
    /\ x \in scene.sources
    /\ enabled' = IF x \in enabled THEN enabled \ {x} ELSE enabled \cup {x}
    /\ UNCHANGED <<nodeState, grade, backedUp, alert, lock, sweep, acking>>

\* A harvest, a full disk, a backup, a backup that grew old.
Measure(n) ==
    /\ Request
    /\ Exists(n) /\ "graded" \in scene.sources
    /\ \E g \in {"none", "WATCH", "ALERT"} \ {grade[n]} : grade' = [grade EXCEPT ![n] = g]
    /\ UNCHANGED <<nodeState, enabled, backedUp, alert, lock, sweep, acking>>

BackUp(n) ==
    /\ status[n] = "READY" /\ n \in up /\ n \notin backedUp /\ "stale_backup" \in scene.sources
    /\ backedUp' = backedUp \cup {n}
    /\ UNCHANGED <<nodeVars, enabled, grade, alert, lock, sweep, acking>>

GrowOld(n) ==
    /\ Fault
    /\ n \in backedUp /\ "stale_backup" \in scene.sources
    /\ backedUp' = backedUp \ {n}
    /\ UNCHANGED <<nodeState, enabled, grade, alert, lock, sweep, acking>>

DaysPass(k) ==
    /\ Live(k) /\ ~alert[k].aged
    /\ k[1] = "node_offline"
    /\ alert' = [alert EXCEPT ![k].aged = TRUE]
    /\ UNCHANGED <<nodeVars, enabled, grade, backedUp, lock, sweep, acking>>

\* delete_node takes the alerts of the node with it, under the hands of others.
Orphaned(rows, n) ==
    [k \in Keys |-> IF k[2] = n /\ rows[k] # NoRow THEN [rows[k] EXCEPT !.state = "deleted"]
                                                  ELSE rows[k]]
Forget(n) ==
    /\ DeleteNode(n)
    /\ alert' = [k \in Keys |-> IF k[2] = n THEN NoRow ELSE alert[k]]
    /\ grade' = [grade EXCEPT ![n] = "none"]
    /\ backedUp' = backedUp \ {n}
    /\ sweep' = [s \in Sweepers |->
          IF sweep[s].stage # "read" THEN sweep[s]
          ELSE [sweep[s] EXCEPT !.rows = Orphaned(@, n)]]
    /\ acking' = Orphaned(acking, n)
    /\ UNCHANGED <<enabled, lock>>

SweepStep == \E s \in Sweepers : SweepBegins(s) \/ SweepReads(s) \/ SweepCommits(s)

AlertNext ==
    \/ SweepStep \/ LockLapses
    \/ \E s \in Sweepers : SweepDies(s)
    \/ \E k \in Keys : AcknowledgeReads(k) \/ AcknowledgeWrites(k) \/ DaysPass(k)
    \/ \E x \in Sources : Switch(x)
    \/ \E n \in Nodes : Measure(n) \/ BackUp(n) \/ GrowOld(n) \/ Forget(n)

Next ==
    \/ NodeNext /\ UNCHANGED alertVars
    \/ AlertNext

\* The beat evaluates every hour, a lock expires, days pass.
Fairness ==
    /\ NodeFairness
    /\ \A s \in Sweepers : WF_vars(SweepBegins(s)) /\ WF_vars(SweepReads(s) \/ SweepCommits(s))
    /\ WF_vars(LockLapses)
    /\ \A k \in Keys : WF_vars(AcknowledgeWrites(k)) /\ WF_vars(DaysPass(k))

Init == NodeInit /\ AlertInit
Spec == Init /\ [][Next]_vars /\ Fairness

----------------------------------------------------------------------------
(* Properties.                                                             *)

\* Alerts follow the fleet.  What stays wrong ends up with a live alert, of
\* full severity when it is a node's absence or a missing backup, and what is
\* put right ends up without one: through overlapping sweeps, dead ones, ones
\* that miss a source, acknowledgements that come late, and nodes deleted under
\* the hands of a sweep.
AlertsFollowTheFleet ==
    \A k \in Keys :
        /\ <>[](Candidate(k) # "none") => <>[](Live(k) /\ SeverityRank[alert[k].severity]
                                                           >= SeverityRank[Candidate(k)])
        /\ <>[](status[k[2]] = "OFFLINE" /\ k[1] = "node_offline" /\ k[1] \in enabled)
               => <>[](Live(k) /\ alert[k].severity = "ALERT")
        /\ <>[](Candidate(k) = "none") => <>[]~Live(k)
=============================================================================
