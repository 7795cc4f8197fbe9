------------------------------ MODULE Archives -------------------------------
(***************************************************************************)
(* The archives in the repositories and the history rows that speak of     *)
(* them: backups, the nightly prune over all shards and its reconciliation *)
(* of the history, a node's purge and a node's deletion.                   *)
(*                                                                         *)
(* borg's lock makes each of its commands one step; between two commands   *)
(* backups, purges and deletions go on (who may hold the lock when is      *)
(* RepoLock's matter).  A day passes with at most one backup of a node.    *)
(***************************************************************************)
EXTENDS Retention, SequencesExt

CONSTANTS
    Nodes,         \* nodes that exist at the start
    Shards,        \* repositories, in the order the prune visits them
    ShardOf,       \* the repository of each node
    Claims,        \* [node -> the nodes whose archives begin with its name]
    Tables,        \* the orders a query without ORDER BY may return nodes in
    Assignments,   \* the policies the nodes may have
    LastDay,       \* bound on the days
    MaxMishaps     \* bound on lost workers, refused listings and what people delete

ShardSet == {Shards[i] : i \in 1 .. Len(Shards)}

Archive == [node : Nodes, at : Times]

ASSUME ArchivesAssumption ==
    /\ Shards \in Seq(ShardSet)
    /\ Len(Shards) > 0
    /\ ShardOf \in [Nodes -> ShardSet]
    /\ Claims \in [Nodes -> SUBSET Nodes]
    /\ \A n \in Nodes : n \in Claims[n]
    /\ Tables \subseteq [Nodes -> Nat]
    /\ \A p \in Assignments : /\ p \in [Nodes -> {p[n] : n \in Nodes}]
                              /\ \A n \in Nodes : IsPolicy(p[n])
    /\ LastDay \in Nat
    /\ Times = 1 .. LastDay
    /\ MaxMishaps \in Nat

VARIABLES
    policy,      \* each node's resolved retention rules
    day,
    ran,         \* the day of each node's last archive
    nodes,       \* nodes in the database
    leaving,     \* nodes whose deletion has begun
    stored,      \* archives in the repositories
    rows,        \* archives with a SUCCESS row
    marker,      \* Node.last_backup, 0 for none
    written,     \* archives whose row is yet to be written
    pc, turn,    \* where the nightly prune is, and at which shard
    plan,        \* archives it is about to delete
    surviving,   \* archives it has listed after its deletions
    complete,    \* whether every shard could be listed
    stale,       \* rows the reconciliation is about to delete
    newest,      \* the newest row it has counted for each node
    marked,      \* nodes whose marker it is about to set
    purging,     \* nodes with a purge under way
    doomed,      \* the archives each purge has yet to delete
    made,        \* history: every archive ever made
    late,        \* history: archives made tonight, since their shard was listed
    touched,     \* history: nodes that have lost an archive to people
    mishaps

fleetVars == <<policy, day, ran, nodes, leaving>>
dbVars == <<rows, marker, written>>
pruneVars == <<pc, turn, plan, surviving, complete, stale, newest, marked>>
purgeVars == <<purging, doomed>>
repoVars == <<stored, made, late, touched>>

vars == <<fleetVars, dbVars, pruneVars, purgeVars, repoVars, mishaps>>

Init ==
    /\ policy \in Assignments
    /\ day = 0
    /\ ran = [n \in Nodes |-> 0]
    /\ nodes = Nodes
    /\ leaving = {}
    /\ stored = {}
    /\ rows = {}
    /\ marker = [n \in Nodes |-> 0]
    /\ written = {}
    /\ pc = "idle"
    /\ turn = 1
    /\ plan = {}
    /\ surviving = {}
    /\ complete = TRUE
    /\ stale = {}
    /\ newest = [n \in Nodes |-> 0]
    /\ marked = {}
    /\ purging = {}
    /\ doomed = [n \in Nodes |-> {}]
    /\ made = {}
    /\ late = {}
    /\ touched = {}
    /\ mishaps = 0

OfNode(archives, n) == {a \in archives : a.node = n}

InShard(archives, s) == {a \in archives : ShardOf[a.node] = s}

\* The archives of a repository whose names begin with the node's and a dash.
Prefixed(archives, n) ==
    {a \in InShard(archives, ShardOf[n]) : a.node \in Claims[n]}

Mishap ==
    /\ mishaps < MaxMishaps
    /\ mishaps' = mishaps + 1

\* Somebody, not the policy, has archives deleted.
TakeAway(gone) ==
    /\ stored' = stored \ gone
    /\ touched' = touched \cup {a.node : a \in gone}
    /\ UNCHANGED <<made, late>>

----------------------------------------------------------------------------
(* Backups.                                                                *)

NextDay ==
    /\ day < LastDay
    /\ day' = day + 1
    /\ UNCHANGED <<policy, ran, nodes, leaving, dbVars, pruneVars, purgeVars,
                   repoVars, mishaps>>

\* borg commits the archive on the node's side of the connection; a node runs
\* one backup at a time.
BorgCommits(n) ==
    /\ n \in nodes
    /\ ran[n] < day
    /\ OfNode(written, n) = {}
    /\ ran' = [ran EXCEPT ![n] = day]
    /\ LET a == [node |-> n, at |-> day]
       IN  /\ stored' = stored \cup {a}
           /\ written' = written \cup {a}
           /\ made' = made \cup {a}
           /\ late' = IF pc = "idle" THEN late ELSE late \cup {a}
    /\ UNCHANGED <<policy, day, nodes, leaving, rows, marker, pruneVars, purgeVars,
                   touched, mishaps>>

\* The SUCCESS row and the node's marker, in one transaction.
RecordSuccess(a) ==
    /\ a \in written
    /\ a.node \in nodes
    /\ rows' = rows \cup {a}
    /\ marker' = [marker EXCEPT ![a.node] = a.at]
    /\ written' = written \ {a}
    /\ UNCHANGED <<fleetVars, pruneVars, purgeVars, repoVars, mishaps>>

\* The worker is lost first, or the node is not there any more.
RecordLost(a) ==
    /\ a \in written
    /\ \/ a.node \notin nodes /\ UNCHANGED mishaps
       \/ Mishap
    /\ written' = written \ {a}
    /\ UNCHANGED <<fleetVars, rows, marker, pruneVars, purgeVars, repoVars>>

\* Somebody runs borg on the server.
DeletedByHand(a) ==
    /\ a \in stored
    /\ Mishap
    /\ TakeAway({a})
    /\ UNCHANGED <<fleetVars, dbVars, pruneVars, purgeVars>>

----------------------------------------------------------------------------
(* The nightly prune.                                                      *)

PruneBegins ==
    /\ pc = "idle"
    /\ pc' = "list"
    /\ turn' = 1
    /\ surviving' = {}
    /\ complete' = TRUE
    /\ late' = {}
    /\ UNCHANGED <<plan, stale, newest, marked, fleetVars, dbVars, purgeVars, stored,
                   made, touched, mishaps>>

\* (mutant) One shard too many.
NextShardBeyond ==
    /\ turn' = turn + 1
    /\ pc' = IF turn <= Len(Shards) THEN "list"
             ELSE IF complete' THEN "select" ELSE "idle"

\* After the last shard, the history, if all of them could be listed.
NextShard ==
    /\ turn' = turn + 1
    /\ pc' = IF turn < Len(Shards) THEN "list"
             ELSE IF complete' THEN "select" ELSE "idle"

\* A shard under maintenance, or one that borg will not list.
ShardSkipped ==
    /\ pc = "list"
    /\ Mishap
    /\ complete' = FALSE
    /\ NextShard
    /\ UNCHANGED <<plan, surviving, stale, newest, marked, fleetVars, dbVars,
                   purgeVars, repoVars>>

\* A node's archives are those its name is the first in the table to fit.
ClaimedBy(archives, n, table) ==
    {a \in archives :
        /\ a.node \in Claims[n]
        /\ \A m \in nodes : a.node \in Claims[m] => table[n] <= table[m]}

\* (mutant) The policy alone decides.
PlanWithoutBackstop(archives, table) ==
    UNION {LET own == ClaimedBy(archives, n, table)
           IN  own \ Select(own, policy[n], day) : n \in nodes}

\* (mutant) The clock is ahead of the one that dates the archives.
PlanWithClockAhead(archives, table) ==
    UNION {LET own == ClaimedBy(archives, n, table)
           IN  own \ (Select(own, policy[n], day + 1) \cup Newest(own)) : n \in nodes}

\* plan_deletions: what the policies do not keep, the newest archive of each
\* node excepted.
PlanDeletions(archives, table) ==
    UNION {LET own == ClaimedBy(archives, n, table)
           IN  own \ (Select(own, policy[n], day) \cup Newest(own)) : n \in nodes}

ListShard ==
    /\ pc = "list"
    /\ \E table \in Tables :
          plan' = PlanDeletions(InShard(stored, Shards[turn]), table)
    /\ pc' = "delete"
    /\ UNCHANGED <<turn, surviving, complete, stale, newest, marked, fleetVars,
                   dbVars, purgeVars, repoVars, mishaps>>

\* The batches and the compaction; the batches that fail take nothing with them.
DeleteBatches ==
    /\ pc = "delete"
    /\ \E gone \in SUBSET plan : stored' = stored \ gone
    /\ pc' = "relist"
    /\ UNCHANGED <<turn, plan, surviving, complete, stale, newest, marked, fleetVars,
                   dbVars, purgeVars, made, late, touched, mishaps>>

\* (mutant) What survives is taken to be what was not planned for deletion.
RelistFromPlan ==
    /\ pc = "relist"
    /\ surviving' = surviving \cup (InShard(stored, Shards[turn]) \ plan)
    /\ late' = late \ InShard(late, Shards[turn])
    /\ UNCHANGED complete
    /\ NextShard
    /\ plan' = {}
    /\ UNCHANGED <<stale, newest, marked, fleetVars, dbVars, purgeVars, stored, made,
                   touched, mishaps>>

\* The shard is listed again, and its maintenance flag released.
Relist ==
    /\ pc = "relist"
    /\ surviving' = surviving \cup InShard(stored, Shards[turn])
    /\ late' = late \ InShard(late, Shards[turn])
    /\ UNCHANGED complete
    /\ NextShard
    /\ plan' = {}
    /\ UNCHANGED <<stale, newest, marked, fleetVars, dbVars, purgeVars, stored, made,
                   touched, mishaps>>

RelistFails ==
    /\ pc = "relist"
    /\ Mishap
    /\ complete' = FALSE
    /\ NextShard
    /\ plan' = {}
    /\ UNCHANGED <<surviving, stale, newest, marked, fleetVars, dbVars, purgeVars,
                   repoVars>>

----------------------------------------------------------------------------
(* _reconcile_history_with_repo: one transaction, each of whose queries     *)
(* sees what the others have committed by then.                             *)

SelectStale ==
    /\ pc = "select"
    /\ stale' = rows \ surviving
    /\ pc' = "count"
    /\ UNCHANGED <<turn, plan, surviving, complete, newest, marked, fleetVars, dbVars,
                   purgeVars, repoVars, mishaps>>

TimeOfNewest(archives) ==
    IF archives = {} THEN 0 ELSE (CHOOSE a \in Newest(archives) : TRUE).at

CountSurvivors ==
    /\ pc = "count"
    /\ newest' = [n \in Nodes |-> TimeOfNewest(OfNode(rows \ stale, n))]
    /\ pc' = "mark"
    /\ UNCHANGED <<turn, plan, surviving, complete, stale, marked, fleetVars, dbVars,
                   purgeVars, repoVars, mishaps>>

\* (mutant) Only nodes that lose a row in this run are looked at.
ReadMarkersOfCasualties ==
    /\ pc = "mark"
    /\ marked' = {n \in nodes : /\ marker[n] \notin {0, newest[n]}
                                /\ OfNode(stale, n) # {}}
    /\ pc' = "commit"
    /\ UNCHANGED <<turn, plan, surviving, complete, stale, newest, fleetVars, dbVars,
                   purgeVars, repoVars, mishaps>>

\* Every node with a marker other than its newest row.
ReadMarkers ==
    /\ pc = "mark"
    /\ marked' = {n \in nodes : marker[n] \notin {0, newest[n]}}
    /\ pc' = "commit"
    /\ UNCHANGED <<turn, plan, surviving, complete, stale, newest, fleetVars, dbVars,
                   purgeVars, repoVars, mishaps>>

Reconcile ==
    /\ pc = "commit"
    /\ rows' = rows \ stale
    /\ marker' = [n \in Nodes |-> IF n \in marked \cap nodes THEN newest[n]
                                                           ELSE marker[n]]
    /\ pc' = "idle"
    /\ turn' = 1
    /\ surviving' = {}
    /\ stale' = {}
    /\ newest' = [n \in Nodes |-> 0]
    /\ marked' = {}
    /\ late' = {}
    /\ UNCHANGED <<plan, complete, fleetVars, written, purgeVars, stored, made, touched,
                   mishaps>>

----------------------------------------------------------------------------
(* A node's purge, and its deletion.                                       *)

\* purge_node_archives lists the node's archives.
PurgeLists(n) ==
    /\ n \in nodes \ purging
    /\ Mishap
    /\ purging' = purging \cup {n}
    /\ doomed' = [doomed EXCEPT ![n] = Prefixed(stored, n)]
    /\ UNCHANGED <<fleetVars, dbVars, pruneVars, repoVars>>

\* Each is deleted by a borg of its own, which may fail.
PurgeDeletes(n, a) ==
    /\ a \in doomed[n]
    /\ TakeAway({a}) \/ UNCHANGED repoVars
    /\ doomed' = [doomed EXCEPT ![n] = @ \ {a}]
    /\ UNCHANGED <<fleetVars, dbVars, pruneVars, purging, mishaps>>

\* _forget_node_backups, whatever could be deleted.
Forget(n) ==
    /\ n \in purging
    /\ doomed[n] = {}
    /\ rows' = rows \ OfNode(rows, n)
    /\ marker' = [marker EXCEPT ![n] = 0]
    /\ purging' = purging \ {n}
    /\ UNCHANGED <<fleetVars, written, pruneVars, doomed, repoVars, mishaps>>

\* delete_node: `borg delete --glob-archives`, which may fail ...
NodeArchivesGo(n) ==
    /\ n \in nodes \ leaving
    /\ Mishap
    /\ \E gone \in {Prefixed(stored, n), {}} : TakeAway(gone)
    /\ leaving' = leaving \cup {n}
    /\ UNCHANGED <<policy, day, ran, nodes, dbVars, pruneVars, purgeVars>>

\* ... and then the rows and the node, in one transaction.
DeleteNode(n) ==
    /\ n \in nodes \cap leaving
    /\ rows' = rows \ OfNode(rows, n)
    /\ marker' = [marker EXCEPT ![n] = 0]
    /\ nodes' = nodes \ {n}
    /\ UNCHANGED <<policy, day, ran, leaving, written, pruneVars, purgeVars, repoVars,
                   mishaps>>

----------------------------------------------------------------------------
PruneStep ==
    \/ ListShard \/ DeleteBatches \/ Relist
    \/ SelectStale \/ CountSurvivors \/ ReadMarkers \/ Reconcile

Deletion(n) ==
    \/ Forget(n)
    \/ DeleteNode(n)
    \/ \E a \in doomed[n] : PurgeDeletes(n, a)

Next ==
    \/ NextDay
    \/ \E n \in Nodes : BorgCommits(n)
    \/ \E a \in written : RecordSuccess(a) \/ RecordLost(a)
    \/ \E a \in stored : DeletedByHand(a)
    \/ PruneBegins
    \/ ShardSkipped
    \/ RelistFails
    \/ PruneStep
    \/ \E n \in Nodes : PurgeLists(n) \/ NodeArchivesGo(n) \/ Deletion(n)

Spec == Init /\ [][Next]_vars

\* Celery beat starts the prune every night, a worker that lives finishes what
\* it has begun, and a deletion that failed half way is asked for again.
Fairness ==
    /\ WF_vars(PruneBegins \/ PruneStep)
    /\ \A n \in Nodes :
          /\ WF_vars(Deletion(n))
          /\ WF_vars(\E a \in OfNode(written, n) : RecordSuccess(a) \/ RecordLost(a))

FairSpec == Spec /\ Fairness

----------------------------------------------------------------------------
(* Properties.                                                             *)

FleetType ==
    /\ policy \in Assignments
    /\ day \in 0 .. LastDay
    /\ ran \in [Nodes -> 0 .. LastDay]
    /\ nodes \subseteq Nodes
    /\ leaving \subseteq Nodes

DbType ==
    /\ rows \subseteq Archive
    /\ marker \in [Nodes -> 0 .. LastDay]
    /\ written \subseteq Archive

PruneType ==
    /\ pc \in {"idle", "list", "delete", "relist", "select", "count", "mark",
               "commit"}
    /\ turn \in 1 .. Len(Shards) + 1
    /\ pc \in {"list", "delete", "relist"} => turn <= Len(Shards)
    /\ plan \subseteq Archive
    /\ surviving \subseteq Archive
    /\ complete \in BOOLEAN
    /\ stale \subseteq Archive
    /\ newest \in [Nodes -> 0 .. LastDay]
    /\ marked \subseteq Nodes

PurgeType ==
    /\ purging \subseteq Nodes
    /\ doomed \in [Nodes -> SUBSET Archive]

RepoType ==
    /\ stored \subseteq Archive
    /\ made \subseteq Archive
    /\ late \subseteq Archive
    /\ touched \subseteq Nodes

\* Every variable is in its set; a prune at work is at one of its shards.
TypeOK ==
    /\ FleetType
    /\ DbType
    /\ PruneType
    /\ PurgeType
    /\ RepoType
    /\ mishaps \in 0 .. MaxMishaps

\* A hostname that fits no other node's archives, and that no other fits.
Unambiguous(n) == \A m \in Nodes : m \in Claims[n] \/ n \in Claims[m] => m = n

\* The reconciliation drops the row of an archive that is in its repository only
\* if the archive was made after the repository was last listed: neither another
\* shard's listing, nor one that failed, nor a deletion that did, costs a row.
ReconcileSparesListed ==
    [][pc = "commit" /\ pc' = "idle" =>
          \A a \in rows \ rows' : a \in stored => a \in late]_vars

\* Whatever the policy, and whatever has been backed up since the decision, the
\* prune never deletes the newest archive of a node, if people have not deleted
\* one that was newer.
NewestKept ==
    [][pc = "delete" /\ pc' = "relist" =>
          \A n \in Nodes \ touched :
              Unambiguous(n) => Newest(OfNode(stored, n)) \subseteq stored']_vars

\* Pruning night after night loses nothing of what the policy would keep of all
\* the archives ever made, had they been left alone until now.
NightsLoseNothing ==
    \A n \in nodes \ touched :
        Unambiguous(n) => Select(OfNode(made, n), policy[n], day) \subseteq stored

\* By each rule of its policy a node has as many archives as the rule counts, or
\* else the newest of every period in which it ever made one and the first of all.
QuotaHeld ==
    \A n \in nodes \ touched :
        \A rule \in Rules \cap DOMAIN policy[n] :
            LET count == policy[n][rule]
                own == OfNode(made, n)
                left == OfNode(stored, n)
            IN  Unambiguous(n) /\ count > 0 =>
                    \/ Cardinality(left) >= count
                    \/ Heads(own, rule) \cup Oldest(own) \subseteq left

\* Once backups and deletions cease, every row comes to have its archive, and a
\* marker, where there is one, to be the newest row.
HistoryConverges ==
    <>[]/\ rows \subseteq stored
        /\ \A n \in nodes :
              marker[n] # 0 => marker[n] = TimeOfNewest(OfNode(rows, n))
=============================================================================
