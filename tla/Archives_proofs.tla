--------------------------- MODULE Archives_proofs ---------------------------
(***************************************************************************)
(* Safety of Archives for every fleet, shards, policies and number of      *)
(* days.                                                                   *)
(*                                                                         *)
(* TypeOK is inductive by itself, but that a node's newest row is a day    *)
(* takes the existence of a latest day. The action properties need to know *)
(* what the prune still has to be right about: ListedInv, that what is     *)
(* stored has been listed since or is late; DecidedInv, that what it is    *)
(* about to delete has something newer beside it.                          *)
(*                                                                         *)
(* NightsLoseNothing and QuotaHeld rest on RetainedInv: what the policy    *)
(* would keep of all archives ever made is stored and not planned for      *)
(* deletion. A prune plans from what is stored by then and deletes later,  *)
(* with backups in between, and what it spares is the selection of what it *)
(* saw; that this is all the selection of what there ever was, and stays   *)
(* so when a newer archive comes, is Retention_proofs.                     *)
(***************************************************************************)
EXTENDS Archives, Retention_proofs

\* All that is stored in the shards done with is listed, or made since.
ListedInv ==
    /\ pc # "idle" /\ complete =>
          \A i \in 1 .. turn - 1 : InShard(stored, Shards[i]) \subseteq surviving \cup late
    /\ pc \in {"select", "count", "mark", "commit"} =>
          complete /\ turn = Len(Shards) + 1
    /\ pc \in {"count", "mark", "commit"} => stale \cap stored \subseteq late

\* An archive about to be deleted has a newer one of its node.
DecidedInv ==
    pc = "delete" =>
        \A a \in plan :
            Unambiguous(a.node) /\ a.node \notin touched =>
                \E b \in stored : b.node = a.node /\ b.at > a.at

\* Archives are stored or planned for deletion after they were made, and made
\* before today.
DatedInv ==
    /\ stored \cup plan \subseteq made
    /\ \A a \in made : a.at <= ran[a.node]
    /\ \A n \in Nodes : ran[n] <= day

\* What a policy would keep of all the archives ever made is there, and no plan
\* touches it.
RetainedInv ==
    \A n \in Nodes \ touched :
        Unambiguous(n) =>
            LET keep == Select(OfNode(made, n), policy[n], day)
            IN  keep \subseteq stored /\ keep \cap plan = {}

----------------------------------------------------------------------------
(* Operators.                                                              *)

\* Of some archives, one has none newer.
LEMMA NewestExists ==
    ASSUME NEW archives \in SUBSET Archive, archives # {}
    PROVE  Newest(archives) # {}
<1> DEFINE T == {LastDay - a.at : a \in archives}
<1>1. \A a \in archives : a.at \in 1 .. LastDay
    BY ArchivesAssumption DEF Archive
<1>2. T \in SUBSET Nat /\ T # {}
    BY <1>1, ArchivesAssumption
<1>3. PICK x \in T : \A y \in T : x <= y
    <2> HIDE DEF T
    <2>. QED
        BY <1>2, LeastNumber
<1>4. PICK a \in archives : x = LastDay - a.at
    BY <1>3
<1>5. ASSUME NEW b \in archives PROVE ~ (b.at > a.at)
    <2>1. x <= LastDay - b.at
        BY <1>3
    <2>. QED
        BY <2>1, <1>1, <1>4, ArchivesAssumption
<1>. QED
    BY <1>5 DEF Newest, Newer

\* The newest row of a node, or none, is a day.
LEMMA TimeOfNewestType ==
    ASSUME NEW archives \in SUBSET Archive
    PROVE  TimeOfNewest(archives) \in 0 .. LastDay
<1>1. CASE archives = {}
    BY <1>1, ArchivesAssumption DEF TimeOfNewest
<1>2. CASE archives # {}
    <2>1. PICK a \in Newest(archives) : a = CHOOSE b \in Newest(archives) : TRUE
        BY <1>2, NewestExists
    <2>2. a.at \in 1 .. LastDay
        BY ArchivesAssumption DEF Newest, Archive
    <2>. QED
        BY <1>2, <2>1, <2>2, ArchivesAssumption DEF TimeOfNewest
<1>. QED
    BY <1>1, <1>2

\* What is to be deleted is there, and of a node whose name is not part of
\* another's it leaves something newer.
LEMMA PlanLeavesNewer ==
    ASSUME NEW archives \in SUBSET Archive, NEW table, nodes \subseteq Nodes,
           NEW a \in PlanDeletions(archives, table)
    PROVE  /\ a \in archives
           /\ Unambiguous(a.node) => \E b \in archives : b.node = a.node /\ b.at > a.at
<1>1. PICK n \in nodes : /\ a \in ClaimedBy(archives, n, table)
                         /\ a \notin Newest(ClaimedBy(archives, n, table))
    BY DEF PlanDeletions
<1>2. a \in archives /\ a.node \in Claims[n]
    BY <1>1 DEF ClaimedBy
<1>3. PICK b \in ClaimedBy(archives, n, table) : b.at > a.at
    BY <1>1 DEF Newest, Newer
<1>4. b \in archives /\ b.node \in Claims[n]
    BY <1>3 DEF ClaimedBy
<1>5. a.node \in Nodes /\ b.node \in Nodes /\ n \in Nodes
    BY <1>2, <1>4 DEF Archive
<1>6. Unambiguous(a.node) => n = a.node /\ b.node = n
    BY <1>2, <1>4, <1>5 DEF Unambiguous
<1>. QED
    BY <1>2, <1>3, <1>4, <1>6

----------------------------------------------------------------------------
(* Type correctness.                                                       *)

\* The bounds, without the rest of the assumptions.
LEMMA Bounds ==
    /\ LastDay \in Nat
    /\ Archive = [node : Nodes, at : 1 .. LastDay]
    /\ Len(Shards) \in Nat \ {0}
    /\ MaxMishaps \in Nat
BY ArchivesAssumption DEF Archive

\* Type correctness: every step of every actor keeps each variable in its set.
THEOREM TypeCorrect == Spec => []TypeOK
<1> USE Bounds
<1>1. Init => TypeOK
    BY DEF Init, TypeOK, FleetType, DbType, PruneType, PurgeType, RepoType
<1>2. TypeOK /\ [Next]_vars => TypeOK'
    <2> SUFFICES ASSUME TypeOK, [Next]_vars PROVE TypeOK'
        OBVIOUS
    <2>a. FleetType /\ DbType /\ PruneType /\ PurgeType /\ RepoType
        BY DEF TypeOK
    <2>b. /\ UNCHANGED fleetVars => FleetType'
          /\ UNCHANGED dbVars => DbType'
          /\ UNCHANGED pruneVars => PruneType'
          /\ UNCHANGED purgeVars => PurgeType'
          /\ UNCHANGED repoVars => RepoType'
        BY <2>a DEF fleetVars, dbVars, pruneVars, purgeVars, repoVars,
                    FleetType, DbType, PruneType, PurgeType, RepoType
    <2>c. mishaps \in 0 .. MaxMishaps /\ (Mishap => mishaps' \in 0 .. MaxMishaps)
        BY DEF TypeOK, Mishap
    <2>d. ASSUME NEW gone \in SUBSET Archive, TakeAway(gone) PROVE RepoType'
        BY <2>a, <2>d DEF TakeAway, RepoType
    <2>1. CASE NextDay
        <3>1. FleetType'
            BY <2>a, <2>1 DEF NextDay, FleetType
        <3>. QED
            BY <2>b, <2>c, <2>1, <3>1 DEF NextDay, TypeOK
    <2>2. ASSUME NEW n \in Nodes, BorgCommits(n) PROVE TypeOK'
        <3>1. [node |-> n, at |-> day] \in Archive
            BY <2>a, <2>2 DEF BorgCommits, FleetType
        <3>2. FleetType' /\ DbType' /\ RepoType'
            BY <2>a, <2>2, <3>1 DEF BorgCommits, FleetType, DbType, RepoType
        <3>. QED
            BY <2>b, <2>c, <2>2, <3>2 DEF BorgCommits, TypeOK
    <2>3. ASSUME NEW a \in written, RecordSuccess(a) PROVE TypeOK'
        <3>1. a \in Archive /\ a.node \in Nodes /\ a.at \in 0 .. LastDay
            BY <2>a DEF DbType
        <3>2. DbType'
            BY <2>a, <2>3, <3>1 DEF RecordSuccess, DbType
        <3>. QED
            BY <2>b, <2>c, <2>3, <3>2 DEF RecordSuccess, TypeOK
    <2>4. ASSUME NEW a \in written, RecordLost(a) PROVE TypeOK'
        <3>1. DbType'
            BY <2>a, <2>4 DEF RecordLost, DbType
        <3>. QED
            BY <2>b, <2>c, <2>4, <3>1 DEF RecordLost, TypeOK
    <2>5. ASSUME NEW a \in stored, DeletedByHand(a) PROVE TypeOK'
        <3>1. {a} \in SUBSET Archive
            BY <2>a DEF RepoType
        <3>. QED
            BY <2>b, <2>c, <2>d, <2>5, <3>1 DEF DeletedByHand, TypeOK
    <2>6. CASE PruneBegins
        <3>1. PruneType' /\ RepoType'
            BY <2>a, <2>6 DEF PruneBegins, PruneType, RepoType
        <3>. QED
            BY <2>b, <2>c, <2>6, <3>1 DEF PruneBegins, TypeOK
    <2>7. CASE ShardSkipped \/ RelistFails
        <3>1. /\ turn <= Len(Shards)
              /\ complete' = FALSE
              /\ NextShard
            BY <2>a, <2>7 DEF ShardSkipped, RelistFails, PruneType
        <3>2. /\ plan' \in {plan, {}}
              /\ UNCHANGED <<surviving, stale, newest, marked>>
            BY <2>7 DEF ShardSkipped, RelistFails
        <3>3. /\ turn' \in 1 .. Len(Shards) + 1
              /\ pc' \in {"list", "idle"}
              /\ pc' = "list" => turn' <= Len(Shards)
            BY <2>a, <3>1 DEF NextShard, PruneType
        <3>4. PruneType'
            BY <2>a, <3>1, <3>2, <3>3 DEF PruneType
        <3>. QED
            BY <2>b, <2>c, <2>7, <3>4 DEF ShardSkipped, RelistFails, TypeOK
    <2>8. CASE ListShard
        <3>1. PICK table \in Tables :
                  plan' = PlanDeletions(InShard(stored, Shards[turn]), table)
            BY <2>8 DEF ListShard
        <3>2. InShard(stored, Shards[turn]) \in SUBSET Archive
            BY <2>a DEF InShard, RepoType
        <3>3. plan' \subseteq Archive
            BY <2>a, <3>1, <3>2, PlanLeavesNewer DEF FleetType
        <3>4. PruneType'
            BY <2>a, <2>8, <3>3 DEF ListShard, PruneType
        <3>. QED
            BY <2>b, <2>c, <2>8, <3>4 DEF ListShard, TypeOK
    <2>9. CASE DeleteBatches
        <3>1. PruneType' /\ RepoType'
            BY <2>a, <2>9 DEF DeleteBatches, PruneType, RepoType
        <3>. QED
            BY <2>b, <2>c, <2>9, <3>1 DEF DeleteBatches, TypeOK
    <2>10. CASE Relist
        <3>1. PruneType' /\ RepoType'
            BY <2>a, <2>10 DEF Relist, NextShard, InShard, PruneType, RepoType
        <3>. QED
            BY <2>b, <2>c, <2>10, <3>1 DEF Relist, TypeOK
    <2>11. CASE SelectStale \/ ReadMarkers
        <3>1. PruneType'
            BY <2>a, <2>11 DEF SelectStale, ReadMarkers, PruneType, FleetType, DbType
        <3>. QED
            BY <2>b, <2>c, <2>11, <3>1 DEF SelectStale, ReadMarkers, TypeOK
    <2>12. CASE CountSurvivors
        <3>1. \A n \in Nodes : OfNode(rows \ stale, n) \in SUBSET Archive
            BY <2>a DEF OfNode, DbType
        <3>2. newest' \in [Nodes -> 0 .. LastDay]
            BY <2>12, <3>1, TimeOfNewestType DEF CountSurvivors
        <3>3. PruneType'
            BY <2>a, <2>12, <3>2 DEF CountSurvivors, PruneType
        <3>. QED
            BY <2>b, <2>c, <2>12, <3>3 DEF CountSurvivors, TypeOK
    <2>13. CASE Reconcile
        <3>1. DbType'
            BY <2>a, <2>13 DEF Reconcile, DbType, PruneType
        <3>2. PruneType' /\ RepoType'
            BY <2>a, <2>13 DEF Reconcile, PruneType, RepoType
        <3>. QED
            BY <2>b, <2>c, <2>13, <3>1, <3>2 DEF Reconcile, TypeOK
    <2>14. ASSUME NEW n \in Nodes, PurgeLists(n) PROVE TypeOK'
        <3>1. PurgeType'
            BY <2>a, <2>14 DEF PurgeLists, PurgeType, RepoType, Prefixed, InShard
        <3>. QED
            BY <2>b, <2>c, <2>14, <3>1 DEF PurgeLists, TypeOK
    <2>15. ASSUME NEW n \in Nodes, NodeArchivesGo(n) PROVE TypeOK'
        <3>1. Prefixed(stored, n) \in SUBSET Archive
            BY <2>a DEF RepoType, Prefixed, InShard
        <3>2. RepoType'
            BY <2>d, <2>15, <3>1 DEF NodeArchivesGo
        <3>3. FleetType'
            BY <2>a, <2>15 DEF NodeArchivesGo, FleetType
        <3>. QED
            BY <2>b, <2>c, <2>15, <3>2, <3>3 DEF NodeArchivesGo, TypeOK
    <2>16. ASSUME NEW n \in Nodes, Forget(n) PROVE TypeOK'
        <3>1. DbType' /\ PurgeType'
            BY <2>a, <2>16 DEF Forget, DbType, PurgeType
        <3>. QED
            BY <2>b, <2>c, <2>16, <3>1 DEF Forget, TypeOK
    <2>17. ASSUME NEW n \in Nodes, DeleteNode(n) PROVE TypeOK'
        <3>1. DbType' /\ FleetType'
            BY <2>a, <2>17 DEF DeleteNode, DbType, FleetType
        <3>. QED
            BY <2>b, <2>c, <2>17, <3>1 DEF DeleteNode, TypeOK
    <2>18. ASSUME NEW n \in Nodes, NEW a \in doomed[n], PurgeDeletes(n, a)
           PROVE  TypeOK'
        <3>1. {a} \in SUBSET Archive
            BY <2>a DEF PurgeType
        <3>2. PurgeType'
            BY <2>a, <2>18 DEF PurgeDeletes, PurgeType
        <3>. QED
            BY <2>b, <2>c, <2>d, <2>18, <3>1, <3>2 DEF PurgeDeletes, TypeOK
    <2>19. CASE UNCHANGED vars
        BY <2>b, <2>c, <2>19 DEF vars, TypeOK
    <2>. QED
        BY <2>1, <2>2, <2>3, <2>4, <2>5, <2>6, <2>7, <2>8, <2>9, <2>10, <2>11, <2>12,
           <2>13, <2>14, <2>15, <2>16, <2>17, <2>18, <2>19
        DEF Next, PruneStep, Deletion
<1>. QED
    BY <1>1, <1>2, PTL DEF Spec

----------------------------------------------------------------------------
(* The prune and its reconciliation.                                       *)

\* The steps of the prune that move pc; all others leave its locals alone.
PruneMoves ==
    \/ PruneBegins \/ ShardSkipped \/ RelistFails \/ ListShard \/ DeleteBatches
    \/ Relist \/ SelectStale \/ CountSurvivors \/ ReadMarkers \/ Reconcile

\* What the others do to the repositories: they add an archive, which is late
\* while a prune is at work, or people take some away.
OutsideStep ==
    /\ UNCHANGED pruneVars
    /\ pc = "idle" \/ late \subseteq late'
    /\ pc = "idle" \/ stored' \subseteq stored \cup late'
    /\ touched \subseteq touched'
    /\ \A a \in stored \ stored' : a.node \in touched'

\* A step of the fleet that is not one of the prune's is an OutsideStep.
LEMMA Elsewhere ==
    ASSUME [Next]_vars, ~PruneMoves
    PROVE  OutsideStep
<1>a. ASSUME UNCHANGED repoVars, UNCHANGED pruneVars PROVE OutsideStep
    BY <1>a DEF repoVars, OutsideStep
<1>b. ASSUME NEW gone, TakeAway(gone), UNCHANGED pruneVars PROVE OutsideStep
    BY <1>b DEF TakeAway, OutsideStep
<1>1. CASE NextDay
    BY <1>a, <1>1 DEF NextDay
<1>2. ASSUME NEW n \in Nodes, BorgCommits(n) PROVE OutsideStep
    BY <1>2 DEF BorgCommits, OutsideStep
<1>3. ASSUME NEW a \in written, RecordSuccess(a) \/ RecordLost(a) PROVE OutsideStep
    BY <1>a, <1>3 DEF RecordSuccess, RecordLost
<1>4. ASSUME NEW a \in stored, DeletedByHand(a) PROVE OutsideStep
    BY <1>b, <1>4 DEF DeletedByHand
<1>5. ASSUME NEW n \in Nodes, PurgeLists(n) PROVE OutsideStep
    BY <1>a, <1>5 DEF PurgeLists
<1>6. ASSUME NEW n \in Nodes, NodeArchivesGo(n) PROVE OutsideStep
    BY <1>b, <1>6 DEF NodeArchivesGo
<1>7. ASSUME NEW n \in Nodes, Deletion(n) PROVE OutsideStep
    <2>1. CASE Forget(n) \/ DeleteNode(n)
        BY <1>a, <2>1 DEF Forget, DeleteNode
    <2>2. ASSUME NEW a \in doomed[n], PurgeDeletes(n, a) PROVE OutsideStep
        BY <1>a, <1>b, <2>2 DEF PurgeDeletes
    <2>. QED
        BY <1>7, <2>1, <2>2 DEF Deletion
<1>8. CASE UNCHANGED vars
    BY <1>a, <1>8 DEF vars
<1>9. \/ NextDay
      \/ \E n \in Nodes : BorgCommits(n)
      \/ \E a \in written : RecordSuccess(a) \/ RecordLost(a)
      \/ \E a \in stored : DeletedByHand(a)
      \/ \E n \in Nodes : PurgeLists(n) \/ NodeArchivesGo(n) \/ Deletion(n)
      \/ UNCHANGED vars
    BY DEF Next, PruneStep, PruneMoves
<1>. QED
    BY <1>1, <1>2, <1>3, <1>4, <1>5, <1>6, <1>7, <1>8, <1>9

\* The listings of the shards done with hold whatever happens meanwhile.
LEMMA ListedInductive ==
    ASSUME TypeOK, ListedInv, [Next]_vars
    PROVE  ListedInv'
<1> USE Bounds
<1>a. PruneType /\ RepoType
    BY DEF TypeOK
<1>1. CASE ~PruneMoves
    <2>1. CASE pc = "idle"
        BY <1>1, <2>1, Elsewhere DEF OutsideStep, pruneVars, ListedInv
    <2>2. CASE pc # "idle"
        <3>1. /\ UNCHANGED <<pc, turn, complete, surviving, stale>>
              /\ stored' \subseteq stored \cup late'
              /\ late \subseteq late'
            BY <1>1, <2>2, Elsewhere DEF OutsideStep, pruneVars
        <3>. QED
            BY <2>2, <3>1 DEF ListedInv, InShard
    <2>. QED
        BY <2>1, <2>2
<1>2. CASE PruneBegins
    BY <1>2 DEF PruneBegins, ListedInv
<1>3. CASE ShardSkipped \/ RelistFails
    <2>1. complete' = FALSE /\ pc' \in {"list", "idle"}
        BY <1>3 DEF ShardSkipped, RelistFails, NextShard
    <2>. QED
        BY <2>1 DEF ListedInv
<1>4. CASE ListShard \/ DeleteBatches
    <2>1. /\ pc \in {"list", "delete"}
          /\ pc' \in {"delete", "relist"}
          /\ stored' \subseteq stored
          /\ UNCHANGED <<turn, complete, surviving, late>>
        BY <1>4 DEF ListShard, DeleteBatches, repoVars
    <2>. QED
        BY <2>1 DEF ListedInv, InShard
<1>5. CASE Relist
    <2>1. /\ turn \in 1 .. Len(Shards)
          /\ turn' = turn + 1
          /\ pc' \in {"list", "select", "idle"}
          /\ pc' = "select" => complete' /\ turn' = Len(Shards) + 1
          /\ UNCHANGED <<complete, stored>>
        BY <1>5, <1>a DEF Relist, NextShard, PruneType
    <2>2. ASSUME complete', NEW i \in 1 .. turn' - 1, NEW a \in InShard(stored, Shards[i])
          PROVE  a \in surviving' \cup late'
        <3>1. CASE ShardOf[a.node] = Shards[turn]
            BY <1>5, <2>2, <3>1 DEF Relist, InShard
        <3>2. CASE ShardOf[a.node] # Shards[turn]
            <4>1. i \in 1 .. turn - 1
                BY <2>1, <2>2, <3>2 DEF InShard
            <4>2. a \in surviving \cup late
                BY <1>5, <2>1, <2>2, <4>1 DEF Relist, ListedInv
            <4>. QED
                BY <1>5, <3>2, <4>2 DEF Relist, InShard
        <3>. QED
            BY <3>1, <3>2
    <2>. QED
        BY <2>1, <2>2 DEF ListedInv, InShard
<1>6. CASE SelectStale
    <2>1. /\ complete /\ turn = Len(Shards) + 1
          /\ stale' = rows \ surviving
          /\ pc' = "count"
          /\ UNCHANGED <<turn, complete, surviving, stored, late>>
        BY <1>6 DEF SelectStale, ListedInv, repoVars
    <2>2. ASSUME NEW a \in stored PROVE a \in surviving \cup late
        <3>1. ShardOf[a.node] \in ShardSet
            BY <1>a, ArchivesAssumption DEF RepoType
        <3>2. PICK i \in 1 .. Len(Shards) : ShardOf[a.node] = Shards[i]
            BY <3>1 DEF ShardSet
        <3>. QED
            BY <1>6, <2>1, <3>2 DEF SelectStale, ListedInv, InShard
    <2>. QED
        BY <1>6, <2>1, <2>2 DEF SelectStale, ListedInv, InShard
<1>7. CASE CountSurvivors \/ ReadMarkers
    <2>1. /\ pc \in {"count", "mark"}
          /\ pc' \in {"mark", "commit"}
          /\ UNCHANGED <<turn, complete, surviving, stale, stored, late>>
        BY <1>7 DEF CountSurvivors, ReadMarkers, repoVars
    <2>. QED
        BY <2>1 DEF ListedInv, InShard
<1>8. CASE Reconcile
    BY <1>8 DEF Reconcile, ListedInv
<1>. QED
    BY <1>1, <1>2, <1>3, <1>4, <1>5, <1>6, <1>7, <1>8 DEF PruneMoves

\* The reconciliation never drops the row of an archive that is in its repository,
\* unless it was made after that repository was last listed.
THEOREM ReconcileSafety == Spec => ReconcileSparesListed
<1>1. Init => ListedInv
    BY DEF Init, ListedInv
<1>2. TypeOK /\ ListedInv /\ [Next]_vars => ListedInv'
    BY ListedInductive
<1>3. TypeOK /\ ListedInv /\ [Next]_vars =>
          [pc = "commit" /\ pc' = "idle" =>
              \A a \in rows \ rows' : a \in stored => a \in late]_vars
    <2> SUFFICES ASSUME ListedInv, [Next]_vars, pc = "commit", pc' = "idle",
                        NEW a \in rows \ rows', a \in stored
                 PROVE  a \in late
        OBVIOUS
    <2>1. PruneMoves
        BY Elsewhere DEF OutsideStep, pruneVars
    <2>2. Reconcile
        BY <2>1 DEF PruneMoves, PruneBegins, ShardSkipped, RelistFails, ListShard,
                    DeleteBatches, Relist, SelectStale, CountSurvivors, ReadMarkers
    <2>. QED
        BY <2>2 DEF Reconcile, ListedInv
<1>. QED
    BY <1>1, <1>2, <1>3, TypeCorrect, PTL DEF Spec, ReconcileSparesListed

\* What is decided stays right until it is carried out.
LEMMA DecidedInductive ==
    ASSUME TypeOK, DecidedInv, [Next]_vars
    PROVE  DecidedInv'
<1>1. CASE ~PruneMoves
    <2>1. /\ UNCHANGED <<pc, plan>>
          /\ touched \subseteq touched'
          /\ \A a \in stored \ stored' : a.node \in touched'
        BY <1>1, Elsewhere DEF OutsideStep, pruneVars
    <2>. QED
        BY <2>1 DEF DecidedInv
<1>2. CASE ListShard
    <2>1. PICK table \in Tables :
              plan' = PlanDeletions(InShard(stored, Shards[turn]), table)
        BY <1>2 DEF ListShard
    <2>2. InShard(stored, Shards[turn]) \in SUBSET Archive /\ nodes \subseteq Nodes
        BY DEF InShard, TypeOK, RepoType, FleetType
    <2>3. ASSUME NEW a \in plan', Unambiguous(a.node)
          PROVE  \E b \in InShard(stored, Shards[turn]) : b.node = a.node /\ b.at > a.at
        BY <2>1, <2>2, <2>3, PlanLeavesNewer
    <2>. QED
        BY <1>2, <2>3 DEF ListShard, DecidedInv, InShard, repoVars
<1>3. CASE PruneMoves /\ ~ListShard
    <2>1. pc' # "delete"
        BY <1>3 DEF PruneMoves, PruneBegins, ShardSkipped, RelistFails, DeleteBatches,
                    Relist, SelectStale, CountSurvivors, ReadMarkers, Reconcile,
                    NextShard
    <2>. QED
        BY <2>1 DEF DecidedInv
<1>. QED
    BY <1>1, <1>2, <1>3

\* The prune never deletes the newest archive of a node whose name is not part of
\* another's and whose archives no person has deleted.
THEOREM NewestSafety == Spec => NewestKept
<1>1. Init => DecidedInv
    BY DEF Init, DecidedInv
<1>2. TypeOK /\ DecidedInv /\ [Next]_vars => DecidedInv'
    BY DecidedInductive
<1>3. TypeOK /\ DecidedInv /\ [Next]_vars =>
          [pc = "delete" /\ pc' = "relist" =>
              \A n \in Nodes \ touched :
                  Unambiguous(n) => Newest(OfNode(stored, n)) \subseteq stored']_vars
    <2> SUFFICES ASSUME DecidedInv, [Next]_vars, pc = "delete", pc' = "relist",
                        NEW n \in Nodes \ touched, Unambiguous(n),
                        NEW a \in Newest(OfNode(stored, n))
                 PROVE  a \in stored'
        OBVIOUS
    <2>1. PruneMoves
        BY Elsewhere DEF OutsideStep, pruneVars
    <2>2. DeleteBatches
        BY <2>1 DEF PruneMoves, PruneBegins, ShardSkipped, RelistFails, ListShard,
                    Relist, SelectStale, CountSurvivors, ReadMarkers, Reconcile
    <2>3. a \in stored /\ a.node = n
        BY DEF Newest, OfNode
    <2>4. a \notin plan
        BY <2>3 DEF DecidedInv, Newest, Newer, OfNode
    <2>. QED
        BY <2>2, <2>3, <2>4 DEF DeleteBatches
<1>. QED
    BY <1>1, <1>2, <1>3, TypeCorrect, PTL DEF Spec, NewestKept

----------------------------------------------------------------------------
(* What the policy keeps.                                                  *)

\* The archives of a node are a timeline.
LEMMA OwnTimeline ==
    ASSUME NEW archives \in SUBSET Archive, NEW n
    PROVE  Timeline(OfNode(archives, n))
<1> DEFINE own == OfNode(archives, n)
           f == [a \in own |-> a.at]
<1>1. \A a \in own : a \in [node : Nodes, at : 1 .. LastDay] /\ a.node = n
    BY Bounds DEF OfNode
<1>2. \A a, b \in own : a.at = b.at => a = b
    BY <1>1
<1>3. f \in Injection(own, 1 .. LastDay)
    BY <1>1, <1>2 DEF Injection, IsInjective
<1>4. IsFiniteSet(own)
    BY <1>3, Bounds, FS_Interval, FS_Injection
<1>. QED
    BY <1>1, <1>2, <1>4, ArchivesAssumption DEF Timeline

\* Steps that take archives away, by the plan or by hand, and add none.
Wanes ==
    /\ UNCHANGED <<policy, day, ran, made>>
    /\ touched \subseteq touched'
    /\ stored' \subseteq stored
    /\ plan' \subseteq plan
    /\ \A a \in stored \ stored' : a.node \in touched' \/ a \in plan

LEMMA OtherStepsWane ==
    ASSUME [Next]_vars, ~NextDay, ~ListShard, \A n \in Nodes : ~BorgCommits(n)
    PROVE  Wanes
<1>a. ASSUME UNCHANGED <<policy, day, ran>>, UNCHANGED repoVars, plan' \subseteq plan PROVE Wanes
    BY <1>a DEF repoVars, Wanes
<1>b. ASSUME UNCHANGED <<policy, day, ran>>, NEW gone, TakeAway(gone), UNCHANGED plan
      PROVE  Wanes
    BY <1>b DEF TakeAway, Wanes
<1>1. ASSUME NEW a \in written, RecordSuccess(a) \/ RecordLost(a) PROVE Wanes
    BY <1>a, <1>1 DEF RecordSuccess, RecordLost, fleetVars, pruneVars
<1>2. ASSUME NEW a \in stored, DeletedByHand(a) PROVE Wanes
    BY <1>b, <1>2 DEF DeletedByHand, fleetVars, pruneVars
<1>3. ASSUME NEW n \in Nodes, PurgeLists(n) \/ Forget(n) \/ DeleteNode(n) PROVE Wanes
    BY <1>a, <1>3 DEF PurgeLists, Forget, DeleteNode, fleetVars, pruneVars
<1>4. ASSUME NEW n \in Nodes, NodeArchivesGo(n) PROVE Wanes
    BY <1>b, <1>4 DEF NodeArchivesGo, pruneVars
<1>5. ASSUME NEW n \in Nodes, NEW a \in doomed[n], PurgeDeletes(n, a) PROVE Wanes
    BY <1>a, <1>b, <1>5 DEF PurgeDeletes, fleetVars, pruneVars
<1>6. CASE PruneBegins
    BY <1>6 DEF PruneBegins, Wanes, fleetVars
<1>7. CASE ShardSkipped \/ RelistFails
    BY <1>a, <1>7 DEF ShardSkipped, RelistFails, fleetVars
<1>8. CASE DeleteBatches
    BY <1>8 DEF DeleteBatches, Wanes, fleetVars
<1>9. CASE Relist
    BY <1>9 DEF Relist, Wanes, fleetVars
<1>10. CASE SelectStale \/ CountSurvivors \/ ReadMarkers
    BY <1>a, <1>10 DEF SelectStale, CountSurvivors, ReadMarkers, fleetVars
<1>11. CASE Reconcile
    BY <1>11 DEF Reconcile, Wanes, fleetVars
<1>12. CASE UNCHANGED vars
    BY <1>a, <1>12 DEF vars, fleetVars, pruneVars
<1>. QED
    BY <1>1, <1>2, <1>3, <1>4, <1>5, <1>6, <1>7, <1>8, <1>9, <1>10, <1>11, <1>12
       DEF Next, PruneStep, Deletion

\* A plan is made of archives that are there.
LEMMA PlanPart ==
    ASSUME NEW archives, NEW table
    PROVE  PlanDeletions(archives, table) \subseteq archives
BY DEF PlanDeletions, ClaimedBy

\* Each archive is newer than those its node had.
LEMMA DatedInductive ==
    ASSUME TypeOK, DatedInv, [Next]_vars
    PROVE  DatedInv'
<1>a. /\ day \in Nat /\ ran \in [Nodes -> Nat]
      /\ \A a \in made : a.node \in Nodes /\ a.at \in Nat
    BY Bounds DEF TypeOK, FleetType, RepoType
<1>1. CASE NextDay
    BY <1>1, <1>a DEF NextDay, DatedInv, pruneVars, repoVars
<1>2. CASE ListShard
    <2>1. plan' \subseteq stored
        BY <1>2, PlanPart DEF ListShard, InShard
    <2>. QED
        BY <1>2, <2>1 DEF ListShard, DatedInv, fleetVars, repoVars
<1>3. ASSUME NEW n \in Nodes, BorgCommits(n) PROVE DatedInv'
    <2> DEFINE a == [node |-> n, at |-> day]
    <2>1. /\ ran' = [ran EXCEPT ![n] = day] /\ ran[n] < day
          /\ stored' = stored \cup {a} /\ made' = made \cup {a}
          /\ UNCHANGED <<plan, day>>
        BY <1>3 DEF BorgCommits, pruneVars
    <2>2. \A b \in made' : b.at <= ran'[b.node]
        BY <1>a, <2>1 DEF DatedInv
    <2>. QED
        BY <1>a, <2>1, <2>2 DEF DatedInv
<1>4. CASE Wanes
    BY <1>4 DEF Wanes, DatedInv
<1>. QED
    BY <1>1, <1>2, <1>3, <1>4, OtherStepsWane

\* A plan spares what the policy keeps: the archives of a node with a name of its
\* own are those it claims, and what is left of them has been pruned already.
LEMMA PlanSpares ==
    ASSUME TypeOK, DatedInv, RetainedInv, ListShard,
           NEW n \in Nodes \ touched, Unambiguous(n)
    PROVE  Select(OfNode(made, n), policy[n], day) \cap plan' = {}
<1> SUFFICES ASSUME NEW a \in plan', a \in Select(OfNode(made, n), policy[n], day)
             PROVE  FALSE
    OBVIOUS
<1>1. PICK table \in Tables :
          plan' = PlanDeletions(InShard(stored, Shards[turn]), table)
    BY DEF ListShard
<1> DEFINE listed == InShard(stored, Shards[turn])
<1>2. PICK m \in nodes :
          /\ a \in ClaimedBy(listed, m, table)
          /\ a \notin Select(ClaimedBy(listed, m, table), policy[m], day)
    BY <1>1 DEF PlanDeletions
<1>3. /\ made \in SUBSET Archive /\ stored \in SUBSET made /\ nodes \subseteq Nodes
      /\ \A b \in made : b.node \in Nodes
    BY DEF TypeOK, RepoType, FleetType, DatedInv, Archive
<1>4. a.node = n
    BY SelectPart DEF OfNode
<1>5. a \in stored /\ a.node \in Claims[m] /\ ShardOf[n] = Shards[turn] /\ m = n
    BY <1>2, <1>3, <1>4 DEF ClaimedBy, InShard, Unambiguous
<1>6. ClaimedBy(listed, n, table) = OfNode(stored, n)
    <2>1. ASSUME NEW b \in ClaimedBy(listed, n, table) PROVE b \in OfNode(stored, n)
        BY <1>3, <2>1 DEF ClaimedBy, InShard, OfNode, Unambiguous
    <2>2. ASSUME NEW b \in OfNode(stored, n) PROVE b \in ClaimedBy(listed, n, table)
        <3>1. b \in listed /\ b.node = n
            BY <1>5 DEF InShard, OfNode
        <3>2. n \in Claims[n] /\ table[n] \in Nat
            BY ArchivesAssumption
        <3>3. \A k \in nodes : n \in Claims[k] => k = n
            BY <1>3 DEF Unambiguous
        <3>. QED
            BY <3>1, <3>2, <3>3 DEF ClaimedBy
    <2>3. ClaimedBy(listed, n, table) \subseteq OfNode(stored, n)
        BY <2>1
    <2>4. OfNode(stored, n) \subseteq ClaimedBy(listed, n, table)
        BY <2>2
    <2>. QED
        BY <2>3, <2>4
<1>7. Select(OfNode(stored, n), policy[n], day) = Select(OfNode(made, n), policy[n], day)
    <2>1. Timeline(OfNode(made, n)) /\ OfNode(stored, n) \in SUBSET OfNode(made, n)
        BY <1>3, OwnTimeline DEF OfNode
    <2>2. IsPolicy(policy[n])
        BY ArchivesAssumption DEF TypeOK, FleetType
    <2>3. Select(OfNode(made, n), policy[n], day) \subseteq OfNode(stored, n)
        BY SelectPart DEF RetainedInv, OfNode
    <2>. QED
        BY <2>1, <2>2, <2>3, SelectPiecemeal
<1>. QED
    BY <1>2, <1>5, <1>6, <1>7

\* What the policy would keep of everything is kept, from one day to the next,
\* from one backup to the next, and through each prune.
LEMMA RetainedInductive ==
    ASSUME TypeOK, DatedInv, RetainedInv, [Next]_vars
    PROVE  RetainedInv'
<1>a. /\ made \in SUBSET Archive /\ day \in Nat /\ stored \cup plan \subseteq made
      /\ \A n \in Nodes : IsPolicy(policy[n])
    BY Bounds, ArchivesAssumption DEF TypeOK, RepoType, FleetType, DatedInv
<1>1. CASE NextDay
    <2>1. /\ day' = day + 1
          /\ UNCHANGED <<policy, made, stored, plan, touched>>
        BY <1>1 DEF NextDay, pruneVars, repoVars
    <2>2. ASSUME NEW n \in Nodes
          PROVE  Select(OfNode(made, n), policy[n], day')
                     \subseteq Select(OfNode(made, n), policy[n], day)
        BY <1>a, <2>1, OwnTimeline, SelectShrinks
    <2>. QED
        BY <2>1, <2>2 DEF RetainedInv
<1>2. CASE ListShard
    <2>1. UNCHANGED <<policy, day, made, stored, touched>>
        BY <1>2 DEF ListShard, fleetVars, repoVars
    <2>2. \A n \in Nodes \ touched :
              Unambiguous(n) => Select(OfNode(made, n), policy[n], day) \cap plan' = {}
        BY <1>2, PlanSpares
    <2>. QED
        BY <2>1, <2>2 DEF RetainedInv
<1>3. ASSUME NEW m \in Nodes, BorgCommits(m) PROVE RetainedInv'
    <2> DEFINE a == [node |-> m, at |-> day]
    <2>1. /\ ran[m] < day
          /\ stored' = stored \cup {a} /\ made' = made \cup {a}
          /\ UNCHANGED <<policy, plan, day, touched>>
        BY <1>3 DEF BorgCommits, pruneVars
    <2>2. \A b \in OfNode(made, m) : a.at > b.at
        <3>1. ASSUME NEW b \in OfNode(made, m) PROVE b.at < day
            <4>1. b.at <= ran[m] /\ b.at \in Nat /\ ran[m] \in Nat
                BY <1>a, Bounds DEF DatedInv, OfNode, TypeOK, FleetType
            <4>. QED
                BY <1>a, <2>1, <4>1
        <3>. QED
            BY <3>1
    <2>3. a \notin made
        BY <2>2, <1>a DEF OfNode
    <2>4. made' \in SUBSET Archive
        <3>1. day \in 1 .. LastDay
            BY <2>1, Bounds DEF TypeOK, FleetType
        <3>. QED
            BY <1>a, <2>1, <3>1, Bounds
    <2>5. OfNode(made', m) = OfNode(made, m) \cup {a}
        BY <2>1 DEF OfNode
    <2>6. Select(OfNode(made', m), policy[m], day)
              \subseteq Select(OfNode(made, m), policy[m], day) \cup {a}
        <3>1. Timeline(OfNode(made', m))
            BY <2>4, OwnTimeline
        <3>. QED
            BY <1>a, <2>2, <2>5, <3>1, SelectGrown
    <2>7. ASSUME NEW n \in Nodes \ {m} PROVE OfNode(made', n) = OfNode(made, n)
        BY <2>1 DEF OfNode
    <2>8. ASSUME NEW n \in Nodes \ touched, Unambiguous(n)
          PROVE  /\ Select(OfNode(made', n), policy[n], day) \subseteq stored'
                 /\ Select(OfNode(made', n), policy[n], day) \cap plan = {}
        <3>1. CASE n = m
            BY <1>a, <2>1, <2>3, <2>6, <2>8, <3>1 DEF RetainedInv
        <3>2. CASE n # m
            BY <2>1, <2>7, <2>8, <3>2 DEF RetainedInv
        <3>. QED
            BY <3>1, <3>2
    <2>. QED
        BY <2>1, <2>8 DEF RetainedInv
<1>4. CASE Wanes
    <2>1. ASSUME NEW n \in Nodes \ touched', Unambiguous(n)
          PROVE  LET keep == Select(OfNode(made, n), policy[n], day)
                 IN  keep \subseteq stored' /\ keep \cap plan' = {}
        <3> DEFINE keep == Select(OfNode(made, n), policy[n], day)
        <3>1. keep \subseteq stored /\ keep \cap plan = {}
            BY <1>4, <2>1 DEF Wanes, RetainedInv
        <3>2. \A a \in keep : a.node = n
            BY SelectPart DEF OfNode
        <3>. QED
            BY <1>4, <2>1, <3>1, <3>2 DEF Wanes
    <2>. QED
        BY <1>4, <2>1 DEF Wanes, RetainedInv
<1>. QED
    BY <1>1, <1>2, <1>3, <1>4, OtherStepsWane

LEMMA RetainedInvariant == Spec => [](DatedInv /\ RetainedInv)
<1>1. Init => DatedInv
    BY ArchivesAssumption DEF Init, DatedInv
<1>2. Init => RetainedInv
    <2> SUFFICES ASSUME Init, NEW n PROVE Select(OfNode(made, n), policy[n], day) = {}
        BY DEF RetainedInv
    <2>1. OfNode(made, n) = {}
        BY DEF Init, OfNode
    <2>. QED
        BY <2>1, SelectPart
<1>3. TypeOK /\ DatedInv /\ RetainedInv /\ [Next]_vars => (DatedInv /\ RetainedInv)'
    BY DatedInductive, RetainedInductive
<1>. QED
    BY <1>1, <1>2, <1>3, TypeCorrect, PTL DEF Spec

\* Pruning night after night, as far as each night's deletions get, loses nothing
\* that the policy would keep of all the archives ever made.
THEOREM NightsSafety == Spec => []NightsLoseNothing
<1>1. TypeOK /\ RetainedInv => NightsLoseNothing
    BY DEF TypeOK, FleetType, RetainedInv, NightsLoseNothing
<1>. QED
    BY <1>1, TypeCorrect, RetainedInvariant, PTL

\* By each rule of its policy a node has as many archives as the rule counts, or
\* the newest of every period in which it made one, and the first of all.
THEOREM QuotaSafety == Spec => []QuotaHeld
<1>1. TypeOK /\ RetainedInv => QuotaHeld
    <2> SUFFICES ASSUME TypeOK, RetainedInv, NEW n \in nodes \ touched,
                        NEW rule \in Rules \cap DOMAIN policy[n],
                        Unambiguous(n), policy[n][rule] > 0
                 PROVE  \/ Cardinality(OfNode(stored, n)) >= policy[n][rule]
                        \/ Heads(OfNode(made, n), rule) \cup Oldest(OfNode(made, n))
                               \subseteq OfNode(stored, n)
        BY DEF QuotaHeld
    <2> DEFINE own == OfNode(made, n)
               keep == Select(own, policy[n], day)
               left == OfNode(stored, n)
    <2>1. n \in Nodes /\ IsPolicy(policy[n]) /\ Timeline(own) /\ Timeline(left)
        BY ArchivesAssumption, OwnTimeline DEF TypeOK, FleetType, RepoType
    <2>2. keep \in SUBSET left
        BY <2>1, SelectPart DEF RetainedInv, OfNode
    <2>3. \/ Cardinality(keep) >= policy[n][rule]
          \/ Heads(own, rule) \cup Oldest(own) \subseteq keep
        BY <2>1, SelectCounts
    <2>4. /\ Cardinality(keep) <= Cardinality(left)
          /\ Cardinality(keep) \in Nat /\ Cardinality(left) \in Nat
        BY <2>1, <2>2, PartSize DEF Timeline
    <2>5. policy[n][rule] \in Nat
        BY <2>1, PolicyCounts
    <2> HIDE DEF own, keep, left
    <2>6. \/ Cardinality(left) >= policy[n][rule]
          \/ Heads(own, rule) \cup Oldest(own) \subseteq left
        BY <2>2, <2>3, <2>4, <2>5
    <2>. QED
        BY <2>6 DEF own, left
<1>. QED
    BY <1>1, TypeCorrect, RetainedInvariant, PTL
=============================================================================
