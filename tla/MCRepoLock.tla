----------------------------- MODULE MCRepoLock -----------------------------
(* Values of RepoLock's constants for TLC.                                 *)
EXTENDS RepoLock, TLC

CONSTANTS b1, b2, p1, p2, d1

\* A slow node and a fast one, at the limit of LongLived: each heartbeat of the
\* fast node leaves the key just as long as the slow node's registration lasts.
MixedTTL == b1 :> 2 @@ b2 :> 1

OneTTL == [b \in Backups |-> 1]

PruneSymmetry == Permutations({p1, p2})
=============================================================================
