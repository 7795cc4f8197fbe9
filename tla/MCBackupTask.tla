---------------------------- MODULE MCBackupTask ----------------------------
(* BackupTask for TLC: runs t1 .. t3, and how often each kind may retry.   *)
EXTENDS BackupTask, TLC

CONSTANTS t1, t2, t3, w1, w2

OneRetry == [k \in Interruptions |-> 1]

NoRetry == [k \in Interruptions |-> 0]

TaskSymmetry == Permutations({t1, t2, t3} \cap Tasks)

RunAndWorkerSymmetry == TaskSymmetry \cup Permutations(Workers)
=============================================================================
