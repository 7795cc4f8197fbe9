------------------------------ MODULE RunSlot ------------------------------
(***************************************************************************)
(* What backup_running:<node> is for, with no keys, queues or workers: a   *)
(* node is given to one run at a time, every run begins at most once, and  *)
(* the node is always given back.                                          *)
(***************************************************************************)
CONSTANTS Runs, NoRun

VARIABLES current, begun

vars == <<current, begun>>

Init ==
    /\ current = NoRun
    /\ begun = {}

Begin(r) ==
    /\ current = NoRun
    /\ r \notin begun
    /\ current' = r
    /\ begun' = begun \cup {r}

End ==
    /\ current # NoRun
    /\ current' = NoRun
    /\ UNCHANGED begun

Next == End \/ \E r \in Runs : Begin(r)

Spec == Init /\ [][Next]_vars /\ WF_vars(End)
=============================================================================
