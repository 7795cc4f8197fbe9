--------------------------- MODULE MCKioskClient ----------------------------
(* Values of KioskClient's constants for TLC: two disks at the kiosk, and  *)
(* the orchestrator's own beside one in its dock.                          *)
EXTENDS KioskClient, TLC

CONSTANTS x1, x2, k1, k2, dock, own, a, b, c, s1, s2, u, v

Plugged == [d \in {k1, k2, dock, own} |-> IF d \in {k1, k2} THEN Kiosk ELSE Orchestrator]

\* The layout of a's node was collected, with its ESP; b's was not, but its
\* efi_uuid was; of c's node nothing is known.
Esp == [n \in Archives |-> IF n = a THEN u ELSE NoSerial]
Efi == [n \in Archives |-> IF n = a THEN u ELSE IF n = b THEN v ELSE NoSerial]

Interchangeable ==
    {f @@ g @@ h : f \in Permutations(Runs), g \in Permutations(Syncs), h \in Permutations({k1, k2})}
=============================================================================
