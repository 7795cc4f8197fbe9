--------------------------- MODULE MCKioskAccess ---------------------------
(* Values of KioskAccess' constants for TLC.                                *)
EXTENDS KioskAccess

CONSTANTS m1, m2, own, fresh
=============================================================================
