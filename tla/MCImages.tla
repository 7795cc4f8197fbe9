------------------------------ MODULE MCImages ------------------------------
(* Values of Images' constants for TLC.                                     *)
EXTENDS Images

CONSTANTS x, y, k
=============================================================================
