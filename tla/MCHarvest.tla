------------------------------ MODULE MCHarvest ------------------------------
(* Values of Harvest's constants for TLC: a reboot between samples 1 and 2   *)
(* takes longer than a gap may be.                                           *)
EXTENDS Harvest

CONSTANTS h1, h2

MCStamp == [s \in Samples |-> IF s = 1 THEN s ELSE s + 2]
MCBoot == [s \in Samples |-> IF s = 1 THEN 1 ELSE 2]
=============================================================================
