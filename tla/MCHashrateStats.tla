-------------------------- MODULE MCHashrateStats --------------------------
(* Small instances of HashrateStats for TLC.                                *)
EXTENDS HashrateStats, TLC

CONSTANTS m1, w1, w2
=============================================================================
