----------------------------- MODULE MCVarDiff -----------------------------
(* Small instances of VarDiff for TLC.                                      *)
EXTENDS VarDiff, TLC

CONSTANTS s1, s2
=============================================================================
