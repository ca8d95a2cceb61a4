--------------------------- MODULE MCJobBroadcast ---------------------------
(* Small instances of JobBroadcast for TLC.                                 *)
EXTENDS JobBroadcast, TLC

CONSTANTS s1, s2, b1, b2
=============================================================================
