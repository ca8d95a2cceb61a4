-------------------------- MODULE MCStratumServer --------------------------
(* Small instances of StratumServer for TLC.                                *)
EXTENDS StratumServer, TLC

CONSTANTS c1, c2, c3
=============================================================================
