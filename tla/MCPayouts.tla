----------------------------- MODULE MCPayouts -----------------------------
(* Small instances of Payouts for TLC.                                      *)
EXTENDS Payouts, TLC

CONSTANTS m1, m2
=============================================================================
