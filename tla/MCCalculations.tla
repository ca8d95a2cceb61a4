--------------------------- MODULE MCCalculations ---------------------------
(* Small instances of Calculations for TLC.                                 *)
EXTENDS Calculations

CONSTANTS alice, bob, Bob

MCLower == [m \in Miners |-> IF m = Bob THEN bob ELSE m]
=============================================================================
