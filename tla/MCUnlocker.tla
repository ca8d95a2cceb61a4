----------------------------- MODULE MCUnlocker -----------------------------
(* Small instances of Unlocker for TLC.                                     *)
EXTENDS Unlocker, TLC

CONSTANTS b1, b2, alice, bob, pool, Pool

MCRoundShares == b1 :> (alice :> 1 @@ bob :> 2) @@ b2 :> (bob :> 1)
MCRoundSharesOne == b1 :> (alice :> 1 @@ bob :> 2)
MCCoinBaseValue == [b \in Blocks |-> 50]
MCBlkTotalFee == [b \in Blocks |-> 5]

\* The configured address has capitals.
MCLower == [l \in Logins |-> IF l = Pool THEN pool ELSE l]

\* The pool keeps a tenth and the fees; or takes nothing.
KeepFees == [poolFee |-> 1, keepTxFees |-> TRUE, poolFeeAddress |-> Pool]
NoFee == [poolFee |-> 0, keepTxFees |-> FALSE, poolFeeAddress |-> NoAddress]
MCConfigs == {KeepFees, NoFee}
MCOneConfig == {KeepFees}
=============================================================================
