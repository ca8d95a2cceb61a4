---------------------------- MODULE RewardSplit ----------------------------
(***************************************************************************)
(* One call of calculateRewards on arbitrary bounded inputs: Init picks the *)
(* round, the block's money and the configuration, the only step computes.  *)
(***************************************************************************)
EXTENDS Rewards, Functions, FiniteSets

CONSTANTS
  Logins,      \* the miners of a round, and the pool's own account
  MaxShares,   \* bound on a login's shares
  MaxReward,   \* bound on the subsidy
  MaxTxFee     \* bound on the fees

VARIABLES input, rewards

vars == <<input, rewards>>
NoRewards == [l \in {} |-> 0]

\* A round has at least one share; a login is in it only if it has shares.
RoundsOfShares == UNION {[S -> 1..MaxShares] : S \in (SUBSET Logins) \ {{}}}

\* The pool's address may be the login of a miner of the round.
Inputs ==
  [shares : RoundsOfShares, value : 0..MaxReward, txFee : 0..MaxTxFee,
   config : [poolFee : 0..FeeUnit, keepTxFees : BOOLEAN,
             poolFeeAddress : Logins \cup {NoAddress}]]

Init == input \in Inputs /\ rewards = NoRewards

Calculate ==
  /\ rewards = NoRewards
  /\ rewards' = CalculateRewards(input.shares, SumFunction(input.shares),
                                 Reward(input.value, input.txFee, input.config),
                                 ExtraReward(input.txFee, input.config), input.config)
  /\ UNCHANGED input

Next == Calculate
Spec == Init /\ [][Next]_vars

-----------------------------------------------------------------------------

Abs(n) == IF n < 0 THEN -n ELSE n

\* All that the configuration shares out, in FeeUnit-ths of a satoshi.
ToShareOut ==
  LET c == input.config
      all == FeeUnit * (input.value + input.txFee)
      pool == ChargeFee(Reward(input.value, input.txFee, c), c.poolFee).fee
                + FeeUnit * ExtraReward(input.txFee, c)
  IN IF c.poolFeeAddress = NoAddress THEN all - pool ELSE all

RoundedParts ==
  Cardinality(DOMAIN input.shares) + (IF input.config.poolFeeAddress = NoAddress THEN 0 ELSE 1)

\* The amounts credited for a round (calculateRewards) add up to the reward
\* with the pool's part, up to half a satoshi for each amount rounded: no
\* part is dropped, overwritten or counted twice, also when the pool's
\* address mines in the round.
SplitIsAccurate ==
  rewards # NoRewards =>
    2 * Abs(FeeUnit * SumFunction(rewards) - ToShareOut) <= FeeUnit * RoundedParts
=============================================================================
