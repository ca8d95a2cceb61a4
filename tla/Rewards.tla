------------------------------ MODULE Rewards ------------------------------
(***************************************************************************)
(* How the block unlocker splits a block reward (payouts/unlocker.go).      *)
(* The code computes with exact rationals (big.Rat) and rounds each amount  *)
(* to a whole satoshi with FloatString(0); here a rational is a pair of a   *)
(* numerator and a positive denominator.                                    *)
(***************************************************************************)
EXTENDS Integers

CONSTANTS
  FeeUnit,   \* a configured fee is a number of FeeUnit-ths of the value
  NoAddress, \* poolFeeAddress left empty in the configuration
  Lower      \* Lower[a]: strings.ToLower of an address

ASSUME FeeUnitAssumption == FeeUnit \in Nat \ {0}

\* What the configuration of the unlocker says about money.
IsConfig(config, Addresses) ==
  config \in [poolFee : 0..FeeUnit, keepTxFees : BOOLEAN,
              poolFeeAddress : Addresses \cup {NoAddress}]

\* big.Rat.FloatString(0): the nearest integer, halves away from zero (the
\* values here are never negative).
RoundUp(num, den) == (num + den - 1) \div den
FloatString0(num, den) == (2 * num + den) \div (2 * den)

\* chargeFee: what is left of value and the fee, both in FeeUnit-ths.
ChargeFee(value, poolFee) ==
  [left |-> value * (FeeUnit - poolFee), fee |-> value * poolFee]

\* The amount a map of Redis or of Go holds for login; absent means zero.
Amount(map, login) == IF login \in DOMAIN map THEN map[login] ELSE 0

\* rewards[login] += value on a Go map.
SetTo(map, login, value) ==
  [l \in DOMAIN map \cup {login} |-> IF l = login THEN value ELSE map[l]]
AddTo(map, login, value) ==
  [l \in DOMAIN map \cup {login} |->
     Amount(map, l) + (IF l = login THEN value ELSE 0)]

\* calculateRewardsForShares: shares are split of the reward num/den, each
\* login's part rounded on its own.
CalculateRewardsForShares(shares, total, num, den) ==
  [login \in DOMAIN shares |-> FloatString0(num * shares[login], den * total)]

\* handleBlock: fees either join the reward or are kept apart for the pool.
Reward(coinBaseValue, blkTotalFee, config) ==
  IF config.keepTxFees THEN coinBaseValue ELSE coinBaseValue + blkTotalFee

ExtraReward(blkTotalFee, config) ==
  IF config.keepTxFees THEN blkTotalFee ELSE 0

\* calculateRewards: the map login -> satoshi that is credited for a round.
CalculateRewards(shares, total, reward, extraReward, config) ==
  LET charged    == ChargeFee(reward, config.poolFee)
      poolProfit == charged.fee + extraReward * FeeUnit
      rewards    == CalculateRewardsForShares(shares, total, charged.left, FeeUnit)
  IN IF config.poolFeeAddress = NoAddress THEN rewards
     ELSE AddTo(rewards, Lower[config.poolFeeAddress], FloatString0(poolProfit, FeeUnit))
=============================================================================
