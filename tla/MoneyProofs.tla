---------------------------- MODULE MoneyProofs ----------------------------
(***************************************************************************)
(* Proofs about the pool's money: that the split of a round's reward adds  *)
(* up, for every round, reward and fee, and that a node reads each coinbase *)
(* that is built as it was meant (Calculations); and the invariants of the *)
(* ledger that pays the rewards out, for every set of miners, every        *)
(* threshold and every number of faults (Payouts).                         *)
(***************************************************************************)
EXTENDS Payouts, Calculations, Sums, SequenceTheorems

-----------------------------------------------------------------------------
(* The split of a reward.                                                   *)

\* The library's operators, as the instance names them.
LEMMA SameSum == ASSUME NEW f PROVE Split!SumFunction(f) = SumFunction(f)
BY DEF Split!SumFunction, Split!SumFunctionOnSet, Split!FoldFunctionOnSet, Split!MapThenFoldSet,
       SumFunction, SumFunctionOnSet, FoldFunctionOnSet, MapThenFoldSet

LEMMA SameCardinality == ASSUME NEW S PROVE Split!Cardinality(S) = Cardinality(S)
BY DEF Split!Cardinality, Cardinality

\* The nearest integer is off by half at most.
LEMMA Rounding ==
  ASSUME NEW num \in Nat, NEW den \in Nat \ {0}
  PROVE  /\ Split!FloatString0(num, den) \in Nat
         /\ -den <= 2 * (den * Split!FloatString0(num, den)) - 2 * num
         /\ 2 * (den * Split!FloatString0(num, den)) - 2 * num <= den
<1> DEFINE n == 2 * num + den
           d == 2 * den
           q == n \div d
<1>1. n \in Nat /\ d \in Nat \ {0}
  OBVIOUS
<1>2. q \in Nat /\ d * q <= n /\ n < d * q + d
  <2> HIDE DEF n, d
  <2> QED
    BY <1>1
<1>3. d * q = 2 * (den * q)
  <2> HIDE DEF q
  <2> QED
    BY <1>2
<1>4. Split!FloatString0(num, den) = q
  BY DEF Split!FloatString0
<1> HIDE DEF q
<1> QED
  BY <1>2, <1>3, <1>4

\* A factor is cancelled from a bound.
LEMMA Cancel ==
  ASSUME NEW t \in Nat \ {0}, NEW x \in Int, NEW c \in Int, -(t * c) <= t * x, t * x <= t * c
  PROVE  -c <= x /\ x <= c
OBVIOUS

\* The parts of a reward, each rounded on its own, add up to the reward but for
\* half a satoshi each (calculateRewardsForShares).
LEMMA PartsAddUp ==
  ASSUME NEW shares, IsFiniteSet(DOMAIN shares), DOMAIN shares # {},
         \A l \in DOMAIN shares : shares[l] \in Nat \ {0},
         NEW left \in Nat, FeeUnit \in Nat \ {0}
  PROVE  LET parts == Split!CalculateRewardsForShares(shares, SumFunction(shares), left, FeeUnit)
             off   == 2 * (FeeUnit * SumFunction(parts)) - 2 * left
         IN /\ DOMAIN parts = DOMAIN shares
            /\ \A l \in DOMAIN parts : parts[l] \in Nat
            /\ -(FeeUnit * Cardinality(DOMAIN shares)) <= off
            /\ off <= FeeUnit * Cardinality(DOMAIN shares)
<1> DEFINE S == DOMAIN shares
           t == SumFunction(shares)
           den == FeeUnit * t
           parts == Split!CalculateRewardsForShares(shares, t, left, FeeUnit)
           worth == [l \in S |-> (2 * den) * parts[l]]
           due == [l \in S |-> (0 - 2 * left) * shares[l]]
           off == [l \in S |-> worth[l] + due[l]]
           n == Cardinality(S)
<1>1. t \in Nat \ {0}
  <2>1. \A l \in S : shares[l] \in Nat
    OBVIOUS
  <2>2. PICK l \in S : TRUE
    OBVIOUS
  <2>3. t \in Nat /\ shares[l] <= t
    BY <2>1, <2>2, SumNat, SumOfAll
  <2> HIDE DEF t
  <2> QED
    BY <2>2, <2>3
<1>2. n \in Nat
  BY FS_CardinalityType
<1> HIDE DEF t, n
<1>3. den \in Nat \ {0}
  BY <1>1
<1>4. DOMAIN parts = S /\ \A l \in S : parts[l] = Split!FloatString0(left * shares[l], den)
  BY DEF Split!CalculateRewardsForShares
<1> HIDE DEF parts
<1>5. ASSUME NEW l \in S
      PROVE  /\ parts[l] \in Nat
             /\ worth[l] \in Int /\ due[l] \in Int /\ off[l] \in Int
             /\ -den <= off[l] /\ off[l] <= den
  <2>1. shares[l] \in Nat /\ left * shares[l] \in Nat
    <3>1. \A a \in Nat, b \in Nat : a * b \in Nat
      OBVIOUS
    <3> QED
      BY <3>1
  <2> HIDE DEF den
  <2>2. /\ parts[l] \in Nat
        /\ -den <= 2 * (den * parts[l]) - 2 * (left * shares[l])
        /\ 2 * (den * parts[l]) - 2 * (left * shares[l]) <= den
    BY <1>3, <1>4, <2>1, Rounding
  <2>3. /\ worth[l] = 2 * (den * parts[l])
        /\ due[l] = -(2 * (left * shares[l]))
        /\ worth[l] \in Int /\ due[l] \in Int
    <3>1. \A a \in Nat, b \in Nat : (2 * a) * b = 2 * (a * b) /\ (0 - 2 * a) * b = -(2 * (a * b))
                                 /\ a * b \in Int
      OBVIOUS
    <3> QED
      BY <1>3, <2>1, <2>2, <3>1
  <2>4. off[l] = worth[l] + due[l]
    OBVIOUS
  <2> HIDE DEF worth, due, off
  <2> QED
    BY <1>3, <2>1, <2>2, <2>3, <2>4
<1> DEFINE p == SumFunctionOnSet(parts, S)
<1>6. SumFunctionOnSet(worth, S) = (2 * den) * p
  <2>1. \A l \in S : parts[l] \in Int /\ worth[l] = (2 * den) * parts[l]
    BY <1>5
  <2>2. 2 * den \in Int
    BY <1>3
  <2> HIDE DEF worth, den
  <2> QED
    BY <2>1, <2>2, SumScale
<1>7. SumFunctionOnSet(due, S) = (0 - 2 * left) * t
  <2>1. \A l \in S : shares[l] \in Int /\ due[l] = (0 - 2 * left) * shares[l]
    OBVIOUS
  <2>2. 0 - 2 * left \in Int
    OBVIOUS
  <2>3. t = SumFunctionOnSet(shares, S)
    BY SumOfAll DEF t
  <2> HIDE DEF due
  <2> QED
    BY <2>1, <2>2, <2>3, SumScale
<1>8. SumFunctionOnSet(off, S) = SumFunctionOnSet(worth, S) + SumFunctionOnSet(due, S)
  <2>1. \A l \in S : worth[l] \in Int /\ due[l] \in Int /\ off[l] = worth[l] + due[l]
    BY <1>5
  <2> HIDE DEF worth, due, off
  <2> QED
    BY <2>1, SumPlus
<1>9. -(den * n) <= SumFunctionOnSet(off, S) /\ SumFunctionOnSet(off, S) <= den * n
  <2>1. \A l \in S : off[l] \in Int /\ -den <= off[l] /\ off[l] <= den
    BY <1>5
  <2> HIDE DEF off, den
  <2> QED
    BY <1>3, <2>1, SumBounds DEF n
<1>10. p \in Nat
  <2>1. \A l \in S : parts[l] \in Nat
    BY <1>5
  <2> QED
    BY <2>1, SumNat
<1> HIDE DEF p, worth, due, off
<1>11. /\ (2 * den) * p + (0 - 2 * left) * t = t * (2 * (FeeUnit * p) - 2 * left)
       /\ den * n = t * (FeeUnit * n)
       /\ 2 * (FeeUnit * p) - 2 * left \in Int /\ FeeUnit * n \in Int
  BY <1>1, <1>2, <1>10
<1>12. /\ -(FeeUnit * n) <= 2 * (FeeUnit * p) - 2 * left
       /\ 2 * (FeeUnit * p) - 2 * left <= FeeUnit * n
  BY <1>1, <1>6, <1>7, <1>8, <1>9, <1>11, Cancel
<1>13. SumFunction(parts) = p
  BY <1>4, SumOfAll DEF p
<1> QED
  BY <1>4, <1>5, <1>12, <1>13 DEF parts, t, n

\* The pool's own part is one more amount, added to what its address may have
\* earned as a miner (calculateRewards).
LEMMA AddToSum ==
  ASSUME NEW map, IsFiniteSet(DOMAIN map), \A l \in DOMAIN map : map[l] \in Nat,
         NEW a, NEW v \in Nat
  PROVE  SumFunction(Split!AddTo(map, a, v)) = SumFunction(map) + v
<1> DEFINE S == DOMAIN map \cup {a}
           old == [l \in S |-> Split!Amount(map, l)]
           new == Split!AddTo(map, a, v)
<1>1. IsFiniteSet(S)
  BY FS_AddElement
<1>2. DOMAIN new = S /\ a \in S /\ DOMAIN map \subseteq S
  BY DEF Split!AddTo
<1>3. \A l \in S : /\ old[l] = (IF l \in DOMAIN map THEN map[l] ELSE 0)
                    /\ new[l] = old[l] + (IF l = a THEN v ELSE 0)
  BY DEF Split!AddTo, Split!Amount
<1> HIDE DEF old, new, S
<1>4. \A l \in S : old[l] \in Int /\ new[l] \in Int
  BY <1>3
<1>5. SumFunctionOnSet(new, S) = SumFunctionOnSet(old, S) + new[a] - old[a]
  <2>1. \A l \in S \ {a} : old[l] = new[l]
    BY <1>3, <1>4
  <2> QED
    BY <1>1, <1>2, <1>4, <2>1, SumChange
<1>6. SumFunctionOnSet(old, S) = SumFunctionOnSet(old, DOMAIN map)
  <2>1. \A l \in S \ DOMAIN map : old[l] = 0
    BY <1>3
  <2> QED
    BY <1>1, <1>2, <1>4, <2>1, SumOutside
<1>7. SumFunctionOnSet(old, DOMAIN map) = SumFunctionOnSet(map, DOMAIN map)
  BY <1>2, <1>3, SumSame
<1>8. SumFunctionOnSet(old, S) \in Int
  BY <1>1, <1>4, SumInt
<1>9. new[a] - old[a] = v /\ old[a] \in Int /\ new[a] \in Int
  BY <1>2, <1>3, <1>4
<1>10. SumFunctionOnSet(new, S) = SumFunctionOnSet(map, DOMAIN map) + v
  BY <1>5, <1>6, <1>7, <1>8, <1>9
<1> QED
  BY <1>2, <1>10, SumOfAll DEF new

\* What calculateRewards makes of the input that was picked.
Computed ==
  Split!CalculateRewards(round.shares, SumFunction(round.shares),
                         Split!Reward(round.value, round.txFee, round.config),
                         Split!ExtraReward(round.txFee, round.config), round.config)

\* The reward that was split, before rounding.
LEMMA ComputedIsAccurate ==
  ASSUME round \in Split!Inputs, rewards = Computed
  PROVE  Split!SplitIsAccurate
<1> DEFINE shares == round.shares
           c == round.config
           total == SumFunction(shares)
           reward == Split!Reward(round.value, round.txFee, c)
           extra == Split!ExtraReward(round.txFee, c)
           left == Split!ChargeFee(reward, c.poolFee).left
           fee == Split!ChargeFee(reward, c.poolFee).fee
           profit == fee + extra * FeeUnit
           n == Cardinality(DOMAIN shares)
           parts == Split!CalculateRewardsForShares(shares, total, left, FeeUnit)
           own == Split!FloatString0(profit, FeeUnit)
           all == FeeUnit * (round.value + round.txFee)
<1>1. /\ FeeUnit \in Nat \ {0} /\ round.value \in Nat /\ round.txFee \in Nat
      /\ c.poolFee \in 0..FeeUnit /\ c.keepTxFees \in BOOLEAN
  BY CalculationsAssumption DEF Split!Inputs
<1>2. /\ DOMAIN shares # {} /\ IsFiniteSet(DOMAIN shares) /\ n \in Nat
      /\ \A l \in DOMAIN shares : shares[l] \in Nat \ {0}
  <2>1. PICK S \in (SUBSET Miners) \ {{}} : shares \in [S -> 1..MaxShares]
    BY DEF Split!Inputs, Split!RoundsOfShares
  <2>2. 1..MaxShares \subseteq Nat \ {0}
    BY CalculationsAssumption
  <2>3. IsFiniteSet(S)
    BY <2>1, CalculationsAssumption, FS_Subset
  <2>4. DOMAIN shares = S /\ \A l \in S : shares[l] \in Nat \ {0}
    BY <2>1, <2>2
  <2>5. Cardinality(S) \in Nat
    BY <2>3, FS_CardinalityType
  <2>6. S # {}
    BY <2>1
  <2> HIDE DEF shares
  <2> QED
    BY <2>3, <2>4, <2>5, <2>6
<1>3. reward \in Nat /\ extra \in Nat /\ reward + extra = round.value + round.txFee
  BY <1>1 DEF Split!Reward, Split!ExtraReward
<1> HIDE DEF reward, extra
<1>4. /\ left \in Nat /\ fee \in Nat /\ left + fee = FeeUnit * reward
      /\ extra * FeeUnit = FeeUnit * extra /\ FeeUnit * extra \in Nat
      /\ all = FeeUnit * reward + FeeUnit * extra
  <2>1. left = reward * (FeeUnit - c.poolFee) /\ fee = reward * c.poolFee
    BY DEF Split!ChargeFee
  <2> HIDE DEF left, fee
  <2>2. FeeUnit - c.poolFee \in Nat /\ c.poolFee \in Nat
    BY <1>1
  <2>3. \A x \in Nat, y \in Nat : x * y \in Nat /\ x * y = y * x
    OBVIOUS
  <2>4. left \in Nat /\ fee \in Nat /\ extra * FeeUnit = FeeUnit * extra /\ FeeUnit * extra \in Nat
    BY <1>1, <1>3, <2>1, <2>2, <2>3
  <2>5. left + fee = FeeUnit * reward
    BY <1>1, <1>3, <2>1, <2>2
  <2>6. all = FeeUnit * reward + FeeUnit * extra
    <3>1. all = FeeUnit * (reward + extra)
      BY <1>3
    <3> HIDE DEF all
    <3> QED
      BY <1>1, <1>3, <3>1
  <2> QED
    BY <2>4, <2>5, <2>6
<1>5. rewards = IF c.poolFeeAddress = NoAddress THEN parts
                ELSE Split!AddTo(parts, Lower[c.poolFeeAddress], own)
  BY DEF Computed, Split!CalculateRewards, reward, extra
<1>6. Split!ToShareOut = IF c.poolFeeAddress = NoAddress THEN all - (fee + FeeUnit * extra) ELSE all
  BY DEF Split!ToShareOut, reward, extra
<1>7. Split!RoundedParts = n + (IF c.poolFeeAddress = NoAddress THEN 0 ELSE 1)
  BY SameCardinality DEF Split!RoundedParts
<1> HIDE DEF left, fee, n, all
<1>8. /\ DOMAIN parts = DOMAIN shares /\ \A l \in DOMAIN parts : parts[l] \in Nat
      /\ -(FeeUnit * n) <= 2 * (FeeUnit * SumFunction(parts)) - 2 * left
      /\ 2 * (FeeUnit * SumFunction(parts)) - 2 * left <= FeeUnit * n
  <2> HIDE DEF shares
  <2> QED
    BY <1>1, <1>2, <1>4, PartsAddUp DEF n
<1>9. /\ own \in Nat
      /\ -FeeUnit <= 2 * (FeeUnit * own) - 2 * profit
      /\ 2 * (FeeUnit * own) - 2 * profit <= FeeUnit
  <2>1. profit \in Nat
    BY <1>4
  <2> HIDE DEF profit
  <2> QED
    BY <1>1, <2>1, Rounding
<1>10. profit = fee + FeeUnit * extra
  BY <1>4
<1> HIDE DEF parts, own, profit, shares, c
<1> DEFINE p == SumFunction(parts)
<1>11. p \in Nat
  BY <1>2, <1>8, SumNat, SumOfAll
<1> HIDE DEF p
<1>12. ASSUME NEW x \in Int, NEW y \in Int, NEW z \in Int,
             rewards # Split!NoRewards =>
               /\ FeeUnit * SumFunction(rewards) = x /\ Split!ToShareOut = y
               /\ FeeUnit * Split!RoundedParts = z /\ -z <= 2 * x - 2 * y /\ 2 * x - 2 * y <= z
      PROVE  Split!SplitIsAccurate
  BY <1>12, SameSum DEF Split!SplitIsAccurate, Split!Abs
<1>13. CASE c.poolFeeAddress = NoAddress
  <2>1. rewards = parts /\ Split!ToShareOut = left /\ Split!RoundedParts = n
    BY <1>2, <1>4, <1>5, <1>6, <1>7, <1>13
  <2>2. FeeUnit * p \in Int /\ FeeUnit * n \in Int
    BY <1>1, <1>2, <1>11
  <2> QED
    BY <1>4, <1>8, <1>12, <2>1, <2>2 DEF p
<1>14. CASE c.poolFeeAddress # NoAddress
  <2>1. SumFunction(rewards) = p + own /\ Split!ToShareOut = all /\ Split!RoundedParts = n + 1
    BY <1>2, <1>5, <1>6, <1>7, <1>8, <1>9, <1>14, AddToSum DEF p
  <2>2. /\ FeeUnit * (p + own) = FeeUnit * p + FeeUnit * own
        /\ FeeUnit * (n + 1) = FeeUnit * n + FeeUnit
        /\ FeeUnit * p \in Int /\ FeeUnit * own \in Int /\ FeeUnit * n \in Int
    BY <1>1, <1>2, <1>9, <1>11
  <2> DEFINE x == FeeUnit * (p + own)
             z == FeeUnit * (n + 1)
  <2>3. all = left + profit /\ profit \in Nat
    BY <1>4, <1>10, <1>3, <1>1
  <2>4. x \in Int /\ z \in Int /\ all \in Int /\ -z <= 2 * x - 2 * all /\ 2 * x - 2 * all <= z
    BY <1>1, <1>4, <1>8, <1>9, <2>2, <2>3 DEF p
  <2> HIDE DEF x, z
  <2>5. FeeUnit * SumFunction(rewards) = x /\ FeeUnit * Split!RoundedParts = z
    BY <2>1 DEF x, z
  <2> QED
    BY <1>12, <2>1, <2>4, <2>5
<1> QED
  BY <1>13, <1>14

\* Either a coinbase is built, and nothing is split, or the rewards are those of
\* the round that was picked.
SplitInv ==
  \/ round = NoInput /\ rewards = Split!NoRewards
  \/ round \in Split!Inputs /\ rewards \in {Split!NoRewards, Computed}

\* Whatever the step, the rewards are none or those of the round that was picked
\* (calculateRewards).
THEOREM SplitInvariance == CalculationsSpec => []SplitInv
<1>1. CalculationsInit => SplitInv
  BY DEF CalculationsInit, Split!Init, SplitInv
<1>2. SplitInv /\ [CalculationsNext]_<<round, rewards, coinbase, job, raw>> => SplitInv'
  <2> SUFFICES ASSUME SplitInv, [CalculationsNext]_<<round, rewards, coinbase, job, raw>>
               PROVE  SplitInv'
    OBVIOUS
  <2>1. CASE round # NoInput /\ Split!Next
    BY <2>1, SameSum DEF Split!Next, Split!Calculate, SplitInv, Computed
  <2>2. CASE UNCHANGED <<round, rewards>>
    BY <2>2 DEF SplitInv, Computed
  <2> QED
    BY <2>1, <2>2 DEF CalculationsNext
<1> QED
  BY <1>1, <1>2, PTL DEF CalculationsSpec

\* The amounts credited for a round add up to the reward with the pool's part,
\* up to half a satoshi for each amount rounded, whatever the shares, the reward,
\* the fee, and whether the pool's address mines (calculateRewards).
THEOREM RewardAddsUp == CalculationsSpec => []SplitIsAccurate
<1>1. SplitInv => SplitIsAccurate
  <2>1. CASE rewards = Split!NoRewards
    BY <2>1 DEF SplitIsAccurate, Split!SplitIsAccurate
  <2>2. CASE round \in Split!Inputs /\ rewards = Computed
    BY <2>2, ComputedIsAccurate DEF SplitIsAccurate
  <2> QED
    BY <2>1, <2>2 DEF SplitInv
<1> QED
  BY <1>1, SplitInvariance, PTL

-----------------------------------------------------------------------------
(* The coinbase: the bytes of a number (PackNumber).                        *)

LEMMA SameBuildSum == ASSUME NEW f PROVE Build!SumFunction(f) = SumFunction(f)
BY DEF Build!SumFunction, Build!SumFunctionOnSet, Build!FoldFunctionOnSet, Build!MapThenFoldSet,
       SumFunction, SumFunctionOnSet, FoldFunctionOnSet, MapThenFoldSet

\* One turn of the loop, where the bytes of the quotient are known.
Small(n) == n <= 127
Low(n) == n % 256
Turn(n, higher) == IF Small(n) THEN <<n>> ELSE <<Low(n)>> \o higher
Loops(g, S) == g = [n \in S |-> Turn(n, g[n \div 256])]

LEMMA Descends ==
  ASSUME NEW n \in Nat
  PROVE  /\ n \div 256 \in Nat
         /\ n \div 256 < n \/ \A s, t : Turn(n, s) = Turn(n, t)
BY DEF Turn, Small

LEMMA LoopsTurn ==
  ASSUME NEW g, NEW S, Loops(g, S), NEW n \in S
  PROVE  g[n] = Turn(n, g[n \div 256])
BY DEF Loops

LEMMA LoopExists == ASSUME NEW k \in Nat PROVE \E g : Loops(g, 0..k)
<1> DEFINE Good(n) == \E g : Loops(g, 0..n)
           Bad == {n \in Nat : ~Good(n)}
<1> SUFFICES ASSUME Bad # {} PROVE FALSE
  OBVIOUS
<1>1. PICK m \in Bad : \A n \in Bad : m <= n
  <2> HIDE DEF Good
  <2> QED
    BY LeastNumber
<1>2. m # 0
  <2> DEFINE g == [n \in 0..0 |-> Turn(n, <<>>)]
  <2>1. 0 \div 256 = 0 /\ \A s, t : Turn(0, s) = Turn(0, t)
    BY Descends
  <2>2. \A n \in 0..0 : Turn(n, <<>>) = Turn(n, g[n \div 256])
    BY <2>1
  <2>3. Loops(g, 0..0)
    BY <2>2 DEF Loops
  <2> QED
    BY <1>1, <2>3
<1>3. PICK g : Loops(g, 0..(m - 1))
  <2>1. m - 1 \in Nat /\ ~(m <= m - 1)
    BY <1>1, <1>2
  <2>2. Good(m - 1)
    <3> HIDE DEF Good
    <3> QED
      BY <1>1, <2>1
  <2> QED
    BY <2>2
<1> DEFINE h == [n \in 0..m |-> Turn(n, g[n \div 256])]
<1>4. \A n \in 0..(m - 1) : h[n] = g[n]
  <2>1. \A n \in 0..(m - 1) : g[n] = Turn(n, g[n \div 256])
    <3> DEFINE S == 0..(m - 1)
    <3>1. Loops(g, S)
      BY <1>3
    <3> HIDE DEF S
    <3>2. \A n \in S : g[n] = Turn(n, g[n \div 256])
      BY <3>1, LoopsTurn
    <3> QED
      BY <3>2 DEF S
  <2>2. \A n \in 0..(m - 1) : n \in 0..m
    BY <1>1
  <2> QED
    BY <2>1, <2>2
<1>5. ASSUME NEW n \in 0..m
      PROVE  Turn(n, g[n \div 256]) = Turn(n, h[n \div 256])
  <2>1. n \div 256 \in Nat /\ (n \div 256 < n => n \div 256 \in 0..(m - 1))
    BY <1>1, Descends
  <2> HIDE DEF h
  <2> QED
    BY <1>4, <2>1, Descends
<1>6. Loops(h, 0..m)
  <2>1. h = [n \in 0..m |-> Turn(n, g[n \div 256])]
    OBVIOUS
  <2> HIDE DEF h
  <2> QED
    BY <1>5, <2>1 DEF Loops
<1> QED
  BY <1>1, <1>6

LEMMA LoopsAgree ==
  ASSUME NEW k \in Nat, NEW m \in Nat, NEW g, NEW h, Loops(g, 0..k), Loops(h, 0..m),
         NEW n \in Nat, n <= k, n <= m
  PROVE  g[n] = h[n]
<1> DEFINE Bad == {i \in Nat : i <= k /\ i <= m /\ g[i] # h[i]}
<1> SUFFICES ASSUME Bad # {} PROVE FALSE
  OBVIOUS
<1>1. PICK i \in Bad : \A j \in Bad : i <= j
  BY LeastNumber
<1>2. i \div 256 < i => g[i \div 256] = h[i \div 256]
  BY <1>1, Descends
<1>3. i \in 0..k /\ i \in 0..m
  BY <1>1
<1>4. g[i] = Turn(i, g[i \div 256]) /\ h[i] = Turn(i, h[i \div 256])
  BY <1>3, LoopsTurn
<1>5. g[i] = h[i]
  BY <1>1, <1>2, <1>4, Descends
<1> QED
  BY <1>1, <1>5

LEMMA SignedBytesTurn ==
  ASSUME NEW n \in Nat
  PROVE  Build!SignedBytes(n) = Turn(n, Build!SignedBytes(n \div 256))
<1> DEFINE G(k) == CHOOSE g : Loops(g, 0..k)
           F == [k \in Nat |-> G(k)[k]]
<1>1. \A k \in Nat : Loops(G(k), 0..k)
  BY LoopExists
<1> HIDE DEF G
<1>2. ASSUME NEW k \in Nat
      PROVE  F[k] = Turn(k, F[k \div 256])
  <2>1. G(k)[k] = Turn(k, G(k)[k \div 256])
    BY <1>1, LoopsTurn
  <2>2. ASSUME k \div 256 < k PROVE G(k)[k \div 256] = G(k \div 256)[k \div 256]
    <3> DEFINE j == k \div 256
    <3>1. j \in Nat /\ j <= k
      BY <2>2, Descends
    <3> HIDE DEF j
    <3>2. Loops(G(k), 0..k) /\ Loops(G(j), 0..j)
      BY <1>1, <3>1
    <3>3. G(k)[j] = G(j)[j]
      BY <3>1, <3>2, LoopsAgree
    <3> QED
      BY <3>3 DEF j
  <2>3. F[k] = G(k)[k] /\ F[k \div 256] = G(k \div 256)[k \div 256]
    BY Descends
  <2> HIDE DEF F
  <2> QED
    BY <2>1, <2>2, <2>3, Descends
<1>3. Loops(F, Nat)
  <2>1. F = [k \in Nat |-> F[k]]
    OBVIOUS
  <2> HIDE DEF F
  <2> QED
    BY <1>2, <2>1 DEF Loops
<1>4. Build!Upto127 = CHOOSE f : Loops(f, Nat)
  BY DEF Build!Upto127, Loops, Turn, Small, Low
<1>5. Loops(Build!Upto127, Nat)
  BY <1>3, <1>4
<1>6. Build!Upto127[n] = Turn(n, Build!Upto127[n \div 256])
  BY <1>5, LoopsTurn
<1> QED
  BY <1>6 DEF Build!SignedBytes

LEMMA JoinOne ==
  ASSUME NEW a, NEW b, NEW c, NEW d
  PROVE  /\ <<a>> \o <<b>> = <<a, b>>
         /\ <<a>> \o <<b, c>> = <<a, b, c>>
         /\ <<a>> \o <<b, c, d>> = <<a, b, c, d>>
<1> DEFINE E == {a, b, c, d}
<1>1. /\ <<a>> \in Seq(E) /\ <<b>> \in Seq(E) /\ <<b, c>> \in Seq(E) /\ <<b, c, d>> \in Seq(E)
      /\ <<a, b>> \in Seq(E) /\ <<a, b, c>> \in Seq(E) /\ <<a, b, c, d>> \in Seq(E)
  OBVIOUS
<1>2. /\ Len(<<a>>) = 1 /\ Len(<<b>>) = 1 /\ Len(<<b, c>>) = 2 /\ Len(<<b, c, d>>) = 3
      /\ Len(<<a, b>>) = 2 /\ Len(<<a, b, c>>) = 3 /\ Len(<<a, b, c, d>>) = 4
  OBVIOUS
<1> HIDE DEF E
<1>3. <<a>> \o <<b>> = <<a, b>>
  <2>1. /\ <<a>> \o <<b>> \in Seq(E) /\ Len(<<a>> \o <<b>>) = 2
        /\ \A i \in 1..2 : (<<a>> \o <<b>>)[i] = IF i <= 1 THEN <<a>>[i] ELSE <<b>>[i - 1]
    BY <1>1, <1>2, ConcatProperties
  <2>2. \A i \in 1..2 : (<<a>> \o <<b>>)[i] = <<a, b>>[i]
    BY <2>1
  <2> QED
    BY <1>1, <1>2, <2>1, <2>2, SeqEqual
<1>4. <<a>> \o <<b, c>> = <<a, b, c>>
  <2>1. /\ <<a>> \o <<b, c>> \in Seq(E) /\ Len(<<a>> \o <<b, c>>) = 3
        /\ \A i \in 1..3 : (<<a>> \o <<b, c>>)[i] = IF i <= 1 THEN <<a>>[i] ELSE <<b, c>>[i - 1]
    BY <1>1, <1>2, ConcatProperties
  <2>2. \A i \in 1..3 : (<<a>> \o <<b, c>>)[i] = <<a, b, c>>[i]
    BY <2>1
  <2> QED
    BY <1>1, <1>2, <2>1, <2>2, SeqEqual
<1>5. <<a>> \o <<b, c, d>> = <<a, b, c, d>>
  <2>1. /\ <<a>> \o <<b, c, d>> \in Seq(E) /\ Len(<<a>> \o <<b, c, d>>) = 4
        /\ \A i \in 1..4 : (<<a>> \o <<b, c, d>>)[i]
                             = IF i <= 1 THEN <<a>>[i] ELSE <<b, c, d>>[i - 1]
    BY <1>1, <1>2, ConcatProperties
  <2>2. \A i \in 1..4 : (<<a>> \o <<b, c, d>>)[i] = <<a, b, c, d>>[i]
    BY <2>1
  <2> QED
    BY <1>1, <1>2, <2>1, <2>2, SeqEqual
<1> QED
  BY <1>3, <1>4, <1>5

LEMMA LastTurn == ASSUME NEW n, NEW s, Small(n) PROVE Turn(n, s) = <<n>>
BY DEF Turn

LEMMA TwoBytes ==
  ASSUME NEW n, ~Small(n), NEW b, NEW s, s = Turn(n, <<b>>)
  PROVE  s = <<Low(n), b>>
<1>1. s = <<Low(n)>> \o <<b>>
  BY DEF Turn
<1> QED
  BY <1>1, JoinOne

LEMMA ThreeBytes ==
  ASSUME NEW n, ~Small(n), NEW b, NEW c, NEW s, s = Turn(n, <<b, c>>)
  PROVE  s = <<Low(n), b, c>>
<1>1. s = <<Low(n)>> \o <<b, c>>
  BY DEF Turn
<1> QED
  BY <1>1, JoinOne

LEMMA FourBytes ==
  ASSUME NEW n, ~Small(n), NEW b, NEW c, NEW d, NEW s, s = Turn(n, <<b, c, d>>)
  PROVE  s = <<Low(n), b, c, d>>
<1>1. s = <<Low(n)>> \o <<b, c, d>>
  BY DEF Turn
<1> QED
  BY <1>1, JoinOne

\* So a number of up to 31 bits has four bytes at most.
LEMMA SignedBytesAre ==
  ASSUME NEW n \in Nat, NEW n1 \in Nat, NEW n2 \in Nat, NEW n3 \in Nat,
         n1 = n \div 256, n2 = n1 \div 256, n3 = n2 \div 256, Small(n3)
  PROVE  LET b == Build!SignedBytes(n)
         IN /\ Small(n) => b = <<n>>
            /\ ~Small(n) /\ Small(n1) => b = <<Low(n), n1>>
            /\ ~Small(n) /\ ~Small(n1) /\ Small(n2) => b = <<Low(n), Low(n1), n2>>
            /\ ~Small(n) /\ ~Small(n1) /\ ~Small(n2)
                 => b = <<Low(n), Low(n1), Low(n2), n3>>
<1> DEFINE b == Build!SignedBytes(n)
           b1 == Build!SignedBytes(n1)
           b2 == Build!SignedBytes(n2)
           b3 == Build!SignedBytes(n3)
           more == Build!SignedBytes(n3 \div 256)
<1>1. b = Turn(n, b1) /\ b1 = Turn(n1, b2) /\ b2 = Turn(n2, b3) /\ b3 = Turn(n3, more)
  BY SignedBytesTurn
<1> HIDE DEF b, b1, b2, b3, more
<1>2. b3 = <<n3>>
  BY <1>1, LastTurn
<1>3. Small(n2) => b2 = <<n2>>
  BY <1>1, LastTurn
<1>4. ~Small(n2) => b2 = <<Low(n2), n3>>
  <2> SUFFICES ASSUME ~Small(n2) PROVE b2 = <<Low(n2), n3>>
    OBVIOUS
  <2>1. b2 = Turn(n2, <<n3>>)
    BY <1>1, <1>2
  <2> QED
    BY <2>1, TwoBytes
<1>5. Small(n1) => b1 = <<n1>>
  BY <1>1, LastTurn
<1>6. ~Small(n1) /\ Small(n2) => b1 = <<Low(n1), n2>>
  <2> SUFFICES ASSUME ~Small(n1) /\ Small(n2) PROVE b1 = <<Low(n1), n2>>
    OBVIOUS
  <2>1. b1 = Turn(n1, <<n2>>)
    BY <1>1, <1>3
  <2> QED
    BY <2>1, TwoBytes
<1>7. ~Small(n1) /\ ~Small(n2) => b1 = <<Low(n1), Low(n2), n3>>
  <2> SUFFICES ASSUME ~Small(n1) /\ ~Small(n2) PROVE b1 = <<Low(n1), Low(n2), n3>>
    OBVIOUS
  <2>1. b1 = Turn(n1, <<Low(n2), n3>>)
    BY <1>1, <1>4
  <2> QED
    BY <2>1, ThreeBytes
<1>8. Small(n) => b = <<n>>
  BY <1>1, LastTurn
<1>9. ~Small(n) /\ Small(n1) => b = <<Low(n), n1>>
  <2> SUFFICES ASSUME ~Small(n) /\ Small(n1) PROVE b = <<Low(n), n1>>
    OBVIOUS
  <2>1. b = Turn(n, <<n1>>)
    BY <1>1, <1>5
  <2> QED
    BY <2>1, TwoBytes
<1>10. ~Small(n) /\ ~Small(n1) /\ Small(n2) => b = <<Low(n), Low(n1), n2>>
  <2> SUFFICES ASSUME ~Small(n) /\ ~Small(n1) /\ Small(n2) PROVE b = <<Low(n), Low(n1), n2>>
    OBVIOUS
  <2>1. b = Turn(n, <<Low(n1), n2>>)
    BY <1>1, <1>6
  <2> QED
    BY <2>1, ThreeBytes
<1>11. ~Small(n) /\ ~Small(n1) /\ ~Small(n2) => b = <<Low(n), Low(n1), Low(n2), n3>>
  <2> SUFFICES ASSUME ~Small(n) /\ ~Small(n1) /\ ~Small(n2) PROVE b = <<Low(n), Low(n1), Low(n2), n3>>
    OBVIOUS
  <2>1. b = Turn(n, <<Low(n1), Low(n2), n3>>)
    BY <1>1, <1>7
  <2> QED
    BY <2>1, FourBytes
<1> QED
  BY <1>8, <1>9, <1>10, <1>11 DEF b

LEMMA SumOfUpToFour ==
  ASSUME NEW k \in 1..4, NEW f, DOMAIN f = 1..k, \A i \in 1..k : f[i] \in Int
  PROVE  SumFunction(f) = f[1] + (IF k > 1 THEN f[2] ELSE 0) + (IF k > 2 THEN f[3] ELSE 0)
                               + (IF k > 3 THEN f[4] ELSE 0)
<1> DEFINE T(n) == SumFunctionOnSet(f, 1..n)
<1>1. ASSUME NEW n \in 1..k PROVE T(n) = f[n] + T(n - 1) /\ T(n) \in Int
  <2>1. n \in 1..n /\ (1..n) \ {n} = 1..(n - 1)
    OBVIOUS
  <2>3. IsFiniteSet(1..n)
    BY FS_Interval
  <2>2. \A i \in 1..n : f[i] \in Int
    OBVIOUS
  <2> QED
    BY <2>1, <2>2, <2>3, SumRemove, SumInt
<1>2. T(0) = 0
  BY SumEmpty
<1>3. SumFunction(f) = T(k)
  BY SumOfAll
<1> HIDE DEF T
<1>4. CASE k = 1
  BY <1>1, <1>2, <1>3, <1>4
<1>5. CASE k = 2
  BY <1>1, <1>2, <1>3, <1>5
<1>6. CASE k = 3
  BY <1>1, <1>2, <1>3, <1>6
<1>7. CASE k = 4
  BY <1>1, <1>2, <1>3, <1>7
<1> QED
  BY <1>4, <1>5, <1>6, <1>7

LEMMA ScriptNumberIs ==
  ASSUME NEW k \in 1..4, NEW b, DOMAIN b = 1..k, \A i \in 1..k : b[i] \in Int
  PROVE  Build!ScriptNumber(b) = b[1] + (IF k > 1 THEN 256 * b[2] ELSE 0)
           + (IF k > 2 THEN 65536 * b[3] ELSE 0) + (IF k > 3 THEN 16777216 * b[4] ELSE 0)
<1> DEFINE f == [i \in DOMAIN b |-> b[i] * Build!Place[i]]
<1>1. /\ Build!Place[1] = 1 /\ Build!Place[2] = 256
      /\ Build!Place[3] = 65536 /\ Build!Place[4] = 16777216
  BY SMT DEF Build!Place
<1>2. \A i \in 1..k : f[i] = b[i] * Build!Place[i] /\ Build!Place[i] \in Int
  BY SMT, <1>1
<1>3. DOMAIN f = 1..k /\ \A i \in 1..k : f[i] \in Int
  BY SMT, <1>2
<1>4. Build!ScriptNumber(b) = SumFunction(f)
  BY SameBuildSum DEF Build!ScriptNumber
<1> HIDE DEF f
<1>5. Build!ScriptNumber(b) = f[1] + (IF k > 1 THEN f[2] ELSE 0) + (IF k > 2 THEN f[3] ELSE 0)
                                   + (IF k > 3 THEN f[4] ELSE 0)
  BY <1>3, <1>4, SumOfUpToFour
<1>6. /\ f[1] = b[1] /\ (k > 1 => f[2] = 256 * b[2])
      /\ (k > 2 => f[3] = 65536 * b[3]) /\ (k > 3 => f[4] = 16777216 * b[4])
  <2>1. 1 \in 1..k /\ (k > 1 => 2 \in 1..k) /\ (k > 2 => 3 \in 1..k) /\ (k > 3 => 4 \in 1..k)
    OBVIOUS
  <2>2. f[1] = b[1] * Build!Place[1] /\ b[1] \in Int
    BY <1>2, <2>1
  <2>3. k > 1 => f[2] = b[2] * Build!Place[2] /\ b[2] \in Int
    BY <1>2, <2>1
  <2>4. k > 2 => f[3] = b[3] * Build!Place[3] /\ b[3] \in Int
    BY <1>2, <2>1
  <2>5. k > 3 => f[4] = b[4] * Build!Place[4] /\ b[4] \in Int
    BY <1>2, <2>1
  <2> QED
    BY SMT, <1>1, <2>2, <2>3, <2>4, <2>5
<1> QED
  BY SMT, <1>5, <1>6

\* What a node makes of such bytes.
Digits(h, b) ==
  /\ b \in Seq(Int) /\ Len(b) \in 1..4 /\ DOMAIN b = 1..Len(b)
  /\ Build!ScriptNumber(b) = h
  /\ Build!IsShortest(b)

Carries(n, high, low) ==
  n \in Nat /\ n > 0 /\ high \in Nat /\ low \in 0..255 /\ n = 256 * high + low

LEMMA DigitsOf ==
  ASSUME NEW h, NEW n1, NEW n2, NEW n3, NEW d1, NEW d2, NEW d3, Small(n3), h \in Nat, h > 0,
         ~Small(h) => Carries(h, n1, d1),
         ~Small(h) /\ ~Small(n1) => Carries(n1, n2, d2),
         ~Small(h) /\ ~Small(n1) /\ ~Small(n2) => Carries(n2, n3, d3)
  PROVE  /\ Small(h) => Digits(h, <<h>>)
         /\ ~Small(h) /\ Small(n1) => Digits(h, <<d1, n1>>)
         /\ ~Small(h) /\ ~Small(n1) /\ Small(n2) => Digits(h, <<d1, d2, n2>>)
         /\ ~Small(h) /\ ~Small(n1) /\ ~Small(n2) => Digits(h, <<d1, d2, d3, n3>>)
<1>1. ASSUME Small(h) PROVE Digits(h, <<h>>)
  <2>0. h \in Int
    BY SMT, <1>1 DEF Carries
  <2>1. /\ <<h>> \in Seq(Int) /\ Len(<<h>>) = 1
        /\ DOMAIN <<h>> = 1..1
    BY <2>0
  <2>2. h < 128 /\ h > 0
    BY SMT, <1>1 DEF Small, Carries
  <2>3. Build!ScriptNumber(<<h>>) = h
    BY SMT, <2>0, <2>1, <2>2, ScriptNumberIs
  <2> QED
    BY SMT, <2>0, <2>1, <2>2, <2>3 DEF Digits, Build!IsShortest
<1>2. ASSUME ~Small(h) /\ Small(n1) PROVE Digits(h, <<d1, n1>>)
  <2>0. d1 \in Int /\ n1 \in Int
    BY SMT, <1>2 DEF Carries
  <2>1. /\ <<d1, n1>> \in Seq(Int) /\ Len(<<d1, n1>>) = 2
        /\ DOMAIN <<d1, n1>> = 1..2
    BY <2>0
  <2>2. n1 < 128 /\ (n1 = 0 => d1 >= 128) /\ h = d1 + 256 * n1
    BY SMT, <1>2 DEF Small, Carries
  <2>3. Build!ScriptNumber(<<d1, n1>>) = h
    BY SMT, <2>0, <2>1, <2>2, ScriptNumberIs
  <2> QED
    BY SMT, <2>0, <2>1, <2>2, <2>3 DEF Digits, Build!IsShortest
<1>3. ASSUME ~Small(h) /\ ~Small(n1) /\ Small(n2) PROVE Digits(h, <<d1, d2, n2>>)
  <2>0. d1 \in Int /\ d2 \in Int /\ n2 \in Int
    BY SMT, <1>3 DEF Carries
  <2>1. /\ <<d1, d2, n2>> \in Seq(Int) /\ Len(<<d1, d2, n2>>) = 3
        /\ DOMAIN <<d1, d2, n2>> = 1..3
    BY <2>0
  <2>2. /\ h = 256 * n1 + d1 /\ n1 = 256 * n2 + d2 /\ n1 > 127
        /\ n1 \in Nat /\ n2 \in Nat /\ d1 \in Nat /\ d2 \in Nat /\ n2 <= 127
    BY SMT, <1>3 DEF Small, Carries
  <2>3. /\ n2 < 128 /\ (n2 = 0 => d2 >= 128)
        /\ h = d1 + 256 * d2 + 65536 * n2
    BY SMT, <2>2
  <2>4. Build!ScriptNumber(<<d1, d2, n2>>) = h
    BY SMT, <2>0, <2>1, <2>3, ScriptNumberIs
  <2> QED
    BY SMT, <2>0, <2>1, <2>3, <2>4 DEF Digits, Build!IsShortest
<1>4. ASSUME ~Small(h) /\ ~Small(n1) /\ ~Small(n2) PROVE Digits(h, <<d1, d2, d3, n3>>)
  <2>0. d1 \in Int /\ d2 \in Int /\ d3 \in Int /\ n3 \in Int
    BY SMT, <1>4 DEF Carries
  <2>1. /\ <<d1, d2, d3, n3>> \in Seq(Int) /\ Len(<<d1, d2, d3, n3>>) = 4
        /\ DOMAIN <<d1, d2, d3, n3>> = 1..4
    BY <2>0
  <2>2. /\ h = 256 * n1 + d1 /\ n1 = 256 * n2 + d2 /\ n2 = 256 * n3 + d3 /\ n2 > 127
        /\ n1 \in Nat /\ n2 \in Nat /\ n3 \in Nat /\ n3 <= 127
        /\ d1 \in Nat /\ d2 \in Nat /\ d3 \in Nat
    BY SMT, <1>4 DEF Small, Carries
  <2>3. /\ n3 < 128 /\ (n3 = 0 => d3 >= 128)
        /\ h = d1 + 256 * d2 + 65536 * d3 + 16777216 * n3
    BY SMT, <2>2
  <2>4. Build!ScriptNumber(<<d1, d2, d3, n3>>) = h
    BY SMT, <2>0, <2>1, <2>3, ScriptNumberIs
  <2> QED
    BY SMT, <2>0, <2>1, <2>3, <2>4 DEF Digits, Build!IsShortest
<1> QED
  BY <1>1, <1>2, <1>3, <1>4

LEMMA FourBytesAtMost ==
  ASSUME NEW h \in Nat, h <= 2147483647
  PROVE  Small(((h \div 256) \div 256) \div 256)
<1> DEFINE n1 == h \div 256
           n2 == n1 \div 256
<1>1. n1 \in Nat /\ n1 <= 8388607
  BY SMT
<1> HIDE DEF n1
<1>2. n2 \in Nat /\ n2 <= 32767
  BY SMT, <1>1
<1> HIDE DEF n2
<1>3. n2 \div 256 <= 127
  BY SMT, <1>2
<1> QED
  BY SMT, <1>3 DEF Small, n1, n2

LEMMA NumberIsRead ==
  ASSUME NEW h \in Nat, h > 0, Small(((h \div 256) \div 256) \div 256)
  PROVE  Digits(h, Build!SignedBytes(h))
<1> DEFINE n1 == h \div 256
           n2 == n1 \div 256
           n3 == n2 \div 256
           b == Build!SignedBytes(h)
           d1 == Low(h)
           d2 == Low(n1)
           d3 == Low(n2)
<1>0. Small(n3)
  OBVIOUS
<1>1. /\ n1 \in Nat /\ n2 \in Nat /\ n3 \in Nat
      /\ d1 \in 0..255 /\ d2 \in 0..255 /\ d3 \in 0..255
      /\ h = 256 * n1 + d1 /\ n1 = 256 * n2 + d2 /\ n2 = 256 * n3 + d3
  BY SMT DEF Low
<1>2. /\ Small(h) => b = <<h>>
      /\ ~Small(h) /\ Small(n1) => b = <<d1, n1>>
      /\ ~Small(h) /\ ~Small(n1) /\ Small(n2) => b = <<d1, d2, n2>>
      /\ ~Small(h) /\ ~Small(n1) /\ ~Small(n2) => b = <<d1, d2, d3, n3>>
  BY SMT, <1>0, <1>1, SignedBytesAre
<1> HIDE DEF n1, n2, n3, b, d1, d2, d3
<1>3. /\ ~Small(h) => Carries(h, n1, d1)
      /\ ~Small(n1) => Carries(n1, n2, d2)
      /\ ~Small(n2) => Carries(n2, n3, d3)
  BY SMT, <1>1 DEF Small, Carries
<1>4. /\ Small(h) => Digits(h, <<h>>)
      /\ ~Small(h) /\ Small(n1) => Digits(h, <<d1, n1>>)
      /\ ~Small(h) /\ ~Small(n1) /\ Small(n2) => Digits(h, <<d1, d2, n2>>)
      /\ ~Small(h) /\ ~Small(n1) /\ ~Small(n2) => Digits(h, <<d1, d2, d3, n3>>)
  BY Zenon, <1>0, <1>3, DigitsOf
<1> QED
  BY Zenon, <1>2, <1>4 DEF b

-----------------------------------------------------------------------------
(* The coinbase: sequences that are joined.                                 *)

LEMMA Joined ==
  ASSUME NEW E, NEW a \in Seq(E), NEW b \in Seq(E)
  PROVE  a \o b \in Seq(E) /\ Len(a \o b) = Len(a) + Len(b) /\ Len(a) \in Nat /\ Len(b) \in Nat
BY ConcatProperties, LenProperties

LEMMA MiddlePart ==
  ASSUME NEW E, NEW a \in Seq(E), NEW b \in Seq(E), NEW c \in Seq(E)
  PROVE  SubSeq(a \o b \o c, Len(a) + 1, Len(a) + Len(b)) = b
<1> DEFINE m == Len(a) + 1
           n == Len(a) + Len(b)
           w == a \o b \o c
           t == SubSeq(w, m, n)
<1>1. /\ Len(a) \in Nat /\ Len(b) \in Nat /\ Len(c) \in Nat
      /\ a \o b \in Seq(E) /\ Len(a \o b) = Len(a) + Len(b)
      /\ w \in Seq(E)
  BY Joined
<1>2. \A i \in 1..Len(b) : w[Len(a) + i] = b[i] /\ b[i] \in E
  <2> SUFFICES ASSUME NEW i \in 1..Len(b) PROVE w[Len(a) + i] = b[i] /\ b[i] \in E
    OBVIOUS
  <2>1. w[Len(a) + i] = (a \o b)[Len(a) + i]
    <3>1. Len(a) + i \in 1..Len(a \o b) + Len(c) /\ Len(a) + i <= Len(a \o b)
      BY SMT, <1>1
    <3> QED
      BY <1>1, <3>1, ConcatProperties
  <2>2. (a \o b)[Len(a) + i] = b[i]
    <3>1. /\ Len(a) + i \in 1..Len(a) + Len(b) /\ ~(Len(a) + i <= Len(a))
          /\ Len(a) + i - Len(a) = i
      BY SMT, <1>1
    <3> QED
      BY <1>1, <3>1, ConcatProperties
  <2>3. b[i] \in E
    BY ElementOfSeq
  <2> QED
    BY <2>1, <2>2, <2>3
<1> HIDE DEF w
<1>3. \A i \in m..n : w[i] \in E
  <2> SUFFICES ASSUME NEW i \in m..n PROVE w[i] \in E
    OBVIOUS
  <2>1. i - Len(a) \in 1..Len(b) /\ i = Len(a) + (i - Len(a))
    BY SMT, <1>1
  <2> QED
    BY <1>2, <2>1
<1>4. /\ m \in Int /\ n \in Int /\ n - m + 1 = Len(b)
      /\ (m <= n => n - m + 1 = Len(b)) /\ (~(m <= n) => Len(b) = 0)
  BY SMT, <1>1
<1>5. t \in Seq(E) /\ Len(t) = Len(b)
  BY <1>3, <1>4, SubSeqProperties
<1>6. \A i \in 1..Len(b) : t[i] = b[i]
  <2> SUFFICES ASSUME NEW i \in 1..Len(b) PROVE t[i] = b[i]
    OBVIOUS
  <2>1. t[i] = w[m + i - 1]
    BY <1>3, <1>4, SubSeqProperties
  <2>2. m + i - 1 = Len(a) + i
    BY SMT, <1>1
  <2> QED
    BY <1>2, <2>1, <2>2
<1> HIDE DEF t, m, n
<1>7. t = b
  BY <1>5, <1>6, SeqEqual
<1> QED
  BY <1>7 DEF t, m, n, w

LEMMA LastPart ==
  ASSUME NEW E, NEW a \in Seq(E), NEW b \in Seq(E)
  PROVE  Build!Drop(a \o b, Len(a)) = b
<1>1. <<>> \in Seq(E)
  BY EmptySeq
<1>2. a \o b \in Seq(E) /\ Len(a \o b) = Len(a) + Len(b)
  BY Joined
<1>3. a \o b \o <<>> = a \o b
  BY <1>2, ConcatEmptySeq
<1> QED
  BY <1>1, <1>2, <1>3, MiddlePart DEF Build!Drop

LEMMA FirstOf ==
  ASSUME NEW E, NEW x \in E, NEW b \in Seq(E)
  PROVE  <<x>> \in Seq(E) /\ Len(<<x>>) = 1 /\ (<<x>> \o b)[1] = x
<1>1. <<x>> \in Seq(E) /\ Len(<<x>>) = 1 /\ <<x>>[1] = x
  OBVIOUS
<1>2. 1 \in 1..Len(<<x>>) + Len(b) /\ 1 <= Len(<<x>>)
  BY <1>1, LenProperties
<1> QED
  BY <1>1, <1>2, ConcatProperties

LEMMA ThreeOf ==
  ASSUME NEW E, NEW x \in E, NEW y \in E, NEW z \in E, NEW b \in Seq(E)
  PROVE  /\ <<x, y, z>> \in Seq(E) /\ Len(<<x, y, z>>) = 3
         /\ (<<x, y, z>> \o b)[1] = x
         /\ (<<x, y, z>> \o b)[2] = y
         /\ (<<x, y, z>> \o b)[3] = z
<1> DEFINE t == <<x, y, z>>
<1>1. t \in Seq(E) /\ Len(t) = 3 /\ t[1] = x /\ t[2] = y /\ t[3] = z
  OBVIOUS
<1> HIDE DEF t
<1>2. \A i \in 1..3 : i \in 1..Len(t) + Len(b) /\ i <= Len(t)
  BY <1>1, LenProperties
<1>3. \A i \in 1..3 : (t \o b)[i] = t[i]
  BY <1>1, <1>2, ConcatProperties
<1> QED
  BY <1>1, <1>3 DEF t

\* A string that was packed is read, and what comes after it left.
LEMMA PackedIsRead ==
  ASSUME NEW E, Int \subseteq E, NEW s \in Seq(E), NEW rest \in Seq(E)
  PROVE  /\ Build!PackString(s) \in Seq(E)
         /\ Build!ReadString(Build!PackString(s) \o rest) = [string |-> s, rest |-> rest]
<1> DEFINE n == Len(s)
           head == Build!PackCompactSize(n)
           w == head \o s \o rest
<1>1. n \in Nat
  BY LenProperties
<1>2. ASSUME n < 253
      PROVE  /\ head \in Seq(E) /\ Len(head) = 1
             /\ w[1] # 253 /\ w[1] = n
  <2> HIDE DEF n
  <2>0. head = <<n>>
    BY <1>2 DEF Build!PackCompactSize
  <2>1. head = <<n>> /\ n \in E /\ n # 253
    BY SMT, <1>1, <1>2, <2>0
  <2> HIDE DEF head
  <2>2. <<n>> \in Seq(E) /\ Len(<<n>>) = 1
    BY <2>1
  <2>3. w = <<n>> \o (s \o rest) /\ s \o rest \in Seq(E)
    BY <2>1, <2>2, ConcatAssociative, Joined
  <2> QED
    BY <2>1, <2>2, <2>3, FirstOf
<1>3. ASSUME ~(n < 253)
      PROVE  /\ head \in Seq(E) /\ Len(head) = 3
             /\ w[1] = 253 /\ w[2] + 256 * w[3] = n
  <2> DEFINE x == n % 256
             y == n \div 256
  <2>1. /\ head = <<253, x, y>> /\ 253 \in E /\ x \in E /\ y \in E
        /\ x + 256 * y = n
    BY SMT, <1>1, <1>3 DEF Build!PackCompactSize
  <2> HIDE DEF x, y
  <2>2. <<253, x, y>> \in Seq(E) /\ Len(<<253, x, y>>) = 3
    BY <2>1
  <2>3. w = <<253, x, y>> \o (s \o rest) /\ s \o rest \in Seq(E)
    BY <2>1, <2>2, ConcatAssociative, Joined
  <2>4. w[1] = 253 /\ w[2] = x /\ w[3] = y
    BY <2>1, <2>3, ThreeOf
  <2> QED
    BY <2>1, <2>2, <2>4
<1>4. head \in Seq(E) /\ Len(head) \in Nat
  BY <1>2, <1>3
<1> HIDE DEF head
<1>5. head \o s \in Seq(E) /\ Len(head \o s) = Len(head) + n
  BY <1>4, Joined
<1>6. /\ SubSeq(w, Len(head) + 1, Len(head) + n) = s
      /\ Build!Drop(w, Len(head) + n) = rest
  BY <1>4, <1>5, MiddlePart, LastPart
<1> HIDE DEF w, n
<1>7. Build!ReadString(w) = [string |-> s, rest |-> rest]
  <2>1. CASE n < 253
    BY <1>2, <1>6, <2>1 DEF Build!ReadString
  <2>2. CASE ~(n < 253)
    BY <1>3, <1>6, <2>2 DEF Build!ReadString
  <2> QED
    BY <2>1, <2>2
<1> QED
  BY <1>5, <1>7 DEF Build!PackString, w, head, n

-----------------------------------------------------------------------------
(* The coinbase: what its parts are made of.                                *)

\* What a transaction and its parts are made of.
Elements ==
  Int \cup {"version", "prevout", "sequence", "value", "zero", "locktime",
            "hash", "CHECKSIG", "DUP", "HASH160", "EQUALVERIFY", "EQUAL"}
Bytes == Seq(Elements)
Join(a, b) == a \o b

LEMMA JoinIsAssociative ==
  /\ \A a, b \in Bytes : Join(a, b) \in Bytes
  /\ \A a, b, c \in Bytes : Join(Join(a, b), c) = Join(a, Join(b, c))
<1>1. ASSUME NEW a \in Bytes, NEW b \in Bytes PROVE Join(a, b) \in Bytes
  BY Joined DEF Join, Bytes
<1>2. ASSUME NEW a \in Bytes, NEW b \in Bytes, NEW c \in Bytes
      PROVE  Join(Join(a, b), c) = Join(a, Join(b, c))
  BY ConcatAssociative DEF Join, Bytes
<1> QED
  BY <1>1, <1>2

AreBytes(x, a, b, c, d, e, f) == {x, a, b, c, d, e, f} \subseteq Bytes

ToTheRight(x, a, b, c, d, e, f) ==
  /\ x \o a \o b \o c \o d \o e \o f = x \o (a \o (b \o (c \o (d \o (e \o f)))))
  /\ {a \o (b \o (c \o (d \o (e \o f)))), b \o (c \o (d \o (e \o f))),
      c \o (d \o (e \o f)), d \o (e \o f), e \o f} \subseteq Bytes

LEMMA Regrouped ==
  ASSUME NEW x, NEW a, NEW b, NEW c, NEW d, NEW e, NEW f, AreBytes(x, a, b, c, d, e, f)
  PROVE  ToTheRight(x, a, b, c, d, e, f)
<1> DEFINE de == Join(e, f)
           dd == Join(d, de)
           dc == Join(c, dd)
           db == Join(b, dc)
           da == Join(a, db)
<1>0. /\ x \in Bytes /\ a \in Bytes /\ b \in Bytes /\ c \in Bytes
      /\ d \in Bytes /\ e \in Bytes /\ f \in Bytes
  BY DEF AreBytes
<1>1. de \in Bytes /\ dd \in Bytes /\ dc \in Bytes /\ db \in Bytes /\ da \in Bytes
  BY <1>0, JoinIsAssociative
<1> DEFINE xa == Join(x, a)
           xb == Join(xa, b)
           xc == Join(xb, c)
           xd == Join(xc, d)
<1>2. xa \in Bytes /\ xb \in Bytes /\ xc \in Bytes /\ xd \in Bytes
  BY <1>0, JoinIsAssociative
<1>3. Join(Join(xd, e), f) = Join(x, da)
  <2>1. Join(Join(xd, e), f) = Join(xd, de)
    BY <1>0, <1>2, JoinIsAssociative
  <2>2. Join(xd, de) = Join(xc, dd)
    BY <1>0, <1>1, <1>2, JoinIsAssociative
  <2>3. Join(xc, dd) = Join(xb, dc)
    BY <1>0, <1>1, <1>2, JoinIsAssociative
  <2>4. Join(xb, dc) = Join(xa, db)
    BY <1>0, <1>1, <1>2, JoinIsAssociative
  <2>5. Join(xa, db) = Join(x, da)
    BY <1>0, <1>1, JoinIsAssociative
  <2> QED
    BY <2>1, <2>2, <2>3, <2>4, <2>5
<1> QED
  BY Zenon, <1>1, <1>3 DEF Join, ToTheRight

\* What a miner's nonces are put between: the script with its length in front,
\* after what precedes it and before what follows.
Encloses(head, size, v1, n1, n2, v2, rest) ==
  head \o size \o v1 \o n1 \o n2 \o (v2 \o rest)
    = head \o (size \o (v1 \o n1 \o n2 \o v2) \o rest)

LEMMA ScriptIsWhole ==
  ASSUME NEW head, NEW size, NEW v1, NEW n1, NEW n2, NEW v2, NEW rest,
         AreBytes(head, size, v1, n1, n2, v2, rest)
  PROVE  Encloses(head, size, v1, n1, n2, v2, rest)
<1> DEFINE p == Join(head, size)
           s2 == Join(v1, n1)
           s3 == Join(s2, n2)
           s == Join(s3, v2)
           r == Join(v2, rest)
<1>0. /\ head \in Bytes /\ size \in Bytes /\ v1 \in Bytes /\ n1 \in Bytes
      /\ n2 \in Bytes /\ v2 \in Bytes /\ rest \in Bytes
  BY DEF AreBytes
<1>1. p \in Bytes /\ s2 \in Bytes /\ s3 \in Bytes /\ s \in Bytes /\ r \in Bytes
  BY <1>0, JoinIsAssociative
<1>2. Join(Join(Join(Join(p, v1), n1), n2), r) = Join(head, Join(Join(size, s), rest))
  <2>1. Join(Join(p, v1), n1) = Join(p, s2)
    BY <1>0, <1>1, JoinIsAssociative
  <2>2. Join(Join(p, s2), n2) = Join(p, s3)
    BY <1>0, <1>1, JoinIsAssociative
  <2>3. Join(Join(p, s3), r) = Join(p, Join(s3, r))
    BY <1>0, <1>1, JoinIsAssociative
  <2>4. Join(s3, r) = Join(s, rest)
    BY <1>0, <1>1, JoinIsAssociative
  <2>5. Join(s, rest) \in Bytes
    BY <1>0, <1>1, JoinIsAssociative
  <2>6. Join(p, Join(s, rest)) = Join(head, Join(size, Join(s, rest)))
    BY <1>0, <2>5, JoinIsAssociative
  <2>7. Join(size, Join(s, rest)) = Join(Join(size, s), rest)
    BY <1>0, <1>1, JoinIsAssociative
  <2> QED
    BY Zenon, <2>1, <2>2, <2>3, <2>4, <2>6, <2>7
<1> QED
  BY Zenon, <1>2 DEF Join, Encloses

LEMMA IntBytes == ASSUME NEW s \in Seq(Int) PROVE s \in Bytes
BY SeqMonotonic DEF Bytes, Elements

LEMMA FillType ==
  ASSUME NEW n \in Nat, NEW byte \in Int
  PROVE  Build!Fill(n, byte) \in Bytes /\ Len(Build!Fill(n, byte)) = n
<1> DEFINE s == Build!Fill(n, byte)
<1>1. s \in [1..n -> Int]
  BY DEF Build!Fill
<1>2. s \in Seq(Int)
  BY <1>1, SeqDef
<1>3. DOMAIN s = 1..n /\ DOMAIN s = 1..Len(s) /\ Len(s) \in Nat
  BY <1>1, <1>2, LenProperties
<1> HIDE DEF s
<1>4. Len(s) = n
  BY SMT, <1>3
<1> QED
  BY <1>2, <1>4, IntBytes DEF s

LEMMA ShortType ==
  /\ \A x \in Elements : <<x>> \in Bytes /\ Len(<<x>>) = 1
  /\ <<>> \in Bytes
BY DEF Bytes

LEMMA WalletType ==
  ASSUME NEW first
  PROVE  Build!GetCoinBaseScript(first) \in Bytes
<1>1. /\ "hash" \in Elements /\ "CHECKSIG" \in Elements /\ "DUP" \in Elements
      /\ "HASH160" \in Elements /\ "EQUALVERIFY" \in Elements /\ "EQUAL" \in Elements
  BY DEF Elements
<1>2. <<"hash", "CHECKSIG">> \in Seq(Elements)
  BY <1>1
<1>3. <<"HASH160", "hash", "EQUAL">> \in Seq(Elements)
  BY <1>1
<1>4. <<"DUP", "HASH160", "hash", "EQUALVERIFY", "CHECKSIG">> \in Seq(Elements)
  BY <1>1
<1>5. <<>> \in Seq(Elements)
  OBVIOUS
<1> QED
  BY <1>2, <1>3, <1>4, <1>5 DEF Build!GetCoinBaseScript, Build!Payload, Bytes

LEMMA NumberType ==
  ASSUME NEW n \in Nat, Small(((n \div 256) \div 256) \div 256)
  PROVE  /\ Build!SignedBytes(n) \in Bytes /\ Build!PackNumber(n) \in Bytes
<1> DEFINE b == Build!SignedBytes(n)
<1>1. b \in Seq(Int)
  <2>1. CASE n > 0
    BY <2>1, NumberIsRead DEF Digits
  <2>2. CASE n = 0
    <3>1. b = Build!SignedBytes(0)
      BY <2>2
    <3>2. 0 = 0 \div 256 /\ 0 \in Nat /\ Small(0)
      BY SMT DEF Small
    <3>3. Build!SignedBytes(0) = <<0>>
      BY <3>2, SignedBytesAre
    <3>4. <<0>> \in Seq(Int)
      OBVIOUS
    <3> QED
      BY Zenon, <3>1, <3>3, <3>4
  <2> QED
    BY <2>1, <2>2
<1> HIDE DEF b
<1>2. b \in Bytes /\ Len(b) \in Elements
  BY <1>1, IntBytes, LenProperties DEF Elements
<1>3. <<Len(b)>> \in Bytes
  BY <1>2, ShortType
<1>4. Join(<<Len(b)>>, b) \in Bytes
  BY <1>2, <1>3, JoinIsAssociative
<1> QED
  BY <1>2, <1>4 DEF Build!PackNumber, Join, b

LEMMA SizeType ==
  ASSUME NEW n \in Nat
  PROVE  Build!PackCompactSize(n) \in Bytes
<1>1. n \in Int /\ n % 256 \in Int /\ n \div 256 \in Int /\ 253 \in Int
  BY SMT
<1>2. <<n>> \in Seq(Int)
  BY <1>1
<1> DEFINE x == n % 256
           y == n \div 256
<1> HIDE DEF x, y
<1>3. <<253, x, y>> \in Seq(Int)
  BY <1>1 DEF x, y
<1> QED
  BY <1>2, <1>3, IntBytes DEF Build!PackCompactSize, x, y

LEMMA StringType == ASSUME NEW s \in Bytes PROVE Build!PackString(s) \in Bytes
<1>1. Len(s) \in Nat
  BY LenProperties DEF Bytes
<1>2. Join(Build!PackCompactSize(Len(s)), s) \in Bytes
  BY <1>1, SizeType, JoinIsAssociative
<1> QED
  BY <1>2 DEF Join, Build!PackString

Usable ==
  /\ coinbase \in Build!Inputs
  /\ coinbase.flags # -1 /\ coinbase.commitment \in {0, 38}

\* The parts of the transaction, and what they are joined from.
Prefix == <<"version", 1, "prevout">>
Before == Build!PackNumber(coinbase.height) \o Build!Fill(coinbase.flags, 1)
            \o Build!PackNumber(coinbase.time)
Nonce1 == Build!Fill(4, 8)
Nonce2 == Build!Fill(4, 9)
Script == Build!VinScript1 \o Nonce1 \o Nonce2 \o Build!VinScript2
Paid == Build!PackString(Build!GetCoinBaseScript(coinbase.wallet))
Committed == IF coinbase.commitment # 0
             THEN <<"zero">> \o Build!PackString(Build!Fill(coinbase.commitment, 3)) ELSE <<>>
Outputs ==
  Build!PackCompactSize(Build!VoutCount)
    \o (<<"value">> \o (Paid \o (Committed \o <<"locktime">>)))
After == <<"sequence">> \o Outputs

Whole == Build!CoinBaseTx1 \o Nonce1 \o Nonce2 \o Build!CoinBaseTx2

LEMMA JoinType ==
  ASSUME NEW a \in Bytes, NEW b \in Bytes
  PROVE  a \o b \in Bytes /\ Len(a \o b) = Len(a) + Len(b) /\ Len(a) \in Nat /\ Len(b) \in Nat
BY Joined DEF Bytes

LEMMA InputTypes ==
  ASSUME Usable
  PROVE  /\ coinbase.height \in Nat /\ coinbase.height > 0
         /\ Small(((coinbase.height \div 256) \div 256) \div 256)
         /\ coinbase.time \in Nat /\ Small(((coinbase.time \div 256) \div 256) \div 256)
         /\ coinbase.flags \in Nat /\ coinbase.extras \in Nat
<1>1. /\ coinbase.height \in Heights /\ coinbase.time \in Times
      /\ coinbase.flags \in FlagLengths /\ coinbase.extras \in ExtraLengths
  BY DEF Usable, Build!Inputs
<1>2. /\ coinbase.height \in Nat /\ coinbase.height > 0 /\ coinbase.height <= 2147483647
      /\ coinbase.time \in Nat /\ coinbase.time <= 2147483647
      /\ coinbase.flags \in Nat /\ coinbase.extras \in Nat
  BY SMT, <1>1, CalculationsAssumption
<1>3. Small(((coinbase.height \div 256) \div 256) \div 256)
  BY SMT, <1>2, FourBytesAtMost
<1>4. Small(((coinbase.time \div 256) \div 256) \div 256)
  BY SMT, <1>2, FourBytesAtMost
<1> QED
  BY SMT, <1>2, <1>3, <1>4

LEMMA PartTypes ==
  ASSUME Usable
  PROVE  /\ Prefix \in Bytes /\ Len(Prefix) = 3
         /\ Before \in Bytes /\ Build!VinScript1 \in Bytes /\ Build!VinScript2 \in Bytes
         /\ Build!VinScript1 = Before \o <<8>> /\ <<8>> \in Bytes /\ Len(<<8>>) = 1
         /\ Nonce1 \in Bytes /\ Nonce2 \in Bytes /\ Len(Nonce1) = 4 /\ Len(Nonce2) = 4
         /\ Paid \in Bytes /\ Committed \in Bytes
         /\ Build!PackCompactSize(Build!VoutCount) \in Bytes
<1>1. /\ \A x \in {"version", "prevout", "zero"} : x \in Elements
      /\ \A x \in Int : x \in Elements
  BY DEF Elements
<1>2. Prefix \in Bytes /\ Len(Prefix) = 3
  <2>1. "version" \in Elements /\ 1 \in Elements /\ "prevout" \in Elements
    BY <1>1
  <2> QED
    BY <2>1 DEF Prefix, Bytes
<1>3. /\ Build!PackNumber(coinbase.height) \in Bytes /\ Build!PackNumber(coinbase.time) \in Bytes
  BY InputTypes, NumberType
<1>4. /\ Build!Fill(coinbase.flags, 1) \in Bytes /\ Build!Fill(coinbase.extras, 2) \in Bytes
  BY InputTypes, FillType
<1>5. Before \in Bytes
  <2>1. Build!PackNumber(coinbase.height) \o Build!Fill(coinbase.flags, 1) \in Bytes
    BY <1>3, <1>4, JoinType
  <2> QED
    BY <1>3, <2>1, JoinType DEF Before
<1>6. <<8>> \in Bytes /\ Len(<<8>>) = 1
  BY <1>1, ShortType
<1>7. Build!VinScript1 = Before \o <<8>>
  <2>1. Build!EXTRANONCE1_SIZE + Build!EXTRANONCE2_SIZE = 8
    BY SMT DEF Build!EXTRANONCE1_SIZE, Build!EXTRANONCE2_SIZE
  <2> QED
    BY <2>1 DEF Build!VinScript1, Before
<1>8. Build!VinScript1 \in Bytes
  BY <1>5, <1>6, <1>7, JoinType
<1>9. Build!VinScript2 \in Bytes
  BY <1>4, StringType DEF Build!VinScript2
<1>10. Nonce1 \in Bytes /\ Nonce2 \in Bytes /\ Len(Nonce1) = 4 /\ Len(Nonce2) = 4
  <2>1. 4 \in Nat /\ 8 \in Int /\ 9 \in Int
    OBVIOUS
  <2>2. Nonce1 \in Bytes /\ Len(Nonce1) = 4
    BY Zenon, <2>1, FillType DEF Nonce1
  <2>3. Nonce2 \in Bytes /\ Len(Nonce2) = 4
    BY Zenon, <2>1, FillType DEF Nonce2
  <2> QED
    BY <2>2, <2>3
<1>11. Paid \in Bytes
  BY WalletType, StringType DEF Paid
<1>12. Committed \in Bytes
  <2>1. CASE coinbase.commitment = 0
    BY <2>1, ShortType DEF Committed
  <2>2. CASE coinbase.commitment # 0
    <3>1. coinbase.commitment \in Nat
      BY DEF Usable
    <3>2. Build!PackString(Build!Fill(coinbase.commitment, 3)) \in Bytes
      BY <3>1, FillType, StringType
    <3>3. <<"zero">> \in Bytes
      BY <1>1, ShortType
    <3> QED
      BY <2>2, <3>2, <3>3, JoinType DEF Committed
  <2> QED
    BY <2>1, <2>2
<1>13. Build!PackCompactSize(Build!VoutCount) \in Bytes
  BY SizeType DEF Build!VoutCount
<1> QED
  BY <1>2, <1>5, <1>6, <1>7, <1>8, <1>9, <1>10, <1>11, <1>12, <1>13

-----------------------------------------------------------------------------
(* The coinbase: what a node reads.                                         *)

\* What a node reads: the script that was meant, and what comes after it.
LEMMA WholeIsRead ==
  ASSUME Usable
  PROVE  /\ Script \in Bytes /\ After \in Bytes
         /\ Build!ReadString(Build!Drop(Whole, 3)) = [string |-> Script, rest |-> After]
<1> DEFINE size == Build!PackCompactSize(Build!VinScriptLen)
           v1 == Build!VinScript1
           v2 == Build!VinScript2
           count == Build!PackCompactSize(Build!VoutCount)
           after == <<"sequence">> \o (count \o (<<"value">> \o (Paid \o (Committed \o <<"locktime">>))))
           tail == v2 \o <<"sequence">> \o count \o <<"value">> \o Paid \o Committed \o <<"locktime">>
<1>1. /\ <<"sequence">> \in Bytes /\ <<"value">> \in Bytes /\ <<"locktime">> \in Bytes
  <2>1. "sequence" \in Elements /\ "value" \in Elements /\ "locktime" \in Elements
    BY DEF Elements
  <2> QED
    BY <2>1, ShortType
<1>2. /\ v1 \in Bytes /\ v2 \in Bytes /\ count \in Bytes
      /\ Prefix \in Bytes /\ Len(Prefix) = 3 /\ Paid \in Bytes /\ Committed \in Bytes
      /\ Nonce1 \in Bytes /\ Nonce2 \in Bytes /\ Len(Nonce1) = 4 /\ Len(Nonce2) = 4
  BY PartTypes
<1>3. tail = v2 \o after /\ after \in Bytes
  <2>1. AreBytes(v2, <<"sequence">>, count, <<"value">>, Paid, Committed, <<"locktime">>)
    BY <1>1, <1>2 DEF AreBytes
  <2>2. ToTheRight(v2, <<"sequence">>, count, <<"value">>, Paid, Committed, <<"locktime">>)
    BY Zenon, <2>1, Regrouped
  <2> HIDE DEF v2, count
  <2> QED
    BY Zenon, <2>2 DEF ToTheRight
<1>4. /\ Len(v1) \in Nat /\ Len(v2) \in Nat /\ v1 \o Nonce1 \in Bytes
      /\ v1 \o Nonce1 \o Nonce2 \in Bytes /\ Len(Script) = Len(v1) + 8 + Len(v2)
      /\ Script \in Bytes
  <2> DEFINE v1n == v1 \o Nonce1
             v1nn == v1n \o Nonce2
  <2>1. v1n \in Bytes /\ Len(v1n) = Len(v1) + 4 /\ Len(v1) \in Nat
    <3> HIDE DEF v1
    <3>1. v1 \in Bytes /\ Nonce1 \in Bytes /\ Len(Nonce1) = 4
      BY <1>2
    <3> QED
      BY Zenon, <3>1, JoinType
  <2>2. v1nn \in Bytes /\ Len(v1nn) = Len(v1n) + 4
    <3> HIDE DEF v1n
    <3>1. v1n \in Bytes /\ Nonce2 \in Bytes /\ Len(Nonce2) = 4
      BY <1>2, <2>1
    <3> QED
      BY Zenon, <3>1, JoinType
  <2>3. v1nn \o v2 \in Bytes /\ Len(v1nn \o v2) = Len(v1nn) + Len(v2) /\ Len(v2) \in Nat
    <3> HIDE DEF v1nn, v2
    <3> QED
      BY <1>2, <2>2, JoinType
  <2>4. Script = v1nn \o v2
    BY DEF Script
  <2>5. Len(v1n) \in Nat /\ Len(v1nn) \in Nat
    BY <2>1, <2>2
  <2> HIDE DEF v1n, v1nn, v1, v2
  <2>6. Len(v1nn \o v2) = Len(v1) + 8 + Len(v2)
    BY SMT, <2>1, <2>2, <2>3, <2>5
  <2> QED
    BY <2>1, <2>2, <2>3, <2>4, <2>6 DEF v1n, v1nn
<1>5. size = Build!PackCompactSize(Len(Script)) /\ size \in Bytes
  <2>1. Build!VinScriptLen = Len(Script)
    BY SMT, <1>4 DEF Build!VinScriptLen, Build!EXTRANONCE1_SIZE, Build!EXTRANONCE2_SIZE
  <2>2. Len(Script) \in Nat
    BY <1>4, JoinType
  <2> QED
    BY <2>1, <2>2, SizeType
<1>6. Build!CoinBaseTx1 = Prefix \o size \o v1
  BY DEF Build!CoinBaseTx1, Prefix
<1>7. Build!CoinBaseTx2 = tail
  BY DEF Build!CoinBaseTx2, Paid, Committed
<1>8. Whole = Prefix \o size \o v1 \o Nonce1 \o Nonce2 \o (v2 \o after)
  BY Zenon, <1>3, <1>6, <1>7 DEF Whole
<1>9. after = After
  BY DEF After, Outputs
<1> HIDE DEF after, size, v1, v2
<1>10. Whole = Prefix \o (size \o (v1 \o Nonce1 \o Nonce2 \o v2) \o after)
  <2>1. AreBytes(Prefix, size, v1, Nonce1, Nonce2, v2, after)
    BY <1>2, <1>3, <1>5 DEF AreBytes
  <2>2. Encloses(Prefix, size, v1, Nonce1, Nonce2, v2, after)
    BY Zenon, <2>1, ScriptIsWhole
  <2> QED
    BY Zenon, <1>8, <2>2 DEF Encloses
<1>11. v1 \o Nonce1 \o Nonce2 \o v2 = Script /\ size \o Script = Build!PackString(Script)
  BY <1>5 DEF Script, v1, v2, Build!PackString
<1>12. Whole = Prefix \o (Build!PackString(Script) \o After)
  BY Zenon, <1>9, <1>10, <1>11
<1>13. Build!PackString(Script) \o After \in Bytes
  BY <1>3, <1>4, <1>9, StringType, JoinType
<1>14. Build!Drop(Whole, 3) = Build!PackString(Script) \o After
  <2> DEFINE b == Build!PackString(Script) \o After
  <2> HIDE DEF b
  <2>1. b \in Bytes /\ Whole = Prefix \o b
    BY <1>12, <1>13 DEF b
  <2>2. Build!Drop(Prefix \o b, Len(Prefix)) = b
    BY <1>2, <2>1, LastPart DEF Bytes
  <2> QED
    BY Zenon, <1>2, <2>1, <2>2 DEF b
<1>15. Int \subseteq Elements
  BY DEF Elements
<1>16. Build!ReadString(Build!PackString(Script) \o After) = [string |-> Script, rest |-> After]
  BY <1>3, <1>4, <1>9, <1>15, PackedIsRead DEF Bytes
<1> QED
  BY <1>3, <1>4, <1>9, <1>14, <1>16

\* The height is the first push of the script.
LEMMA HeightIsPushed ==
  ASSUME Usable
  PROVE  LET push == SubSeq(Script, 2, Script[1] + 1)
         IN /\ Len(push) <= 4 /\ Build!ScriptNumber(push) = coinbase.height
            /\ Build!IsShortest(push)
<1> DEFINE b == Build!SignedBytes(coinbase.height)
           k == Len(b)
           pack == Build!PackNumber(coinbase.height)
           flags == Build!Fill(coinbase.flags, 1)
           time == Build!PackNumber(coinbase.time)
           v2 == Build!VinScript2
           rest == flags \o (time \o (<<8>> \o (Nonce1 \o (Nonce2 \o v2))))
<1>1. Digits(coinbase.height, b)
  BY InputTypes, NumberIsRead
<1>2. pack \in Bytes /\ time \in Bytes /\ b \in Bytes /\ flags \in Bytes
  BY InputTypes, NumberType, FillType
<1>3. Script = pack \o rest /\ rest \in Bytes
  <2>1. AreBytes(pack, flags, time, <<8>>, Nonce1, Nonce2, v2)
    BY <1>2, PartTypes DEF AreBytes
  <2>2. ToTheRight(pack, flags, time, <<8>>, Nonce1, Nonce2, v2)
    BY Zenon, <2>1, Regrouped
  <2>3. Script = pack \o flags \o time \o <<8>> \o Nonce1 \o Nonce2 \o v2
    BY PartTypes DEF Script, Before
  <2> HIDE DEF pack, flags, time, v2
  <2> QED
    BY Zenon, <2>2, <2>3 DEF ToTheRight
<1>4. pack = <<k>> \o b
  BY DEF Build!PackNumber
<1>5. k \in 1..4 /\ k \in Elements
  BY <1>1 DEF Digits, Elements
<1> HIDE DEF b, k, pack, rest
<1>6. <<k>> \in Bytes /\ Len(<<k>>) = 1
  BY <1>5, ShortType
<1>7. Script[1] = k
  <2>1. Script = <<k>> \o (b \o rest)
    BY <1>2, <1>3, <1>4, <1>6, JoinIsAssociative DEF Join
  <2>2. b \o rest \in Bytes
    BY <1>2, <1>3, JoinType
  <2> QED
    BY <1>5, <2>1, <2>2, FirstOf DEF Bytes
<1>8. SubSeq(Script, 2, k + 1) = b
  <2>1. SubSeq(<<k>> \o b \o rest, Len(<<k>>) + 1, Len(<<k>>) + Len(b)) = b
    BY <1>2, <1>3, <1>6, MiddlePart DEF Bytes
  <2>2. Len(<<k>>) + 1 = 2 /\ Len(<<k>>) + Len(b) = k + 1
    BY <1>5, <1>6 DEF k
  <2> QED
    BY <1>3, <1>4, <2>1, <2>2
<1>9. SubSeq(Script, 2, Script[1] + 1) = b
  BY <1>7, <1>8
<1>10. /\ Len(b) <= 4 /\ Build!ScriptNumber(b) = coinbase.height
       /\ Build!IsShortest(b)
  <2>1. Len(b) \in 1..4 /\ Build!ScriptNumber(b) = coinbase.height /\ Build!IsShortest(b)
    BY Zenon, <1>1 DEF Digits
  <2>2. Len(b) <= 4
    <3>1. k <= 4
      BY <1>5
    <3> QED
      BY Zenon, <3>1 DEF k
  <2> QED
    BY Zenon, <2>1, <2>2
<1> QED
  BY Zenon, <1>9, <1>10

\* The nonces fill their push, and the pool's text ends the script.
LEMMA NoncesArePushed ==
  ASSUME Usable
  PROVE  /\ SubSeq(Script, Len(Build!VinScript1), Len(Build!VinScript1) + 8)
              = <<8>> \o Nonce1 \o Nonce2
         /\ Build!Drop(Script, Len(Build!VinScript1) + 8) = Build!VinScript2
<1> DEFINE v1 == Build!VinScript1
           v2 == Build!VinScript2
           p1 == <<8>> \o Nonce1
           push == p1 \o Nonce2
<1>1. /\ Before \in Bytes /\ <<8>> \in Bytes /\ Len(<<8>>) = 1 /\ v1 = Before \o <<8>>
      /\ Nonce1 \in Bytes /\ Nonce2 \in Bytes /\ Len(Nonce1) = 4 /\ Len(Nonce2) = 4
      /\ v2 \in Bytes
  BY PartTypes
<1>2. Script = v1 \o Nonce1 \o Nonce2 \o v2
  BY DEF Script
<1> HIDE DEF v1, v2
<1>3. Len(v1) = Len(Before) + 1 /\ Len(Before) \in Nat
  BY <1>1, JoinType
<1>4. p1 \in Bytes /\ Len(p1) = 5
  <2>1. p1 \in Bytes /\ Len(p1) = Len(<<8>>) + Len(Nonce1)
    BY Zenon, <1>1, JoinType
  <2> QED
    BY SMT, <1>1, <2>1
<1> HIDE DEF p1
<1>5. push \in Bytes /\ Len(push) = 9
  <2>1. push \in Bytes /\ Len(push) = Len(p1) + Len(Nonce2)
    BY Zenon, <1>1, <1>4, JoinType
  <2> QED
    BY SMT, <1>1, <1>4, <2>1
<1>6. v1 \o Nonce1 \o Nonce2 = Before \o push
  <2>1. v1 \o Nonce1 = Before \o p1
    BY <1>1, JoinIsAssociative DEF Join, p1
  <2>2. Before \o p1 \o Nonce2 = Before \o push
    BY <1>1, <1>4, JoinIsAssociative DEF Join
  <2> QED
    BY <2>1, <2>2
<1> HIDE DEF push
<1>7. Script = Before \o push \o v2
  BY <1>2, <1>6
<1>8. Before \o push \in Bytes /\ Len(Before \o push) = Len(Before) + 9
  <2>1. Before \o push \in Bytes /\ Len(Before \o push) = Len(Before) + Len(push)
    BY Zenon, <1>1, <1>5, JoinType
  <2> QED
    BY <1>5, <2>1
<1>9. SubSeq(Before \o push \o v2, Len(Before) + 1, Len(Before) + Len(push)) = push
  BY <1>1, <1>5, MiddlePart DEF Bytes
<1>10. Build!Drop(Before \o push \o v2, Len(Before \o push)) = v2
  BY <1>1, <1>8, LastPart DEF Bytes
<1>11. Len(Before) + Len(push) = Len(v1) + 8 /\ Len(Before) + 9 = Len(v1) + 8
  BY SMT, <1>3, <1>5
<1>12. SubSeq(Script, Len(v1), Len(v1) + 8) = push
  BY <1>3, <1>7, <1>9, <1>11
<1>13. Build!Drop(Script, Len(v1) + 8) = v2
  BY <1>7, <1>8, <1>10, <1>11
<1> QED
  BY <1>12, <1>13 DEF v1, v2, push, p1

\* The outputs and what follows them.
LEMMA OutputsAreRead ==
  ASSUME Usable
  PROVE  /\ After[1] = "sequence"
         /\ LET out == Build!ReadOutputs(Build!Drop(After, 1))
            IN /\ out.rest = <<"locktime">>
               /\ out.outputs[1] = <<"value", Build!GetCoinBaseScript(coinbase.wallet)>>
               /\ IF coinbase.commitment = 0 THEN Len(out.outputs) = 1
                  ELSE out.outputs[2] = <<"zero", Build!Fill(38, 3)>>
<1> DEFINE wallet == Build!GetCoinBaseScript(coinbase.wallet)
           count == Build!PackCompactSize(Build!VoutCount)
           closing == <<"locktime">>
           end == Committed \o closing
           toWallet == Paid \o end
           first == Build!ReadString(Build!Drop(Outputs, 2))
           second == Build!ReadString(Build!Drop(first.rest, 1))
           out == Build!ReadOutputs(Outputs)
<1>1. /\ "sequence" \in Elements /\ "value" \in Elements /\ "locktime" \in Elements
      /\ "zero" \in Elements /\ 1 \in Elements /\ 2 \in Elements /\ Int \subseteq Elements
  BY DEF Elements
<1>2. /\ <<"sequence">> \in Bytes /\ <<"value">> \in Bytes /\ closing \in Bytes /\ <<"zero">> \in Bytes
      /\ Len(<<"sequence">>) = 1 /\ Len(<<"zero">>) = 1
  BY <1>1, ShortType
<1>3. /\ Paid \in Bytes /\ Committed \in Bytes /\ count \in Bytes /\ wallet \in Bytes
  BY PartTypes, WalletType
<1>4. end \in Bytes /\ toWallet \in Bytes
  <2>1. end \in Bytes
    BY <1>2, <1>3, JoinType
  <2> HIDE DEF end
  <2> QED
    BY <1>3, <2>1, JoinType
<1>5. Outputs = count \o (<<"value">> \o toWallet)
  BY DEF Outputs
<1> HIDE DEF end, toWallet, count
<1>6. <<"value">> \o toWallet \in Bytes /\ Outputs \in Bytes
  <2>1. <<"value">> \o toWallet \in Bytes
    BY <1>2, <1>4, JoinType
  <2> QED
    BY <1>3, <1>5, <2>1, JoinType
<1>7. After[1] = "sequence" /\ Build!Drop(After, 1) = Outputs
  <2>1. After[1] = "sequence"
    BY <1>1, <1>6, FirstOf DEF After, Bytes
  <2>2. Build!Drop(<<"sequence">> \o Outputs, Len(<<"sequence">>)) = Outputs
    BY <1>2, <1>6, LastPart DEF Bytes
  <2> QED
    BY <1>2, <2>1, <2>2 DEF After
\* The count, the first amount, and the rest.
<1>8. ASSUME NEW n \in {1, 2}, count = <<n>>
      PROVE  Outputs[1] = n /\ Outputs[2] = "value" /\ Build!Drop(Outputs, 2) = toWallet
  <2>1. n \in Elements
    BY <1>1
  <2>2. Outputs = <<n>> \o (<<"value">> \o toWallet)
    BY <1>5, <1>8
  <2>3. Outputs[1] = n
    BY <1>6, <2>1, <2>2, FirstOf DEF Bytes
  <2>4. <<n, "value">> \in Bytes /\ Len(<<n, "value">>) = 2 /\ <<n, "value">>[2] = "value"
    BY <1>1, <2>1 DEF Bytes
  <2>5. Outputs = <<n, "value">> \o toWallet
    <3>1. <<n>> \o <<"value">> = <<n, "value">>
      BY Zenon, JoinOne
    <3>2. <<n>> \in Bytes
      BY <2>1, ShortType
    <3>3. <<n>> \o <<"value">> \o toWallet = <<n>> \o (<<"value">> \o toWallet)
      BY <1>2, <1>4, <3>2, JoinIsAssociative DEF Join
    <3> QED
      BY Zenon, <2>2, <3>1, <3>3
  <2> DEFINE h == <<n, "value">>
  <2> HIDE DEF h
  <2>6. h \in Bytes /\ Len(h) = 2 /\ h[2] = "value" /\ Outputs = h \o toWallet
    BY Zenon, <2>4, <2>5 DEF h
  <2>7. Build!Drop(h \o toWallet, Len(h)) = toWallet
    BY <1>4, <2>6, LastPart DEF Bytes
  <2>8. (h \o toWallet)[2] = h[2]
    <3>1. 2 \in 1..Len(h) + Len(toWallet) /\ 2 <= Len(h)
      BY <1>4, <2>6, LenProperties DEF Bytes
    <3> QED
      BY <1>4, <2>6, <3>1, ConcatProperties DEF Bytes
  <2> QED
    BY Zenon, <2>3, <2>6, <2>7, <2>8
<1>9. Build!ReadString(toWallet) = [string |-> wallet, rest |-> end]
  BY <1>1, <1>3, <1>4, PackedIsRead DEF Bytes, Paid, toWallet
<1> HIDE DEF wallet
<1>10. CASE coinbase.commitment = 0
  <2>1. count = <<1>>
    BY SMT, <1>10 DEF Build!VoutCount, Build!PackCompactSize, count
  <2>2. Outputs[1] = 1 /\ Outputs[2] = "value" /\ Build!Drop(Outputs, 2) = toWallet
    BY <1>8, <2>1
  <2>3. end = closing
    BY <1>1, <1>10, ConcatEmptySeq DEF Committed, end
  <2>4. first = [string |-> wallet, rest |-> closing]
    BY Zenon, <1>9, <2>2, <2>3
  <2>5. out = [outputs |-> <<<<"value", wallet>>>>, rest |-> closing]
    BY <2>2, <2>4 DEF Build!ReadOutputs
  <2> QED
    BY <1>7, <1>10, <2>5 DEF wallet
<1>11. CASE coinbase.commitment # 0
  <2> DEFINE text == Build!Fill(38, 3)
             packed == Build!PackString(text) \o closing
  <2>0. coinbase.commitment = 38
    BY <1>11 DEF Usable
  <2>1. count = <<2>>
    BY SMT, <1>11 DEF Build!VoutCount, Build!PackCompactSize, count
  <2>2. Outputs[1] = 2 /\ Outputs[2] = "value" /\ Build!Drop(Outputs, 2) = toWallet
    BY <1>8, <2>1
  <2>3. text \in Bytes
    <3>1. 38 \in Nat /\ 3 \in Int
      OBVIOUS
    <3> QED
      BY <3>1, FillType
  <2>4. Build!PackString(text) \in Bytes /\ Build!ReadString(packed) = [string |-> text, rest |-> closing]
    <3> HIDE DEF text
    <3> QED
      BY <1>1, <1>2, <2>3, PackedIsRead DEF Bytes
  <2> HIDE DEF text
  <2>5. packed \in Bytes
    BY <1>2, <2>4, JoinType
  <2>6. end = <<"zero">> \o packed
    <3>1. Committed = <<"zero">> \o Build!PackString(text)
      BY Zenon, <1>11, <2>0 DEF Committed, text
    <3> QED
      BY <1>2, <2>4, <3>1, JoinIsAssociative DEF Join, end
  <2> HIDE DEF packed
  <2>7. end[1] = "zero"
    BY <1>1, <2>5, <2>6, FirstOf DEF Bytes
  <2>8. Build!Drop(end, 1) = packed
    <3>1. Build!Drop(<<"zero">> \o packed, Len(<<"zero">>)) = packed
      BY <1>2, <2>5, LastPart DEF Bytes
    <3> QED
      BY <1>2, <2>6, <3>1
  <2>9. first = [string |-> wallet, rest |-> end]
    BY Zenon, <1>9, <2>2
  <2>10. second = [string |-> text, rest |-> closing]
    BY <2>4, <2>8, <2>9
  <2>11. out = [outputs |-> <<<<"value", wallet>>, <<"zero", text>>>>, rest |-> closing]
    <3>1. Outputs[1] # 1
      BY <2>2
    <3>2. out = [outputs |-> <<<<Outputs[2], first.string>>, <<first.rest[1], second.string>>>>,
                 rest |-> second.rest]
      BY <3>1 DEF Build!ReadOutputs
    <3> QED
      BY <2>2, <2>7, <2>9, <2>10, <3>2
  <2> QED
    BY <1>7, <1>11, <2>11 DEF wallet, text
<1> QED
  BY <1>10, <1>11

-----------------------------------------------------------------------------
(* The coinbase: every one that is built.                                   *)

\* A coinbase that was built is made of the input it was built for.
CoinbaseInv ==
  \/ coinbase = NoInput /\ raw = Build!None
  \/ /\ coinbase \in Build!Inputs
     /\ \/ job \in {Build!None, <<Build!Invalid>>}
        \/ Usable /\ job = <<Build!CoinBaseTx1, Build!CoinBaseTx2>>
     /\ \/ raw \in {Build!None, <<Build!Invalid>>}
        \/ Usable /\ raw = Whole

LEMMA SameInput ==
  ASSUME coinbase' = coinbase
  PROVE  /\ Usable' <=> Usable
         /\ Build!CoinBaseTx1' = Build!CoinBaseTx1 /\ Build!CoinBaseTx2' = Build!CoinBaseTx2
         /\ Whole' = Whole
<1>1. Usable' <=> Usable
  BY DEF Usable
<1>2. Build!VinScript1' = Build!VinScript1 /\ Build!VinScript2' = Build!VinScript2
  BY DEF Build!VinScript1, Build!VinScript2
<1>3. Build!CoinBaseTx1' = Build!CoinBaseTx1
  BY <1>2 DEF Build!CoinBaseTx1, Build!VinScriptLen
<1>4. Build!CoinBaseTx2' = Build!CoinBaseTx2
  BY <1>2 DEF Build!CoinBaseTx2, Build!VoutCount
<1> QED
  BY <1>1, <1>3, <1>4 DEF Whole, Nonce1, Nonce2

LEMMA NonceOfFour ==
  ASSUME NEW byte \in Int, NEW nonce \in Build!Nonces(byte), Len(nonce) = 4
  PROVE  nonce = Build!Fill(4, byte)
<1>1. PICK n \in {3, 4} : nonce = Build!Fill(n, byte)
  BY DEF Build!Nonces
<1>2. Len(Build!Fill(n, byte)) = n
  <2>1. n \in Nat
    OBVIOUS
  <2> QED
    BY Zenon, <2>1, FillType
<1> QED
  BY <1>1, <1>2

LEMMA InitializeStep ==
  ASSUME CoinbaseInv, coinbase # NoInput, Build!Initialize
  PROVE  CoinbaseInv'
<1>1. coinbase' = coinbase /\ raw' = raw
  BY DEF Build!Initialize
<1>2. \/ job' = <<Build!Invalid>>
      \/ Usable /\ job' = <<Build!CoinBaseTx1, Build!CoinBaseTx2>>
  BY DEF CoinbaseInv, Build!Initialize, Usable
<1> QED
  BY <1>1, <1>2, SameInput DEF CoinbaseInv

LEMMA RecoverStep ==
  ASSUME CoinbaseInv, coinbase # NoInput,
         NEW nonce1 \in Build!Nonces(8), NEW nonce2 \in Build!Nonces(9),
         Build!RecoverToRawTransaction(nonce1, nonce2)
  PROVE  CoinbaseInv'
<1>1. coinbase' = coinbase /\ job' = job
  BY DEF Build!RecoverToRawTransaction
<1>2. Usable /\ job = <<Build!CoinBaseTx1, Build!CoinBaseTx2>>
  <2>1. Len(Build!None) # 2 /\ Len(<<Build!Invalid>>) # 2
    BY DEF Build!None
  <2> QED
    BY <2>1 DEF CoinbaseInv, Build!RecoverToRawTransaction
<1>3. raw' = <<Build!Invalid>> \/ raw' = Whole
  <2>1. CASE Build!RightLength(nonce1, nonce2)
    <3>1. Len(nonce1) = 4 /\ Len(nonce2) = 4 /\ 8 \in Int /\ 9 \in Int
      BY <2>1 DEF Build!RightLength, Build!EXTRANONCE1_SIZE, Build!EXTRANONCE2_SIZE
    <3>2. nonce1 = Nonce1 /\ nonce2 = Nonce2
      BY Zenon, <3>1, NonceOfFour DEF Nonce1, Nonce2
    <3>3. raw' = job[1] \o nonce1 \o nonce2 \o job[2]
      BY Zenon, <2>1 DEF Build!RecoverToRawTransaction
    <3>4. job[1] = Build!CoinBaseTx1 /\ job[2] = Build!CoinBaseTx2
      BY <1>2
    <3> QED
      BY Zenon, <3>2, <3>3, <3>4 DEF Whole
  <2>2. CASE ~Build!RightLength(nonce1, nonce2)
    BY <2>2 DEF Build!RecoverToRawTransaction
  <2> QED
    BY <2>1, <2>2
<1> QED
  BY <1>1, <1>2, <1>3, SameInput DEF CoinbaseInv

\* Whatever is built is built from a usable input, of the parts of that input
\* (Initialize, RecoverToRawTransaction).
THEOREM CoinbaseInvariance == CalculationsSpec => []CoinbaseInv
<1>1. CalculationsInit => CoinbaseInv
  BY DEF CalculationsInit, CoinbaseInv, Build!Init
<1>2. ASSUME CoinbaseInv, [CalculationsNext]_<<round, rewards, coinbase, job, raw>>
      PROVE  CoinbaseInv'
  <2>1. CASE UNCHANGED <<coinbase, job, raw>>
    BY <1>2, <2>1, SameInput DEF CoinbaseInv
  <2>2. CASE coinbase # NoInput /\ Build!Next
    BY <1>2, <2>2, InitializeStep, RecoverStep DEF Build!Next
  <2> QED
    BY <1>2, <2>1, <2>2 DEF CalculationsNext
<1> QED
  BY <1>1, <1>2, PTL DEF CalculationsSpec

\* A coinbase that was built is read as that of its input.
LEMMA BuiltIsWhole ==
  ASSUME CoinbaseInv, Build!Built
  PROVE  Usable /\ Build!Read = [string |-> Script, rest |-> After]
<1>1. Usable /\ raw = Whole
  BY DEF CoinbaseInv, Build!Built
<1> QED
  BY <1>1, WholeIsRead DEF Build!Read

\* In every coinbase that is built a node finds the height of its block, in the
\* shortest encoding, whatever the flags, times and texts are (PackNumber).
THEOREM HeightComesFirst == CalculationsSpec => []HeightFirst
<1>1. CoinbaseInv => HeightFirst
  <2> SUFFICES ASSUME CoinbaseInv, Build!Built
      PROVE  LET push == SubSeq(Build!Read.string, 2, Build!Read.string[1] + 1)
             IN /\ Len(push) <= 4 /\ Build!ScriptNumber(push) = coinbase.height
                /\ Build!IsShortest(push)
    BY DEF HeightFirst, Build!HeightFirst
  <2>1. Usable /\ Build!Read.string = Script
    BY BuiltIsWhole
  <2> QED
    BY Zenon, <2>1, HeightIsPushed
<1> QED
  BY <1>1, CoinbaseInvariance, PTL

\* In every coinbase that is built a node finds the miner's nonces in their push,
\* the pool's text after them, and the outputs that were meant, for flags and
\* texts of up to 30000 bytes (_generateCoinB, GetCoinBaseScript).
THEOREM CoinbaseIsRead == CalculationsSpec => []ReadAsMeant
<1>1. CoinbaseInv => Build!NoncesInPush
  <2> SUFFICES ASSUME CoinbaseInv, Build!Built
      PROVE  /\ SubSeq(Build!Read.string, Len(Build!VinScript1), Len(Build!VinScript1) + 8)
                  = <<8>> \o Build!Fill(4, 8) \o Build!Fill(4, 9)
             /\ Build!Drop(Build!Read.string, Len(Build!VinScript1) + 8) = Build!VinScript2
             /\ Build!Read.rest[1] = "sequence"
    BY DEF Build!NoncesInPush
  <2>1. Usable /\ Build!Read.string = Script /\ Build!Read.rest = After
    BY BuiltIsWhole
  <2> QED
    BY Zenon, <2>1, NoncesArePushed, OutputsAreRead DEF Nonce1, Nonce2
<1>2. CoinbaseInv => Build!PaysWallet
  <2> SUFFICES ASSUME CoinbaseInv, Build!Built
      PROVE  LET out == Build!ReadOutputs(Build!Drop(Build!Read.rest, 1))
             IN /\ out.rest = <<"locktime">>
                /\ out.outputs[1] = <<"value", Build!GetCoinBaseScript(coinbase.wallet)>>
                /\ IF coinbase.commitment = 0 THEN Len(out.outputs) = 1
                   ELSE out.outputs[2] = <<"zero", Build!Fill(38, 3)>>
    BY DEF Build!PaysWallet
  <2>1. Usable /\ Build!Read.rest = After
    BY BuiltIsWhole
  <2> QED
    BY Zenon, <2>1, OutputsAreRead
<1> QED
  BY <1>1, <1>2, CoinbaseInvariance, PTL DEF ReadAsMeant

-----------------------------------------------------------------------------
(* The ledger that pays out.                                                *)

\* What the processor, or the maintenance run, knows where it is.
Place ==
  /\ pc \in {"lock", "debit"} => amount <= balance[login]
  /\ pc = "debit" => pendingLog = {} /\ lock
  /\ pc \in {"send", "log"} => pendingLog = {<<login, amount>>}
  /\ pc = "rollback" => todo # {} /\ todo \subseteq pendingLog
  /\ pc = "unlock" => pendingLog = {}

RowsPositive == \A row \in pendingLog : row[2] > 0

IInv ==
  /\ TypeOK
  /\ Conserved
  /\ PendingIsLogged
  /\ PendingIsLocked
  /\ RowsPositive
  /\ Place

-----------------------------------------------------------------------------
(* Lemmas on the ledger.                                                    *)

\* The row of the pending log is the pending payment.
LEMMA OnlyRow ==
  ASSUME IInv, NEW l \in Logins, NEW n, <<l, n>> \in pendingLog
  PROVE  /\ pendingLog = {<<l, n>>} /\ lock
         /\ pending[l] = n /\ n \in Nat \ {0}
         /\ \A k \in Logins : k # l => pending[k] = 0
<1>1. n = pending[l] /\ n > 0 /\ n \in Nat
  BY DEF IInv, TypeOK, PendingIsLogged, RowsPositive, Rows
<1>2. pendingLog = {<<l, n>>}
  BY DEF IInv, PendingIsLogged
<1>3. \A k \in Logins : k # l => pending[k] = 0
  BY <1>2 DEF IInv, PendingIsLogged
<1> QED
  BY <1>1, <1>2, <1>3 DEF IInv, PendingIsLocked

\* Without a row nothing is pending.
LEMMA NoRow ==
  ASSUME IInv, pendingLog = {}
  PROVE  \A k \in Logins : pending[k] = 0
BY DEF IInv, PendingIsLogged

\* A step that leaves the ledger alone.
LEMMA LedgerKept ==
  ASSUME IInv, UNCHANGED <<ledger, credited>>, TypeOK', Place'
  PROVE  IInv'
BY DEF IInv, ledger, Conserved, PendingIsLogged, PendingIsLocked, RowsPositive

\* It keeps the types when what it writes has its type.
LEMMA TypeKept ==
  ASSUME TypeOK, UNCHANGED <<ledger, credited>>, faults' \in Nat,
         pc' \in Session \cup Maintenance \cup {"down", "idle", "halted"},
         pc' \in Session => todo' \subseteq Logins,
         pc' \in {"lock", "debit", "send", "log"} => login' \in Logins /\ amount' \in Nat \ {0}
  PROVE  TypeOK'
BY DEF TypeOK, ledger

LEMMA FaultType ==
  ASSUME TypeOK, Fault \/ UNCHANGED faults
  PROVE  faults' \in Nat
BY DEF TypeOK, Fault

\* Adding to the totals.
Totals == [balance : Int, pending : Int, paid : Int]

LEMMA TotalsType ==
  ASSUME NEW f \in Totals, NEW n \in Int
  PROVE  /\ [f EXCEPT !.balance = @ + n] \in Totals
         /\ [f EXCEPT !.balance = @ - n, !.pending = @ + n] \in Totals
         /\ [f EXCEPT !.balance = @ + n, !.pending = @ - n] \in Totals
         /\ [f EXCEPT !.pending = @ - n, !.paid = @ + n] \in Totals
<1>1. f.balance \in Int /\ f.pending \in Int /\ f.paid \in Int
  BY DEF Totals
<1>2. /\ f.balance + n \in Int /\ f.balance - n \in Int /\ f.pending + n \in Int
      /\ f.pending - n \in Int /\ f.paid + n \in Int
  BY <1>1
<1> QED
  BY <1>2 DEF Totals

-----------------------------------------------------------------------------
(* The operations on Redis keep what does not depend on the processor.       *)

LedgerInv ==
  /\ Conserved /\ PendingIsLogged /\ PendingIsLocked /\ RowsPositive

LEMMA CreditStep ==
  ASSUME IInv, NEW l \in Logins, NEW n \in Credits, Credit(l, n)
  PROVE  IInv'
<1>1. n \in Nat
  BY PayoutsAssumption
<1>2. TypeOK'
  <2>1. balance' \in [Logins -> Nat] /\ credited' \in [Logins -> Nat]
    BY <1>1 DEF IInv, TypeOK, Credit
  <2>2. finances' \in Totals
    <3>1. finances \in Totals /\ n \in Int
      BY <1>1 DEF IInv, TypeOK, Totals
    <3>2. finances' = [finances EXCEPT !.balance = @ + n]
      BY DEF Credit
    <3> QED
      BY <3>1, <3>2, TotalsType
  <2> QED
    BY <2>1, <2>2 DEF IInv, TypeOK, Credit, payment, Totals
<1>3. Conserved'
  BY <1>1 DEF IInv, TypeOK, Credit, Conserved
<1>4. PendingIsLogged' /\ PendingIsLocked' /\ RowsPositive'
  BY DEF IInv, Credit, PendingIsLogged, PendingIsLocked, RowsPositive
<1>6. pc \in {"lock", "debit"} => amount <= balance'[login]
  BY <1>1 DEF IInv, TypeOK, Credit, Place
<1>7. Place'
  BY <1>6 DEF IInv, Credit, payment, Place
<1> QED
  BY <1>2, <1>3, <1>4, <1>7 DEF IInv

LEMMA Debited ==
  ASSUME IInv, pc = "debit", UpdateBalance(login, amount), UNCHANGED credited
  PROVE  /\ LedgerInv' /\ pendingLog' = {<<login, amount>>}
         /\ balance' \in [Logins -> Nat] /\ pending' \in [Logins -> Nat]
         /\ paid' = paid
         /\ finances' \in Totals
<1>1. login \in Logins /\ amount \in Nat \ {0} /\ amount <= balance[login]
  BY DEF IInv, TypeOK, Place
<1>2. pendingLog = {} /\ lock
  BY DEF IInv, Place
<1>3. \A k \in Logins : pending[k] = 0
  BY <1>2, NoRow
<1>4. pendingLog' = {<<login, amount>>}
  BY <1>2 DEF UpdateBalance
<1>5. /\ balance' = [balance EXCEPT ![login] = @ - amount]
      /\ pending' = [pending EXCEPT ![login] = @ + amount]
      /\ UNCHANGED <<paid, lock>>
  BY DEF UpdateBalance, Deducted
<1>6. balance' \in [Logins -> Nat] /\ pending' \in [Logins -> Nat]
  BY <1>1, <1>5 DEF IInv, TypeOK
<1>7. finances' \in Totals
  <2>1. finances \in Totals /\ amount \in Int
    BY <1>1 DEF IInv, TypeOK, Totals
  <2> QED
    BY <2>1, TotalsType DEF UpdateBalance
<1>8. Conserved'
  BY <1>1, <1>5 DEF IInv, TypeOK, Conserved
<1>9. pending'[login] = amount /\ \A k \in Logins : k # login => pending'[k] = 0
  BY <1>1, <1>3, <1>5 DEF IInv, TypeOK
<1>10. PendingIsLogged'
  BY <1>1, <1>4, <1>9 DEF PendingIsLogged
<1>11. PendingIsLocked' /\ RowsPositive'
  BY <1>1, <1>2, <1>4, <1>5 DEF PendingIsLocked, RowsPositive
<1> QED
  BY <1>4, <1>5, <1>6, <1>7, <1>8, <1>10, <1>11 DEF LedgerInv

LEMMA RolledBack ==
  ASSUME IInv, pc = "rollback", NEW row \in todo, RollbackBalance(row[1], row[2]),
         UNCHANGED credited
  PROVE  /\ LedgerInv' /\ pendingLog' = {} /\ todo = {row}
         /\ balance' \in [Logins -> Nat] /\ pending' \in [Logins -> Nat]
         /\ paid' = paid /\ lock' = lock
         /\ finances' \in Totals
<1> DEFINE l == row[1]
           n == row[2]
<1>1. row \in pendingLog /\ row = <<l, n>> /\ l \in Logins
  BY DEF IInv, Place, TypeOK, Rows
<1>2. /\ pendingLog = {row} /\ pending[l] = n /\ n \in Nat \ {0}
      /\ \A k \in Logins : k # l => pending[k] = 0
  BY <1>1, OnlyRow
<1>3. todo = {row}
  BY <1>2 DEF IInv, Place
<1>4. /\ balance' = [balance EXCEPT ![l] = @ + n]
      /\ pending' = [pending EXCEPT ![l] = @ - n]
      /\ finances' = [finances EXCEPT !.balance = @ + n, !.pending = @ - n]
      /\ UNCHANGED <<paid, lock>>
  BY DEF RollbackBalance, TotalsBack
<1>5. pendingLog' = {}
  BY <1>1, <1>2 DEF RollbackBalance
<1>6. balance' \in [Logins -> Nat] /\ pending' \in [Logins -> Nat]
  BY <1>1, <1>2, <1>4 DEF IInv, TypeOK
<1>7. finances' \in Totals
  <2>1. finances \in Totals /\ n \in Int
    BY <1>2 DEF IInv, TypeOK, Totals
  <2> QED
    BY <2>1, <1>4, TotalsType
<1>8. Conserved'
  BY <1>1, <1>2, <1>4 DEF IInv, TypeOK, Conserved
<1>9. \A k \in Logins : pending'[k] = 0
  BY <1>1, <1>2, <1>4 DEF IInv, TypeOK
<1>10. PendingIsLogged' /\ PendingIsLocked' /\ RowsPositive'
  BY <1>5, <1>9 DEF PendingIsLogged, PendingIsLocked, RowsPositive
<1> QED
  BY <1>3, <1>4, <1>5, <1>6, <1>7, <1>8, <1>10 DEF LedgerInv

LEMMA Written ==
  ASSUME IInv, pc = "log", WritePayment(login, amount), UNCHANGED credited
  PROVE  /\ LedgerInv' /\ pendingLog' = {}
         /\ balance' = balance /\ pending' \in [Logins -> Nat] /\ paid' \in [Logins -> Nat]
         /\ lock' = FALSE
         /\ finances' \in Totals
<1>1. login \in Logins /\ amount \in Nat \ {0}
  BY DEF IInv, TypeOK
<1>2. pendingLog = {<<login, amount>>}
  BY DEF IInv, Place
<1>3. pending[login] = amount /\ \A k \in Logins : k # login => pending[k] = 0
  BY <1>1, <1>2, OnlyRow
<1>4. /\ pending' = [pending EXCEPT ![login] = @ - amount]
      /\ paid' = [paid EXCEPT ![login] = @ + amount]
      /\ finances' = [finances EXCEPT !.pending = @ - amount, !.paid = @ + amount]
      /\ lock' = FALSE /\ balance' = balance
  BY DEF WritePayment
<1>5. pendingLog' = {}
  BY <1>2 DEF WritePayment, WithoutRow
<1>6. pending' \in [Logins -> Nat] /\ paid' \in [Logins -> Nat]
  <2>1. pending \in [Logins -> Nat] /\ paid \in [Logins -> Nat]
    BY DEF IInv, TypeOK
  <2>2. pending[login] - amount = 0
    BY <1>1, <1>3
  <2>3. paid[login] + amount \in Nat
    <3>1. paid[login] \in Nat
      BY <1>1, <2>1
    <3> QED
      BY <1>1, <3>1
  <2> QED
    <3>1. pending' = [pending EXCEPT ![login] = 0]
      BY <1>4, <2>2
    <3>2. paid' \in [Logins -> Nat]
      BY <1>4, <2>1, <2>3
    <3> QED
      BY <2>1, <3>1, <3>2
<1>7. finances' \in Totals
  <2>1. finances \in Totals /\ amount \in Int
    BY <1>1 DEF IInv, TypeOK, Totals
  <2> QED
    BY <2>1, <1>4, TotalsType
<1>8. Conserved'
  BY <1>1, <1>3, <1>4 DEF IInv, TypeOK, Conserved
<1>9. \A k \in Logins : pending'[k] = 0
  BY <1>1, <1>3, <1>4 DEF IInv, TypeOK
<1>10. PendingIsLogged' /\ PendingIsLocked' /\ RowsPositive'
  BY <1>5, <1>9 DEF PendingIsLogged, PendingIsLocked, RowsPositive
<1> QED
  BY <1>4, <1>5, <1>6, <1>7, <1>8, <1>10 DEF LedgerInv

-----------------------------------------------------------------------------
(* The steps of the processor.                                              *)

LEMMA StepTypes ==
  ASSUME TypeOK
  PROVE  /\ pc \in Session \cup Maintenance \cup {"down", "idle", "halted"}
         /\ faults \in Nat
         /\ \A l \in Logins : balance[l] \in Nat
BY DEF TypeOK

LEMMA StartStep == IInv /\ Start => IInv'
<1> SUFFICES ASSUME IInv, Start PROVE IInv'
  OBVIOUS
<1>1. TypeOK /\ UNCHANGED <<ledger, credited>> /\ pc' = "idle" /\ (Fault \/ UNCHANGED faults)
  BY DEF IInv, Start, Goto
<1>2. TypeOK'
  BY <1>1, TypeKept, FaultType DEF Session, Maintenance
<1>3. Place'
  BY <1>1 DEF Place
<1> QED
  BY <1>1, <1>2, <1>3, LedgerKept

LEMMA StartSessionStep == IInv /\ StartSession => IInv'
<1> SUFFICES ASSUME IInv, StartSession PROVE IInv'
  OBVIOUS
<1>1. /\ TypeOK /\ UNCHANGED <<ledger, credited, faults>> /\ pc' = "pick"
      /\ todo' \subseteq Logins
  BY DEF IInv, StartSession, Goto
<1>2. TypeOK'
  BY <1>1, TypeKept, FaultType DEF Session, Maintenance
<1>3. Place'
  BY <1>1 DEF Place
<1> QED
  BY <1>1, <1>2, <1>3, LedgerKept

LEMMA SkipStep == ASSUME IInv, NEW l \in Logins, Skip(l) PROVE IInv'
<1>1. /\ TypeOK /\ UNCHANGED <<ledger, credited>> /\ pc' = "pick" /\ (Fault \/ UNCHANGED faults)
      /\ todo' \subseteq Logins
  BY DEF IInv, TypeOK, Skip, Session
<1>2. TypeOK'
  BY <1>1, TypeKept, FaultType DEF Session, Maintenance
<1>3. Place'
  BY <1>1 DEF Place
<1> QED
  BY <1>1, <1>2, <1>3, LedgerKept

LEMMA PickStep == ASSUME IInv, NEW l \in Logins, Pick(l) PROVE IInv'
<1>1. /\ TypeOK /\ UNCHANGED <<ledger, credited, faults>> /\ pc' = "lock"
      /\ todo' \subseteq Logins /\ login' = l /\ amount' = balance[l] /\ balance' = balance
  BY DEF IInv, TypeOK, Pick, Goto, Session, ledger
<1>2. amount' \in Nat \ {0} /\ amount' <= balance'[login']
  BY <1>1, PayoutsAssumption DEF Pick, reachedThreshold, TypeOK
<1>3. TypeOK'
  BY <1>1, <1>2, TypeKept, FaultType DEF Session, Maintenance
<1>4. Place'
  BY <1>1, <1>2 DEF Place
<1> QED
  BY <1>1, <1>3, <1>4, LedgerKept

LEMMA EndSessionStep == IInv /\ EndSession => IInv'
<1> SUFFICES ASSUME IInv, EndSession PROVE IInv'
  OBVIOUS
<1>1. TypeOK /\ UNCHANGED <<ledger, credited, faults>> /\ pc' = "idle"
  BY DEF IInv, EndSession, Goto
<1>2. TypeOK'
  BY <1>1, TypeKept, FaultType DEF Session, Maintenance
<1>3. Place'
  BY <1>1 DEF Place
<1> QED
  BY <1>1, <1>2, <1>3, LedgerKept

LEMMA CannotPayStep == IInv /\ CannotPay => IInv'
<1> SUFFICES ASSUME IInv, CannotPay PROVE IInv'
  OBVIOUS
<1>1. TypeOK /\ UNCHANGED <<ledger, credited>> /\ pc' \in {"idle", "halted"} /\ Fault
  BY DEF IInv, CannotPay, Goto
<1>2. TypeOK'
  BY <1>1, TypeKept, FaultType DEF Session, Maintenance
<1>3. Place'
  BY <1>1 DEF Place
<1> QED
  BY <1>1, <1>2, <1>3, LedgerKept

\* A lost lock is found when the answer of SetNX is lost: nothing is pending yet.
LEMMA LockPayoutsStep == IInv /\ LockPayouts => IInv'
<1> SUFFICES ASSUME IInv, LockPayouts PROVE IInv'
  OBVIOUS
<1>1. /\ TypeOK /\ pc = "lock" /\ (Fault \/ UNCHANGED faults)
      /\ UNCHANGED <<todo, payment, credited>>
  BY DEF IInv, LockPayouts, Calls
<1>2. login \in Logins /\ amount \in Nat \ {0} /\ todo \subseteq Logins
  BY <1>1 DEF TypeOK, Session
<1>3. CASE UNCHANGED ledger /\ pc' = "halted"
  <2>1. TypeOK'
    BY <1>1, <1>3, TypeKept, FaultType DEF Session, Maintenance
  <2>2. Place'
    BY <1>3 DEF Place
  <2> QED
    BY <1>1, <1>3, <2>1, <2>2, LedgerKept
<1>4. CASE /\ ~lock /\ lock' = TRUE /\ pc' \in {"debit", "halted"}
           /\ UNCHANGED <<balance, pending, paid, finances, pendingLog>>
  <2>1. pendingLog = {}
    BY <1>4 DEF IInv, PendingIsLocked
  <2>2. faults' \in Nat
    BY <1>1, FaultType
  <2>3. TypeOK'
    BY <1>1, <1>2, <1>4, <2>2 DEF TypeOK, payment, Session, Maintenance
  <2>4. amount <= balance[login]
    BY <1>1 DEF IInv, Place
  <2>5. Place'
    BY <1>1, <1>4, <2>1, <2>4 DEF Place, payment
  <2>6. (Conserved /\ PendingIsLogged /\ PendingIsLocked /\ RowsPositive)'
    BY <1>1, <1>4 DEF IInv, Conserved, PendingIsLogged, PendingIsLocked, RowsPositive
  <2> QED
    BY <2>3, <2>5, <2>6 DEF IInv
<1> QED
  BY <1>3, <1>4 DEF LockPayouts, Calls, Goto, LockKey

LEMMA DebitStep == IInv /\ Debit => IInv'
<1> SUFFICES ASSUME IInv, Debit PROVE IInv'
  OBVIOUS
<1>1. /\ TypeOK /\ pc = "debit" /\ (Fault \/ UNCHANGED faults)
      /\ UNCHANGED <<todo, payment, credited>>
  BY DEF IInv, Debit, Calls
<1>2. login \in Logins /\ amount \in Nat \ {0} /\ todo \subseteq Logins
  BY <1>1 DEF TypeOK, Session
<1>3. CASE UNCHANGED ledger /\ pc' = "halted"
  <2>1. TypeOK'
    BY <1>1, <1>3, TypeKept, FaultType DEF Session, Maintenance
  <2>2. Place'
    BY <1>3 DEF Place
  <2> QED
    BY <1>1, <1>3, <2>1, <2>2, LedgerKept
<1>4. CASE UpdateBalance(login, amount) /\ pc' \in {"send", "halted"}
  <2>1. /\ LedgerInv' /\ pendingLog' = {<<login, amount>>}
        /\ balance' \in [Logins -> Nat] /\ pending' \in [Logins -> Nat]
        /\ paid' = paid /\ finances' \in Totals
    BY <1>1, <1>4, Debited
  <2>2. lock' = lock /\ faults' \in Nat
    BY <1>1, <1>4, FaultType DEF UpdateBalance
  <2>3. pendingLog' \subseteq Rows
    BY <1>2, <2>1 DEF Rows
  <2>4. TypeOK'
    BY <1>1, <1>2, <1>4, <2>1, <2>2, <2>3
    DEF TypeOK, payment, Session, Maintenance, Totals
  <2>5. Place'
    BY <1>1, <1>4, <2>1 DEF Place, payment
  <2> QED
    BY <2>1, <2>4, <2>5 DEF IInv, LedgerInv
<1> QED
  BY <1>3, <1>4 DEF Debit, Calls, Goto

LEMMA LogStep == IInv /\ Log => IInv'
<1> SUFFICES ASSUME IInv, Log PROVE IInv'
  OBVIOUS
<1>1. /\ TypeOK /\ pc = "log" /\ (Fault \/ UNCHANGED faults)
      /\ UNCHANGED <<todo, payment, credited>>
  BY DEF IInv, Log, Calls
<1>2. todo \subseteq Logins
  BY <1>1 DEF TypeOK, Session
<1>3. CASE UNCHANGED ledger /\ pc' = "halted"
  <2>1. TypeOK'
    BY <1>1, <1>3, TypeKept, FaultType DEF Session, Maintenance
  <2>2. Place'
    BY <1>3 DEF Place
  <2> QED
    BY <1>1, <1>3, <2>1, <2>2, LedgerKept
<1>4. CASE WritePayment(login, amount) /\ pc' \in {"pick", "halted"}
  <2>1. /\ LedgerInv' /\ pendingLog' = {}
        /\ balance' = balance /\ pending' \in [Logins -> Nat] /\ paid' \in [Logins -> Nat]
        /\ lock' = FALSE /\ finances' \in Totals
    BY <1>1, <1>4, Written
  <2>2. faults' \in Nat
    BY <1>1, FaultType
  <2>3. TypeOK'
    BY <1>1, <1>2, <1>4, <2>1, <2>2
    DEF TypeOK, payment, Session, Maintenance, Totals
  <2>4. Place'
    BY <1>4 DEF Place
  <2> QED
    BY <2>1, <2>3, <2>4 DEF IInv, LedgerInv
<1> QED
  BY <1>3, <1>4 DEF Log, Calls, Goto

\* Whatever the node does, the payment stays pending.
LEMMA SendTransactionStep == IInv /\ SendTransaction => IInv'
<1> SUFFICES ASSUME IInv, SendTransaction PROVE IInv'
  OBVIOUS
<1>1. /\ TypeOK /\ pc = "send" /\ (Fault \/ UNCHANGED faults)
      /\ UNCHANGED <<ledger, todo, payment, credited>> /\ pc' \in {"log", "halted"}
  BY DEF IInv, SendTransaction, Goto
<1>2. login \in Logins /\ amount \in Nat \ {0} /\ todo \subseteq Logins
  BY <1>1 DEF TypeOK, Session
<1>3. TypeOK'
  <2>1. faults' \in Nat
    BY <1>1, FaultType
  <2> QED
    BY <1>1, <1>2, <2>1 DEF TypeOK, ledger, payment, Session, Maintenance
<1>4. Place'
  BY <1>1 DEF IInv, Place, ledger, payment
<1> QED
  BY <1>1, <1>3, <1>4, LedgerKept

LEMMA StopStep == IInv /\ Stop => IInv'
<1> SUFFICES ASSUME IInv, Stop PROVE IInv'
  OBVIOUS
<1>1. TypeOK /\ UNCHANGED <<ledger, credited>> /\ pc' = "down" /\ (Fault \/ UNCHANGED faults)
  BY DEF IInv, Stop, Goto
<1>2. TypeOK'
  BY <1>1, TypeKept, FaultType DEF Session, Maintenance
<1>3. Place'
  BY <1>1 DEF Place
<1> QED
  BY <1>1, <1>2, <1>3, LedgerKept

-----------------------------------------------------------------------------
(* The steps of the maintenance run and the operator.                       *)

\* The maintenance run begins with the rows of the log.
LEMMA resolvePayoutsStep == IInv /\ resolvePayouts => IInv'
<1> SUFFICES ASSUME IInv, resolvePayouts PROVE IInv'
  OBVIOUS
<1>1. /\ TypeOK /\ UNCHANGED <<ledger, credited, faults>> /\ pc' = "rollback"
      /\ todo' = pendingLog' /\ pendingLog # {}
  BY DEF IInv, resolvePayouts, Goto, ledger
<1>3. TypeOK'
  BY <1>1, TypeKept, FaultType DEF Session, Maintenance
<1>2. Place'
  BY <1>1 DEF Place, ledger
<1> QED
  BY <1>1, <1>2, <1>3, LedgerKept

LEMMA RollbackStep == ASSUME IInv, NEW row \in todo, Rollback(row) PROVE IInv'
<1>1. /\ TypeOK /\ pc = "rollback" /\ (Fault \/ UNCHANGED faults)
      /\ todo' = todo \ {row} /\ UNCHANGED <<payment, credited>>
  BY DEF IInv, Rollback, Calls
<1>2. CASE UNCHANGED ledger /\ pc' = "down"
  <2>1. TypeOK'
    BY <1>1, <1>2, TypeKept, FaultType DEF Session, Maintenance
  <2>2. Place'
    BY <1>2 DEF Place
  <2> QED
    BY <1>1, <1>2, <2>1, <2>2, LedgerKept
<1>3. CASE /\ RollbackBalance(row[1], row[2])
           /\ pc' \in {IF todo' = {} THEN "unlock" ELSE "rollback", "down"}
  <2>1. /\ LedgerInv' /\ pendingLog' = {} /\ todo = {row}
        /\ balance' \in [Logins -> Nat] /\ pending' \in [Logins -> Nat]
        /\ paid' = paid /\ lock' = lock /\ finances' \in Totals
    BY <1>1, <1>3, RolledBack
  <2>2. pc' \in {"unlock", "down"} /\ faults' \in Nat
    BY <1>1, <1>3, <2>1, FaultType
  <2>3. TypeOK'
    BY <1>1, <2>1, <2>2 DEF TypeOK, payment, Session, Maintenance, Totals
  <2>4. Place'
    BY <2>1, <2>2 DEF Place
  <2> QED
    BY <2>1, <2>3, <2>4 DEF IInv, LedgerInv
<1> QED
  BY <1>2, <1>3 DEF Rollback, Calls, Goto

\* The lock goes only when nothing is pending.
LEMMA Unlocked ==
  ASSUME IInv, pendingLog = {}, lock' = FALSE, pc' = "down", faults' \in Nat,
         UNCHANGED <<balance, pending, paid, finances, pendingLog, payment, credited>>
  PROVE  IInv'
<1>1. TypeOK'
  BY DEF IInv, TypeOK, payment, Session, Maintenance
<1>2. Place'
  BY DEF Place
<1> QED
  BY <1>1, <1>2 DEF IInv, Conserved, PendingIsLogged, PendingIsLocked, RowsPositive

LEMMA UnlockPayoutsStep == IInv /\ UnlockPayouts => IInv'
<1> SUFFICES ASSUME IInv, UnlockPayouts PROVE IInv'
  OBVIOUS
<1>1. /\ TypeOK /\ pc = "unlock" /\ (Fault \/ UNCHANGED faults) /\ pc' = "down"
      /\ UNCHANGED <<todo, payment, credited>>
  BY DEF IInv, UnlockPayouts, Calls, Goto
<1>2. pendingLog = {} /\ faults' \in Nat
  BY <1>1, FaultType DEF IInv, Place
<1>3. CASE UNCHANGED ledger
  <2>1. TypeOK'
    BY <1>1, <1>2, <1>3, TypeKept DEF Session, Maintenance
  <2>2. Place'
    BY <1>1 DEF Place
  <2> QED
    BY <1>1, <1>3, <2>1, <2>2, LedgerKept
<1>4. CASE /\ lock' = FALSE
           /\ UNCHANGED <<balance, pending, paid, finances, pendingLog>>
  BY <1>1, <1>2, <1>4, Unlocked
<1> QED
  BY <1>3, <1>4 DEF UnlockPayouts, Calls

LEMMA DeleteLockStep == IInv /\ DeleteLock => IInv'
<1> SUFFICES ASSUME IInv, DeleteLock PROVE IInv'
  OBVIOUS
<1>1. faults' \in Nat
  BY DEF IInv, TypeOK, DeleteLock
<1> QED
  BY <1>1, Unlocked DEF DeleteLock

-----------------------------------------------------------------------------

\* The invariant holds at first.
LEMMA InitIInv == Init => IInv
<1> SUFFICES ASSUME Init PROVE IInv
  OBVIOUS
<1>2. TypeOK
  <2>1. /\ balance \in [Logins -> Nat] /\ pending \in [Logins -> Nat]
        /\ paid \in [Logins -> Nat] /\ credited \in [Logins -> Nat]
    BY DEF Init
  <2>2. finances \in [balance : Int, pending : Int, paid : Int]
    BY DEF Init
  <2>3. pc = "down" /\ faults \in Nat /\ lock \in BOOLEAN /\ pendingLog = {}
    BY DEF Init
  <2> QED
    BY <2>1, <2>2, <2>3 DEF TypeOK, Session, Maintenance
<1>3. Conserved /\ PendingIsLogged /\ PendingIsLocked /\ RowsPositive
  BY DEF Init, Conserved, PendingIsLogged, PendingIsLocked, RowsPositive
<1>4. Place
  BY DEF Init, Place
<1> QED
  BY <1>2, <1>3, <1>4 DEF IInv

\* Every step keeps it.
LEMMA NextIInv == IInv /\ [Next]_vars => IInv'
<1> SUFFICES ASSUME IInv, [Next]_vars PROVE IInv'
  OBVIOUS
<1>1. CASE Step
  BY <1>1, StartSessionStep, EndSessionStep, LockPayoutsStep, DebitStep,
     SendTransactionStep, LogStep, SkipStep, PickStep DEF Step
<1>2. CASE Resolve
  BY <1>2, resolvePayoutsStep, UnlockPayoutsStep, DeleteLockStep, RollbackStep DEF Resolve
<1>3. CASE Start \/ CannotPay \/ Stop
  BY <1>3, StartStep, CannotPayStep, StopStep
<1>4. CASE \E l \in Logins, n \in Credits : Credit(l, n)
  BY <1>4, CreditStep
<1>5. CASE UNCHANGED vars
  <2>1. UNCHANGED <<ledger, credited, todo, payment, pc, faults>>
    BY <1>5 DEF vars
  <2>2. TypeOK' /\ Place'
    BY <2>1 DEF IInv, TypeOK, Place, ledger, payment
  <2> QED
    BY <2>1, <2>2, LedgerKept
<1> QED
  BY <1>1, <1>2, <1>3, <1>4, <1>5 DEF Next

\* The books of the payouts and what the processor knows at each call agree, after
\* every call, fault and maintenance run (process, resolvePayouts).
THEOREM Invariance == Spec => []IInv
BY InitIInv, NextIInv, PTL DEF Spec

\* The state of the ledger and of the processor has its types: no field of a
\* miner goes below zero, whatever call is lost (storage/redis.go).
THEOREM TypeCorrect == Spec => []TypeOK
<1>1. IInv => TypeOK
  BY DEF IInv
<1> QED
  BY <1>1, Invariance, PTL

\* What the unlocker credited is in the balance, pending or paid (UpdateBalance,
\* RollbackBalance and WritePayment move it and lose nothing).
THEOREM MoneyIsConserved == Spec => []Conserved
<1>1. IInv => Conserved
  BY DEF IInv
<1> QED
  BY <1>1, Invariance, PTL

\* What is pending is one payment, the log says which, and it keeps the payouts
\* locked through crashes and restarts.
THEOREM OneIsPending == Spec => []OnePending
<1>1. IInv => OnePending
  BY DEF IInv, OnePending
<1> QED
  BY <1>1, Invariance, PTL

-----------------------------------------------------------------------------
(* The pool's totals: each operation adds to a total what it adds to a miner. *)

LEMMA SumMoved ==
  ASSUME NEW f \in [Logins -> Int], NEW l \in Logins, NEW n \in Int
  PROVE  /\ SumFunction([f EXCEPT ![l] = @ + n]) = SumFunction(f) + n
         /\ SumFunction([f EXCEPT ![l] = @ - n]) = SumFunction(f) - n
<1>1. ASSUME NEW k \in Int
      PROVE  SumFunction([f EXCEPT ![l] = @ + k]) = SumFunction(f) + k
  <2> DEFINE g == [f EXCEPT ![l] = @ + k]
  <2>1. /\ DOMAIN f = Logins /\ DOMAIN g = Logins /\ g[l] = f[l] + k
        /\ \A x \in Logins : f[x] \in Int /\ g[x] \in Int
        /\ \A x \in Logins \ {l} : f[x] = g[x]
    OBVIOUS
  <2>2. IsFiniteSet(Logins)
    BY PayoutsAssumption
  <2> HIDE DEF g
  <2>3. SumFunctionOnSet(g, Logins) = SumFunctionOnSet(f, Logins) + g[l] - f[l]
    BY <2>1, <2>2, SumChange
  <2>4. SumFunctionOnSet(f, Logins) \in Int
    BY <2>1, <2>2, SumInt
  <2>5. /\ SumFunction(g) = SumFunctionOnSet(g, Logins)
        /\ SumFunction(f) = SumFunctionOnSet(f, Logins)
    BY <2>1, SumOfAll
  <2>6. SumFunction(g) = SumFunction(f) + k
    <3>1. f[l] \in Int
      BY <2>1
    <3> QED
      BY <2>1, <2>3, <2>4, <2>5, <3>1
  <2> QED
    BY <2>6 DEF g
<1>2. [f EXCEPT ![l] = @ - n] = [f EXCEPT ![l] = @ + (-n)]
  <2>1. f[l] \in Int
    OBVIOUS
  <2>2. f[l] - n = f[l] + (-n)
    BY <2>1
  <2> QED
    BY <2>2
<1>3. SumFunction(f) \in Int
  BY PayoutsAssumption, SumInt, SumOfAll
<1>4. -n \in Int /\ SumFunction(f) + (-n) = SumFunction(f) - n
  BY <1>3
<1>5. SumFunction([f EXCEPT ![l] = @ + (-n)]) = SumFunction(f) + (-n)
  BY <1>1, <1>4
<1> QED
  BY <1>1, <1>2, <1>4, <1>5

LEMMA BooksAreInt ==
  ASSUME IInv
  PROVE  balance \in [Logins -> Int] /\ pending \in [Logins -> Int] /\ paid \in [Logins -> Int]
BY DEF IInv, TypeOK

LEMMA CreditAgrees ==
  ASSUME IInv, FinancesAgree, NEW l \in Logins, NEW n \in Credits, Credit(l, n)
  PROVE  FinancesAgree'
<1>1. n \in Int
  BY PayoutsAssumption
<1>2. SumFunction([balance EXCEPT ![l] = @ + n]) = SumFunction(balance) + n
  BY <1>1, BooksAreInt, SumMoved
<1>3. /\ balance' = [balance EXCEPT ![l] = @ + n] /\ UNCHANGED <<pending, paid>>
      /\ finances' = [finances EXCEPT !.balance = @ + n]
  BY DEF Credit
<1> QED
  BY <1>2, <1>3 DEF FinancesAgree

LEMMA UpdateAgrees ==
  ASSUME IInv, FinancesAgree, NEW l \in Logins, NEW n \in Nat, UpdateBalance(l, n)
  PROVE  FinancesAgree'
<1>1. /\ SumFunction([balance EXCEPT ![l] = @ - n]) = SumFunction(balance) - n
      /\ SumFunction([pending EXCEPT ![l] = @ + n]) = SumFunction(pending) + n
  <2>1. n \in Int
    OBVIOUS
  <2>2. SumFunction([balance EXCEPT ![l] = @ - n]) = SumFunction(balance) - n
    BY <2>1, BooksAreInt, SumMoved
  <2>3. SumFunction([pending EXCEPT ![l] = @ + n]) = SumFunction(pending) + n
    BY <2>1, BooksAreInt, SumMoved
  <2> QED
    BY <2>2, <2>3
<1>2. /\ balance' = [balance EXCEPT ![l] = @ - n]
      /\ pending' = [pending EXCEPT ![l] = @ + n] /\ paid' = paid
      /\ finances' = [finances EXCEPT !.balance = @ - n, !.pending = @ + n]
  BY DEF UpdateBalance, Deducted
<1> QED
  BY <1>1, <1>2 DEF FinancesAgree

LEMMA RollbackAgrees ==
  ASSUME IInv, FinancesAgree, NEW l \in Logins, NEW n \in Nat, RollbackBalance(l, n)
  PROVE  FinancesAgree'
<1>1. /\ SumFunction([balance EXCEPT ![l] = @ + n]) = SumFunction(balance) + n
      /\ SumFunction([pending EXCEPT ![l] = @ - n]) = SumFunction(pending) - n
  <2>1. n \in Int
    OBVIOUS
  <2>2. SumFunction([balance EXCEPT ![l] = @ + n]) = SumFunction(balance) + n
    BY <2>1, BooksAreInt, SumMoved
  <2>3. SumFunction([pending EXCEPT ![l] = @ - n]) = SumFunction(pending) - n
    BY <2>1, BooksAreInt, SumMoved
  <2> QED
    BY <2>2, <2>3
<1>2. /\ balance' = [balance EXCEPT ![l] = @ + n]
      /\ pending' = [pending EXCEPT ![l] = @ - n] /\ paid' = paid
      /\ finances' = [finances EXCEPT !.balance = @ + n, !.pending = @ - n]
  BY DEF RollbackBalance, TotalsBack
<1> QED
  BY <1>1, <1>2 DEF FinancesAgree

LEMMA PaymentAgrees ==
  ASSUME IInv, FinancesAgree, NEW l \in Logins, NEW n \in Nat, WritePayment(l, n)
  PROVE  FinancesAgree'
<1>1. /\ SumFunction([pending EXCEPT ![l] = @ - n]) = SumFunction(pending) - n
      /\ SumFunction([paid EXCEPT ![l] = @ + n]) = SumFunction(paid) + n
  <2>1. n \in Int
    OBVIOUS
  <2>2. SumFunction([pending EXCEPT ![l] = @ - n]) = SumFunction(pending) - n
    BY <2>1, BooksAreInt, SumMoved
  <2>3. SumFunction([paid EXCEPT ![l] = @ + n]) = SumFunction(paid) + n
    BY <2>1, BooksAreInt, SumMoved
  <2> QED
    BY <2>2, <2>3
<1>2. /\ pending' = [pending EXCEPT ![l] = @ - n]
      /\ paid' = [paid EXCEPT ![l] = @ + n] /\ balance' = balance
      /\ finances' = [finances EXCEPT !.pending = @ - n, !.paid = @ + n]
  BY DEF WritePayment
<1> QED
  BY <1>1, <1>2 DEF FinancesAgree

\* Everything else leaves the books alone.
LEMMA NextAgrees == IInv /\ FinancesAgree /\ [Next]_vars => FinancesAgree'
<1> SUFFICES ASSUME IInv, FinancesAgree, [Next]_vars PROVE FinancesAgree'
  OBVIOUS
<1>1. ASSUME UNCHANGED <<balance, pending, paid, finances>> PROVE FinancesAgree'
  BY <1>1 DEF FinancesAgree
<1>2. CASE Debit
  <2>1. login \in Logins /\ amount \in Nat
    BY <1>2 DEF Debit, IInv, TypeOK
  <2> QED
    BY <1>1, <1>2, <2>1, UpdateAgrees DEF Debit, Calls, ledger
<1>3. CASE Log
  <2>1. login \in Logins /\ amount \in Nat
    BY <1>3 DEF Log, IInv, TypeOK
  <2> QED
    BY <1>1, <1>3, <2>1, PaymentAgrees DEF Log, Calls, ledger
<1>4. ASSUME NEW row \in todo, Rollback(row) PROVE FinancesAgree'
  <2>1. row[1] \in Logins /\ row[2] \in Nat
    BY <1>4 DEF Rollback, IInv, TypeOK, Place, Rows
  <2> QED
    BY <1>1, <1>4, <2>1, RollbackAgrees DEF Rollback, Calls, ledger
<1>5. CASE StartSession \/ EndSession \/ SendTransaction \/ Start \/ CannotPay \/ Stop
  BY <1>1, <1>5 DEF StartSession, EndSession, SendTransaction, Start, CannotPay, Stop, ledger
<1>6. CASE LockPayouts \/ UnlockPayouts \/ resolvePayouts \/ DeleteLock
  BY <1>1, <1>6 DEF LockPayouts, UnlockPayouts, resolvePayouts, DeleteLock, Calls, ledger
<1>7. CASE \E l \in Logins : Skip(l) \/ Pick(l)
  BY <1>1, <1>7 DEF Skip, Pick, ledger
<1>8. CASE \E l \in Logins, n \in Credits : Credit(l, n)
  BY <1>8, CreditAgrees
<1>9. CASE UNCHANGED vars
  BY <1>1, <1>9 DEF vars, ledger
<1> QED
  BY <1>2, <1>3, <1>4, <1>5, <1>6, <1>7, <1>8, <1>9 DEF Next, Step, Resolve

LEMMA InitAgrees == Init => FinancesAgree
<1> SUFFICES ASSUME Init PROVE FinancesAgree
  OBVIOUS
<1> DEFINE zero == [l \in Logins |-> 0]
<1>1. SumFunction(zero) = 0
  BY PayoutsAssumption, SumZero, SumOfAll
<1> HIDE DEF zero
<1>2. /\ balance = zero /\ pending = zero /\ paid = zero
      /\ finances = [balance |-> 0, pending |-> 0, paid |-> 0]
  BY DEF Init, zero
<1> QED
  BY <1>1, <1>2 DEF FinancesAgree

\* The pool's balance, pending and paid are the sums of the miners', for every
\* set of miners and whatever calls are lost (storage/redis.go keeps both in
\* the same MULTI).
THEOREM TotalsAgree == Spec => []FinancesAgree
BY InitAgrees, NextAgrees, Invariance, PTL DEF Spec

=============================================================================
