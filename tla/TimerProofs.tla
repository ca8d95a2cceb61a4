----------------------------- MODULE TimerProofs -----------------------------
(***************************************************************************)
(* Invariance proofs for what the timers of the proxy and of the API server  *)
(* change: VarDiff, for every difficulty whose square is below 2^256, with   *)
(* the conversion between difficulties and targets; Upstreams, for every     *)
(* number of nodes, callers and thresholds; HashrateStats, for every set of   *)
(* miners, windows and intervals.                                            *)
(***************************************************************************)
EXTENDS VarDiff, Upstreams, HashrateStats, TLAPS

-----------------------------------------------------------------------------
(* VarDiff.                                                                 *)

\* The difficulties an adjustment can reach.
Reachable == 1..Difficulty

\* Targets are made of reachable difficulties, the pool's for what is announced.
TargetsMade ==
  /\ \A s \in registered : \E d \in Reachable : target[s] = GetTargetHex(d)
  /\ \A s \in Sessions : targetNextJob[s] \in {0, ProxyTarget}

VarDiffInv == VarDiffTypeOK /\ TargetsMade /\ ToldPoolDifficulty

-----------------------------------------------------------------------------
(* Division.                                                                *)

LEMMA Quotient ==
  ASSUME NEW n \in Nat, NEW d \in Nat \ {0}
  PROVE  /\ n \div d \in Nat
         /\ d * (n \div d) <= n
         /\ n < d * (n \div d) + d
OBVIOUS

LEMMA QuotientUnique ==
  ASSUME NEW n \in Nat, NEW d \in Nat \ {0}, NEW q \in Nat, d * q <= n, n < d * q + d
  PROVE  n \div d = q
OBVIOUS

\* Order of products.
LEMMA ProductOrder ==
  ASSUME NEW a \in Nat, NEW b \in Nat, NEW c \in Nat, NEW d \in Nat, a <= b, c <= d
  PROVE  a * c <= b * d
OBVIOUS

\* A difficulty turned into a target and back is the same difficulty
\* (util.GetTargetHex, util.TargetHexToDiff).
LEMMA RoundTrip ==
  ASSUME NEW d \in Reachable
  PROVE  /\ GetTargetHex(d) \in Nat \ {0}
         /\ GetTargetHex(d) <= Pow
         /\ TargetHexToDiff(GetTargetHex(d)) = d
<1> DEFINE q == Pow \div d
<1>1. d \in Nat \ {0} /\ d <= Difficulty /\ Pow \in Nat /\ Difficulty \in Nat
  BY VarDiffAssumption DEF Reachable
<1>2. d * d < Pow
  <2>1. d * d <= Difficulty * Difficulty
    BY <1>1, ProductOrder
  <2>2. d * d \in Nat /\ Difficulty * Difficulty \in Nat
    BY <1>1
  <2> QED
    BY <1>1, <2>1, <2>2, VarDiffAssumption
<1>3. q \in Nat /\ d * q <= Pow /\ Pow < d * q + d
  BY <1>1, Quotient
<1> HIDE DEF q
<1>4. d <= q
  <2> SUFFICES ASSUME q + 1 <= d PROVE FALSE
    BY <1>1, <1>3
  <2>1. d * (q + 1) <= d * d
    BY <1>1, <1>3, ProductOrder
  <2>2. d * (q + 1) = d * q + d
    BY <1>1, <1>3
  <2>3. d * (q + 1) \in Nat /\ d * d \in Nat /\ d * q + d \in Nat
    BY <1>1, <1>3
  <2> QED
    BY <1>1, <1>2, <1>3, <2>1, <2>2, <2>3
<1>5. q * d = d * q /\ d * q \in Nat
  BY <1>1, <1>3
<1>6. Pow \div q = d
  <2>1. q \in Nat \ {0} /\ q * d <= Pow /\ Pow < q * d + q
    BY <1>1, <1>3, <1>4, <1>5
  <2> QED
    BY <1>1, <2>1, QuotientUnique
<1>7. q <= Pow
  <2>1. 1 * q <= d * q
    BY <1>1, <1>3, ProductOrder
  <2>2. 1 * q = q
    BY <1>3
  <2> QED
    BY <1>1, <1>3, <1>5, <2>1, <2>2
<1>8. GetTargetHex(d) = q
  BY DEF GetTargetHex, q
<1> QED
  BY <1>1, <1>3, <1>4, <1>6, <1>7, <1>8 DEF TargetHexToDiff

\* A lowered difficulty that has not sunk to 0 is reachable.
LEMMA LoweredReachable ==
  ASSUME NEW d \in Reachable, Lowered(d) # 0
  PROVE  Lowered(d) \in Reachable
BY VarDiffAssumption DEF Reachable, Lowered

LEMMA PoolTarget ==
  /\ Difficulty \in Reachable
  /\ ProxyTarget \in 0..Pow /\ ProxyTarget # 0
  /\ TargetHexToDiff(ProxyTarget) = Difficulty
<1>1. Difficulty \in Reachable
  BY VarDiffAssumption DEF Reachable
<1> QED
  BY <1>1, RoundTrip, VarDiffAssumption DEF ProxyTarget

\* Nothing counts shares, so an adjustment never raises.
LEMMA NeverUp == ~GoesUp
BY VarDiffAssumption DEF GoesUp, shareCountInv

-----------------------------------------------------------------------------
(* The steps.                                                               *)

LEMMA SubscribeStep == ASSUME VarDiffInv, NEW s \in Sessions, Subscribe(s) PROVE VarDiffInv'
<1>1. VarDiffTypeOK'
  BY PoolTarget DEF VarDiffInv, VarDiffTypeOK, Subscribe
<1>2. target'[s] = GetTargetHex(Difficulty)
  BY DEF VarDiffInv, VarDiffTypeOK, Subscribe, ProxyTarget
<1>3. \A r \in registered' : \E d \in Reachable : target'[r] = GetTargetHex(d)
  <2> SUFFICES ASSUME NEW r \in registered', r # s
               PROVE  \E d \in Reachable : target'[r] = GetTargetHex(d)
    BY <1>2, PoolTarget
  <2>1. r \in registered /\ target'[r] = target[r]
    BY DEF VarDiffInv, VarDiffTypeOK, Subscribe
  <2> QED
    BY <2>1 DEF VarDiffInv, TargetsMade
<1>4. \A r \in Sessions : targetNextJob'[r] \in {0, ProxyTarget}
  BY DEF VarDiffInv, VarDiffTypeOK, TargetsMade, Subscribe
<1>5. ToldPoolDifficulty'
  BY DEF VarDiffInv, ToldPoolDifficulty, Subscribe
<1> QED
  BY <1>1, <1>3, <1>4, <1>5 DEF VarDiffInv, TargetsMade

LEMMA AuthorizeStep == ASSUME VarDiffInv, NEW s \in Sessions, Authorize(s) PROVE VarDiffInv'
BY DEF VarDiffInv, VarDiffTypeOK, TargetsMade, ToldPoolDifficulty, Authorize

\* What is announced is made of the pool's target.
LEMMA setDifficultyStep == ASSUME VarDiffInv, NEW s \in Sessions, setDifficulty(s) PROVE VarDiffInv'
<1>1. told' = told \/ told' = [told EXCEPT ![s] = Difficulty]
  BY PoolTarget DEF VarDiffInv, TargetsMade, setDifficulty
<1>2. told' \in [Sessions -> 0..Difficulty]
  BY <1>1, VarDiffAssumption DEF VarDiffInv, VarDiffTypeOK
<1>3. panicked' \in BOOLEAN
  BY DEF setDifficulty
<1>4. VarDiffTypeOK'
  BY <1>2, <1>3 DEF VarDiffInv, VarDiffTypeOK, setDifficulty
<1>5. TargetsMade'
  BY DEF VarDiffInv, TargetsMade, setDifficulty
<1>6. ToldPoolDifficulty'
  BY <1>1 DEF VarDiffInv, VarDiffTypeOK, ToldPoolDifficulty
<1> QED
  BY <1>4, <1>5, <1>6 DEF VarDiffInv

LEMMA RemoveStep == ASSUME VarDiffInv, NEW s \in Sessions, Remove(s) PROVE VarDiffInv'
<1>1. VarDiffTypeOK'
  BY VarDiffAssumption DEF VarDiffInv, VarDiffTypeOK, Remove
<1>2. TargetsMade'
  BY DEF VarDiffInv, VarDiffTypeOK, TargetsMade, Remove
<1>3. ToldPoolDifficulty'
  BY DEF VarDiffInv, VarDiffTypeOK, ToldPoolDifficulty, Remove
<1> QED
  BY <1>1, <1>2, <1>3 DEF VarDiffInv

\* Adjusting makes targets of lower difficulties, or panics.
LEMMA UpdateAllSessionDiffStep == VarDiffInv /\ UpdateAllSessionDiff => VarDiffInv'
<1> SUFFICES ASSUME VarDiffInv, UpdateAllSessionDiff PROVE VarDiffInv'
  OBVIOUS
<1>1. /\ UNCHANGED <<registered, announcing, told>>
      /\ panicked' = \E s \in registered : GoesDown /\ DownTo(s) = 0
  BY DEF UpdateAllSessionDiff
<1>2. CASE panicked'
  <2>1. UNCHANGED <<target, targetNextJob>> /\ panicked' \in BOOLEAN
    BY <1>1, <1>2 DEF UpdateAllSessionDiff
  <2> QED
    BY <1>1, <2>1 DEF VarDiffInv, VarDiffTypeOK, TargetsMade, ToldPoolDifficulty
<1>3. CASE ~panicked'
  <2>1. /\ targetNextJob' = [s \in Sessions |-> NextTarget(s)]
        /\ target' = [s \in Sessions |->
             IF s \in registered /\ GoesDown THEN GetTargetHex(DownTo(s)) ELSE target[s]]
    BY <1>3 DEF UpdateAllSessionDiff
  <2>2. targetNextJob' = targetNextJob
    BY <2>1, NeverUp DEF NextTarget, VarDiffInv, VarDiffTypeOK
  <2>3. ASSUME NEW s \in registered
        PROVE  \E d \in Reachable : target'[s] = GetTargetHex(d)
    <3>1. PICK d \in Reachable : target[s] = GetTargetHex(d)
      BY DEF VarDiffInv, TargetsMade
    <3>2. s \in Sessions
      BY DEF VarDiffInv, VarDiffTypeOK
    <3>3. CASE GoesDown
      <4>1. DownTo(s) = Lowered(d)
        BY <3>1, RoundTrip DEF DownTo
      <4>2. DownTo(s) \in Reachable
        BY <1>1, <1>3, <3>3, <4>1, LoweredReachable
      <4>3. target'[s] = GetTargetHex(DownTo(s))
        BY <2>1, <3>2, <3>3
      <4> QED
        BY <4>2, <4>3
    <3>4. CASE ~GoesDown
      BY <2>1, <3>1, <3>2, <3>4
    <3> QED
      BY <3>3, <3>4
  <2>4. ASSUME NEW s \in Sessions
        PROVE  target'[s] \in 0..Pow /\ (s \in registered => target'[s] # 0)
    <3>1. CASE s \in registered
      <4>1. PICK d \in Reachable : target'[s] = GetTargetHex(d)
        BY <2>3, <3>1
      <4> QED
        BY <4>1, RoundTrip, VarDiffAssumption
    <3>2. CASE s \notin registered
      BY <2>1, <3>2 DEF VarDiffInv, VarDiffTypeOK
    <3> QED
      BY <3>1, <3>2
  <2>5. target' \in [Sessions -> 0..Pow]
    BY <2>1, <2>4
  <2>6. panicked' \in BOOLEAN
    BY <1>1
  <2>7. VarDiffTypeOK'
    BY <1>1, <2>2, <2>4, <2>5, <2>6 DEF VarDiffInv, VarDiffTypeOK
  <2>8. TargetsMade'
    BY <1>1, <2>2, <2>3 DEF VarDiffInv, TargetsMade
  <2>9. ToldPoolDifficulty'
    BY <1>1 DEF VarDiffInv, ToldPoolDifficulty
  <2> QED
    BY <2>7, <2>8, <2>9 DEF VarDiffInv
<1> QED
  BY <1>2, <1>3

-----------------------------------------------------------------------------

LEMMA VarDiffInvInit == VarDiffInit => VarDiffInv
<1> SUFFICES ASSUME VarDiffInit PROVE VarDiffInv
  OBVIOUS
<1>1. VarDiffTypeOK
  <2>1. 0 \in 0..Pow /\ 0 \in 0..Difficulty
    BY VarDiffAssumption
  <2>2. /\ target \in [Sessions -> 0..Pow] /\ targetNextJob \in [Sessions -> 0..Pow]
        /\ told \in [Sessions -> 0..Difficulty]
    BY <2>1 DEF VarDiffInit
  <2> QED
    BY <2>2 DEF VarDiffInit, VarDiffTypeOK
<1>2. TargetsMade /\ ToldPoolDifficulty
  BY DEF VarDiffInit, TargetsMade, ToldPoolDifficulty
<1> QED
  BY <1>1, <1>2 DEF VarDiffInv

LEMMA VarDiffInvNext == VarDiffInv /\ [VarDiffNext]_varDiffVars => VarDiffInv'
<1> SUFFICES ASSUME VarDiffInv, [VarDiffNext]_varDiffVars PROVE VarDiffInv'
  OBVIOUS
<1>1. CASE UpdateAllSessionDiff
  BY <1>1, UpdateAllSessionDiffStep
<1>2. ASSUME NEW s \in Sessions,
             Subscribe(s) \/ Authorize(s) \/ setDifficulty(s) \/ Remove(s)
      PROVE  VarDiffInv'
  BY <1>2, SubscribeStep, AuthorizeStep, setDifficultyStep, RemoveStep
<1>3. CASE UNCHANGED varDiffVars
  BY <1>3 DEF VarDiffInv, VarDiffTypeOK, TargetsMade, ToldPoolDifficulty, varDiffVars
<1> QED
  BY <1>1, <1>2, <1>3 DEF VarDiffNext

\* Every target in use is that of a difficulty the retargeting can reach from the
\* pool's (the timer of variable difficulty).
THEOREM VarDiffInvariance == VarDiffSpec => []VarDiffInv
BY VarDiffInvInit, VarDiffInvNext, PTL DEF VarDiffSpec

\* Targets and difficulties have their types, and a registered session is never
\* without a target (Session.targetNextJob, Session.nextDiff).
THEOREM VarDiffTypeCorrect == VarDiffSpec => []VarDiffTypeOK
<1>1. VarDiffInv => VarDiffTypeOK
  BY DEF VarDiffInv
<1> QED
  BY <1>1, VarDiffInvariance, PTL

\* A session is told the pool's difficulty or nothing, whatever becomes of its
\* own target (setDifficulty, handleSubscribeRPC).
THEOREM AlwaysToldPoolDifficulty == VarDiffSpec => []ToldPoolDifficulty
<1>1. VarDiffInv => ToldPoolDifficulty
  BY DEF VarDiffInv
<1> QED
  BY <1>1, VarDiffInvariance, PTL

\* Shares are not judged harder than announced, through any number of
\* adjustments (UpdateAllSessionDiff, processShare).
THEOREM NotJudgedHarder == VarDiffSpec => []JudgedNotHarder
<1>1. VarDiffInv => JudgedNotHarder
  <2> SUFFICES ASSUME VarDiffInv, NEW s \in registered, told[s] # 0
               PROVE  TargetHexToDiff(target[s]) <= told[s]
    BY DEF JudgedNotHarder
  <2>1. told[s] = Difficulty
    BY DEF VarDiffInv, VarDiffTypeOK, ToldPoolDifficulty
  <2>2. PICK d \in Reachable : target[s] = GetTargetHex(d)
    BY DEF VarDiffInv, TargetsMade
  <2>3. TargetHexToDiff(target[s]) = d
    BY <2>2, RoundTrip
  <2> QED
    BY <2>1, <2>3, VarDiffAssumption DEF Reachable
<1> QED
  BY <1>1, VarDiffInvariance, PTL

-----------------------------------------------------------------------------
(* Upstreams.                                                               *)

\* What checkUpstreams, the callers and the timer keep.
ProxyTypes ==
  /\ up \subseteq Ids /\ redisUp \in BOOLEAN
  /\ upstream \in Ids /\ call \in [Callers -> Ids \cup {-1}]
  /\ check \in [i : 0..N, pc : {"post", "alive", "ask"}, candidate : Ids, backup : BOOLEAN]
  /\ failsCount \in 0..MaxFails /\ hasTemplate \in BOOLEAN

\* What the nodes' clients keep.
ClientTypes ==
  /\ sick \in [Ids -> BOOLEAN]
  /\ sickRate \in [Ids -> 0..Threshold] /\ successRate \in [Ids -> 0..Threshold - 1]
  /\ answered \in [Ids -> 0..Threshold]

SickByRate == \A u \in Ids : sick[u] <=> sickRate[u] >= Threshold

\* A check of u has been answered and markAlive not been called yet.
Pending(u) == u = check.i /\ check.pc = "alive"

\* Successes are answers without a failure between them, but for one answer that
\* a failure came after before it was counted.
CountsAnswers ==
  \A u \in Ids :
    /\ successRate[u] <= answered[u] + 1
    /\ Pending(u) => successRate[u] <= answered[u]

UpstreamsInv == ProxyTypes /\ ClientTypes /\ SickByRate /\ CountsAnswers

-----------------------------------------------------------------------------
(* Lemmas.                                                                  *)

LEMMA Constants ==
  /\ N \in Nat /\ 0 < N /\ 0 \in Ids
  /\ Threshold \in Nat /\ 0 < Threshold /\ MaxFails \in Nat
BY UpstreamsAssumption DEF Ids

\* A failure of u, whoever meets it, as long as no other check becomes pending.
LEMMA Sick ==
  ASSUME ClientTypes, SickByRate, CountsAnswers, NEW u \in Ids, markSick(u),
         \A v \in Ids : Pending(v)' => Pending(v)
  PROVE  ClientTypes' /\ SickByRate' /\ CountsAnswers'
<1>1. ClientTypes'
  BY Constants DEF ClientTypes, markSick, NoSuccess
<1>2. SickByRate'
  <2> SUFFICES ASSUME NEW v \in Ids PROVE sick'[v] <=> sickRate'[v] >= Threshold
    BY DEF SickByRate
  <2>1. (sick[v] <=> sickRate[v] >= Threshold) /\ sickRate[v] \in 0..Threshold
    BY DEF ClientTypes, SickByRate
  <2>2. CASE v = u
    <3>1. /\ sick'[v] <=> sick[v] \/ sickRate[v] + 1 >= Threshold
          /\ sickRate'[v] = IF sickRate[v] < Threshold THEN sickRate[v] + 1 ELSE sickRate[v]
      BY <2>2 DEF ClientTypes, markSick
    <3> QED
      BY <2>1, <3>1, Constants
  <2>3. CASE v # u
    BY <2>1, <2>3 DEF ClientTypes, markSick
  <2> QED
    BY <2>2, <2>3
<1>3. CountsAnswers'
  <2> SUFFICES ASSUME NEW v \in Ids
               PROVE  /\ successRate'[v] <= answered'[v] + 1
                      /\ Pending(v)' => successRate'[v] <= answered'[v]
    BY DEF CountsAnswers
  <2>1. CASE v = u
    BY <2>1 DEF ClientTypes, markSick, NoSuccess
  <2>2. CASE v # u
    BY <2>2 DEF ClientTypes, markSick, NoSuccess, CountsAnswers
  <2> QED
    BY <2>1, <2>2
<1> QED
  BY <1>1, <1>2, <1>3

\* The next upstream is asked.
LEMMA Next1 ==
  ASSUME ProxyTypes, check.i < N, NEW healthy \in BOOLEAN, NextOne(healthy),
         UNCHANGED <<up, redisUp, upstream, call, failsCount, hasTemplate>>
  PROVE  ProxyTypes' /\ \A v \in Ids : ~Pending(v)'
<1>1. check.i \in Ids
  BY Constants DEF ProxyTypes, Ids
<1>2. check'.i \in 0..N /\ check'.pc = "post"
  BY Constants DEF ProxyTypes, NextOne
<1>3. check' \in [i : 0..N, pc : {"post", "alive", "ask"}, candidate : Ids, backup : BOOLEAN]
  BY <1>1, <1>2 DEF ProxyTypes, NextOne
<1> QED
  BY <1>2, <1>3 DEF ProxyTypes, Pending

-----------------------------------------------------------------------------
(* The invariant.                                                           *)

LEMMA UpstreamsInvInit == UpstreamsInit => UpstreamsInv
<1> SUFFICES ASSUME UpstreamsInit PROVE UpstreamsInv
  OBVIOUS
<1>1. ProxyTypes
  <2>1. hasTemplate \in BOOLEAN
    BY DEF UpstreamsInit
  <2> QED
    BY <2>1, Constants DEF UpstreamsInit, ProxyTypes, NewCheck
<1>2. ClientTypes /\ SickByRate /\ CountsAnswers
  BY Constants DEF UpstreamsInit, ClientTypes, SickByRate, CountsAnswers, Pending, NewCheck
<1> QED
  BY <1>1, <1>2 DEF UpstreamsInv

LEMMA Kept ==
  ASSUME UpstreamsInv, UNCHANGED <<health, answered, check>>
  PROVE  ClientTypes' /\ SickByRate' /\ CountsAnswers'
BY DEF UpstreamsInv, health, ClientTypes, SickByRate, CountsAnswers, Pending

LEMMA CheckStep == ASSUME UpstreamsInv, Check PROVE UpstreamsInv'
<1>1. check.i \in Ids /\ check.i < N
  BY Constants DEF Check, UpstreamsInv, ProxyTypes, Ids
<1>2. UNCHANGED <<up, redisUp, upstream, call, failsCount, hasTemplate>>
  BY DEF Check
<1>3. CASE check.pc = "post" /\ check.i \notin up /\ markSick(check.i) /\ NextOne(FALSE)
  <2>1. ProxyTypes' /\ \A v \in Ids : ~Pending(v)'
    BY <1>1, <1>2, <1>3, Next1 DEF UpstreamsInv
  <2> QED
    BY <1>1, <1>3, <2>1, Sick DEF UpstreamsInv
<1>4. CASE /\ check.pc = "post" /\ check.i \in up
           /\ check' = [check EXCEPT !.pc = "alive"]
           /\ answered' = [answered EXCEPT ![check.i] = IF @ < Threshold THEN @ + 1 ELSE @]
           /\ UNCHANGED health
  <2>1. ProxyTypes' /\ check'.i = check.i
    BY <1>2, <1>4 DEF UpstreamsInv, ProxyTypes
  <2>2. ClientTypes' /\ SickByRate'
    <3>1. answered' \in [Ids -> 0..Threshold]
      BY <1>1, <1>4, Constants DEF UpstreamsInv, ClientTypes
    <3> QED
      BY <1>4, <3>1 DEF UpstreamsInv, ClientTypes, SickByRate, health
  <2>3. CountsAnswers'
    <3> SUFFICES ASSUME NEW v \in Ids
                 PROVE  /\ successRate[v] <= answered'[v] + 1
                        /\ v = check.i => successRate[v] <= answered'[v]
      BY <1>4, <2>1 DEF CountsAnswers, Pending, health
    <3>1. successRate[v] <= answered[v] + 1 /\ successRate[v] \in 0..Threshold - 1
          /\ answered[v] \in 0..Threshold
      BY DEF UpstreamsInv, CountsAnswers, ClientTypes
    <3>2. CASE v = check.i
      BY <1>4, <3>1, <3>2, Constants DEF UpstreamsInv, ClientTypes
    <3>3. CASE v # check.i
      BY <1>4, <3>1, <3>3 DEF UpstreamsInv, ClientTypes
    <3> QED
      BY <3>2, <3>3
  <2> QED
    BY <2>1, <2>2, <2>3 DEF UpstreamsInv
<1>5. CASE /\ check.pc = "alive" /\ markAlive(check.i)
           /\ check' = [check EXCEPT !.pc = "ask"]
           /\ UNCHANGED answered
  <2>1. ProxyTypes' /\ \A v \in Ids : ~Pending(v)'
    BY <1>2, <1>5 DEF UpstreamsInv, ProxyTypes, Pending
  <2>2. ClientTypes'
    <3>1. CASE successRate[check.i] + 1 < Threshold
      <4>1. successRate[check.i] + 1 \in 0..Threshold - 1
        BY <1>1, <3>1, Constants DEF UpstreamsInv, ClientTypes
      <4> QED
        BY <1>1, <1>5, <3>1, <4>1 DEF UpstreamsInv, ClientTypes, markAlive
    <3>2. CASE ~(successRate[check.i] + 1 < Threshold)
      <4>1. 0 \in 0..Threshold /\ 0 \in 0..Threshold - 1 /\ FALSE \in BOOLEAN
        BY Constants
      <4>2. /\ sick' = [sick EXCEPT ![check.i] = FALSE]
            /\ sickRate' = [sickRate EXCEPT ![check.i] = 0]
            /\ successRate' = [successRate EXCEPT ![check.i] = 0]
        BY <1>5, <3>2 DEF markAlive, NotSick
      <4> QED
        BY <1>5, <4>1, <4>2 DEF UpstreamsInv, ClientTypes
    <3> QED
      BY <3>1, <3>2
  <2>3. SickByRate'
    BY <1>1, <1>5, Constants DEF UpstreamsInv, ClientTypes, SickByRate, markAlive, NotSick
  <2>4. \A v \in Ids : successRate'[v] <= answered[v] + 1
    <3> SUFFICES ASSUME NEW v \in Ids PROVE successRate'[v] <= answered[v] + 1
      OBVIOUS
    <3>1. successRate[v] <= answered[v] + 1 /\ answered[v] \in Nat /\ successRate[v] \in Nat
      BY Constants DEF UpstreamsInv, CountsAnswers, ClientTypes
    <3>2. CASE v = check.i
      <4>1. successRate[v] <= answered[v]
        BY <1>5, <3>2 DEF UpstreamsInv, CountsAnswers, Pending
      <4>2. successRate'[v] = successRate[v] + 1 \/ successRate'[v] = 0
        BY <1>5, <3>2 DEF UpstreamsInv, ClientTypes, markAlive
      <4> QED
        BY <3>1, <4>1, <4>2
    <3>3. CASE v # check.i
      BY <1>5, <3>1, <3>3 DEF UpstreamsInv, ClientTypes, markAlive
    <3> QED
      BY <3>2, <3>3
  <2> QED
    BY <1>5, <2>1, <2>2, <2>3, <2>4 DEF UpstreamsInv, CountsAnswers
<1>6. CASE check.pc = "ask" /\ NextOne(~sick[check.i]) /\ UNCHANGED <<health, answered>>
  <2>1. sick[check.i] \in BOOLEAN
    BY <1>1 DEF UpstreamsInv, ClientTypes
  <2>2. ProxyTypes' /\ \A v \in Ids : ~Pending(v)'
    BY <1>1, <1>2, <1>6, <2>1, Next1 DEF UpstreamsInv
  <2> QED
    BY <1>6, <2>2 DEF UpstreamsInv, ClientTypes, SickByRate, CountsAnswers, health
<1> QED
  BY <1>3, <1>4, <1>5, <1>6 DEF Check

LEMMA UpstreamsInvNext == UpstreamsInv /\ [UpstreamsNext]_upstreamsVars => UpstreamsInv'
<1> SUFFICES ASSUME UpstreamsInv, [UpstreamsNext]_upstreamsVars PROVE UpstreamsInv'
  OBVIOUS
<1>1. CASE Outside
  <2>1. ProxyTypes'
    BY <1>1 DEF Outside, UpstreamsInv, ProxyTypes
  <2> QED
    BY <1>1, <2>1, Kept DEF Outside, UpstreamsInv
<1>2. CASE Check
  BY <1>2, CheckStep
<1>3. CASE Switch
  <2>1. ProxyTypes' /\ \A v \in Ids : ~Pending(v)'
    BY <1>3, Constants DEF Switch, UpstreamsInv, ProxyTypes, NewCheck, Pending
  <2> QED
    BY <1>3, <2>1 DEF Switch, UpstreamsInv, health, ClientTypes, SickByRate, CountsAnswers
<1>4. CASE StateUpdate
  <2>1. ProxyTypes'
    BY <1>4, Constants DEF StateUpdate, UpstreamsInv, ProxyTypes, markOk
  <2> QED
    BY <1>4, <2>1, Kept DEF StateUpdate, UpstreamsInv
<1>5. ASSUME NEW c \in Callers, Request(c) \/ doPostAnswered(c)
      PROVE  UpstreamsInv'
  <2>1. ProxyTypes'
    BY <1>5 DEF Request, doPostAnswered, UpstreamsInv, ProxyTypes
  <2> QED
    BY <1>5, <2>1, Kept DEF Request, doPostAnswered, UpstreamsInv
<1>6. ASSUME NEW c \in Callers, doPostFails(c)
      PROVE  UpstreamsInv'
  <2>1. call[c] \in Ids
    BY <1>6 DEF doPostFails, UpstreamsInv, ProxyTypes
  <2>2. ProxyTypes' /\ UNCHANGED check
    BY <1>6 DEF doPostFails, UpstreamsInv, ProxyTypes
  <2> QED
    BY <1>6, <2>1, <2>2, Sick DEF doPostFails, UpstreamsInv, Pending
<1>7. CASE UNCHANGED upstreamsVars
  BY <1>7, Kept DEF upstreamsVars, UpstreamsInv, ProxyTypes
<1> QED
  BY <1>1, <1>2, <1>3, <1>4, <1>5, <1>6, <1>7 DEF UpstreamsNext

\* The success rate of a node counts only answers since its last failure
\* (markAlive, markSick).
THEOREM UpstreamsInvariance == UpstreamsSpec => []UpstreamsInv
BY UpstreamsInvInit, UpstreamsInvNext, PTL DEF UpstreamsSpec

\* The counters stay in their ranges, and a node is sick exactly when its failures
\* have come up to the threshold (RPCClient.markSick, markAlive).
THEOREM UpstreamsTypeCorrect == UpstreamsSpec => []UpstreamsTypeOK
<1>1. UpstreamsInv => UpstreamsTypeOK
  BY DEF UpstreamsInv, ProxyTypes, ClientTypes, SickByRate, UpstreamsTypeOK
<1> QED
  BY <1>1, UpstreamsInvariance, PTL

\* A node that was given up is taken back only after a run of answers, whoever's
\* requests fail meanwhile (RPCClient.Check, markSick, markAlive).
THEOREM BackOnAnswers == UpstreamsSpec => RecoversOnAnswers
<1>1. UpstreamsInv /\ [UpstreamsNext]_upstreamsVars
        => [\A u \in Ids : sick[u] /\ ~sick'[u] => answered[u] >= Threshold - 1]_upstreamsVars
  <2> SUFFICES ASSUME UpstreamsInv, UpstreamsNext, NEW u \in Ids, sick[u], ~sick'[u]
               PROVE  answered[u] >= Threshold - 1
    OBVIOUS
  <2>1. CASE Check
    <3>1. check.pc = "alive" /\ markAlive(check.i)
      BY <2>1 DEF Check, UpstreamsInv, ClientTypes, markSick, health
    <3>2. u = check.i /\ successRate[u] + 1 >= Threshold
      BY <3>1, Constants DEF markAlive, UpstreamsInv, ClientTypes
    <3>3. successRate[u] <= answered[u]
      BY <3>1, <3>2 DEF UpstreamsInv, CountsAnswers, Pending
    <3> QED
      BY <3>2, <3>3, Constants DEF UpstreamsInv, ClientTypes
  <2>2. CASE ~Check
    <3>1. ASSUME NEW c \in Callers, doPostFails(c)
          PROVE  FALSE
      BY <3>1 DEF doPostFails, markSick, UpstreamsInv, ClientTypes
    <3> QED
      BY <2>2, <3>1 DEF UpstreamsNext, Outside, Switch, StateUpdate, Request, doPostAnswered, health
  <2> QED
    BY <2>1, <2>2
<1> QED
  BY <1>1, UpstreamsInvariance, PTL DEF UpstreamsSpec, RecoversOnAnswers

-----------------------------------------------------------------------------
(* HashrateStats.                                                           *)

\* What HashrateTypeOK says of the values, for the records and functions too.
HashrateShapes ==
  /\ account \in [Logins -> SUBSET shares]
  /\ miners \in [Logins -> [at : -1..now, seen : SUBSET shares]]
  /\ flush \in [pc : {"idle", "all", "invalid", "logins"}, todo : SUBSET Logins, at : 0..now]

\* Nothing that still counts has been trimmed or has expired.
PoolCovered == \A x \in shares : now - x.ts <= Window => x \in hashrate
AccountsCovered ==
  \A x \in shares :
    now - x.ts <= LargeWindow /\ now - x.ts < Expiration => x \in account[x.login]

\* The cache of an account has what its window covered when it was filled, but
\* for what came at that very moment.
CacheCovers ==
  \A x \in shares :
    LET at == miners[x.login].at
    IN x.ts < at /\ at - x.ts <= LargeWindow /\ at - x.ts < Expiration =>
         x \in miners[x.login].seen

HashrateInv ==
  /\ HashrateTypeOK /\ HashrateShapes
  /\ PoolCovered /\ AccountsCovered /\ CacheCovers /\ AnswerRecent

LEMMA Windows ==
  /\ Window \in Nat /\ LargeWindow \in Nat /\ Expiration \in Nat /\ 0 < Expiration
  /\ CacheIntv \in Nat /\ 0 < CacheIntv /\ MaxTime \in Nat
BY HashrateAssumption

LEMMA SharesTyped ==
  ASSUME HashrateTypeOK, NEW x \in shares
  PROVE  x \in Shares /\ x.ts \in Nat /\ x.ts \in 0..MaxTime /\ x.login \in Logins /\ now \in Nat
BY Windows DEF HashrateTypeOK, Shares

\* Trimming at the start of a window, or at what was the start of it, takes
\* nothing from the window.
LEMMA TrimmedCovers ==
  ASSUME HashrateTypeOK, NEW x \in shares, NEW set, x \in set, NEW w \in Nat, NEW at \in 0..now,
         now - x.ts <= w
  PROVE  x \in Trimmed(set, at - w)
<1>1. x.ts \in Nat /\ now \in Nat /\ at \in Nat /\ at <= now
  BY SharesTyped
<1>2. x.ts >= at - w
  BY <1>1
<1> QED
  BY <1>2 DEF Trimmed

LEMMA TrimmedSubset == ASSUME NEW set, NEW t PROVE Trimmed(set, t) \subseteq set
BY DEF Trimmed

\* A step that adds no share and lets no time pass, and only trims.
LEMMA OnlyTrimmed ==
  ASSUME HashrateInv, UNCHANGED <<now, shares>>,
         PoolCovered' /\ hashrate' \subseteq hashrate,
         AccountsCovered', account' \in [Logins -> SUBSET shares],
         \A l \in Logins : account'[l] \subseteq account[l],
         invalid' \subseteq Shares, stats' \subseteq shares,
         flush' \in [pc : {"idle", "all", "invalid", "logins"}, todo : SUBSET Logins, at : 0..now],
         UNCHANGED <<miners, answer>>
  PROVE  HashrateInv'
<1>1. HashrateShapes'
  BY DEF HashrateInv, HashrateShapes
<1>2. HashrateTypeOK'
  BY DEF HashrateInv, HashrateTypeOK
<1>3. CacheCovers' /\ AnswerRecent'
  BY DEF HashrateInv, CacheCovers, AnswerRecent, Old
<1> QED
  BY <1>1, <1>2, <1>3 DEF HashrateInv

\* The set of an account goes with shares that are as old as the expiry only.
LEMMA ExpireStep == ASSUME HashrateInv, NEW l \in Logins, Expire(l) PROVE HashrateInv'
<1>1. /\ account' = [account EXCEPT ![l] = {}]
      /\ UNCHANGED <<now, hashrate, invalid, flush, stats, miners, answer, shares>>
      /\ \A x \in account[l] : now - x.ts >= Expiration
  BY DEF Expire, Expired
<1>2. account' \in [Logins -> SUBSET shares] /\ \A k \in Logins : account'[k] \subseteq account[k]
  BY <1>1 DEF HashrateInv, HashrateShapes
<1>3. ASSUME NEW x \in shares, now - x.ts <= LargeWindow, now - x.ts < Expiration
      PROVE  x \in account'[x.login]
  <2>1. x \in account[x.login] /\ x.login \in Logins /\ ~(now - x.ts >= Expiration)
    BY <1>3, SharesTyped, Windows DEF HashrateInv, AccountsCovered
  <2> QED
    BY <1>1, <2>1 DEF HashrateInv, HashrateShapes
<1>4. AccountsCovered'
  BY <1>1, <1>3 DEF AccountsCovered
<1> QED
  BY <1>1, <1>2, <1>4, OnlyTrimmed DEF HashrateInv, HashrateTypeOK, HashrateShapes, PoolCovered

LEMMA HashrateTickStep == ASSUME HashrateInv, Tick PROVE HashrateInv'
<1>1. /\ now \in Nat /\ now' = now + 1 /\ now' \in 0..MaxTime
      /\ UNCHANGED <<hashrate, invalid, flush, stats, miners, shares>>
      /\ account' = [l \in Logins |-> IF Expired(account[l]) THEN {} ELSE account[l]]
      /\ answer'.status = 0
  BY Windows DEF HashrateInv, HashrateTypeOK, Tick, NoAnswer
<1>2. account' \in [Logins -> SUBSET shares] /\ \A l \in Logins : account'[l] \subseteq account[l]
  BY <1>1 DEF HashrateInv, HashrateShapes
<1>3. HashrateTypeOK' /\ HashrateShapes'
  <2>1. \A n \in 0..now : n \in 0..now'
    BY <1>1
  <2>2. \A n \in -1..now : n \in -1..now'
    BY <1>1
  <2> QED
    BY <1>1, <1>2, <2>1, <2>2 DEF HashrateInv, HashrateTypeOK, HashrateShapes
<1>4. PoolCovered' /\ AccountsCovered'
  <2> SUFFICES ASSUME NEW x \in shares
               PROVE  /\ now' - x.ts <= Window => x \in hashrate
                      /\ now' - x.ts <= LargeWindow /\ now' - x.ts < Expiration =>
                           x \in account'[x.login]
    BY <1>1 DEF PoolCovered, AccountsCovered
  <2>1. x.ts \in Nat /\ x.login \in Logins
    BY SharesTyped DEF HashrateInv
  <2>2. /\ now' - x.ts <= Window => now - x.ts <= Window
        /\ now' - x.ts <= LargeWindow => now - x.ts <= LargeWindow
    BY <1>1, <2>1, Windows
  <2>3. now' - x.ts <= Window => x \in hashrate
    BY <2>2 DEF HashrateInv, PoolCovered
  <2>4. ASSUME now' - x.ts <= LargeWindow, now' - x.ts < Expiration
        PROVE  x \in account'[x.login]
    <3>1. now - x.ts < Expiration
      BY <1>1, <2>1, <2>4, Windows
    <3>2. x \in account[x.login] /\ ~(now - x.ts >= Expiration)
      BY <1>1, <2>1, <2>2, <2>4, <3>1, Windows DEF HashrateInv, AccountsCovered
    <3>3. ~Expired(account[x.login])
      BY <3>2 DEF Expired
    <3> QED
      BY <1>1, <2>1, <3>2, <3>3
  <2> QED
    BY <2>3, <2>4
<1>5. CacheCovers' /\ AnswerRecent'
  BY <1>1 DEF HashrateInv, CacheCovers, AnswerRecent, Old
<1> QED
  BY <1>3, <1>4, <1>5 DEF HashrateInv

\* A share comes at the present, so the caches and answers need not have it.
LEMMA writeShareStep == ASSUME HashrateInv, NEW x \in Shares, writeShare(x) PROVE HashrateInv'
<1>1. /\ x.ts = now /\ x.login \in Logins /\ now \in Nat
      /\ hashrate' = hashrate \cup {x} /\ shares' = shares \cup {x}
      /\ account' = [account EXCEPT ![x.login] = @ \cup {x}]
      /\ UNCHANGED <<now, invalid, flush, stats, miners, answer>>
  BY Windows DEF HashrateInv, HashrateTypeOK, writeShare, Shares
<1>2. /\ account' \in [Logins -> SUBSET shares']
      /\ \A l \in Logins : account[l] \subseteq account'[l]
      /\ x \in account'[x.login]
      /\ \A l \in Logins : account'[l] \subseteq {y \in shares' : y.login = l}
  BY <1>1 DEF HashrateInv, HashrateShapes, HashrateTypeOK
<1>3. HashrateShapes'
  <2>1. miners' \in [Logins -> [at : -1..now', seen : SUBSET shares']]
    BY <1>1 DEF HashrateInv, HashrateShapes
  <2> QED
    BY <1>1, <1>2, <2>1 DEF HashrateInv, HashrateShapes
<1>4. HashrateTypeOK'
  BY <1>1, <1>2 DEF HashrateInv, HashrateTypeOK
<1>5. PoolCovered'
  BY <1>1 DEF HashrateInv, PoolCovered
<1>6. AccountsCovered'
  <2> SUFFICES ASSUME NEW y \in shares', now - y.ts <= LargeWindow, now - y.ts < Expiration
               PROVE  y \in account'[y.login]
    BY <1>1 DEF AccountsCovered
  <2>1. CASE y = x
    BY <1>2, <2>1
  <2>2. CASE y \in shares
    <3>1. y.login \in Logins /\ y \in account[y.login]
      BY <2>2, SharesTyped DEF HashrateInv, AccountsCovered
    <3> QED
      BY <1>2, <3>1
  <2> QED
    BY <1>1, <2>1, <2>2
<1>7. CacheCovers'
  <2> SUFFICES ASSUME NEW y \in shares', y.ts < miners[y.login].at,
                      miners[y.login].at - y.ts <= LargeWindow,
                      miners[y.login].at - y.ts < Expiration
               PROVE  y \in miners[y.login].seen
    BY <1>1 DEF CacheCovers
  <2>1. y # x
    BY <1>1 DEF HashrateInv, HashrateShapes
  <2> QED
    BY <1>1, <2>1 DEF HashrateInv, CacheCovers
<1>8. AnswerRecent'
  <2>1. ~(x.ts < now - CacheIntv)
    BY <1>1, Windows
  <2> QED
    BY <1>1, <2>1 DEF HashrateInv, AnswerRecent, Old
<1> QED
  BY <1>3, <1>4, <1>5, <1>6, <1>7, <1>8 DEF HashrateInv

LEMMA WriteInvalidShareStep ==
  ASSUME HashrateInv, NEW x \in Shares, WriteInvalidShare(x)
  PROVE  HashrateInv'
BY DEF HashrateInv, WriteInvalidShare, HashrateTypeOK, HashrateShapes, PoolCovered,
       AccountsCovered, CacheCovers, AnswerRecent, Old

LEMMA purgeStaleStep == ASSUME HashrateInv, purgeStale PROVE HashrateInv'
<1>1. flush' \in [pc : {"idle", "all", "invalid", "logins"}, todo : SUBSET Logins, at : 0..now]
  <2>1. now \in 0..now /\ flush' = [flush EXCEPT !.pc = "all", !.at = now]
    BY Windows DEF HashrateInv, HashrateTypeOK, purgeStale
  <2> QED
    BY <2>1 DEF HashrateInv, HashrateShapes
<1> QED
  BY <1>1, OnlyTrimmed DEF HashrateInv, HashrateTypeOK, HashrateShapes, purgeStale, PoolCovered,
                           AccountsCovered

LEMMA FlushStaleStatsStep == ASSUME HashrateInv, FlushStaleStats PROVE HashrateInv'
<1> DEFINE Flushes == [pc : {"idle", "all", "invalid", "logins"}, todo : SUBSET Logins, at : 0..now]
<1>1. /\ flush \in Flushes /\ flush.at \in 0..now /\ now \in Nat
      /\ invalid \subseteq Shares /\ stats \subseteq shares
      /\ account \in [Logins -> SUBSET shares]
      /\ PoolCovered /\ AccountsCovered
  BY Windows DEF HashrateInv, HashrateTypeOK, HashrateShapes
<1>2. UNCHANGED <<now, stats, miners, answer, shares>>
  BY DEF FlushStaleStats
<1>3. flush' \in Flushes
  <2>1. FlushIdle \in Flushes
    BY <1>1 DEF FlushIdle
  <2> QED
    BY <1>1, <2>1 DEF FlushStaleStats, FlushStep
<1>4. hashrate' \subseteq hashrate /\ PoolCovered'
  <2>1. hashrate' = hashrate \/ hashrate' = Trimmed(hashrate, flush.at - Window)
    BY DEF FlushStaleStats, FlushStep
  <2>2. CASE hashrate' = hashrate
    BY <1>1, <1>2, <2>2 DEF PoolCovered
  <2>3. CASE hashrate' = Trimmed(hashrate, flush.at - Window)
    <3>1. \A x \in shares : now - x.ts <= Window => x \in hashrate'
      BY <1>1, <2>3, TrimmedCovers, Windows DEF HashrateInv, PoolCovered
    <3> QED
      BY <1>2, <2>3, <3>1, TrimmedSubset DEF PoolCovered
  <2> QED
    BY <2>1, <2>2, <2>3
<1>5. invalid' \subseteq Shares
  <2>1. invalid' = invalid \/ invalid' = Trimmed(invalid, flush.at - Window)
    BY DEF FlushStaleStats, FlushStep
  <2> QED
    BY <1>1, <2>1, TrimmedSubset
<1>6. /\ account' \in [Logins -> SUBSET shares] /\ AccountsCovered'
      /\ \A l \in Logins : account'[l] \subseteq account[l]
  <2>1. \/ account' = account
        \/ \E l \in Logins :
             account' = [account EXCEPT ![l] = Trimmed(@, flush.at - LargeWindow)]
    BY <1>1 DEF FlushStaleStats, FlushStep, AccountWindow
  <2>2. CASE account' = account
    BY <1>1, <1>2, <2>2 DEF AccountsCovered
  <2>3. ASSUME NEW l \in Logins,
               account' = [account EXCEPT ![l] = Trimmed(@, flush.at - LargeWindow)]
        PROVE  /\ account' \in [Logins -> SUBSET shares] /\ AccountsCovered'
               /\ \A k \in Logins : account'[k] \subseteq account[k]
    <3>1. account'[l] = Trimmed(account[l], flush.at - LargeWindow)
      BY <1>1, <2>3
    <3>2. account'[l] \subseteq account[l]
      BY <3>1, TrimmedSubset
    <3>3. \A k \in Logins : account'[k] \subseteq account[k]
      BY <1>1, <2>3, <3>2
    <3>4. account' \in [Logins -> SUBSET shares]
      BY <1>1, <2>3, <3>1, <3>2
    <3>5. ASSUME NEW x \in shares, now - x.ts <= LargeWindow, now - x.ts < Expiration
          PROVE  x \in account'[x.login]
      <4>1. x \in account[x.login] /\ x.login \in Logins
        BY <1>1, <3>5, SharesTyped DEF AccountsCovered, HashrateInv
      <4>2. CASE x.login = l
        <5>1. x \in Trimmed(account[x.login], flush.at - LargeWindow)
          BY <1>1, <3>5, <4>1, TrimmedCovers, Windows DEF HashrateInv
        <5> QED
          BY <3>1, <4>2, <5>1
      <4>3. CASE x.login # l
        BY <1>1, <2>3, <4>1, <4>3
      <4> QED
        BY <4>2, <4>3
    <3> QED
      BY <1>2, <3>3, <3>4, <3>5 DEF AccountsCovered
  <2> QED
    BY <2>1, <2>2, <2>3
<1> QED
  BY <1>1, <1>2, <1>3, <1>4, <1>5, <1>6, OnlyTrimmed

LEMMA collectStatsStep == ASSUME HashrateInv, collectStats PROVE HashrateInv'
<1>1. /\ now \in 0..now /\ hashrate \subseteq shares /\ stats \subseteq shares
      /\ invalid \subseteq Shares /\ account \in [Logins -> SUBSET shares]
      /\ flush \in [pc : {"idle", "all", "invalid", "logins"}, todo : SUBSET Logins, at : 0..now]
  BY Windows DEF HashrateInv, HashrateTypeOK, HashrateShapes
<1>2. /\ UNCHANGED <<now, account, invalid, flush, miners, answer, shares>>
      /\ hashrate' = hashrate \/ hashrate' = Trimmed(hashrate, now - Window)
      /\ stats' = stats \/ stats' = hashrate'
  BY DEF collectStats
<1>3. hashrate' \subseteq hashrate
  BY <1>2, TrimmedSubset
<1>4. PoolCovered'
  <2>1. ASSUME NEW x \in shares, now - x.ts <= Window PROVE x \in hashrate'
    <3>1. x \in hashrate
      BY <2>1 DEF HashrateInv, PoolCovered
    <3>2. x \in Trimmed(hashrate, now - Window)
      BY <1>1, <2>1, <3>1, TrimmedCovers, Windows DEF HashrateInv
    <3> QED
      BY <1>2, <3>1, <3>2
  <2> QED
    BY <1>2, <2>1 DEF PoolCovered
<1>5. AccountsCovered' /\ \A l \in Logins : account'[l] \subseteq account[l]
  BY <1>2 DEF HashrateInv, AccountsCovered
<1> QED
  BY <1>1, <1>2, <1>3, <1>4, <1>5, OnlyTrimmed

\* What the account's page trims is out of its window.
LEMMA AccountTrimmed ==
  ASSUME HashrateInv, NEW l \in Logins, UNCHANGED <<now, shares>>,
         account' = [account EXCEPT ![l] = Trimmed(@, now - LargeWindow)]
  PROVE  /\ account' \in [Logins -> SUBSET shares] /\ AccountsCovered'
         /\ \A k \in Logins : account'[k] \subseteq account[k]
<1>1. account \in [Logins -> SUBSET shares] /\ now \in 0..now
  BY Windows DEF HashrateInv, HashrateTypeOK, HashrateShapes
<1>2. account'[l] = Trimmed(account[l], now - LargeWindow)
  BY <1>1
<1>3. account'[l] \subseteq account[l]
  BY <1>2, TrimmedSubset
<1>4. account' \in [Logins -> SUBSET shares] /\ \A k \in Logins : account'[k] \subseteq account[k]
  BY <1>1, <1>2, <1>3
<1>5. ASSUME NEW x \in shares, now - x.ts <= LargeWindow, now - x.ts < Expiration
      PROVE  x \in account'[x.login]
  <2>1. x \in account[x.login] /\ x.login \in Logins
    BY <1>5, SharesTyped DEF AccountsCovered, HashrateInv
  <2>2. CASE x.login = l
    BY <1>1, <1>2, <1>5, <2>1, <2>2, TrimmedCovers, Windows DEF HashrateInv
  <2>3. CASE x.login # l
    BY <1>1, <2>1, <2>3
  <2> QED
    BY <2>2, <2>3
<1> QED
  BY <1>4, <1>5 DEF AccountsCovered

LEMMA AccountIndexStep ==
  ASSUME HashrateInv, NEW l \in Logins, AccountIndex(l)
  PROVE  HashrateInv'
<1>1. UNCHANGED <<now, hashrate, invalid, flush, stats, shares>> /\ now \in Nat
  BY Windows DEF AccountIndex, HashrateInv, HashrateTypeOK
<1>2. /\ miners \in [Logins -> [at : -1..now, seen : SUBSET shares]]
      /\ account \in [Logins -> SUBSET shares]
  BY DEF HashrateInv, HashrateShapes
<1>3. /\ account' \in [Logins -> SUBSET shares] /\ AccountsCovered'
      /\ \A k \in Logins : account'[k] \subseteq account[k]
  <2>1. \/ account' = account
        \/ account' = [account EXCEPT ![l] = Trimmed(@, now - LargeWindow)]
    BY DEF AccountIndex, FromCache, NotFound, Refresh, BackendFails
  <2>2. CASE account' = account
    BY <1>1, <1>2, <2>2 DEF HashrateInv, AccountsCovered
  <2> QED
    BY <1>1, <2>1, <2>2, AccountTrimmed
<1>4. miners' = miners \/ miners' = [miners EXCEPT ![l] = [at |-> now, seen |-> account'[l]]]
  BY DEF AccountIndex, FromCache, NotFound, Refresh, BackendFails, UpdatedAt
<1>5. HashrateShapes'
  <2>1. [at |-> now, seen |-> account'[l]] \in [at : -1..now, seen : SUBSET shares]
    BY <1>1, <1>3
  <2>2. miners' \in [Logins -> [at : -1..now, seen : SUBSET shares]]
    BY <1>2, <1>4, <2>1
  <2> QED
    BY <1>1, <1>3, <2>2 DEF HashrateInv, HashrateShapes
<1>6. HashrateTypeOK'
  <2>1. \A k \in Logins : miners'[k].at \in -1..now /\ miners'[k].seen \subseteq shares
    BY <1>1, <1>5 DEF HashrateShapes
  <2>2. answer'.status \in {0, 200, 404, 500}
    BY DEF AccountIndex, FromCache, NotFound, Refresh, BackendFails, Reply
  <2>3. \A k \in Logins : account'[k] \subseteq {x \in shares : x.login = k}
    BY <1>3 DEF HashrateInv, HashrateTypeOK
  <2> QED
    BY <1>1, <2>1, <2>2, <2>3 DEF HashrateInv, HashrateTypeOK
<1>7. CacheCovers'
  <2> SUFFICES ASSUME NEW x \in shares, x.ts < miners'[x.login].at,
                      miners'[x.login].at - x.ts <= LargeWindow,
                      miners'[x.login].at - x.ts < Expiration
               PROVE  x \in miners'[x.login].seen
    BY <1>1 DEF CacheCovers
  <2>1. x.login \in Logins
    BY SharesTyped DEF HashrateInv
  <2>2. CASE miners'[x.login] = miners[x.login]
    BY <2>2 DEF HashrateInv, CacheCovers
  <2>3. CASE miners'[x.login] = [at |-> now, seen |-> account'[x.login]]
    BY <1>1, <1>3, <2>3 DEF AccountsCovered
  <2> QED
    BY <1>2, <1>4, <2>1, <2>2, <2>3
<1>8. AnswerRecent'
  <2> SUFFICES ASSUME answer'.status = 200, NEW x \in shares, x.login = answer'.login,
                      x.ts < now - CacheIntv, x.ts >= now - LargeWindow,
                      ~(now - x.ts >= Expiration)
               PROVE  x \in answer'.seen
    BY <1>1 DEF AnswerRecent, Old
  <2>1. x.ts \in Nat
    BY SharesTyped DEF HashrateInv
  <2>2. CASE FromCache(l)
    <3>1. answer'.login = l /\ answer'.seen = miners[l].seen /\ miners[l].at >= now - CacheIntv
      BY <2>2 DEF FromCache, Reply, Fresh
    <3>2. miners[l].at \in -1..now
      BY <1>2
    <3>3. /\ x.ts < miners[l].at /\ miners[l].at - x.ts <= LargeWindow
          /\ miners[l].at - x.ts < Expiration
      BY <1>1, <2>1, <3>1, <3>2, Windows
    <3> QED
      BY <3>1, <3>3 DEF HashrateInv, CacheCovers
  <2>3. CASE Refresh(l)
    <3>1. answer'.login = l /\ answer'.seen = account'[l]
      BY <2>3 DEF Refresh, Reply
    <3>2. now - x.ts <= LargeWindow /\ now - x.ts < Expiration
      BY <1>1, <2>1, Windows
    <3> QED
      BY <1>1, <1>3, <3>1, <3>2 DEF AccountsCovered
  <2> QED
    BY <2>2, <2>3 DEF AccountIndex, NotFound, BackendFails, Reply
<1>9. PoolCovered'
  BY <1>1 DEF HashrateInv, PoolCovered
<1> QED
  BY <1>3, <1>5, <1>6, <1>7, <1>8, <1>9 DEF HashrateInv

LEMMA HashrateInvInit == HashrateInit => HashrateInv
<1> SUFFICES ASSUME HashrateInit PROVE HashrateInv
  OBVIOUS
<1>1. HashrateShapes
  BY DEF HashrateInit, HashrateShapes, FlushIdle, None
<1>2. HashrateTypeOK
  BY <1>1, Windows DEF HashrateInit, HashrateShapes, HashrateTypeOK, NoAnswer
<1>3. PoolCovered /\ AccountsCovered /\ CacheCovers /\ AnswerRecent
  BY DEF HashrateInit, PoolCovered, AccountsCovered, CacheCovers, AnswerRecent, NoAnswer
<1> QED
  BY <1>1, <1>2, <1>3 DEF HashrateInv

LEMMA HashrateInvNext == HashrateInv /\ [HashrateNext]_hashrateVars => HashrateInv'
<1> SUFFICES ASSUME HashrateInv, [HashrateNext]_hashrateVars PROVE HashrateInv'
  OBVIOUS
<1>1. CASE UNCHANGED hashrateVars
  BY <1>1 DEF hashrateVars, HashrateInv, HashrateTypeOK, HashrateShapes, PoolCovered,
              AccountsCovered, CacheCovers, AnswerRecent, Old
<1> QED
  BY <1>1, HashrateTickStep, ExpireStep, purgeStaleStep, FlushStaleStatsStep, collectStatsStep,
     writeShareStep, WriteInvalidShareStep, AccountIndexStep
  DEF HashrateNext

\* Whatever a window still covers has not been trimmed or expired, and the cache has
\* what the window covered when it was filled (collectStats).
THEOREM HashrateInvariance == HashrateSpec => []HashrateInv
BY HashrateInvInit, HashrateInvNext, PTL DEF HashrateSpec

\* What the pool's and an account's page make of the sets in Redis is what the
\* shares of the window give, however the purge, the collection, the account
\* pages and the expiry of an account's set interleave, for windows and expiries of
\* any length; an account's shares as old as the expiry may be missing
\* (FlushStaleStats, CollectStats, CollectWorkersStats).
THEOREM StatisticsAreTrue == HashrateSpec => []StatisticsTrue
<1>1. HashrateInv => StatisticsTrue
  <2> SUFFICES ASSUME HashrateInv PROVE StatisticsTrue
    OBVIOUS
  <2>1. Covered(hashrate, Window) = Covered(shares, Window)
    BY DEF HashrateInv, HashrateTypeOK, PoolCovered, Covered
  <2>2. PoolStatsTrue
    BY <2>1 DEF PoolStatsTrue
  <2>3. ASSUME NEW l \in Logins
        PROVE  LET own == {x \in Covered(shares, LargeWindow) : x.login = l}
               IN \E gone \in SUBSET Old(own) : Covered(account[l], LargeWindow) = own \ gone
    <3> DEFINE own == {x \in Covered(shares, LargeWindow) : x.login = l}
               gone == own \ account[l]
    <3>1. gone \subseteq Old(own)
      <4> SUFFICES ASSUME NEW x \in own, x \notin account[l] PROVE now - x.ts >= Expiration
        BY DEF Old
      <4>1. x \in shares /\ x.login = l /\ now - x.ts <= LargeWindow
        BY DEF Covered
      <4>2. ~(now - x.ts < Expiration)
        BY <4>1 DEF HashrateInv, AccountsCovered
      <4> QED
        BY <4>1, <4>2, SharesTyped, Windows DEF HashrateInv
    <3>2. Covered(account[l], LargeWindow) = own \ gone
      BY DEF HashrateInv, HashrateTypeOK, Covered
    <3> QED
      BY <3>1, <3>2
  <2>4. AccountStatsTrue
    BY <2>3 DEF AccountStatsTrue
  <2> QED
    BY <2>2, <2>4 DEF HashrateInv, StatisticsTrue
<1> QED
  BY <1>1, HashrateInvariance, PTL

\* The page of an account, from the cache or not, has all its window's shares that
\* are older than the cache may be and younger than the expiry (ApiServer.AccountIndex).
THEOREM AnswersAreRecent == HashrateSpec => []AnswerRecent
<1>1. HashrateInv => AnswerRecent
  BY DEF HashrateInv
<1> QED
  BY <1>1, HashrateInvariance, PTL

=============================================================================
