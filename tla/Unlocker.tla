------------------------------ MODULE Unlocker ------------------------------
(***************************************************************************)
(* The block unlocker (payouts/unlocker.go) with the part of Redis it reads *)
(* and writes (storage/redis.go) and the bitcoin node it asks.              *)
(*                                                                          *)
(* The proxy records each block it found as a candidate.  The unlocker, one *)
(* loop on a timer, runs two passes in turn: unlockPendingBlocks turns      *)
(* candidates buried at ImmatureDepth into immature rows with provisional   *)
(* credits, unlockAndCreditMiners settles immature rows buried at Depth.    *)
(* Each call to the node or to Redis is a step of its own, so the chain may *)
(* grow or reorganise, the proxy may record a block and the process may be  *)
(* restarted between any two of them.  Any error halts the unlocker until   *)
(* it is restarted; a write whose reply is lost was applied all the same.   *)
(***************************************************************************)
EXTENDS Rewards, Functions, FiniteSets

CONSTANTS
  Blocks,         \* the blocks the pool may find
  Foreign,        \* any block of somebody else
  NoBlock,        \* no block at this height yet
  Logins,         \* miners and the pool's own account
  RoundShares,    \* RoundShares[b]: login -> shares of the round b closed
  CoinBaseValue,  \* CoinBaseValue[b]: subsidy (and fees) of b's template
  BlkTotalFee,    \* BlkTotalFee[b]: transaction fees of b's template
  Configs,        \* the configurations a (re)start may load
  ImmatureDepth,  \* config.ImmatureDepth
  Depth,          \* config.Depth
  MaxReorg,       \* how many blocks a reorganisation replaces at most
  MaxHeight,      \* bound on the height of the chain
  MaxRestarts,    \* bound on the restarts of the unlocker
  ReadErrors      \* may the unchecked read of the credit log fail?

ASSUME BlockAssumption ==
  /\ Foreign \notin Blocks /\ NoBlock \notin Blocks
  /\ \A b \in Blocks : /\ DOMAIN RoundShares[b] \subseteq Logins
                      /\ RoundShares[b] \in [DOMAIN RoundShares[b] -> Nat \ {0}]

\* A login has shares of a round when it was credited one, of a positive difficulty.
ASSUME MoneyAssumption ==
  /\ IsFiniteSet(Blocks) /\ IsFiniteSet(Logins)
  /\ CoinBaseValue \in [Blocks -> Nat] /\ BlkTotalFee \in [Blocks -> Nat]

ASSUME DepthAssumption ==
  /\ ImmatureDepth \in Nat /\ Depth \in Nat /\ MaxReorg \in Nat
  /\ MaxHeight \in Nat /\ MaxRestarts \in Nat /\ ReadErrors \in BOOLEAN

\* The operator's choice of Depth: no settled block is ever reorganised away.
ASSUME ReorgAssumption == MaxReorg <= Depth

ASSUME ConfigAssumption ==
  /\ Configs # {} /\ \A c \in Configs : IsConfig(c, Logins)
  /\ Lower \in [Logins -> Logins]

VARIABLES
  chain,    \* chain[h]: the block at height h of the node's best chain
  tip,      \* its height
  height,   \* height[b]: where the pool found b, 0 when it has not
  parent    \* parent[b]: the block below b

VARIABLES
  candidates,       \* blocks:candidates
  immature,         \* blocks:immature, rows [block, orphan]
  matured,          \* blocks:matured, rows [block, orphan]
  rounds,           \* the blocks whose shares:round<h>:<nonce> key exists
  creditsImmature,  \* credits:immature:<h>:<hash> of each block
  credits,          \* credits:<h>:<hash> of each block
  minerImmature,    \* miners:<login> immature
  minerBalance,     \* miners:<login> balance
  finances          \* finances: immature, balance, totalMined

VARIABLES
  config,          \* the loaded configuration
  phase,           \* which pass runs (or comes next)
  pc,              \* where in the pass
  maxHeight,       \* highest block this pass looks at
  todo,            \* rows read and not yet looked up on the chain
  orphanedBlocks,  \* UnlockResult.orphanedBlocks not yet written
  maturedBlocks,   \* UnlockResult.maturedBlocks not yet written
  halt,            \* u.halt
  restarts

chainVars == <<chain, tip, height, parent>>
ledgerVars == <<rounds, creditsImmature, credits, minerImmature, minerBalance, finances>>
redisVars == <<candidates, immature, matured, ledgerVars>>
passVars == <<phase, pc, maxHeight, todo, orphanedBlocks, maturedBlocks, halt>>
vars == <<chainVars, redisVars, config, passVars, restarts>>

Heights == 0..MaxHeight
Row(b, orphan) == [block |-> b, orphan |-> orphan]
Rows == [block : Blocks, orphan : BOOLEAN]
BlocksOf(rows) == {r.block : r \in rows}
NoCredits == [l \in {} |-> 0]

TypeOK ==
  /\ chain \in [Heights -> Blocks \cup {Foreign, NoBlock}]
  /\ tip \in Heights
  /\ height \in [Blocks -> Heights]
  /\ parent \in [Blocks -> Blocks \cup {Foreign, NoBlock}]
  /\ candidates \subseteq Blocks
  /\ immature \subseteq Rows /\ matured \subseteq Rows
  /\ rounds \subseteq Blocks
  /\ DOMAIN creditsImmature = Blocks /\ DOMAIN credits = Blocks
  /\ DOMAIN minerImmature = Logins /\ DOMAIN minerBalance = Logins
  /\ DOMAIN finances = {"immature", "balance", "totalMined"}
  /\ config \in Configs
  /\ phase \in {"pending", "mature"}
  /\ pc \in {"tip", "list", "scan", "write"}
  /\ maxHeight \in Int
  /\ todo \subseteq Blocks /\ orphanedBlocks \subseteq Blocks /\ maturedBlocks \subseteq Blocks
  /\ halt \in BOOLEAN
  /\ restarts \in 0..MaxRestarts

Init ==
  /\ chain = [h \in Heights |-> IF h = 0 THEN Foreign ELSE NoBlock]
  /\ tip = 0
  /\ height = [b \in Blocks |-> 0]
  /\ parent = [b \in Blocks |-> NoBlock]
  /\ candidates = {} /\ immature = {} /\ matured = {} /\ rounds = {}
  /\ creditsImmature = [b \in Blocks |-> NoCredits]
  /\ credits = [b \in Blocks |-> NoCredits]
  /\ minerImmature = [l \in Logins |-> 0]
  /\ minerBalance = [l \in Logins |-> 0]
  /\ finances = [immature |-> 0, balance |-> 0, totalMined |-> 0]
  /\ config \in Configs
  /\ phase = "pending" /\ pc = "tip" /\ maxHeight = 0
  /\ todo = {} /\ orphanedBlocks = {} /\ maturedBlocks = {}
  /\ halt = FALSE /\ restarts = 0

-----------------------------------------------------------------------------
(* The bitcoin network and the proxy.                                       *)

\* The node accepts the pool's block b as its new tip.
FindBlock(b) ==
  /\ height[b] = 0 /\ tip < MaxHeight
  /\ tip' = tip + 1
  /\ chain' = [chain EXCEPT ![tip + 1] = b]
  /\ height' = [height EXCEPT ![b] = tip + 1]
  /\ parent' = [parent EXCEPT ![b] = chain[tip]]
  /\ UNCHANGED <<redisVars, config, passVars, restarts>>

\* Another node of the pool accepts b at the height of our tip: a branch.
FindCompetingBlock(b) ==
  /\ height[b] = 0 /\ tip > 0
  /\ height' = [height EXCEPT ![b] = tip]
  /\ parent' = [parent EXCEPT ![b] = chain[tip - 1]]
  /\ UNCHANGED <<chain, tip, redisVars, config, passVars, restarts>>

\* Blocks that follow the top of the chain: a pool's block only above its parent.
Extends(new, first) ==
  \A h \in Heights :
    (h >= first /\ new[h] \in Blocks) =>
      height[new[h]] = h /\ parent[new[h]] = new[h - 1]

\* The best chain becomes one block longer, k of its blocks are replaced.
Reorganise(k, new) ==
  /\ tip < MaxHeight /\ k <= tip
  /\ chain' = [h \in Heights |-> IF h \in DOMAIN new THEN new[h] ELSE chain[h]]
  /\ Extends(chain', tip + 1 - k)
  /\ tip' = tip + 1
  /\ UNCHANGED <<height, parent, redisVars, config, passVars, restarts>>

\* The proxy's WriteBlock: the round is closed and the candidate row added.
WriteBlockNoRename(b) ==
  /\ height[b] > 0
  /\ b \notin candidates \cup BlocksOf(immature) \cup BlocksOf(matured)
  /\ candidates' = candidates \cup {b}
  /\ UNCHANGED <<chainVars, immature, matured, ledgerVars, config, passVars, restarts>>

WriteBlock(b) ==
  /\ height[b] > 0
  /\ b \notin candidates \cup BlocksOf(immature) \cup BlocksOf(matured)
  /\ candidates' = candidates \cup {b}
  /\ rounds' = rounds \cup {b}
  /\ UNCHANGED <<chainVars, immature, matured, creditsImmature, credits,
                 minerImmature, minerBalance, finances, config, passVars, restarts>>

-----------------------------------------------------------------------------
(* The passes of the unlocker.                                              *)

\* GetPendingBlock returns a block template, one above the best block.
TemplateHeight(templateHeight) == templateHeight
CurrentHeight(templateHeight) == templateHeight - 1

PassDepth == IF phase = "pending" THEN ImmatureDepth ELSE Depth

\* The rows of the sorted set the pass reads.
Waiting == IF phase = "pending" THEN candidates ELSE BlocksOf(immature)

\* The locals of a pass end with it.
EndPass(next, halted) ==
  /\ phase' = next /\ pc' = "tip" /\ maxHeight' = 0
  /\ todo' = {} /\ orphanedBlocks' = {} /\ maturedBlocks' = {}
  /\ halt' = halted

NextPass == IF phase = "pending" THEN "mature" ELSE "pending"

Halt == EndPass("pending", TRUE)

GetPendingBlock ==
  /\ pc = "tip" /\ ~halt
  /\ maxHeight' = CurrentHeight(tip + 1) - PassDepth
  /\ pc' = "list"
  /\ UNCHANGED <<chainVars, redisVars, config, phase, todo, orphanedBlocks, maturedBlocks, halt, restarts>>

\* GetCandidates, GetImmatureBlocks: ZRANGEBYSCORE 0 maxHeight.
BelowMaxHeight(b) == height[b] < maxHeight
UpToMaxHeight(b) == height[b] <= maxHeight

GetRows ==
  /\ pc = "list"
  /\ LET rows == {b \in Waiting : UpToMaxHeight(b)}
     IN IF rows = {} THEN EndPass(NextPass, FALSE)
        ELSE /\ todo' = rows /\ pc' = "scan"
             /\ UNCHANGED <<phase, maxHeight, orphanedBlocks, maturedBlocks, halt>>
  /\ UNCHANGED <<chainVars, redisVars, config, restarts>>

\* The sorted set is read in the order of heights.
Lowest(b, S) == b \in S /\ \A c \in S : height[b] <= height[c]

\* The block the node has at b's height carries b's nonce.
OnChain(b) == chain[height[b]] = b

\* unlockCandidates: one row is looked up (GetBlockHashByHeight fixes the
\* answer, GetBlockByHash of a given hash cannot change).
ScanBlock(b) ==
  /\ pc = "scan" /\ Lowest(b, todo)
  /\ todo' = todo \ {b}
  /\ IF OnChain(b)
     THEN maturedBlocks' = maturedBlocks \cup {b} /\ UNCHANGED orphanedBlocks
     ELSE orphanedBlocks' = orphanedBlocks \cup {b} /\ UNCHANGED maturedBlocks
  /\ pc' = IF todo = {b} THEN "write" ELSE "scan"
  /\ UNCHANGED <<chainVars, redisVars, config, phase, maxHeight, halt, restarts>>

\* After a write: the rest of the pass, or the halt when the reply was lost.
AfterWrite(orphansLeft, maturedLeft, replied) ==
  /\ IF ~replied THEN Halt
     ELSE IF orphansLeft \cup maturedLeft = {} THEN EndPass(NextPass, FALSE)
     ELSE /\ orphanedBlocks' = orphansLeft /\ maturedBlocks' = maturedLeft
          /\ UNCHANGED <<phase, pc, maxHeight, todo, halt>>
  /\ UNCHANGED <<chainVars, config, restarts>>

-----------------------------------------------------------------------------
(* What the writes do to Redis, each one transaction.                       *)

GetRoundShares(b) == IF b \in rounds THEN RoundShares[b] ELSE NoCredits
TotalShares(b) == SumFunction(RoundShares[b])

RoundRewards(b) ==
  CalculateRewards(GetRoundShares(b), TotalShares(b),
                   Reward(CoinBaseValue[b], BlkTotalFee[b], config),
                   ExtraReward(BlkTotalFee[b], config), config)

\* HSETNX of every entry: what the log already says stays.
LogOnce(log, rewards) ==
  [l \in DOMAIN log \cup DOMAIN rewards |->
     IF l \in DOMAIN log THEN log[l] ELSE rewards[l]]

\* DEL of a log of credits.
DelLog(logs, b) == [logs EXCEPT ![b] = NoCredits]

\* HINCRBY of every miner's field.
IncreaseBy(balances, map) == [l \in Logins |-> balances[l] + Amount(map, l)]
DecreaseBy(balances, map) == [l \in Logins |-> balances[l] - Amount(map, l)]

\* HINCRBY of the fields of finances.
FinancesPlus(immatureSum, balanceSum, mined) ==
  [immature   |-> finances.immature + immatureSum,
   balance    |-> finances.balance + balanceSum,
   totalMined |-> finances.totalMined + mined]

\* writeImmatureBlock, writeMaturedBlock: the row moves to the next sorted set.
CopyToImmature(B, orphan) ==
  /\ immature' = immature \cup {Row(b, orphan) : b \in B}
  /\ UNCHANGED <<candidates, matured>>

MoveToImmature(B, orphan) ==
  /\ candidates' = candidates \ B
  /\ immature' = immature \cup {Row(b, orphan) : b \in B}
  /\ UNCHANGED matured

CopyToMatured(b, orphan) ==
  /\ rounds' = rounds \ {b}
  /\ matured' = matured \cup {Row(b, orphan)}
  /\ UNCHANGED <<candidates, immature>>

MoveToMatured(b, orphan) ==
  /\ rounds' = rounds \ {b}
  /\ immature' = {r \in immature : r.block # b}
  /\ matured' = matured \cup {Row(b, orphan)}
  /\ UNCHANGED candidates

WritePendingOrphans ==
  /\ pc = "write" /\ phase = "pending" /\ orphanedBlocks # {}
  /\ MoveToImmature(orphanedBlocks, TRUE)
  /\ \E replied \in BOOLEAN : AfterWrite({}, maturedBlocks, replied)
  /\ UNCHANGED ledgerVars

WriteImmatureBlock(b) ==
  /\ pc = "write" /\ phase = "pending" /\ orphanedBlocks = {}
  /\ Lowest(b, maturedBlocks)
  /\ MoveToImmature({b}, FALSE)
  /\ LET rewards == RoundRewards(b)
     IN /\ minerImmature' = IncreaseBy(minerImmature, rewards)
        /\ creditsImmature' = [creditsImmature EXCEPT ![b] = LogOnce(creditsImmature[b], rewards)]
        /\ finances' = FinancesPlus(SumFunction(rewards), 0, 0)
  /\ \E replied \in BOOLEAN : AfterWrite({}, maturedBlocks \ {b}, replied)
  /\ UNCHANGED <<rounds, credits, minerBalance>>

\* tx.HGetAllMap(creditKey).Val(): its error is never looked at.
ReadCreditLog(log) == {log} \cup (IF ReadErrors THEN {NoCredits} ELSE {})

WriteMaturedBlock(b) ==
  /\ pc = "write" /\ phase = "mature" /\ orphanedBlocks = {}
  /\ Lowest(b, maturedBlocks)
  /\ MoveToMatured(b, FALSE)
  /\ \E log \in ReadCreditLog(creditsImmature[b]) :
       LET rewards == RoundRewards(b)
       IN /\ minerImmature' = DecreaseBy(minerImmature, log)
          /\ minerBalance' = IncreaseBy(minerBalance, rewards)
          /\ credits' = [credits EXCEPT ![b] = LogOnce(credits[b], rewards)]
          /\ creditsImmature' = DelLog(creditsImmature, b)
          /\ finances' = FinancesPlus(-SumFunction(log), SumFunction(rewards),
                                      Reward(CoinBaseValue[b], BlkTotalFee[b], config))
  /\ \E replied \in BOOLEAN : AfterWrite({}, maturedBlocks \ {b}, replied)

\* A row that is an orphan already has the hash 0x0: it has no credit log.
OrphanLog(b) == IF Row(b, TRUE) \in immature THEN NoCredits ELSE creditsImmature[b]

WriteOrphan(b) ==
  /\ pc = "write" /\ phase = "mature" /\ Lowest(b, orphanedBlocks)
  /\ MoveToMatured(b, TRUE)
  /\ \E log \in ReadCreditLog(OrphanLog(b)) :
       /\ minerImmature' = DecreaseBy(minerImmature, log)
       /\ finances' = FinancesPlus(-SumFunction(log), 0, 0)
  /\ creditsImmature' = IF Row(b, TRUE) \in immature THEN creditsImmature
                        ELSE DelLog(creditsImmature, b)
  /\ \E replied \in BOOLEAN : AfterWrite(orphanedBlocks \ {b}, maturedBlocks, replied)
  /\ UNCHANGED <<credits, minerBalance>>

\* Any call of a pass returns an error, without effect.
CallFails ==
  /\ ~halt
  /\ Halt
  /\ UNCHANGED <<chainVars, redisVars, config, restarts>>

\* The process dies and is started again, perhaps with another configuration.
Restart(c) ==
  /\ restarts < MaxRestarts
  /\ restarts' = restarts + 1
  /\ config' = c
  /\ EndPass("pending", FALSE)
  /\ UNCHANGED <<chainVars, redisVars>>

-----------------------------------------------------------------------------

UnlockerStep ==
  \/ GetPendingBlock \/ GetRows \/ WritePendingOrphans \/ CallFails
  \/ \E b \in Blocks : ScanBlock(b) \/ WriteImmatureBlock(b)
                         \/ WriteMaturedBlock(b) \/ WriteOrphan(b)

Next ==
  \/ \E b \in Blocks : FindBlock(b) \/ FindCompetingBlock(b) \/ WriteBlock(b)
  \/ \E k \in 0..MaxReorg :
       \E new \in [tip + 1 - k .. tip + 1 -> Blocks \cup {Foreign}] : Reorganise(k, new)
  \/ UnlockerStep
  \/ \E c \in Configs : Restart(c)

Spec == Init /\ [][Next]_vars

\* The timer of Start fires for ever: a pass always takes its next step.
FairSpec == Spec /\ WF_vars(UnlockerStep)

-----------------------------------------------------------------------------
(* Properties.                                                              *)

\* A settled block was judged by the chain that stays: a matured row is paid
\* exactly when its block is on the best chain, although the chain was read
\* some steps before the row was written (unlockAndCreditMiners).
SettledMatchesChain ==
  \A r \in matured : r.orphan <=> chain[height[r.block]] # r.block

\* The immature balances and their total are the sum of the credit logs that
\* still await settlement, whatever configuration wrote them and whichever
\* of the writes lost its reply (WriteImmatureBlock, WriteMaturedBlock,
\* WriteOrphan: "Must decrement immatures using existing log entry").
ImmatureLedger ==
  /\ \A l \in Logins :
       minerImmature[l] = SumFunction([b \in Blocks |-> Amount(creditsImmature[b], l)])
  /\ finances.immature = SumFunction(minerImmature)

\* Balances are the sum of the final credits, each block counted once.
BalanceLedger ==
  /\ \A l \in Logins : minerBalance[l] = SumFunction([b \in Blocks |-> Amount(credits[b], l)])
  /\ finances.balance = SumFunction(minerBalance)

\* All the books balance: no satoshi of a round is dropped or counted twice on its
\* way from the immature to the final balances.
LedgersBalance == ImmatureLedger /\ BalanceLedger

\* What b's round earns under configuration c when no share of it is missing.
FullRewards(b, c) ==
  CalculateRewards(RoundShares[b], TotalShares(b),
                   Reward(CoinBaseValue[b], BlkTotalFee[b], c),
                   ExtraReward(BlkTotalFee[b], c), c)

\* Every contributor of a matured round is credited, for the whole round and
\* under one configuration; a block that is not matured credits nobody. The
\* round must survive a first verdict "orphan" that a reorganisation revokes.
CreditsMatchOutcome ==
  \A b \in Blocks :
    IF Row(b, FALSE) \in matured THEN \E c \in Configs : credits[b] = FullRewards(b, c)
    ELSE credits[b] = NoCredits

\* No immature credit outlives its immature row: an orphan or a matured block
\* has no log left to be decremented again.
ImmatureCreditsNeedRow ==
  \A b \in Blocks : creditsImmature[b] # NoCredits => Row(b, FALSE) \in immature

\* Settling is final: later passes, restarts and lost replies change neither
\* the row nor what was credited for the block.
SettledIsFinal ==
  [][\A r \in matured : r \in matured' /\ credits'[r.block] = credits[r.block]]_vars

\* The places that hold a row for each block.
Stage ==
  [b \in Blocks |->
     {s \in {"candidate", "immature", "pendingOrphan", "matured", "orphan"} :
        \/ s = "candidate"     /\ b \in candidates
        \/ s = "immature"      /\ Row(b, FALSE) \in immature
        \/ s = "pendingOrphan" /\ Row(b, TRUE) \in immature
        \/ s = "matured"       /\ Row(b, FALSE) \in matured
        \/ s = "orphan"        /\ Row(b, TRUE) \in matured}]

Lifecycle == INSTANCE BlockLifecycle WITH stage <- Stage

\* The unlocker implements the life cycle: a block has one row at a time and
\* passes through the stages in order.
ImplementsLifecycle == Lifecycle!Spec

\* A recorded block that is buried deep enough is settled, or the unlocker
\* has halted: nothing is forgotten between the passes of the timer loop.
Buried(b) ==
  /\ b \in candidates \cup BlocksOf(immature)
  /\ height[b] + Depth <= tip /\ height[b] + ImmatureDepth <= tip

BuriedIsSettled ==
  \A b \in Blocks : Buried(b) ~> (b \in BlocksOf(matured) \/ halt)
=============================================================================
