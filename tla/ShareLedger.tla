---------------------------- MODULE ShareLedger ----------------------------
(***************************************************************************)
(* How a submitted share becomes money owed: processShare                   *)
(* (proxy/miner.go) with checkPoWExist, WriteShare and WriteBlock           *)
(* (storage/redis.go).  Each session handles one submission at a time, many *)
(* sessions at once; each call to Redis or to the node is a step.           *)
(*                                                                          *)
(* A work is a proof of work for one job.  Redis knows it by a key, made of *)
(* nonce, extranonce1 and extranonce2 only, so two works may share a key.   *)
(* The target checks of DoubleSha256HashVerify are given by Solves; shares  *)
(* under their own difficulty change no state modelled here.                *)
(***************************************************************************)
EXTENDS Integers, Functions, FiniteSets

CONSTANTS
  Sessions,     \* miners' connections to the proxy
  LoginOf,      \* LoginOf[s]: who is paid for session s
  Works,        \* proofs of work that may be submitted
  Keys,
  KeyOf,        \* KeyOf[w]: the member of the pow set that stands for w
  HeightOf,     \* HeightOf[w]: the height of the job w was mined for
  Solves,       \* the works that solve a block
  Diff,         \* the difficulty a share is credited with
  FirstHeight,
  MaxHeight,    \* bound on the height of the chain
  MaxLag,       \* by how many blocks a template or a submission may be late
  MaxFailures   \* bound on failed calls and crashes

\* checkPoWExist computes height - 3 in uint64.
Window == 3

ASSUME HeightAssumption ==
  /\ FirstHeight \in Nat /\ FirstHeight >= Window
  /\ MaxHeight \in Nat /\ MaxLag \in Nat /\ MaxFailures \in Nat
  /\ HeightOf \in [Works -> FirstHeight..MaxHeight]

ASSUME WorkAssumption ==
  /\ Solves \subseteq Works /\ KeyOf \in [Works -> Keys] /\ Diff \in Nat \ {0}

ASSUME FiniteAssumption == IsFiniteSet(Sessions) /\ IsFiniteSet(Works)

VARIABLES
  nodeHeight,  \* height of the block the node wants next
  accepted,    \* blocks the node took
  template,    \* height of s.blockTemplate
  newest,      \* history: the highest template so far
  pc,          \* where each session is in processShare
  work,        \* the submission it handles
  total        \* WriteBlock's totalShares of each session

VARIABLES
  pow,           \* the sorted set pow: key -> height, 0 when absent
  roundCurrent,  \* shares:roundCurrent
  rounds,        \* shares:round<h>:<nonce> of each solved block
  roundShares,   \* stats roundShares
  candidates     \* blocks:candidates, rows [work, total]

VARIABLES
  credited,  \* history: how often each work was credited
  lost,      \* history: works during which a call failed or the proxy died
  failures

nodeVars == <<nodeHeight, accepted>>
templateVars == <<template, newest>>
roundVars == <<roundCurrent, rounds, roundShares, credited>>
redisVars == <<pow, roundVars, candidates>>
faultVars == <<lost, failures>>
vars == <<nodeVars, templateVars, pc, work, total, redisVars, faultVars>>

Logins == {LoginOf[s] : s \in Sessions}
NoShares == [l \in Logins |-> 0]
BusyPcs == {"submit", "refresh", "expire", "check", "share", "block", "candidate"}
Busy == {s \in Sessions : pc[s] # "idle"}

TypeOK ==
  /\ {nodeHeight, template, newest} \subseteq FirstHeight..MaxHeight
  /\ accepted \subseteq Solves
  /\ pc \in [Sessions -> BusyPcs \cup {"idle"}]
  /\ work \in [Sessions -> Works]
  /\ total \in [Sessions -> Nat]
  /\ pow \in [Keys -> {0} \cup FirstHeight..MaxHeight]
  /\ roundCurrent \in [Logins -> Nat]
  /\ rounds \in [Works -> [Logins -> Nat]]
  /\ roundShares \in Nat
  /\ candidates \subseteq [work : Solves, total : Nat]
  /\ credited \in [Works -> Nat]
  /\ lost \subseteq Works
  /\ failures \in 0..MaxFailures

Init ==
  /\ nodeHeight = FirstHeight /\ accepted = {}
  /\ template = FirstHeight /\ newest = FirstHeight
  /\ pc = [s \in Sessions |-> "idle"]
  /\ work = [s \in Sessions |-> CHOOSE w \in Works : TRUE]
  /\ total = [s \in Sessions |-> 0]
  /\ pow = [k \in Keys |-> 0]
  /\ roundCurrent = NoShares
  /\ rounds = [w \in Works |-> NoShares]
  /\ roundShares = 0
  /\ candidates = {}
  /\ credited = [w \in Works |-> 0]
  /\ lost = {} /\ failures = 0

-----------------------------------------------------------------------------
(* The node and the template.                                               *)

\* Somebody else finds a block.
NewBlock ==
  /\ nodeHeight < MaxHeight
  /\ nodeHeight' = nodeHeight + 1
  /\ UNCHANGED <<accepted, templateVars, pc, work, total, redisVars, faultVars>>

\* fetchBlockTemplate stores what the node answered some time ago: several
\* fetchers run at once, so the template may go back to an older height. Neither
\* it nor a submission in progress is more than MaxLag blocks behind the newest.
StoreTemplate(h) ==
  /\ h <= nodeHeight /\ newest <= h + MaxLag
  /\ template' = h
  /\ newest' = IF h > newest THEN h ELSE newest
  /\ \A s \in Busy : newest' <= HeightOf[work[s]] + MaxLag

\* fetchBlockTemplate on the refresh timer.
RefreshTemplate ==
  /\ \E h \in (FirstHeight..MaxHeight) \ {template} : StoreTemplate(h)
  /\ UNCHANGED <<nodeVars, pc, work, total, redisVars, faultVars>>

-----------------------------------------------------------------------------
(* processShare.                                                            *)

Goto(s, label) == pc' = [pc EXCEPT ![s] = label]

\* A session's locals die when the submission is answered.
Finish(s) ==
  /\ Goto(s, "idle")
  /\ total' = [total EXCEPT ![s] = 0]

\* The template is read once; the job must be one of it. A submission for
\* another job is stale, is answered at once and leaves the rounds alone.
Submit(s, w) ==
  /\ pc[s] = "idle" /\ HeightOf[w] = template
  /\ work' = [work EXCEPT ![s] = w]
  /\ Goto(s, IF w \in Solves THEN "submit" ELSE "expire")
  /\ UNCHANGED <<nodeVars, templateVars, total, redisVars, faultVars>>

NodeTakes(w) ==
  /\ HeightOf[w] = nodeHeight /\ nodeHeight < MaxHeight
  /\ accepted' = accepted \cup {w}
  /\ nodeHeight' = nodeHeight + 1

\* SubmitBlock: the node takes a block once and only on top of its chain. A
\* refused block is not credited, yet the miner is told that all is well.
SubmitBlock(s) ==
  LET w == work[s]
  IN /\ pc[s] = "submit"
     /\ IF HeightOf[w] = nodeHeight
        THEN /\ NodeTakes(w)
             /\ Goto(s, "refresh")
             /\ UNCHANGED total
        ELSE Finish(s) /\ UNCHANGED nodeVars
     /\ UNCHANGED <<templateVars, work, redisVars, faultVars>>

\* fetchBlockTemplate inside processShare; it may fail, which is only logged.
Fetch == \E h \in FirstHeight..MaxHeight : StoreTemplate(h)

RefreshOrReturn(s) ==
  /\ pc[s] = "refresh"
  /\ \/ Fetch /\ Goto(s, "expire") /\ UNCHANGED total
     \/ UNCHANGED templateVars /\ Finish(s)
  /\ UNCHANGED <<nodeVars, work, redisVars, faultVars>>

RefreshUntilDone(s) ==
  /\ pc[s] = "refresh"
  /\ StoreTemplate(nodeHeight)
  /\ Goto(s, "expire")
  /\ UNCHANGED <<nodeVars, work, total, redisVars, faultVars>>

RefreshAfterBlock(s) ==
  /\ pc[s] = "refresh"
  /\ Fetch \/ UNCHANGED templateVars
  /\ Goto(s, "expire")
  /\ UNCHANGED <<nodeVars, work, total, redisVars, faultVars>>

\* The members ZREMRANGEBYSCORE -inf (height-3 removes.
ForgottenBelow(score, height) == score < height
Forgotten(score, height) == score < height - Window

ExpirePow(s) ==
  /\ pc[s] = "expire"
  /\ pow' = [k \in Keys |-> IF Forgotten(pow[k], HeightOf[work[s]]) THEN 0 ELSE pow[k]]
  /\ Goto(s, "check")
  /\ UNCHANGED <<nodeVars, templateVars, work, total, roundVars, candidates, faultVars>>

\* ZADD tells whether the member is new, and gives an old one the new score.
NotChecked(k) == FALSE
PowExists(k) == pow[k] # 0

AddPow(w) == pow' = [pow EXCEPT ![KeyOf[w]] = HeightOf[w]]

\* processShare calls WriteBlock for a block and WriteShare for a share.
NextWrite(w) == IF w \in Solves THEN "block" ELSE "share"

CheckPow(s) ==
  LET w == work[s]
  IN /\ pc[s] = "check"
     /\ AddPow(w)
     /\ IF PowExists(KeyOf[w]) THEN Finish(s)
        ELSE /\ Goto(s, NextWrite(w))
             /\ UNCHANGED total
     /\ UNCHANGED <<nodeVars, templateVars, work, roundVars, candidates, faultVars>>

\* writeShare: HINCRBY shares:roundCurrent.
CreditShare(round, s) == [round EXCEPT ![LoginOf[s]] = round[LoginOf[s]] + Diff]

WriteShare(s) ==
  LET w == work[s]
  IN /\ pc[s] = "share"
     /\ roundCurrent' = CreditShare(roundCurrent, s)
     /\ roundShares' = roundShares + Diff
     /\ credited' = [credited EXCEPT ![w] = credited[w] + 1]
     /\ Finish(s)
     /\ UNCHANGED <<nodeVars, templateVars, work, pow, rounds, candidates, faultVars>>

\* WriteBlock's transaction: the share is credited, the round is renamed to
\* that of the block and read back.
ClosedRound(s) == CreditShare(roundCurrent, s)

CopyRound(s) ==
  /\ rounds' = [rounds EXCEPT ![work[s]] = ClosedRound(s)]
  /\ roundCurrent' = ClosedRound(s)
  /\ roundShares' = SumFunction(ClosedRound(s))
  /\ credited' = [credited EXCEPT ![work[s]] = credited[work[s]] + 1]

RenameRound(s) ==
  /\ rounds' = [rounds EXCEPT ![work[s]] = ClosedRound(s)]
  /\ roundCurrent' = NoShares
  /\ roundShares' = 0
  /\ credited' = [credited EXCEPT ![work[s]] = credited[work[s]] + 1]

TotalOf(round) == SumFunction(round)

CloseRound(s) ==
  /\ pc[s] = "block"
  /\ RenameRound(s)
  /\ total' = [total EXCEPT ![s] = TotalOf(ClosedRound(s))]
  /\ Goto(s, "candidate")
  /\ UNCHANGED <<nodeVars, templateVars, work, pow, candidates, faultVars>>

\* Only then, and apart from the transaction, the candidate is added.
AddCandidate(s) ==
  /\ pc[s] = "candidate"
  /\ candidates' = candidates \cup {[work |-> work[s], total |-> total[s]]}
  /\ Finish(s)
  /\ UNCHANGED <<nodeVars, templateVars, work, pow, roundVars, faultVars>>

-----------------------------------------------------------------------------
(* Failures.                                                                *)

Failed(works) ==
  /\ failures < MaxFailures
  /\ failures' = failures + 1
  /\ lost' = lost \cup works

\* The call a session is at fails, without effect or (ZADD) after it; the
\* error is only logged.
CallFails(s) ==
  /\ s \in Busy /\ pc[s] \notin {"refresh", "expire"}
  /\ \/ UNCHANGED pow
     \/ pc[s] = "check" /\ AddPow(work[s])
  /\ Failed({work[s]})
  /\ Finish(s)
  /\ UNCHANGED <<nodeVars, templateVars, work, roundVars, candidates>>

\* The error of ZREMRANGEBYSCORE is ignored: checkPoWExist goes on.
ExpireFails(s) ==
  /\ pc[s] = "expire"
  /\ Failed({})
  /\ Goto(s, "check")
  /\ UNCHANGED <<nodeVars, templateVars, work, total, redisVars>>

\* The node took the block but its answer was lost.
SubmitReplyLost(s) ==
  /\ pc[s] = "submit"
  /\ NodeTakes(work[s])
  /\ Failed({work[s]})
  /\ Finish(s)
  /\ UNCHANGED <<templateVars, work, redisVars>>

\* The round was closed but the reply was lost: no candidate is added.
CloseReplyLost(s) ==
  /\ pc[s] = "block"
  /\ RenameRound(s)
  /\ Failed({work[s]})
  /\ Finish(s)
  /\ UNCHANGED <<nodeVars, templateVars, work, pow, candidates>>

\* The proxy dies in the middle of everything and starts again.
Crash ==
  /\ Failed({work[s] : s \in Busy})
  /\ pc' = [s \in Sessions |-> "idle"]
  /\ total' = [s \in Sessions |-> 0]
  /\ template' = nodeHeight /\ newest' = nodeHeight
  /\ UNCHANGED <<nodeVars, work, redisVars>>

-----------------------------------------------------------------------------

ShareStep(s) ==
  \/ SubmitBlock(s) \/ RefreshAfterBlock(s) \/ ExpirePow(s) \/ CheckPow(s)
  \/ WriteShare(s) \/ CloseRound(s) \/ AddCandidate(s)

Next ==
  \/ NewBlock \/ RefreshTemplate \/ Crash
  \/ \E s \in Sessions :
       \/ \E w \in Works : Submit(s, w)
       \/ ShareStep(s)
       \/ CallFails(s) \/ ExpireFails(s) \/ SubmitReplyLost(s) \/ CloseReplyLost(s)

Spec == Init /\ [][Next]_vars

\* A session's goroutine goes on with the submission it has begun.
FairSpec == Spec /\ \A s \in Sessions : WF_vars(ShareStep(s))

-----------------------------------------------------------------------------
(* Properties.                                                              *)

\* A work is credited once, however often and by however many sessions it is
\* submitted, as long as no template and no submission is further behind than
\* the window that checkPoWExist keeps.
NoDoubleCredit == \A w \in Works : credited[w] <= 1

\* Two works with one key are both credited only when their heights are far
\* apart (checkPoWExist). A late submission may forget a key, or bring down its
\* score, too early, which narrows the window by its lag.
SameKeyApart ==
  \A v, w \in Works :
    (HeightOf[v] < HeightOf[w] /\ KeyOf[v] = KeyOf[w] /\ credited[v] > 0 /\ credited[w] > 0)
      => HeightOf[w] - HeightOf[v] > Window - 2 * MaxLag

\* Every credited share is in exactly one round, the open one or the round of
\* one block: closing a round neither drops nor doubles a share that other
\* sessions write at the same time (WriteShare, WriteBlock).
RoundsHoldCredits ==
  SumFunction(roundCurrent) + SumFunction([w \in Works |-> SumFunction(rounds[w])])
    = Diff * SumFunction(credited)

\* The statistic roundShares of the front end is what the open round holds,
\* through every interleaving of WriteShare and WriteBlock.
StatMatchesRound == roundShares = SumFunction(roundCurrent)

\* A candidate's totalShares, the denominator of every reward, is what its
\* round holds when the rewards are computed, much later.
CandidateTotals == \A c \in candidates : c.total > 0 /\ c.total = SumFunction(rounds[c.work])

\* The ledger of shares as a whole: what the sessions' interleaved writes leave in
\* rounds, statistics and candidates adds up, and has its types.
RoundsAddUp == TypeOK /\ RoundsHoldCredits /\ StatMatchesRound /\ CandidateTotals

\* The session that still has to write down the accepted block w.
InProgress(w) ==
  \E s \in Sessions : work[s] = w /\ pc[s] \in {"refresh", "expire", "check", "block", "candidate"}

IsCandidate(w) == \E c \in candidates : c.work = w
KeyShared(w) == \E v \in Works \ {w} : KeyOf[v] = KeyOf[w]

\* A block that the node took is written down, unless a call failed or its key
\* was taken by another work.
AcceptedBlockRecorded ==
  \A w \in accepted : InProgress(w) \/ IsCandidate(w) \/ w \in lost \/ KeyShared(w)

\* A block that the node took is written down in the end, whether or not the
\* template could be refreshed: no accepted block waits for ever between
\* SubmitBlock and the candidate row, unless a call failed or its key was
\* taken by another work (processShare, WriteBlock).
AcceptedBlockIsRecorded ==
  \A w \in Solves : w \in accepted ~> (IsCandidate(w) \/ w \in lost \/ KeyShared(w))
=============================================================================
