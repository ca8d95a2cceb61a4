------------------------------ MODULE VarDiff ------------------------------
(***************************************************************************)
(* Variable difficulty: the target a session's shares are judged by, the one *)
(* announced to the miner, and UpdateAllSessionDiff (proxy/proxy.go), which   *)
(* changes the first.                                                        *)
(*                                                                          *)
(* A target is what a hash must stay below, Pow \div difficulty.  0 stands   *)
(* for the empty string of a session that has not subscribed.  All targets   *)
(* of an instance have as many digits, so that a string read while it is     *)
(* assigned is the old or the new one.                                       *)
(***************************************************************************)
EXTENDS Integers

CONSTANTS
  Sessions,
  Pow,               \* 2^256
  Difficulty,        \* Proxy.Difficulty
  ExpectShareCount

\* Difficulties are int64 and Pow is 2^256.
ASSUME VarDiffAssumption ==
  /\ Pow \in Nat /\ Difficulty \in Nat \ {0} /\ ExpectShareCount \in Nat
  /\ Difficulty * Difficulty < Pow

VARIABLES
  registered, target, targetNextJob,
  announcing,   \* sessions with a goroutine about to announce the difficulty
  told,         \* the difficulty announced to the miner last, 0 for none
  panicked

varDiffVars == <<registered, target, targetNextJob, announcing, told, panicked>>

VarDiffTypeOK ==
  /\ registered \subseteq Sessions /\ announcing \subseteq Sessions
  /\ target \in [Sessions -> 0..Pow] /\ targetNextJob \in [Sessions -> 0..Pow]
  /\ told \in [Sessions -> 0..Difficulty]
  /\ panicked \in BOOLEAN
  /\ \A s \in registered : target[s] # 0 /\ targetNextJob[s] # 0

\* Both divide by zero, a panic, when their argument is zero.
GetTargetHex(diff) == Pow \div diff
TargetHexToDiff(t) == Pow \div t

VarDiffInit ==
  /\ registered = {} /\ announcing = {} /\ panicked = FALSE
  /\ target = [s \in Sessions |-> 0] /\ targetNextJob = [s \in Sessions |-> 0]
  /\ told = [s \in Sessions |-> 0]

ProxyTarget == GetTargetHex(Difficulty)

Subscribe(s) ==
  /\ registered' = registered \cup {s}
  /\ target' = [target EXCEPT ![s] = ProxyTarget]
  /\ targetNextJob' = [targetNextJob EXCEPT ![s] = ProxyTarget]
  /\ UNCHANGED <<announcing, told, panicked>>

\* A goroutine of its own announces the difficulty.
Authorize(s) ==
  /\ announcing' = announcing \cup {s}
  /\ UNCHANGED <<registered, target, targetNextJob, told, panicked>>

setDifficulty(s) ==
  /\ s \in announcing
  /\ announcing' = announcing \ {s}
  /\ panicked' = (targetNextJob[s] = 0)
  /\ told' = IF targetNextJob[s] = 0 THEN told
             ELSE [told EXCEPT ![s] = TargetHexToDiff(targetNextJob[s])]
  /\ UNCHANGED <<registered, target, targetNextJob>>

\* The session's struct is dropped with it.
Remove(s) ==
  /\ s \in registered
  /\ registered' = registered \ {s} /\ announcing' = announcing \ {s}
  /\ target' = [target EXCEPT ![s] = 0] /\ targetNextJob' = [targetNextJob EXCEPT ![s] = 0]
  /\ told' = [told EXCEPT ![s] = 0]
  /\ UNCHANGED panicked

\* Nothing in the program ever counts a share.
shareCountInv == 0
GoesUp == shareCountInv > ExpectShareCount * 2
GoesDown == ~GoesUp /\ shareCountInv < ExpectShareCount \div 2

\* int64(float64(diff) * 1.2) and * 0.8 cut the fraction off.
Raised(diff) == (diff * 6) \div 5
AtLeastOne(diff) == IF diff = 1 THEN 1 ELSE (diff * 4) \div 5
Lowered(diff) == (diff * 4) \div 5

NextTarget(s) ==
  IF s \in registered /\ GoesUp
  THEN GetTargetHex(Raised(TargetHexToDiff(target[s]))) ELSE targetNextJob[s]

DownTo(s) == Lowered(TargetHexToDiff(target[s]))
UpdateAllSessionDiff ==
  /\ panicked' = \E s \in registered : GoesDown /\ DownTo(s) = 0
  /\ IF panicked' THEN UNCHANGED <<target, targetNextJob>>
     ELSE /\ targetNextJob' = [s \in Sessions |-> NextTarget(s)]
          /\ target' = [s \in Sessions |->
               IF s \in registered /\ GoesDown THEN GetTargetHex(DownTo(s)) ELSE target[s]]
  /\ UNCHANGED <<registered, announcing, told>>

VarDiffNext ==
  /\ ~panicked
  /\ \/ UpdateAllSessionDiff
     \/ \E s \in Sessions : Subscribe(s) \/ Authorize(s) \/ setDifficulty(s) \/ Remove(s)

VarDiffSpec == VarDiffInit /\ [][VarDiffNext]_varDiffVars

\* The timer of UpdateAllSessionDiff keeps firing.
VarDiffFairSpec == VarDiffSpec /\ WF_varDiffVars(~panicked /\ UpdateAllSessionDiff)

-----------------------------------------------------------------------------
(* Properties.                                                              *)

\* A share good enough for the difficulty a miner was told is never refused:
\* the session's own target is at most as hard, through adjustments, a second
\* subscription and an announcement that comes late.
JudgedNotHarder ==
  \A s \in registered : told[s] # 0 => TargetHexToDiff(target[s]) <= told[s]

\* What is made of a difficulty and back is the difficulty, so adjusting does
\* not drift by the conversion: without an adjustment in between, a session is
\* told the pool's difficulty.
ToldPoolDifficulty == \A s \in Sessions : told[s] \in {0, Difficulty}

\* A known defect, stated as what the code does: with difficulty adjustment
\* enabled the difficulty of every session sinks to 0, where the division
\* panics, unless the session leaves or subscribes anew first.
SinksToPanic ==
  (\E s \in Sessions : <>[](s \in registered) /\ <>[][~Subscribe(s)]_varDiffVars) => <>panicked
=============================================================================
