--------------------------- MODULE BlockLifecycle ---------------------------
(***************************************************************************)
(* What the pool promises about the blocks it finds, whatever crashes and   *)
(* read errors the unlocker meets: a block is found, waits as a candidate,  *)
(* is judged twice (once for an immature credit, once for the final one)    *)
(* and is then settled for ever, as matured or as an orphan.                *)
(***************************************************************************)
CONSTANT Blocks

VARIABLE stage  \* stage[b]: the set of places that hold a row for block b

Stages == {"candidate", "immature", "pendingOrphan", "matured", "orphan"}
Settled == {"matured", "orphan"}

TypeOK == stage \in [Blocks -> SUBSET Stages]

Init == stage = [b \in Blocks |-> {}]

Record(b) ==
  /\ stage[b] = {}
  /\ stage' = [stage EXCEPT ![b] = {"candidate"}]

\* The pending orphans of one pass are written together.
JudgePendingOrphans(B) ==
  /\ \A b \in B : stage[b] = {"candidate"}
  /\ stage' = [b \in Blocks |-> IF b \in B THEN {"pendingOrphan"} ELSE stage[b]]

JudgeImmature(b) ==
  /\ stage[b] = {"candidate"}
  /\ stage' = [stage EXCEPT ![b] = {"immature"}]

Settle(b, outcome) ==
  /\ stage[b] \in {{"immature"}, {"pendingOrphan"}}
  /\ stage' = [stage EXCEPT ![b] = {outcome}]

Next ==
  \/ \E b \in Blocks : Record(b) \/ JudgeImmature(b)
  \/ \E B \in SUBSET Blocks : JudgePendingOrphans(B)
  \/ \E b \in Blocks, outcome \in Settled : Settle(b, outcome)

Spec == Init /\ [][Next]_stage
=============================================================================
