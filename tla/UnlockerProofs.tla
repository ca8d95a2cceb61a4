--------------------------- MODULE UnlockerProofs ---------------------------
(***************************************************************************)
(* Invariance proofs for Unlocker, for every set of blocks and miners, every *)
(* configuration and every choice of depths with MaxReorg <= Depth.          *)
(***************************************************************************)
EXTENDS Unlocker, Sums

\* A block has at most one row, in one of the three sorted sets.
OneRow ==
  /\ candidates \cap BlocksOf(immature) = {}
  /\ candidates \cap BlocksOf(matured) = {}
  /\ BlocksOf(immature) \cap BlocksOf(matured) = {}
  /\ \A r, q \in immature : r.block = q.block => r = q
  /\ \A r, q \in matured : r.block = q.block => r = q

\* Only blocks that were found have rows, none above the tip.
Recorded ==
  /\ \A b \in Blocks : height[b] <= tip
  /\ \A b \in candidates \cup BlocksOf(immature) \cup BlocksOf(matured) : height[b] > 0

\* The shares of a round are kept until its block is settled.
RoundsKept == rounds = candidates \cup BlocksOf(immature)

\* The lists of a pass are disjoint and list rows that are still there.
PassLists ==
  /\ todo \cup orphanedBlocks \cup maturedBlocks \subseteq Waiting
  /\ todo \cap (orphanedBlocks \cup maturedBlocks) = {}
  /\ orphanedBlocks \cap maturedBlocks = {}
  /\ pc \in {"tip", "list"} => todo \cup orphanedBlocks \cup maturedBlocks = {}
  /\ pc = "write" => todo = {}

\* What the settling pass has read of the chain stays true.
PassVerdicts ==
  phase = "mature" =>
    /\ pc # "tip" => maxHeight + Depth <= tip
    /\ \A b \in todo \cup orphanedBlocks \cup maturedBlocks : height[b] + Depth <= tip
    /\ \A b \in maturedBlocks : OnChain(b)
    /\ \A b \in orphanedBlocks : ~OnChain(b)

\* Settled rows are out of the reach of a reorganisation.
SettledDeep == \A r \in matured : height[r.block] + Depth <= tip

IInv ==
  /\ TypeOK
  /\ OneRow
  /\ Recorded
  /\ RoundsKept
  /\ PassLists
  /\ PassVerdicts
  /\ SettledDeep
  /\ SettledMatchesChain
  /\ ImmatureCreditsNeedRow
  /\ CreditsMatchOutcome

-----------------------------------------------------------------------------
(* Lemmas on rows and maps.                                                 *)

\* A row and its fields.
LEMMA RowFields ==
  ASSUME NEW b, NEW orphan
  PROVE  Row(b, orphan).block = b /\ Row(b, orphan).orphan = orphan
BY DEF Row

LEMMA RowsDiffer ==
  ASSUME NEW b, NEW c
  PROVE  Row(c, FALSE) # Row(b, TRUE) /\ Row(c, TRUE) # Row(b, FALSE)
BY DEF Row

LEMMA RowsEqual ==
  ASSUME NEW b, NEW c
  PROVE  Row(c, FALSE) = Row(b, FALSE) <=> c = b
BY DEF Row

LEMMA RowType ==
  ASSUME NEW b \in Blocks, NEW orphan \in BOOLEAN
  PROVE  Row(b, orphan) \in Rows
BY DEF Row, Rows

LEMMA RowCases ==
  ASSUME NEW r \in Rows
  PROVE  /\ r.block \in Blocks /\ r.orphan \in BOOLEAN
         /\ r = Row(r.block, r.orphan)
BY DEF Row, Rows

\* What the two moves do to the sets of rows.
LEMMA MovedToImmature ==
  ASSUME immature \in SUBSET Rows, NEW B \in SUBSET Blocks, NEW orphan \in BOOLEAN,
         MoveToImmature(B, orphan)
  PROVE  /\ candidates' = candidates \ B /\ matured' = matured
         /\ immature' \in SUBSET Rows
         /\ \A b \in Blocks : b \in BlocksOf(immature)' <=> b \in BlocksOf(immature) \cup B
         /\ \A r : r \in immature' <=> r \in immature \/ (r.block \in B /\ r = Row(r.block, orphan))
<1>1. \A b \in B : Row(b, orphan) \in Rows
  BY RowType
<1>2. \A b \in B : Row(b, orphan).block = b
  BY RowFields
<1>3. immature' = immature \cup {Row(b, orphan) : b \in B}
  BY DEF MoveToImmature
<1>4. \A r : r \in immature' <=> r \in immature \/ (r.block \in B /\ r = Row(r.block, orphan))
  BY <1>2, <1>3
<1>5. \A b \in Blocks : b \in BlocksOf(immature)' <=> b \in BlocksOf(immature) \cup B
  BY <1>2, <1>3 DEF BlocksOf
<1> QED BY <1>1, <1>3, <1>4, <1>5 DEF MoveToImmature

LEMMA MovedToMatured ==
  ASSUME immature \in SUBSET Rows, matured \in SUBSET Rows,
         NEW b \in Blocks, NEW orphan \in BOOLEAN, MoveToMatured(b, orphan)
  PROVE  /\ candidates' = candidates /\ rounds' = rounds \ {b}
         /\ immature' \in SUBSET Rows /\ matured' \in SUBSET Rows
         /\ \A r : r \in immature' <=> r \in immature /\ r.block # b
         /\ \A r : r \in matured' <=> r \in matured \/ r = Row(b, orphan)
         /\ BlocksOf(immature)' = BlocksOf(immature) \ {b}
         /\ BlocksOf(matured)' = BlocksOf(matured) \cup {b}
<1>1. Row(b, orphan) \in Rows /\ Row(b, orphan).block = b
  BY RowType, RowFields
<1> QED BY <1>1 DEF MoveToMatured, BlocksOf

\* The depths are natural numbers.
LEMMA Depths ==
  /\ ImmatureDepth \in Nat /\ Depth \in Nat /\ MaxReorg \in Nat
  /\ MaxHeight \in Nat /\ MaxRestarts \in Nat /\ MaxReorg <= Depth
BY DepthAssumption, ReorgAssumption

-----------------------------------------------------------------------------
(* Type correctness.                                                        *)

\* The end of a pass and what follows a write keep the types of the locals.
LocalTypes ==
  /\ phase \in {"pending", "mature"}
  /\ pc \in {"tip", "list", "scan", "write"}
  /\ maxHeight \in Int
  /\ todo \subseteq Blocks /\ orphanedBlocks \subseteq Blocks /\ maturedBlocks \subseteq Blocks
  /\ halt \in BOOLEAN

LEMMA EndPassTypes ==
  ASSUME NEW next \in {"pending", "mature"}, NEW halted \in BOOLEAN, EndPass(next, halted)
  PROVE  LocalTypes'
BY DEF EndPass, LocalTypes

LEMMA AfterWriteTypes ==
  ASSUME TypeOK, NEW orphansLeft \in SUBSET Blocks, NEW maturedLeft \in SUBSET Blocks,
         NEW replied \in BOOLEAN, AfterWrite(orphansLeft, maturedLeft, replied)
  PROVE  LocalTypes' /\ UNCHANGED <<chainVars, config, restarts>>
<1>1. NextPass \in {"pending", "mature"}
  BY DEF NextPass
<1>2. CASE Halt
  BY <1>2, EndPassTypes DEF Halt, AfterWrite
<1>3. CASE EndPass(NextPass, FALSE)
  BY <1>1, <1>3, EndPassTypes DEF AfterWrite
<1>4. CASE ~Halt /\ ~EndPass(NextPass, FALSE)
  BY <1>4 DEF AfterWrite, LocalTypes, TypeOK
<1> QED BY <1>2, <1>3, <1>4

LEMMA InitTypes == Init => TypeOK
<1> SUFFICES ASSUME Init PROVE TypeOK
  OBVIOUS
<1>1. 0 \in Heights /\ 0 \in 0..MaxRestarts
  BY Depths DEF Heights
<1>2. /\ chain \in [Heights -> Blocks \cup {Foreign, NoBlock}] /\ tip \in Heights
      /\ height \in [Blocks -> Heights] /\ parent \in [Blocks -> Blocks \cup {Foreign, NoBlock}]
  BY <1>1 DEF Init
<1>3. /\ DOMAIN creditsImmature = Blocks /\ DOMAIN credits = Blocks
      /\ DOMAIN minerImmature = Logins /\ DOMAIN minerBalance = Logins
  BY DEF Init
<1>4. DOMAIN finances = {"immature", "balance", "totalMined"}
  BY DEF Init
<1>5. /\ candidates \subseteq Blocks /\ rounds \subseteq Blocks
      /\ immature \subseteq Rows /\ matured \subseteq Rows /\ config \in Configs
  BY DEF Init
<1>6. /\ phase \in {"pending", "mature"} /\ pc \in {"tip", "list", "scan", "write"}
      /\ maxHeight \in Int
  BY DEF Init
<1>7. /\ todo \subseteq Blocks /\ orphanedBlocks \subseteq Blocks
      /\ maturedBlocks \subseteq Blocks
  BY DEF Init
<1>8. halt \in BOOLEAN /\ restarts \in 0..MaxRestarts
  BY <1>1 DEF Init
<1> QED BY <1>1, <1>2, <1>3, <1>4, <1>5, <1>6, <1>7, <1>8 DEF TypeOK

LEMMA TypeStep == TypeOK /\ [Next]_vars => TypeOK'
<1> SUFFICES ASSUME TypeOK, [Next]_vars PROVE TypeOK'
  OBVIOUS
<1> USE Depths DEF TypeOK
<1>1. ASSUME NEW b \in Blocks, FindBlock(b) PROVE TypeOK'
  BY <1>1 DEF FindBlock, Heights, redisVars, ledgerVars, passVars
<1>2. ASSUME NEW b \in Blocks, FindCompetingBlock(b) PROVE TypeOK'
  BY <1>2 DEF FindCompetingBlock, Heights, redisVars, ledgerVars, passVars
<1>3. ASSUME NEW b \in Blocks, WriteBlock(b) PROVE TypeOK'
  BY <1>3 DEF WriteBlock, chainVars, passVars
<1>4. ASSUME NEW k \in 0..MaxReorg,
             NEW new \in [tip + 1 - k .. tip + 1 -> Blocks \cup {Foreign}],
             Reorganise(k, new)
      PROVE  TypeOK'
  BY <1>4 DEF Reorganise, Heights, redisVars, ledgerVars, passVars
<1>5. CASE GetPendingBlock
  BY <1>5 DEF GetPendingBlock, CurrentHeight, PassDepth, Heights, chainVars, redisVars, ledgerVars
<1>6. CASE GetRows
  <2>1. Waiting \subseteq Blocks
    BY DEF Waiting, BlocksOf, Rows
  <2>2. LocalTypes'
    BY <1>6, <2>1, EndPassTypes DEF GetRows, NextPass, LocalTypes
  <2> QED BY <1>6, <2>2 DEF GetRows, LocalTypes, chainVars, redisVars, ledgerVars
<1>7. ASSUME NEW b \in Blocks, ScanBlock(b) PROVE TypeOK'
  BY <1>7 DEF ScanBlock, chainVars, redisVars, ledgerVars
<1>8. CASE WritePendingOrphans
  <2>1. LocalTypes' /\ UNCHANGED <<chainVars, config, restarts>>
    BY <1>8, AfterWriteTypes DEF WritePendingOrphans
  <2>2. immature' \subseteq Rows
    BY <1>8, MovedToImmature DEF WritePendingOrphans
  <2> QED BY <1>8, <2>1, <2>2
       DEF WritePendingOrphans, MoveToImmature, LocalTypes, ledgerVars, chainVars
<1>9. ASSUME NEW b \in Blocks, WriteImmatureBlock(b) PROVE TypeOK'
  <2>1. LocalTypes' /\ UNCHANGED <<chainVars, config, restarts>>
    BY <1>9, AfterWriteTypes DEF WriteImmatureBlock
  <2>2. immature' \subseteq Rows
    BY <1>9, MovedToImmature DEF WriteImmatureBlock
  <2> QED BY <1>9, <2>1, <2>2
       DEF WriteImmatureBlock, MoveToImmature, LocalTypes, IncreaseBy, FinancesPlus, chainVars
<1>10. ASSUME NEW b \in Blocks, WriteMaturedBlock(b) PROVE TypeOK'
  <2>1. LocalTypes' /\ UNCHANGED <<chainVars, config, restarts>>
    BY <1>10, AfterWriteTypes DEF WriteMaturedBlock
  <2>2. immature' \subseteq Rows /\ matured' \subseteq Rows
    BY <1>10, MovedToMatured DEF WriteMaturedBlock
  <2> QED BY <1>10, <2>1, <2>2
       DEF WriteMaturedBlock, MoveToMatured, DelLog, LocalTypes, IncreaseBy, DecreaseBy,
           FinancesPlus, chainVars
<1>11. ASSUME NEW b \in Blocks, WriteOrphan(b) PROVE TypeOK'
  <2>1. LocalTypes' /\ UNCHANGED <<chainVars, config, restarts>>
    BY <1>11, AfterWriteTypes DEF WriteOrphan
  <2>2. immature' \subseteq Rows /\ matured' \subseteq Rows
    BY <1>11, MovedToMatured DEF WriteOrphan
  <2> QED BY <1>11, <2>1, <2>2
       DEF WriteOrphan, MoveToMatured, DelLog, LocalTypes, DecreaseBy, FinancesPlus, chainVars
<1>12. CASE CallFails
  <2>1. LocalTypes'
    BY <1>12, EndPassTypes DEF CallFails, Halt
  <2> QED BY <1>12, <2>1 DEF CallFails, LocalTypes, chainVars, redisVars, ledgerVars
<1>13. ASSUME NEW c \in Configs, Restart(c) PROVE TypeOK'
  <2>1. LocalTypes'
    BY <1>13, EndPassTypes DEF Restart
  <2> QED BY <1>13, <2>1 DEF Restart, LocalTypes, chainVars, redisVars, ledgerVars
<1>14. CASE UNCHANGED vars
  BY <1>14 DEF vars, chainVars, redisVars, ledgerVars, passVars
<1> QED
  BY <1>1, <1>2, <1>3, <1>4, <1>5, <1>6, <1>7, <1>8, <1>9, <1>10, <1>11, <1>12, <1>13, <1>14
     DEF Next, UnlockerStep

\* Type correctness of the unlocker and of what it keeps in Redis.
THEOREM TypeCorrect == Spec => []TypeOK
<1>1. Init => TypeOK
  BY InitTypes
<1>2. TypeOK /\ [Next]_vars => TypeOK'
  BY TypeStep
<1> QED BY <1>1, <1>2, PTL DEF Spec

-----------------------------------------------------------------------------
(* Rows: one row for each block, and its round kept until it is settled.    *)

RowInv == OneRow /\ Recorded /\ RoundsKept

LEMMA ToImmatureKeepsRows ==
  ASSUME TypeOK, RowInv, NEW B \in SUBSET candidates, NEW orphan \in BOOLEAN,
         MoveToImmature(B, orphan), rounds' = rounds, UNCHANGED chainVars
  PROVE  RowInv'
<1>1. /\ candidates' = candidates \ B /\ matured' = matured
      /\ \A b \in Blocks : b \in BlocksOf(immature)' <=> b \in BlocksOf(immature) \cup B
      /\ immature' \in SUBSET Rows
      /\ \A r : r \in immature' <=> r \in immature \/ (r.block \in B /\ r = Row(r.block, orphan))
  <2>1. B \in SUBSET Blocks /\ immature \in SUBSET Rows
    BY DEF TypeOK
  <2> QED BY <2>1, MovedToImmature
<1>2. BlocksOf(immature)' \subseteq Blocks /\ BlocksOf(immature) \subseteq Blocks
  BY <1>1 DEF TypeOK, BlocksOf, Rows
<1>3. BlocksOf(immature)' = BlocksOf(immature) \cup B
  BY <1>1, <1>2 DEF TypeOK
<1>4. BlocksOf(matured)' = BlocksOf(matured)
  BY <1>1 DEF BlocksOf
<1>5. \A r, q \in immature' : r.block = q.block => r = q
  <2> SUFFICES ASSUME NEW r \in immature', NEW q \in immature', r.block = q.block PROVE r = q
    OBVIOUS
  <2>1. \A p \in immature : p.block \notin B
    BY DEF RowInv, OneRow, BlocksOf
  <2>2. CASE r.block \in B
    BY <1>1, <2>1, <2>2
  <2>3. CASE r.block \notin B
    BY <1>1, <2>3 DEF RowInv, OneRow
  <2> QED BY <2>2, <2>3
<1>6. OneRow'
  BY <1>1, <1>3, <1>4, <1>5 DEF RowInv, OneRow
<1>7. Recorded'
  BY <1>1, <1>3, <1>4 DEF RowInv, Recorded, chainVars
<1>8. RoundsKept'
  BY <1>1, <1>3 DEF RowInv, RoundsKept
<1> QED BY <1>6, <1>7, <1>8 DEF RowInv

LEMMA ToMaturedKeepsRows ==
  ASSUME TypeOK, RowInv, NEW b \in BlocksOf(immature), NEW orphan \in BOOLEAN,
         MoveToMatured(b, orphan), UNCHANGED chainVars
  PROVE  RowInv'
<1>1. b \in Blocks
  BY DEF TypeOK, BlocksOf, Rows
<1>2. /\ candidates' = candidates /\ rounds' = rounds \ {b}
      /\ \A r : r \in immature' <=> r \in immature /\ r.block # b
      /\ \A r : r \in matured' <=> r \in matured \/ r = Row(b, orphan)
      /\ BlocksOf(immature)' = BlocksOf(immature) \ {b}
      /\ BlocksOf(matured)' = BlocksOf(matured) \cup {b}
  BY <1>1, MovedToMatured DEF TypeOK
<1>3. Row(b, orphan).block = b
  BY RowFields
<1>4. \A r, q \in matured' : r.block = q.block => r = q
  BY <1>2, <1>3 DEF RowInv, OneRow, BlocksOf
<1>5. OneRow'
  BY <1>2, <1>4 DEF RowInv, OneRow
<1>6. Recorded'
  BY <1>2 DEF RowInv, Recorded, chainVars
<1>7. RoundsKept'
  BY <1>2 DEF RowInv, OneRow, RoundsKept
<1> QED BY <1>5, <1>6, <1>7 DEF RowInv

LEMMA RowsUnchanged ==
  ASSUME RowInv, UNCHANGED <<candidates, immature, matured, rounds>>,
         \/ UNCHANGED <<height, tip>>
         \/ Recorded'
  PROVE  RowInv'
BY DEF RowInv, OneRow, Recorded, RoundsKept, BlocksOf

LEMMA RowStep == TypeOK /\ RowInv /\ PassLists /\ [Next]_vars => RowInv'
<1> SUFFICES ASSUME TypeOK, RowInv, PassLists, [Next]_vars PROVE RowInv'
  OBVIOUS
<1>0. /\ tip \in Int /\ \A b \in Blocks : height[b] \in Int
      /\ candidates \cup BlocksOf(immature) \cup BlocksOf(matured) \subseteq Blocks
  BY Depths DEF TypeOK, Heights, BlocksOf, Rows
<1>1. ASSUME NEW b \in Blocks, FindBlock(b) PROVE RowInv'
  <2>1. /\ tip' = tip + 1 /\ height[b] = 0 /\ height' = [height EXCEPT ![b] = tip + 1]
        /\ UNCHANGED <<candidates, immature, matured, rounds>>
    BY <1>1 DEF FindBlock, redisVars, ledgerVars
  <2>2. \A c \in Blocks : height'[c] = IF c = b THEN tip + 1 ELSE height[c]
    BY <2>1 DEF TypeOK
  <2>3. Recorded'
    BY <1>0, <2>1, <2>2 DEF RowInv, Recorded, BlocksOf
  <2> QED BY <2>1, <2>3, RowsUnchanged
<1>2. ASSUME NEW b \in Blocks, FindCompetingBlock(b) PROVE RowInv'
  <2>1. /\ tip' = tip /\ height[b] = 0 /\ tip > 0 /\ height' = [height EXCEPT ![b] = tip]
        /\ UNCHANGED <<candidates, immature, matured, rounds>>
    BY <1>2 DEF FindCompetingBlock, redisVars, ledgerVars
  <2>2. \A c \in Blocks : height'[c] = IF c = b THEN tip ELSE height[c]
    BY <2>1 DEF TypeOK
  <2>3. Recorded'
    BY <1>0, <2>1, <2>2 DEF RowInv, Recorded, BlocksOf
  <2> QED BY <2>1, <2>3, RowsUnchanged
<1>3. ASSUME NEW b \in Blocks, WriteBlock(b) PROVE RowInv'
  BY <1>3 DEF WriteBlock, chainVars, RowInv, OneRow, Recorded, RoundsKept, BlocksOf
<1>4. ASSUME NEW k \in 0..MaxReorg,
             NEW new \in [tip + 1 - k .. tip + 1 -> Blocks \cup {Foreign}],
             Reorganise(k, new)
      PROVE  RowInv'
  <2>1. /\ tip' = tip + 1 /\ UNCHANGED height
        /\ UNCHANGED <<candidates, immature, matured, rounds>>
    BY <1>4 DEF Reorganise, redisVars, ledgerVars
  <2>2. Recorded'
    BY <1>0, <2>1 DEF RowInv, Recorded, BlocksOf
  <2> QED BY <2>1, <2>2, RowsUnchanged
<1>5. CASE GetPendingBlock \/ GetRows \/ CallFails \/ UNCHANGED vars
  BY <1>5, RowsUnchanged DEF GetPendingBlock, GetRows, CallFails, vars, redisVars, ledgerVars, chainVars
<1>6. ASSUME NEW b \in Blocks, ScanBlock(b) PROVE RowInv'
  BY <1>6, RowsUnchanged DEF ScanBlock, redisVars, ledgerVars, chainVars
<1>7. CASE WritePendingOrphans
  <2>1. orphanedBlocks \subseteq candidates
    BY <1>7 DEF WritePendingOrphans, PassLists, Waiting
  <2> QED BY <1>7, <2>1, ToImmatureKeepsRows DEF WritePendingOrphans, AfterWrite, ledgerVars
<1>8. ASSUME NEW b \in Blocks, WriteImmatureBlock(b) PROVE RowInv'
  <2>1. {b} \subseteq candidates
    BY <1>8 DEF WriteImmatureBlock, PassLists, Waiting, Lowest
  <2> QED BY <1>8, <2>1, ToImmatureKeepsRows DEF WriteImmatureBlock, AfterWrite
<1>9. ASSUME NEW b \in Blocks, WriteMaturedBlock(b) PROVE RowInv'
  <2>1. b \in BlocksOf(immature)
    BY <1>9 DEF WriteMaturedBlock, PassLists, Waiting, Lowest
  <2> QED BY <1>9, <2>1, ToMaturedKeepsRows DEF WriteMaturedBlock, AfterWrite
<1>10. ASSUME NEW b \in Blocks, WriteOrphan(b) PROVE RowInv'
  <2>1. b \in BlocksOf(immature)
    BY <1>10 DEF WriteOrphan, PassLists, Waiting, Lowest
  <2> QED BY <1>10, <2>1, ToMaturedKeepsRows DEF WriteOrphan, AfterWrite
<1>11. ASSUME NEW c \in Configs, Restart(c) PROVE RowInv'
  BY <1>11, RowsUnchanged DEF Restart, redisVars, ledgerVars, chainVars
<1> QED
  BY <1>1, <1>2, <1>3, <1>4, <1>5, <1>6, <1>7, <1>8, <1>9, <1>10, <1>11 DEF Next, UnlockerStep

-----------------------------------------------------------------------------
(* Passes: their lists stay consistent with Redis and with the chain.       *)

PassInv == PassLists /\ PassVerdicts

LEMMA EndPassKeeps ==
  ASSUME NEW next, NEW halted, EndPass(next, halted)
  PROVE  PassInv'
BY DEF EndPass, PassInv, PassLists, PassVerdicts

LEMMA AfterWriteKeeps ==
  ASSUME TypeOK, PassInv, pc = "write",
         NEW orphansLeft \in SUBSET orphanedBlocks, NEW maturedLeft \in SUBSET maturedBlocks,
         NEW replied \in BOOLEAN, AfterWrite(orphansLeft, maturedLeft, replied),
         phase' = phase => orphansLeft \cup maturedLeft \subseteq Waiting'
  PROVE  PassInv'
<1>1. CASE Halt \/ EndPass(NextPass, FALSE)
  BY <1>1, EndPassKeeps DEF Halt
<1>2. CASE ~Halt /\ ~EndPass(NextPass, FALSE)
  <2>1. /\ orphanedBlocks' = orphansLeft /\ maturedBlocks' = maturedLeft
        /\ UNCHANGED <<phase, pc, maxHeight, todo, chain, height, tip>>
    BY <1>2 DEF AfterWrite, chainVars
  <2>2. todo' = {}
    BY <2>1 DEF PassInv, PassLists
  <2>3. PassLists'
    BY <2>1, <2>2 DEF PassInv, PassLists
  <2>4. PassVerdicts'
    BY <2>1 DEF PassInv, PassVerdicts, OnChain
  <2> QED BY <2>3, <2>4 DEF PassInv
<1> QED BY <1>1, <1>2

\* A step of the network leaves the chain alone below Depth, for every known block.
LEMMA NetworkKeepsBuried ==
  ASSUME TypeOK, RowInv,
         \/ \E b \in Blocks : FindBlock(b) \/ FindCompetingBlock(b)
         \/ \E k \in 0..MaxReorg :
              \E new \in [tip + 1 - k .. tip + 1 -> Blocks \cup {Foreign}] : Reorganise(k, new)
  PROVE  /\ tip' >= tip
         /\ \A b \in candidates \cup BlocksOf(immature) \cup BlocksOf(matured) :
              /\ height'[b] = height[b]
              /\ height[b] + Depth <= tip => (OnChain(b)' <=> OnChain(b))
<1>1. /\ tip \in Int /\ \A b \in Blocks : height[b] \in Heights /\ height[b] \in Int /\ height[b] <= tip
      /\ candidates \cup BlocksOf(immature) \cup BlocksOf(matured) \subseteq Blocks
      /\ \A b \in candidates \cup BlocksOf(immature) \cup BlocksOf(matured) : height[b] # 0
  BY Depths DEF TypeOK, Heights, BlocksOf, Rows, RowInv, Recorded
<1>2. ASSUME NEW c \in Blocks, FindBlock(c)
      PROVE  /\ tip' >= tip
             /\ \A b \in candidates \cup BlocksOf(immature) \cup BlocksOf(matured) :
                  height'[b] = height[b] /\ (OnChain(b)' <=> OnChain(b))
  <2>1. /\ height[c] = 0 /\ tip' = tip + 1
        /\ chain' = [chain EXCEPT ![tip + 1] = c] /\ height' = [height EXCEPT ![c] = tip + 1]
    BY <1>2 DEF FindBlock
  <2>2. \A h \in Heights : h # tip + 1 => chain'[h] = chain[h]
    BY <2>1 DEF TypeOK
  <2>3. \A b \in Blocks : b # c => height'[b] = height[b]
    BY <2>1 DEF TypeOK
  <2> QED BY <1>1, <2>1, <2>2, <2>3 DEF OnChain
<1>3. ASSUME NEW c \in Blocks, FindCompetingBlock(c)
      PROVE  /\ tip' >= tip
             /\ \A b \in candidates \cup BlocksOf(immature) \cup BlocksOf(matured) :
                  height'[b] = height[b] /\ (OnChain(b)' <=> OnChain(b))
  <2>1. /\ height[c] = 0 /\ tip' = tip /\ chain' = chain
        /\ height' = [height EXCEPT ![c] = tip]
    BY <1>3 DEF FindCompetingBlock
  <2>2. \A b \in Blocks : b # c => height'[b] = height[b]
    BY <2>1 DEF TypeOK
  <2> QED BY <1>1, <2>1, <2>2 DEF OnChain
<1>4. ASSUME NEW k \in 0..MaxReorg,
             NEW new \in [tip + 1 - k .. tip + 1 -> Blocks \cup {Foreign}],
             Reorganise(k, new)
      PROVE  /\ tip' >= tip
             /\ \A b \in candidates \cup BlocksOf(immature) \cup BlocksOf(matured) :
                  /\ height'[b] = height[b]
                  /\ height[b] + Depth <= tip => (OnChain(b)' <=> OnChain(b))
  <2>1. tip' = tip + 1 /\ height' = height
    BY <1>4 DEF Reorganise
  <2>2. chain' = [h \in Heights |-> IF h \in tip + 1 - k .. tip + 1 THEN new[h] ELSE chain[h]]
    BY <1>4 DEF Reorganise
  <2>3. \A h \in Heights : h + Depth <= tip => chain'[h] = chain[h]
    BY <1>1, <2>2, Depths DEF Heights
  <2> QED BY <1>1, <2>1, <2>3 DEF OnChain
<1> QED BY <1>2, <1>3, <1>4

LEMMA PassStep == TypeOK /\ RowInv /\ PassInv /\ [Next]_vars => PassInv'
<1> SUFFICES ASSUME TypeOK, RowInv, PassInv, [Next]_vars PROVE PassInv'
  OBVIOUS
<1>1. /\ candidates \cup BlocksOf(immature) \subseteq Blocks /\ Waiting \subseteq Blocks
      /\ tip \in Int /\ maxHeight \in Int /\ \A b \in Blocks : height[b] \in Int
      /\ Depth \in Int /\ ImmatureDepth \in Int
  BY Depths DEF TypeOK, BlocksOf, Rows, Waiting, Heights
<1>2. ASSUME \/ \E b \in Blocks : FindBlock(b) \/ FindCompetingBlock(b)
             \/ \E k \in 0..MaxReorg :
                  \E new \in [tip + 1 - k .. tip + 1 -> Blocks \cup {Foreign}] : Reorganise(k, new)
      PROVE  PassInv'
  <2>1. UNCHANGED <<redisVars, passVars>>
    BY <1>2 DEF FindBlock, FindCompetingBlock, Reorganise
  <2>2. PassLists'
    BY <2>1 DEF PassInv, PassLists, Waiting, BlocksOf, redisVars, passVars
  <2>3. \A b \in candidates \cup BlocksOf(immature) :
           /\ height'[b] = height[b]
           /\ height[b] + Depth <= tip => (OnChain(b)' <=> OnChain(b))
    BY <1>2, NetworkKeepsBuried
  <2>4. tip' >= tip /\ tip' \in Int
    BY <1>1, <1>2, NetworkKeepsBuried DEF FindBlock, FindCompetingBlock, Reorganise
  <2>5. todo \cup orphanedBlocks \cup maturedBlocks \subseteq candidates \cup BlocksOf(immature)
    BY DEF PassInv, PassLists, Waiting
  <2>6. PassVerdicts'
    <3> SUFFICES ASSUME phase = "mature" PROVE PassVerdicts'
      BY <2>1 DEF PassVerdicts, passVars
    <3>1. (pc # "tip")' => maxHeight' + Depth <= tip'
      BY <1>1, <2>1, <2>4 DEF PassInv, PassVerdicts, passVars
    <3>2. \A b \in todo \cup orphanedBlocks \cup maturedBlocks :
            /\ height'[b] = height[b] /\ height[b] \in Int /\ height[b] + Depth <= tip
            /\ OnChain(b)' <=> OnChain(b)
      BY <1>1, <2>3, <2>5 DEF PassInv, PassVerdicts
    <3> QED BY <1>1, <2>1, <2>4, <3>1, <3>2 DEF PassInv, PassVerdicts, passVars
  <2> QED BY <2>2, <2>6 DEF PassInv
<1>3. ASSUME NEW b \in Blocks, WriteBlock(b) PROVE PassInv'
  <2>1. /\ candidates' = candidates \cup {b}
        /\ UNCHANGED <<immature, chain, height, tip, passVars>>
    BY <1>3 DEF WriteBlock, chainVars
  <2>2. PassLists'
    BY <2>1 DEF PassInv, PassLists, Waiting, BlocksOf, passVars
  <2>3. PassVerdicts'
    BY <2>1 DEF PassInv, PassVerdicts, OnChain, passVars
  <2> QED BY <2>2, <2>3 DEF PassInv
<1>4. CASE GetPendingBlock
  <2>1. /\ maxHeight' = tip - PassDepth /\ pc' = "list"
        /\ UNCHANGED <<phase, todo, orphanedBlocks, maturedBlocks, candidates, immature>>
        /\ UNCHANGED <<tip, height, chain>>
    BY <1>1, <1>4 DEF GetPendingBlock, CurrentHeight, redisVars, chainVars
  <2>2. PassLists'
    BY <1>4, <2>1 DEF GetPendingBlock, PassInv, PassLists, Waiting, BlocksOf
  <2>3. phase = "mature" => maxHeight' + Depth <= tip
    BY <1>1, <2>1 DEF PassDepth
  <2>4. PassVerdicts'
    BY <2>1, <2>3 DEF PassInv, PassVerdicts, OnChain
  <2> QED BY <2>2, <2>4 DEF PassInv
<1>5. CASE GetRows
  <2> DEFINE rows == {b \in Waiting : UpToMaxHeight(b)}
  <2>1. CASE rows = {}
    BY <1>5, <2>1, EndPassKeeps DEF GetRows
  <2>2. CASE rows # {}
    <3>1. /\ todo' = rows /\ pc' = "scan"
          /\ UNCHANGED <<phase, maxHeight, orphanedBlocks, maturedBlocks, tip, height, chain>>
          /\ UNCHANGED <<candidates, immature>>
      BY <1>5, <2>2 DEF GetRows, redisVars, chainVars
    <3>2. orphanedBlocks = {} /\ maturedBlocks = {}
      BY <1>5 DEF GetRows, PassInv, PassLists
    <3>3. PassLists'
      BY <3>1, <3>2 DEF PassLists, Waiting, BlocksOf
    <3>4. phase = "mature" => \A b \in rows : height[b] + Depth <= tip
      BY <1>1, <1>5 DEF GetRows, PassInv, PassVerdicts, UpToMaxHeight
    <3>5. PassVerdicts'
      BY <1>5, <3>1, <3>2, <3>4 DEF GetRows, PassInv, PassVerdicts
    <3> QED BY <3>3, <3>5 DEF PassInv
  <2> QED BY <2>1, <2>2
<1>6. ASSUME NEW b \in Blocks, ScanBlock(b) PROVE PassInv'
  <2>1. /\ b \in todo /\ todo' = todo \ {b} /\ pc = "scan"
        /\ pc' = IF todo = {b} THEN "write" ELSE "scan"
        /\ UNCHANGED <<phase, maxHeight, tip, height, chain, candidates, immature>>
    BY <1>6 DEF ScanBlock, Lowest, redisVars, chainVars
  <2>2. \/ OnChain(b) /\ maturedBlocks' = maturedBlocks \cup {b} /\ orphanedBlocks' = orphanedBlocks
        \/ ~OnChain(b) /\ orphanedBlocks' = orphanedBlocks \cup {b} /\ maturedBlocks' = maturedBlocks
    BY <1>6 DEF ScanBlock
  <2>3. PassLists'
    BY <2>1, <2>2 DEF PassInv, PassLists, Waiting, BlocksOf
  <2>4. PassVerdicts'
    BY <2>1, <2>2 DEF PassInv, PassVerdicts, OnChain
  <2> QED BY <2>3, <2>4 DEF PassInv
<1>7. CASE WritePendingOrphans
  <2>1. candidates' = candidates \ orphanedBlocks /\ pc = "write" /\ phase = "pending"
    BY <1>7 DEF WritePendingOrphans, MoveToImmature
  <2>2. phase' = phase => maturedBlocks \subseteq Waiting'
    BY <2>1 DEF PassInv, PassLists, Waiting
  <2>3. PICK replied \in BOOLEAN : AfterWrite({}, maturedBlocks, replied)
    BY <1>7 DEF WritePendingOrphans
  <2> QED BY <2>1, <2>2, <2>3, AfterWriteKeeps
<1>8. ASSUME NEW b \in Blocks, WriteImmatureBlock(b) PROVE PassInv'
  <2>1. candidates' = candidates \ {b} /\ pc = "write" /\ phase = "pending"
    BY <1>8 DEF WriteImmatureBlock, MoveToImmature
  <2>2. phase' = phase => maturedBlocks \ {b} \subseteq Waiting'
    BY <2>1 DEF PassInv, PassLists, Waiting
  <2>3. PICK replied \in BOOLEAN : AfterWrite({}, maturedBlocks \ {b}, replied)
    BY <1>8 DEF WriteImmatureBlock
  <2> QED BY <2>1, <2>2, <2>3, AfterWriteKeeps
<1>9. ASSUME NEW b \in Blocks, WriteMaturedBlock(b) PROVE PassInv'
  <2>1. BlocksOf(immature)' = BlocksOf(immature) \ {b} /\ pc = "write" /\ phase = "mature"
    BY <1>9, MovedToMatured DEF WriteMaturedBlock, TypeOK
  <2>2. phase' = phase => maturedBlocks \ {b} \subseteq Waiting'
    BY <2>1 DEF PassInv, PassLists, Waiting
  <2>3. PICK replied \in BOOLEAN : AfterWrite({}, maturedBlocks \ {b}, replied)
    BY <1>9 DEF WriteMaturedBlock
  <2> QED BY <2>1, <2>2, <2>3, AfterWriteKeeps
<1>10. ASSUME NEW b \in Blocks, WriteOrphan(b) PROVE PassInv'
  <2>1. BlocksOf(immature)' = BlocksOf(immature) \ {b} /\ pc = "write" /\ phase = "mature"
        /\ b \in orphanedBlocks
    BY <1>10, MovedToMatured DEF WriteOrphan, TypeOK, Lowest
  <2>2. phase' = phase => (orphanedBlocks \ {b}) \cup maturedBlocks \subseteq Waiting'
    BY <2>1 DEF PassInv, PassLists, Waiting
  <2>3. PICK replied \in BOOLEAN : AfterWrite(orphanedBlocks \ {b}, maturedBlocks, replied)
    BY <1>10 DEF WriteOrphan
  <2> QED BY <2>1, <2>2, <2>3, AfterWriteKeeps
<1>11. CASE CallFails
  BY <1>11, EndPassKeeps DEF CallFails, Halt
<1>12. ASSUME NEW c \in Configs, Restart(c) PROVE PassInv'
  BY <1>12, EndPassKeeps DEF Restart
<1>13. CASE UNCHANGED vars
  <2>1. PassLists'
    BY <1>13 DEF PassInv, PassLists, Waiting, BlocksOf, vars, redisVars, passVars
  <2>2. PassVerdicts'
    BY <1>13 DEF PassInv, PassVerdicts, OnChain, vars, chainVars, passVars
  <2> QED BY <2>1, <2>2 DEF PassInv
<1> QED
  BY <1>2, <1>3, <1>4, <1>5, <1>6, <1>7, <1>8, <1>9, <1>10, <1>11, <1>12, <1>13
     DEF Next, UnlockerStep

-----------------------------------------------------------------------------
(* Settled rows agree with the chain.                                       *)

SettledInv == SettledDeep /\ SettledMatchesChain

LEMMA SettledStep == TypeOK /\ RowInv /\ PassInv /\ SettledInv /\ [Next]_vars => SettledInv'
<1> SUFFICES ASSUME TypeOK, RowInv, PassInv, SettledInv, [Next]_vars PROVE SettledInv'
  OBVIOUS
<1>1. /\ tip \in Int /\ Depth \in Int /\ \A b \in Blocks : height[b] \in Int
      /\ \A r \in matured : r.block \in Blocks /\ r.block \in BlocksOf(matured)
  BY Depths DEF TypeOK, BlocksOf, Rows, Heights
<1>2. ASSUME \/ \E b \in Blocks : FindBlock(b) \/ FindCompetingBlock(b)
             \/ \E k \in 0..MaxReorg :
                  \E new \in [tip + 1 - k .. tip + 1 -> Blocks \cup {Foreign}] : Reorganise(k, new)
      PROVE  SettledInv'
  <2>1. UNCHANGED matured /\ tip' >= tip /\ tip' \in Int
    BY <1>1, <1>2, NetworkKeepsBuried
       DEF FindBlock, FindCompetingBlock, Reorganise, redisVars
  <2>2. \A r \in matured : /\ height'[r.block] = height[r.block]
                           /\ OnChain(r.block)' <=> OnChain(r.block)
    BY <1>1, <1>2, NetworkKeepsBuried DEF SettledInv, SettledDeep
  <2>3. SettledDeep'
    BY <1>1, <2>1, <2>2 DEF SettledInv, SettledDeep
  <2>4. SettledMatchesChain'
    BY <2>1, <2>2 DEF SettledInv, SettledMatchesChain, OnChain
  <2> QED BY <2>3, <2>4 DEF SettledInv
<1>3. ASSUME UNCHANGED <<matured, tip, height, chain>> PROVE SettledInv'
  BY <1>3 DEF SettledInv, SettledDeep, SettledMatchesChain
<1>4. ASSUME NEW b \in Blocks, NEW orphan \in BOOLEAN, MoveToMatured(b, orphan),
             UNCHANGED <<tip, height, chain>>,
             height[b] + Depth <= tip, orphan <=> ~OnChain(b)
      PROVE  SettledInv'
  <2>1. \A r : r \in matured' <=> r \in matured \/ r = Row(b, orphan)
    BY <1>4, MovedToMatured DEF TypeOK
  <2>2. Row(b, orphan).block = b /\ Row(b, orphan).orphan = orphan
    BY RowFields
  <2>3. SettledDeep'
    BY <1>4, <2>1, <2>2 DEF SettledInv, SettledDeep
  <2>4. SettledMatchesChain'
    BY <1>4, <2>1, <2>2 DEF SettledInv, SettledMatchesChain, OnChain
  <2> QED BY <2>3, <2>4 DEF SettledInv
<1>5. ASSUME NEW b \in Blocks, WriteMaturedBlock(b) PROVE SettledInv'
  <2>1. height[b] + Depth <= tip /\ OnChain(b)
    BY <1>5 DEF WriteMaturedBlock, Lowest, PassInv, PassVerdicts
  <2>2. MoveToMatured(b, FALSE) /\ UNCHANGED <<tip, height, chain>>
    BY <1>5 DEF WriteMaturedBlock, AfterWrite, chainVars
  <2> QED BY <1>4, <2>1, <2>2
<1>6. ASSUME NEW b \in Blocks, WriteOrphan(b) PROVE SettledInv'
  <2>1. height[b] + Depth <= tip /\ ~OnChain(b)
    BY <1>6 DEF WriteOrphan, Lowest, PassInv, PassVerdicts
  <2>2. MoveToMatured(b, TRUE) /\ UNCHANGED <<tip, height, chain>>
    BY <1>6 DEF WriteOrphan, AfterWrite, chainVars
  <2> QED BY <1>4, <2>1, <2>2
<1>7. ASSUME NEW b \in Blocks, WriteBlock(b) \/ ScanBlock(b) \/ WriteImmatureBlock(b)
      PROVE  SettledInv'
  BY <1>3, <1>7 DEF WriteBlock, ScanBlock, WriteImmatureBlock, MoveToImmature, AfterWrite,
                    redisVars, chainVars
<1>8. CASE GetPendingBlock \/ GetRows \/ WritePendingOrphans \/ CallFails \/ UNCHANGED vars
  BY <1>3, <1>8 DEF GetPendingBlock, GetRows, WritePendingOrphans, MoveToImmature, AfterWrite,
                    CallFails, vars, redisVars, chainVars
<1>9. ASSUME NEW c \in Configs, Restart(c) PROVE SettledInv'
  BY <1>3, <1>9 DEF Restart, redisVars, chainVars
<1> QED
  BY <1>2, <1>5, <1>6, <1>7, <1>8, <1>9 DEF Next, UnlockerStep

-----------------------------------------------------------------------------
(* Credits.                                                                 *)

CreditInv == ImmatureCreditsNeedRow /\ CreditsMatchOutcome

\* What is shared out is a map from logins to amounts.
LEMMA RewardsAreMap ==
  ASSUME NEW shares, NEW total, NEW reward, NEW extraReward, NEW c
  PROVE  LET r == CalculateRewards(shares, total, reward, extraReward, c)
         IN  r = [l \in DOMAIN r |-> r[l]]
<1> DEFINE split == CalculateRewardsForShares(shares, total, ChargeFee(reward, c.poolFee).left, FeeUnit)
<1>1. split = [l \in DOMAIN split |-> split[l]]
  BY DEF CalculateRewardsForShares
<1>2. ASSUME NEW login, NEW value
      PROVE  LET r == AddTo(split, login, value) IN r = [l \in DOMAIN r |-> r[l]]
  BY DEF AddTo
<1> QED BY <1>1, <1>2 DEF CalculateRewards

\* The first entries of an empty log are what is written to it.
LEMMA LogOnceEmpty ==
  ASSUME NEW r, r = [l \in DOMAIN r |-> r[l]]
  PROVE  LogOnce(NoCredits, r) = r
<1>1. DOMAIN NoCredits = {}
  BY DEF NoCredits
<1> QED BY <1>1 DEF LogOnce

LEMMA CreditStep == TypeOK /\ RowInv /\ PassInv /\ CreditInv /\ [Next]_vars => CreditInv'
<1> SUFFICES ASSUME TypeOK, RowInv, PassInv, CreditInv, [Next]_vars PROVE CreditInv'
  OBVIOUS
<1>1. ASSUME UNCHANGED <<immature, matured, creditsImmature, credits>> PROVE CreditInv'
  BY <1>1 DEF CreditInv, ImmatureCreditsNeedRow, CreditsMatchOutcome
<1>2. ASSUME NEW B \in SUBSET Blocks, NEW orphan \in BOOLEAN, MoveToImmature(B, orphan),
             UNCHANGED credits,
             \A b \in Blocks : creditsImmature'[b] = creditsImmature[b] \/ (b \in B /\ ~orphan)
      PROVE  CreditInv'
  <2>1. matured' = matured /\ immature \subseteq immature'
    BY <1>2 DEF MoveToImmature
  <2>2. \A b \in B : Row(b, orphan) \in immature'
    BY <1>2 DEF MoveToImmature
  <2>3. ImmatureCreditsNeedRow'
    BY <1>2, <2>1, <2>2 DEF CreditInv, ImmatureCreditsNeedRow
  <2> QED BY <1>2, <2>1, <2>3 DEF CreditInv, CreditsMatchOutcome
<1>3. CASE WritePendingOrphans
  <2>1. orphanedBlocks \in SUBSET Blocks
    BY DEF TypeOK
  <2> QED BY <1>2, <1>3, <2>1 DEF WritePendingOrphans, ledgerVars
<1>4. ASSUME NEW b \in Blocks, WriteImmatureBlock(b) PROVE CreditInv'
  <2>1. \A c \in Blocks : c # b => creditsImmature'[c] = creditsImmature[c]
    BY <1>4 DEF WriteImmatureBlock, TypeOK
  <2> QED BY <1>2, <1>4, <2>1 DEF WriteImmatureBlock
<1>5. ASSUME NEW b \in BlocksOf(immature), NEW orphan \in BOOLEAN, MoveToMatured(b, orphan),
             creditsImmature'[b] = NoCredits,
             \A c \in Blocks : c # b => creditsImmature'[c] = creditsImmature[c]
      PROVE  /\ ImmatureCreditsNeedRow'
             /\ \A c \in Blocks : Row(c, FALSE) \in matured'
                                    <=> Row(c, FALSE) \in matured \/ (c = b /\ ~orphan)
             /\ Row(b, FALSE) \notin matured
  <2>1. b \in Blocks
    BY DEF TypeOK, BlocksOf, Rows
  <2>2. \A r : /\ r \in immature' <=> r \in immature /\ r.block # b
               /\ r \in matured' <=> r \in matured \/ r = Row(b, orphan)
    BY <1>5, <2>1, MovedToMatured DEF TypeOK
  <2>3. \A c : Row(c, FALSE).block = c
    BY RowFields
  <2>6. \A c : Row(c, FALSE) = Row(b, orphan) <=> c = b /\ ~orphan
    <3>1. CASE orphan = TRUE
      BY <3>1, RowsDiffer
    <3>2. CASE orphan = FALSE
      BY <3>2, RowsEqual
    <3> QED BY <3>1, <3>2
  <2>4. ImmatureCreditsNeedRow'
    BY <1>5, <2>2, <2>3 DEF CreditInv, ImmatureCreditsNeedRow
  <2>5. Row(b, FALSE) \notin matured
    <3>1. Row(b, FALSE) \in matured => Row(b, FALSE).block \in BlocksOf(matured)
      BY DEF BlocksOf
    <3> QED BY <2>3, <3>1 DEF RowInv, OneRow
  <2> QED BY <2>2, <2>4, <2>5, <2>6
<1>6. ASSUME NEW b \in Blocks, WriteMaturedBlock(b) PROVE CreditInv'
  <2>1. b \in BlocksOf(immature)
    BY <1>6 DEF WriteMaturedBlock, Lowest, PassInv, PassLists, Waiting
  <2>2. MoveToMatured(b, FALSE)
    BY <1>6 DEF WriteMaturedBlock
  <2>3. /\ creditsImmature'[b] = NoCredits
        /\ \A c \in Blocks : c # b => creditsImmature'[c] = creditsImmature[c]
    BY <1>6 DEF WriteMaturedBlock, DelLog, TypeOK
  <2>4. /\ ImmatureCreditsNeedRow'
        /\ \A c \in Blocks : Row(c, FALSE) \in matured' <=> Row(c, FALSE) \in matured \/ c = b
        /\ Row(b, FALSE) \notin matured
    BY <1>5, <2>1, <2>2, <2>3
  <2>5. RoundRewards(b) = FullRewards(b, config)
    BY <2>1 DEF RowInv, RoundsKept, RoundRewards, GetRoundShares, FullRewards
  <2>6. FullRewards(b, config) = [l \in DOMAIN FullRewards(b, config) |-> FullRewards(b, config)[l]]
    BY RewardsAreMap DEF FullRewards
  <2>7. credits[b] = NoCredits
    BY <2>4 DEF CreditInv, CreditsMatchOutcome
  <2>8. credits' = [credits EXCEPT ![b] = LogOnce(credits[b], RoundRewards(b))]
    BY <1>6 DEF WriteMaturedBlock
  <2>9. credits'[b] = FullRewards(b, config)
    BY <2>5, <2>6, <2>7, <2>8, LogOnceEmpty DEF TypeOK
  <2>10. \A c \in Blocks : c # b => credits'[c] = credits[c]
    BY <2>8 DEF TypeOK
  <2>11. CreditsMatchOutcome'
    BY <2>4, <2>9, <2>10 DEF CreditInv, CreditsMatchOutcome, TypeOK
  <2> QED BY <2>4, <2>11 DEF CreditInv
<1>7. ASSUME NEW b \in Blocks, WriteOrphan(b) PROVE CreditInv'
  <2>1. b \in BlocksOf(immature)
    BY <1>7 DEF WriteOrphan, Lowest, PassInv, PassLists, Waiting
  <2>2. MoveToMatured(b, TRUE) /\ UNCHANGED credits
    BY <1>7 DEF WriteOrphan
  <2>3. CASE Row(b, TRUE) \in immature
    <3>1. Row(b, FALSE) \notin immature
      <4>1. Row(b, TRUE).block = Row(b, FALSE).block
        BY DEF Row
      <4>2. Row(b, TRUE) # Row(b, FALSE)
        BY RowsDiffer
      <4>3. \A r, q \in immature : r.block = q.block => r = q
        BY DEF RowInv, OneRow
      <4> QED BY <2>3, <4>1, <4>2, <4>3
    <3>2. creditsImmature' = creditsImmature /\ creditsImmature[b] = NoCredits
      BY <1>7, <2>3, <3>1 DEF WriteOrphan, CreditInv, ImmatureCreditsNeedRow
    <3>3. /\ ImmatureCreditsNeedRow'
          /\ \A c \in Blocks : Row(c, FALSE) \in matured' <=> Row(c, FALSE) \in matured
      BY <1>5, <2>1, <2>2, <3>2
    <3> QED BY <2>2, <3>3 DEF CreditInv, CreditsMatchOutcome
  <2>4. CASE Row(b, TRUE) \notin immature
    <3>1. /\ creditsImmature'[b] = NoCredits
          /\ \A c \in Blocks : c # b => creditsImmature'[c] = creditsImmature[c]
      BY <1>7, <2>4 DEF WriteOrphan, DelLog, TypeOK
    <3>2. /\ ImmatureCreditsNeedRow'
          /\ \A c \in Blocks : Row(c, FALSE) \in matured' <=> Row(c, FALSE) \in matured
      BY <1>5, <2>1, <2>2, <3>1
    <3> QED BY <2>2, <3>2 DEF CreditInv, CreditsMatchOutcome
  <2> QED BY <2>3, <2>4
<1>8. ASSUME NEW b \in Blocks,
             FindBlock(b) \/ FindCompetingBlock(b) \/ WriteBlock(b) \/ ScanBlock(b)
      PROVE  CreditInv'
  BY <1>1, <1>8 DEF FindBlock, FindCompetingBlock, WriteBlock, ScanBlock, redisVars, ledgerVars
<1>9. ASSUME NEW k \in 0..MaxReorg,
             NEW new \in [tip + 1 - k .. tip + 1 -> Blocks \cup {Foreign}],
             Reorganise(k, new)
      PROVE  CreditInv'
  BY <1>1, <1>9 DEF Reorganise, redisVars, ledgerVars
<1>10. CASE GetPendingBlock \/ GetRows \/ CallFails \/ UNCHANGED vars
  BY <1>1, <1>10 DEF GetPendingBlock, GetRows, CallFails, vars, redisVars, ledgerVars
<1>11. ASSUME NEW c \in Configs, Restart(c) PROVE CreditInv'
  BY <1>1, <1>11 DEF Restart, redisVars, ledgerVars
<1> QED
  BY <1>3, <1>4, <1>6, <1>7, <1>8, <1>9, <1>10, <1>11 DEF Next, UnlockerStep

-----------------------------------------------------------------------------
(* The theorems.                                                            *)

LEMMA InitInv == Init => IInv
<1> SUFFICES ASSUME Init PROVE IInv
  OBVIOUS
<1>1. TypeOK
  BY InitTypes
<1>2. BlocksOf({}) = {}
  BY DEF BlocksOf
<1>3. OneRow /\ RoundsKept /\ PassLists /\ PassVerdicts
  BY <1>2 DEF Init, OneRow, RoundsKept, PassLists, PassVerdicts, Waiting
<1>4. Recorded
  BY <1>2 DEF Init, Recorded
<1>5. SettledDeep /\ SettledMatchesChain /\ ImmatureCreditsNeedRow
  BY DEF Init, SettledDeep, SettledMatchesChain, ImmatureCreditsNeedRow
<1>6. CreditsMatchOutcome
  BY DEF Init, CreditsMatchOutcome
<1> QED BY <1>1, <1>3, <1>4, <1>5, <1>6 DEF IInv

LEMMA StepInv == IInv /\ [Next]_vars => IInv'
BY TypeStep, RowStep, PassStep, SettledStep, CreditStep
   DEF IInv, RowInv, PassInv, SettledInv, CreditInv

LEMMA Inductive == Spec => []IInv
<1>1. Init => IInv
  BY InitInv
<1>2. IInv /\ [Next]_vars => IInv'
  BY StepInv
<1> QED BY <1>1, <1>2, PTL DEF Spec

\* A block is paid exactly when the chain that stays has it: whenever no
\* reorganisation is deeper than config.Depth (unlockAndCreditMiners).
THEOREM SettledAgrees == Spec => []SettledMatchesChain
<1>1. IInv => SettledMatchesChain
  BY DEF IInv
<1> QED BY <1>1, Inductive, PTL

\* A matured round is credited as a whole, any other round not at all, with
\* crashes, lost replies and new configurations between the two passes.
THEOREM CreditsAgree == Spec => []CreditsMatchOutcome
<1>1. IInv => CreditsMatchOutcome
  BY DEF IInv
<1> QED BY <1>1, Inductive, PTL

\* An immature credit log belongs to a block that is still immature.
THEOREM ImmatureLogsLive == Spec => []ImmatureCreditsNeedRow
<1>1. IInv => ImmatureCreditsNeedRow
  BY DEF IInv
<1> QED BY <1>1, Inductive, PTL

-----------------------------------------------------------------------------
(* Settling is final.                                                       *)

FinalStep == \A r \in matured : r \in matured' /\ credits'[r.block] = credits[r.block]

LEMMA FinalInStep == IInv /\ [Next]_vars => [FinalStep]_vars
<1> SUFFICES ASSUME IInv, [Next]_vars PROVE [FinalStep]_vars
  OBVIOUS
<1>1. ASSUME UNCHANGED <<matured, credits>> PROVE FinalStep
  BY <1>1 DEF FinalStep
<1>2. ASSUME NEW b \in Blocks, WriteMaturedBlock(b) PROVE FinalStep
  <2>1. \A r \in matured : r.block # b /\ r.block \in Blocks
    <3>1. b \in BlocksOf(immature)
      <4>1. phase = "mature" /\ b \in maturedBlocks
        BY <1>2 DEF WriteMaturedBlock, Lowest
      <4>2. maturedBlocks \subseteq Waiting
        BY DEF IInv, PassLists
      <4> QED BY <4>1, <4>2 DEF Waiting
    <3>2. BlocksOf(immature) \cap BlocksOf(matured) = {}
      BY DEF IInv, OneRow
    <3>3. \A r \in matured : r.block \in BlocksOf(matured)
      BY DEF BlocksOf
    <3>4. \A r \in matured : r.block \in Blocks
      BY DEF IInv, TypeOK, Rows
    <3> QED BY <3>1, <3>2, <3>3, <3>4
  <2>2. \A c \in Blocks : c # b => credits'[c] = credits[c]
    BY <1>2 DEF WriteMaturedBlock, IInv, TypeOK
  <2>3. matured \subseteq matured'
    BY <1>2 DEF WriteMaturedBlock, MoveToMatured
  <2> QED BY <2>1, <2>2, <2>3 DEF FinalStep
<1>3. ASSUME NEW b \in Blocks, WriteOrphan(b) PROVE FinalStep
  BY <1>3 DEF WriteOrphan, MoveToMatured, FinalStep
<1>4. ASSUME NEW b \in Blocks,
             FindBlock(b) \/ FindCompetingBlock(b) \/ WriteBlock(b) \/ ScanBlock(b)
               \/ WriteImmatureBlock(b)
      PROVE  FinalStep
  BY <1>1, <1>4 DEF FindBlock, FindCompetingBlock, WriteBlock, ScanBlock, WriteImmatureBlock,
                    MoveToImmature, redisVars, ledgerVars
<1>5. ASSUME NEW k \in 0..MaxReorg,
             NEW new \in [tip + 1 - k .. tip + 1 -> Blocks \cup {Foreign}],
             Reorganise(k, new)
      PROVE  FinalStep
  BY <1>1, <1>5 DEF Reorganise, redisVars, ledgerVars
<1>6. CASE GetPendingBlock \/ GetRows \/ WritePendingOrphans \/ CallFails
  BY <1>1, <1>6 DEF GetPendingBlock, GetRows, WritePendingOrphans, MoveToImmature, CallFails,
                    redisVars, ledgerVars
<1>7. ASSUME NEW c \in Configs, Restart(c) PROVE FinalStep
  BY <1>1, <1>7 DEF Restart, redisVars, ledgerVars
<1> QED
  BY <1>2, <1>3, <1>4, <1>5, <1>6, <1>7 DEF Next, UnlockerStep

\* A settled row and its credits are never touched again (writeMaturedBlock).
THEOREM SettlingIsFinal == Spec => SettledIsFinal
<1>1. IInv /\ [Next]_vars => [FinalStep]_vars
  BY FinalInStep
<1> QED BY <1>1, Inductive, PTL DEF Spec, SettledIsFinal, FinalStep

-----------------------------------------------------------------------------
(* The unlocker implements the life cycle of a block.                       *)

\* With one row for each block, a block is in one stage at a time.
LEMMA StageValues ==
  OneRow =>
    \A b \in Blocks :
      /\ b \in candidates => Stage[b] = {"candidate"}
      /\ Row(b, FALSE) \in immature => Stage[b] = {"immature"}
      /\ Row(b, TRUE) \in immature => Stage[b] = {"pendingOrphan"}
      /\ Row(b, FALSE) \in matured => Stage[b] = {"matured"}
      /\ Row(b, TRUE) \in matured => Stage[b] = {"orphan"}
      /\ b \notin candidates \cup BlocksOf(immature) \cup BlocksOf(matured) => Stage[b] = {}
<1> SUFFICES ASSUME OneRow, NEW b \in Blocks
    PROVE  /\ b \in candidates => Stage[b] = {"candidate"}
           /\ Row(b, FALSE) \in immature => Stage[b] = {"immature"}
           /\ Row(b, TRUE) \in immature => Stage[b] = {"pendingOrphan"}
           /\ Row(b, FALSE) \in matured => Stage[b] = {"matured"}
           /\ Row(b, TRUE) \in matured => Stage[b] = {"orphan"}
           /\ b \notin candidates \cup BlocksOf(immature) \cup BlocksOf(matured) => Stage[b] = {}
  OBVIOUS
<1>1. Row(b, TRUE).block = b /\ Row(b, FALSE).block = b /\ Row(b, TRUE) # Row(b, FALSE)
  BY RowFields, RowsDiffer
<1>2. /\ Row(b, TRUE) \in immature \/ Row(b, FALSE) \in immature => b \in BlocksOf(immature)
      /\ Row(b, TRUE) \in matured \/ Row(b, FALSE) \in matured => b \in BlocksOf(matured)
  BY <1>1 DEF BlocksOf
<1>3. /\ ~(Row(b, TRUE) \in immature /\ Row(b, FALSE) \in immature)
      /\ ~(Row(b, TRUE) \in matured /\ Row(b, FALSE) \in matured)
  BY <1>1 DEF OneRow
<1>4. /\ ~(b \in candidates /\ b \in BlocksOf(immature))
      /\ ~(b \in candidates /\ b \in BlocksOf(matured))
      /\ ~(b \in BlocksOf(immature) /\ b \in BlocksOf(matured))
  BY DEF OneRow
<1>5. Stage[b] =
        {s \in {"candidate", "immature", "pendingOrphan", "matured", "orphan"} :
           \/ s = "candidate"     /\ b \in candidates
           \/ s = "immature"      /\ Row(b, FALSE) \in immature
           \/ s = "pendingOrphan" /\ Row(b, TRUE) \in immature
           \/ s = "matured"       /\ Row(b, FALSE) \in matured
           \/ s = "orphan"        /\ Row(b, TRUE) \in matured}
  BY DEF Stage
<1> QED BY <1>2, <1>3, <1>4, <1>5

LEMMA StageUnchanged ==
  ASSUME UNCHANGED <<candidates, immature, matured>>
  PROVE  Stage' = Stage
BY DEF Stage

\* Only the blocks of B move, all to stage st.
LEMMA StageMoves ==
  ASSUME NEW B \in SUBSET Blocks, NEW st,
         \A c \in Blocks \ B : /\ c \in candidates' <=> c \in candidates
                               /\ Row(c, TRUE) \in immature' <=> Row(c, TRUE) \in immature
                               /\ Row(c, FALSE) \in immature' <=> Row(c, FALSE) \in immature
                               /\ Row(c, TRUE) \in matured' <=> Row(c, TRUE) \in matured
                               /\ Row(c, FALSE) \in matured' <=> Row(c, FALSE) \in matured,
         \A b \in B : Stage'[b] = st
  PROVE  /\ Stage' = [c \in Blocks |-> IF c \in B THEN st ELSE Stage[c]]
         /\ \A b \in Blocks : B = {b} => Stage' = [Stage EXCEPT ![b] = st]
<1>1. ASSUME NEW c \in Blocks \ B PROVE Stage'[c] = Stage[c]
  <2>1. Stage'[c] =
          {s \in {"candidate", "immature", "pendingOrphan", "matured", "orphan"} :
             \/ s = "candidate"     /\ c \in candidates'
             \/ s = "immature"      /\ Row(c, FALSE) \in immature'
             \/ s = "pendingOrphan" /\ Row(c, TRUE) \in immature'
             \/ s = "matured"       /\ Row(c, FALSE) \in matured'
             \/ s = "orphan"        /\ Row(c, TRUE) \in matured'}
    BY DEF Stage
  <2>2. Stage[c] =
          {s \in {"candidate", "immature", "pendingOrphan", "matured", "orphan"} :
             \/ s = "candidate"     /\ c \in candidates
             \/ s = "immature"      /\ Row(c, FALSE) \in immature
             \/ s = "pendingOrphan" /\ Row(c, TRUE) \in immature
             \/ s = "matured"       /\ Row(c, FALSE) \in matured
             \/ s = "orphan"        /\ Row(c, TRUE) \in matured}
    BY DEF Stage
  <2> QED BY <2>1, <2>2
<1>2. Stage' = [c \in Blocks |-> Stage'[c]] /\ Stage = [c \in Blocks |-> Stage[c]]
  BY DEF Stage
<1> HIDE DEF Stage
<1>3. \A c \in Blocks : Stage'[c] = IF c \in B THEN st ELSE Stage[c]
  BY <1>1
<1>4. Stage' = [c \in Blocks |-> IF c \in B THEN st ELSE Stage[c]]
  BY <1>2, <1>3
<1>5. ASSUME NEW b \in Blocks, B = {b} PROVE Stage' = [Stage EXCEPT ![b] = st]
  <2>1. [Stage EXCEPT ![b] = st] = [c \in Blocks |-> IF c \in B THEN st ELSE Stage[c]]
    BY <1>2, <1>5
  <2> QED BY <1>4, <2>1
<1> QED BY <1>4, <1>5

LEMMA LifecycleInit == Init => Lifecycle!Init
<1> SUFFICES ASSUME Init PROVE Stage = [b \in Blocks |-> {}]
  BY DEF Lifecycle!Init
<1> QED BY DEF Init, Stage

LEMMA LifecycleStep == IInv /\ IInv' /\ [Next]_vars => [Lifecycle!Next]_Stage
<1> SUFFICES ASSUME IInv, IInv', [Next]_vars PROVE Lifecycle!Next \/ Stage' = Stage
  OBVIOUS
<1>1. \A b \in Blocks :
        /\ b \in candidates => Stage[b] = {"candidate"}
        /\ Row(b, FALSE) \in immature => Stage[b] = {"immature"}
        /\ Row(b, TRUE) \in immature => Stage[b] = {"pendingOrphan"}
        /\ b \notin candidates \cup BlocksOf(immature) \cup BlocksOf(matured) => Stage[b] = {}
  BY StageValues DEF IInv
<1>2. (OneRow =>
         \A b \in Blocks :
           /\ b \in candidates => Stage[b] = {"candidate"}
           /\ Row(b, FALSE) \in immature => Stage[b] = {"immature"}
           /\ Row(b, TRUE) \in immature => Stage[b] = {"pendingOrphan"}
           /\ Row(b, FALSE) \in matured => Stage[b] = {"matured"}
           /\ Row(b, TRUE) \in matured => Stage[b] = {"orphan"}
           /\ b \notin candidates \cup BlocksOf(immature) \cup BlocksOf(matured) => Stage[b] = {})'
  BY StageValues, PTL
<1>3. \A b \in Blocks :
        /\ b \in candidates' => Stage'[b] = {"candidate"}
        /\ Row(b, FALSE) \in immature' => Stage'[b] = {"immature"}
        /\ Row(b, TRUE) \in immature' => Stage'[b] = {"pendingOrphan"}
        /\ Row(b, FALSE) \in matured' => Stage'[b] = {"matured"}
        /\ Row(b, TRUE) \in matured' => Stage'[b] = {"orphan"}
  BY <1>2 DEF IInv
<1>4. /\ candidates \subseteq Blocks /\ BlocksOf(immature) \subseteq Blocks
      /\ immature \in SUBSET Rows /\ matured \in SUBSET Rows
  BY DEF IInv, TypeOK, BlocksOf, Rows
<1>5. \A c : Row(c, TRUE).block = c /\ Row(c, FALSE).block = c
  BY RowFields
<1>6. ASSUME NEW b \in Blocks, WriteBlock(b) PROVE Lifecycle!Next
  <2>1. /\ b \notin candidates \cup BlocksOf(immature) \cup BlocksOf(matured)
        /\ candidates' = candidates \cup {b} /\ UNCHANGED <<immature, matured>>
    BY <1>6 DEF WriteBlock
  <2>2. Stage[b] = {} /\ Stage'[b] = {"candidate"}
    BY <1>1, <1>3, <2>1
  <2>3. Stage' = [Stage EXCEPT ![b] = {"candidate"}]
    BY <2>1, <2>2, StageMoves
  <2> QED BY <2>2, <2>3 DEF Lifecycle!Next, Lifecycle!Record
<1>7. CASE WritePendingOrphans
  <2>1. orphanedBlocks \subseteq candidates
    BY <1>7 DEF WritePendingOrphans, IInv, PassLists, Waiting
  <2>2. MoveToImmature(orphanedBlocks, TRUE)
    BY <1>7 DEF WritePendingOrphans
  <2>3. /\ candidates' = candidates \ orphanedBlocks /\ matured' = matured
        /\ \A r : r \in immature' <=>
                    r \in immature \/ (r.block \in orphanedBlocks /\ r = Row(r.block, TRUE))
    BY <1>4, <2>1, <2>2, MovedToImmature
  <2>4. \A b \in orphanedBlocks : Stage[b] = {"candidate"} /\ Stage'[b] = {"pendingOrphan"}
    <3> SUFFICES ASSUME NEW b \in orphanedBlocks
        PROVE  Stage[b] = {"candidate"} /\ Stage'[b] = {"pendingOrphan"}
      OBVIOUS
    <3>1. b \in Blocks /\ b \in candidates
      BY <1>4, <2>1
    <3>2. Row(b, TRUE) \in immature'
      BY <1>5, <2>3
    <3> QED BY <1>1, <1>3, <3>1, <3>2
  <2>5. \A c \in Blocks \ orphanedBlocks :
          /\ c \in candidates' <=> c \in candidates
          /\ Row(c, TRUE) \in immature' <=> Row(c, TRUE) \in immature
          /\ Row(c, FALSE) \in immature' <=> Row(c, FALSE) \in immature
    <3> SUFFICES ASSUME NEW c \in Blocks \ orphanedBlocks
        PROVE  /\ c \in candidates' <=> c \in candidates
               /\ Row(c, TRUE) \in immature' <=> Row(c, TRUE) \in immature
               /\ Row(c, FALSE) \in immature' <=> Row(c, FALSE) \in immature
      OBVIOUS
    <3>1. Row(c, TRUE).block \notin orphanedBlocks /\ Row(c, FALSE).block \notin orphanedBlocks
      BY <1>5
    <3> QED BY <2>3, <3>1
  <2>6. orphanedBlocks \in SUBSET Blocks
    BY <1>4, <2>1
  <2>7. Stage' = [c \in Blocks |-> IF c \in orphanedBlocks THEN {"pendingOrphan"} ELSE Stage[c]]
    <3>1. \A c \in Blocks \ orphanedBlocks :
            /\ c \in candidates' <=> c \in candidates
            /\ Row(c, TRUE) \in immature' <=> Row(c, TRUE) \in immature
            /\ Row(c, FALSE) \in immature' <=> Row(c, FALSE) \in immature
            /\ Row(c, TRUE) \in matured' <=> Row(c, TRUE) \in matured
            /\ Row(c, FALSE) \in matured' <=> Row(c, FALSE) \in matured
      BY <2>3, <2>5
    <3>2. \A b \in orphanedBlocks : Stage'[b] = {"pendingOrphan"}
      BY <2>4
    <3> QED BY <2>6, <3>1, <3>2, StageMoves
  <2>8. Lifecycle!JudgePendingOrphans(orphanedBlocks)
    BY <2>4, <2>7 DEF Lifecycle!JudgePendingOrphans
  <2> QED BY <2>6, <2>8 DEF Lifecycle!Next
<1>8. ASSUME NEW b \in Blocks, WriteImmatureBlock(b) PROVE Lifecycle!Next
  <2>1. b \in candidates
    BY <1>8 DEF WriteImmatureBlock, Lowest, IInv, PassLists, Waiting
  <2>2. MoveToImmature({b}, FALSE)
    BY <1>8 DEF WriteImmatureBlock
  <2>3. /\ candidates' = candidates \ {b} /\ matured' = matured
        /\ \A r : r \in immature' <=> r \in immature \/ (r.block \in {b} /\ r = Row(r.block, FALSE))
    <3>1. {b} \in SUBSET Blocks /\ FALSE \in BOOLEAN
      OBVIOUS
    <3> HIDE <1>8
    <3> QED BY <1>4, <2>2, <3>1, MovedToImmature
  <2>4. Stage[b] = {"candidate"} /\ Stage'[b] = {"immature"}
    BY <1>1, <1>3, <1>5, <2>1, <2>3
  <2>5. \A c \in Blocks \ {b} :
          /\ c \in candidates' <=> c \in candidates
          /\ Row(c, TRUE) \in immature' <=> Row(c, TRUE) \in immature
          /\ Row(c, FALSE) \in immature' <=> Row(c, FALSE) \in immature
    <3> SUFFICES ASSUME NEW c \in Blocks \ {b}
        PROVE  /\ c \in candidates' <=> c \in candidates
               /\ Row(c, TRUE) \in immature' <=> Row(c, TRUE) \in immature
               /\ Row(c, FALSE) \in immature' <=> Row(c, FALSE) \in immature
      OBVIOUS
    <3>1. Row(c, TRUE).block \notin {b} /\ Row(c, FALSE).block \notin {b}
      BY <1>5
    <3> QED BY <2>3, <3>1
  <2>6. Stage' = [Stage EXCEPT ![b] = {"immature"}]
    BY <2>3, <2>4, <2>5, StageMoves
  <2> QED BY <2>4, <2>6 DEF Lifecycle!Next, Lifecycle!JudgeImmature
<1>9. ASSUME NEW b \in BlocksOf(immature)
      PROVE  Stage[b] \in {{"immature"}, {"pendingOrphan"}}
  <2>1. PICK r \in immature : r.block = b
    BY DEF BlocksOf
  <2>2. r = Row(b, TRUE) \/ r = Row(b, FALSE)
    BY <1>4, <2>1, RowCases
  <2> QED BY <1>1, <1>4, <2>1, <2>2
<1>10. ASSUME NEW b \in Blocks, WriteMaturedBlock(b) PROVE Lifecycle!Next
  <2>1. b \in BlocksOf(immature)
    BY <1>10 DEF WriteMaturedBlock, Lowest, IInv, PassLists, Waiting
  <2>2. MoveToMatured(b, FALSE)
    BY <1>10 DEF WriteMaturedBlock
  <2>3. /\ candidates' = candidates
        /\ \A r : r \in immature' <=> r \in immature /\ r.block # b
        /\ \A r : r \in matured' <=> r \in matured \/ r = Row(b, FALSE)
    BY <1>4, <2>2, MovedToMatured
  <2>4. Stage'[b] = {"matured"}
    BY <1>3, <2>3
  <2>5. Stage' = [Stage EXCEPT ![b] = {"matured"}]
    BY <1>5, <2>3, <2>4, StageMoves
  <2>6. Lifecycle!Settle(b, "matured")
    BY <1>9, <2>1, <2>5 DEF Lifecycle!Settle
  <2> QED BY <2>6 DEF Lifecycle!Next, Lifecycle!Settled
<1>11. ASSUME NEW b \in Blocks, WriteOrphan(b) PROVE Lifecycle!Next
  <2>1. b \in BlocksOf(immature)
    BY <1>11 DEF WriteOrphan, Lowest, IInv, PassLists, Waiting
  <2>2. MoveToMatured(b, TRUE)
    BY <1>11 DEF WriteOrphan
  <2>3. /\ candidates' = candidates
        /\ \A r : r \in immature' <=> r \in immature /\ r.block # b
        /\ \A r : r \in matured' <=> r \in matured \/ r = Row(b, TRUE)
    BY <1>4, <2>2, MovedToMatured
  <2>4. Stage'[b] = {"orphan"}
    BY <1>3, <2>3
  <2>5. Stage' = [Stage EXCEPT ![b] = {"orphan"}]
    BY <1>5, <2>3, <2>4, StageMoves
  <2>6. Lifecycle!Settle(b, "orphan")
    BY <1>9, <2>1, <2>5 DEF Lifecycle!Settle
  <2> QED BY <2>6 DEF Lifecycle!Next, Lifecycle!Settled
<1>12. ASSUME NEW b \in Blocks, FindBlock(b) \/ FindCompetingBlock(b) \/ ScanBlock(b)
       PROVE  Stage' = Stage
  BY <1>12, StageUnchanged DEF FindBlock, FindCompetingBlock, ScanBlock, redisVars
<1>13. ASSUME NEW k \in 0..MaxReorg,
              NEW new \in [tip + 1 - k .. tip + 1 -> Blocks \cup {Foreign}],
              Reorganise(k, new)
       PROVE  Stage' = Stage
  BY <1>13, StageUnchanged DEF Reorganise, redisVars
<1>14. CASE GetPendingBlock \/ GetRows \/ CallFails \/ UNCHANGED vars
  BY <1>14, StageUnchanged DEF GetPendingBlock, GetRows, CallFails, vars, redisVars
<1>15. ASSUME NEW c \in Configs, Restart(c) PROVE Stage' = Stage
  BY <1>15, StageUnchanged DEF Restart, redisVars
<1> QED
  BY <1>6, <1>7, <1>8, <1>10, <1>11, <1>12, <1>13, <1>14, <1>15 DEF Next, UnlockerStep

\* Every behaviour of the unlocker is a behaviour of the life cycle: found,
\* candidate, judged twice, settled, with one row for a block at a time.
THEOREM LifecycleImplemented == Spec => ImplementsLifecycle
<1>1. Init => Lifecycle!Init
  BY LifecycleInit
<1>2. IInv /\ IInv' /\ [Next]_vars => [Lifecycle!Next]_Stage
  BY LifecycleStep
<1> QED BY <1>1, <1>2, Inductive, PTL DEF Spec, ImplementsLifecycle, Lifecycle!Spec

-----------------------------------------------------------------------------
(* The ledgers: the balances are the sums of the credit logs.               *)

\* A map from logins to satoshis.
IsCredits(map) == DOMAIN map \subseteq Logins /\ \A l \in DOMAIN map : map[l] \in Int

\* The balances are what the logs add up to, and total is what they add up to.
Balanced(logs, balances, total) ==
  /\ DOMAIN balances = Logins
  /\ \A b \in Blocks : IsCredits(logs[b])
  /\ \A l \in Logins : balances[l] = SumFunction([b \in Blocks |-> Amount(logs[b], l)])
  /\ total = SumFunction(balances)

LEMMA CreditsSum ==
  ASSUME NEW map, IsCredits(map)
  PROVE  /\ SumFunction(map) \in Int
         /\ SumFunctionOnSet([l \in Logins |-> Amount(map, l)], Logins) = SumFunction(map)
         /\ \A l : Amount(map, l) \in Int
<1> DEFINE amounts == [l \in Logins |-> Amount(map, l)]
<1>1. IsFiniteSet(Logins) /\ DOMAIN map \subseteq Logins /\ IsFiniteSet(DOMAIN map)
  BY MoneyAssumption, FS_Subset DEF IsCredits
<1>2. \A l : Amount(map, l) \in Int
  BY DEF Amount, IsCredits
<1>3. /\ \A l \in Logins : amounts[l] \in Int
      /\ \A l \in Logins \ DOMAIN map : amounts[l] = 0
      /\ \A l \in DOMAIN map : amounts[l] = map[l]
  BY <1>1, <1>2 DEF Amount
<1> HIDE DEF amounts
<1>4. SumFunctionOnSet(amounts, Logins) = SumFunctionOnSet(amounts, DOMAIN map)
  BY <1>1, <1>3, SumOutside
<1>5. SumFunctionOnSet(amounts, DOMAIN map) = SumFunctionOnSet(map, DOMAIN map)
  BY <1>1, <1>3, SumSame
<1>6. SumFunctionOnSet(map, DOMAIN map) \in Int
  BY <1>1, SumInt DEF IsCredits
<1> QED
  BY <1>2, <1>4, <1>5, <1>6, SumOfAll DEF amounts

LEMMA NoCreditsSum ==
  /\ IsCredits(NoCredits) /\ SumFunction(NoCredits) = 0
  /\ \A l : Amount(NoCredits, l) = 0
<1>1. DOMAIN NoCredits = {}
  BY DEF NoCredits
<1> QED
  BY <1>1, SumOfAll, SumEmpty DEF IsCredits, Amount

LEMMA TakeOver ==
  ASSUME NEW before \in Int, NEW after \in Int, NEW added \in Int, NEW removed \in Int,
         before + added = after + removed
  PROVE  before + added - removed = after
OBVIOUS

\* One log is replaced: the balances move by the difference of the two.
LEMMA LogReplaced ==
  ASSUME NEW logs, NEW balances, NEW total, NEW logs2, NEW balances2, NEW total2,
         NEW b \in Blocks,
         Balanced(logs, balances, total),
         IsCredits(logs2[b]),
         \A c \in Blocks \ {b} : logs2[c] = logs[c],
         DOMAIN balances2 = Logins,
         \A l \in Logins :
           balances2[l] = balances[l] + Amount(logs2[b], l) - Amount(logs[b], l),
         total2 = total + SumFunction(logs2[b]) - SumFunction(logs[b])
  PROVE  Balanced(logs2, balances2, total2)
<1>1. IsFiniteSet(Blocks) /\ IsFiniteSet(Logins)
  BY MoneyAssumption
<1>2. \A c \in Blocks : IsCredits(logs[c]) /\ IsCredits(logs2[c])
  BY DEF Balanced
<1>3. \A c \in Blocks : \A l : Amount(logs[c], l) \in Int /\ Amount(logs2[c], l) \in Int
  BY <1>2, CreditsSum
<1>4. ASSUME NEW l \in Logins
      PROVE  /\ balances2[l] = SumFunction([c \in Blocks |-> Amount(logs2[c], l)])
             /\ balances[l] \in Int
  <2> DEFINE f == [c \in Blocks |-> Amount(logs[c], l)]
             g == [c \in Blocks |-> Amount(logs2[c], l)]
  <2>1. /\ \A c \in Blocks : f[c] \in Int /\ g[c] \in Int
        /\ \A c \in Blocks \ {b} : f[c] = g[c]
        /\ f[b] = Amount(logs[b], l) /\ g[b] = Amount(logs2[b], l)
        /\ DOMAIN f = Blocks /\ DOMAIN g = Blocks
    BY <1>3
  <2>2. balances[l] = SumFunction(f)
    BY DEF Balanced
  <2> HIDE DEF f, g
  <2>3. SumFunctionOnSet(g, Blocks) = SumFunctionOnSet(f, Blocks) + g[b] - f[b]
    BY <1>1, <2>1, SumChange
  <2>4. SumFunctionOnSet(f, Blocks) \in Int
    BY <1>1, <2>1, SumInt
  <2>5. SumFunction(f) = SumFunctionOnSet(f, Blocks) /\ SumFunction(g) = SumFunctionOnSet(g, Blocks)
    BY <2>1, SumOfAll
  <2> QED
    BY <2>1, <2>2, <2>3, <2>4, <2>5 DEF g
<1> DEFINE new == [l \in Logins |-> Amount(logs2[b], l)]
           old == [l \in Logins |-> Amount(logs[b], l)]
           sums == [l \in Logins |-> balances[l] + new[l]]
<1>5. \A l \in Logins :
        /\ balances[l] \in Int /\ balances2[l] \in Int /\ new[l] \in Int /\ old[l] \in Int
        /\ sums[l] \in Int /\ sums[l] = balances[l] + new[l] /\ sums[l] = balances2[l] + old[l]
  <2> SUFFICES ASSUME NEW l \in Logins
      PROVE  /\ balances[l] \in Int /\ balances2[l] \in Int /\ new[l] \in Int /\ old[l] \in Int
             /\ sums[l] \in Int /\ sums[l] = balances[l] + new[l]
             /\ sums[l] = balances2[l] + old[l]
    OBVIOUS
  <2>1. new[l] \in Int /\ old[l] \in Int
    BY <1>3
  <2>2. balances[l] \in Int /\ balances2[l] = balances[l] + new[l] - old[l]
    BY <1>4
  <2>3. sums[l] = balances[l] + new[l]
    OBVIOUS
  <2> HIDE DEF new, old, sums
  <2> QED
    BY <2>1, <2>2, <2>3
<1>6. /\ SumFunctionOnSet(new, Logins) = SumFunction(logs2[b]) /\ SumFunction(logs2[b]) \in Int
      /\ SumFunctionOnSet(old, Logins) = SumFunction(logs[b]) /\ SumFunction(logs[b]) \in Int
  BY <1>2, CreditsSum
<1> HIDE DEF new, old, sums
<1>7. SumFunctionOnSet(sums, Logins) = SumFunctionOnSet(balances, Logins) + SumFunctionOnSet(new, Logins)
  BY <1>1, <1>5, SumPlus
<1>8. SumFunctionOnSet(sums, Logins) = SumFunctionOnSet(balances2, Logins) + SumFunctionOnSet(old, Logins)
  BY <1>1, <1>5, SumPlus
<1>9. SumFunctionOnSet(balances, Logins) \in Int /\ SumFunctionOnSet(balances2, Logins) \in Int
  BY <1>1, <1>5, SumInt
<1>10. total = SumFunctionOnSet(balances, Logins) /\ SumFunction(balances2) = SumFunctionOnSet(balances2, Logins)
  BY SumOfAll DEF Balanced
<1>11. total2 = SumFunction(balances2)
  <2> DEFINE before == SumFunctionOnSet(balances, Logins)
             after == SumFunctionOnSet(balances2, Logins)
             added == SumFunction(logs2[b])
             removed == SumFunction(logs[b])
  <2>1. /\ before \in Int /\ after \in Int /\ added \in Int /\ removed \in Int
        /\ before + added = after + removed
        /\ total2 = before + added - removed
    BY <1>6, <1>7, <1>8, <1>9, <1>10
  <2> HIDE DEF before, after, added, removed
  <2>2. before + added - removed = after
    BY <2>1, TakeOver
  <2>3. total2 = after
    BY Zenon, <2>1, <2>2
  <2> QED
    BY <1>10, <2>3 DEF after
<1> QED
  BY <1>2, <1>4, <1>11 DEF Balanced

LEMMA BooksAreInt ==
  ASSUME NEW logs, NEW balances, NEW total, Balanced(logs, balances, total)
  PROVE  (\A l \in Logins : balances[l] \in Int) /\ total \in Int
<1>1. IsFiniteSet(Blocks) /\ IsFiniteSet(Logins)
  BY MoneyAssumption
<1>2. ASSUME NEW l \in Logins PROVE balances[l] \in Int
  <2> DEFINE f == [b \in Blocks |-> Amount(logs[b], l)]
  <2>1. DOMAIN f = Blocks /\ \A b \in Blocks : f[b] \in Int
    BY CreditsSum DEF Balanced
  <2>2. balances[l] = SumFunction(f)
    BY DEF Balanced
  <2> HIDE DEF f
  <2> QED
    BY <1>1, <2>1, <2>2, SumInt, SumOfAll
<1> QED
  BY <1>1, <1>2, SumInt, SumOfAll DEF Balanced

\* What a round earns is a map from logins to satoshis.
LEMMA RewardsAreCredits ==
  ASSUME TypeOK, NEW b \in Blocks
  PROVE  IsCredits(RoundRewards(b))
<1> DEFINE shares == GetRoundShares(b)
           total == TotalShares(b)
           reward == Reward(CoinBaseValue[b], BlkTotalFee[b], config)
           extra == ExtraReward(BlkTotalFee[b], config)
           left == ChargeFee(reward, config.poolFee).left
           split == CalculateRewardsForShares(shares, total, left, FeeUnit)
           profit == ChargeFee(reward, config.poolFee).fee + extra * FeeUnit
<1>1. /\ config.poolFee \in Int /\ config.keepTxFees \in BOOLEAN
      /\ config.poolFeeAddress \in Logins \cup {NoAddress}
      /\ \A l \in Logins : Lower[l] \in Logins
      /\ FeeUnit \in Nat \ {0}
  BY ConfigAssumption, FeeUnitAssumption DEF TypeOK, IsConfig
<1>2. reward \in Int /\ extra \in Int
  BY MoneyAssumption DEF Reward, ExtraReward
<1> HIDE DEF reward, extra
<1>3. left \in Int /\ profit \in Int
  BY <1>1, <1>2 DEF ChargeFee
<1> HIDE DEF left, profit
<1>4. ASSUME NEW l \in DOMAIN shares
      PROVE  l \in Logins /\ shares[l] \in Int /\ total \in Nat \ {0}
  <2>1. shares = RoundShares[b] /\ IsFiniteSet(DOMAIN RoundShares[b])
    BY <1>4, BlockAssumption, MoneyAssumption, FS_Subset DEF GetRoundShares, NoCredits
  <2>2. DOMAIN RoundShares[b] \subseteq Logins
        /\ \A k \in DOMAIN RoundShares[b] : RoundShares[b][k] \in Nat \ {0}
    BY BlockAssumption
  <2>3. total = SumFunctionOnSet(RoundShares[b], DOMAIN RoundShares[b])
    BY SumOfAll DEF TotalShares
  <2> HIDE DEF total
  <2>4. total \in Nat /\ RoundShares[b][l] <= total
    BY <1>4, <2>1, <2>2, <2>3, SumNat
  <2> QED
    BY <1>4, <2>1, <2>2, <2>4
<1> HIDE DEF shares, total
<1>5. \A num \in Int, den \in Nat \ {0} : FloatString0(num, den) \in Int
  BY DEF FloatString0
<1>6. ASSUME NEW l \in DOMAIN shares PROVE FloatString0(left * shares[l], FeeUnit * total) \in Int
  <2>1. left * shares[l] \in Int /\ FeeUnit * total \in Nat \ {0}
    BY <1>1, <1>3, <1>4
  <2> QED
    BY <1>5, <2>1
<1>7. IsCredits(split)
  BY <1>4, <1>6 DEF CalculateRewardsForShares, IsCredits
<1>8. FloatString0(profit, FeeUnit) \in Int
  BY <1>1, <1>3, <1>5
<1>9. ASSUME NEW v \in Int, NEW a \in Logins PROVE IsCredits(AddTo(split, a, v))
  <2> HIDE DEF split
  <2>1. \A l : Amount(split, l) \in Int
    BY <1>7, CreditsSum
  <2> QED
    BY <1>7, <1>9, <2>1 DEF AddTo, IsCredits
<1>10. RoundRewards(b) = IF config.poolFeeAddress = NoAddress THEN split
                         ELSE AddTo(split, Lower[config.poolFeeAddress], FloatString0(profit, FeeUnit))
  BY DEF RoundRewards, CalculateRewards, shares, total, reward, extra, left, profit
<1> QED
  BY <1>1, <1>7, <1>8, <1>9, <1>10

ImmatureBooks == Balanced(creditsImmature, minerImmature, finances.immature)
BalanceBooks == Balanced(credits, minerBalance, finances.balance)

LEMMA InitBooks == Init => ImmatureBooks /\ BalanceBooks
<1> SUFFICES ASSUME Init PROVE ImmatureBooks /\ BalanceBooks
  OBVIOUS
<1> DEFINE none == [b \in Blocks |-> NoCredits]
           zeros == [l \in Logins |-> 0]
<1>1. /\ creditsImmature = none /\ credits = none
      /\ minerImmature = zeros /\ minerBalance = zeros
      /\ finances.immature = 0 /\ finances.balance = 0
  BY DEF Init
<1>2. SumFunction(zeros) = 0
  <2>1. DOMAIN zeros = Logins /\ \A l \in Logins : zeros[l] = 0
    OBVIOUS
  <2> HIDE DEF zeros
  <2> QED
    BY <2>1, MoneyAssumption, SumZero, SumOfAll
<1>3. ASSUME NEW l \in Logins PROVE SumFunction([b \in Blocks |-> Amount(none[b], l)]) = 0
  <2> DEFINE f == [b \in Blocks |-> Amount(none[b], l)]
  <2>1. DOMAIN f = Blocks /\ \A b \in Blocks : f[b] = 0
    BY NoCreditsSum
  <2> HIDE DEF f
  <2>2. SumFunction(f) = 0
    BY <2>1, MoneyAssumption, SumZero, SumOfAll
  <2> QED
    BY <2>2 DEF f
<1>4. \A b \in Blocks : IsCredits(none[b])
  BY NoCreditsSum
<1>5. \A l \in Logins : zeros[l] = SumFunction([b \in Blocks |-> Amount(none[b], l)])
  BY <1>3
<1>6. DOMAIN zeros = Logins
  OBVIOUS
<1> HIDE DEF none, zeros
<1> QED
  BY <1>1, <1>2, <1>4, <1>5, <1>6 DEF ImmatureBooks, BalanceBooks, Balanced

LEMMA BooksUnchanged ==
  ASSUME UNCHANGED <<creditsImmature, credits, minerImmature, minerBalance, finances>>,
         ImmatureBooks, BalanceBooks
  PROVE  ImmatureBooks' /\ BalanceBooks'
BY DEF ImmatureBooks, BalanceBooks, Balanced

\* The rewards of a block without a log are the whole log once they are written.
LEMMA RewardsWritten ==
  ASSUME TypeOK, NEW b \in Blocks
  PROVE  LogOnce(NoCredits, RoundRewards(b)) = RoundRewards(b)
<1>1. RoundRewards(b) = [l \in DOMAIN RoundRewards(b) |-> RoundRewards(b)[l]]
  BY RewardsAreMap DEF RoundRewards
<1> QED
  BY <1>1, LogOnceEmpty

\* writeImmatureBlock: the first log of the block is added to the immature balances.
LEMMA ImmatureBlockKeepsBooks ==
  ASSUME IInv, ImmatureBooks, BalanceBooks, NEW b \in Blocks, WriteImmatureBlock(b)
  PROVE  ImmatureBooks' /\ BalanceBooks'
<1> DEFINE rewards == RoundRewards(b)
<1>1. creditsImmature[b] = NoCredits
  <2>1. b \in candidates
    BY DEF WriteImmatureBlock, Lowest, IInv, PassLists, Waiting
  <2>2. b \notin BlocksOf(immature)
    BY <2>1 DEF IInv, OneRow
  <2>3. Row(b, FALSE) \notin immature
    BY <2>2, RowFields DEF BlocksOf
  <2> QED
    BY <2>3 DEF IInv, ImmatureCreditsNeedRow
<1>2. TypeOK /\ IsCredits(rewards) /\ LogOnce(NoCredits, rewards) = rewards
  BY RewardsAreCredits, RewardsWritten DEF IInv
<1>3. /\ minerImmature' = IncreaseBy(minerImmature, rewards)
      /\ creditsImmature' = [creditsImmature EXCEPT ![b] = LogOnce(creditsImmature[b], rewards)]
      /\ finances' = FinancesPlus(SumFunction(rewards), 0, 0)
      /\ UNCHANGED <<credits, minerBalance>>
  BY DEF WriteImmatureBlock
<1> HIDE DEF rewards
<1>4. /\ creditsImmature'[b] = rewards
      /\ \A c \in Blocks \ {b} : creditsImmature'[c] = creditsImmature[c]
      /\ DOMAIN minerImmature' = Logins
  BY <1>1, <1>2, <1>3 DEF TypeOK, IncreaseBy
<1>5. SumFunction(rewards) \in Int /\ \A l : Amount(rewards, l) \in Int
  BY <1>2, CreditsSum
<1>6. \A l \in Logins : minerImmature[l] \in Int
  BY BooksAreInt DEF ImmatureBooks
<1>7. finances.immature \in Int /\ finances.balance \in Int
  BY BooksAreInt DEF ImmatureBooks, BalanceBooks
<1>8. \A l \in Logins :
        minerImmature'[l] = minerImmature[l] + Amount(creditsImmature'[b], l) - Amount(creditsImmature[b], l)
  BY <1>1, <1>3, <1>4, <1>5, <1>6, NoCreditsSum DEF IncreaseBy
<1>9. /\ finances'.immature = finances.immature + SumFunction(creditsImmature'[b]) - SumFunction(creditsImmature[b])
      /\ finances'.balance = finances.balance
  BY <1>1, <1>3, <1>4, <1>5, <1>7, NoCreditsSum DEF FinancesPlus
<1>10. ImmatureBooks'
  BY <1>2, <1>4, <1>8, <1>9, LogReplaced DEF ImmatureBooks
<1>11. BalanceBooks'
  BY <1>3, <1>9 DEF BalanceBooks, Balanced
<1> QED
  BY <1>10, <1>11

\* writeMaturedBlock: the immature log is taken off, the final one added.
LEMMA MaturedBlockKeepsBooks ==
  ASSUME IInv, ImmatureBooks, BalanceBooks, ReadErrors = FALSE,
         NEW b \in Blocks, WriteMaturedBlock(b)
  PROVE  ImmatureBooks' /\ BalanceBooks'
<1> DEFINE rewards == RoundRewards(b)
           mined == Reward(CoinBaseValue[b], BlkTotalFee[b], config)
           log == creditsImmature[b]
<1>1. credits[b] = NoCredits
  <2>1. b \in BlocksOf(immature)
    BY DEF WriteMaturedBlock, Lowest, IInv, PassLists, Waiting
  <2>2. b \notin BlocksOf(matured)
    BY <2>1 DEF IInv, OneRow
  <2>3. Row(b, FALSE) \notin matured
    BY <2>2, RowFields DEF BlocksOf
  <2> QED
    BY <2>3 DEF IInv, CreditsMatchOutcome
<1>2. TypeOK /\ IsCredits(rewards) /\ LogOnce(NoCredits, rewards) = rewards
  BY RewardsAreCredits, RewardsWritten DEF IInv
<1>3. /\ minerImmature' = DecreaseBy(minerImmature, log)
      /\ minerBalance' = IncreaseBy(minerBalance, rewards)
      /\ credits' = [credits EXCEPT ![b] = LogOnce(credits[b], rewards)]
      /\ creditsImmature' = DelLog(creditsImmature, b)
      /\ finances' = FinancesPlus(-SumFunction(log), SumFunction(rewards), mined)
  BY DEF WriteMaturedBlock, ReadCreditLog
<1>4. IsCredits(log)
  BY DEF ImmatureBooks, Balanced
<1> HIDE DEF rewards, mined
<1>5. /\ credits'[b] = rewards /\ creditsImmature'[b] = NoCredits
      /\ \A c \in Blocks \ {b} : credits'[c] = credits[c]
      /\ \A c \in Blocks \ {b} : creditsImmature'[c] = creditsImmature[c]
      /\ DOMAIN minerImmature' = Logins /\ DOMAIN minerBalance' = Logins
  BY <1>1, <1>2, <1>3 DEF TypeOK, IncreaseBy, DecreaseBy, DelLog
<1>6. /\ SumFunction(rewards) \in Int /\ \A l : Amount(rewards, l) \in Int
      /\ SumFunction(log) \in Int /\ \A l : Amount(log, l) \in Int
  BY <1>2, <1>4, CreditsSum
<1>7. /\ \A l \in Logins : minerImmature[l] \in Int /\ minerBalance[l] \in Int
      /\ finances.immature \in Int /\ finances.balance \in Int
  BY BooksAreInt DEF ImmatureBooks, BalanceBooks
<1>8. /\ \A l \in Logins :
           minerImmature'[l]
             = minerImmature[l] + Amount(creditsImmature'[b], l) - Amount(creditsImmature[b], l)
      /\ \A l \in Logins :
           minerBalance'[l] = minerBalance[l] + Amount(credits'[b], l) - Amount(credits[b], l)
  BY <1>1, <1>3, <1>5, <1>6, <1>7, NoCreditsSum DEF IncreaseBy, DecreaseBy
<1>9. /\ finances'.immature
           = finances.immature + SumFunction(creditsImmature'[b]) - SumFunction(creditsImmature[b])
      /\ finances'.balance
           = finances.balance + SumFunction(credits'[b]) - SumFunction(credits[b])
  BY <1>1, <1>3, <1>5, <1>6, <1>7, NoCreditsSum DEF FinancesPlus
<1> HIDE DEF log
<1>10. ImmatureBooks'
  <2>1. /\ IsCredits(creditsImmature'[b]) /\ DOMAIN minerImmature' = Logins
        /\ \A c \in Blocks \ {b} : creditsImmature'[c] = creditsImmature[c]
    BY <1>5, NoCreditsSum
  <2>2. \A l \in Logins :
          minerImmature'[l]
            = minerImmature[l] + Amount(creditsImmature'[b], l) - Amount(creditsImmature[b], l)
    BY <1>8
  <2>3. finances'.immature
          = finances.immature + SumFunction(creditsImmature'[b]) - SumFunction(creditsImmature[b])
    BY <1>9
  <2> QED
    BY <2>1, <2>2, <2>3, LogReplaced DEF ImmatureBooks
<1>11. BalanceBooks'
  <2>1. /\ IsCredits(credits'[b]) /\ DOMAIN minerBalance' = Logins
        /\ \A c \in Blocks \ {b} : credits'[c] = credits[c]
    BY <1>2, <1>5
  <2>2. \A l \in Logins :
          minerBalance'[l] = minerBalance[l] + Amount(credits'[b], l) - Amount(credits[b], l)
    BY <1>8
  <2>3. finances'.balance = finances.balance + SumFunction(credits'[b]) - SumFunction(credits[b])
    BY <1>9
  <2> QED
    BY <2>1, <2>2, <2>3, LogReplaced DEF BalanceBooks
<1> QED
  BY <1>10, <1>11

\* WriteOrphan: the log is taken off, unless the block was an orphan before.
LEMMA OrphanKeepsBooks ==
  ASSUME IInv, ImmatureBooks, BalanceBooks, ReadErrors = FALSE,
         NEW b \in Blocks, WriteOrphan(b)
  PROVE  ImmatureBooks' /\ BalanceBooks'
<1> DEFINE log == OrphanLog(b)
<1>1. log = creditsImmature[b]
  <2>1. CASE Row(b, TRUE) \in immature
    <3>1. Row(b, FALSE) \notin immature
      <4>1. Row(b, TRUE).block = Row(b, FALSE).block /\ Row(b, TRUE) # Row(b, FALSE)
        BY RowFields, RowsDiffer
      <4>2. \A r, q \in immature : r.block = q.block => r = q
        BY DEF IInv, OneRow
      <4> QED
        BY <2>1, <4>1, <4>2
    <3> QED
      BY <2>1, <3>1 DEF IInv, ImmatureCreditsNeedRow, OrphanLog
  <2>2. CASE Row(b, TRUE) \notin immature
    BY <2>2 DEF OrphanLog
  <2> QED
    BY <2>1, <2>2
<1>2. /\ minerImmature' = DecreaseBy(minerImmature, log)
      /\ finances' = FinancesPlus(-SumFunction(log), 0, 0)
      /\ UNCHANGED <<credits, minerBalance>>
  BY DEF WriteOrphan, ReadCreditLog
<1>3. /\ creditsImmature'[b] = NoCredits
      /\ \A c \in Blocks \ {b} : creditsImmature'[c] = creditsImmature[c]
      /\ DOMAIN minerImmature' = Logins
  <2>1. /\ Row(b, TRUE) \in immature => creditsImmature' = creditsImmature
        /\ Row(b, TRUE) \notin immature => creditsImmature' = DelLog(creditsImmature, b)
    BY DEF WriteOrphan
  <2>2. Row(b, TRUE) \in immature => creditsImmature[b] = NoCredits
    BY <1>1 DEF OrphanLog
  <2> QED
    BY <1>2, <2>1, <2>2 DEF DelLog, DecreaseBy, IInv, TypeOK
<1> HIDE DEF log
<1>4. IsCredits(log)
  BY <1>1 DEF ImmatureBooks, Balanced
<1>5. SumFunction(log) \in Int /\ \A l : Amount(log, l) \in Int
  BY <1>4, CreditsSum
<1>6. /\ \A l \in Logins : minerImmature[l] \in Int
      /\ finances.immature \in Int /\ finances.balance \in Int
  BY BooksAreInt DEF ImmatureBooks, BalanceBooks
<1>7. \A l \in Logins :
        minerImmature'[l] = minerImmature[l] + Amount(creditsImmature'[b], l) - Amount(creditsImmature[b], l)
  BY <1>1, <1>2, <1>3, <1>5, <1>6, NoCreditsSum DEF DecreaseBy
<1>8. /\ finances'.immature
           = finances.immature + SumFunction(creditsImmature'[b]) - SumFunction(creditsImmature[b])
      /\ finances'.balance = finances.balance
  BY <1>1, <1>2, <1>3, <1>5, <1>6, NoCreditsSum DEF FinancesPlus
<1>9. ImmatureBooks'
  BY <1>3, <1>7, <1>8, NoCreditsSum, LogReplaced DEF ImmatureBooks
<1>10. BalanceBooks'
  BY <1>2, <1>8 DEF BalanceBooks, Balanced
<1> QED
  BY <1>9, <1>10

LEMMA BooksStep ==
  ASSUME IInv, ImmatureBooks, BalanceBooks, ReadErrors = FALSE, [Next]_vars
  PROVE  ImmatureBooks' /\ BalanceBooks'
<1>1. ASSUME NEW b \in Blocks,
             FindBlock(b) \/ FindCompetingBlock(b) \/ WriteBlock(b) \/ ScanBlock(b)
      PROVE  ImmatureBooks' /\ BalanceBooks'
  BY <1>1, BooksUnchanged DEF FindBlock, FindCompetingBlock, WriteBlock, ScanBlock, redisVars, ledgerVars
<1>2. ASSUME NEW k \in 0..MaxReorg,
             NEW new \in [tip + 1 - k .. tip + 1 -> Blocks \cup {Foreign}],
             Reorganise(k, new)
      PROVE  ImmatureBooks' /\ BalanceBooks'
  BY <1>2, BooksUnchanged DEF Reorganise, redisVars, ledgerVars
<1>3. CASE GetPendingBlock \/ GetRows \/ WritePendingOrphans \/ CallFails \/ UNCHANGED vars
  BY <1>3, BooksUnchanged
     DEF GetPendingBlock, GetRows, WritePendingOrphans, CallFails, vars, redisVars, ledgerVars
<1>4. ASSUME NEW c \in Configs, Restart(c) PROVE ImmatureBooks' /\ BalanceBooks'
  BY <1>4, BooksUnchanged DEF Restart, redisVars, ledgerVars
<1>5. ASSUME NEW b \in Blocks, WriteImmatureBlock(b) PROVE ImmatureBooks' /\ BalanceBooks'
  BY <1>5, ImmatureBlockKeepsBooks
<1>6. ASSUME NEW b \in Blocks, WriteMaturedBlock(b) PROVE ImmatureBooks' /\ BalanceBooks'
  BY <1>6, MaturedBlockKeepsBooks
<1>7. ASSUME NEW b \in Blocks, WriteOrphan(b) PROVE ImmatureBooks' /\ BalanceBooks'
  BY <1>7, OrphanKeepsBooks
<1> QED
  BY <1>1, <1>2, <1>3, <1>4, <1>5, <1>6, <1>7 DEF Next, UnlockerStep

\* No satoshi is dropped or counted twice: as long as the log of the immature
\* credits can be read, the miners' balances and the pool's totals are the sums
\* of the credit logs, through crashes, lost replies, new configurations and
\* blocks that turn out to be orphans (writeImmatureBlock, writeMaturedBlock,
\* WriteOrphan).
THEOREM BooksBalance ==
  ASSUME ReadErrors = FALSE
  PROVE  Spec => []LedgersBalance
<1>1. Init => ImmatureBooks /\ BalanceBooks
  BY InitBooks
<1>2. IInv /\ ImmatureBooks /\ BalanceBooks /\ [Next]_vars => ImmatureBooks' /\ BalanceBooks'
  BY BooksStep
<1>3. ImmatureBooks /\ BalanceBooks => LedgersBalance
  BY DEF ImmatureBooks, BalanceBooks, Balanced, LedgersBalance, ImmatureLedger, BalanceLedger
<1> QED
  BY <1>1, <1>2, <1>3, Inductive, PTL DEF Spec
=============================================================================
