--------------------------- MODULE TemplateProofs ---------------------------
(***************************************************************************)
(* Invariance proofs for BlockTemplate, for every set of fetchers, nodes,    *)
(* blocks and transactions: a job found through a template was built on its  *)
(* block, and a valid share can be made a block, although templates share    *)
(* their maps and fetchers write to them side by side.                       *)
(***************************************************************************)
EXTENDS BlockTemplate, FiniteSetTheorems, TLAPS

Types ==
  /\ tip \in [Upstreams -> Blocks] /\ now \in 0..MaxTime
  /\ template \in Templates
  /\ maps \in [MapIds -> [jobs : SUBSET Jobs, txs : SUBSET UNION TxSets]]
  /\ pc \in [Fetchers -> {"idle", "check", "pending", "jobs", "txs", "store"}]
  /\ seen \in [Fetchers -> Blocks \cup {NoBlock}]
  /\ base \in [Fetchers -> Templates] /\ tpl \in [Fetchers -> Templates]
  /\ job \in [Fetchers -> Jobs]
  /\ pushes \in 0..MaxPushes
  /\ announced \subseteq Jobs
  /\ last \in [block : Blocks \cup {NoBlock}, clean : BOOLEAN]
  /\ failures \in 0..MaxFailures /\ crossed \in BOOLEAN /\ overtaken \in BOOLEAN

UniqueIds == \A m \in MapIds : \A g, h \in maps[m].jobs : g.id = h.id => g = h

\* The templates that something refers to.
Holders == {template} \cup {base[f] : f \in Fetchers} \cup {tpl[f] : f \in Fetchers}

\* A map belongs to one block, however many templates point to it.
OneBlock == \A t, u \in Holders : t.map = u.map => t.block = u.block
HasMap == \A t \in Holders : t.map = 0 <=> t.block = NoBlock
Fits == \A t \in Holders : t.map # 0 => \A h \in maps[t.map].jobs : h.block = t.block

\* A map that is taken anew is empty.
Unused == \A m \in MapIds : (\A t \in Holders : t.map # m) => maps[m].jobs = {}

\* What a fetcher has made so far.
Places ==
  \A f \in Fetchers :
    /\ pc[f] \in {"idle", "check"} => base[f] = NoTemplate
    /\ pc[f] \in {"idle", "check", "pending"} => tpl[f] = NoTemplate
    /\ pc[f] \in {"jobs", "txs", "store"} => tpl[f].map # 0 /\ job[f].block = tpl[f].block

\* The transactions of a job are written, or its fetcher is about to write them.
Written ==
  \A m \in MapIds : \A h \in maps[m].jobs :
    \/ h.txs \subseteq maps[m].txs
    \/ \E f \in Fetchers : pc[f] = "txs" /\ job[f] = h /\ tpl[f].map = m

MapsInv == OneBlock /\ HasMap /\ Fits /\ Unused
IInv == Types /\ UniqueIds /\ Places /\ MapsInv /\ Written

Working(f) == pc[f] \in {"jobs", "txs", "store"}

\* A fetcher asks for a block first, and its last writes take no time.
SeesBlock == \A f \in Fetchers : pc[f] # "idle" => seen[f] \in Blocks
MadeNow == \A f \in Fetchers : Working(f) => tpl[f].updated = now /\ job[f].id[1] = now

\* What holds until fetches overlap or nodes disagree: one fetcher is at work, on
\* the current template, and if it goes on with its block then in a later second.
Alone == \A f, g \in Fetchers : pc[f] # "idle" /\ pc[g] # "idle" => f = g

Follows ==
  \A f \in Fetchers :
    /\ pc[f] = "pending" \/ Working(f) => base[f] = template
    /\ pc[f] = "pending" /\ seen[f] = template.block => template.updated < now
    /\ Working(f) /\ tpl[f].block = template.block =>
         template.updated < now /\ tpl[f].map = template.map
    /\ Working(f) /\ tpl[f].block # template.block =>
         /\ tpl[f].clean /\ tpl[f].map # template.map
         /\ template.block = NoBlock \/ HeightOf[template.block] < HeightOf[tpl[f].block]

\* The jobs of a map are older than the one that is being added to it.
Dated ==
  /\ template.updated <= now
  /\ \A f \in Fetchers : Working(f) =>
       \A h \in maps[tpl[f].map].jobs : h.id[1] < now \/ (pc[f] # "jobs" /\ h = job[f])
  /\ template.map # 0 =>
       \A h \in maps[template.map].jobs :
         \/ h.id[1] <= template.updated
         \/ \E f \in Fetchers :
              pc[f] \in {"txs", "store"} /\ h = job[f] /\ tpl[f].map = template.map

\* Announced jobs are found, or of a block before the template's.
Kept ==
  \A j \in announced :
    /\ j.block # NoBlock /\ template.block # NoBlock
    /\ IF j.block = template.block THEN j \in JobsOf(template)
       ELSE HeightOf[j.block] < HeightOf[template.block]

\* Miners were told of the template's block, or the next broadcast does it with
\* clean_jobs, or its first template is gone.
Told == template.clean \/ last.block = template.block \/ overtaken

InOrder == Alone /\ Follows /\ Dated /\ Kept /\ Told
OrderInv == SeesBlock /\ MadeNow /\ (crossed \/ InOrder)

-----------------------------------------------------------------------------
(* Lemmas.                                                                  *)

LEMMA TypesAndIds == TypeOK <=> Types /\ UniqueIds
BY DEF TypeOK, Types, UniqueIds

LEMMA Constants ==
  /\ IsFiniteSet(Fetchers) /\ Cardinality(Fetchers) \in Nat /\ Timer \in Fetchers
  /\ HeightOf \in [Blocks -> Nat] /\ NoBlock \notin Blocks
  /\ MaxTime \in Nat /\ MaxPushes \in Nat /\ MaxFailures \in Nat
  /\ 0 \in 0..MaxTime /\ 0 \in 0..MaxPushes /\ 0 \in 0..MaxFailures
  /\ MapIds \subseteq Nat \ {0}
<1>1. IsFiniteSet(Fetchers) /\ Cardinality(Fetchers) \in Nat
  BY TemplateAssumption, FS_CardinalityType
<1> QED
  BY <1>1, TemplateAssumption DEF MapIds

LEMMA NothingTyped ==
  NoTemplate \in Templates /\ NoJob \in Jobs
  /\ NoMap \in [jobs : SUBSET Jobs, txs : SUBSET UNION TxSets]
BY Constants DEF NoTemplate, NoJob, NoMap, Templates, Jobs, JobIds

\* What a function makes of a finite set is no larger.
LEMMA ImageBound ==
  ASSUME NEW S, IsFiniteSet(S), NEW h
  PROVE  LET T == {h[x] : x \in S}
         IN  IsFiniteSet(T) /\ Cardinality(T) <= Cardinality(S)
<1> DEFINE T == {h[x] : x \in S}
           f == [x \in S |-> h[x]]
<1>1. f \in Surjection(S, T)
  BY DEF Surjection
<1> HIDE DEF f
<1> QED
  BY <1>1, FS_Surjection

\* There are enough maps: one is free whenever a fetcher has made no template yet.
LEMMA FreeMapIsFree ==
  ASSUME IInv, NEW f \in Fetchers, tpl[f] = NoTemplate
  PROVE  FreeMap \in MapIds /\ \A t \in Holders : t.map # FreeMap
<1> DEFINE others == Fetchers \ {f}
           baseMap == [g \in Fetchers |-> base[g].map]
           tplMap == [g \in Fetchers |-> tpl[g].map]
           A == {template.map}
           B == {baseMap[g] : g \in Fetchers}
           C == {tplMap[g] : g \in others}
           n == Cardinality(Fetchers)
<1>1. n \in Nat /\ n > 0 /\ IsFiniteSet(others) /\ Cardinality(others) = n - 1
  <2>1. IsFiniteSet(others) /\ Cardinality(others) = n - 1
    BY Constants, FS_RemoveElement
  <2>2. Cardinality(others) \in Nat
    BY <2>1, FS_CardinalityType
  <2> QED
    BY <2>1, <2>2, Constants
<1>2. IsFiniteSet(A) /\ Cardinality(A) = 1
  BY FS_Singleton
<1>3. IsFiniteSet(B) /\ Cardinality(B) <= n
  BY Constants, ImageBound
<1>4. IsFiniteSet(C) /\ Cardinality(C) <= n - 1
  BY <1>1, ImageBound
<1>5. IsFiniteSet(A \cup B \cup C) /\ Cardinality(A \cup B \cup C) < 2 * n + 1
  <2> HIDE DEF A, B, C, n
  <2>1. /\ Cardinality(B) \in Nat /\ Cardinality(C) \in Nat
        /\ Cardinality(A \cap B) \in Nat /\ Cardinality((A \cup B) \cap C) \in Nat
    <3>1. IsFiniteSet(A \cap B) /\ IsFiniteSet((A \cup B) \cap C)
      <4>1. A \cap B \in SUBSET A /\ (A \cup B) \cap C \in SUBSET C
        OBVIOUS
      <4> QED
        BY <4>1, <1>2, <1>4, FS_Subset
    <3> QED
      BY <3>1, <1>3, <1>4, FS_CardinalityType
  <2>2. /\ IsFiniteSet(A \cup B)
        /\ Cardinality(A \cup B) = Cardinality(A) + Cardinality(B) - Cardinality(A \cap B)
    BY <1>2, <1>3, FS_Union
  <2>3. /\ IsFiniteSet((A \cup B) \cup C)
        /\ Cardinality((A \cup B) \cup C)
             = Cardinality(A \cup B) + Cardinality(C) - Cardinality((A \cup B) \cap C)
    BY <2>2, <1>4, FS_Union
  <2> QED
    BY <1>1, <1>2, <1>3, <1>4, <2>1, <2>2, <2>3
<1>6. IsFiniteSet(MapIds) /\ Cardinality(MapIds) = 2 * n + 1
  <2>1. 2 * n + 1 \in Int /\ 1 \in Int /\ ~(1 > 2 * n + 1)
    BY <1>1
  <2> QED
    BY <2>1, <1>1, FS_Interval DEF MapIds
<1>7. PICK m \in MapIds : m \notin A \cup B \cup C
  <2> HIDE DEF A, B, C, n
  <2>1. SUFFICES ASSUME MapIds \subseteq A \cup B \cup C PROVE FALSE
    OBVIOUS
  <2>2. Cardinality(MapIds) <= Cardinality(A \cup B \cup C)
    BY <2>1, <1>5, FS_Subset
  <2> QED
    BY <2>2, <1>1, <1>5, <1>6, FS_CardinalityType
<1>8. m \notin {template.map} \cup HeldBy(Fetchers)
  <2>1. m # 0
    BY <1>7, Constants
  <2>2. \A g \in Fetchers : m # base[g].map
    BY <1>7
  <2>3. \A g \in Fetchers : m # tpl[g].map
    BY <1>7, <2>1 DEF NoTemplate
  <2> QED
    BY <1>7, <2>2, <2>3 DEF HeldBy
<1>9. FreeMap \in MapIds /\ FreeMap \notin {template.map} \cup HeldBy(Fetchers)
  BY <1>7, <1>8 DEF FreeMap
<1> QED
  BY <1>9 DEF Holders, HeldBy

\* A step that writes to no map and loads no other template.
LEMMA Quiet ==
  ASSUME IInv, Types', Places', UNCHANGED <<template, maps, tpl, job>>,
         Holders' \subseteq Holders \cup {NoTemplate}, Holders \subseteq Holders' \cup {NoTemplate},
         \A g \in Fetchers : pc[g] = "txs" => pc'[g] = "txs"
  PROVE  IInv'
<1>1. UniqueIds'
  BY DEF IInv, UniqueIds
<1>2. OneBlock'
  <2>1. \A t \in Holders : t.map = 0 <=> t.block = NoBlock
    BY DEF IInv, MapsInv, HasMap
  <2>2. NoTemplate.map = 0 /\ NoTemplate.block = NoBlock
    BY DEF NoTemplate
  <2> QED
    BY <2>1, <2>2 DEF IInv, MapsInv, OneBlock
<1>3. HasMap' /\ Fits'
  BY DEF IInv, MapsInv, HasMap, Fits, NoTemplate
<1>4. Unused'
  <2> SUFFICES ASSUME NEW m \in MapIds, \A t \in Holders' : t.map # m
               PROVE  maps[m].jobs = {}
    BY DEF Unused
  <2>1. m # 0 /\ NoTemplate.map = 0
    BY Constants DEF NoTemplate
  <2>2. \A t \in Holders : t.map # m
    BY <2>1
  <2> QED
    BY <2>2 DEF IInv, MapsInv, Unused
<1>5. Written'
  BY DEF IInv, Written
<1> QED
  BY <1>1, <1>2, <1>3, <1>4, <1>5 DEF IInv, MapsInv

LEMMA WorldStep ==
  ASSUME IInv, (\E u \in Upstreams : NewTip(u)) \/ Tick \/ Broadcast
  PROVE  IInv'
<1>1. UNCHANGED <<template, maps, pc, base, tpl, job>>
  BY DEF NewTip, Tick, Broadcast, locals
<1>2. Types'
  <2>1. CASE \E u \in Upstreams : NewTip(u)
    BY <2>1 DEF NewTip, locals, IInv, Types
  <2>2. CASE Tick
    BY <2>2, Constants DEF Tick, locals, IInv, Types
  <2>3. CASE Broadcast
    <3>1. pushes' \in 0..MaxPushes
      BY <2>3, Constants DEF Broadcast, IInv, Types
    <3>2. JobsOf(template) \subseteq Jobs
      BY DEF JobsOf, IInv, Types, Templates
    <3>3. announced' \subseteq Jobs
      BY <2>3, <3>2 DEF Broadcast, Lookup, IInv, Types
    <3>4. last' \in [block : Blocks \cup {NoBlock}, clean : BOOLEAN]
      BY <2>3 DEF Broadcast, IInv, Types, Templates
    <3> QED
      BY <2>3, <3>1, <3>3, <3>4 DEF Broadcast, locals, IInv, Types
  <2> QED
    BY <2>1, <2>2, <2>3
<1>3. Places'
  BY <1>1 DEF IInv, Places
<1>4. Holders' = Holders
  BY <1>1 DEF Holders
<1> QED
  BY <1>1, <1>2, <1>3, <1>4, Quiet

LEMMA GetPrevBlockHashStep ==
  ASSUME IInv, NEW f \in Fetchers, GetPrevBlockHash(f)
  PROVE  IInv'
<1>1. /\ UNCHANGED <<template, maps, base, tpl, job>>
      /\ pc[f] = "idle" /\ pc' = [pc EXCEPT ![f] = "check"]
  BY DEF GetPrevBlockHash, Goto
<1>2. Types'
  <2>1. seen' \in [Fetchers -> Blocks \cup {NoBlock}]
    BY DEF GetPrevBlockHash, IInv, Types
  <2>2. crossed' \in BOOLEAN
    BY DEF GetPrevBlockHash, IInv, Types
  <2> QED
    BY <1>1, <2>1, <2>2 DEF GetPrevBlockHash, IInv, Types
<1>3. Places'
  BY <1>1 DEF IInv, Types, Places
<1>4. Holders' = Holders
  BY <1>1 DEF Holders
<1>5. \A g \in Fetchers : pc[g] = "txs" => pc'[g] = "txs"
  BY <1>1 DEF IInv, Types
<1> QED
  BY <1>1, <1>2, <1>3, <1>4, <1>5, Quiet

LEMMA CheckFreshStep ==
  ASSUME IInv, NEW f \in Fetchers, CheckFresh(f)
  PROVE  IInv'
<1>1. pc[f] = "check" /\ base[f] = NoTemplate /\ tpl[f] = NoTemplate
  BY DEF CheckFresh, IInv, Places
<1>2. UNCHANGED <<tip, now, template, maps, pushes, announced, last, failures, crossed,
                  overtaken>>
  BY DEF CheckFresh
<1>3. CASE Fresh(f)
  <2>1. Forget(f)
    BY <1>3 DEF CheckFresh
  <2>2. base' = base /\ tpl' = tpl
    BY <1>1, <2>1 DEF Forget, IInv, Types
  <2>3. PICK j \in Jobs : job' = [job EXCEPT ![f] = j]
    BY <2>1, NothingTyped DEF Forget
  <2>4. Types'
    BY <1>2, <2>1, <2>2, <2>3 DEF Forget, Goto, IInv, Types
  <2>5. Places'
    BY <1>1, <2>1, <2>2 DEF Forget, Goto, IInv, Types, Places
  <2>6. Holders' = Holders
    BY <1>2, <2>2 DEF Holders
  <2>7. UniqueIds' /\ MapsInv'
    BY <1>2, <2>6 DEF IInv, UniqueIds, MapsInv, OneBlock, HasMap, Fits, Unused
  <2>8. Written'
    BY <1>1, <1>2, <2>1, <2>2 DEF Forget, Goto, IInv, Types, Written
  <2> QED
    BY <2>4, <2>5, <2>7, <2>8 DEF IInv
<1>4. CASE ~Fresh(f)
  <2>1. /\ base' = [base EXCEPT ![f] = template] /\ pc' = [pc EXCEPT ![f] = "pending"]
        /\ UNCHANGED <<seen, tpl, job>>
    BY <1>4 DEF CheckFresh, Goto
  <2>2. Types'
    BY <1>2, <2>1 DEF IInv, Types
  <2>3. Places'
    BY <1>1, <2>1 DEF IInv, Types, Places
  <2>4. Holders' \subseteq Holders \cup {NoTemplate} /\ Holders \subseteq Holders' \cup {NoTemplate}
    BY <1>1, <1>2, <2>1 DEF Holders, IInv, Types
  <2>5. \A g \in Fetchers : pc[g] = "txs" => pc'[g] = "txs"
    BY <1>1, <2>1 DEF IInv, Types
  <2> QED
    BY <1>2, <2>1, <2>2, <2>3, <2>4, <2>5, Quiet
<1> QED
  BY <1>3, <1>4

LEMMA GetPendingBlockStep ==
  ASSUME IInv, NEW f \in Fetchers, GetPendingBlock(f)
  PROVE  IInv'
<1>1. /\ pc[f] = "pending" /\ tpl[f] = NoTemplate
      /\ UNCHANGED <<tip, now, template, maps, seen, base, pushes, announced, last, failures,
                     overtaken>>
      /\ pc' = [pc EXCEPT ![f] = "jobs"] /\ crossed' \in BOOLEAN
  BY DEF GetPendingBlock, Goto, IInv, Places
<1>2. PICK u \in Upstreams, txs \in TxSets :
        LET b == tip[u]
        IN /\ tpl' = [tpl EXCEPT ![f] =
                 [block |-> b, map |-> IF SharesMap(f, b) THEN base[f].map ELSE FreeMap,
                  job |-> JobId(b), clean |-> NewFlag(f, b), updated |-> now]]
           /\ job' = [job EXCEPT ![f] = [id |-> JobId(b), block |-> b, txs |-> txs]]
  BY DEF GetPendingBlock
<1> DEFINE b == tip[u]
           map == IF SharesMap(f, b) THEN base[f].map ELSE FreeMap
           made == [block |-> b, map |-> map, job |-> JobId(b), clean |-> NewFlag(f, b),
                    updated |-> now]
           task == [id |-> JobId(b), block |-> b, txs |-> txs]
<1>3. b \in Blocks /\ b # NoBlock
  BY Constants DEF IInv, Types
<1>4. base[f] \in Holders /\ base[f] \in Templates
  BY DEF Holders, IInv, Types
<1>5. FreeMap \in MapIds /\ \A t \in Holders : t.map # FreeMap
  BY <1>1, FreeMapIsFree
<1>6. map \in MapIds /\ map # 0
  <2>1. CASE SharesMap(f, b)
    BY <1>3, <1>4, <2>1 DEF SharesMap, IInv, MapsInv, HasMap, Templates
  <2>2. CASE ~SharesMap(f, b)
    BY <1>5, <2>2, Constants
  <2> QED
    BY <2>1, <2>2
<1>7. \/ \E t \in Holders : t.map = map /\ t.block = b
      \/ \A t \in Holders : t.map # map
  BY <1>4, <1>5 DEF SharesMap
<1>8. made \in Templates /\ task \in Jobs
  <2>1. JobId(b) \in JobIds /\ NewFlag(f, b) \in BOOLEAN /\ now \in 0..MaxTime
    BY <1>3, Constants DEF JobId, JobIds, NewFlag, IInv, Types
  <2> HIDE DEF b, map
  <2> QED
    BY <1>3, <1>6, <2>1 DEF Templates, Jobs
<1>9. made.map = map /\ made.block = b /\ task.block = b
  OBVIOUS
<1>10. tpl' = [tpl EXCEPT ![f] = made] /\ job' = [job EXCEPT ![f] = task]
  BY <1>2
<1> HIDE DEF b, map, made, task
<1>11. Types'
  BY <1>1, <1>8, <1>10 DEF IInv, Types
<1>12. UniqueIds'
  BY <1>1 DEF IInv, UniqueIds
<1>13. Places'
  BY <1>1, <1>6, <1>9, <1>10 DEF IInv, Types, Places
<1>14. /\ Holders' \subseteq Holders \cup {made}
       /\ Holders \subseteq Holders' \cup {NoTemplate}
  BY <1>1, <1>10 DEF Holders, IInv, Types
<1>15. OneBlock'
  BY <1>7, <1>9, <1>14 DEF IInv, MapsInv, OneBlock
<1>16. HasMap'
  BY <1>3, <1>6, <1>9, <1>14 DEF IInv, MapsInv, HasMap
<1>17. Fits'
  <2> SUFFICES ASSUME NEW t \in Holders', t.map # 0, NEW h \in maps[t.map].jobs
               PROVE  h.block = t.block
    BY <1>1 DEF Fits
  <2>1. CASE t \in Holders
    BY <2>1 DEF IInv, MapsInv, Fits
  <2>2. CASE t = made /\ \E v \in Holders : v.map = map /\ v.block = b
    BY <1>9, <2>2 DEF IInv, MapsInv, Fits
  <2>3. CASE t = made /\ \A v \in Holders : v.map # map
    <3>1. maps[map].jobs = {}
      BY <1>6, <2>3 DEF IInv, MapsInv, Unused
    <3> QED
      BY <1>9, <2>3, <3>1
  <2> QED
    BY <1>7, <1>14, <2>1, <2>2, <2>3
<1>18. Unused'
  <2> SUFFICES ASSUME NEW m \in MapIds, \A t \in Holders' : t.map # m
               PROVE  maps[m].jobs = {}
    BY <1>1 DEF Unused
  <2>1. m # 0 /\ NoTemplate.map = 0
    BY Constants DEF NoTemplate
  <2>2. \A t \in Holders : t.map # m
    BY <1>14, <2>1
  <2> QED
    BY <2>2 DEF IInv, MapsInv, Unused
<1>19. Written'
  <2>1. \A g \in Fetchers : pc[g] = "txs" =>
          pc'[g] = "txs" /\ job'[g] = job[g] /\ tpl'[g] = tpl[g]
    BY <1>1, <1>10 DEF IInv, Types
  <2> QED
    BY <1>1, <2>1 DEF IInv, Written
<1> QED
  BY <1>11, <1>12, <1>13, <1>15, <1>16, <1>17, <1>18, <1>19 DEF IInv, MapsInv

LEMMA WriteJobStep ==
  ASSUME IInv, NEW f \in Fetchers, WriteJob(f)
  PROVE  IInv'
<1> DEFINE m == tpl[f].map
           others == {j \in maps[m].jobs : j.id # job[f].id}
<1>1. /\ pc[f] = "jobs" /\ pc' = [pc EXCEPT ![f] = "txs"]
      /\ UNCHANGED <<tip, now, template, seen, base, tpl, job, pushes, announced, last,
                     failures, crossed, overtaken>>
      /\ maps' = [maps EXCEPT ![m].jobs = others \cup {job[f]}]
  BY DEF WriteJob, Goto, locals, PutJob
<1>2. tpl[f] \in Holders /\ m \in MapIds /\ m # 0 /\ job[f] \in Jobs /\ job[f].block = tpl[f].block
  BY <1>1 DEF Holders, IInv, Types, Places, Templates
<1>3. /\ maps'[m] = [maps[m] EXCEPT !.jobs = others \cup {job[f]}]
      /\ maps'[m].jobs = others \cup {job[f]} /\ maps'[m].txs = maps[m].txs
      /\ \A k \in MapIds \ {m} : maps'[k] = maps[k]
  BY <1>1, <1>2 DEF IInv, Types
<1>4. others \subseteq maps[m].jobs /\ \A j \in others : j.id # job[f].id
  OBVIOUS
<1>5. Holders' = Holders
  BY <1>1 DEF Holders
<1>6. Types'
  <2>1. maps'[m] \in [jobs : SUBSET Jobs, txs : SUBSET UNION TxSets]
    BY <1>2, <1>3, <1>4 DEF IInv, Types
  <2>2. maps' \in [MapIds -> [jobs : SUBSET Jobs, txs : SUBSET UNION TxSets]]
    BY <1>1, <1>2, <1>3, <2>1 DEF IInv, Types
  <2> QED
    BY <1>1, <2>2 DEF IInv, Types
<1> HIDE DEF m, others
<1>7. UniqueIds'
  <2> SUFFICES ASSUME NEW k \in MapIds, NEW g \in maps'[k].jobs, NEW h \in maps'[k].jobs,
                      g.id = h.id
               PROVE  g = h
    BY DEF UniqueIds
  <2>1. CASE k = m
    <3>1. (g \in others \/ g = job[f]) /\ (h \in others \/ h = job[f])
      BY <1>3, <2>1
    <3>2. g \in others /\ h \in others => g = h
      BY <1>2, <1>4 DEF IInv, UniqueIds
    <3> QED
      BY <1>4, <3>1, <3>2
  <2>2. CASE k # m
    BY <1>3, <2>2 DEF IInv, UniqueIds
  <2> QED
    BY <2>1, <2>2
<1>8. Places'
  BY <1>1 DEF IInv, Types, Places
<1>9. OneBlock' /\ HasMap'
  BY <1>5 DEF IInv, MapsInv, OneBlock, HasMap
<1>10. Fits'
  <2> SUFFICES ASSUME NEW t \in Holders, t.map # 0, NEW h \in maps'[t.map].jobs
               PROVE  h.block = t.block
    BY <1>5 DEF Fits
  <2>1. t.map \in MapIds
    BY DEF Holders, IInv, Types, Templates
  <2>2. CASE h \in maps[t.map].jobs
    BY <2>2 DEF IInv, MapsInv, Fits
  <2>3. CASE t.map = m /\ h = job[f]
    BY <1>2, <2>3 DEF IInv, MapsInv, OneBlock, m
  <2> QED
    BY <1>3, <1>4, <2>1, <2>2, <2>3
<1>11. Unused'
  BY <1>2, <1>3, <1>5 DEF IInv, MapsInv, Unused, m
<1>12. Written'
  <2> SUFFICES ASSUME NEW k \in MapIds, NEW h \in maps'[k].jobs
               PROVE  \/ h.txs \subseteq maps'[k].txs
                      \/ \E g \in Fetchers : pc'[g] = "txs" /\ job[g] = h /\ tpl[g].map = k
    BY <1>1 DEF Written
  <2>1. CASE k = m /\ h = job[f]
    <3>1. pc'[f] = "txs" /\ tpl[f].map = m
      BY <1>1 DEF IInv, Types, m
    <3> QED
      BY <2>1, <3>1
  <2>2. CASE h \in maps[k].jobs
    <3>1. \A g \in Fetchers : pc[g] = "txs" => pc'[g] = "txs"
      BY <1>1 DEF IInv, Types
    <3>2. maps'[k].txs = maps[k].txs
      BY <1>3
    <3> QED
      BY <2>2, <3>1, <3>2 DEF IInv, Written
  <2> QED
    BY <1>3, <1>4, <2>1, <2>2
<1> QED
  BY <1>6, <1>7, <1>8, <1>9, <1>10, <1>11, <1>12 DEF IInv, MapsInv

LEMMA WriteTxsStep ==
  ASSUME IInv, NEW f \in Fetchers, WriteTxs(f)
  PROVE  IInv'
<1> DEFINE m == tpl[f].map
<1>1. /\ pc[f] = "txs" /\ pc' = [pc EXCEPT ![f] = "store"]
      /\ UNCHANGED <<tip, now, template, seen, base, tpl, job, pushes, announced, last,
                     failures, crossed, overtaken>>
      /\ maps' = [maps EXCEPT ![m].txs = maps[m].txs \cup job[f].txs]
  BY DEF WriteTxs, Goto, locals, PutTxs
<1>2. m \in MapIds /\ job[f].txs \subseteq UNION TxSets
  BY <1>1 DEF IInv, Types, Places, Templates, Jobs
<1>3. /\ \A k \in MapIds : maps'[k].jobs = maps[k].jobs /\ maps[k].txs \subseteq maps'[k].txs
      /\ job[f].txs \subseteq maps'[m].txs
  BY <1>1, <1>2 DEF IInv, Types
<1>4. Types'
  <2> DEFINE R == [jobs : SUBSET Jobs, txs : SUBSET UNION TxSets]
             r == [maps[m] EXCEPT !.txs = maps[m].txs \cup job[f].txs]
  <2>1. maps \in [MapIds -> R]
    BY DEF IInv, Types
  <2>2. maps[m] \in R
    BY <2>1, <1>2
  <2>3. r \in R
    BY <2>2, <1>2
  <2>4. maps' = [maps EXCEPT ![m] = r]
    BY <1>1
  <2>5. maps' \in [MapIds -> R]
    <3> HIDE DEF R, r, m
    <3> QED
      BY <2>1, <2>3, <2>4
  <2> QED
    BY <1>1, <2>5 DEF IInv, Types
<1> HIDE DEF m
<1>5. UniqueIds'
  BY <1>3 DEF IInv, UniqueIds
<1>6. Places'
  BY <1>1 DEF IInv, Types, Places
<1>7. MapsInv'
  <2>1. Holders' = Holders
    BY <1>1 DEF Holders
  <2>2. \A t \in Holders : t.map # 0 => t.map \in MapIds
    BY DEF Holders, IInv, Types, Templates
  <2>3. Fits'
    BY <1>3, <2>1, <2>2 DEF IInv, MapsInv, Fits
  <2>4. Unused'
    BY <1>3, <2>1 DEF IInv, MapsInv, Unused
  <2> QED
    BY <2>1, <2>3, <2>4 DEF IInv, MapsInv, OneBlock, HasMap
<1>8. Written'
  <2> SUFFICES ASSUME NEW k \in MapIds, NEW h \in maps[k].jobs
               PROVE  \/ h.txs \subseteq maps'[k].txs
                      \/ \E g \in Fetchers : pc'[g] = "txs" /\ job[g] = h /\ tpl[g].map = k
    BY <1>1, <1>3 DEF Written
  <2>1. CASE h.txs \subseteq maps[k].txs
    BY <1>3, <2>1
  <2>2. CASE \E g \in Fetchers : pc[g] = "txs" /\ job[g] = h /\ tpl[g].map = k
    <3>1. PICK g \in Fetchers : pc[g] = "txs" /\ job[g] = h /\ tpl[g].map = k
      BY <2>2
    <3>2. CASE g = f
      BY <1>3, <3>1, <3>2 DEF m
    <3>3. CASE g # f
      <4>1. pc'[g] = "txs"
        BY <1>1, <3>1, <3>3 DEF IInv, Types
      <4> QED
        BY <3>1, <4>1
    <3> QED
      BY <3>2, <3>3
  <2> QED
    BY <2>1, <2>2 DEF IInv, Written
<1> QED
  BY <1>4, <1>5, <1>6, <1>7, <1>8 DEF IInv

\* A fetcher returns, and the maps that only it referred to are gone.
LEMMA Returned ==
  ASSUME IInv, NEW f \in Fetchers, pc[f] # "txs", Types', Forget(f),
         template' \in Holders, maps' = Collected(f, template')
  PROVE  IInv'
<1> DEFINE held == {template'.map} \cup HeldBy(Fetchers \ {f})
<1>1. /\ pc'[f] = "idle" /\ base'[f] = NoTemplate /\ tpl'[f] = NoTemplate
      /\ \A g \in Fetchers \ {f} :
           pc'[g] = pc[g] /\ base'[g] = base[g] /\ tpl'[g] = tpl[g] /\ job'[g] = job[g]
  BY DEF Forget, Goto, IInv, Types
<1>2. NoTemplate.map = 0 /\ NoTemplate.block = NoBlock
  BY DEF NoTemplate
<1>3. \A m \in MapIds : maps'[m] = IF m \in held THEN maps[m] ELSE NoMap
  BY DEF Collected
<1>4. Holders' \subseteq Holders \cup {NoTemplate}
  BY <1>1 DEF Holders
<1>5. \A t \in Holders' : t.map # 0 => t.map \in held /\ t.map \in MapIds
  <2>1. \A t \in Holders' : t = NoTemplate \/ t.map \in held
    BY <1>1 DEF Holders, HeldBy
  <2>2. \A t \in Holders : t.map # 0 => t.map \in MapIds
    BY DEF Holders, IInv, Types, Templates
  <2> QED
    BY <1>2, <1>4, <2>1, <2>2
<1>6. \A m \in held : m = 0 \/ \E t \in Holders' : t.map = m
  BY <1>1 DEF Holders, HeldBy
<1> HIDE DEF held
<1>7. UniqueIds'
  BY <1>3 DEF IInv, UniqueIds, NoMap
<1>8. Places'
  BY <1>1 DEF IInv, Places
<1>9. OneBlock'
  <2>1. \A t \in Holders : t.map = 0 <=> t.block = NoBlock
    BY DEF IInv, MapsInv, HasMap
  <2> QED
    BY <1>2, <1>4, <2>1 DEF IInv, MapsInv, OneBlock
<1>10. HasMap'
  BY <1>2, <1>4 DEF IInv, MapsInv, HasMap
<1>11. Fits'
  BY <1>2, <1>3, <1>4, <1>5 DEF IInv, MapsInv, Fits
<1>12. Unused'
  <2> SUFFICES ASSUME NEW m \in MapIds, \A t \in Holders' : t.map # m
               PROVE  maps'[m].jobs = {}
    BY DEF Unused
  <2>1. m \notin held
    BY <1>6, Constants
  <2> QED
    BY <1>3, <2>1 DEF NoMap
<1>13. Written'
  BY <1>1, <1>3 DEF IInv, Written, NoMap
<1> QED
  BY <1>7, <1>8, <1>9, <1>10, <1>11, <1>12, <1>13 DEF IInv, MapsInv

\* Its locals are as before it began.
LEMMA ForgottenTypes ==
  ASSUME IInv, NEW f \in Fetchers, Forget(f), NEW t \in Templates, maps' = Collected(f, t)
  PROVE  /\ pc' \in [Fetchers -> {"idle", "check", "pending", "jobs", "txs", "store"}]
         /\ seen' \in [Fetchers -> Blocks \cup {NoBlock}]
         /\ base' \in [Fetchers -> Templates] /\ tpl' \in [Fetchers -> Templates]
         /\ job' \in [Fetchers -> Jobs]
         /\ maps' \in [MapIds -> [jobs : SUBSET Jobs, txs : SUBSET UNION TxSets]]
<1>1. base' \in [Fetchers -> Templates] /\ tpl' \in [Fetchers -> Templates]
  BY NothingTyped DEF Forget, IInv, Types
<1>2. job' \in [Fetchers -> Jobs]
  BY NothingTyped DEF Forget, IInv, Types
<1>3. maps' \in [MapIds -> [jobs : SUBSET Jobs, txs : SUBSET UNION TxSets]]
  BY NothingTyped DEF Collected, IInv, Types
<1> QED
  BY <1>1, <1>2, <1>3 DEF Forget, Goto, IInv, Types

LEMMA StoreStep ==
  ASSUME IInv, NEW f \in Fetchers, Store(f)
  PROVE  IInv'
<1>1. /\ pc[f] = "store" /\ template' = tpl[f] /\ Forget(f) /\ maps' = Collected(f, tpl[f])
      /\ UNCHANGED <<tip, now, announced, last, failures, crossed>> /\ overtaken' \in BOOLEAN
  BY DEF Store
<1>2. tpl[f] \in Templates /\ tpl[f] \in Holders
  BY DEF Holders, IInv, Types
<1>3. pushes' \in 0..MaxPushes
  BY Constants DEF Store, IInv, Types
<1>4. Types'
  BY <1>1, <1>2, <1>3, ForgottenTypes DEF IInv, Types
<1> QED
  BY <1>1, <1>2, <1>4, Returned

LEMMA FetchFailsStep ==
  ASSUME IInv, NEW f \in Fetchers, FetchFails(f)
  PROVE  IInv'
<1>1. /\ pc[f] # "txs" /\ template' = template /\ Forget(f) /\ maps' = Collected(f, template)
      /\ UNCHANGED <<tip, now, pushes, announced, last, crossed, overtaken>>
  BY DEF FetchFails
<1>2. template \in Templates /\ template \in Holders
  BY DEF Holders, IInv, Types
<1>3. failures' \in 0..MaxFailures
  BY Constants DEF FetchFails, IInv, Types
<1>4. Types'
  BY <1>1, <1>2, <1>3, ForgottenTypes DEF IInv, Types
<1> QED
  BY <1>1, <1>2, <1>4, Returned

\* With no template there is nothing to be inconsistent.
Clean ==
  /\ template = NoTemplate /\ maps = [m \in MapIds |-> NoMap]
  /\ pc = [f \in Fetchers |-> "idle"]
  /\ base = [f \in Fetchers |-> NoTemplate] /\ tpl = [f \in Fetchers |-> NoTemplate]

LEMMA AtStart == Clean => UniqueIds /\ Places /\ MapsInv /\ Written
<1> SUFFICES ASSUME Clean PROVE UniqueIds /\ Places /\ MapsInv /\ Written
  OBVIOUS
<1>1. Holders = {NoTemplate}
  BY Constants DEF Clean, Holders
<1>2. NoTemplate.map = 0 /\ NoTemplate.block = NoBlock
  BY DEF NoTemplate
<1>3. \A m \in MapIds : maps[m].jobs = {}
  BY DEF Clean, NoMap
<1>4. MapsInv
  BY <1>1, <1>2, <1>3 DEF MapsInv, OneBlock, HasMap, Fits, Unused
<1> QED
  BY <1>3, <1>4 DEF Clean, UniqueIds, Places, Written

LEMMA PanicStep ==
  ASSUME IInv, Panic
  PROVE  IInv'
<1>1. Started /\ UNCHANGED <<tip, now>>
  BY DEF Panic
<1>2. failures' \in 0..MaxFailures
  BY Constants DEF Panic, IInv, Types
<1>3. Clean'
  BY <1>1 DEF Started, Clean
<1>4. UniqueIds' /\ Places' /\ MapsInv' /\ Written'
  BY <1>3, AtStart, PTL
<1>5. Types'
  BY <1>1, <1>2, Constants, NothingTyped DEF Started, IInv, Types
<1> QED
  BY <1>4, <1>5 DEF IInv

-----------------------------------------------------------------------------
(* The theorems.                                                            *)

LEMMA InitIInv == Init => IInv
<1> SUFFICES ASSUME Init PROVE IInv
  OBVIOUS
<1>1. UniqueIds /\ Places /\ MapsInv /\ Written
  BY AtStart DEF Init, Clean
<1>2. Types
  BY Constants, NothingTyped DEF Init, Types, Lowest
<1> QED
  BY <1>1, <1>2 DEF IInv

LEMMA NextIInv == IInv /\ [Next]_vars => IInv'
<1> SUFFICES ASSUME IInv, [Next]_vars PROVE IInv'
  OBVIOUS
<1>1. CASE UNCHANGED vars
  BY <1>1 DEF vars, locals, IInv, Types, UniqueIds, Places, MapsInv, Holders, OneBlock,
              HasMap, Fits, Unused, Written
<1>2. ASSUME NEW f \in Fetchers, GetPrevBlockHash(f) \/ Proceed(f) \/ FetchFails(f)
      PROVE  IInv'
  BY <1>2, GetPrevBlockHashStep, CheckFreshStep, GetPendingBlockStep, WriteJobStep,
     WriteTxsStep, StoreStep, FetchFailsStep DEF Proceed
<1> QED
  BY <1>1, <1>2, WorldStep, PanicStep DEF Next

\* Templates, jobs and maps of transactions fit each other, wherever the fetchers are
\* (fetchBlockTemplate).
THEOREM Invariance == Spec => []IInv
BY InitIInv, NextIInv, PTL DEF Spec

\* Templates, jobs and maps stay well typed, whatever fetchers and broadcasts do.
THEOREM TypeCorrect == Spec => []TypeOK
<1>1. IInv => TypeOK
  BY TypesAndIds DEF IInv
<1> QED
  BY <1>1, Invariance, PTL

\* A job found through the template was built on the template's block, and an id
\* stands for one job of a map, through any interleaving of fetches and through
\* templates that go back (fetchBlockTemplate, processShare).
THEOREM JobsAreConsistent == Spec => []JobsConsistent
<1>1. IInv => JobsConsistent
  <2> SUFFICES ASSUME IInv PROVE JobsConsistent
    OBVIOUS
  <2>1. JobsFitTemplate
    BY DEF JobsFitTemplate, JobsOf, Holders, IInv, MapsInv, Fits
  <2> QED
    BY <2>1, TypesAndIds DEF IInv, JobsConsistent
<1> QED
  BY <1>1, Invariance, PTL

\* A share that is judged valid can be made a whole block, but in the moment
\* between a fetcher's two writes (fetchBlockTemplate, ConstructRawBlockHex).
THEOREM ValidSharesBuild == Spec => []ValidIsBuildable
<1>1. IInv => ValidIsBuildable
  <2> SUFFICES ASSUME IInv, NEW j \in announced, Verdict(j) = "valid"
               PROVE  CanConstruct(j) \/ BeingWritten(j)
    BY DEF ValidIsBuildable
  <2>1. PICK h \in Lookup(j.id) : HashFits(j, h)
    BY DEF Verdict
  <2>2. template.map # 0 /\ template.map \in MapIds /\ h \in maps[template.map].jobs /\ h.id = j.id
    BY <2>1 DEF Lookup, JobsOf, IInv, Types, Templates
  <2>3. h.block = template.block /\ h.txs = j.txs /\ template.block = j.block
    BY <2>1, <2>2 DEF HashFits, Holders, IInv, MapsInv, Fits
  <2>4. h = j
    BY <2>2, <2>3 DEF IInv, Types, Jobs
  <2> QED
    BY <2>2, <2>4 DEF IInv, Written, CanConstruct, BeingWritten
<1> QED
  BY <1>1, Invariance, PTL

-----------------------------------------------------------------------------
(* Fetches in order.                                                        *)

LEMMA Typed ==
  ASSUME IInv
  PROVE  /\ tip \in [Upstreams -> Blocks] /\ now \in Nat /\ template \in Templates
         /\ pc \in [Fetchers -> {"idle", "check", "pending", "jobs", "txs", "store"}]
         /\ seen \in [Fetchers -> Blocks \cup {NoBlock}]
         /\ base \in [Fetchers -> Templates] /\ tpl \in [Fetchers -> Templates]
         /\ job \in [Fetchers -> Jobs] /\ announced \subseteq Jobs /\ pushes \in Nat
         /\ crossed \in BOOLEAN /\ overtaken \in BOOLEAN /\ template.updated \in Nat
         /\ template.map \in MapIds \cup {0} /\ template.block \in Blocks \cup {NoBlock}
BY Constants DEF IInv, Types, Templates

LEMMA JobTimes ==
  ASSUME IInv, NEW m \in MapIds, NEW h \in maps[m].jobs
  PROVE  h.id[1] \in Nat
<1>1. h \in Jobs
  BY DEF IInv, Types
<1>2. h.id \in (0..MaxTime) \X Nat
  BY <1>1 DEF Jobs, JobIds
<1> QED
  BY <1>2, Constants

\* The steps of the nodes, of time and of broadcasts.
LEMMA NewTipInOrder ==
  ASSUME IInv, OrderInv, NEW u \in Upstreams, NewTip(u)
  PROVE  OrderInv'
<1>1. UNCHANGED <<now, template, maps, pc, seen, base, tpl, job, pushes, announced, last, crossed,
                  overtaken>>
  BY DEF NewTip, locals
<1>2. SeesBlock' /\ MadeNow'
  BY <1>1 DEF OrderInv, SeesBlock, MadeNow, Working
<1>3. CASE ~crossed
  <2>1. Alone' /\ Follows'
    BY <1>1, <1>3 DEF OrderInv, InOrder, Alone, Follows, Working
  <2>2. Dated'
    BY <1>1, <1>3 DEF OrderInv, InOrder, Dated, Working
  <2>3. Kept' /\ Told'
    BY <1>1, <1>3 DEF OrderInv, InOrder, Kept, Told, JobsOf
  <2> QED
    BY <1>2, <2>1, <2>2, <2>3 DEF OrderInv, InOrder
<1> QED
  BY <1>1, <1>2, <1>3 DEF OrderInv

LEMMA TickInOrder ==
  ASSUME IInv, OrderInv, Tick
  PROVE  OrderInv'
<1>1. /\ UNCHANGED <<template, maps, pc, seen, base, tpl, job, pushes, announced, last, crossed,
                     overtaken>>
      /\ now' = now + 1 /\ \A f \in Fetchers : ~Working(f)
  BY DEF Tick, locals, Working
<1>2. SeesBlock' /\ MadeNow'
  BY <1>1 DEF OrderInv, SeesBlock, MadeNow, Working
<1>3. CASE ~crossed
  <2>1. /\ Alone /\ Follows /\ Dated /\ Kept /\ Told /\ now \in Nat /\ template.updated \in Nat
        /\ template.updated < now'
    BY <1>1, <1>3, Typed DEF OrderInv, InOrder, Dated
  <2>2. Alone' /\ Follows'
    BY <1>1, <2>1 DEF Alone, Follows, Working
  <2>3. Dated'
    BY <1>1, <2>1 DEF Dated, Working
  <2>4. Kept' /\ Told'
    BY <1>1, <2>1 DEF Kept, Told, JobsOf
  <2> QED
    BY <1>2, <2>2, <2>3, <2>4 DEF OrderInv, InOrder
<1> QED
  BY <1>1, <1>2, <1>3 DEF OrderInv

LEMMA BroadcastInOrder ==
  ASSUME IInv, OrderInv, Broadcast
  PROVE  OrderInv'
<1>1. /\ UNCHANGED <<now, template, maps, pc, seen, base, tpl, job, crossed>>
      /\ announced' \subseteq announced \cup Lookup(template.job)
      /\ \/ last' = [block |-> template.block, clean |-> template.clean]
         \/ UNCHANGED <<last, overtaken>>
  BY DEF Broadcast, locals
<1>2. SeesBlock' /\ MadeNow'
  BY <1>1 DEF OrderInv, SeesBlock, MadeNow, Working
<1>3. CASE ~crossed
  <2>1. Alone /\ Follows /\ Dated /\ Kept
    BY <1>3 DEF OrderInv, InOrder
  <2>2. Alone' /\ Follows' /\ Dated'
    BY <1>1, <2>1 DEF Alone, Follows, Dated, Working
  <2>3. ASSUME NEW j \in Lookup(template.job)
        PROVE  j \in JobsOf(template) /\ j.block = template.block /\ j.block # NoBlock
    BY DEF Lookup, JobsOf, Holders, IInv, MapsInv, Fits, HasMap
  <2>4. Kept'
    <3> SUFFICES ASSUME NEW j \in announced'
                 PROVE  /\ j.block # NoBlock /\ template.block # NoBlock
                        /\ IF j.block = template.block THEN j \in JobsOf(template)
                           ELSE HeightOf[j.block] < HeightOf[template.block]
      BY <1>1 DEF Kept, JobsOf
    <3>1. CASE j \in announced
      BY <2>1, <3>1 DEF Kept
    <3>2. CASE j \in Lookup(template.job)
      BY <2>3, <3>2
    <3> QED
      BY <1>1, <3>1, <3>2
  <2>5. Told'
    BY <1>1, <1>3 DEF OrderInv, InOrder, Told
  <2> QED
    BY <1>2, <2>2, <2>4, <2>5 DEF OrderInv, InOrder
<1> QED
  BY <1>1, <1>2, <1>3 DEF OrderInv

LEMMA GetPrevBlockHashInOrder ==
  ASSUME IInv, OrderInv, NEW f \in Fetchers, GetPrevBlockHash(f)
  PROVE  OrderInv'
<1>1. /\ pc[f] = "idle" /\ pc' = [pc EXCEPT ![f] = "check"]
      /\ \E u \in Upstreams : seen' = [seen EXCEPT ![f] = tip[u]]
      /\ crossed' = (crossed \/ \E g \in Fetchers \ {f} : pc[g] # "idle")
      /\ UNCHANGED <<now, template, maps, base, tpl, job, pushes, announced, last,
                     overtaken>>
  BY DEF GetPrevBlockHash, Goto
<1>2. /\ pc'[f] = "check" /\ seen'[f] \in Blocks
      /\ \A g \in Fetchers \ {f} : pc'[g] = pc[g] /\ seen'[g] = seen[g]
  BY <1>1, Typed
<1>3. SeesBlock' /\ MadeNow'
  BY <1>1, <1>2 DEF OrderInv, SeesBlock, MadeNow, Working
<1>4. CASE ~crossed'
  <2>1. Dated /\ Kept /\ Told /\ \A g \in Fetchers : pc[g] = "idle"
    BY <1>1, <1>4 DEF OrderInv, InOrder
  <2>2. Alone' /\ Follows'
    BY <1>2, <2>1 DEF Alone, Follows, Working
  <2>3. Dated'
    BY <1>1, <1>2, <2>1 DEF Dated, Working
  <2>4. Kept' /\ Told'
    BY <1>1, <2>1 DEF Kept, Told, JobsOf
  <2> QED
    BY <1>3, <2>2, <2>3, <2>4 DEF OrderInv, InOrder
<1> QED
  BY <1>3, <1>4 DEF OrderInv

\* A fetcher returns: the template's map is kept, and nobody else is at work.
LEMMA ReturnInOrder ==
  ASSUME IInv, OrderInv, NEW f \in Fetchers, pc[f] \notin {"txs", "store"}, Forget(f),
         UNCHANGED <<now, template, pushes, announced, last, crossed, overtaken>>,
         template.map # 0 => maps'[template.map].jobs = maps[template.map].jobs,
         \A g \in Fetchers \ {f} : pc[g] # "idle" /\ tpl[g].map # 0 =>
           maps'[tpl[g].map].jobs = maps[tpl[g].map].jobs
  PROVE  OrderInv'
<1>1. /\ pc'[f] = "idle"
      /\ \A g \in Fetchers \ {f} : /\ pc'[g] = pc[g] /\ seen'[g] = seen[g] /\ base'[g] = base[g]
                                   /\ tpl'[g] = tpl[g] /\ job'[g] = job[g]
  BY Typed DEF Forget, Goto
<1>2. SeesBlock' /\ MadeNow'
  BY <1>1 DEF OrderInv, SeesBlock, MadeNow, Working
<1>3. CASE ~crossed
  <2>1. Alone /\ Follows /\ Dated /\ Kept /\ Told
    BY <1>3 DEF OrderInv, InOrder
  <2>2. Alone' /\ Follows'
    BY <1>1, <2>1 DEF Alone, Follows, Working
  <2>3. Dated'
    <3>1. ASSUME NEW g \in Fetchers, Working(g)'
          PROVE  \A h \in maps'[tpl'[g].map].jobs :
                   h.id[1] < now \/ (pc'[g] # "jobs" /\ h = job'[g])
      <4>1. g # f /\ Working(g) /\ tpl'[g] = tpl[g] /\ pc[g] # "idle"
        BY <1>1, <3>1 DEF Working
      <4>2. tpl[g].map # 0
        BY <4>1 DEF IInv, Places, Working
      <4> QED
        BY <1>1, <2>1, <4>1, <4>2 DEF Dated
    <3>2. ASSUME template.map # 0, NEW h \in maps[template.map].jobs
          PROVE  \/ h.id[1] <= template.updated
                 \/ \E g \in Fetchers :
                      pc'[g] \in {"txs", "store"} /\ h = job'[g] /\ tpl'[g].map = template.map
      <4>1. CASE \E g \in Fetchers :
                   pc[g] \in {"txs", "store"} /\ h = job[g] /\ tpl[g].map = template.map
        BY <1>1, <4>1
      <4> QED
        BY <2>1, <3>2, <4>1 DEF Dated
    <3> QED
      BY <2>1, <3>1, <3>2 DEF Dated
  <2>4. Kept'
    BY <2>1 DEF Kept, JobsOf
  <2>5. Told'
    BY <2>1 DEF Told
  <2> QED
    BY <1>2, <2>2, <2>3, <2>4, <2>5 DEF OrderInv, InOrder
<1> QED
  BY <1>2, <1>3 DEF OrderInv

LEMMA CheckFreshInOrder ==
  ASSUME IInv, OrderInv, Interval > 0, NEW f \in Fetchers, CheckFresh(f)
  PROVE  OrderInv'
<1>1. /\ pc[f] = "check"
      /\ UNCHANGED <<tip, now, template, maps, pushes, announced, last, crossed, overtaken>>
  BY DEF CheckFresh
<1>2. CASE Fresh(f)
  <2>1. Forget(f)
    BY <1>2 DEF CheckFresh
  <2> QED
    BY <1>1, <2>1, ReturnInOrder
<1>3. CASE ~Fresh(f)
  <2>1. /\ base' = [base EXCEPT ![f] = template] /\ pc' = [pc EXCEPT ![f] = "pending"]
        /\ UNCHANGED <<seen, tpl, job>>
    BY <1>3 DEF CheckFresh, Goto
  <2>2. /\ base'[f] = template /\ pc'[f] = "pending"
        /\ \A g \in Fetchers \ {f} : pc'[g] = pc[g] /\ base'[g] = base[g]
    BY <2>1, Typed
  <2>3. SeesBlock' /\ MadeNow'
    BY <1>1, <2>1, <2>2 DEF OrderInv, SeesBlock, MadeNow, Working
  <2>4. CASE ~crossed
    <3>1. Alone /\ Follows /\ Dated /\ Kept /\ Told
      BY <2>4 DEF OrderInv, InOrder
    <3>2. Alone'
      BY <1>1, <2>2, <3>1 DEF Alone
    <3>3. seen[f] = template.block => template.updated < now
      BY <1>3, Typed, TemplateAssumption DEF Fresh
    <3>4. Follows'
      BY <1>1, <2>1, <2>2, <3>1, <3>3 DEF Follows, Working
    <3>5. Dated'
      BY <1>1, <2>1, <2>2, <3>1 DEF Dated, Working
    <3>6. Kept' /\ Told'
      BY <1>1, <3>1 DEF Kept, Told, JobsOf
    <3> QED
      BY <2>3, <3>2, <3>4, <3>5, <3>6 DEF OrderInv, InOrder
  <2> QED
    BY <1>1, <2>3, <2>4 DEF OrderInv
<1> QED
  BY <1>2, <1>3

LEMMA GetPendingBlockInOrder ==
  ASSUME IInv, OrderInv, NEW f \in Fetchers, GetPendingBlock(f)
  PROVE  OrderInv'
<1>1. /\ pc[f] = "pending" /\ pc' = [pc EXCEPT ![f] = "jobs"]
      /\ UNCHANGED <<now, template, maps, seen, base, pushes, announced, last, overtaken>>
  BY DEF GetPendingBlock, Goto
<1>2. PICK u \in Upstreams, txs \in TxSets :
        LET b == tip[u]
        IN /\ tpl' = [tpl EXCEPT ![f] =
                 [block |-> b, map |-> IF SharesMap(f, b) THEN base[f].map ELSE FreeMap,
                  job |-> JobId(b), clean |-> NewFlag(f, b), updated |-> now]]
           /\ job' = [job EXCEPT ![f] = [id |-> JobId(b), block |-> b, txs |-> txs]]
           /\ crossed' = (crossed \/ GoesBack(seen[f], base[f].block) \/ GoesBack(b, seen[f]))
  BY DEF GetPendingBlock
<1> DEFINE b == tip[u]
           map == IF SharesMap(f, b) THEN base[f].map ELSE FreeMap
<1>3. b \in Blocks /\ b # NoBlock /\ HeightOf[b] \in Nat
  BY Typed, Constants
<1>4. seen[f] \in Blocks /\ seen[f] # NoBlock /\ HeightOf[seen[f]] \in Nat
  BY <1>1, Constants DEF OrderInv, SeesBlock
<1>5. /\ pc'[f] = "jobs" /\ tpl'[f].block = b /\ tpl'[f].map = map /\ tpl'[f].updated = now
      /\ tpl'[f].clean = (base[f].block # b) /\ job'[f].id[1] = now
      /\ \A g \in Fetchers \ {f} : pc'[g] = pc[g] /\ tpl'[g] = tpl[g] /\ job'[g] = job[g]
  BY <1>1, <1>2, Typed DEF JobId, NewFlag, SharesMap
<1>6. SeesBlock' /\ MadeNow'
  BY <1>1, <1>4, <1>5 DEF OrderInv, SeesBlock, MadeNow, Working
<1>7. CASE ~crossed'
  <2>1. /\ ~crossed /\ ~GoesBack(seen[f], base[f].block) /\ ~GoesBack(b, seen[f])
        /\ Alone /\ Follows /\ Dated /\ Kept /\ Told
    BY <1>2, <1>7 DEF OrderInv, InOrder
  <2>2. base[f] = template /\ \A g \in Fetchers \ {f} : pc[g] = "idle"
    BY <1>1, <2>1 DEF Alone, Follows
  <2>3. template.block # NoBlock => HeightOf[template.block] \in Nat
    BY Typed, Constants
  <2>4. ASSUME b = template.block
        PROVE  Follows' /\ \A h \in maps[map].jobs : h.id[1] < now
    <3>1. seen[f] = b
      BY <1>3, <1>4, <2>1, <2>2, <2>3, <2>4 DEF GoesBack
    <3>2. template.updated < now /\ map = template.map
      BY <1>1, <2>1, <2>2, <2>4, <3>1 DEF Follows, SharesMap
    <3>3. template.map # 0
      BY <1>3, <2>4 DEF IInv, MapsInv, HasMap, Holders
    <3>4. \A h \in maps[map].jobs : h.id[1] < now
      <4> SUFFICES ASSUME NEW h \in maps[template.map].jobs PROVE h.id[1] < now
        BY <3>2
      <4>1. h.id[1] <= template.updated
        BY <1>1, <2>1, <2>2, <3>3 DEF Dated
      <4>2. h.id[1] \in Nat
        BY <3>3, Typed, JobTimes
      <4> QED
        BY <3>2, <4>1, <4>2, Typed
    <3>5. Follows'
      BY <1>1, <1>5, <2>1, <2>2, <2>4, <3>2 DEF Follows, Working
    <3> QED
      BY <3>4, <3>5
  <2>5. ASSUME b # template.block
        PROVE  Follows' /\ \A h \in maps[map].jobs : h.id[1] < now
    <3>1. map = FreeMap
      BY <2>2, <2>5 DEF SharesMap
    <3>2. FreeMap \in MapIds /\ \A t \in Holders : t.map # FreeMap
      <4>1. tpl[f] = NoTemplate
        BY <1>1 DEF IInv, Places
      <4> QED
        BY <4>1, FreeMapIsFree
    <3>3. maps[map].jobs = {} /\ map # template.map
      BY <3>1, <3>2 DEF IInv, MapsInv, Unused, Holders
    <3>4. template.block = NoBlock \/ HeightOf[template.block] < HeightOf[b]
      BY <1>3, <1>4, <2>1, <2>2, <2>3, <2>5 DEF GoesBack
    <3>5. tpl'[f].clean
      BY <1>5, <2>2, <2>5
    <3> HIDE DEF map
    <3>6. Follows'
      BY <1>1, <1>5, <2>1, <2>2, <2>5, <3>3, <3>4, <3>5 DEF Follows, Working
    <3> QED
      BY <3>3, <3>6
  <2>6. Follows' /\ \A h \in maps[map].jobs : h.id[1] < now
    BY <2>4, <2>5
  <2>7. Alone'
    BY <1>5, <2>2 DEF Alone
  <2> HIDE DEF map
  <2>8. Dated'
    <3>1. \A g \in Fetchers : pc[g] \in {"txs", "store"} =>
            pc'[g] = pc[g] /\ job'[g] = job[g] /\ tpl'[g] = tpl[g]
      BY <1>1, <1>5
    <3>2. \A g \in Fetchers : Working(g)' => g = f
      BY <1>5, <2>2 DEF Working
    <3> QED
      BY <1>1, <1>5, <2>1, <2>6, <3>1, <3>2 DEF Dated
  <2>9. Kept' /\ Told'
    BY <1>1, <2>1 DEF Kept, Told, JobsOf
  <2> QED
    BY <1>6, <2>6, <2>7, <2>8, <2>9 DEF OrderInv, InOrder
<1>8. crossed' \in BOOLEAN
  BY <1>2, Typed DEF GoesBack
<1> QED
  BY <1>6, <1>7, <1>8 DEF OrderInv

\* The id of the job is of this second, so it takes no other job's place.
LEMMA WriteJobInOrder ==
  ASSUME IInv, OrderInv, NEW f \in Fetchers, WriteJob(f)
  PROVE  OrderInv'
<1> DEFINE m == tpl[f].map
           others == {j \in maps[m].jobs : j.id # job[f].id}
<1>1. /\ pc[f] = "jobs" /\ pc' = [pc EXCEPT ![f] = "txs"]
      /\ UNCHANGED <<now, template, seen, base, tpl, job, pushes, announced, last, crossed,
                     overtaken>>
      /\ maps' = [maps EXCEPT ![m].jobs = others \cup {job[f]}]
  BY DEF WriteJob, Goto, locals, PutJob
<1>2. m \in MapIds
  BY <1>1, Typed DEF IInv, Places, Templates
<1>3. /\ maps'[m].jobs = others \cup {job[f]}
      /\ \A k \in MapIds \ {m} : maps'[k].jobs = maps[k].jobs
  BY <1>1, <1>2 DEF IInv, Types
<1>4. pc'[f] = "txs" /\ \A g \in Fetchers \ {f} : pc'[g] = pc[g]
  BY <1>1, Typed
<1>5. SeesBlock' /\ MadeNow'
  BY <1>1, <1>4 DEF OrderInv, SeesBlock, MadeNow, Working
<1>6. CASE ~crossed
  <2>1. Alone /\ Follows /\ Dated /\ Kept /\ Told /\ job[f].id[1] = now
    BY <1>1, <1>6 DEF OrderInv, InOrder, MadeNow, Working
  <2>2. \A g \in Fetchers \ {f} : pc[g] = "idle"
    BY <1>1, <2>1 DEF Alone
  <2>3. Alone' /\ Follows'
    BY <1>1, <1>4, <2>1 DEF Alone, Follows, Working
  <2>4. \A h \in maps[m].jobs : h.id[1] < now
    BY <1>1, <2>1 DEF Dated, Working
  <2>5. template.map \in MapIds \cup {0}
    BY Typed
  <2> DEFINE old == maps[template.map].jobs
             new == maps'[template.map].jobs
  <2>6. template.map # 0 => /\ \A h \in new : h \in old \/ (h = job[f] /\ template.map = m)
                            /\ \A h \in old : h.id[1] <= template.updated
    BY <1>1, <1>3, <2>1, <2>2, <2>5 DEF Dated
  <2>7. template.map # 0 => \A h \in old : h \in new \/ (template.map = m /\ h.id = job[f].id)
    BY <1>3, <2>5
  <2> HIDE DEF others
  <2>8. Dated'
    <3>1. ASSUME NEW g \in Fetchers, Working(g)', NEW h \in maps'[tpl[g].map].jobs
          PROVE  h.id[1] < now \/ (pc'[g] # "jobs" /\ h = job[g])
      <4>1. g = f
        BY <1>4, <2>2, <3>1 DEF Working
      <4> QED
        BY <1>3, <1>4, <2>4, <3>1, <4>1 DEF others
    <3> HIDE DEF m
    <3>2. ASSUME template.map # 0, NEW h \in new
          PROVE  \/ h.id[1] <= template.updated
                 \/ \E g \in Fetchers :
                      pc'[g] \in {"txs", "store"} /\ h = job[g] /\ tpl[g].map = template.map
      BY <1>4, <2>6, <3>2 DEF m
    <3> QED
      BY <1>1, <2>1, <3>1, <3>2 DEF Dated
  <2>9. Kept'
    <3> SUFFICES ASSUME NEW j \in announced, j.block = template.block
                 PROVE  j \in JobsOf(template)'
      BY <1>1, <2>1 DEF Kept
    <3>1. j \in old /\ template.map # 0
      BY <2>1 DEF Kept, JobsOf
    <3>2. ~(template.map = m /\ j.id = job[f].id)
      <4>1. ASSUME template.map = m, j.id = job[f].id PROVE FALSE
        <5>1. j.id[1] < now /\ j.id[1] = now
          BY <2>1, <2>4, <3>1, <4>1
        <5> QED
          BY <5>1, Typed
      <4> QED
        BY <4>1
    <3> QED
      BY <1>1, <2>7, <3>1, <3>2 DEF JobsOf
  <2>10. Told'
    BY <1>1, <2>1 DEF Told
  <2> QED
    BY <1>5, <2>3, <2>8, <2>9, <2>10 DEF OrderInv, InOrder
<1> QED
  BY <1>1, <1>5, <1>6 DEF OrderInv

LEMMA WriteTxsInOrder ==
  ASSUME IInv, OrderInv, NEW f \in Fetchers, WriteTxs(f)
  PROVE  OrderInv'
<1> DEFINE m == tpl[f].map
<1>1. /\ pc[f] = "txs" /\ pc' = [pc EXCEPT ![f] = "store"]
      /\ UNCHANGED <<now, template, seen, base, tpl, job, pushes, announced, last, crossed,
                     overtaken>>
      /\ maps' = [maps EXCEPT ![m].txs = maps[m].txs \cup job[f].txs]
  BY DEF WriteTxs, Goto, locals, PutTxs
<1>2. \A k \in MapIds : maps'[k].jobs = maps[k].jobs
  BY <1>1 DEF IInv, Types
<1>3. pc'[f] = "store" /\ \A g \in Fetchers \ {f} : pc'[g] = pc[g]
  BY <1>1, Typed
<1> HIDE DEF m
<1>4. SeesBlock' /\ MadeNow'
  BY <1>1, <1>3 DEF OrderInv, SeesBlock, MadeNow, Working
<1>5. CASE ~crossed
  <2>1. Alone /\ Follows /\ Dated /\ Kept /\ Told
    BY <1>5 DEF OrderInv, InOrder
  <2>2. Alone' /\ Follows'
    BY <1>1, <1>3, <2>1 DEF Alone, Follows, Working
  <2>3. template.map # 0 => maps'[template.map].jobs = maps[template.map].jobs
    BY <1>2, Typed
  <2>4. Dated'
    <3>1. ASSUME NEW g \in Fetchers, Working(g)'
          PROVE  \A h \in maps'[tpl[g].map].jobs : h.id[1] < now \/ (pc'[g] # "jobs" /\ h = job[g])
      <4>1. Working(g) /\ (pc[g] # "jobs" => pc'[g] # "jobs")
        BY <1>1, <1>3, <3>1 DEF Working
      <4>2. tpl[g].map \in MapIds
        BY <4>1, Typed DEF IInv, Places, Templates, Working
      <4> QED
        BY <1>2, <2>1, <4>1, <4>2 DEF Dated
    <3>2. ASSUME NEW g \in Fetchers, pc[g] \in {"txs", "store"} PROVE pc'[g] \in {"txs", "store"}
      BY <1>3, <3>2
    <3> QED
      BY <1>1, <2>1, <2>3, <3>1, <3>2 DEF Dated
  <2>5. Kept' /\ Told'
    BY <1>1, <2>1, <2>3 DEF Kept, Told, JobsOf
  <2> QED
    BY <1>4, <2>2, <2>4, <2>5 DEF OrderInv, InOrder
<1> QED
  BY <1>1, <1>4, <1>5 DEF OrderInv

\* What is kept of the maps.
LEMMA CollectedJobs ==
  ASSUME IInv, NEW f \in Fetchers, NEW t, maps' = Collected(f, t)
  PROVE  /\ t.map \in MapIds => maps'[t.map].jobs = maps[t.map].jobs
         /\ \A g \in Fetchers \ {f} : tpl[g].map # 0 =>
              maps'[tpl[g].map].jobs = maps[tpl[g].map].jobs
<1>1. \A m \in MapIds : m \in {t.map} \cup HeldBy(Fetchers \ {f}) => maps'[m] = maps[m]
  BY DEF Collected
<1>2. \A g \in Fetchers \ {f} : tpl[g].map # 0 =>
        tpl[g].map \in MapIds /\ tpl[g].map \in HeldBy(Fetchers \ {f})
  BY Typed DEF HeldBy, Templates
<1> QED
  BY <1>1, <1>2

LEMMA StoreInOrder ==
  ASSUME IInv, OrderInv, NEW f \in Fetchers, Store(f)
  PROVE  OrderInv'
<1>1. /\ pc[f] = "store" /\ template' = tpl[f] /\ pushes' = pushes + 1
      /\ Forget(f) /\ maps' = Collected(f, tpl[f])
      /\ overtaken' = (tpl[f].block = template.block /\ last.block # template.block)
      /\ UNCHANGED <<now, announced, last, crossed>>
  BY DEF Store
<1>2. /\ pc'[f] = "idle"
      /\ \A g \in Fetchers \ {f} : /\ pc'[g] = pc[g] /\ seen'[g] = seen[g] /\ base'[g] = base[g]
                                   /\ tpl'[g] = tpl[g] /\ job'[g] = job[g]
  BY <1>1, Typed DEF Forget, Goto
<1>3. SeesBlock' /\ MadeNow'
  BY <1>1, <1>2 DEF OrderInv, SeesBlock, MadeNow, Working
<1>4. tpl[f].map \in MapIds /\ tpl[f].map # 0 /\ tpl[f].block \in Blocks
  <2>1. tpl[f].map # 0 /\ tpl[f] \in Holders
    BY <1>1 DEF IInv, Places, Holders
  <2> QED
    BY <2>1, Typed DEF IInv, MapsInv, HasMap, Templates
<1>5. maps'[tpl[f].map].jobs = maps[tpl[f].map].jobs
  BY <1>1, <1>4, CollectedJobs
<1>6. CASE ~crossed
  <2>1. /\ Alone /\ Follows /\ Dated /\ Kept /\ Told /\ Working(f)
        /\ tpl[f].updated = now /\ job[f].id[1] = now
    BY <1>1, <1>6 DEF OrderInv, InOrder, MadeNow, Working
  <2>2. \A g \in Fetchers : pc'[g] = "idle"
    BY <1>1, <1>2, <2>1 DEF Alone
  <2>3. Alone' /\ Follows'
    BY <2>2 DEF Alone, Follows, Working
  <2>4. Dated'
    <3>1. \A h \in maps[tpl[f].map].jobs : h.id[1] < now \/ h.id[1] = now
      BY <2>1 DEF Dated
    <3>2. \A h \in maps[tpl[f].map].jobs : h.id[1] \in Nat
      BY <1>4, JobTimes
    <3>3. \A h \in maps[tpl[f].map].jobs : h.id[1] <= now
      BY <3>1, <3>2, Typed
    <3> QED
      BY <1>1, <1>5, <2>1, <2>2, <3>3, Typed DEF Dated, Working
  <2>5. Kept'
    <3> SUFFICES ASSUME NEW j \in announced
                 PROVE  /\ j.block # NoBlock /\ tpl[f].block # NoBlock
                        /\ IF j.block = tpl[f].block THEN j \in maps[tpl[f].map].jobs
                           ELSE HeightOf[j.block] < HeightOf[tpl[f].block]
      BY <1>1, <1>4, <1>5 DEF Kept, JobsOf
    <3>1. /\ j.block # NoBlock /\ template.block # NoBlock /\ tpl[f].block # NoBlock
          /\ j.block \in Blocks /\ template.block \in Blocks
      BY <1>4, <2>1, Typed, Constants DEF Kept, Jobs
    <3>2. /\ HeightOf[j.block] \in Nat /\ HeightOf[template.block] \in Nat
          /\ HeightOf[tpl[f].block] \in Nat
      BY <1>4, <3>1, Constants
    <3>3. IF j.block = template.block THEN j \in JobsOf(template)
          ELSE HeightOf[j.block] < HeightOf[template.block]
      BY <2>1 DEF Kept
    <3>4. CASE tpl[f].block = template.block
      <4>1. tpl[f].map = template.map
        BY <2>1, <3>4 DEF Follows
      <4> QED
        BY <1>4, <3>1, <3>3, <3>4, <4>1 DEF JobsOf
    <3>5. CASE tpl[f].block # template.block
      <4>1. HeightOf[template.block] < HeightOf[tpl[f].block]
        BY <2>1, <3>1, <3>5 DEF Follows
      <4>2. HeightOf[j.block] < HeightOf[tpl[f].block]
        BY <3>2, <3>3, <4>1
      <4>3. j.block # tpl[f].block
        BY <3>2, <4>2
      <4> QED
        BY <3>1, <4>2, <4>3
    <3> QED
      BY <3>4, <3>5
  <2>6. Told'
    <3>1. tpl[f].clean \/ tpl[f].block = template.block
      BY <2>1 DEF Follows
    <3> QED
      BY <1>1, <3>1 DEF Told
  <2> QED
    BY <1>3, <2>3, <2>4, <2>5, <2>6 DEF OrderInv, InOrder
<1> QED
  BY <1>1, <1>3, <1>6 DEF OrderInv

LEMMA FetchFailsInOrder ==
  ASSUME IInv, OrderInv, NEW f \in Fetchers, FetchFails(f)
  PROVE  OrderInv'
<1>1. /\ pc[f] \notin {"txs", "store"} /\ Forget(f) /\ maps' = Collected(f, template)
      /\ UNCHANGED <<now, template, pushes, announced, last, crossed, overtaken>>
  BY DEF FetchFails
<1>2. template.map # 0 => maps'[template.map].jobs = maps[template.map].jobs
  BY <1>1, Typed, CollectedJobs
<1>3. \A g \in Fetchers \ {f} : pc[g] # "idle" /\ tpl[g].map # 0 =>
        maps'[tpl[g].map].jobs = maps[tpl[g].map].jobs
  BY <1>1, CollectedJobs
<1> QED
  BY <1>1, <1>2, <1>3, ReturnInOrder

\* Nothing is under way, known or announced.
Beginning ==
  /\ template = NoTemplate /\ \A f \in Fetchers : pc[f] = "idle"
  /\ pushes = 0 /\ announced = {} /\ last.block = NoBlock /\ now \in Nat

LEMMA OrderAtStart == Beginning => OrderInv
<1> SUFFICES ASSUME Beginning PROVE OrderInv
  OBVIOUS
<1>1. template.map = 0 /\ template.updated = 0 /\ template.block = NoBlock
  BY DEF Beginning, NoTemplate
<1>2. 0 <= now
  BY DEF Beginning
<1>3. SeesBlock /\ MadeNow /\ Alone /\ Follows
  BY DEF Beginning, SeesBlock, MadeNow, Alone, Follows, Working
<1>4. Dated
  BY <1>1, <1>2 DEF Beginning, Dated, Working
<1>5. Kept /\ Told
  BY <1>1 DEF Beginning, Kept, Told
<1> QED
  BY <1>3, <1>4, <1>5 DEF OrderInv, InOrder

LEMMA PanicInOrder ==
  ASSUME IInv, Panic
  PROVE  OrderInv'
<1>1. Beginning'
  BY Typed DEF Panic, Started, Beginning
<1> QED
  BY <1>1, OrderAtStart, PTL

LEMMA InitInOrder == Init => OrderInv
<1> SUFFICES ASSUME Init PROVE OrderInv
  OBVIOUS
<1>1. Beginning
  BY DEF Init, Beginning
<1> QED
  BY <1>1, OrderAtStart

LEMMA NextInOrder ==
  ASSUME Interval > 0
  PROVE  IInv /\ OrderInv /\ [Next]_vars => OrderInv'
<1> SUFFICES ASSUME IInv, OrderInv, [Next]_vars PROVE OrderInv'
  OBVIOUS
<1>1. CASE UNCHANGED vars
  <2>1. UNCHANGED <<now, template, maps, pc, seen, base, tpl, job, pushes, announced, last,
                    crossed, overtaken>>
    BY <1>1 DEF vars, locals
  <2>2. SeesBlock' /\ MadeNow' /\ (Alone => Alone') /\ (Follows => Follows')
    BY <2>1 DEF OrderInv, SeesBlock, MadeNow, Alone, Follows, Working
  <2>3. (Dated => Dated') /\ (Kept => Kept') /\ (Told => Told')
    BY <2>1 DEF Dated, Kept, Told, JobsOf, Working
  <2> QED
    BY <2>1, <2>2, <2>3 DEF OrderInv, InOrder
<1>2. ASSUME NEW f \in Fetchers, GetPrevBlockHash(f) \/ Proceed(f) \/ FetchFails(f)
      PROVE  OrderInv'
  BY <1>2, GetPrevBlockHashInOrder, CheckFreshInOrder, GetPendingBlockInOrder,
     WriteJobInOrder, WriteTxsInOrder, StoreInOrder, FetchFailsInOrder DEF Proceed
<1>3. ASSUME NEW u \in Upstreams, NewTip(u) PROVE OrderInv'
  BY <1>3, NewTipInOrder
<1> QED
  BY <1>1, <1>2, <1>3, TickInOrder, BroadcastInOrder, PanicInOrder DEF Next

\* Fetches that do not overlap keep to the order, when a template is not
\* refreshed twice a second.
THEOREM OrderInvariance ==
  ASSUME Interval > 0
  PROVE  Spec => [](IInv /\ OrderInv)
<1>1. Init => IInv /\ OrderInv
  BY InitIInv, InitInOrder
<1>2. (IInv /\ OrderInv) /\ [Next]_vars => (IInv /\ OrderInv)'
  BY NextIInv, NextInOrder
<1> QED
  BY <1>1, <1>2, PTL DEF Spec

\* Work on an announced job of the template's block is judged valid, until two
\* fetches overlap or a node is asked that is behind (fetchBlockTemplate,
\* processShare): for any number of fetchers and nodes, whoever fetches next.
THEOREM AnnouncedStayValid ==
  ASSUME Interval > 0
  PROVE  Spec => []JobsStayValid
<1>1. IInv /\ OrderInv => JobsStayValid
  <2> SUFFICES ASSUME IInv, OrderInv, ~crossed, NEW j \in announced, j.block = template.block
               PROVE  Verdict(j) = "valid"
    BY DEF JobsStayValid
  <2>1. j \in JobsOf(template)
    BY DEF OrderInv, InOrder, Kept
  <2>2. j \in Lookup(j.id) /\ HashFits(j, j)
    BY <2>1 DEF Lookup, HashFits
  <2> QED
    BY <2>2 DEF Verdict
<1> QED
  BY <1>1, OrderInvariance, PTL

\* Miners are told to drop their jobs whenever the block changes, however late
\* broadcasts run and whichever of them send nothing, until fetches overlap or nodes
\* disagree; but for a block whose first template was refreshed before any broadcast
\* sent its job (fetchBlockTemplate, broadcastNewJobs).
THEOREM CleanIsSent ==
  ASSUME Interval > 0
  PROVE  Spec => CleanOnNewBlock
<1> DEFINE Step == last'.block # last.block => last'.clean \/ crossed \/ overtaken
<1>1. IInv /\ OrderInv /\ [Next]_vars => [Step]_last
  <2> SUFFICES ASSUME IInv, OrderInv, [Next]_vars, last' # last PROVE Step
    OBVIOUS
  <2>1. Broadcast \/ Panic
    BY DEF Next, vars, NewTip, Tick, GetPrevBlockHash, Proceed, CheckFresh, GetPendingBlock,
           WriteJob, WriteTxs, Store, FetchFails
  <2>2. CASE Broadcast
    BY <2>2 DEF Broadcast, OrderInv, InOrder, Told
  <2>3. CASE Panic
    BY <2>3 DEF Panic, Started
  <2> QED
    BY <2>1, <2>2, <2>3
<1> QED
  BY <1>1, OrderInvariance, PTL DEF Spec, CleanOnNewBlock

=============================================================================
