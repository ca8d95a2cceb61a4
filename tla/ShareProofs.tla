---------------------------- MODULE ShareProofs ----------------------------
(***************************************************************************)
(* Invariance proofs for ShareLedger, for every set of sessions, works and   *)
(* keys: how far checkPoWExist keeps credits apart, when it keeps a work     *)
(* from being credited twice, and that an accepted block is recorded.        *)
(***************************************************************************)
EXTENDS ShareLedger, Sums

Types ==
  /\ nodeHeight \in FirstHeight..MaxHeight
  /\ template \in FirstHeight..MaxHeight /\ newest \in FirstHeight..MaxHeight
  /\ pc \in [Sessions -> BusyPcs \cup {"idle"}]
  /\ work \in [Sessions -> Works]
  /\ pow \in [Keys -> {0} \cup FirstHeight..MaxHeight]
  /\ credited \in [Works -> Nat]

\* Nothing is read from a template that is too late, or handled too late.
InTime ==
  /\ template <= newest /\ newest <= nodeHeight /\ newest <= template + MaxLag
  /\ \A s \in Busy : HeightOf[work[s]] <= newest /\ newest <= HeightOf[work[s]] + MaxLag

\* A session that has passed checkPoWExist and not yet credited its work.
Claims(s, w) == pc[s] \in {"share", "block"} /\ work[s] = w
Taken(w) == credited[w] > 0 \/ \E s \in Sessions : Claims(s, w)

\* How far below a work's height the score of its key may be brought by another
\* work: by the lag, or not at all when works with one key have one height.
Near(D) ==
  \/ D = MaxLag
  \/ \A v, w \in Works : KeyOf[v] = KeyOf[w] => HeightOf[w] <= HeightOf[v] + D

\* The key of a taken work is in pow with a score that is high enough, or the
\* chain has gone on.
Remembered(D) ==
  \A w \in Works : Taken(w) =>
    /\ HeightOf[w] <= newest
    /\ \/ pow[KeyOf[w]] # 0 /\ HeightOf[w] <= pow[KeyOf[w]] + D
       \/ newest > HeightOf[w] + Window - D

\* Taken works with one key are apart.
Apart(D) ==
  \A v, w \in Works :
    (v # w /\ KeyOf[v] = KeyOf[w] /\ Taken(v) /\ Taken(w)) =>
      \/ HeightOf[w] - HeightOf[v] > Window - D - MaxLag
      \/ HeightOf[v] - HeightOf[w] > Window - D - MaxLag

\* A work is claimed by one session or credited once.
Single ==
  \A w \in Works :
    /\ credited[w] <= 1
    /\ \A s \in Sessions : Claims(s, w) => credited[w] = 0
    /\ \A s, t \in Sessions : Claims(s, w) /\ Claims(t, w) => s = t

KeyInv(D) == Types /\ InTime /\ Remembered(D) /\ Apart(D)

-----------------------------------------------------------------------------
(* Lemmas.                                                                  *)

LEMMA Heights ==
  /\ FirstHeight \in Nat /\ FirstHeight # 0 /\ MaxHeight \in Nat /\ MaxLag \in Nat
  /\ \A w \in Works : HeightOf[w] \in FirstHeight..MaxHeight /\ HeightOf[w] # 0
  /\ \A w \in Works : KeyOf[w] \in Keys
BY HeightAssumption, WorkAssumption DEF Window

\* What a template that is stored keeps in time.
LEMMA StoreInTime ==
  ASSUME Types, InTime, NEW h \in FirstHeight..MaxHeight, StoreTemplate(h),
         nodeHeight' = nodeHeight, work' = work,
         \A s \in Sessions : pc'[s] # "idle" => pc[s] # "idle"
  PROVE  /\ newest <= newest' /\ newest' \in FirstHeight..MaxHeight
         /\ template' \in FirstHeight..MaxHeight
         /\ InTime'
<1>1. /\ h <= nodeHeight /\ newest <= h + MaxLag /\ template' = h
      /\ newest' = IF h > newest THEN h ELSE newest
      /\ \A s \in Busy : newest' <= HeightOf[work[s]] + MaxLag
  BY DEF StoreTemplate
<1>2. newest \in Nat /\ h \in Nat /\ MaxLag \in Nat /\ nodeHeight \in Nat
  BY Heights DEF Types
<1>3. newest <= newest' /\ newest' \in FirstHeight..MaxHeight
  BY <1>1, <1>2 DEF Types
<1>4. template' <= newest' /\ newest' <= nodeHeight' /\ newest' <= template' + MaxLag
  BY <1>1, <1>2 DEF InTime
<1>5. ASSUME NEW s \in Busy'
      PROVE  HeightOf[work'[s]] <= newest' /\ newest' <= HeightOf[work'[s]] + MaxLag
  <2>1. s \in Busy
    BY <1>5 DEF Busy
  <2>2. HeightOf[work[s]] \in Nat
    BY <2>1, Heights DEF Types, Busy
  <2>3. HeightOf[work[s]] <= newest
    BY <2>1 DEF InTime
  <2> QED
    BY <1>1, <1>2, <1>3, <2>1, <2>2, <2>3
<1> QED
  BY <1>1, <1>3, <1>4, <1>5 DEF InTime

\* A step after which fewer sessions are busy.
LEMMA StaysInTime ==
  ASSUME Types, InTime, UNCHANGED <<template, newest>>, work' = work,
         nodeHeight' \in FirstHeight..MaxHeight, nodeHeight <= nodeHeight',
         \A s \in Sessions : pc'[s] # "idle" => pc[s] # "idle"
  PROVE  InTime'
<1>1. newest' <= nodeHeight'
  BY Heights DEF Types, InTime
<1>2. Busy' \subseteq Busy
  BY DEF Busy
<1> QED
  BY <1>1, <1>2 DEF InTime

\* A step after which no more works are taken and the chain is as far at least.
LEMMA FewerTaken ==
  ASSUME NEW D \in Nat, Types, Remembered(D), Apart(D), pow' = pow,
         newest <= newest', newest' \in FirstHeight..MaxHeight,
         \A w \in Works : Taken(w)' => Taken(w)
  PROVE  Remembered(D)' /\ Apart(D)'
<1>1. Apart(D)'
  BY DEF Apart
<1>2. ASSUME NEW w \in Works, Taken(w)'
      PROVE  /\ HeightOf[w] <= newest'
             /\ \/ pow'[KeyOf[w]] # 0 /\ HeightOf[w] <= pow'[KeyOf[w]] + D
                \/ newest' > HeightOf[w] + Window - D
  <2>1. /\ HeightOf[w] <= newest
        /\ \/ pow[KeyOf[w]] # 0 /\ HeightOf[w] <= pow[KeyOf[w]] + D
           \/ newest > HeightOf[w] + Window - D
    BY <1>2 DEF Remembered
  <2>2. HeightOf[w] \in Nat /\ newest \in Nat /\ newest' \in Nat
    BY Heights DEF Types
  <2> QED
    BY <2>1, <2>2 DEF Window
<1> QED
  BY <1>1, <1>2 DEF Remembered

\* A session that does not claim after its step does not take.
LEMMA NoClaim ==
  ASSUME Types, NEW s \in Sessions, NEW label, label \notin {"share", "block"},
         pc' = [pc EXCEPT ![s] = label],
         \A t \in Sessions \ {s} : work'[t] = work[t],
         credited' = credited
  PROVE  /\ \A t \in Sessions, w \in Works : Claims(t, w)' => Claims(t, w)
         /\ \A w \in Works : Taken(w)' => Taken(w)
<1>1. \A t \in Sessions, w \in Works : Claims(t, w)' => Claims(t, w)
  BY DEF Types, Claims
<1> QED
  BY <1>1 DEF Taken

\* Single depends on claims and credits.
LEMMA SingleKept ==
  ASSUME Single, credited' = credited,
         \A t \in Sessions, w \in Works : Claims(t, w)' => Claims(t, w)
  PROVE  Single'
BY DEF Single

-----------------------------------------------------------------------------
(* Steps that leave the keys alone.                                         *)

\* A session goes on to a call that is not a claim, or returns.
LEMMA QuietStep ==
  ASSUME NEW D \in Nat, KeyInv(D), NEW s \in Sessions, NEW label \in BusyPcs \cup {"idle"},
         label \notin {"share", "block"}, pc[s] # "idle",
         pc' = [pc EXCEPT ![s] = label],
         UNCHANGED <<template, newest, work, credited, pow>>,
         nodeHeight' \in FirstHeight..MaxHeight, nodeHeight <= nodeHeight'
  PROVE  KeyInv(D)' /\ (Single => Single')
<1>1. Types'
  BY DEF KeyInv, Types
<1>2. /\ \A t \in Sessions, w \in Works : Claims(t, w)' => Claims(t, w)
      /\ \A w \in Works : Taken(w)' => Taken(w)
  BY NoClaim DEF KeyInv
<1>3. \A t \in Sessions : pc'[t] # "idle" => pc[t] # "idle"
  BY DEF KeyInv, Types
<1>4. InTime'
  BY <1>3, StaysInTime DEF KeyInv
<1>5. newest <= newest' /\ newest' \in FirstHeight..MaxHeight
  BY Heights DEF KeyInv, Types
<1>6. Remembered(D)' /\ Apart(D)'
  BY <1>2, <1>5, FewerTaken DEF KeyInv
<1> QED
  BY <1>1, <1>2, <1>4, <1>6, SingleKept DEF KeyInv

LEMMA SubmitBlockStep ==
  ASSUME NEW D \in Nat, KeyInv(D), NEW s \in Sessions, SubmitBlock(s)
  PROVE  KeyInv(D)' /\ (Single => Single')
<1>1. /\ pc[s] = "submit"
      /\ UNCHANGED <<template, newest, work, credited, pow>>
      /\ \/ pc' = [pc EXCEPT ![s] = "refresh"] /\ nodeHeight' = nodeHeight + 1
            /\ nodeHeight < MaxHeight
         \/ pc' = [pc EXCEPT ![s] = "idle"] /\ nodeHeight' = nodeHeight
  BY DEF SubmitBlock, NodeTakes, Goto, Finish, nodeVars, templateVars, redisVars, roundVars
<1>2. nodeHeight' \in FirstHeight..MaxHeight /\ nodeHeight <= nodeHeight'
  BY <1>1, Heights DEF KeyInv, Types
<1>3. CASE pc' = [pc EXCEPT ![s] = "refresh"]
  BY <1>1, <1>2, <1>3, QuietStep DEF BusyPcs
<1>4. CASE pc' = [pc EXCEPT ![s] = "idle"]
  BY <1>1, <1>2, <1>4, QuietStep DEF BusyPcs
<1> QED
  BY <1>1, <1>3, <1>4

LEMMA SubmitReplyLostStep ==
  ASSUME NEW D \in Nat, KeyInv(D), NEW s \in Sessions, SubmitReplyLost(s)
  PROVE  KeyInv(D)' /\ (Single => Single')
<1>1. /\ pc[s] = "submit" /\ pc' = [pc EXCEPT ![s] = "idle"]
      /\ UNCHANGED <<template, newest, work, credited, pow>>
      /\ nodeHeight' = nodeHeight + 1 /\ nodeHeight < MaxHeight
  BY DEF SubmitReplyLost, NodeTakes, Goto, Finish, templateVars, redisVars, roundVars
<1>2. nodeHeight' \in FirstHeight..MaxHeight /\ nodeHeight <= nodeHeight'
  BY <1>1, Heights DEF KeyInv, Types
<1> QED
  BY <1>1, <1>2, QuietStep DEF BusyPcs

LEMMA AddCandidateStep ==
  ASSUME NEW D \in Nat, KeyInv(D), NEW s \in Sessions, AddCandidate(s)
  PROVE  KeyInv(D)' /\ (Single => Single')
<1>1. /\ pc[s] = "candidate" /\ pc' = [pc EXCEPT ![s] = "idle"]
      /\ UNCHANGED <<template, newest, work, credited, pow, nodeHeight>>
  BY DEF AddCandidate, Goto, Finish, templateVars, nodeVars, roundVars
<1>2. nodeHeight' \in FirstHeight..MaxHeight /\ nodeHeight <= nodeHeight'
  BY <1>1, Heights DEF KeyInv, Types
<1> QED
  BY <1>1, <1>2, QuietStep DEF BusyPcs

LEMMA ExpireFailsStep ==
  ASSUME NEW D \in Nat, KeyInv(D), NEW s \in Sessions, ExpireFails(s)
  PROVE  KeyInv(D)' /\ (Single => Single')
<1>1. /\ pc[s] = "expire" /\ pc' = [pc EXCEPT ![s] = "check"]
      /\ UNCHANGED <<template, newest, work, credited, pow, nodeHeight>>
  BY DEF ExpireFails, Goto, templateVars, nodeVars, redisVars, roundVars
<1>2. nodeHeight' \in FirstHeight..MaxHeight /\ nodeHeight <= nodeHeight'
  BY <1>1, Heights DEF KeyInv, Types
<1> QED
  BY <1>1, <1>2, QuietStep DEF BusyPcs

\* A template is stored, by the timer or after a block.
LEMMA StoreStep ==
  ASSUME NEW D \in Nat, KeyInv(D), NEW h \in FirstHeight..MaxHeight, StoreTemplate(h),
         UNCHANGED <<nodeHeight, work, credited, pow>>,
         pc' = pc \/ \E s \in Busy : pc' = [pc EXCEPT ![s] = "expire"]
  PROVE  KeyInv(D)' /\ (Single => Single')
<1>1. /\ \A t \in Sessions : pc'[t] # "idle" => pc[t] # "idle"
      /\ pc' \in [Sessions -> BusyPcs \cup {"idle"}]
  BY DEF KeyInv, Types, Busy, BusyPcs
<1>2. /\ newest <= newest' /\ newest' \in FirstHeight..MaxHeight
      /\ template' \in FirstHeight..MaxHeight /\ InTime'
  BY <1>1, StoreInTime DEF KeyInv
<1>3. Types'
  BY <1>1, <1>2 DEF KeyInv, Types
<1>4. /\ \A t \in Sessions, w \in Works : Claims(t, w)' => Claims(t, w)
      /\ \A w \in Works : Taken(w)' => Taken(w)
  <2>1. CASE pc' = pc
    BY <2>1 DEF Claims, Taken
  <2>2. CASE \E s \in Busy : pc' = [pc EXCEPT ![s] = "expire"]
    <3>1. PICK s \in Busy : pc' = [pc EXCEPT ![s] = "expire"]
      BY <2>2
    <3> QED
      BY <3>1, NoClaim DEF KeyInv, Busy
  <2> QED
    BY <2>1, <2>2
<1>5. Remembered(D)' /\ Apart(D)'
  BY <1>2, <1>4, FewerTaken DEF KeyInv
<1> QED
  BY <1>2, <1>3, <1>4, <1>5, SingleKept DEF KeyInv

LEMMA RefreshTemplateStep ==
  ASSUME NEW D \in Nat, KeyInv(D), RefreshTemplate
  PROVE  KeyInv(D)' /\ (Single => Single')
<1>1. PICK h \in FirstHeight..MaxHeight : StoreTemplate(h)
  BY DEF RefreshTemplate
<1>2. UNCHANGED <<nodeHeight, work, credited, pow>> /\ pc' = pc
  BY DEF RefreshTemplate, nodeVars, redisVars, roundVars
<1> QED
  BY <1>1, <1>2, StoreStep

LEMMA RefreshAfterBlockStep ==
  ASSUME NEW D \in Nat, KeyInv(D), NEW s \in Sessions, RefreshAfterBlock(s)
  PROVE  KeyInv(D)' /\ (Single => Single')
<1>1. /\ pc[s] = "refresh" /\ s \in Busy /\ pc' = [pc EXCEPT ![s] = "expire"]
      /\ UNCHANGED <<nodeHeight, work, credited, pow>>
  BY DEF RefreshAfterBlock, Goto, nodeVars, redisVars, roundVars, Busy
<1>2. CASE Fetch
  <2>1. PICK h \in FirstHeight..MaxHeight : StoreTemplate(h)
    BY <1>2 DEF Fetch
  <2> QED
    BY <1>1, <2>1, StoreStep
<1>3. CASE UNCHANGED templateVars
  <2>1. nodeHeight' \in FirstHeight..MaxHeight /\ nodeHeight <= nodeHeight'
    BY <1>1, Heights DEF KeyInv, Types
  <2> QED
    BY <1>1, <1>3, <2>1, QuietStep DEF templateVars, BusyPcs
<1> QED
  BY <1>2, <1>3 DEF RefreshAfterBlock

LEMMA NewBlockStep ==
  ASSUME NEW D \in Nat, KeyInv(D), NewBlock
  PROVE  KeyInv(D)' /\ (Single => Single')
<1>1. /\ nodeHeight < MaxHeight /\ nodeHeight' = nodeHeight + 1
      /\ UNCHANGED <<template, newest, pc, work, credited, pow>>
  BY DEF NewBlock, templateVars, redisVars, roundVars
<1>2. nodeHeight' \in FirstHeight..MaxHeight /\ nodeHeight <= nodeHeight'
  BY <1>1, Heights DEF KeyInv, Types
<1>3. Types'
  BY <1>1, <1>2 DEF KeyInv, Types
<1>4. InTime'
  BY <1>1, <1>2, StaysInTime DEF KeyInv
<1> QED
  BY <1>1, <1>3, <1>4 DEF KeyInv, Remembered, Apart, Single, Taken, Claims

\* A submission is of the template that is current.
LEMMA SubmitStep ==
  ASSUME NEW D \in Nat, KeyInv(D), NEW s \in Sessions, NEW w \in Works, Submit(s, w)
  PROVE  KeyInv(D)' /\ (Single => Single')
<1>1. /\ HeightOf[w] = template /\ work' = [work EXCEPT ![s] = w]
      /\ UNCHANGED <<nodeHeight, template, newest, credited, pow>>
  BY DEF Submit, nodeVars, templateVars, redisVars, roundVars
<1>2. PICK label \in {"submit", "expire"} : pc' = [pc EXCEPT ![s] = label]
  BY DEF Submit, Goto
<1>3. Types'
  BY <1>1, <1>2 DEF KeyInv, Types, BusyPcs
<1>4. InTime'
  <2>1. ASSUME NEW t \in Busy'
        PROVE  HeightOf[work'[t]] <= newest /\ newest <= HeightOf[work'[t]] + MaxLag
    <3>1. CASE t = s
      BY <1>1, <3>1 DEF KeyInv, Types, InTime, Busy
    <3>2. CASE t # s
      <4>1. t \in Busy /\ work'[t] = work[t]
        BY <1>1, <1>2, <2>1, <3>2 DEF KeyInv, Types, Busy
      <4> QED
        BY <4>1 DEF KeyInv, InTime
    <3> QED
      BY <3>1, <3>2
  <2> QED
    BY <1>1, <2>1 DEF KeyInv, InTime
<1>5. \A t \in Sessions \ {s} : work'[t] = work[t]
  BY <1>1 DEF KeyInv, Types
<1>6. /\ \A t \in Sessions, v \in Works : Claims(t, v)' => Claims(t, v)
      /\ \A v \in Works : Taken(v)' => Taken(v)
  BY <1>1, <1>2, <1>5, NoClaim DEF KeyInv
<1>7. newest <= newest' /\ newest' \in FirstHeight..MaxHeight
  BY <1>1, Heights DEF KeyInv, Types
<1>8. Remembered(D)' /\ Apart(D)'
  BY <1>1, <1>6, <1>7, FewerTaken DEF KeyInv
<1> QED
  BY <1>1, <1>3, <1>4, <1>6, <1>8, SingleKept DEF KeyInv

\* After a crash nobody claims.
LEMMA CrashStep ==
  ASSUME NEW D \in Nat, KeyInv(D), Crash
  PROVE  KeyInv(D)' /\ (Single => Single')
<1>1. /\ pc' = [s \in Sessions |-> "idle"]
      /\ template' = nodeHeight /\ newest' = nodeHeight
      /\ UNCHANGED <<nodeHeight, work, credited, pow>>
  BY DEF Crash, nodeVars, redisVars, roundVars
<1>2. Types'
  BY <1>1 DEF KeyInv, Types
<1>3. InTime'
  <2>1. Busy' = {}
    BY <1>1 DEF Busy
  <2> QED
    BY <1>1, <2>1, Heights DEF KeyInv, Types, InTime
<1>4. \A t \in Sessions, w \in Works : ~Claims(t, w)'
  BY <1>1 DEF Claims
<1>5. \A w \in Works : Taken(w)' => Taken(w)
  BY <1>1, <1>4 DEF Taken
<1>6. newest <= newest' /\ newest' \in FirstHeight..MaxHeight
  BY <1>1 DEF KeyInv, Types, InTime
<1>7. Remembered(D)' /\ Apart(D)'
  BY <1>1, <1>5, <1>6, FewerTaken DEF KeyInv
<1> QED
  BY <1>1, <1>2, <1>3, <1>4, <1>7, SingleKept DEF KeyInv

-----------------------------------------------------------------------------
(* Steps that change the keys or take a work.                               *)

\* A key that is forgotten belongs to works the chain has left behind.
LEMMA ExpirePowStep ==
  ASSUME NEW D \in Nat, KeyInv(D), NEW s \in Sessions, ExpirePow(s)
  PROVE  KeyInv(D)' /\ (Single => Single')
<1> DEFINE H == HeightOf[work[s]]
<1>1. /\ pc[s] = "expire" /\ s \in Busy /\ pc' = [pc EXCEPT ![s] = "check"]
      /\ UNCHANGED <<nodeHeight, template, newest, work, credited>>
      /\ pow' = [k \in Keys |-> IF pow[k] < H - Window THEN 0 ELSE pow[k]]
  BY DEF ExpirePow, Forgotten, Goto, nodeVars, templateVars, roundVars, Busy
<1>2. H \in Nat /\ H <= newest
  BY <1>1, Heights DEF KeyInv, Types, InTime
<1>3. Types'
  BY <1>1 DEF KeyInv, Types, BusyPcs
<1>4. InTime'
  <2>1. \A t \in Sessions : pc'[t] # "idle" => pc[t] # "idle"
    BY <1>1 DEF KeyInv, Types
  <2>2. nodeHeight' \in FirstHeight..MaxHeight /\ nodeHeight <= nodeHeight'
    BY <1>1, Heights DEF KeyInv, Types
  <2> QED
    BY <1>1, <2>1, <2>2, StaysInTime DEF KeyInv
<1>5. /\ \A t \in Sessions, w \in Works : Claims(t, w)' => Claims(t, w)
      /\ \A w \in Works : Taken(w)' => Taken(w)
  BY <1>1, NoClaim DEF KeyInv
<1>6. Apart(D)'
  BY <1>5 DEF KeyInv, Apart
<1>7. ASSUME NEW w \in Works, Taken(w)'
      PROVE  /\ HeightOf[w] <= newest'
             /\ \/ pow'[KeyOf[w]] # 0 /\ HeightOf[w] <= pow'[KeyOf[w]] + D
                \/ newest' > HeightOf[w] + Window - D
  <2> DEFINE score == pow[KeyOf[w]]
  <2>1. /\ HeightOf[w] <= newest
        /\ \/ score # 0 /\ HeightOf[w] <= score + D
           \/ newest > HeightOf[w] + Window - D
    BY <1>5, <1>7 DEF KeyInv, Remembered
  <2>2. HeightOf[w] \in Nat /\ newest \in Nat /\ score \in Nat /\ KeyOf[w] \in Keys
    BY Heights DEF KeyInv, Types
  <2>3. pow'[KeyOf[w]] = IF score < H - Window THEN 0 ELSE score
    BY <1>1, <2>2
  <2>4. CASE score # 0 /\ HeightOf[w] <= score + D /\ score < H - Window
    <3>1. newest > HeightOf[w] + Window - D
      BY <1>2, <2>2, <2>4 DEF Window
    <3> QED
      BY <1>1, <2>1, <3>1
  <2>5. CASE score # 0 /\ HeightOf[w] <= score + D /\ ~(score < H - Window)
    BY <1>1, <2>1, <2>3, <2>5
  <2>6. CASE newest > HeightOf[w] + Window - D
    BY <1>1, <2>1, <2>6
  <2> QED
    BY <2>1, <2>4, <2>5, <2>6
<1>8. Remembered(D)'
  BY <1>7 DEF Remembered
<1> QED
  BY <1>1, <1>3, <1>4, <1>5, <1>6, <1>8, SingleKept DEF KeyInv

\* The score that ZADD gives a key is near the heights of its taken works.
LEMMA AddPowRemembers ==
  ASSUME NEW D \in Nat, Near(D), KeyInv(D), NEW s \in Sessions, pc[s] = "check",
         AddPow(work[s]), newest' = newest,
         \A w \in Works : Taken(w)' => Taken(w) \/ w = work[s]
  PROVE  Remembered(D)' /\ pow' \in [Keys -> {0} \cup FirstHeight..MaxHeight]
<1> DEFINE v == work[s]
<1>1. /\ v \in Works /\ KeyOf[v] \in Keys /\ HeightOf[v] \in FirstHeight..MaxHeight
      /\ HeightOf[v] \in Nat \ {0} /\ newest \in Nat
      /\ HeightOf[v] <= newest /\ newest <= HeightOf[v] + MaxLag
  BY Heights DEF KeyInv, Types, InTime, Busy
<1>2. pow' = [pow EXCEPT ![KeyOf[v]] = HeightOf[v]]
  BY DEF AddPow
<1>3. pow' \in [Keys -> {0} \cup FirstHeight..MaxHeight]
  BY <1>1, <1>2 DEF KeyInv, Types
<1>4. ASSUME NEW w \in Works, Taken(w)'
      PROVE  /\ HeightOf[w] <= newest'
             /\ \/ pow'[KeyOf[w]] # 0 /\ HeightOf[w] <= pow'[KeyOf[w]] + D
                \/ newest' > HeightOf[w] + Window - D
  <2>1. HeightOf[w] \in Nat /\ MaxLag \in Nat /\ KeyOf[w] \in Keys
    BY Heights
  <2>2. HeightOf[w] <= newest
    BY <1>1, <1>4 DEF KeyInv, Remembered
  <2>3. CASE KeyOf[w] = KeyOf[v]
    <3>1. pow'[KeyOf[w]] = HeightOf[v]
      BY <1>1, <1>2, <2>3 DEF KeyInv, Types
    <3>2. HeightOf[w] <= HeightOf[v] + D
      <4>1. CASE D = MaxLag
        BY <1>1, <2>1, <2>2, <4>1
      <4>2. CASE \A x, y \in Works : KeyOf[x] = KeyOf[y] => HeightOf[y] <= HeightOf[x] + D
        BY <1>1, <2>3, <4>2
      <4> QED
        BY <4>1, <4>2 DEF Near
    <3> QED
      BY <1>1, <2>2, <3>1, <3>2
  <2>4. CASE KeyOf[w] # KeyOf[v]
    <3>1. Taken(w)
      BY <1>4, <2>4
    <3>2. pow'[KeyOf[w]] = pow[KeyOf[w]]
      BY <1>2, <2>1, <2>4 DEF KeyInv, Types
    <3> QED
      BY <3>1, <3>2 DEF KeyInv, Remembered
  <2> QED
    BY <2>3, <2>4
<1> QED
  BY <1>3, <1>4 DEF Remembered

\* A duplicate is answered.
LEMMA DuplicateStep ==
  ASSUME NEW D \in Nat, Near(D), KeyInv(D), NEW s \in Sessions, pc[s] = "check",
         AddPow(work[s]), pc' = [pc EXCEPT ![s] = "idle"],
         UNCHANGED <<nodeHeight, template, newest, work, credited>>
  PROVE  KeyInv(D)' /\ (Single => Single')
<1>1. /\ \A t \in Sessions, w \in Works : Claims(t, w)' => Claims(t, w)
      /\ \A w \in Works : Taken(w)' => Taken(w)
  BY NoClaim DEF KeyInv
<1>2. Remembered(D)' /\ pow' \in [Keys -> {0} \cup FirstHeight..MaxHeight]
  BY <1>1, AddPowRemembers
<1>3. Types'
  BY <1>2 DEF KeyInv, Types
<1>4. InTime'
  <2>1. \A t \in Sessions : pc'[t] # "idle" => pc[t] # "idle"
    BY DEF KeyInv, Types
  <2>2. nodeHeight' \in FirstHeight..MaxHeight /\ nodeHeight <= nodeHeight'
    BY Heights DEF KeyInv, Types
  <2> QED
    BY <2>1, <2>2, StaysInTime DEF KeyInv
<1>5. Apart(D)'
  BY <1>1 DEF KeyInv, Apart
<1> QED
  BY <1>1, <1>2, <1>3, <1>4, <1>5, SingleKept DEF KeyInv

\* A new key is taken: whoever had it before is far below.
LEMMA TakeStep ==
  ASSUME NEW D \in Nat, Near(D), KeyInv(D), NEW s \in Sessions, pc[s] = "check",
         NEW label \in {"share", "block"},
         pow[KeyOf[work[s]]] = 0,
         AddPow(work[s]), pc' = [pc EXCEPT ![s] = label],
         UNCHANGED <<nodeHeight, template, newest, work, credited>>
  PROVE  KeyInv(D)' /\ (D + MaxLag <= Window /\ Single => Single')
<1> DEFINE v == work[s]
<1>1. /\ v \in Works /\ KeyOf[v] \in Keys /\ HeightOf[v] \in Nat
      /\ newest \in Nat /\ newest <= HeightOf[v] + MaxLag /\ MaxLag \in Nat
  BY Heights DEF KeyInv, Types, InTime, Busy
<1>2. \A t \in Sessions, w \in Works : Claims(t, w)' => Claims(t, w) \/ (t = s /\ w = v)
  BY DEF KeyInv, Types, Claims
<1>3. \A w \in Works : Taken(w)' => Taken(w) \/ w = v
  BY <1>2 DEF Taken
<1>4. Remembered(D)' /\ pow' \in [Keys -> {0} \cup FirstHeight..MaxHeight]
  BY <1>3, AddPowRemembers
<1>5. Types'
  BY <1>4 DEF KeyInv, Types, BusyPcs
<1>6. InTime'
  <2>1. \A t \in Sessions : pc'[t] # "idle" => pc[t] # "idle"
    BY DEF KeyInv, Types
  <2>2. nodeHeight' \in FirstHeight..MaxHeight /\ nodeHeight <= nodeHeight'
    BY Heights DEF KeyInv, Types
  <2> QED
    BY <2>1, <2>2, StaysInTime DEF KeyInv
<1>7. \A w \in Works : Taken(w) /\ KeyOf[w] = KeyOf[v] =>
        HeightOf[w] \in Nat /\ newest > HeightOf[w] + Window - D
  BY Heights DEF KeyInv, Remembered
<1>8. \A w \in Works : Taken(w) /\ KeyOf[w] = KeyOf[v] =>
        HeightOf[v] - HeightOf[w] > Window - D - MaxLag
  BY <1>1, <1>7 DEF Window
<1>9. Apart(D)'
  <2> SUFFICES ASSUME NEW x \in Works, NEW y \in Works,
                      x # y, KeyOf[x] = KeyOf[y], Taken(x)', Taken(y)'
               PROVE  \/ HeightOf[y] - HeightOf[x] > Window - D - MaxLag
                      \/ HeightOf[x] - HeightOf[y] > Window - D - MaxLag
    BY DEF Apart
  <2>1. CASE x = v
    BY <1>3, <1>8, <2>1
  <2>2. CASE y = v
    BY <1>3, <1>8, <2>2
  <2>3. CASE x # v /\ y # v
    BY <1>3, <2>3 DEF KeyInv, Apart
  <2> QED
    BY <2>1, <2>2, <2>3
<1>10. ASSUME D + MaxLag <= Window, Single
       PROVE  Single'
  <2>1. ~Taken(v)
    BY <1>1, <1>7, <1>10 DEF Window
  <2>2. credited[v] = 0 /\ \A t \in Sessions : ~Claims(t, v)
    BY <1>1, <2>1 DEF Taken, KeyInv, Types
  <2> QED
    BY <1>2, <1>10, <2>2 DEF Single
<1> QED
  BY <1>4, <1>5, <1>6, <1>9, <1>10 DEF KeyInv

LEMMA CheckPowStep ==
  ASSUME NEW D \in Nat, Near(D), KeyInv(D), NEW s \in Sessions, CheckPow(s)
  PROVE  KeyInv(D)' /\ (D + MaxLag <= Window /\ Single => Single')
<1>1. /\ pc[s] = "check" /\ AddPow(work[s])
      /\ UNCHANGED <<nodeHeight, template, newest, work, credited>>
      /\ IF pow[KeyOf[work[s]]] # 0 THEN pc' = [pc EXCEPT ![s] = "idle"]
         ELSE pc' = [pc EXCEPT ![s] = NextWrite(work[s])]
  BY DEF CheckPow, PowExists, Goto, Finish, nodeVars, templateVars, roundVars
<1>2. CASE pow[KeyOf[work[s]]] # 0
  BY <1>1, <1>2, DuplicateStep
<1>3. CASE pow[KeyOf[work[s]]] = 0
  <2>1. NextWrite(work[s]) \in {"share", "block"}
    BY DEF NextWrite
  <2> QED
    BY <1>1, <1>3, <2>1, TakeStep
<1> QED
  BY <1>2, <1>3

LEMMA CallFailsStep ==
  ASSUME NEW D \in Nat, Near(D), KeyInv(D), NEW s \in Sessions, CallFails(s)
  PROVE  KeyInv(D)' /\ (Single => Single')
<1>1. /\ pc[s] # "idle" /\ pc' = [pc EXCEPT ![s] = "idle"]
      /\ UNCHANGED <<nodeHeight, template, newest, work, credited>>
  BY DEF CallFails, Goto, Finish, nodeVars, templateVars, roundVars, Busy
<1>2. CASE UNCHANGED pow
  <2>1. nodeHeight' \in FirstHeight..MaxHeight /\ nodeHeight <= nodeHeight'
    BY <1>1, Heights DEF KeyInv, Types
  <2> QED
    BY <1>1, <1>2, <2>1, QuietStep DEF BusyPcs
<1>3. CASE pc[s] = "check" /\ AddPow(work[s])
  BY <1>1, <1>3, DuplicateStep
<1> QED
  BY <1>2, <1>3 DEF CallFails

\* A claim becomes a credit.
LEMMA CreditStep ==
  ASSUME NEW D \in Nat, KeyInv(D), NEW s \in Sessions,
         pc[s] \in {"share", "block"}, NEW label \in {"idle", "candidate"},
         pc' = [pc EXCEPT ![s] = label],
         credited' = [credited EXCEPT ![work[s]] = credited[work[s]] + 1],
         UNCHANGED <<nodeHeight, template, newest, work, pow>>
  PROVE  KeyInv(D)' /\ (Single => Single')
<1> DEFINE v == work[s]
<1>1. v \in Works /\ Claims(s, v) /\ credited[v] \in Nat
  BY DEF KeyInv, Types, Claims
<1>2. Types'
  BY <1>1 DEF KeyInv, Types, BusyPcs
<1>3. \A t \in Sessions, w \in Works : Claims(t, w)' => Claims(t, w) /\ t # s
  BY DEF KeyInv, Types, Claims
<1>4. \A w \in Works : w # v => credited'[w] = credited[w]
  BY DEF KeyInv, Types
<1>5. credited'[v] = credited[v] + 1
  BY <1>1 DEF KeyInv, Types
<1>6. \A w \in Works : Taken(w)' => Taken(w)
  BY <1>1, <1>3, <1>4 DEF Taken
<1>7. InTime'
  <2>1. \A t \in Sessions : pc'[t] # "idle" => pc[t] # "idle"
    BY DEF KeyInv, Types
  <2>2. nodeHeight' \in FirstHeight..MaxHeight /\ nodeHeight <= nodeHeight'
    BY Heights DEF KeyInv, Types
  <2> QED
    BY <2>1, <2>2, StaysInTime DEF KeyInv
<1>8. Remembered(D)' /\ Apart(D)'
  <2>1. newest <= newest' /\ newest' \in FirstHeight..MaxHeight
    BY Heights DEF KeyInv, Types
  <2> QED
    BY <1>6, <2>1, FewerTaken DEF KeyInv
<1>9. ASSUME Single
      PROVE  Single'
  <2>1. credited[v] = 0 /\ \A t \in Sessions : Claims(t, v) => t = s
    BY <1>1, <1>9 DEF Single
  <2>2. \A t \in Sessions, w \in Works : Claims(t, w)' => w # v
    BY <1>3, <2>1
  <2>3. \A w \in Works : credited'[w] <= 1
    BY <1>4, <1>5, <1>9, <2>1 DEF Single
  <2>4. \A w \in Works, t \in Sessions : Claims(t, w)' => credited'[w] = 0
    BY <1>3, <1>4, <1>9, <2>2 DEF Single
  <2>5. \A w \in Works : \A t, u \in Sessions : Claims(t, w)' /\ Claims(u, w)' => t = u
    BY <1>3, <1>9 DEF Single
  <2> QED
    BY <2>3, <2>4, <2>5 DEF Single
<1> QED
  BY <1>2, <1>7, <1>8, <1>9 DEF KeyInv

LEMMA WriteStep ==
  ASSUME NEW D \in Nat, KeyInv(D), NEW s \in Sessions,
         WriteShare(s) \/ CloseRound(s) \/ CloseReplyLost(s)
  PROVE  KeyInv(D)' /\ (Single => Single')
<1>1. /\ pc[s] \in {"share", "block"}
      /\ credited' = [credited EXCEPT ![work[s]] = credited[work[s]] + 1]
      /\ UNCHANGED <<nodeHeight, template, newest, work, pow>>
      /\ \E label \in {"idle", "candidate"} : pc' = [pc EXCEPT ![s] = label]
  BY DEF WriteShare, CloseRound, CloseReplyLost, RenameRound, Goto, Finish,
         nodeVars, templateVars
<1> QED
  BY <1>1, CreditStep

-----------------------------------------------------------------------------
(* The theorems.                                                            *)

LEMMA InitKeyInv ==
  ASSUME NEW D \in Nat, Init, Works # {}
  PROVE  KeyInv(D) /\ Single
<1>1. Types
  <2>1. FirstHeight \in FirstHeight..MaxHeight
    BY Heights
  <2>2. work \in [Sessions -> Works]
    BY DEF Init
  <2> QED
    BY <2>1, <2>2 DEF Init, Types
<1>2. \A w \in Works : ~Taken(w)
  BY DEF Init, Taken, Claims
<1>3. InTime
  BY Heights DEF Init, InTime, Busy
<1> QED
  BY <1>1, <1>2, <1>3 DEF KeyInv, Remembered, Apart, Single, Init, Claims

LEMMA StutterStep ==
  ASSUME NEW D \in Nat, KeyInv(D), UNCHANGED vars
  PROVE  KeyInv(D)' /\ (Single => Single')
BY DEF KeyInv, Types, InTime, Busy, Remembered, Apart, Single, Taken, Claims,
       vars, nodeVars, templateVars, redisVars, roundVars

LEMMA NextKeyInv ==
  ASSUME NEW D \in Nat, Near(D), KeyInv(D), [Next]_vars
  PROVE  KeyInv(D)' /\ (D + MaxLag <= Window /\ Single => Single')
<1>1. CASE NewBlock
  BY <1>1, NewBlockStep
<1>2. CASE RefreshTemplate
  BY <1>2, RefreshTemplateStep
<1>3. CASE Crash
  BY <1>3, CrashStep
<1>4. ASSUME NEW s \in Sessions, NEW w \in Works, Submit(s, w)
      PROVE  KeyInv(D)' /\ (D + MaxLag <= Window /\ Single => Single')
  BY <1>4, SubmitStep
<1>5. ASSUME NEW s \in Sessions, ShareStep(s)
      PROVE  KeyInv(D)' /\ (D + MaxLag <= Window /\ Single => Single')
  BY <1>5, SubmitBlockStep, RefreshAfterBlockStep, ExpirePowStep, CheckPowStep,
     WriteStep, AddCandidateStep DEF ShareStep
<1>6. ASSUME NEW s \in Sessions,
             CallFails(s) \/ ExpireFails(s) \/ SubmitReplyLost(s) \/ CloseReplyLost(s)
      PROVE  KeyInv(D)' /\ (D + MaxLag <= Window /\ Single => Single')
  BY <1>6, CallFailsStep, ExpireFailsStep, SubmitReplyLostStep, WriteStep
<1>7. CASE UNCHANGED vars
  BY <1>7, StutterStep
<1> QED
  BY <1>1, <1>2, <1>3, <1>4, <1>5, <1>6, <1>7 DEF Next

\* However late templates and submissions may be, works with one key that are
\* both credited are further apart than the window less twice the lag
\* (checkPoWExist, for any number of sessions, works, failures and crashes).
THEOREM KeysApart ==
  ASSUME Works # {}
  PROVE  Spec => []SameKeyApart
<1>1. MaxLag \in Nat /\ Near(MaxLag)
  BY Heights DEF Near
<1>2. Init => KeyInv(MaxLag)
  BY <1>1, InitKeyInv
<1>3. KeyInv(MaxLag) /\ [Next]_vars => KeyInv(MaxLag)'
  BY <1>1, NextKeyInv
<1>4. KeyInv(MaxLag) => SameKeyApart
  <2> SUFFICES ASSUME KeyInv(MaxLag), NEW v \in Works, NEW w \in Works,
                      HeightOf[v] < HeightOf[w], KeyOf[v] = KeyOf[w],
                      credited[v] > 0, credited[w] > 0
               PROVE  HeightOf[w] - HeightOf[v] > Window - 2 * MaxLag
    BY DEF SameKeyApart
  <2>1. HeightOf[v] \in Nat /\ HeightOf[w] \in Nat /\ v # w
    BY Heights
  <2>2. \/ HeightOf[w] - HeightOf[v] > Window - MaxLag - MaxLag
        \/ HeightOf[v] - HeightOf[w] > Window - MaxLag - MaxLag
    BY <2>1 DEF KeyInv, Apart, Taken
  <2> QED
    BY <1>1, <2>1, <2>2 DEF Window
<1> QED
  BY <1>2, <1>3, <1>4, PTL DEF Spec

\* A work is credited once, whatever keys works share, when nothing lags by more
\* than half the window (checkPoWExist, WriteShare, WriteBlock).
THEOREM CreditedOnce ==
  ASSUME Works # {}, MaxLag + MaxLag <= Window
  PROVE  Spec => []NoDoubleCredit
<1>1. MaxLag \in Nat /\ Near(MaxLag)
  BY Heights DEF Near
<1>2. Init => KeyInv(MaxLag) /\ Single
  BY <1>1, InitKeyInv
<1>3. KeyInv(MaxLag) /\ Single /\ [Next]_vars => KeyInv(MaxLag)' /\ Single'
  BY <1>1, NextKeyInv
<1>4. Single => NoDoubleCredit
  BY DEF Single, NoDoubleCredit
<1> QED
  BY <1>2, <1>3, <1>4, PTL DEF Spec

\* And with the whole window of checkPoWExist when works that share a key are of one
\* height.
THEOREM CreditedOnceInWindow ==
  ASSUME Works # {}, MaxLag <= Window,
         \A v, w \in Works : KeyOf[v] = KeyOf[w] => HeightOf[v] = HeightOf[w]
  PROVE  Spec => []NoDoubleCredit
<1>1. Near(0) /\ 0 + MaxLag <= Window
  BY Heights DEF Near, Window
<1>2. Init => KeyInv(0) /\ Single
  BY InitKeyInv
<1>3. KeyInv(0) /\ Single /\ [Next]_vars => KeyInv(0)' /\ Single'
  BY <1>1, NextKeyInv
<1>4. Single => NoDoubleCredit
  BY DEF Single, NoDoubleCredit
<1> QED
  BY <1>2, <1>3, <1>4, PTL DEF Spec

-----------------------------------------------------------------------------
(* A block that the node accepted is written down as a candidate, unless a  *)
(* call failed or the proxy died on the way, or its key is another work's.   *)

RecordTypes ==
  /\ nodeHeight \in Nat
  /\ pc \in [Sessions -> BusyPcs \cup {"idle"}]
  /\ work \in [Sessions -> Works]
  /\ pow \in [Keys -> Nat]
  /\ accepted \subseteq Solves

\* A session that has come past SubmitBlock with w, and one that has not yet
\* come to checkPoWExist's ZADD.
Past(s, w) ==
  pc[s] \in {"refresh", "expire", "check", "block", "candidate"} /\ work[s] = w
Unchecked(s, w) == pc[s] \in {"refresh", "expire", "check"} /\ work[s] = w

\* Blocks are submitted to the node, shares are not.
Sorted ==
  \A s \in Sessions :
    /\ pc[s] = "submit" => work[s] \in Solves
    /\ pc[s] = "share" => work[s] \notin Solves

\* The node takes a block once.
AcceptedBelow == \A w \in accepted : HeightOf[w] < nodeHeight
PastIsAccepted == \A s \in Sessions, w \in Solves : Past(s, w) => w \in accepted
OnePast == \A s, t \in Sessions, w \in Solves : Past(s, w) /\ Past(t, w) => s = t

\* So its key is new when its session asks, if it is its own.
KeyIsNew ==
  \A s \in Sessions, w \in Solves :
    ~KeyShared(w) /\ Unchecked(s, w) => pow[KeyOf[w]] = 0
KnownIsAccepted ==
  \A w \in Solves : ~KeyShared(w) /\ pow[KeyOf[w]] # 0 => w \in accepted

RecordInv ==
  /\ RecordTypes /\ Sorted /\ AcceptedBelow /\ PastIsAccepted /\ OnePast
  /\ KeyIsNew /\ KnownIsAccepted /\ AcceptedBlockRecorded

-----------------------------------------------------------------------------
(* Lemmas.                                                                  *)

LEMMA BlockConstants ==
  /\ Solves \subseteq Works
  /\ \A w \in Works : HeightOf[w] \in Nat /\ HeightOf[w] # 0 /\ KeyOf[w] \in Keys
BY HeightAssumption, WorkAssumption DEF Window

LEMMA InProgressIsPast ==
  \A w \in Works : InProgress(w) <=> \E s \in Sessions : Past(s, w)
BY DEF InProgress, Past

\* A step that takes no block and adds no key.
LEMMA RecordKept ==
  ASSUME RecordInv, RecordTypes', Sorted', accepted' = accepted, nodeHeight <= nodeHeight',
         \A t \in Sessions, w \in Solves : Past(t, w)' => Past(t, w),
         \A t \in Sessions, w \in Solves : Unchecked(t, w)' => Unchecked(t, w),
         \A k \in Keys : pow'[k] # 0 => pow[k] # 0,
         candidates \subseteq candidates', lost \subseteq lost',
         \A w \in accepted : InProgress(w) => InProgress(w)' \/ IsCandidate(w)' \/ w \in lost'
  PROVE  RecordInv'
<1>1. AcceptedBelow'
  BY BlockConstants DEF RecordInv, AcceptedBelow, RecordTypes
<1>2. PastIsAccepted' /\ OnePast'
  BY DEF RecordInv, PastIsAccepted, OnePast
<1>3. KeyIsNew' /\ KnownIsAccepted'
  BY BlockConstants DEF RecordInv, KeyIsNew, KnownIsAccepted, KeyShared
<1>4. AcceptedBlockRecorded'
  BY DEF RecordInv, AcceptedBlockRecorded, IsCandidate, KeyShared
<1> QED
  BY <1>1, <1>2, <1>3, <1>4 DEF RecordInv

\* A session goes from one call to the next, or is done.
LEMMA Moves ==
  ASSUME RecordInv, NEW s \in Sessions, NEW label \in BusyPcs \cup {"idle"},
         label \notin {"submit", "share", "refresh"},
         label = "idle" \/ Past(s, work[s]),
         label \in {"expire", "check"} => Unchecked(s, work[s]),
         pc' = [pc EXCEPT ![s] = label],
         UNCHANGED <<work, accepted>>, nodeHeight' = nodeHeight,
         pow' \in [Keys -> Nat], \A k \in Keys : pow'[k] # 0 => pow[k] # 0,
         candidates \subseteq candidates', lost \subseteq lost',
         label = "idle" /\ Past(s, work[s]) => IsCandidate(work[s])' \/ work[s] \in lost'
  PROVE  RecordInv'
<1>1. RecordTypes'
  BY DEF RecordInv, RecordTypes
<1>2. Sorted'
  BY DEF RecordInv, RecordTypes, Sorted
<1>3. \A t \in Sessions, w \in Works : Past(t, w)' => Past(t, w)
  BY DEF RecordInv, RecordTypes, Past
<1>4. \A t \in Sessions, w \in Works : Unchecked(t, w)' => Unchecked(t, w)
  BY DEF RecordInv, RecordTypes, Unchecked
<1>5. ASSUME NEW w \in accepted, InProgress(w)
      PROVE  InProgress(w)' \/ IsCandidate(w)' \/ w \in lost'
  <2>1. w \in Works
    BY BlockConstants DEF RecordInv, RecordTypes
  <2>2. PICK t \in Sessions : Past(t, w)
    BY <1>5, <2>1, InProgressIsPast
  <2>3. CASE t # s \/ label # "idle"
    <3>1. Past(t, w)'
      BY <2>2, <2>3 DEF Past, RecordInv, RecordTypes, BusyPcs
    <3> QED
      BY <3>1 DEF InProgress, Past
  <2>4. CASE t = s /\ label = "idle"
    BY <2>2, <2>4 DEF Past
  <2> QED
    BY <2>3, <2>4
<1>6. nodeHeight <= nodeHeight'
  BY DEF RecordInv, RecordTypes
<1> QED
  BY <1>1, <1>2, <1>3, <1>4, <1>5, <1>6, BlockConstants, RecordKept

\* The node takes the block of s.
LEMMA Accepts ==
  ASSUME RecordInv, NEW s \in Sessions, pc[s] = "submit", NodeTakes(work[s]),
         NEW label \in {"refresh", "idle"}, pc' = [pc EXCEPT ![s] = label],
         UNCHANGED <<work, pow, candidates>>, lost \subseteq lost',
         label = "idle" => work[s] \in lost'
  PROVE  RecordInv'
<1> DEFINE v == work[s]
<1>1. /\ v \in Solves /\ v \in Works /\ HeightOf[v] \in Nat /\ v \notin accepted
      /\ nodeHeight \in Nat /\ HeightOf[v] = nodeHeight /\ nodeHeight' = nodeHeight + 1
      /\ accepted' = accepted \cup {v}
  BY BlockConstants DEF RecordInv, RecordTypes, Sorted, AcceptedBelow, NodeTakes
<1>2. RecordTypes'
  BY <1>1 DEF RecordInv, RecordTypes, BusyPcs
<1>3. Sorted'
  BY DEF RecordInv, RecordTypes, Sorted
<1>4. AcceptedBelow'
  BY <1>1, BlockConstants DEF RecordInv, AcceptedBelow, RecordTypes
<1>5. \A t \in Sessions, w \in Works : Past(t, w)' => Past(t, w) \/ (t = s /\ w = v)
  BY DEF RecordInv, RecordTypes, Past
<1>6. \A t \in Sessions : ~Past(t, v)
  BY <1>1 DEF RecordInv, PastIsAccepted
<1>7. PastIsAccepted' /\ OnePast'
  BY <1>1, <1>5, <1>6, BlockConstants DEF RecordInv, PastIsAccepted, OnePast
<1>8. KnownIsAccepted'
  BY <1>1 DEF RecordInv, KnownIsAccepted, KeyShared
<1>9. KeyIsNew'
  <2>1. ~KeyShared(v) => pow[KeyOf[v]] = 0
    BY <1>1 DEF RecordInv, KnownIsAccepted
  <2>2. \A t \in Sessions, w \in Works : Unchecked(t, w)' => Unchecked(t, w) \/ w = v
    BY DEF RecordInv, RecordTypes, Unchecked
  <2> QED
    BY <2>1, <2>2, BlockConstants DEF RecordInv, KeyIsNew, KeyShared
<1>10. AcceptedBlockRecorded'
  <2> SUFFICES ASSUME NEW w \in accepted'
               PROVE  InProgress(w)' \/ IsCandidate(w)' \/ w \in lost' \/ KeyShared(w)
    BY DEF AcceptedBlockRecorded, KeyShared
  <2>1. CASE w = v
    BY <2>1 DEF InProgress, RecordInv, RecordTypes
  <2>2. CASE w # v
    <3>1. w \in accepted /\ w \in Works
      BY <1>1, <2>2, BlockConstants DEF RecordInv, RecordTypes
    <3>2. InProgress(w) => InProgress(w)'
      BY <2>2 DEF InProgress, RecordInv, RecordTypes
    <3> QED
      BY <3>1, <3>2 DEF RecordInv, AcceptedBlockRecorded, IsCandidate
  <2> QED
    BY <2>1, <2>2
<1> QED
  BY <1>2, <1>3, <1>4, <1>7, <1>8, <1>9, <1>10 DEF RecordInv

\* The key of s's work is written. A block's key was new, so its session goes on.
LEMMA Writes ==
  ASSUME RecordInv, NEW s \in Sessions, pc[s] = "check", AddPow(work[s]),
         NEW label \in {"idle", "share", "block"}, pc' = [pc EXCEPT ![s] = label],
         UNCHANGED <<work, accepted, nodeHeight, candidates>>, lost \subseteq lost',
         label = "share" => work[s] \notin Solves,
         label = "idle" => pow[KeyOf[work[s]]] # 0 \/ work[s] \in lost',
         label # "idle" => lost' = lost
  PROVE  RecordInv'
<1> DEFINE v == work[s]
<1>1. /\ v \in Works /\ KeyOf[v] \in Keys /\ HeightOf[v] \in Nat
      /\ pow' = [pow EXCEPT ![KeyOf[v]] = HeightOf[v]]
  BY BlockConstants DEF RecordInv, RecordTypes, AddPow
<1>2. RecordTypes'
  BY <1>1 DEF RecordInv, RecordTypes, BusyPcs
<1>3. Sorted'
  BY DEF RecordInv, RecordTypes, Sorted
<1>4. AcceptedBelow'
  BY DEF RecordInv, AcceptedBelow
<1>5. \A t \in Sessions, w \in Works : Past(t, w)' => Past(t, w)
  BY DEF RecordInv, RecordTypes, Past
<1>6. PastIsAccepted' /\ OnePast'
  BY <1>5, BlockConstants DEF RecordInv, PastIsAccepted, OnePast
<1>7. Past(s, v) /\ Unchecked(s, v)
  BY DEF Past, Unchecked
<1>8. \A w \in Works : ~KeyShared(w) /\ KeyOf[w] = KeyOf[v] => w = v
  BY <1>1 DEF KeyShared
<1>9. KnownIsAccepted'
  <2>1. \A w \in Works : KeyOf[w] # KeyOf[v] => pow'[KeyOf[w]] = pow[KeyOf[w]]
    BY <1>1, BlockConstants DEF RecordInv, RecordTypes
  <2>2. v \in Solves => v \in accepted
    BY <1>7 DEF RecordInv, PastIsAccepted
  <2> QED
    BY <1>8, <2>1, <2>2, BlockConstants DEF RecordInv, KnownIsAccepted, KeyShared
<1>10. KeyIsNew'
  <2> SUFFICES ASSUME NEW t \in Sessions, NEW w \in Solves, ~KeyShared(w), Unchecked(t, w)'
               PROVE  pow'[KeyOf[w]] = 0
    BY DEF KeyIsNew, KeyShared
  <2>1. Unchecked(t, w) /\ t # s /\ w \in Works
    BY BlockConstants DEF RecordInv, RecordTypes, Unchecked
  <2>2. pow[KeyOf[w]] = 0
    BY <2>1 DEF RecordInv, KeyIsNew
  <2>3. w # v
    <3>1. Past(t, w)
      BY <2>1 DEF Past, Unchecked
    <3> QED
      BY <1>7, <2>1, <3>1 DEF RecordInv, OnePast
  <2>4. KeyOf[w] # KeyOf[v]
    BY <1>8, <2>1, <2>3
  <2> QED
    BY <1>1, <2>1, <2>2, <2>4, BlockConstants DEF RecordInv, RecordTypes
<1>11. AcceptedBlockRecorded'
  <2> SUFFICES ASSUME NEW w \in accepted, ~KeyShared(w)
               PROVE  InProgress(w)' \/ IsCandidate(w)' \/ w \in lost'
    BY DEF AcceptedBlockRecorded, KeyShared
  <2>1. w \in Solves /\ w \in Works
    BY BlockConstants DEF RecordInv, RecordTypes
  <2>2. CASE IsCandidate(w) \/ w \in lost
    BY <2>2 DEF IsCandidate
  <2>3. CASE InProgress(w) /\ w # v
    BY <2>3 DEF InProgress, RecordInv, RecordTypes
  <2>4. CASE w = v
    <3>1. pow[KeyOf[w]] = 0
      BY <1>7, <2>1, <2>4 DEF RecordInv, KeyIsNew
    <3>2. label = "block" \/ w \in lost'
      BY <2>1, <2>4, <3>1
    <3> QED
      BY <2>4, <3>2 DEF InProgress, RecordInv, RecordTypes
  <2> QED
    BY <2>2, <2>3, <2>4 DEF RecordInv, AcceptedBlockRecorded
<1> QED
  BY <1>2, <1>3, <1>4, <1>6, <1>9, <1>10, <1>11 DEF RecordInv

-----------------------------------------------------------------------------
(* The steps.                                                               *)

LEMMA NodeAndTemplateSteps ==
  ASSUME RecordInv, NewBlock \/ RefreshTemplate
  PROVE  RecordInv'
<1>1. /\ nodeHeight' \in Nat /\ nodeHeight <= nodeHeight'
      /\ UNCHANGED <<accepted, pc, work, pow, candidates, lost>>
  BY DEF NewBlock, RefreshTemplate, RecordInv, RecordTypes, redisVars, faultVars, nodeVars
<1>2. RecordTypes' /\ Sorted'
  BY <1>1 DEF RecordInv, RecordTypes, Sorted
<1>3. \A t \in Sessions, w \in Works : (Past(t, w)' <=> Past(t, w)) /\ (Unchecked(t, w)' <=> Unchecked(t, w))
  BY <1>1 DEF Past, Unchecked
<1>4. \A w \in Works : InProgress(w)' <=> InProgress(w)
  BY <1>1 DEF InProgress
<1>5. Solves \subseteq Works /\ accepted \subseteq Works
  BY BlockConstants DEF RecordInv, RecordTypes
<1> QED
  BY <1>1, <1>2, <1>3, <1>4, <1>5, RecordKept

LEMMA RecordSubmitStep ==
  ASSUME RecordInv, NEW s \in Sessions, NEW w \in Works, Submit(s, w)
  PROVE  RecordInv'
<1>1. /\ pc[s] = "idle" /\ work' = [work EXCEPT ![s] = w]
      /\ pc' = [pc EXCEPT ![s] = IF w \in Solves THEN "submit" ELSE "expire"]
      /\ UNCHANGED <<nodeHeight, accepted, pow, candidates, lost>>
  BY DEF Submit, Goto, redisVars, faultVars, nodeVars
<1>2. RecordTypes' /\ Sorted'
  BY <1>1 DEF RecordInv, RecordTypes, Sorted, BusyPcs
<1>3. \A t \in Sessions, v \in Solves : (Past(t, v)' <=> Past(t, v)) /\ (Unchecked(t, v)' <=> Unchecked(t, v))
  BY <1>1 DEF Past, Unchecked, RecordInv, RecordTypes
<1>4. \A v \in Solves : InProgress(v)' <=> InProgress(v)
  BY <1>3, BlockConstants, InProgressIsPast DEF InProgress, Past
<1> QED
  BY <1>1, <1>2, <1>3, <1>4, RecordKept DEF RecordInv, RecordTypes

LEMMA RecordSubmitBlockStep ==
  ASSUME RecordInv, NEW s \in Sessions, SubmitBlock(s)
  PROVE  RecordInv'
<1>1. pc[s] = "submit" /\ UNCHANGED <<work, pow, candidates, lost>>
  BY DEF SubmitBlock, redisVars, faultVars
<1>2. CASE NodeTakes(work[s]) /\ pc' = [pc EXCEPT ![s] = "refresh"]
  BY <1>1, <1>2, Accepts
<1>3. CASE pc' = [pc EXCEPT ![s] = "idle"] /\ UNCHANGED nodeVars
  BY <1>1, <1>3, Moves DEF nodeVars, Past, RecordInv, RecordTypes
<1> QED
  BY <1>2, <1>3 DEF SubmitBlock, Goto, Finish

LEMMA RecordSubmitReplyLostStep ==
  ASSUME RecordInv, NEW s \in Sessions, SubmitReplyLost(s)
  PROVE  RecordInv'
BY Accepts DEF SubmitReplyLost, Failed, Finish, Goto, redisVars

\* On the way to checkPoWExist.
LEMMA BeforeCheckSteps ==
  ASSUME RecordInv, NEW s \in Sessions, RefreshAfterBlock(s) \/ ExpirePow(s) \/ ExpireFails(s)
  PROVE  RecordInv'
<1>1. /\ UNCHANGED <<nodeHeight, accepted, work, candidates>> /\ lost \subseteq lost'
      /\ pow' \in [Keys -> Nat] /\ \A k \in Keys : pow'[k] # 0 => pow[k] # 0
  BY DEF RefreshAfterBlock, ExpirePow, ExpireFails, Failed, redisVars, faultVars, nodeVars,
         RecordInv, RecordTypes
<1>2. \/ pc[s] = "refresh" /\ pc' = [pc EXCEPT ![s] = "expire"]
      \/ pc[s] = "expire" /\ pc' = [pc EXCEPT ![s] = "check"]
  BY DEF RefreshAfterBlock, ExpirePow, ExpireFails, Goto
<1>3. Past(s, work[s]) /\ Unchecked(s, work[s])
  BY <1>2 DEF Past, Unchecked
<1> QED
  BY <1>1, <1>2, <1>3, Moves DEF BusyPcs

LEMMA RecordCheckPowStep ==
  ASSUME RecordInv, NEW s \in Sessions, CheckPow(s)
  PROVE  RecordInv'
<1>1. /\ pc[s] = "check" /\ AddPow(work[s])
      /\ UNCHANGED <<work, accepted, nodeHeight, candidates, lost>>
  BY DEF CheckPow, nodeVars, faultVars
<1>2. CASE PowExists(KeyOf[work[s]]) /\ pc' = [pc EXCEPT ![s] = "idle"]
  BY <1>1, <1>2, Writes DEF PowExists
<1>3. CASE pc' = [pc EXCEPT ![s] = NextWrite(work[s])]
  BY <1>1, <1>3, Writes DEF NextWrite
<1> QED
  BY <1>2, <1>3 DEF CheckPow, Finish, Goto

LEMMA WriteSteps ==
  ASSUME RecordInv, NEW s \in Sessions,
         WriteShare(s) \/ CloseRound(s) \/ AddCandidate(s) \/ CloseReplyLost(s)
  PROVE  RecordInv'
<1>1. UNCHANGED <<nodeHeight, accepted, work, pow>> /\ lost \subseteq lost' /\ candidates \subseteq candidates'
  BY DEF WriteShare, CloseRound, AddCandidate, CloseReplyLost, Failed, redisVars, faultVars, nodeVars
<1>2. pow' \in [Keys -> Nat] /\ \A k \in Keys : pow'[k] # 0 => pow[k] # 0
  BY <1>1 DEF RecordInv, RecordTypes
<1>3. CASE WriteShare(s)
  <2>1. pc[s] = "share" /\ pc' = [pc EXCEPT ![s] = "idle"]
    BY <1>3 DEF WriteShare, Finish, Goto
  <2> QED
    BY <1>1, <1>2, <2>1, Moves DEF Past
<1>4. CASE CloseRound(s)
  <2>1. Past(s, work[s]) /\ pc' = [pc EXCEPT ![s] = "candidate"]
    BY <1>4 DEF CloseRound, Goto, Past
  <2> QED
    BY <1>1, <1>2, <2>1, Moves DEF BusyPcs
<1>5. CASE AddCandidate(s)
  <2>1. pc' = [pc EXCEPT ![s] = "idle"]
    BY <1>5 DEF AddCandidate, Finish, Goto
  <2>2. [work |-> work[s], total |-> total[s]] \in candidates'
    BY <1>5 DEF AddCandidate
  <2>3. IsCandidate(work[s])'
    BY <1>1, <2>2 DEF IsCandidate
  <2> QED
    BY <1>1, <1>2, <2>1, <2>3, Moves
<1>6. CASE CloseReplyLost(s)
  <2>1. pc' = [pc EXCEPT ![s] = "idle"] /\ work[s] \in lost'
    BY <1>6, <1>1 DEF CloseReplyLost, Failed, Finish, Goto
  <2> QED
    BY <1>1, <1>2, <2>1, Moves
<1> QED
  BY <1>3, <1>4, <1>5, <1>6

LEMMA RecordCallFailsStep ==
  ASSUME RecordInv, NEW s \in Sessions, CallFails(s)
  PROVE  RecordInv'
<1>1. /\ UNCHANGED <<nodeHeight, accepted, work, candidates>> /\ lost' = lost \cup {work[s]}
      /\ pc' = [pc EXCEPT ![s] = "idle"]
  BY DEF CallFails, Failed, Finish, Goto, nodeVars
<1>2. CASE UNCHANGED pow
  BY <1>1, <1>2, Moves DEF RecordInv, RecordTypes
<1>3. CASE pc[s] = "check" /\ AddPow(work[s])
  BY <1>1, <1>3, Writes
<1> QED
  BY <1>2, <1>3 DEF CallFails

LEMMA RecordCrashStep ==
  ASSUME RecordInv, Crash
  PROVE  RecordInv'
<1>1. /\ UNCHANGED <<nodeHeight, accepted, work, pow, candidates>>
      /\ pc' = [t \in Sessions |-> "idle"]
      /\ \A t \in Sessions : pc[t] # "idle" => work[t] \in lost'
      /\ lost \subseteq lost'
  BY DEF Crash, Failed, nodeVars, redisVars, Busy
<1>2. RecordTypes' /\ Sorted'
  BY <1>1 DEF RecordInv, RecordTypes, Sorted
<1>3. \A t \in Sessions, w \in Works : ~Past(t, w)' /\ ~Unchecked(t, w)'
  BY <1>1 DEF Past, Unchecked
<1>4. \A w \in Works : InProgress(w) => w \in lost'
  BY <1>1 DEF InProgress
<1>5. Solves \subseteq Works /\ accepted \subseteq Works /\ nodeHeight <= nodeHeight'
  BY <1>1, BlockConstants DEF RecordInv, RecordTypes
<1> QED
  BY <1>1, <1>2, <1>3, <1>4, <1>5, RecordKept

-----------------------------------------------------------------------------

LEMMA InitRecord ==
  ASSUME Works # {}
  PROVE  Init => RecordInv
<1> SUFFICES ASSUME Init PROVE RecordInv
  OBVIOUS
<1>1. RecordTypes
  BY HeightAssumption DEF Init, RecordTypes
<1>2. \A s \in Sessions, w \in Works : ~Past(s, w) /\ ~Unchecked(s, w)
  BY DEF Init, Past, Unchecked
<1>3. Sorted /\ AcceptedBelow /\ AcceptedBlockRecorded
  BY DEF Init, Sorted, AcceptedBelow, AcceptedBlockRecorded
<1>4. PastIsAccepted /\ OnePast /\ KeyIsNew
  BY <1>2, BlockConstants DEF PastIsAccepted, OnePast, KeyIsNew
<1>5. KnownIsAccepted
  BY BlockConstants DEF Init, KnownIsAccepted
<1> QED
  BY <1>1, <1>3, <1>4, <1>5 DEF RecordInv

LEMMA NextRecord == RecordInv /\ [Next]_vars => RecordInv'
<1> SUFFICES ASSUME RecordInv, [Next]_vars PROVE RecordInv'
  OBVIOUS
<1>1. CASE NewBlock \/ RefreshTemplate
  BY <1>1, NodeAndTemplateSteps
<1>2. CASE Crash
  BY <1>2, RecordCrashStep
<1>3. CASE \E s \in Sessions, w \in Works : Submit(s, w)
  BY <1>3, RecordSubmitStep
<1>4. CASE \E s \in Sessions : ShareStep(s)
  BY <1>4, RecordSubmitBlockStep, BeforeCheckSteps, RecordCheckPowStep, WriteSteps DEF ShareStep
<1>5. CASE \E s \in Sessions :
             CallFails(s) \/ ExpireFails(s) \/ SubmitReplyLost(s) \/ CloseReplyLost(s)
  BY <1>5, RecordCallFailsStep, BeforeCheckSteps, RecordSubmitReplyLostStep, WriteSteps
<1>6. CASE UNCHANGED vars
  <2>1. UNCHANGED <<nodeHeight, accepted, pc, work, pow, candidates, lost>>
    BY <1>6 DEF vars, nodeVars, redisVars, faultVars
  <2>2. RecordTypes' /\ Sorted' /\ AcceptedBelow' /\ PastIsAccepted' /\ OnePast'
    BY <2>1 DEF RecordInv, RecordTypes, Sorted, AcceptedBelow, PastIsAccepted, OnePast, Past
  <2>3. KeyIsNew' /\ KnownIsAccepted'
    BY <2>1 DEF RecordInv, KeyIsNew, KnownIsAccepted, KeyShared, Unchecked
  <2>4. AcceptedBlockRecorded'
    BY <2>1 DEF RecordInv, AcceptedBlockRecorded, InProgress, IsCandidate, KeyShared
  <2> QED
    BY <2>2, <2>3, <2>4 DEF RecordInv
<1> QED
  BY <1>1, <1>2, <1>3, <1>4, <1>5, <1>6 DEF Next

\* A block that the node took is being written down or has become a candidate,
\* unless one of its calls failed, the proxy died, or another work has its key:
\* processShare's order of SubmitBlock, checkPoWExist and WriteBlock loses no
\* block to a second submission of it.
THEOREM AcceptedIsRecorded ==
  ASSUME Works # {}
  PROVE  Spec => []AcceptedBlockRecorded
<1>1. RecordInv => AcceptedBlockRecorded
  BY DEF RecordInv
<1> QED
  BY <1>1, InitRecord, NextRecord, PTL DEF Spec

-----------------------------------------------------------------------------
(* The ledger adds up: rounds, statistics, candidates and what was credited. *)

\* Only blocks are submitted and closed.
BlocksOnly ==
  \A s \in Sessions :
    pc[s] \in {"submit", "refresh", "block", "candidate"} => work[s] \in Solves

\* The round of a block is closed once: only a block that the node took has a
\* closed round, and its session then waits to add the candidate.
ClosedOnce ==
  \A w \in Works : rounds[w] # NoShares =>
    w \in accepted /\ \A s \in Sessions : Past(s, w) => pc[s] = "candidate"

\* What that session remembers is what the round holds.
ClosedTotals ==
  \A s \in Sessions :
    pc[s] = "candidate" => total[s] > 0 /\ total[s] = SumFunction(rounds[work[s]])

LedgerInv ==
  /\ TypeOK
  /\ BlocksOnly
  /\ ClosedOnce
  /\ ClosedTotals
  /\ CandidateTotals
  /\ RoundsHoldCredits
  /\ StatMatchesRound

LEMMA LoginsFinite == IsFiniteSet(Logins)
<1> DEFINE f == [s \in Sessions |-> LoginOf[s]]
<1>1. f \in Surjection(Sessions, Logins)
  BY DEF Logins, Surjection
<1> HIDE DEF f
<1> QED
  BY <1>1, FiniteAssumption, FS_Surjection

\* A round and what it holds.
LEMMA RoundTotal ==
  ASSUME NEW round \in [Logins -> Nat]
  PROVE  SumFunction(round) \in Nat
BY LoginsFinite, SumNat, SumOfAll

LEMMA EmptyRound == NoShares \in [Logins -> Nat] /\ SumFunction(NoShares) = 0
<1>1. DOMAIN NoShares = Logins /\ \A l \in Logins : NoShares[l] = 0
  BY DEF NoShares
<1>2. SumFunctionOnSet(NoShares, Logins) = 0
  BY <1>1, LoginsFinite, SumZero
<1> QED
  BY <1>1, <1>2, SumOfAll DEF NoShares

\* A share is added to a round.
LEMMA CreditedRound ==
  ASSUME NEW round \in [Logins -> Nat], NEW s \in Sessions
  PROVE  /\ CreditShare(round, s) \in [Logins -> Nat]
         /\ SumFunction(CreditShare(round, s)) = SumFunction(round) + Diff
<1> DEFINE l == LoginOf[s]
           new == CreditShare(round, s)
<1>1. l \in Logins /\ Diff \in Nat
  BY WorkAssumption DEF Logins
<1>2. new = [round EXCEPT ![l] = round[l] + Diff]
  BY DEF CreditShare
<1> HIDE DEF new, l
<1>3. /\ new \in [Logins -> Nat] /\ DOMAIN new = Logins /\ DOMAIN round = Logins
      /\ new[l] = round[l] + Diff
      /\ \A k \in Logins \ {l} : round[k] = new[k]
      /\ \A k \in Logins : round[k] \in Int /\ new[k] \in Int
  BY <1>1, <1>2
<1>4. SumFunctionOnSet(new, Logins) = SumFunctionOnSet(round, Logins) + new[l] - round[l]
  BY <1>1, <1>3, LoginsFinite, SumChange
<1>5. SumFunctionOnSet(round, Logins) \in Int
  BY <1>3, LoginsFinite, SumInt
<1>6. SumFunction(new) = SumFunctionOnSet(new, Logins) /\ SumFunction(round) = SumFunctionOnSet(round, Logins)
  BY <1>3, SumOfAll
<1>7. SumFunction(new) = SumFunction(round) + Diff
  <2> DEFINE t == SumFunctionOnSet(round, Logins)
             u == SumFunctionOnSet(new, Logins)
  <2>1. t \in Int /\ u = t + new[l] - round[l] /\ round[l] \in Int
    BY <1>1, <1>3, <1>4, <1>5
  <2> HIDE DEF t, u
  <2>2. u = t + Diff
    BY <1>1, <1>3, <2>1
  <2> QED
    BY <1>6, <2>2 DEF t, u
<1> QED
  BY <1>3, <1>7 DEF new

\* One number of a sum over the works changes.
LEMMA WorkSum ==
  ASSUME NEW f \in [Works -> Nat], NEW w \in Works, NEW v \in Nat
  PROVE  /\ SumFunction([f EXCEPT ![w] = v]) = SumFunction(f) + v - f[w]
         /\ SumFunction(f) \in Nat
<1> DEFINE g == [f EXCEPT ![w] = v]
           t == SumFunctionOnSet(f, Works)
           u == SumFunctionOnSet(g, Works)
<1>1. /\ DOMAIN g = Works /\ DOMAIN f = Works /\ g[w] = v
      /\ \A x \in Works \ {w} : f[x] = g[x]
      /\ \A x \in Works : f[x] \in Int /\ g[x] \in Int /\ f[x] \in Nat
  OBVIOUS
<1> HIDE DEF g
<1>2. u = t + g[w] - f[w]
  BY <1>1, FiniteAssumption, SumChange
<1>3. t \in Nat
  BY <1>1, FiniteAssumption, SumNat
<1>4. SumFunction(f) = t /\ SumFunction(g) = u
  BY <1>1, SumOfAll
<1> QED
  BY <1>1, <1>2, <1>3, <1>4 DEF g

LEMMA LedgerTypes == TypeOK /\ BlocksOnly /\ [Next]_vars => TypeOK'
<1> SUFFICES ASSUME TypeOK, BlocksOnly, [Next]_vars PROVE TypeOK'
  OBVIOUS
<1> USE DEF TypeOK
<1>0. /\ Diff \in Nat /\ Solves \subseteq Works /\ KeyOf \in [Works -> Keys]
      /\ HeightOf \in [Works -> FirstHeight..MaxHeight]
      /\ FirstHeight \in Nat /\ MaxHeight \in Nat /\ MaxFailures \in Nat
  BY WorkAssumption, HeightAssumption
<1>1. CASE NewBlock
  BY <1>0, <1>1 DEF NewBlock, templateVars, redisVars, roundVars, faultVars
<1>2. ASSUME NEW h \in FirstHeight..MaxHeight, StoreTemplate(h)
      PROVE  {template', newest'} \subseteq FirstHeight..MaxHeight
  BY <1>2 DEF StoreTemplate
<1>3. CASE RefreshTemplate
  BY <1>2, <1>3 DEF RefreshTemplate, nodeVars, redisVars, roundVars, faultVars
<1>4. CASE Crash
  BY <1>0, <1>4 DEF Crash, Failed, Busy, nodeVars, redisVars, roundVars
<1>5. ASSUME NEW s \in Sessions, NEW w \in Works, Submit(s, w) PROVE TypeOK'
  BY <1>5 DEF Submit, Goto, BusyPcs, nodeVars, templateVars, redisVars, roundVars, faultVars
<1>6. ASSUME NEW s \in Sessions, NodeTakes(work[s]), work[s] \in Solves
      PROVE  nodeHeight' \in FirstHeight..MaxHeight /\ accepted' \subseteq Solves
  BY <1>0, <1>6 DEF NodeTakes
<1>7. ASSUME NEW s \in Sessions, SubmitBlock(s) PROVE TypeOK'
  <2>1. work[s] \in Solves
    BY <1>7 DEF SubmitBlock, BlocksOnly
  <2>2. nodeHeight' \in FirstHeight..MaxHeight /\ accepted' \subseteq Solves
    BY <1>6, <1>7, <2>1 DEF SubmitBlock, nodeVars
  <2>3. pc' \in [Sessions -> BusyPcs \cup {"idle"}] /\ total' \in [Sessions -> Nat]
    BY <1>7 DEF SubmitBlock, Goto, Finish, BusyPcs
  <2> QED
    BY <1>7, <2>2, <2>3 DEF SubmitBlock, templateVars, redisVars, roundVars, faultVars
<1>8. ASSUME NEW s \in Sessions, RefreshAfterBlock(s) PROVE TypeOK'
  <2>1. {template', newest'} \subseteq FirstHeight..MaxHeight
    BY <1>2, <1>8 DEF RefreshAfterBlock, Fetch, templateVars
  <2> QED
    BY <1>8, <2>1 DEF RefreshAfterBlock, Goto, BusyPcs, nodeVars, redisVars, roundVars, faultVars
<1>9. ASSUME NEW s \in Sessions, ExpirePow(s) PROVE TypeOK'
  BY <1>9 DEF ExpirePow, Goto, BusyPcs, nodeVars, templateVars, roundVars, faultVars
<1>10. ASSUME NEW w \in Works, AddPow(w) PROVE pow' \in [Keys -> {0} \cup FirstHeight..MaxHeight]
  BY <1>0, <1>10 DEF AddPow
<1>11. ASSUME NEW s \in Sessions, CheckPow(s) PROVE TypeOK'
  <2>1. NextWrite(work[s]) \in BusyPcs
    BY DEF NextWrite, BusyPcs
  <2>2. pc' \in [Sessions -> BusyPcs \cup {"idle"}] /\ total' \in [Sessions -> Nat]
    <3>1. \/ Finish(s)
          \/ Goto(s, NextWrite(work[s])) /\ UNCHANGED total
      BY <1>11 DEF CheckPow
    <3>2. ASSUME NEW label \in BusyPcs \cup {"idle"}, Goto(s, label)
          PROVE  pc' \in [Sessions -> BusyPcs \cup {"idle"}]
      BY <3>2 DEF Goto
    <3>3. Finish(s) => Goto(s, "idle") /\ total' \in [Sessions -> Nat]
      BY DEF Finish
    <3> QED
      BY <2>1, <3>1, <3>2, <3>3
  <2>3. pow' \in [Keys -> {0} \cup FirstHeight..MaxHeight]
    <3>1. work[s] \in Works /\ AddPow(work[s])
      BY <1>11 DEF CheckPow
    <3> QED
      BY <1>10, <3>1
  <2>4. UNCHANGED <<nodeVars, templateVars, work, roundVars, candidates, faultVars>>
    BY <1>11 DEF CheckPow
  <2> QED
    BY <2>2, <2>3, <2>4 DEF nodeVars, templateVars, roundVars, faultVars
<1>12. ASSUME NEW s \in Sessions, WriteShare(s) PROVE TypeOK'
  <2>1. roundCurrent' \in [Logins -> Nat]
    BY <1>12, CreditedRound DEF WriteShare
  <2>2. roundShares' \in Nat /\ credited' \in [Works -> Nat]
    BY <1>0, <1>12 DEF WriteShare
  <2> QED
    BY <1>12, <2>1, <2>2 DEF WriteShare, Goto, Finish, nodeVars, templateVars, faultVars
<1>13. ASSUME NEW s \in Sessions, RenameRound(s)
       PROVE  /\ roundCurrent' \in [Logins -> Nat] /\ rounds' \in [Works -> [Logins -> Nat]]
              /\ roundShares' \in Nat /\ credited' \in [Works -> Nat]
  <2>1. ClosedRound(s) \in [Logins -> Nat]
    BY CreditedRound DEF ClosedRound
  <2> QED
    BY <1>13, <2>1, EmptyRound DEF RenameRound
<1>14. ASSUME NEW s \in Sessions, CloseRound(s) PROVE TypeOK'
  <2>1. TotalOf(ClosedRound(s)) \in Nat
    BY CreditedRound, RoundTotal DEF ClosedRound, TotalOf
  <2>2. pc' \in [Sessions -> BusyPcs \cup {"idle"}] /\ total' \in [Sessions -> Nat]
    BY <1>14, <2>1 DEF CloseRound, Goto, BusyPcs
  <2> QED
    BY <1>13, <1>14, <2>2 DEF CloseRound, nodeVars, templateVars, faultVars
<1>15. ASSUME NEW s \in Sessions, AddCandidate(s) PROVE TypeOK'
  <2>1. work[s] \in Solves /\ total[s] \in Nat
    BY <1>15 DEF AddCandidate, BlocksOnly
  <2>2. candidates' \subseteq [work : Solves, total : Nat]
    BY <1>15, <2>1 DEF AddCandidate
  <2> QED
    BY <1>15, <2>2 DEF AddCandidate, Goto, Finish, nodeVars, templateVars, roundVars, faultVars
<1>16. ASSUME NEW works \in SUBSET Works, Failed(works)
       PROVE  lost' \subseteq Works /\ failures' \in 0..MaxFailures
  BY <1>0, <1>16 DEF Failed
<1>17. ASSUME NEW s \in Sessions, CallFails(s) PROVE TypeOK'
  <2>1. lost' \subseteq Works /\ failures' \in 0..MaxFailures
    BY <1>16, <1>17 DEF CallFails
  <2>2. pow' \in [Keys -> {0} \cup FirstHeight..MaxHeight]
    BY <1>10, <1>17 DEF CallFails
  <2> QED
    BY <1>17, <2>1, <2>2 DEF CallFails, Goto, Finish, nodeVars, templateVars, roundVars
<1>18. ASSUME NEW s \in Sessions, ExpireFails(s) PROVE TypeOK'
  <2>1. lost' \subseteq Works /\ failures' \in 0..MaxFailures
    BY <1>16, <1>18 DEF ExpireFails
  <2> QED
    BY <1>18, <2>1 DEF ExpireFails, Goto, BusyPcs, nodeVars, templateVars, redisVars, roundVars
<1>19. ASSUME NEW s \in Sessions, SubmitReplyLost(s) PROVE TypeOK'
  <2>1. lost' \subseteq Works /\ failures' \in 0..MaxFailures
    BY <1>16, <1>19 DEF SubmitReplyLost
  <2>2. nodeHeight' \in FirstHeight..MaxHeight /\ accepted' \subseteq Solves
    BY <1>6, <1>19 DEF SubmitReplyLost, BlocksOnly
  <2> QED
    BY <1>19, <2>1, <2>2 DEF SubmitReplyLost, Goto, Finish, templateVars, redisVars, roundVars
<1>20. ASSUME NEW s \in Sessions, CloseReplyLost(s) PROVE TypeOK'
  <2>1. lost' \subseteq Works /\ failures' \in 0..MaxFailures
    BY <1>16, <1>20 DEF CloseReplyLost
  <2> QED
    BY <1>13, <1>20, <2>1 DEF CloseReplyLost, Goto, Finish, nodeVars, templateVars
<1>21. CASE UNCHANGED vars
  BY <1>21 DEF vars, nodeVars, templateVars, redisVars, roundVars, faultVars
<1> QED
  BY <1>1, <1>3, <1>4, <1>5, <1>7, <1>8, <1>9, <1>11, <1>12, <1>14, <1>15, <1>17, <1>18,
     <1>19, <1>20, <1>21 DEF Next, ShareStep

\* A step that leaves rounds and candidates alone.
LEMMA LedgerKept ==
  ASSUME LedgerInv, TypeOK', BlocksOnly', UNCHANGED <<roundVars, candidates>>,
         accepted \subseteq accepted',
         \A t \in Sessions : pc'[t] = "candidate" =>
           pc[t] = "candidate" /\ work'[t] = work[t] /\ total'[t] = total[t],
         \A t \in Sessions, w \in accepted : Past(t, w)' => Past(t, w),
         \A t \in Sessions : pc[t] = "candidate" => pc'[t] \in {"candidate", "idle"}
  PROVE  LedgerInv'
<1>1. ClosedOnce'
  <2> SUFFICES ASSUME NEW w \in Works, rounds[w] # NoShares
      PROVE  w \in accepted' /\ \A t \in Sessions : Past(t, w)' => pc'[t] = "candidate"
    BY DEF ClosedOnce, roundVars
  <2>1. w \in accepted /\ \A t \in Sessions : Past(t, w) => pc[t] = "candidate"
    BY DEF LedgerInv, ClosedOnce
  <2>2. ASSUME NEW t \in Sessions, Past(t, w)' PROVE pc'[t] = "candidate"
    <3>1. pc[t] = "candidate"
      BY <2>1, <2>2
    <3> QED
      BY <2>2, <3>1 DEF Past
  <2> QED
    BY <2>1, <2>2
<1>2. ClosedTotals'
  BY DEF LedgerInv, ClosedTotals, roundVars
<1>3. CandidateTotals' /\ RoundsHoldCredits' /\ StatMatchesRound'
  BY DEF LedgerInv, CandidateTotals, RoundsHoldCredits, StatMatchesRound, roundVars
<1> QED
  BY <1>1, <1>2, <1>3 DEF LedgerInv

\* Session s goes to another call, with no effect on the rounds.
LEMMA LedgerMove ==
  ASSUME LedgerInv, TypeOK', NEW s \in Sessions, NEW label \in {"expire", "check", "idle", "share", "block"},
         UNCHANGED <<roundVars, candidates, work>>, accepted \subseteq accepted',
         pc' = [pc EXCEPT ![s] = label],
         \A t \in Sessions \ {s} : total'[t] = total[t],
         label \in {"expire", "check", "block"} => Past(s, work[s]),
         label = "block" => work[s] \in Solves,
         label = "idle" \/ pc[s] # "candidate"
  PROVE  LedgerInv'
<1>1. pc \in [Sessions -> BusyPcs \cup {"idle"}]
  BY DEF LedgerInv, TypeOK
<1>2. \A t \in Sessions : pc'[t] = IF t = s THEN label ELSE pc[t]
  BY <1>1
<1>3. BlocksOnly'
  BY <1>2 DEF LedgerInv, BlocksOnly
<1>4. \A t \in Sessions : pc'[t] = "candidate" =>
        pc[t] = "candidate" /\ work'[t] = work[t] /\ total'[t] = total[t]
  BY <1>2
<1>5. \A t \in Sessions, w \in accepted : Past(t, w)' => Past(t, w)
  BY <1>2 DEF Past
<1>6. \A t \in Sessions : pc[t] = "candidate" => pc'[t] \in {"candidate", "idle"}
  BY <1>2
<1> QED
  BY <1>3, <1>4, <1>5, <1>6, LedgerKept

\* What one more credit does to the sum of credits.
LEMMA CreditCounted ==
  ASSUME TypeOK, NEW w \in Works, credited' = [credited EXCEPT ![w] = credited[w] + 1]
  PROVE  Diff * SumFunction(credited') = Diff * SumFunction(credited) + Diff
<1> DEFINE n == SumFunction(credited)
           m == SumFunction(credited')
<1>1. n \in Nat /\ m = n + (credited[w] + 1) - credited[w] /\ credited[w] \in Nat
  <2>1. credited \in [Works -> Nat] /\ credited[w] \in Nat /\ credited[w] + 1 \in Nat
    BY DEF TypeOK
  <2> QED
    BY <2>1, WorkSum
<1>2. Diff \in Nat
  BY WorkAssumption
<1> HIDE DEF n, m
<1>3. m = n + 1
  BY <1>1
<1>4. Diff * (n + 1) = Diff * n + Diff
  BY <1>1, <1>2
<1> QED
  BY <1>3, <1>4 DEF n, m

\* writeShare: a share is added to the open round.
LEMMA LedgerWriteShare ==
  ASSUME LedgerInv, TypeOK', NEW s \in Sessions, WriteShare(s)
  PROVE  LedgerInv'
<1> DEFINE closed == SumFunction([w \in Works |-> SumFunction(rounds[w])])
<1>1. /\ pc[s] = "share" /\ pc' = [pc EXCEPT ![s] = "idle"]
      /\ roundCurrent' = CreditShare(roundCurrent, s) /\ roundShares' = roundShares + Diff
      /\ credited' = [credited EXCEPT ![work[s]] = credited[work[s]] + 1]
      /\ UNCHANGED <<rounds, candidates, work, accepted>>
      /\ total' = [total EXCEPT ![s] = 0]
  BY DEF WriteShare, Finish, Goto, nodeVars
<1>2. /\ roundCurrent \in [Logins -> Nat] /\ work[s] \in Works /\ TypeOK
      /\ pc \in [Sessions -> BusyPcs \cup {"idle"}] /\ total \in [Sessions -> Nat]
  BY DEF LedgerInv, TypeOK
<1>3. SumFunction(roundCurrent') = SumFunction(roundCurrent) + Diff /\ SumFunction(roundCurrent) \in Nat
  BY <1>1, <1>2, CreditedRound, RoundTotal
<1>4. StatMatchesRound'
  BY <1>1, <1>3 DEF LedgerInv, StatMatchesRound
<1>5. closed \in Nat
  <2>1. [w \in Works |-> SumFunction(rounds[w])] \in [Works -> Nat]
    BY RoundTotal DEF LedgerInv, TypeOK
  <2> HIDE DEF closed
  <2> QED
    BY <1>2, <2>1, WorkSum DEF closed
<1>6. RoundsHoldCredits'
  <2> DEFINE open == SumFunction(roundCurrent)
             all == Diff * SumFunction(credited)
             opens == SumFunction(roundCurrent')
             alls == Diff * SumFunction(credited')
  <2>1. open + closed = all
    BY DEF LedgerInv, RoundsHoldCredits
  <2>2. alls = all + Diff /\ opens = open + Diff
    BY <1>1, <1>2, <1>3, CreditCounted
  <2>3. open \in Nat /\ Diff \in Nat
    BY <1>3, WorkAssumption
  <2>4. rounds' = rounds
    BY <1>1
  <2> HIDE DEF open, closed, all, opens, alls
  <2>5. opens + closed = alls
    BY <1>5, <2>1, <2>2, <2>3
  <2> QED
    BY <2>4, <2>5 DEF RoundsHoldCredits, opens, closed, alls
<1>7. \A t \in Sessions : pc'[t] # "idle" => t # s /\ pc'[t] = pc[t] /\ total'[t] = total[t]
  BY <1>1, <1>2
<1>8. BlocksOnly' /\ ClosedTotals'
  BY <1>1, <1>7 DEF LedgerInv, BlocksOnly, ClosedTotals
<1>9. ClosedOnce'
  BY <1>1, <1>7 DEF LedgerInv, ClosedOnce, Past
<1>10. CandidateTotals'
  BY <1>1 DEF LedgerInv, CandidateTotals
<1> QED
  BY <1>4, <1>6, <1>8, <1>9, <1>10 DEF LedgerInv

\* WriteBlock's transaction: the open round becomes the round of the block.
LEMMA LedgerRename ==
  ASSUME LedgerInv, TypeOK', RecordInv, NEW s \in Sessions, NEW label \in {"candidate", "idle"},
         pc[s] = "block", RenameRound(s), UNCHANGED <<candidates, work, accepted>>,
         pc' = [pc EXCEPT ![s] = label],
         \A t \in Sessions \ {s} : total'[t] = total[t],
         label = "candidate" => total'[s] = SumFunction(ClosedRound(s))
  PROVE  LedgerInv'
<1> DEFINE w == work[s]
           new == ClosedRound(s)
           f == [v \in Works |-> SumFunction(rounds[v])]
           g == [v \in Works |-> SumFunction(rounds'[v])]
<1>1. /\ rounds' = [rounds EXCEPT ![w] = new] /\ roundCurrent' = NoShares /\ roundShares' = 0
      /\ credited' = [credited EXCEPT ![w] = credited[w] + 1]
  BY DEF RenameRound
<1>2. /\ TypeOK /\ w \in Solves /\ w \in Works /\ Past(s, w)
      /\ pc \in [Sessions -> BusyPcs \cup {"idle"}]
      /\ rounds \in [Works -> [Logins -> Nat]] /\ roundCurrent \in [Logins -> Nat]
  BY DEF LedgerInv, TypeOK, BlocksOnly, Past
<1>3. w \in accepted /\ \A t \in Sessions \ {s} : ~Past(t, w)
  BY <1>2 DEF RecordInv, PastIsAccepted, OnePast
<1>4. rounds[w] = NoShares
  BY <1>2 DEF LedgerInv, ClosedOnce
<1>5. /\ SumFunction(new) = SumFunction(roundCurrent) + Diff /\ SumFunction(roundCurrent) \in Nat
      /\ SumFunction(new) > 0 /\ SumFunction(new) \in Nat /\ Diff \in Nat
  <2>1. SumFunction(new) = SumFunction(roundCurrent) + Diff /\ SumFunction(roundCurrent) \in Nat
    BY <1>2, CreditedRound, RoundTotal DEF ClosedRound
  <2>2. Diff \in Nat \ {0}
    BY WorkAssumption
  <2> DEFINE n == SumFunction(roundCurrent)
             m == SumFunction(new)
  <2> HIDE DEF n, m
  <2>3. m = n + Diff /\ n \in Nat
    BY <2>1 DEF n, m
  <2>4. m > 0 /\ m \in Nat
    BY <2>2, <2>3
  <2> QED
    BY <2>1, <2>2, <2>4 DEF m
<1> HIDE DEF w, new
<1>6. rounds'[w] = new /\ \A v \in Works \ {w} : rounds'[v] = rounds[v]
  BY <1>1, <1>2
<1>7. \A t \in Sessions : pc'[t] = IF t = s THEN label ELSE pc[t]
  BY <1>2
<1>8. BlocksOnly'
  BY <1>2, <1>7 DEF LedgerInv, BlocksOnly, w
<1>9. ClosedOnce'
  <2> SUFFICES ASSUME NEW v \in Works, rounds'[v] # NoShares
      PROVE  v \in accepted' /\ \A t \in Sessions : Past(t, v)' => pc'[t] = "candidate"
    BY DEF ClosedOnce
  <2>1. CASE v = w
    BY <1>3, <1>7, <2>1 DEF Past
  <2>2. CASE v # w
    <3>1. v \in accepted /\ \A t \in Sessions : Past(t, v) => pc[t] = "candidate"
      BY <1>6, <2>2 DEF LedgerInv, ClosedOnce
    <3> QED
      BY <1>7, <2>2, <3>1 DEF Past, w
  <2> QED
    BY <2>1, <2>2
<1>10. ClosedTotals'
  <2> SUFFICES ASSUME NEW t \in Sessions, pc'[t] = "candidate"
      PROVE  total'[t] > 0 /\ total'[t] = SumFunction(rounds'[work[t]])
    BY DEF ClosedTotals
  <2>1. CASE t = s
    BY <1>5, <1>6, <1>7, <2>1 DEF w, new
  <2>2. CASE t # s
    <3>1. pc[t] = "candidate" /\ total'[t] = total[t] /\ work[t] \in Works
      BY <1>7, <2>2 DEF LedgerInv, TypeOK
    <3>2. work[t] # w
      BY <1>3, <2>2, <3>1 DEF Past
    <3> QED
      BY <1>6, <3>1, <3>2 DEF LedgerInv, ClosedTotals
  <2> QED
    BY <2>1, <2>2
<1>11. CandidateTotals'
  <2> SUFFICES ASSUME NEW c \in candidates
      PROVE  c.total > 0 /\ c.total = SumFunction(rounds'[c.work])
    BY DEF CandidateTotals
  <2>1. c.total > 0 /\ c.total = SumFunction(rounds[c.work])
    BY DEF LedgerInv, CandidateTotals
  <2>2. c.work \in Works
    BY WorkAssumption DEF LedgerInv, TypeOK
  <2>3. c.work # w
    BY <1>4, <2>1, EmptyRound
  <2> QED
    BY <1>6, <2>1, <2>2, <2>3
<1>12. StatMatchesRound'
  BY <1>1, EmptyRound DEF StatMatchesRound
<1>13. /\ f \in [Works -> Nat] /\ g = [f EXCEPT ![w] = SumFunction(new)] /\ f[w] = 0
  <2>1. \A v \in Works : SumFunction(rounds[v]) \in Nat
    BY <1>2, RoundTotal
  <2> QED
    BY <1>2, <1>4, <1>6, <2>1, EmptyRound
<1> HIDE DEF f, g
<1>14. SumFunction(g) = SumFunction(f) + SumFunction(new) - f[w] /\ SumFunction(f) \in Nat
  BY <1>2, <1>5, <1>13, WorkSum
<1>15. RoundsHoldCredits'
  <2> DEFINE open == SumFunction(roundCurrent)
             all == Diff * SumFunction(credited)
             alls == Diff * SumFunction(credited')
             closed == SumFunction(f)
             closeds == SumFunction(g)
             added == SumFunction(new)
  <2>1. open + closed = all
    BY DEF LedgerInv, RoundsHoldCredits, f
  <2>2. alls = all + Diff
    BY <1>1, <1>2, CreditCounted
  <2>3. /\ open \in Nat /\ Diff \in Nat /\ closed \in Nat /\ added = open + Diff
        /\ closeds = closed + added - 0
    BY <1>5, <1>13, <1>14
  <2>4. SumFunction(roundCurrent') = 0
    BY <1>1, EmptyRound
  <2> HIDE DEF open, closed, all, alls, closeds, added
  <2>5. 0 + closeds = alls
    BY <2>1, <2>2, <2>3
  <2> QED
    BY <2>4, <2>5 DEF RoundsHoldCredits, closeds, alls, g
<1> QED
  BY <1>8, <1>9, <1>10, <1>11, <1>12, <1>15 DEF LedgerInv

LEMMA LedgerStep == LedgerInv /\ RecordInv /\ [Next]_vars => LedgerInv'
<1> SUFFICES ASSUME LedgerInv, RecordInv, [Next]_vars PROVE LedgerInv'
  OBVIOUS
<1>0. /\ TypeOK' /\ TypeOK /\ pc \in [Sessions -> BusyPcs \cup {"idle"}]
      /\ total \in [Sessions -> Nat]
      /\ work \in [Sessions -> Works]
  BY LedgerTypes DEF LedgerInv, TypeOK
<1>1. ASSUME UNCHANGED <<pc, work, total, roundVars, candidates, accepted>>
      PROVE  LedgerInv'
  <2>1. BlocksOnly' /\ \A t \in Sessions, w \in accepted : Past(t, w)' => Past(t, w)
    BY <1>1 DEF LedgerInv, BlocksOnly, Past
  <2> QED
    BY <1>0, <1>1, <2>1, LedgerKept
<1>2. CASE NewBlock \/ RefreshTemplate \/ UNCHANGED vars
  BY <1>1, <1>2 DEF NewBlock, RefreshTemplate, vars, nodeVars, redisVars
<1>3. CASE Crash
  <2>1. /\ pc' = [t \in Sessions |-> "idle"]
        /\ UNCHANGED <<work, roundVars, candidates, accepted>>
    BY <1>3 DEF Crash, nodeVars, redisVars
  <2>2. BlocksOnly' /\ \A t \in Sessions, w \in accepted : ~Past(t, w)'
    BY <2>1 DEF BlocksOnly, Past
  <2> QED
    BY <1>0, <2>1, <2>2, LedgerKept
<1>4. ASSUME NEW s \in Sessions, NEW w \in Works, Submit(s, w) PROVE LedgerInv'
  <2>1. /\ pc[s] = "idle" /\ work' = [work EXCEPT ![s] = w]
        /\ pc' = [pc EXCEPT ![s] = IF w \in Solves THEN "submit" ELSE "expire"]
        /\ UNCHANGED <<total, roundVars, candidates, accepted>>
    BY <1>4 DEF Submit, Goto, nodeVars, redisVars
  <2>2. BlocksOnly'
    BY <1>0, <2>1 DEF LedgerInv, BlocksOnly
  <2>3. accepted \subseteq Solves
    BY <1>0 DEF TypeOK
  <2>4. \A t \in Sessions, v \in accepted : Past(t, v)' => Past(t, v)
    BY <1>0, <2>1, <2>3 DEF Past
  <2>5. \A t \in Sessions : pc'[t] = "candidate" =>
          pc[t] = "candidate" /\ work'[t] = work[t] /\ total'[t] = total[t]
    BY <1>0, <2>1
  <2>6. \A t \in Sessions : pc[t] = "candidate" => pc'[t] \in {"candidate", "idle"}
    BY <1>0, <2>1
  <2> QED
    BY <1>0, <2>1, <2>2, <2>4, <2>5, <2>6, LedgerKept
<1>5. ASSUME NEW s \in Sessions, NodeTakes(work[s]), pc[s] = "submit",
             UNCHANGED <<work, roundVars, candidates>>,
             NEW label \in {"refresh", "idle"}, pc' = [pc EXCEPT ![s] = label],
             \A t \in Sessions \ {s} : total'[t] = total[t]
      PROVE  LedgerInv'
  <2>1. accepted \subseteq accepted' /\ work[s] \notin accepted
    BY <1>0, <1>5 DEF NodeTakes, RecordInv, RecordTypes, AcceptedBelow
  <2>2. \A t \in Sessions : pc'[t] = IF t = s THEN label ELSE pc[t]
    BY <1>0, <1>5
  <2>3. BlocksOnly'
    BY <1>5, <2>2 DEF LedgerInv, BlocksOnly
  <2>4. \A t \in Sessions, w \in accepted : Past(t, w)' => Past(t, w)
    BY <1>5, <2>1, <2>2 DEF Past
  <2>5. \A t \in Sessions : pc'[t] = "candidate" =>
          pc[t] = "candidate" /\ work'[t] = work[t] /\ total'[t] = total[t]
    BY <1>5, <2>2
  <2>6. \A t \in Sessions : pc[t] = "candidate" => pc'[t] \in {"candidate", "idle"}
    BY <1>5, <2>2
  <2> QED
    BY <1>0, <1>5, <2>1, <2>3, <2>4, <2>5, <2>6, LedgerKept
<1>6. ASSUME NEW s \in Sessions, Finish(s)
      PROVE  /\ pc' = [pc EXCEPT ![s] = "idle"]
             /\ \A t \in Sessions \ {s} : total'[t] = total[t]
  BY <1>0, <1>6 DEF Finish, Goto
<1>7. ASSUME NEW s \in Sessions, SubmitBlock(s) \/ SubmitReplyLost(s) PROVE LedgerInv'
  <2>1. pc[s] = "submit" /\ UNCHANGED <<work, roundVars, candidates>>
    BY <1>7 DEF SubmitBlock, SubmitReplyLost, redisVars
  <2>2. CASE NodeTakes(work[s]) /\ Goto(s, "refresh") /\ UNCHANGED total
    BY <1>5, <2>1, <2>2 DEF Goto
  <2>3. CASE NodeTakes(work[s]) /\ Finish(s)
    BY <1>5, <1>6, <2>1, <2>3
  <2>4. CASE UNCHANGED nodeVars /\ Finish(s)
    BY <1>0, <1>6, <2>1, <2>4, LedgerMove DEF nodeVars
  <2> QED
    BY <1>7, <2>2, <2>3, <2>4 DEF SubmitBlock, SubmitReplyLost
<1>8. ASSUME NEW s \in Sessions, RefreshAfterBlock(s) \/ ExpirePow(s) \/ ExpireFails(s)
      PROVE  LedgerInv'
  <2>1. /\ UNCHANGED <<work, roundVars, candidates, total, accepted>>
        /\ pc[s] \in {"refresh", "expire"}
        /\ \E label \in {"expire", "check"} : pc' = [pc EXCEPT ![s] = label]
    BY <1>8 DEF RefreshAfterBlock, ExpirePow, ExpireFails, Goto, nodeVars, redisVars
  <2>2. Past(s, work[s])
    BY <2>1 DEF Past
  <2> QED
    BY <1>0, <2>1, <2>2, LedgerMove
<1>9. ASSUME NEW s \in Sessions, CheckPow(s) PROVE LedgerInv'
  <2>1. /\ UNCHANGED <<work, roundVars, candidates, accepted>> /\ pc[s] = "check"
        /\ Finish(s) \/ (Goto(s, NextWrite(work[s])) /\ UNCHANGED total)
    BY <1>9 DEF CheckPow, nodeVars
  <2>2. Past(s, work[s])
    BY <2>1 DEF Past
  <2>3. CASE Finish(s)
    BY <1>0, <1>6, <2>1, <2>3, LedgerMove
  <2>4. CASE Goto(s, NextWrite(work[s])) /\ UNCHANGED total
    BY <1>0, <2>1, <2>2, <2>4, LedgerMove DEF Goto, NextWrite
  <2> QED
    BY <2>1, <2>3, <2>4
<1>10. ASSUME NEW s \in Sessions, WriteShare(s) PROVE LedgerInv'
  BY <1>0, <1>10, LedgerWriteShare
<1>11. ASSUME NEW s \in Sessions, CloseRound(s) PROVE LedgerInv'
  <2>1. /\ pc[s] = "block" /\ RenameRound(s) /\ UNCHANGED <<candidates, work, accepted>>
        /\ pc' = [pc EXCEPT ![s] = "candidate"]
        /\ total' = [total EXCEPT ![s] = SumFunction(ClosedRound(s))]
    BY <1>11 DEF CloseRound, Goto, TotalOf, nodeVars
  <2>2. total'[s] = SumFunction(ClosedRound(s)) /\ \A t \in Sessions \ {s} : total'[t] = total[t]
    BY <1>0, <2>1
  <2> QED
    BY <1>0, <2>1, <2>2, LedgerRename
<1>12. ASSUME NEW s \in Sessions, CloseReplyLost(s) PROVE LedgerInv'
  <2>1. /\ pc[s] = "block" /\ RenameRound(s) /\ UNCHANGED <<candidates, work, accepted>>
        /\ Finish(s)
    BY <1>12 DEF CloseReplyLost, nodeVars
  <2> QED
    BY <1>0, <1>6, <2>1, LedgerRename
<1>13. ASSUME NEW s \in Sessions, CallFails(s) PROVE LedgerInv'
  <2>1. Finish(s) /\ UNCHANGED <<work, roundVars, candidates, accepted>>
    BY <1>13 DEF CallFails, nodeVars
  <2> QED
    BY <1>0, <1>6, <2>1, LedgerMove
<1>14. ASSUME NEW s \in Sessions, AddCandidate(s) PROVE LedgerInv'
  <2>1. /\ Finish(s) /\ UNCHANGED <<work, roundVars, accepted>> /\ pc[s] = "candidate"
        /\ candidates' = candidates \cup {[work |-> work[s], total |-> total[s]]}
    BY <1>14 DEF AddCandidate, nodeVars
  <2>2. CandidateTotals'
    BY <2>1 DEF LedgerInv, ClosedTotals, CandidateTotals, roundVars
  <2>3. \A t \in Sessions : pc'[t] # "idle" => pc'[t] = pc[t] /\ total'[t] = total[t]
    BY <1>0, <1>6, <2>1
  <2>4. BlocksOnly' /\ ClosedTotals'
    BY <2>1, <2>3 DEF LedgerInv, BlocksOnly, ClosedTotals, roundVars
  <2>5. ClosedOnce'
    BY <2>1, <2>3 DEF LedgerInv, ClosedOnce, Past, roundVars
  <2>6. RoundsHoldCredits' /\ StatMatchesRound'
    BY <2>1 DEF LedgerInv, RoundsHoldCredits, StatMatchesRound, roundVars
  <2> QED
    BY <1>0, <2>2, <2>4, <2>5, <2>6 DEF LedgerInv
<1> QED
  BY <1>2, <1>3, <1>4, <1>7, <1>8, <1>9, <1>10, <1>11, <1>12, <1>13, <1>14 DEF Next, ShareStep

LEMMA InitLedger ==
  ASSUME Works # {}
  PROVE  Init => LedgerInv
<1> SUFFICES ASSUME Init PROVE LedgerInv
  OBVIOUS
<1>1. TypeOK
  <2>1. FirstHeight \in FirstHeight..MaxHeight /\ 0 \in 0..MaxFailures
    BY Heights, HeightAssumption
  <2>2. (CHOOSE w \in Works : TRUE) \in Works
    OBVIOUS
  <2> QED
    BY <2>1, <2>2, EmptyRound DEF Init, TypeOK
<1>2. BlocksOnly /\ ClosedOnce /\ ClosedTotals /\ CandidateTotals
  BY DEF Init, BlocksOnly, ClosedOnce, ClosedTotals, CandidateTotals
<1>3. StatMatchesRound
  BY EmptyRound DEF Init, StatMatchesRound
<1>4. RoundsHoldCredits
  <2> DEFINE zeros == [w \in Works |-> 0]
             f == [w \in Works |-> SumFunction(rounds[w])]
  <2>1. f = zeros /\ credited = zeros /\ SumFunction(roundCurrent) = 0
    BY EmptyRound DEF Init
  <2>2. DOMAIN zeros = Works /\ \A w \in Works : zeros[w] = 0
    OBVIOUS
  <2> HIDE DEF zeros, f
  <2>3. SumFunction(zeros) = 0
    BY <2>2, FiniteAssumption, SumZero, SumOfAll
  <2>4. 0 + 0 = Diff * 0
    BY WorkAssumption
  <2> QED
    BY <2>1, <2>3, <2>4 DEF RoundsHoldCredits, f
<1> QED
  BY <1>1, <1>2, <1>3, <1>4 DEF LedgerInv

\* The ledger of shares adds up: every credited share is in the open round or in
\* the closed round of one block, the front end's roundShares is what the open
\* round holds, and each candidate's totalShares is what its round holds, with
\* any number of sessions that write at once, failed calls, lost replies and
\* crashes (writeShare, WriteBlock).
THEOREM LedgerAddsUp ==
  ASSUME Works # {}
  PROVE  Spec => []RoundsAddUp
<1>1. LedgerInv => RoundsAddUp
  BY DEF LedgerInv, RoundsAddUp
<1>2. Init => LedgerInv /\ RecordInv
  BY InitLedger, InitRecord
<1>3. LedgerInv /\ RecordInv /\ [Next]_vars => LedgerInv' /\ RecordInv'
  BY LedgerStep, NextRecord
<1> QED
  BY <1>1, <1>2, <1>3, PTL DEF Spec
=============================================================================
