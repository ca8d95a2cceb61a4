--------------------------- MODULE BlockTemplate ---------------------------
(***************************************************************************)
(* Block templates and jobs (proxy/blocks.go).  fetchBlockTemplate runs in  *)
(* the refresh timer and in every session that found a block, so several    *)
(* fetchers are at work at once; each of their reads and writes of shared   *)
(* state is a step.  Templates of one block share the maps they point to,   *)
(* which is why the maps are kept apart from the templates here.            *)
(***************************************************************************)
EXTENDS Integers, FiniteSets

CONSTANTS
  Fetchers,   \* goroutines that call fetchBlockTemplate
  Timer,      \* the one that does so for ever
  Upstreams,  \* bitcoin nodes
  Blocks,     \* blocks a node may have as its best one
  NoBlock,    \* what the previous hash is before there is a template
  HeightOf,   \* HeightOf[b]
  TxSets,     \* what a node may put into a template
  Interval,   \* blockTemplateInterval, in seconds
  MaxTime,    \* bound on the clock
  MaxPushes,  \* bound on broadcasts that have not run yet
  MaxFailures \* bound on failed calls and panics

ASSUME TemplateAssumption ==
  /\ Timer \in Fetchers /\ IsFiniteSet(Fetchers)
  /\ HeightOf \in [Blocks -> Nat] /\ NoBlock \notin Blocks
  /\ {Interval, MaxTime, MaxFailures} \subseteq Nat /\ MaxPushes \in Nat \ {0}

VARIABLES
  tip,       \* best block of each upstream
  now,       \* seconds
  template,  \* s.blockTemplate
  maps,      \* maps[m]: a BlockTplJobMap and its TxDetailMap
  pc,        \* where each fetcher is
  seen,      \* its prevBlockHash
  base,      \* its t, the template it read
  tpl,       \* its newTpl
  job,       \* its newTplJob
  pushes,    \* broadcastNewJobs goroutines that have not run yet
  announced, \* jobs that miners may work on
  last,      \* the last notification: the job's block, clean_jobs
  failures,
  crossed,   \* history: two fetches have been under way at once, or nodes disagreed
  overtaken  \* history: the first template of this block was replaced before its job was sent

locals == <<seen, base, tpl, job>>
vars == <<tip, now, template, maps, pc, locals, pushes, announced, last, failures, crossed,
          overtaken>>

NoTemplate == [block |-> NoBlock, map |-> 0, job |-> <<0, 0>>, clean |-> FALSE, updated |-> 0]
NoJob == [id |-> <<0, 0>>, block |-> NoBlock, txs |-> {}]
NoMap == [jobs |-> {}, txs |-> {}]

JobIds == (0..MaxTime) \X Nat
Jobs == [id : JobIds, block : Blocks \cup {NoBlock}, txs : TxSets \cup {{}}]
\* As many maps as can be in use at once: the garbage collector takes the rest.
MapIds == 1..(2 * Cardinality(Fetchers) + 1)
Templates == [block : Blocks \cup {NoBlock}, map : MapIds \cup {0}, job : JobIds,
              clean : BOOLEAN, updated : 0..MaxTime]

TypeOK ==
  /\ tip \in [Upstreams -> Blocks] /\ now \in 0..MaxTime
  /\ template \in Templates
  /\ maps \in [MapIds -> [jobs : SUBSET Jobs, txs : SUBSET UNION TxSets]]
  /\ \A m \in MapIds : \A g, h \in maps[m].jobs : g.id = h.id => g = h
  /\ pc \in [Fetchers -> {"idle", "check", "pending", "jobs", "txs", "store"}]
  /\ seen \in [Fetchers -> Blocks \cup {NoBlock}]
  /\ base \in [Fetchers -> Templates] /\ tpl \in [Fetchers -> Templates]
  /\ job \in [Fetchers -> Jobs]
  /\ pushes \in 0..MaxPushes
  /\ announced \subseteq Jobs
  /\ last \in [block : Blocks \cup {NoBlock}, clean : BOOLEAN]
  /\ failures \in 0..MaxFailures /\ crossed \in BOOLEAN /\ overtaken \in BOOLEAN

Lowest == {b \in Blocks : \A c \in Blocks : HeightOf[b] <= HeightOf[c]}
Highest == {b \in Blocks : \A c \in Blocks : HeightOf[c] <= HeightOf[b]}

Started ==
  /\ template' = NoTemplate
  /\ maps' = [m \in MapIds |-> NoMap]
  /\ pc' = [f \in Fetchers |-> "idle"]
  /\ seen' = [f \in Fetchers |-> NoBlock]
  /\ base' = [f \in Fetchers |-> NoTemplate] /\ tpl' = base'
  /\ job' = [f \in Fetchers |-> NoJob]
  /\ pushes' = 0 /\ announced' = {}
  /\ last' = [block |-> NoBlock, clean |-> TRUE]
  /\ crossed' = FALSE /\ overtaken' = FALSE

Init ==
  /\ tip \in [Upstreams -> Lowest] /\ now = 0
  /\ template = NoTemplate
  /\ maps = [m \in MapIds |-> NoMap]
  /\ pc = [f \in Fetchers |-> "idle"]
  /\ seen = [f \in Fetchers |-> NoBlock]
  /\ base = [f \in Fetchers |-> NoTemplate] /\ tpl = base
  /\ job = [f \in Fetchers |-> NoJob]
  /\ pushes = 0 /\ announced = {}
  /\ last = [block |-> NoBlock, clean |-> TRUE]
  /\ failures = 0 /\ crossed = FALSE /\ overtaken = FALSE

-----------------------------------------------------------------------------
(* The world.                                                               *)

NewTip(u) ==
  /\ \E b \in Blocks : HeightOf[b] > HeightOf[tip[u]] /\ tip' = [tip EXCEPT ![u] = b]
  /\ UNCHANGED <<now, template, maps, pc, locals, pushes, announced, last, failures, crossed,
                 overtaken>>

\* Calls may take long, and broadcasts may wait for sessionsMu; a fetcher that has
\* its answers is done within the second.
Tick ==
  /\ now < MaxTime
  /\ \A f \in Fetchers : pc[f] \notin {"jobs", "txs", "store"}
  /\ now' = now + 1
  /\ UNCHANGED <<tip, template, maps, pc, locals, pushes, announced, last, failures, crossed,
                 overtaken>>

-----------------------------------------------------------------------------
(* fetchBlockTemplate.                                                      *)

Goto(f, label) == pc' = [pc EXCEPT ![f] = label]

\* A fetcher's locals die when it returns.
Forget(f) ==
  /\ Goto(f, "idle")
  /\ seen' = [seen EXCEPT ![f] = NoBlock]
  /\ base' = [base EXCEPT ![f] = NoTemplate]
  /\ tpl' = [tpl EXCEPT ![f] = NoTemplate]
  /\ job' = [job EXCEPT ![f] = NoJob]

\* Each of the two calls goes to the upstream that is selected then. A session
\* fetches after the node took its block, which it made for an announced job.
GetPrevBlockHash(f) ==
  /\ pc[f] = "idle" /\ (f = Timer \/ announced # {})
  /\ \E u \in Upstreams : seen' = [seen EXCEPT ![f] = tip[u]]
  /\ Goto(f, "check")
  /\ crossed' = (crossed \/ \E g \in Fetchers \ {f} : pc[g] # "idle")
  /\ UNCHANGED <<tip, now, template, maps, base, tpl, job, pushes, announced, last, failures,
                 overtaken>>

FreshByAge(f) == template # NoTemplate /\ now - template.updated < Interval

Fresh(f) == template.block = seen[f] /\ now - template.updated < Interval

CheckFresh(f) ==
  /\ pc[f] = "check"
  /\ IF Fresh(f) THEN Forget(f)
     ELSE /\ base' = [base EXCEPT ![f] = template]
          /\ Goto(f, "pending")
          /\ UNCHANGED <<seen, tpl, job>>
  /\ UNCHANGED <<tip, now, template, maps, pushes, announced, last, failures, crossed,
                 overtaken>>

\* The hash of the first part of the coinbase stands for what it depends on:
\* the time and the height, not the transactions.
JobId(block) == <<now, HeightOf[block]>>

HeldBy(fetchers) == UNION {{base[g].map, tpl[g].map} : g \in fetchers}
FreeMap == CHOOSE m \in MapIds : m \notin {template.map} \cup HeldBy(Fetchers)

\* The maps left when f has returned and t is the template.
Collected(f, t) ==
  [m \in MapIds |-> IF m \in {t.map} \cup HeldBy(Fetchers \ {f}) THEN maps[m] ELSE NoMap]

AlwaysShares(f, block) == base[f] # NoTemplate
NeverShares(f, block) == FALSE
SharesMap(f, block) == base[f].block = block

KeepFlag(f, block) == base[f].clean
NewFlag(f, block) == ~SharesMap(f, block)

\* An answer is of another block than one before it, but of no later one, as when
\* the upstream in use is changed for one that is behind.
GoesBack(b, before) == before \notin {b, NoBlock} /\ HeightOf[b] <= HeightOf[before]

\* The answer is compared with the template read before the two calls.
GetPendingBlock(f) ==
  /\ pc[f] = "pending"
  /\ \E u \in Upstreams, txs \in TxSets :
       LET b == tip[u]
       IN /\ tpl' = [tpl EXCEPT ![f] =
                [block |-> b, map |-> IF SharesMap(f, b) THEN base[f].map ELSE FreeMap,
                 job |-> JobId(b), clean |-> NewFlag(f, b), updated |-> now]]
          /\ job' = [job EXCEPT ![f] = [id |-> JobId(b), block |-> b, txs |-> txs]]
          /\ crossed' = (crossed \/ GoesBack(seen[f], base[f].block) \/ GoesBack(b, seen[f]))
  /\ Goto(f, "jobs")
  /\ UNCHANGED <<tip, now, template, maps, seen, base, pushes, announced, last, failures,
                 overtaken>>

PutJob(f) ==
  LET m == tpl[f].map
      others == {j \in maps[m].jobs : j.id # job[f].id}
  IN maps' = [maps EXCEPT ![m].jobs = others \cup {job[f]}]

WriteJob(f) ==
  /\ pc[f] = "jobs"
  /\ PutJob(f)
  /\ Goto(f, "txs")
  /\ UNCHANGED <<tip, now, template, locals, pushes, announced, last, failures, crossed,
                 overtaken>>

DropTxs(f) == [maps EXCEPT ![tpl[f].map].txs = job[f].txs]
PutTxs(f) == [maps EXCEPT ![tpl[f].map].txs = maps[tpl[f].map].txs \cup job[f].txs]

WriteTxs(f) ==
  /\ pc[f] = "txs"
  /\ maps' = PutTxs(f)
  /\ Goto(f, "store")
  /\ UNCHANGED <<tip, now, template, locals, pushes, announced, last, failures, crossed,
                 overtaken>>

\* The last to store wins, whatever it was made from. The broadcast is a
\* goroutine of its own.
Store(f) ==
  /\ pc[f] = "store" /\ pushes < MaxPushes
  /\ template' = tpl[f]
  /\ pushes' = pushes + 1
  /\ maps' = Collected(f, tpl[f])
  /\ overtaken' = (tpl[f].block = template.block /\ last.block # template.block)
  /\ Forget(f)
  /\ UNCHANGED <<tip, now, announced, last, failures, crossed>>

\* A call fails, the reply cannot be used, or the reward is not positive.
FetchFails(f) ==
  /\ pc[f] \in {"idle", "pending"} /\ failures < MaxFailures
  /\ failures' = failures + 1
  /\ maps' = Collected(f, template)
  /\ Forget(f)
  /\ UNCHANGED <<tip, now, template, pushes, announced, last, crossed, overtaken>>

-----------------------------------------------------------------------------
(* Jobs on their way to the miners and back.                                *)

JobsOf(t) == IF t.map = 0 THEN {} ELSE maps[t.map].jobs
Lookup(id) == {h \in JobsOf(template) : h.id = id}

\* broadcastNewJobs sends the last job of whatever template is current then, or
\* nothing while writes to Redis fail: isSick (module Upstreams) is either here.
Broadcast ==
  /\ pushes > 0
  /\ pushes' = pushes - 1
  /\ \/ /\ announced' = announced \cup Lookup(template.job)
        /\ last' = [block |-> template.block, clean |-> template.clean]
        /\ overtaken' = FALSE
     \/ UNCHANGED <<announced, last, overtaken>>
  /\ UNCHANGED <<tip, now, template, maps, pc, locals, failures, crossed>>

\* What DoubleSha256HashVerify puts together from the job found under the
\* submitted id is what the miner hashed: the same transactions, on top of
\* the template's block.
HashFits(j, h) == h.txs = j.txs /\ template.block = j.block

\* processShare's answer to the work of a miner on job j.
Verdict(j) ==
  IF Lookup(j.id) = {} THEN "stale"
  ELSE IF \E h \in Lookup(j.id) : HashFits(j, h) THEN "valid" ELSE "rejected"

\* ConstructRawBlockHex finds every transaction of the job.
CanConstruct(h) == h.txs \subseteq maps[template.map].txs

\* Two goroutines at the same Go map, one of them writing.
Writes(f) == IF pc[f] \in {"jobs", "txs"} THEN {<<pc[f], tpl[f].map>>} ELSE {}
MapRace == \E f, g \in Fetchers : f # g /\ Writes(f) \cap Writes(g) # {}

\* The runtime may end the process when it notices the race, and it does when a
\* share comes in before the first template: processShare then follows a nil
\* pointer. The process starts again without a template.
Panic ==
  /\ MapRace \/ template = NoTemplate
  /\ failures < MaxFailures
  /\ failures' = failures + 1
  /\ Started
  /\ UNCHANGED <<tip, now>>

-----------------------------------------------------------------------------

Proceed(f) ==
  \/ CheckFresh(f) \/ GetPendingBlock(f) \/ WriteJob(f) \/ WriteTxs(f) \/ Store(f)

Next ==
  \/ \E u \in Upstreams : NewTip(u)
  \/ Tick \/ Broadcast \/ Panic
  \/ \E f \in Fetchers : GetPrevBlockHash(f) \/ Proceed(f) \/ FetchFails(f)

Spec == Init /\ [][Next]_vars

\* A fetch that has begun goes on, the timer begins another, broadcasts run,
\* and the nodes learn of the highest block.
FairSpec ==
  /\ Spec
  /\ \A f \in Fetchers : WF_vars(Proceed(f))
  /\ WF_vars(GetPrevBlockHash(Timer)) /\ WF_vars(Broadcast)
  /\ \A u \in Upstreams : WF_vars(NewTip(u))

-----------------------------------------------------------------------------
(* Properties.                                                              *)

\* Every job found through the current template was built on the template's
\* block, though templates share maps and the template may go back: a block
\* is never put together from a job and a previous hash of different blocks.
JobsFitTemplate == \A h \in JobsOf(template) : h.block = template.block

\* So it is, and no job id stands for two jobs of a map.
JobsConsistent == TypeOK /\ JobsFitTemplate

\* The moment between the two writes of a fetcher, in which the job is already
\* seen through the map but its transactions are not.
BeingWritten(j) == \E f \in Fetchers : pc[f] = "txs" /\ job[f] = j /\ tpl[f].map = template.map

\* A valid share on a job that was announced can be made a whole block:
\* ConstructRawBlockHex knows all its transactions, whatever other fetchers
\* are writing (job first, transactions next, template last).
ValidIsBuildable ==
  \A j \in announced : Verdict(j) = "valid" => CanConstruct(j) \/ BeingWritten(j)

\* Until two fetches overlap or a node answers with a block that was left, work
\* on every job announced for the template's block stays valid, whoever fetches
\* next: no refresh drops a job or gives its id to another one
\* (fetchBlockTemplate, processShare).
JobsStayValid ==
  ~crossed => \A j \in announced : j.block = template.block => Verdict(j) = "valid"

\* Until two fetches overlap or a node answers with a block that was left,
\* miners are told to drop their jobs whenever the block they mine on changes
\* (newBlkTpl), though what a broadcast sends is the template of a later moment, and
\* some send nothing. The flag is lost in one way only: a refresh takes the place of
\* the block's first template before any broadcast has sent the block's job, as when
\* writes to Redis fail until then or the broadcast waits for sessionsMu
\* (broadcastNewJobs).
CleanOnNewBlock ==
  [][last'.block # last.block => last'.clean \/ crossed \/ overtaken]_last

\* Whatever order the fetchers' answers are stored in, the template ends up on
\* the highest block, which is what the refresh timer is for.
TemplateCatchesUp == <>[](template.block \in Highest)
=============================================================================
