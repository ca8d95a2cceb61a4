# A TLA+ model of btcpool

`btcpool` is a mining pool for bitcoin: a stratum proxy that hands out work and
takes shares, a Redis database that keeps the shares, rounds and money, a block
unlocker that turns found blocks into balances, a policy server and an API. This
directory holds TLA+ modules for these parts, the TLC runs that check them on
small instances, and TLAPS proofs of the most important properties for every
instance. All paths below are paths of the repository.

## Inventory

| Part | Source | State | Operations | What is hard about it | What makes it correct |
|---|---|---|---|---|---|
| Block unlocker | `payouts/unlocker.go` | `halt`; locals of a pass | `unlockPendingBlocks`, `unlockAndCreditMiners` on a timer | reads the chain, then writes to Redis several calls later; reorganisations, restarts, lost replies, errors that halt it | every block is settled once, as the chain says; books balance; nothing is forgotten |
| Reward calculation | `payouts/unlocker.go` | none | `handleBlock`, `calculateRewards`, `calculateRewardsForShares`, `chargeFee` | rationals and rounding, fee address that also mines and is lower-cased | the parts add up to the reward |
| Redis: blocks and credits | `storage/redis.go` | `blocks:*`, `credits:*`, `miners:*`, `finances` | `WriteImmatureBlock`, `WriteMaturedBlock`, `WriteOrphan`, `WritePendingOrphans`, reads | a read before a transaction, an unchecked error | totals equal the sum of the logs |
| Redis: shares and rounds | `storage/redis.go` | `pow`, `shares:*`, `stats` | `WriteShare`, `WriteBlock`, `checkPoWExist` | many sessions at once; several commands per operation | no share twice, no share lost when a round closes |
| Redis: payouts | `storage/redis.go` | `payments:*`, payout lock | `LockPayouts`, `UpdateBalance`, `RollbackBalance`, `WritePayment` | crash between debit and payment, replies that are lost | no satoshi leaves the ledger; log, lock and balances agree |
| Redis: statistics | `storage/redis.go` | `hashrate*` | `FlushStaleStats`, `Collect*` | windows over time, purge during reads | counts what lies in the window and only that |
| Share processing | `proxy/miner.go` | none | `processShare`, `DoubleSha256HashVerify` | submission, template and Redis interleave; each call may fail | an accepted block is recorded; a share is credited once |
| Template and jobs | `proxy/blocks.go` | `blockTemplate`, job maps | `fetchBlockTemplate`, `ConstructRawBlockHex` | concurrent fetchers, maps shared without a lock, job ids that collide | a share is checked against the job it was mined for |
| Stratum server | `proxy/stratum.go` | `sessions`, tag pool | accept, read, broadcast, remove | a goroutine per session, shared pool and table, two kinds of lock and a channel | tags are unique and come back when handlers end; sessions are removed; broadcasts end |
| Handlers | `proxy/handlers.go` | session fields | subscribe, authorize, submit | order of requests is the client's | nobody searches another's nonces |
| Proxy core | `proxy/proxy.go` | `upstream`, `failsCount`, targets | `checkUpstreams`, `markSick`, `UpdateAllSessionDiff` | timers, fail-over | uses a healthy node; a share is judged as announced |
| Policy | `policy/policy.go` | `stats`, ban channel, lists | `Apply*Policy`, `forceBan`, `resetStats` | counters outside the table's lock | a ban lasts and ends; windows and limits hold |
| RPC client | `rpc/rpc.go` | sick and alive counters | `doPost`, `Check` | counters shared by goroutines | sick nodes are recognised and recover |
| API server | `api/server.go` | statistics snapshot, account cache | timers, `AccountIndex` | stale cache | a page lacks no share older than the cache may be |
| Coinbase | `bitcoin/btc_coinbase.go` | none | `PackNumber`, `Initialize`, `RecoverToRawTransaction` | boundaries of number widths, a length declared before the bytes are known | what a node reads is what was meant |
| Payout processor | `payouts/payer.go` | payment in progress | commented out, see `Payouts` | the node and Redis are two ledgers | not claimed: nothing at this commit pays |
| Difficulty display, utilities, main, log, passwords | `bitcoin/btc_difficulty.go`, `util/*.go`, `main.go` | - | conversions, formatting, start | - | - |

The proxy calls the node (`getblocktemplate`, `submitblock`) and Redis; the
unlocker calls the node (`getblockhash`, `getblock`) and the same Redis. They
share nothing else: what `WriteBlock` adds to `blocks:candidates` is all the
unlocker learns of the proxy. Payouts take from the balances the unlocker
credits. The API reads, and trims the hashrate sets the proxy fills.

## Modules

| Module | Models | Extends / instances |
|---|---|---|
| `Rewards` | the arithmetic of `unlocker.go` | |
| `RewardSplit` | one call of `calculateRewards` on any bounded input | `Rewards` |
| `Coinbase` | one coinbase transaction, made for a job and completed for a share | |
| `Calculations` | the two calculations without state, side by side | `RewardSplit`, `Coinbase` |
| `BlockLifecycle` | what the pool promises about a block: recorded, judged, settled for ever | |
| `Unlocker` | the unlocker, its part of Redis, the node's chain | `Rewards`; implements `BlockLifecycle` |
| `ShareLedger` | `processShare`, `checkPoWExist`, `WriteShare`, `WriteBlock` | |
| `BlockTemplate` | `fetchBlockTemplate`, jobs, the maps templates share, stale and valid shares | |
| `StratumServer` | connections, tags, session table, subscribe and authorize | |
| `JobBroadcast` | `broadcastNewJobs`, its channel and the table's lock | |
| `VarDiff` | targets of sessions, `setDifficulty`, `UpdateAllSessionDiff` | |
| `Upstreams` | health of nodes, fail-over, health of the proxy | |
| `Policy` | the policy server | |
| `Payouts` | the payout operations of Redis, the processor, the maintenance run | |
| `HashrateStats` | the hashrate sets, their collection, purge and the API's cache | |
| `MC*` | instances for TLC | |
| `Sums` | lemmas about sums over finite sets | |
| `UnlockerProofs`, `ShareProofs`, `TemplateProofs`, `BroadcastProofs` | theorems about `Unlocker`, `ShareLedger`, `BlockTemplate`, `JobBroadcast` | that module; the first two also `Sums` |
| `MoneyProofs` | theorems about `Payouts` and `Calculations` | both, `Sums` |
| `TimerProofs` | theorems about `VarDiff`, `Upstreams`, `HashrateStats` | all three |
| `ServerProofs` | theorems about `StratumServer`, `Policy` | both |

Where theorems about several modules stand in one, the names that those modules
have in common carry the module's name: `PolicySpec`, `hashrateVars`,
`CalculationsNext`.

The components run in one process or several, and meet in Redis and at the
node. Each module has what its component meets there as actions of its
environment: in `Unlocker` a candidate appears as `WriteBlock` adds it, in
`ShareLedger` the template changes as `BlockTemplate` may store it, in `Payouts`
a balance grows as the unlocker credits it.

### Unlocker

`chain`, `tip`, `height`, `parent` are the node's view: the pool's blocks are
in `Blocks`, all others are `Foreign`. The chain grows by one block at a time
(`FindBlock`, or `Reorganise` with `k = 0`), or its top `k <= MaxReorg` blocks
are replaced by `k + 1` others; a block of the pool may appear only above its
parent. `FindCompetingBlock` is a block that starts as a branch.

The sorted sets `blocks:candidates`, `blocks:immature`, `blocks:matured` are
sets of rows; a row's `orphan` flag is the one in `BlockData.key()`. `rounds`
are the existing `shares:round...` keys. `creditsImmature[b]`, `credits[b]` are
the hashes of credits of block `b`; `minerImmature`, `minerBalance`, `finances`
the counters kept beside them.

One loop runs the two passes in turn (`phase`), each through `GetPendingBlock`,
`GetRows`, one `ScanBlock` per row, then the writes: all pending orphans in one
transaction or each orphan in its own, then each block on the chain, lowest
first. Every write is one Redis transaction and hence one step; its reply may
be lost, which halts the unlocker although the write was done. `CallFails` is
any other error. `halt` ends only with `Restart`, which may bring another
configuration.

Reads of the chain: `getblockhash` fixes which block a height has, `getblock`
of that hash cannot change, so the pair is one step. A row and a block of the
chain are compared by height and nonce; the model lets different blocks have
different nonces.

### ShareLedger

A *work* is a proof of work for a job at a height. `KeyOf` gives the member of
the sorted set `pow` for it: nonce, extranonce1 and extranonce2, not the time
or the job, so two works may share one. Each session runs `processShare` on one
work at a time, `pc[s]` being the next call: `submit` (submitblock), `refresh`
(fetchBlockTemplate), `expire` and `check` (the two commands of
`checkPoWExist`), `share` or `block` (the transaction), `candidate` (the
separate ZADD). `nodeHeight` is the height the node wants next. `credited` and
`lost` are history variables: how often a work was credited, and what was in
progress when something failed.

A call that fails ends the submission (`CallFails`), except the ZREMRANGEBYSCORE
of `checkPoWExist`, whose error is ignored (`ExpireFails`), and the template
refresh, which is only logged. A reply may be lost after its call took effect
(`SubmitReplyLost`, `CloseReplyLost`, and the ZADD in `CallFails`).

Fetching a template is one step here that stores any recent answer of the node:
fetchers run side by side, so the template may go back (`StoreTemplate`);
`BlockTemplate` has the steps.

### BlockTemplate

A *fetcher* is a goroutine in `fetchBlockTemplate`: the refresh timer or a
session whose block was accepted. `pc[f]` goes through the reads and writes of
shared state in the order of the code: `GetPrevBlockHash`, `CheckFresh` (the
early return on an unchanged hash and a young template), `GetPendingBlock`,
`WriteJob` and `WriteTxs` (the two Go maps), `Store`. A template points to a map;
`maps` keeps the maps apart, because a template made for the block of the one
before shares its maps (`SharesMap`). A job's id is made of what the first part
of the coinbase depends on, the second and the height (`JobId`), so two fetches
within one second give two jobs one id and the later one replaces the earlier.
`Broadcast` sends the last job of whatever template is current when its
goroutine runs, which may be after a later refresh, or nothing while `isSick`
holds; that is any moment here, for the writes to Redis that decide it are in
`Upstreams`. A session fetches only after its block for an announced job was
taken. `Verdict` is what `processShare` answers to work on a job:
`stale` if the template's map has no such id, otherwise the hash is made of
that job's transactions on the template's block and fits or not.

`Panic` is the end of the process when the Go runtime notices two goroutines at
one map, or when a share arrives before the first template and a nil pointer is
followed. `crossed` is a history variable: two fetches were under way at once, or
an answer had another block than the one before it and no later one (`GoesBack`),
as when the upstream is changed for one that is behind. `overtaken` is another:
a refresh took the place of the first template of a block before any broadcast
had sent the block's job.
The values of maps that nothing refers to are reset (`Collected`), so that
their names can be reused.

### StratumServer and JobBroadcast

`StratumServer` follows a connection: `Accept` and `TakeTag` in the accept loop
(which handles one at a time and waits for a tag), then requests in any order,
then one of the ways `handleTCPClient` ends. An error reply, a read error and
the deadline make it return an error, after which `CleanUp` removes the session
and closes the socket; the end of the stream does so in place; a line that is
too long returns nil and does neither (`Flood`). `ReturnTag` is the end of the
goroutine. `Subscribe` and `Authorize` enter the table and mark the session, and
their reply may fail after that. Goroutines that outlive a session,
`SetDifficulty` and the pushes of a broadcast, may take it out of the table.
`tag`, an `int` in the code, is cut to 16 bits in `nonce1`.

`JobBroadcast` is the table's `RWMutex` with Go's rule that a waiting writer
keeps new readers out, the loop of `broadcastNewJobs` under the read lock, its
channel `bcast` of bounded capacity, and the goroutine per session that writes
the job, takes its element out of the channel and, after an error, waits for
the write lock to remove its session. Handlers register and remove theirs under
the same lock and authorize without it.

### VarDiff

A target is a number, `Pow \div difficulty`; 0 is the empty string of a session
that has not subscribed. `target` judges shares, `targetNextJob` is what
`setDifficulty` announces. `UpdateAllSessionDiff` takes the count of shares as
it is in the code: nothing ever adds to it, so every adjustment goes down, and
down changes `target` only. `panicked` is a division by zero.

### Upstreams

Each node has `sick`, `sickRate`, `successRate` as in `RPCClient`; `markSick`
and `markAlive` each run under its lock, but a check is three steps, and
requests of other goroutines fail in between. `checkUpstreams` goes through the
nodes in turn, keeps the first healthy one and sets `upstream` last.
`StateUpdate` is the timer whose write to Redis fails or not and moves
`failsCount`, once there is a template (`hasTemplate`); `isSick` stops broadcasts.

### Policy

`stats` maps an address to a `Stats` object, `obj` has the objects: a session
looks one up under the table's lock (`Begin`, which is `Get`) and then works on
the pointer, so `resetStats` may delete the object meanwhile. The accept loop
takes one connection after the other: `CheckBan` looks the address up,
`ApplyLimitPolicy` looks it up again and `DecrLimit` counts down the object found
then, with sessions and `resetStats` between the three. `forceBan` is four
steps (whitelist, `BannedAt`, `Banned`, channel), `resetStats` three per
address. Times are ages. `sentence` is a history variable: how much of the
banning time an address has still to serve; `connects` another: how often an
object let somebody in and how often its limit was raised.

### Payouts

The fields of the ledger, the pending log and the lock. A call of Redis takes
effect and is answered, takes effect and its answer is lost, or does nothing and
fails (`Calls`). The driver is the process loop of `payer.go`, which is commented
out in this version: it gives the order in which the operations of
`storage/redis.go` are called, and no more is claimed of it. `Start`,
`resolvePayouts`, `Rollback` and `UnlockPayouts` are its start and its
maintenance run, `DeleteLock` the `DEL` of `docs/PAYOUTS.md`. The maintenance run
may come whenever the processor is down and a payment is pending, also for one
that was sent: the program does not ask the node, and `docs/PAYOUTS.md:39` asks
the operator only for a payment that is not logged and not confirmed. What the
node does with a transaction is not in the model.

### HashrateStats

A share has a login, a worker, a score `ts` and the milliseconds `ms` that its
member also holds. `writeShare` adds it to the pool's set and the account's and
renews the account's expiry; an account's set expires at any moment of the second
in which its last share is as old as the expiry (`Expire`), at the end of that
second at the latest (`Tick`). `FlushStaleStats` trims
set after set by the clock it read at its start, `collectStats` and
`AccountIndex` trim and read in one transaction. The API's cache has what was
seen and when. `shares` is a history variable, all shares there have been: the
statistics computed from what is left must be those computed from it.

### Rewards and Coinbase

`Rewards` has exact rationals as the code has `big.Rat`; the fee is a number of
`FeeUnit`-ths; `Lower` is what `strings.ToLower` makes of the fee address, which
may be another login or none. `Coinbase` builds the transaction as a sequence of bytes in which
a field of fixed width is one element, and reads it back as a node does:
compact sizes, script pushes, script numbers.

## Runs

One run per module that keeps state, one for the calculations that keep none,
and one for the finding. Each run checks all the properties of its component on
one instance.

| Run | Checks | Bounds |
|---|---|---|
| `unlocker` | books, verdicts, credits, refinement, nothing forgotten | 2 blocks, height 5, depths 1 and 2, reorganisations up to 2 blocks, 2 configurations, 1 restart |
| `unlocker_read_error` | finding: unchecked read | 1 configuration, no restart, the read may fail |
| `share_ledger` | single credit, keys, rounds, totals, recorded blocks | 2 sessions, 4 works (2 of them blocks) on 2 keys, heights 4 to 8, lag 1, 1 failure |
| `calculations` | parts add up; coinbase reads back | up to 3 logins, two of them alike but for capitals, with up to 3 shares, reward up to 5, fees up to 1, fee in thirds; heights, lengths and texts on both sides of every change of encoding |
| `template` | jobs fit, build, stay valid; clean jobs; newest block | 2 fetchers, 1 upstream, 2 blocks, 2 sets of transactions, 2 broadcasts, 1 failure |
| `stratum` | tags, nonces, leaks, waiting | 3 connections, 2 tags, 1 panic |
| `broadcast` | nobody forgotten, nobody stuck | 2 broadcasts, 2 sessions, a channel of 1 |
| `policy` | bans, windows, limits, channel | 2 sessions of 1 address and the accept loop, 4 objects, window of 2, limit 1, 2 offences, a channel of 1 |
| `vardiff` | shares judged as told; the known sinking | 2 sessions, targets below 1024, difficulty 30 |
| `upstreams` | recovery, fail-over, proxy health | 2 nodes, 2 callers, thresholds 3 and 2, any start, 1 change outside |
| `payouts` | money, totals, log and lock; deadlock | 2 miners, credits up to 5, 5 faults |
| `hashrate` | statistics, account page, purge | 1 login with 2 workers, windows 1 and 3, expiry 3, 2 shares, 4 seconds, 1 fault |

### Why these bounds are enough

*Unlocker.* Two blocks are needed for one to be judged while another is written,
and for two on rival branches. `Depth = MaxReorg = 2` puts the reorganisation
exactly at the depth at which blocks are settled, so an off-by-one in the height
is caught. Height 5 lets both be settled after a reorganisation. One restart
with another fee separates immature credits from final ones.

*ShareLedger.* Two sessions submit the same work at once, or one closes a round
while the other adds to it. Three works share a key: one at the height of the
other block, one just inside and one outside the window of three blocks, so that
keys are both kept and forgotten; a lag of one makes a session expire keys that
another still needs.

*BlockTemplate.* Two fetchers reach every order of two fetches; the two sets of
transactions make jobs with one id differ; the block changes once, which makes
old and new maps live at once. Two broadcasts may be under way, each at any later
time or without effect, so that a refresh comes before, between and after them.

*StratumServer, JobBroadcast.* Three connections for two tags: one waits. A
channel of one place is full with the first push, so every wait for room
happens; two broadcasts are two readers.

*Policy.* A window of two shares with a limit of one connection and one more per
valid share makes every counter pass its bound within a few steps; a connection
passes only after its limit was raised. Four objects let one be deleted while
each session and the accept loop still hold it or another, and a new one take its
place. The countdown goes to `-MaxConnects = 0`: further down nothing passes.

*VarDiff.* Difficulty 30 goes through all its steps (a fifth less, truncated)
down to 0. *Upstreams.* A threshold of 3 is the least at which a failure in the
middle of a run of answers differs from one at its end. Nodes and Redis start in
any state, and requests fail on nodes that answer, so a node is given up and
comes back although the outside changes once. *Payouts.* Five faults
are a crash, a lost answer, and as many in the maintenance that follows and in
the start after it. *HashrateStats.* The windows differ; the expiry is the large
window as in `config.example.json` (3h), the case in which it takes away shares
of the window's last second. Time runs past each.

All counters are bounded by guards and named: `MaxHeight`, `MaxRestarts`,
`MaxReorg`; `MaxLag`, `MaxFailures`; `MaxTime`, `MaxPushes`; `MaxPanics`;
`MaxOffences`, `MaxConnects`; `MaxFlips`; `MaxCredit`, `MaxFaults`; `MaxShares`.

Deadlock is checked in `payouts`, whose loop has no end. In the other runs the
environment is bounded (the chain, the clock, the faults), so the models stop
when it is used up; the unlocker may halt, a proxy may panic, a calculation is
one step. That nobody waits for ever is stated as liveness instead:
`WaitingIsServed`, `NobodyStuck`, `SendEnds`.

### What the properties say

- `SettledMatchesChain`: a settled row is an orphan exactly when its block is
  not on the best chain, although the chain was read before the row was written.
- `LedgersBalance`: counters are the sums of the logs, through reorganisations,
  changed fees, lost replies and restarts. `ImmatureLedger` is its first half.
- `CreditsMatchOutcome`: exactly the matured blocks are credited, for the whole
  round, under one configuration.
- `ImplementsLifecycle`: one row per block, stages in order, the last one for
  ever. `BuriedIsSettled`: nothing recorded is forgotten while the unlocker runs.
- `SplitIsAccurate`: the credits of a round are the reward, but for half a
  satoshi for each amount. `HeightFirst`, `ReadAsMeant`: a node that parses the
  coinbase finds the height first, and the nonces, flags and outputs where they
  were meant to be.
- `NoDoubleCredit`, `SameKeyApart`: what `checkPoWExist` guarantees between
  sessions that interleave and lag.
- `RoundsAddUp`: closing a round neither drops nor doubles a share, and the
  total of a candidate is that of its round.
- `AcceptedBlockRecorded`, `AcceptedBlockIsRecorded`: an accepted block becomes
  a candidate unless its key was taken, or the proxy dies or a call fails for which
  the code gives it up (`lost`). A template that cannot be refreshed and keys that
  cannot be expired are no such calls.
- `JobsConsistent`: a job found through a template was built on its block.
  `ValidIsBuildable`: for a valid share all transactions of the job are known,
  except in the moment between a fetcher's two writes. `JobsStayValid`: until
  two fetches overlap or nodes disagree, a refresh invalidates nothing on the
  same block.
  `CleanOnNewBlock`: under the same condition miners are told to drop their work
  when the block changes, however late broadcasts run and whichever send nothing,
  with one exception: the block's first template was refreshed before any
  broadcast had sent its job (`overtaken`; see Findings).
  `TemplateCatchesUp`: the template ends on the highest block.
- `TagsConserved`, `NoncesDistinct`, `NothingLeaks`, `WaitingIsServed`: a tag is
  free or with one connection, sessions do not search each other's nonces, what
  ends is cleaned up except after a flood, and when a handler has ended the
  connection that waits for a tag is served. As long as all handlers go on it waits.
- `NobodyForgotten`, `NobodyStuck`: a finished broadcast has pushed to everyone
  it was for; the channel, the read lock and the write lock never wait in a ring,
  so broadcasts end, and handlers that leave and pushes that fail remove their
  sessions.
- `BanHolds`, `BanEnds`: a ban lasts its time and ends, with sessions that hold
  a deleted object; excepted is a ban imposed while `resetStats` handles the same
  address. `CountsBounded`: no check is skipped or doubled by concurrent counts.
  `LimitEnforced`: fewer connections pass than the limit and what valid shares
  added to it. `SendEnds`: the channel of bans lets every sender go on.
- `JudgedNotHarder`: a share good enough for what the miner was told is not
  refused. `SinksToPanic` states a defect as what the code does (below).
- `RecoversOnAnswers`: a sick node comes back after a run of answers only.
  `Settles`: fail-over ends at the first node that answers, and `isSick` follows
  Redis once there is a template; without one it stays false.
- `Conserved`, `FinancesAgree`, `OnePending`: any lost call, lost answer or crash
  leaves each miner's money in balance, pending and paid, the pool's totals their
  sums, and at most one payment pending, which is logged and locks the payouts. That
  nobody is paid twice, or that all are paid, is not claimed (see Findings).
- `StatisticsTrue`: statistics computed from trimmed sets are those of all
  shares, but for an account's shares as old as the expiry. `AnswerRecent`: an
  account page lacks no share older than the cache's interval and younger than the
  expiry. `CatchesUp`: what left the windows is purged and the page follows.

### Fairness

Each `FairSpec` assumes of the program what its scheduling gives and of the
environment nothing but what is named here.

| Module | Fairness | Why |
|---|---|---|
| `Unlocker` | weak, the unlocker's step | `Start` resets its timer after each pass; calls may still fail, which halts it |
| `ShareLedger` | weak, each session's next call | a goroutine at a call goes on, by success or failure |
| `BlockTemplate` | weak, each fetcher's next step, the timer's next fetch, a broadcast that is due, the node's next block | goroutines run, the timer is reset; the bounded chain of blocks ends |
| `StratumServer` | weak, what the server does for a connection: taking a tag that is free, cleaning up, giving the tag back | goroutines run. That a connection ends is not assumed: each request (`proxy/stratum.go:104`) and each job pushed (`:307`) renews its deadline |
| `JobBroadcast` | weak, each broadcast; a handler that asks for the write lock | goroutines run; a waiting writer keeps new readers out, so the lock gets free |
| `Policy` | weak, workers, `resetStats`, sessions in a call; strong, the clock, the accept loop's look-ups and `resetStats` taking the lock of the table | sessions come between ticks, and `resetStats` may have the lock when the accept loop asks for it, again and again, but not for ever: the mutex hands over to who waits, time passes |
| `VarDiff` | weak, the adjustment while the process lives | timer of `NewProxy` |
| `Upstreams` | weak, the checker and the state timer | both timers are reset after each run |
| `HashrateStats` | weak, clock and the three timers | they are reset after each run |

No fairness is assumed of miners, of Redis or the node answering, of restarts, of
operators, or of reorganisations. `Payouts` has none and no liveness.

## Findings

`unlocker_read_error`: `WriteMaturedBlock` and `WriteOrphan` never look at the
error of the `HGetAllMap` that reads the credit log. If it fails the block is
settled and the log deleted, and the immature balances keep the amount for ever
(`storage/redis.go:502`: "Must decrement immatures using existing log entry").

Stated as the code does it, in a passing run: with difficulty adjustment on, the
count of shares that `UpdateAllSessionDiff` looks at is never increased, so every
adjustment lowers the difficulty, the lowered target is not announced
(`proxy/proxy.go:233`), and at difficulty 0 the division panics (`SinksToPanic`).

Seen while modelling, and either outside the properties or excepted in them, at
the place that the model has for it:

- *Ledgers.* Rounding part by part, a round may pay a satoshi more or less than
  the reward (`payouts/unlocker_test.go:31` compares the total exactly; the bound
  of `SplitIsAccurate`). A key is forgotten after three blocks, while
  `storage/redis_test.go:39` expects it six blocks later (`SameKeyApart`).
  `coinbasevalue` of `getblocktemplate` includes the fees, and `handleBlock` adds
  `blkTotalFee` again unless `keepTxFees` is set. `poolFeeAddress` is
  lower-cased, logins are not: the fee of an address with capitals is credited to
  another login than its owner mines with (`Lower`). The checks of the minimum depths are commented out
  (`payouts/unlocker.go:52`). When `WATCH` fails, the nil transaction is
  used (`storage/redis.go:501`). `GetPendingPayments` and `GetBlacklist` answer
  an empty list when Redis fails.
- *Shares.* A share that solves a block the node refuses is answered as valid
  and not credited; shares that differ in nTime only are duplicates; a block
  whose reply to `submitblock` is lost is never recorded.
- *Jobs.* While writes to Redis fail, or a broadcast waits for `sessionsMu`
  longer than the refresh interval, a refresh stores a template without
  `newBlkTpl` before the job of a new block was sent; the block is then
  announced without `clean_jobs` (`proxy/stratum.go:243`, `:280`; `overtaken` in
  `CleanOnNewBlock`). Two fetchers of one new block each make new maps, and the
  jobs of the first are lost; two refreshes within one second give two jobs one
  id, and work on the first is refused. It takes fetches that overlap, or a
  second node that is behind and makes the template go back and come again
  within the second; TLC finds the latter with two nodes (both are excepted by
  `crossed` in `JobsStayValid`). The Go maps are written without a lock
  (`proxy/blocks.go:32`, `:148`), which the runtime may notice (`Panic`). A
  submission before the first template follows a nil pointer.
- *Stratum.* A flood leaves session and connection behind. Working miners keep
  their tags for ever, and with `maxConn` of them the accept loop waits at
  `proxy/stratum.go:59`: further connections are not even refused. Authorizing before
  subscribing panics when difficulty is announced; submitting needs no
  authorization and credits the empty login.
- *Health.* Until a first template is fetched no state is written, so `isSick`
  stays false with Redis down (`proxy/proxy.go:125`).
- *Policy.* A ban imposed while `resetStats` handles the same address may be dropped
  at once or go to a deleted object (`policy/policy.go:129`). The connection limit is counted down before it is compared, so one
  connection fewer than configured passes (`policy/policy.go:198`).
- *Payouts.* By `docs/PAYOUTS.md:39` a payment may be resolved that was sent and is
  not confirmed yet; its money goes back to the balance and is paid again. The manual
  steps of `docs/PAYOUTS.md:128` leave the miner's own `pending` as it was.
- *API.* An account page answers 404 when Redis fails (`api/server.go:263`).
- *Coinbase.* The script may become longer than the 100 bytes a node accepts.
- *Statistics.* With `hashrateExpiration` equal to `hashrateLargeWindow`, as in
  `config.example.json`, the set of an account that stops mining goes while its last
  shares are in the last second of the window (excepted in `StatisticsTrue` and
  `AnswerRecent`). Two shares of one worker in the same millisecond with the same
  difficulty are one member of the set, and count once.

## Proofs

TLAPS checks these for every value of the constants that meets the named
assumptions. "Run" is what TLC checks on an instance as well.

| Theorem | States | Assumptions |
|---|---|---|
| `UnlockerProofs!SettledAgrees`, `CreditsAgree`, `LifecycleImplemented` (run), `TypeCorrect`, `ImmatureLogsLive`, `SettlingIsFinal` | verdicts, credits, refinement; types, no log without a row, settling is final | `BlockAssumption`, `DepthAssumption`, `ConfigAssumption`, `FeeUnitAssumption`, and `ReorgAssumption`: no reorganisation is longer than `Depth` |
| `UnlockerProofs!BooksBalance` (run) | balances and finances are the sums of the credit logs | also `MoneyAssumption` (logins and blocks are finite, shares positive), and `ReadErrors = FALSE`: the read whose error is ignored does not fail; the run `unlocker_read_error` shows what happens when it does |
| `ShareProofs!KeysApart`, `CreditedOnce`, `CreditedOnceInWindow` (run) | keys and single credit | `HeightAssumption`, `WorkAssumption`; for `CreditedOnce` twice the lag is within the window, for `CreditedOnceInWindow` the lag is, and works with one key have one height |
| `ShareProofs!AcceptedIsRecorded` (run) | accepted blocks are recorded | `HeightAssumption`, `WorkAssumption` |
| `ShareProofs!LedgerAddsUp` (run) | rounds, statistics and totals add up | also `FiniteAssumption`; there is a work at all |
| `TemplateProofs!JobsAreConsistent`, `ValidSharesBuild` (run), `TypeCorrect` | jobs fit their template, valid shares can be built; types | `TemplateAssumption` |
| `TemplateProofs!AnnouncedStayValid`, `CleanIsSent` (run) | no refresh invalidates announced work; clean jobs but for a block that is overtaken | `TemplateAssumption`; a template is kept for a second or more (`Interval > 0`) |
| `ServerProofs!TagsAreConserved`, `NoncesAreDistinct`, `NothingIsLeaked` (run), `StratumTypeCorrect` | tags, nonces, leaks | `StratumAssumption`: no more tags than two bytes can tell apart |
| `ServerProofs!BansHold`, `CountsAreBounded`, `LimitHolds` (run) | bans, windows and limits | `PolicyAssumption`: a ban is not longer than the interval after which an object is forgotten, and there are names for as many objects as can be held at once (by the table, each session and the accept loop) |
| `BroadcastProofs!NobodyIsForgotten` (run), `TypeCorrect`, `ChannelIsCount` | pushes of a broadcast, its channel | `BroadcastAssumption` |
| `TimerProofs!NotJudgedHarder` (run), `VarDiffTypeCorrect`, `AlwaysToldPoolDifficulty` | targets | `VarDiffAssumption`: the square of the difficulty is below `Pow` |
| `TimerProofs!BackOnAnswers` (run), `UpstreamsTypeCorrect` | recovery of nodes | `UpstreamsAssumption` |
| `TimerProofs!StatisticsAreTrue`, `AnswersAreRecent` (run) | statistics and the account page | `HashrateAssumption`: windows, expiry and interval are positive, in any order |
| `MoneyProofs!MoneyIsConserved`, `OneIsPending` (run), `TypeCorrect` | the payout ledger under any number of faults | `PayoutsAssumption` |
| `MoneyProofs!TotalsAgree` (run) | the pool's finances are the sums of its miners' | `PayoutsAssumption`, by which logins are finite |
| `MoneyProofs!RewardAddsUp` (run) | the split of any reward | `CalculationsAssumption`: finitely many miners, each with a share |
| `MoneyProofs!HeightComesFirst`, `CoinbaseIsRead` (run) | a node reads every coinbase as it was meant | `CalculationsAssumption`: heights above 16 and times are below 2^31, flags and texts are at most 30000 bytes long |

Each safety theorem comes from an inductive invariant, which TLC checked on
the run's instance before it was proved, one lemma per action:

- `UnlockerProofs`: `OneRow`, `Recorded` (a block with a row has a height between
  1 and the tip), `RoundsKept` (a round lives until its block is settled),
  `PassLists` (what a pass read and has not written is still where it was read),
  `PassVerdicts` (a verdict about a block at least `Depth` deep agrees with the
  chain when it is written, for `Reorganise` replaces only blocks above), and
  `SettledDeep`. The refinement maps each step to one of `BlockLifecycle` or to a
  stutter.
- `ShareProofs`: `KeyInv` says what `pow` remembers: while a key's score is within
  the window of any template that a session may still have read (`InTime`,
  `Near`), it has not been expired (`Remembered`), so works with one key that
  were let through are apart (`Apart`), and one session at a time holds a claim
  (`Single`). `RecordInv` follows a block from the node's acceptance: one session
  is past `submitblock` with it, and its key is new when asked for.
- `TemplateProofs`: `OneBlock` (a map belongs to one block, however many templates
  point to it) and `Fits` (so do its jobs) need that a map taken anew is empty
  (`Unused`) and that there is one: with one map for the stored template and two
  for each fetcher, of which the one that takes it has none yet, a pigeonhole
  argument (`FreeMapIsFree`). `Places` is what a fetcher has made so far; `Written`,
  that a job's transactions are in its map or its fetcher is between its two writes.
  For `AnnouncedStayValid` and `CleanIsSent`, `InOrder` says what holds until
  `crossed`: one fetcher is at work (`Alone`), with the current template, and on
  the same block only in a later second (`Follows`), so that the ids in a map are
  older than the one being added (`Dated`); announced jobs are found or of an
  older block (`Kept`), and miners know the block, will be told or it is overtaken (`Told`).
- `ServerProofs`, `StratumServer`: `OneHolder` (a tag is free or with one
  connection) and `NonceIsTag`.
- `ServerProofs`, `Policy`: a session that `resetStats` has not met has the
  object of the table (`HoldsTableObject`), which was looked up just now
  (`JustSeen`), so a banned object was seen since its ban (`SeenSinceBan`) and is
  not silent before the ban is over (`ResetIsDue`); a sentence is served by the
  object in the table (`Served`). Windows and limits hold for the objects that are
  no longer in the table too (`WindowOfAll`, `LimitOfAll`).
- `BroadcastProofs`: `Loops` (a session still to come to has no push yet) and
  `OwedAhead` (who is owed a job is authorized and either still to come to or
  about to be written to); `Active` counts the channel.
- `TimerProofs`, `VarDiff`: a target in use is always made of a difficulty that can be
  reached from the pool's (`TargetsMade`), and division there and back is the
  identity below the square root of `Pow`.
- `TimerProofs`, `Upstreams`: `successRate` is at most what was answered since the last
  failure, one more when a failure came between an answer and its count
  (`CountsAnswers`, `Pending`).
- `TimerProofs`, `HashrateStats`: whatever a window still covers has not been
  trimmed or expired (`PoolCovered`, `AccountsCovered`), and the cache has what the
  window covered when it was filled (`CacheCovers`).
- `MoneyProofs`, `Payouts`: `Place`, what the processor and the maintenance run know
  of the ledger at each call, and that no pending row is of nothing
  (`RowsPositive`).
- `MoneyProofs`, `Calculations`: `SplitInv`, by which the rewards are none or
  those of the round that was picked. That these add up is arithmetic: the parts
  have one denominator and their numerators add up to the reward times it
  (`PartsAddUp`), and each rounding is half a unit at most (`Rounding`).
  For the coinbase, `CoinbaseInv`: what is built is built from an input the program
  accepts (`Usable`), and is the transaction of that input (`Whole`). The rest is
  about sequences, below.

Three of the theorems are about totals, which are sums over miners, rounds or
blocks: folds, of which `Sums` says what the proofs need. The sum over
a set is shown to be the sum over what is left when any element is taken out
(`SumRemove`), by the least-element principle: if it failed for some subset of a
finite set it would fail for a smallest one. From it follow what one changed value
does to a sum, and the sum of sums. With these the invariants are: in
`UnlockerProofs`, `Balanced` for the immature and for the final credits, which
every write keeps because it adds to or takes from a log and the totals alike; in
`ShareProofs`, `ClosedOnce` and `ClosedTotals` (the round of a block is closed by
the one session that has the block, which then knows its total); in `MoneyProofs`,
that each step of the ledger moves one miner's money and the pool's by as much.

What a node reads in a coinbase is shown from the inside out. The loop of
`PackNumber` is a recursive function on the numbers up to the one it packs, and
such a function is known only once one is shown to exist: `LoopExists` extends it
number by number, again by the least one that fails, `LoopsAgree` says there is
one at most, and so `SignedBytesTurn` that the loop does what its body says. A
number below 2^31 then takes four turns at most (`FourBytesAtMost`), and its bytes
are read as that number, which no shorter string gives (`DigitsOf`). A string is read
back after its compact size, of one or three bytes (`PackedIsRead`). The transaction
is a concatenation that the code groups one way, before and after the nonces, and a
node another; `ScriptIsWhole` regroups it, after which `WholeIsRead` finds the
script and what follows it, `HeightIsPushed` and `NoncesArePushed` what is in the
script, and `OutputsAreRead` the outputs.

Only model-checked is liveness (`BuriedIsSettled`,
`AcceptedBlockIsRecorded`, `TemplateCatchesUp`, `WaitingIsServed`, `NobodyStuck`,
`BanEnds`, `SendEnds`, `SinksToPanic`, `Settles`, `CatchesUp`), for
fairness is out of the prover's reach. Every invariant and every action property of a
passing run is stated by a theorem.

## Not modelled

- The HTTP getwork handlers of `proxy/proxy.go`: their routes take logins that
  start with 0x, which `IsValidBTCAddress` refuses, so they never do anything.
  The API's route of an account has the same form; `AccountIndex` is modelled as
  if it could be reached.
- `CollectLuckStats`, the conversion of rows for the front end, the pages of
  the API other than the account's: they rearrange what they read.
- `main.go`, the configuration types, logging, the decryption of passwords, the
  display of difficulties: start-up, formatting and library calls.
- Hashing and the comparison of a hash with a target: the constant `Solves` and
  the equality `HashFits`. JSON and the wire.
- Data races on the fields of a session (a target read while it is written)
  beyond the order of the accesses: no torn values.
- More connections than two bytes of nonce can tell apart (`StratumAssumption`).
- Overflow of 64-bit amounts, which 21 million coins do not reach.
- `payouts/payer.go` is commented out in this version. `Payouts` has its loop
  because nothing else calls the payout operations of Redis, and only as the order
  of these calls; what it does not have is the transaction at the node, the wait
  for confirmations, the background save and the lists of payments made, which
  nothing in the loop reads back.
