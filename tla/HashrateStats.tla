--------------------------- MODULE HashrateStats ---------------------------
(***************************************************************************)
(* The hashrate statistics: the sorted sets of shares in Redis, what trims   *)
(* them (storage/redis.go), and the API server that computes the statistics  *)
(* from them and caches an account's (api/server.go).                        *)
(*                                                                          *)
(* A member of a set is login:id:diff:ms; an account's set leaves out the    *)
(* login.  ts is its score, in units of which ms is a part.  All shares have *)
(* difficulty 1, and a share equal to an earlier one in everything is lost,  *)
(* in both sets.                                                             *)
(***************************************************************************)
EXTENDS Integers, FiniteSetsExt

CONSTANTS
  Logins, Workers,
  Millis,               \* of ms within a unit of ts
  Window, LargeWindow,  \* hashrateWindow, hashrateLargeWindow
  Expiration,           \* proxy.hashrateExpiration
  MinOnline,            \* 600 s
  CacheIntv,            \* statsCollectInterval
  MaxTime, MaxShares,   \* bounds
  MaxFaults             \* bound on failed calls of Redis

ASSUME HashrateAssumption ==
  /\ {Window, LargeWindow, Expiration, MinOnline, CacheIntv} \subseteq Nat \ {0}
  /\ {MaxTime, MaxShares, MaxFaults} \subseteq Nat

VARIABLES
  now,
  hashrate,   \* the set of all shares
  account,    \* hashrate:<login>
  invalid,    \* invalidhashrate and rejecthashrate, which are treated alike
  flush,      \* FlushStaleStats
  stats,      \* what collectStats stored: the shares it saw
  miners,     \* the API's cache: when, and the shares it saw; 0 if none
  answer,     \* the last answer of this moment to a request for an account
  shares,     \* history: all valid shares
  faults

hashrateVars == <<now, hashrate, account, invalid, flush, stats, miners, answer, shares, faults>>

Shares == [login : Logins, id : Workers, ts : 0..MaxTime, ms : Millis]

HashrateTypeOK ==
  /\ now \in 0..MaxTime
  /\ shares \subseteq Shares /\ invalid \subseteq Shares /\ hashrate \subseteq shares
  /\ \A l \in Logins : account[l] \subseteq {x \in shares : x.login = l}
  /\ flush.pc \in {"idle", "all", "invalid", "logins"} /\ flush.todo \subseteq Logins
  /\ flush.at \in 0..now
  /\ stats \subseteq shares
  /\ \A l \in Logins : miners[l].at \in -1..now /\ miners[l].seen \subseteq shares
  /\ answer.status \in {0, 200, 404, 500}

None == [at |-> -1, seen |-> {}]
NoAnswer == [login |-> (CHOOSE l \in Logins : TRUE), status |-> 0, seen |-> {}]
FlushIdle == [pc |-> "idle", todo |-> {}, at |-> 0]

HashrateInit ==
  /\ now = 0 /\ faults = 0
  /\ hashrate = {} /\ account = [l \in Logins |-> {}] /\ invalid = {} /\ shares = {}
  /\ flush = FlushIdle
  /\ stats = {} /\ miners = [l \in Logins |-> None] /\ answer = NoAnswer

Fault == faults < MaxFaults /\ faults' = faults + 1

\* ZREMRANGEBYSCORE -inf (since: what is older goes.
KeepAll(set, since) == set
Trimmed(set, since) == {x \in set : x.ts >= since}

\* EXPIRE: the set of an account goes when it has had no share for a while, at
\* some moment of the second in which that is over.
Expired(set) == set # {} /\ \A x \in set : now - x.ts >= Expiration

Expire(l) ==
  /\ Expired(account[l]) /\ account' = [account EXCEPT ![l] = {}]
  /\ UNCHANGED <<now, hashrate, invalid, flush, stats, miners, answer, shares, faults>>

Tick ==
  /\ now < MaxTime /\ now' = now + 1 /\ answer' = NoAnswer
  /\ account' = [l \in Logins |-> IF Expired(account[l]) THEN {} ELSE account[l]]
  /\ UNCHANGED <<hashrate, invalid, flush, stats, miners, shares, faults>>

-----------------------------------------------------------------------------
(* Shares.                                                                  *)

\* The part of WriteShare and WriteBlock in the same MULTI as the round.
writeShare(x) ==
  /\ x.ts = now /\ Cardinality(shares) < MaxShares
  /\ hashrate' = hashrate \cup {x}
  /\ account' = [account EXCEPT ![x.login] = @ \cup {x}]
  /\ shares' = shares \cup {x}
  /\ UNCHANGED <<now, invalid, flush, stats, miners, answer, faults>>

\* WriteInvalidShare and WriteRejectShare; one entry, of whichever worker, is enough
\* to see it purged.
WriteInvalidShare(x) ==
  /\ x.ts = now /\ x.id = (CHOOSE w \in Workers : TRUE) /\ invalid = {}
  /\ invalid' = {x}
  /\ UNCHANGED <<now, hashrate, account, flush, stats, miners, answer, shares, faults>>

-----------------------------------------------------------------------------
(* FlushStaleStats: one call of Redis after the other, and the first that   *)
(* fails ends it.  The clock is read once, at the start.                    *)

purgeStale ==
  /\ flush.pc = "idle" /\ flush' = [flush EXCEPT !.pc = "all", !.at = now]
  /\ UNCHANGED <<now, hashrate, account, invalid, stats, miners, answer, shares, faults>>

OneWindow == Window
AccountWindow == LargeWindow

FlushStep ==
  \/ /\ flush.pc = "all" /\ flush' = [flush EXCEPT !.pc = "invalid"]
     /\ hashrate' = Trimmed(hashrate, flush.at - Window) /\ UNCHANGED <<account, invalid>>
  \/ /\ flush.pc = "invalid"
     /\ flush' = [flush EXCEPT !.pc = "logins", !.todo = {l \in Logins : account[l] # {}}]
     /\ invalid' = Trimmed(invalid, flush.at - Window) /\ UNCHANGED <<hashrate, account>>
  \/ /\ flush.pc = "logins"
     /\ \E l \in flush.todo :
          /\ account' = [account EXCEPT ![l] = Trimmed(@, flush.at - AccountWindow)]
          /\ flush' = [flush EXCEPT !.todo = @ \ {l}]
     /\ UNCHANGED <<hashrate, invalid>>
  \/ /\ flush.pc = "logins" /\ flush.todo = {} /\ flush' = FlushIdle
     /\ UNCHANGED <<hashrate, account, invalid>>

FlushStaleStats ==
  /\ \/ FlushStep /\ UNCHANGED faults
     \/ /\ flush.pc # "idle" /\ flush' = FlushIdle /\ Fault
        /\ UNCHANGED <<hashrate, account, invalid>>
  /\ UNCHANGED <<now, stats, miners, answer, shares>>

-----------------------------------------------------------------------------
(* The statistics.                                                          *)

Latest(set) == Max({x.ts : x \in set})
Started(set) == Min({x.ts : x \in set})

\* Time online is at least ten minutes and at most the window.
Boundary(set, window) ==
  LET online == IF now - Started(set) < MinOnline THEN MinOnline ELSE now - Started(set)
  IN IF online >= window THEN window ELSE online

Rate(set, within, window) == Cardinality(within) \div Boundary(set, window)
Offline(set) == Latest(set) < now - Window \div 2

\* convertMinersStats and convertWorkersStats.
MinersStats(set) ==
  [l \in {x.login : x \in set} |->
     LET own == {x \in set : x.login = l}
     IN [HR |-> Rate(own, own, Window), Offline |-> Offline(own)]]

WorkersStats(set) ==
  [w \in {x.id : x \in set} |->
     LET own == {x \in set : x.id = w}
     IN [HR |-> Rate(own, {x \in own : x.ts >= now - Window}, Window),
         TotalHR |-> Rate(own, own, LargeWindow), Offline |-> Offline(own)]]

\* collectStats: the set is trimmed and read in one MULTI; if that or the second
\* call, for the luck, fails, nothing is stored.
collectStats ==
  /\ \/ /\ hashrate' = Trimmed(hashrate, now - Window)
        /\ stats' = hashrate' /\ UNCHANGED faults
     \/ Fault /\ hashrate' \in {hashrate, Trimmed(hashrate, now - Window)} /\ UNCHANGED stats
  /\ UNCHANGED <<now, account, invalid, flush, miners, answer, shares>>

-----------------------------------------------------------------------------
(* AccountIndex, under minersMu.                                            *)

AlwaysFresh(l) == miners[l].at >= 0
Fresh(l) == miners[l].at >= 0 /\ miners[l].at >= now - CacheIntv

UpdatedAt == now

Reply(l, status, seen) ==
  answer' = [login |-> l, status |-> status, seen |-> seen]

FromCache(l) ==
  /\ Fresh(l) /\ Reply(l, 200, miners[l].seen)
  /\ UNCHANGED <<account, miners, faults>>

\* miners:<login> exists from the first share on.  An error of the call is
\* looked at only after its result, which is then FALSE.
IsMinerExists(l) == \E x \in shares : x.login = l

NotFound(l) ==
  /\ ~Fresh(l) /\ Reply(l, 404, {})
  /\ IF IsMinerExists(l) THEN Fault ELSE UNCHANGED faults
  /\ UNCHANGED <<account, miners>>

Refresh(l) ==
  /\ ~Fresh(l) /\ IsMinerExists(l)
  /\ account' = [account EXCEPT ![l] = Trimmed(@, now - LargeWindow)]
  /\ miners' = [miners EXCEPT ![l] = [at |-> UpdatedAt, seen |-> account'[l]]]
  /\ Reply(l, 200, account'[l])
  /\ UNCHANGED faults

\* GetMinerStats or CollectWorkersStats fails; the second may have trimmed.
BackendFails(l) ==
  /\ ~Fresh(l) /\ IsMinerExists(l) /\ Fault
  /\ Reply(l, 500, {})
  /\ account' = account \/ account' = [account EXCEPT ![l] = Trimmed(@, now - LargeWindow)]
  /\ UNCHANGED miners

AccountIndex(l) ==
  /\ FromCache(l) \/ NotFound(l) \/ Refresh(l) \/ BackendFails(l)
  /\ UNCHANGED <<now, hashrate, invalid, flush, stats, shares>>

-----------------------------------------------------------------------------
HashrateNext ==
  \/ Tick \/ purgeStale \/ FlushStaleStats \/ collectStats
  \/ \E x \in Shares : writeShare(x) \/ WriteInvalidShare(x)
  \/ \E l \in Logins : AccountIndex(l) \/ Expire(l)

HashrateSpec == HashrateInit /\ [][HashrateNext]_hashrateVars

\* The two timers of the API server keep firing, and calls come back.
HashrateFairSpec == HashrateSpec /\ WF_hashrateVars(Tick) /\ WF_hashrateVars(purgeStale) /\ WF_hashrateVars(FlushStaleStats)
            /\ WF_hashrateVars(collectStats)

-----------------------------------------------------------------------------
(* Properties.                                                              *)

Covered(set, window) == {x \in set : now - x.ts <= window}

\* The statistics of the pool and of an account, read at any moment, are those
\* of the shares there have been: neither the collection nor the purge with its
\* two windows takes away a share that still counts. The expiry may, but only an
\* account's shares as old as it (example configuration: 3h, as the large window,
\* so those of the very last second of the window).
PoolStatsTrue ==
  MinersStats(Covered(hashrate, Window)) = MinersStats(Covered(shares, Window))
Old(set) == {x \in set : now - x.ts >= Expiration}
AccountStatsTrue ==
  \A l \in Logins :
    LET own == {x \in Covered(shares, LargeWindow) : x.login = l}
    IN \E gone \in SUBSET Old(own) :
         WorkersStats(Covered(account[l], LargeWindow)) = WorkersStats(own \ gone)

StatisticsTrue == HashrateTypeOK /\ PoolStatsTrue /\ AccountStatsTrue

\* An account's page shows every share older than the cache's interval that the
\* page's window still covers, but for those that are as old as the expiry.
AnswerRecent ==
  answer.status = 200 =>
    {x \in shares \ Old(shares) : x.login = answer.login /\ x.ts < now - CacheIntv
                                  /\ x.ts >= now - LargeWindow} \subseteq answer.seen

\* What is out of every window is purged in the end, although nobody asks for it,
\* and what the pool's page shows becomes the shares of the window.
Purged ==
  /\ hashrate = Covered(hashrate, Window) /\ invalid = Covered(invalid, Window)
  /\ \A l \in Logins : account[l] = Covered(account[l], LargeWindow)
CatchesUp == <>[](Purged /\ stats = Covered(shares, Window))
=============================================================================
