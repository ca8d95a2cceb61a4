------------------------------- MODULE Policy -------------------------------
(***************************************************************************)
(* The policy server (policy/policy.go): one Stats object per address, which *)
(* sessions look up under a lock and then change through the pointer, while  *)
(* resetStats drops bans and deletes objects from the table.                 *)
(*                                                                          *)
(* Times are ages in units of a tick: banAge and beatAge count from BannedAt *)
(* and LastBeat and stop where nothing tells them apart any more.  Banning   *)
(* and limits are enabled, the grace period is over.                         *)
(***************************************************************************)
EXTENDS Integers, Sequences, FiniteSets

CONSTANTS
  Ips,
  Sessions,       \* goroutines that apply the policy
  IpOf,           \* IpOf[s]
  Timeout,        \* banning.timeout
  ResetInterval,
  CheckThreshold, InvalidPercent, MalformedLimit,
  Limit, LimitJump,
  ChannelSize,    \* of banChannel: 64
  MaxOffences,    \* bound on what is held against anybody
  MaxConnects,    \* bound on the refusals counted for an object: how far its limit sinks below 0
  ObjIds          \* names of Stats objects, more than can be in use at once

ASSUME PolicyAssumption ==
  /\ IpOf \in [Sessions -> Ips]
  /\ {Timeout, ResetInterval, CheckThreshold, MalformedLimit, ChannelSize} \subseteq Nat \ {0}
  /\ {InvalidPercent, Limit, LimitJump, MaxOffences, MaxConnects} \subseteq Nat
  /\ 0 \notin ObjIds
  \* An object is not thrown away while its ban lasts.
  /\ Timeout <= ResetInterval
  /\ IsFiniteSet(Ips) /\ IsFiniteSet(Sessions) /\ IsFiniteSet(ObjIds)
  /\ Cardinality(ObjIds) >= Cardinality(Ips) + Cardinality(Sessions) + 1

VARIABLES
  stats,      \* the table: the object of each address, or 0
  obj,        \* the objects
  whitelist,
  pc, ptr,    \* where each session is, and the object it holds
  checked,    \* the address the accept loop found not to be banned, if any
  counting,   \* the object ApplyLimitPolicy holds there, or 0
  reset,      \* resetStats, which holds statsMu while it runs
  banChannel,
  sentence,   \* history: how long the address must still be banned
  overlapped, \* history: sessions in whose operation resetStats ran
  offences,
  connects    \* history: [allowed, jumps] of each object

acceptVars == <<checked, counting>>
histVars == <<sentence, overlapped, offences, connects>>
policyVars == <<stats, obj, whitelist, pc, ptr, acceptVars, reset, banChannel, histVars>>

Operations == {"share", "malformed", "ban"}

PolicyTypeOK ==
  /\ stats \in [Ips -> ObjIds \cup {0}]
  /\ obj \in [ObjIds -> [beatAge : 0..ResetInterval, banAge : 0..Timeout, banned : BOOLEAN,
                         valid : Nat, invalid : Nat, malformed : 0..MalformedLimit, limit : Int]]
  /\ whitelist \subseteq Ips
  /\ pc \in [Sessions -> Operations \cup {"idle", "store", "cas", "send"}]
  /\ ptr \in [Sessions -> ObjIds \cup {0}]
  /\ checked \subseteq Ips /\ Cardinality(checked) <= 1 /\ counting \in ObjIds \cup {0}
  /\ reset.pc \in {"idle", "next", "clear", "drop"} /\ reset.todo \subseteq Ips
  /\ Len(banChannel) <= ChannelSize
  /\ sentence \in [Ips -> 0..Timeout]
  /\ \A i, j \in Ips : stats[i] = stats[j] /\ stats[i] # 0 => i = j

Idle == [pc |-> "idle", todo |-> {}, ip |-> CHOOSE i \in Ips : TRUE, expired |-> FALSE, silent |-> FALSE]
NewStats == [beatAge |-> 0, banAge |-> Timeout, banned |-> FALSE,
             valid |-> 0, invalid |-> 0, malformed |-> 0, limit |-> Limit]

PolicyInit ==
  /\ stats = [i \in Ips |-> 0]
  /\ obj = [o \in ObjIds |-> NewStats]
  /\ whitelist = {}
  /\ pc = [s \in Sessions |-> "idle"] /\ ptr = [s \in Sessions |-> 0]
  /\ checked = {} /\ counting = 0
  /\ reset = Idle /\ banChannel = <<>>
  /\ sentence = [i \in Ips |-> 0] /\ overlapped = {} /\ offences = 0
  /\ connects = [o \in ObjIds |-> [allowed |-> 0, jumps |-> 0]]

-----------------------------------------------------------------------------

Older(age, most) == IF age < most THEN age + 1 ELSE most

InUse(o) == o \in {stats[i] : i \in Ips} \cup {ptr[s] : s \in Sessions} \cup {counting}
FreeObj == CHOOSE o \in ObjIds : ~InUse(o)

\* What a session or the accept loop does takes no time worth counting, but a
\* session may wait for room in the channel.  Objects nobody refers to are collected.
Tick ==
  /\ reset.pc = "idle" /\ checked = {} /\ counting = 0
  /\ \A s \in Sessions : pc[s] \in {"idle", "send"}
  /\ obj' = [o \in ObjIds |->
       IF InUse(o) THEN [obj[o] EXCEPT !.beatAge = Older(obj[o].beatAge, ResetInterval),
                                       !.banAge = Older(obj[o].banAge, Timeout)]
       ELSE NewStats]
  /\ sentence' = [i \in Ips |-> IF sentence[i] > 0 THEN sentence[i] - 1 ELSE 0]
  /\ UNCHANGED <<stats, whitelist, pc, ptr, acceptVars, reset, banChannel,
                 overlapped, offences, connects>>

\* refreshState, by the goroutine of resetStats: a list that cannot be read is
\* empty.
RefreshState(list) ==
  /\ reset.pc = "idle"
  /\ whitelist' = list
  /\ UNCHANGED <<stats, obj, pc, ptr, acceptVars, reset, banChannel, histVars>>

\* Get takes statsMu, which resetStats has while it runs.
Found(i) == IF stats[i] = 0 THEN FreeObj ELSE stats[i]
History(i) == IF stats[i] = 0 THEN [allowed |-> 0, jumps |-> 0] ELSE connects[Found(i)]

Get(i) ==
  /\ reset.pc = "idle"
  /\ stats' = [stats EXCEPT ![i] = Found(i)]
  /\ obj' = [obj EXCEPT ![Found(i)] =
               [(IF stats[i] = 0 THEN NewStats ELSE obj[Found(i)]) EXCEPT !.beatAge = 0]]
  /\ connects' = [connects EXCEPT ![Found(i)] = History(i)]

\* The accept loop, one connection after the other: IsBanned looks the object
\* up, ApplyLimitPolicy looks it up again and counts down what it found, which
\* resetStats may have dropped meanwhile.
IsBanned(i) == stats[i] # 0 /\ obj[stats[i]].banned
TooManyConnects(i) == stats[i] # 0 /\ obj[stats[i]].limit <= -MaxConnects

CheckBan(i) ==
  /\ checked = {} /\ counting = 0 /\ ~TooManyConnects(i)
  /\ Get(i)
  /\ checked' = IF IsBanned(i) THEN {} ELSE {i}
  /\ UNCHANGED <<whitelist, pc, ptr, counting, reset, banChannel, sentence, overlapped, offences>>

ApplyLimitPolicy(i) ==
  /\ i \in checked
  /\ Get(i)
  /\ checked' = {} /\ counting' = Found(i)
  /\ UNCHANGED <<whitelist, pc, ptr, reset, banChannel, sentence, overlapped, offences>>

\* The connection is let in while something is left after it.
LetsLastIn(limit) == limit - 1 >= 0
Allows(limit) == limit - 1 > 0

DecrLimit ==
  LET allowed == IF Allows(obj[counting].limit) THEN 1 ELSE 0
  IN /\ counting # 0
     /\ obj' = [obj EXCEPT ![counting].limit = @ - 1]
     /\ connects' = [connects EXCEPT ![counting].allowed = @ + allowed]
     /\ counting' = 0
     /\ UNCHANGED <<stats, whitelist, pc, ptr, checked, reset, banChannel,
                    sentence, overlapped, offences>>

-----------------------------------------------------------------------------
(* A session: ApplySharePolicy, ApplyMalformedPolicy, BanClient and          *)
(* ApplyLoginPolicy all look up the object first.                            *)

Goto(s, label) == pc' = [pc EXCEPT ![s] = label]
Leave(s) ==
  /\ Goto(s, "idle")
  /\ ptr' = [ptr EXCEPT ![s] = 0]
  /\ overlapped' = overlapped \ {s}

Begin(s, op) ==
  /\ pc[s] = "idle" /\ offences < MaxOffences
  /\ offences' = offences + 1
  /\ Get(IpOf[s])
  /\ ptr' = [ptr EXCEPT ![s] = Found(IpOf[s])]
  /\ Goto(s, op)
  /\ UNCHANGED <<whitelist, acceptVars, reset, banChannel, sentence, overlapped>>

\* The ratio of invalid to valid shares, not to all of them; without a valid
\* share it is infinite.
TooManyInvalid(valid, invalid) == 100 * invalid >= InvalidPercent * valid

KeepCounting(x) == x
Recounted(x) == [x EXCEPT !.valid = 0, !.invalid = 0]

\* Under the object's lock.
ApplySharePolicy(s, isValid) ==
  LET o == ptr[s]
      x == IF isValid THEN [obj[o] EXCEPT !.valid = @ + 1, !.limit = @ + LimitJump]
           ELSE [obj[o] EXCEPT !.invalid = @ + 1]
      judged == x.valid + x.invalid >= CheckThreshold
  IN /\ pc[s] = "share"
     /\ obj' = [obj EXCEPT ![o] = IF judged THEN Recounted(x) ELSE x]
     /\ connects' = IF isValid THEN [connects EXCEPT ![o].jumps = @ + 1] ELSE connects
     /\ IF judged /\ TooManyInvalid(x.valid, x.invalid)
        THEN Goto(s, "store") /\ UNCHANGED <<ptr, overlapped>>
        ELSE Leave(s)
     /\ UNCHANGED <<stats, whitelist, acceptVars, reset, banChannel, sentence, offences>>

ApplyMalformedPolicy(s) ==
  LET n == Older(obj[ptr[s]].malformed, MalformedLimit)
  IN /\ pc[s] = "malformed"
     /\ obj' = [obj EXCEPT ![ptr[s]].malformed = n]
     /\ IF n >= MalformedLimit
        THEN Goto(s, "store") /\ UNCHANGED <<ptr, overlapped>>
        ELSE Leave(s)
     /\ UNCHANGED <<stats, whitelist, acceptVars, reset, banChannel, sentence, offences, connects>>

\* forceBan, step by step: the whitelist, BannedAt, Banned, the channel.
StoreBannedAt(s) ==
  /\ pc[s] \in {"store", "ban"}
  /\ IF IpOf[s] \in whitelist
     THEN Leave(s) /\ UNCHANGED obj
     ELSE /\ obj' = [obj EXCEPT ![ptr[s]].banAge = 0]
          /\ Goto(s, "cas")
          /\ UNCHANGED <<ptr, overlapped>>
  /\ UNCHANGED <<stats, whitelist, acceptVars, reset, banChannel, sentence, offences, connects>>

KeepBanned(o) == obj
SetBanned(o) == [obj EXCEPT ![o].banned = TRUE]

SwapBanned(s) ==
  /\ pc[s] = "cas"
  /\ obj' = SetBanned(ptr[s])
  /\ sentence' = IF s \in overlapped THEN sentence
                 ELSE [sentence EXCEPT ![IpOf[s]] = Timeout - obj[ptr[s]].banAge]
  /\ IF obj[ptr[s]].banned THEN Leave(s)
     ELSE Goto(s, "send") /\ UNCHANGED <<ptr, overlapped>>
  /\ UNCHANGED <<stats, whitelist, acceptVars, reset, banChannel, offences, connects>>

HasRoom == Len(banChannel) < ChannelSize

Send(s) ==
  /\ pc[s] = "send" /\ HasRoom
  /\ banChannel' = Append(banChannel, IpOf[s])
  /\ Leave(s)
  /\ UNCHANGED <<stats, obj, whitelist, acceptVars, reset, sentence, offences, connects>>

\* A policy worker runs ipset.
NoWorker == FALSE
DoBan == banChannel # <<>>

Worker ==
  /\ DoBan
  /\ banChannel' = Tail(banChannel)
  /\ UNCHANGED <<stats, obj, whitelist, pc, ptr, acceptVars, reset, histVars>>

-----------------------------------------------------------------------------
(* resetStats.                                                              *)

LockStats ==
  /\ reset.pc = "idle"
  /\ reset' = [reset EXCEPT !.pc = "next", !.todo = {i \in Ips : stats[i] # 0}]
  /\ overlapped' = {s \in Sessions : pc[s] # "idle"}
  /\ UNCHANGED <<stats, obj, whitelist, pc, ptr, acceptVars, banChannel,
                 sentence, offences, connects>>

Early(x) == x.banAge >= Timeout - 1
Expired(x) == x.banAge >= Timeout

LoadTimes(i) ==
  /\ reset.pc = "next" /\ i \in reset.todo
  /\ reset' = [pc |-> "clear", todo |-> reset.todo \ {i}, ip |-> i,
               expired |-> Expired(obj[stats[i]]),
               silent |-> obj[stats[i]].beatAge >= ResetInterval]
  /\ UNCHANGED <<stats, obj, whitelist, pc, ptr, acceptVars, banChannel, histVars>>

ClearBannedAt ==
  /\ reset.pc = "clear"
  /\ reset' = [reset EXCEPT !.pc = "drop"]
  /\ obj' = IF reset.expired THEN [obj EXCEPT ![stats[reset.ip]].banAge = Timeout] ELSE obj
  /\ UNCHANGED <<stats, whitelist, pc, ptr, acceptVars, banChannel, histVars>>

NotBanned(x) == ~x.banned
WasBanned(x) == x.banned

\* The ban is dropped, and with it the object; so is a silent address.
DropBan ==
  LET o == stats[reset.ip]
      dropped == reset.expired /\ WasBanned(obj[o])
  IN /\ reset.pc = "drop"
     /\ reset' = [reset EXCEPT !.pc = "next"]
     /\ obj' = IF dropped THEN [obj EXCEPT ![o].banned = FALSE] ELSE obj
     /\ stats' = IF dropped \/ reset.silent THEN [stats EXCEPT ![reset.ip] = 0] ELSE stats
     /\ UNCHANGED <<whitelist, pc, ptr, acceptVars, banChannel, histVars>>

UnlockStats ==
  /\ reset.pc = "next" /\ reset.todo = {}
  /\ reset' = Idle
  /\ UNCHANGED <<stats, obj, whitelist, pc, ptr, acceptVars, banChannel, histVars>>

ResetStep == (\E i \in Ips : LoadTimes(i)) \/ ClearBannedAt \/ DropBan \/ UnlockStats

-----------------------------------------------------------------------------

Proceed(s) ==
  \/ \E isValid \in BOOLEAN : ApplySharePolicy(s, isValid)
  \/ ApplyMalformedPolicy(s) \/ StoreBannedAt(s) \/ SwapBanned(s) \/ Send(s)

\* The accept loop between IsBanned and the count.
GoOn == DecrLimit \/ \E i \in Ips : ApplyLimitPolicy(i)

PolicyNext ==
  \/ Tick \/ Worker \/ LockStats \/ ResetStep
  \/ \E list \in SUBSET Ips : RefreshState(list)
  \/ GoOn \/ \E i \in Ips : CheckBan(i)
  \/ \E s \in Sessions : Proceed(s) \/ \E op \in Operations : Begin(s, op)

PolicySpec == PolicyInit /\ [][PolicyNext]_policyVars

\* Sessions and the accept loop go on, a worker runs, time passes and resetStats runs now and then.
PolicyFairSpec ==
  /\ PolicySpec
  /\ WF_policyVars(Worker) /\ SF_policyVars(GoOn)
  /\ SF_policyVars(Tick) /\ SF_policyVars(LockStats) /\ WF_policyVars(ResetStep)
  /\ \A s \in Sessions : WF_policyVars(Proceed(s))

-----------------------------------------------------------------------------
(* Properties.                                                              *)

\* A ban lasts for the banning timeout, whatever other sessions of the address
\* and resetStats do; excepted is a ban that was being imposed while resetStats
\* ran, which may go to an object that is no longer in the table or be dropped
\* with the ban before it.
BanHolds == \A i \in Ips : sentence[i] > 0 => IsBanned(i)

\* Between two checks of an address fewer shares are counted than trigger one,
\* so each check is about exactly CheckThreshold of them, although several
\* sessions count, judge and start again.
WindowBounded ==
  \A i \in Ips : stats[i] # 0 => obj[stats[i]].valid + obj[stats[i]].invalid < CheckThreshold

\* The counters of an address, which sessions change side by side, stay within
\* their bounds.
CountsBounded == PolicyTypeOK /\ WindowBounded

\* An address has fewer connections let in than the limit and what its valid
\* shares added to it (the countdown comes before the comparison), whichever
\* sessions add to it meanwhile.
LimitEnforced ==
  \A i \in Ips : stats[i] # 0 =>
    LET h == connects[stats[i]] IN h.allowed = 0 \/ h.allowed < Limit + h.jumps * LimitJump

\* A ban ends some time after its last cause.
BanEnds == \A i \in Ips : IsBanned(i) ~> ~IsBanned(i)

\* Nobody waits for ever for room in the channel of bans.
SendEnds == \A s \in Sessions : pc[s] = "send" ~> pc[s] = "idle"
=============================================================================
