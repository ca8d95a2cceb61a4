----------------------------- MODULE Upstreams -----------------------------
(***************************************************************************)
(* Which bitcoind the pool talks to, and when it stops sending jobs: the     *)
(* health of each upstream (rpc/rpc.go), the switch between them and the     *)
(* count of failed writes to Redis (proxy/proxy.go).                         *)
(***************************************************************************)
EXTENDS Integers, FiniteSetsExt

CONSTANTS
  N,          \* upstreams 0..N-1
  Callers,    \* goroutines that make requests
  Threshold,  \* 5, of sickRate and of successRate
  MaxFails,   \* Proxy.MaxFails
  MaxFlips    \* bound on how often a node or Redis goes or comes back

ASSUME UpstreamsAssumption ==
  /\ {N, Threshold, MaxFails} \subseteq Nat \ {0} /\ MaxFlips \in Nat

VARIABLES
  up, redisUp, flips,      \* the outside
  sick, sickRate, successRate,
  upstream,
  call,                    \* the upstream each caller's request went to, or -1
  check,                   \* checkUpstreams
  failsCount,
  hasTemplate,             \* a block template was ever fetched
  answered                 \* history: checks answered since the last failure

health == <<sick, sickRate, successRate>>
upstreamsVars == <<up, redisUp, flips, health, upstream, call, check, failsCount, hasTemplate,
                   answered>>

Ids == 0..N - 1

UpstreamsTypeOK ==
  /\ up \subseteq Ids /\ redisUp \in BOOLEAN
  /\ upstream \in Ids /\ call \in [Callers -> Ids \cup {-1}]
  /\ check.i \in 0..N /\ check.pc \in {"post", "alive", "ask"} /\ check.candidate \in Ids
  /\ failsCount \in 0..MaxFails /\ hasTemplate \in BOOLEAN
  /\ \A u \in Ids : /\ sick[u] <=> sickRate[u] >= Threshold
                    /\ sickRate[u] \in 0..Threshold /\ successRate[u] \in 0..Threshold - 1

NewCheck == [i |-> 0, pc |-> "post", candidate |-> 0, backup |-> FALSE]

UpstreamsInit ==
  /\ up \in SUBSET Ids /\ redisUp \in BOOLEAN /\ flips = 0
  /\ sick = [u \in Ids |-> FALSE]
  /\ sickRate = [u \in Ids |-> 0] /\ successRate = [u \in Ids |-> 0]
  /\ upstream = 0 /\ call = [c \in Callers |-> -1] /\ check = NewCheck
  /\ failsCount = 0 /\ hasTemplate = FALSE /\ answered = [u \in Ids |-> 0]

Outside ==
  /\ flips < MaxFlips /\ flips' = flips + 1
  /\ \/ redisUp' = ~redisUp /\ UNCHANGED up
     \/ /\ \E u \in Ids : up' = IF u \in up THEN up \ {u} ELSE up \cup {u}
        /\ UNCHANGED redisUp
  /\ UNCHANGED <<health, upstream, call, check, failsCount, hasTemplate, answered>>

-----------------------------------------------------------------------------
(* The health of an upstream, each of the two under its lock.  Above the    *)
(* threshold sickRate tells nothing more.                                   *)

KeepSuccess(u) == successRate
NoSuccess(u) == [successRate EXCEPT ![u] = 0]

markSick(u) ==
  /\ sickRate' = [sickRate EXCEPT ![u] = IF @ < Threshold THEN @ + 1 ELSE @]
  /\ successRate' = NoSuccess(u)
  /\ sick' = [sick EXCEPT ![u] = @ \/ sickRate[u] + 1 >= Threshold]
  /\ answered' = [answered EXCEPT ![u] = 0]

NotSick(u) == [sickRate EXCEPT ![u] = 0]

markAlive(u) ==
  IF successRate[u] + 1 < Threshold
  THEN successRate' = [successRate EXCEPT ![u] = @ + 1] /\ UNCHANGED <<sick, sickRate>>
  ELSE /\ sick' = [sick EXCEPT ![u] = FALSE]
       /\ sickRate' = NotSick(u)
       /\ successRate' = [successRate EXCEPT ![u] = 0]

\* A request goes to the upstream of the moment; an error in the answer counts
\* as a failure too.
Request(c) ==
  /\ call[c] = -1
  /\ call' = [call EXCEPT ![c] = upstream]
  /\ UNCHANGED <<up, redisUp, flips, health, upstream, check, failsCount, hasTemplate, answered>>

doPostFails(c) ==
  /\ call[c] # -1
  /\ markSick(call[c])
  /\ call' = [call EXCEPT ![c] = -1]
  /\ UNCHANGED <<up, redisUp, flips, upstream, check, failsCount, hasTemplate>>

\* It may be the answer that makes a template.
doPostAnswered(c) ==
  /\ call[c] \in up
  /\ call' = [call EXCEPT ![c] = -1]
  /\ hasTemplate' \in {hasTemplate, TRUE}
  /\ UNCHANGED <<up, redisUp, flips, health, upstream, check, failsCount, answered>>

-----------------------------------------------------------------------------
(* checkUpstreams: a request, markAlive and Sick of each upstream in turn.  *)

LastHealthy == TRUE
NoneBefore == ~check.backup

NextOne(healthy) ==
  check' = [check EXCEPT !.i = @ + 1, !.pc = "post",
              !.candidate = IF healthy /\ NoneBefore THEN check.i ELSE @,
              !.backup = @ \/ healthy]

Check ==
  /\ check.i < N
  /\ \/ /\ check.pc = "post" /\ check.i \notin up
        /\ markSick(check.i) /\ NextOne(FALSE)
     \/ /\ check.pc = "post" /\ check.i \in up
        /\ check' = [check EXCEPT !.pc = "alive"]
        /\ answered' = [answered EXCEPT ![check.i] = IF @ < Threshold THEN @ + 1 ELSE @]
        /\ UNCHANGED health
     \/ /\ check.pc = "alive" /\ markAlive(check.i)
        /\ check' = [check EXCEPT !.pc = "ask"]
        /\ UNCHANGED answered
     \/ check.pc = "ask" /\ NextOne(~sick[check.i]) /\ UNCHANGED <<health, answered>>
  /\ UNCHANGED <<up, redisUp, flips, upstream, call, failsCount, hasTemplate>>

Switch ==
  /\ check.i = N
  /\ upstream' = check.candidate
  /\ check' = NewCheck
  /\ UNCHANGED <<up, redisUp, flips, health, call, failsCount, hasTemplate, answered>>

-----------------------------------------------------------------------------
(* The timer that writes the node's state to Redis, once there is a template. *)

markOk == 0

StateUpdate ==
  /\ hasTemplate
  /\ failsCount' = IF redisUp THEN markOk
                   ELSE IF failsCount < MaxFails THEN failsCount + 1 ELSE failsCount
  /\ UNCHANGED <<up, redisUp, flips, health, upstream, call, check, hasTemplate, answered>>

\* With HealthCheck on; no job is broadcast while it holds.
isSick == failsCount >= MaxFails

UpstreamsNext ==
  \/ Outside \/ Check \/ Switch \/ StateUpdate
  \/ \E c \in Callers : Request(c) \/ doPostFails(c) \/ doPostAnswered(c)

UpstreamsSpec == UpstreamsInit /\ [][UpstreamsNext]_upstreamsVars

\* The timers keep firing.
UpstreamsFairSpec == UpstreamsSpec /\ WF_upstreamsVars(Check \/ Switch) /\ WF_upstreamsVars(StateUpdate)

-----------------------------------------------------------------------------
(* Properties.                                                              *)

\* An upstream that was given up is taken back only after a run of answered
\* checks with no failure between them, whatever requests of others fail at the
\* same time.  It may be one short of the threshold: a failure may come between
\* the answer to a check and markAlive.
RecoversOnAnswers ==
  [][\A u \in Ids : sick[u] /\ ~sick'[u] => answered[u] >= Threshold - 1]_upstreamsVars

\* Once nodes stop going and coming, and those that answer stop answering with
\* errors, the pool settles on the first node that answers, or on the first of
\* all if none does: health is neither lost for good nor taken for granted.
\* And jobs are sent again when Redis takes writes again, and held back when it
\* does not, once there is a template; without one its failures go unnoticed.
First == IF up = {} THEN 0 ELSE Min(up)
Settles ==
  /\ <>[](isSick <=> hasTemplate /\ ~redisUp)
  /\ <>[][\A c \in Callers : doPostFails(c) => call[c] \notin up]_upstreamsVars
       => <>[](upstream = First)
=============================================================================
