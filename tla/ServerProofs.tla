--------------------------- MODULE ServerProofs ---------------------------
(***************************************************************************)
(* Invariance proofs for the stratum server and the policy server:           *)
(* StratumServer, for every set of connections and every number of tags that *)
(* an extraNonce1 can hold; Policy, for every set of addresses and sessions,  *)
(* every timeout and every limit.                                            *)
(***************************************************************************)
EXTENDS StratumServer, Policy, FiniteSetTheorems, TLAPS

-----------------------------------------------------------------------------
(* StratumServer.                                                           *)

\* A tag is in the channel or with one connection.
Holders(t) == {c \in Conns : tag[c] = t}
OneHolder ==
  \A t \in Tags :
    \/ accept[t] = 1 /\ Holders(t) = {}
    \/ accept[t] = 0 /\ \E c \in Conns : Holders(t) = {c}

\* A session's nonce is its tag.
NonceIsTag ==
  /\ \A c \in Conns : state[c] \in {"new", "waiting"} => nonce1[c] = NoTag
  /\ \A c \in sessions : nonce1[c] # NoTag
  /\ \A c \in Serving : nonce1[c] # NoTag => nonce1[c] = tag[c]

\* A connection is opened when it is accepted.
OpenedLate == \A c \in Conns : state[c] = "new" => c \notin open

StratumInv ==
  /\ StratumTypeOK
  /\ OneHolder
  /\ NonceIsTag
  /\ OpenedLate
  /\ NothingLeaks

-----------------------------------------------------------------------------
(* Lemmas.                                                                  *)

\* The uint16 of a session holds its tag.
LEMMA TagFits ==
  ASSUME NEW t \in Tags
  PROVE  t % TagRange = t /\ t \in 0..(TagRange - 1)
<1>1. t \in Nat /\ t < TagRange /\ TagRange \in Nat \ {0}
  BY StratumAssumption DEF Tags
<1> QED
  BY <1>1

\* What the sets count.
LEMMA HoldersCounted ==
  ASSUME StratumTypeOK, OneHolder
  PROVE  TagsConserved
<1> SUFFICES ASSUME NEW t \in Tags
             PROVE  accept[t] + Cardinality({c \in HasTag : tag[c] = t}) = 1
  BY DEF TagsConserved
<1>1. {c \in HasTag : tag[c] = t} = Holders(t)
  <2>1. t # NoTag
    BY DEF Tags, NoTag
  <2>2. \A c \in Conns : tag[c] = t => c \in HasTag
    BY <2>1 DEF StratumTypeOK
  <2>3. HasTag \subseteq Conns
    BY DEF HasTag
  <2> QED
    BY <2>2, <2>3 DEF Holders
<1>2. CASE accept[t] = 1 /\ Holders(t) = {}
  <2>1. Cardinality({c \in HasTag : tag[c] = t}) = 0
    <3>1. {c \in HasTag : tag[c] = t} = {}
      BY <1>1, <1>2
    <3> QED
      BY <3>1, FS_EmptySet, Zenon
  <2> QED
    BY <1>2, <2>1
<1>3. CASE accept[t] = 0 /\ \E c \in Conns : Holders(t) = {c}
  <2>1. Cardinality({c \in HasTag : tag[c] = t}) = 1
    BY <1>1, <1>3, FS_Singleton, Zenon
  <2> QED
    BY <1>3, <2>1
<1> QED
  BY <1>2, <1>3 DEF OneHolder

\* Two connections do not have the same tag.
LEMMA TagsDiffer ==
  ASSUME StratumTypeOK, OneHolder, NEW c \in Conns, NEW d \in Conns,
         tag[c] = tag[d], tag[c] # NoTag
  PROVE  c = d
<1>1. tag[c] \in Tags /\ c \in Holders(tag[c]) /\ d \in Holders(tag[c])
  BY DEF StratumTypeOK, Holders
<1>2. PICK e \in Conns : Holders(tag[c]) = {e}
  BY <1>1 DEF OneHolder
<1> QED
  BY <1>1, <1>2

\* OneHolder depends on two variables.
LEMMA OneHolderKept ==
  ASSUME OneHolder, accept' = accept, tag' = tag
  PROVE  OneHolder'
BY DEF OneHolder, Holders

-----------------------------------------------------------------------------
(* The accept loop.                                                         *)

LEMMA AcceptStep == ASSUME StratumInv, NEW c \in Conns, Accept(c) PROVE StratumInv'
<1>1. /\ state[c] = "new" /\ state' = [state EXCEPT ![c] = "waiting"]
      /\ open' = open \cup {c}
      /\ UNCHANGED <<accept, tag, nonce1, sessions, isAuth, setters, flooded, panics>>
  BY DEF Accept, Become, tableVars
<1>2. StratumTypeOK'
  BY <1>1 DEF StratumInv, StratumTypeOK, HasTag
<1>3. OneHolder'
  BY <1>1, OneHolderKept DEF StratumInv
<1>4. NonceIsTag' /\ OpenedLate' /\ NothingLeaks'
  BY <1>1 DEF StratumInv, StratumTypeOK, NonceIsTag, OpenedLate, NothingLeaks, Serving
<1> QED
  BY <1>2, <1>3, <1>4 DEF StratumInv

LEMMA RefuseStep == ASSUME StratumInv, NEW c \in Conns, Refuse(c) PROVE StratumInv'
<1>1. /\ state[c] = "new" /\ state' = [state EXCEPT ![c] = "gone"]
      /\ UNCHANGED <<accept, tag, nonce1, open, sessions, isAuth, setters, flooded, panics>>
  BY DEF Refuse, Become, tableVars
<1>2. StratumTypeOK'
  BY <1>1 DEF StratumInv, StratumTypeOK, HasTag
<1>3. OneHolder'
  BY <1>1, OneHolderKept DEF StratumInv
<1>4. c \notin sessions /\ c \notin open
  BY <1>1 DEF StratumInv, NonceIsTag, OpenedLate
<1>5. NonceIsTag' /\ OpenedLate' /\ NothingLeaks'
  BY <1>1, <1>4 DEF StratumInv, StratumTypeOK, NonceIsTag, OpenedLate, NothingLeaks, Serving
<1> QED
  BY <1>2, <1>3, <1>5 DEF StratumInv

\* A tag leaves the channel for a connection that had none.
LEMMA TakeTagStep == ASSUME StratumInv, NEW c \in Conns, TakeTag(c) PROVE StratumInv'
<1>1. PICK t \in Tags :
        /\ accept[t] > 0
        /\ accept' = [accept EXCEPT ![t] = accept[t] - 1]
        /\ tag' = [tag EXCEPT ![c] = t]
  BY DEF TakeTag
<1>2. /\ state[c] = "waiting" /\ state' = [state EXCEPT ![c] = "serving"]
      /\ UNCHANGED <<nonce1, open, sessions, isAuth, setters, flooded, panics>>
  BY DEF TakeTag, Become, tableVars
<1>3. accept[t] = 1 /\ Holders(t) = {} /\ tag[c] = NoTag /\ t # NoTag
  BY <1>1, <1>2 DEF StratumInv, StratumTypeOK, OneHolder, HasTag, Tags, NoTag
<1>4. accept' = [accept EXCEPT ![t] = 0]
  BY <1>1, <1>3
<1>5. StratumTypeOK'
  BY <1>1, <1>2, <1>3, <1>4 DEF StratumInv, StratumTypeOK, HasTag
<1>6. OneHolder'
  <2>1. Holders(t)' = {c}
    BY <1>1, <1>3 DEF StratumInv, StratumTypeOK, Holders
  <2>2. accept'[t] = 0
    BY <1>4 DEF StratumInv, StratumTypeOK
  <2>3. ASSUME NEW s \in Tags, s # t
        PROVE  Holders(s)' = Holders(s) /\ accept'[s] = accept[s]
    BY <1>1, <1>3, <1>4, <2>3 DEF StratumInv, StratumTypeOK, Holders, Tags, NoTag
  <2> QED
    BY <2>1, <2>2, <2>3 DEF StratumInv, OneHolder
<1>7. nonce1[c] = NoTag
  BY <1>2 DEF StratumInv, NonceIsTag
<1>8. NonceIsTag' /\ OpenedLate' /\ NothingLeaks'
  BY <1>1, <1>2, <1>7 DEF StratumInv, StratumTypeOK, NonceIsTag, OpenedLate, NothingLeaks, Serving
<1> QED
  BY <1>5, <1>6, <1>8 DEF StratumInv

-----------------------------------------------------------------------------
(* The handlers.                                                            *)

LEMMA SubscribeStep == ASSUME StratumInv, NEW c \in Conns, Subscribe(c) PROVE StratumInv'
<1>1. /\ state[c] = "serving" /\ sessions' = sessions \cup {c}
      /\ nonce1' = [nonce1 EXCEPT ![c] = tag[c] % TagRange]
      /\ state' = [state EXCEPT ![c] = "failed"] \/ state' = state
      /\ UNCHANGED <<accept, tag, open, isAuth, setters, flooded, panics>>
  BY DEF Subscribe, Fail, Become, ExtraNonce1, Serving
<1>2. tag[c] \in Tags /\ tag[c] # NoTag
  BY <1>1 DEF StratumInv, StratumTypeOK, HasTag
<1>3. nonce1' = [nonce1 EXCEPT ![c] = tag[c]] /\ tag[c] \in 0..(TagRange - 1)
  BY <1>1, <1>2, TagFits
<1>4. StratumTypeOK'
  BY <1>1, <1>3 DEF StratumInv, StratumTypeOK, HasTag
<1>5. OneHolder'
  BY <1>1, OneHolderKept DEF StratumInv
<1>6. NonceIsTag'
  BY <1>1, <1>2, <1>3 DEF StratumInv, StratumTypeOK, NonceIsTag, Serving
<1>7. OpenedLate' /\ NothingLeaks'
  BY <1>1 DEF StratumInv, StratumTypeOK, OpenedLate, NothingLeaks
<1> QED
  BY <1>4, <1>5, <1>6, <1>7 DEF StratumInv

\* Authorize, Reject: the table and the tags stay, the connection may have failed.
LEMMA MayFail ==
  ASSUME StratumInv, NEW c \in Conns, state[c] = "serving",
         state' = [state EXCEPT ![c] = "failed"] \/ state' = state,
         isAuth' \subseteq Conns, setters' \subseteq Conns,
         UNCHANGED <<accept, tag, nonce1, open, sessions, flooded, panics>>
  PROVE  StratumInv'
<1>1. StratumTypeOK'
  BY DEF StratumInv, StratumTypeOK, HasTag
<1>2. OneHolder'
  BY OneHolderKept DEF StratumInv
<1>3. NonceIsTag' /\ OpenedLate' /\ NothingLeaks'
  BY DEF StratumInv, StratumTypeOK, NonceIsTag, OpenedLate, NothingLeaks, Serving
<1> QED
  BY <1>1, <1>2, <1>3 DEF StratumInv

LEMMA AuthorizeStep == ASSUME StratumInv, NEW c \in Conns, Authorize(c) PROVE StratumInv'
<1>1. /\ state[c] = "serving"
      /\ state' = [state EXCEPT ![c] = "failed"] \/ state' = state
      /\ isAuth' \subseteq Conns /\ setters' \subseteq Conns
      /\ UNCHANGED <<accept, tag, nonce1, open, sessions, flooded, panics>>
  BY DEF StratumInv, StratumTypeOK, Authorize, Fail, Become, Serving
<1> QED
  BY <1>1, MayFail

LEMMA RejectStep == ASSUME StratumInv, NEW c \in Conns, Reject(c) PROVE StratumInv'
<1>1. /\ state[c] = "serving"
      /\ state' = [state EXCEPT ![c] = "failed"] \/ state' = state
      /\ isAuth' \subseteq Conns /\ setters' \subseteq Conns
      /\ UNCHANGED <<accept, tag, nonce1, open, sessions, flooded, panics>>
  BY DEF StratumInv, StratumTypeOK, Reject, Fail, Become, Serving, tableVars
<1> QED
  BY <1>1, MayFail

\* Disconnect, CleanUp: the session and the connection go.
LEMMA Dropped ==
  ASSUME StratumInv, NEW c \in Conns, state[c] \in {"serving", "failed"},
         state' = [state EXCEPT ![c] = "ended"],
         sessions' = sessions \ {c}, open' = open \ {c},
         UNCHANGED <<accept, tag, nonce1, isAuth, setters, flooded, panics>>
  PROVE  StratumInv'
<1>1. StratumTypeOK'
  BY DEF StratumInv, StratumTypeOK, HasTag
<1>2. OneHolder'
  BY OneHolderKept DEF StratumInv
<1>3. NonceIsTag' /\ OpenedLate' /\ NothingLeaks'
  BY DEF StratumInv, StratumTypeOK, NonceIsTag, OpenedLate, NothingLeaks, Serving
<1> QED
  BY <1>1, <1>2, <1>3 DEF StratumInv

LEMMA FloodStep == ASSUME StratumInv, NEW c \in Conns, Flood(c) PROVE StratumInv'
<1>1. /\ state[c] = "serving" /\ state' = [state EXCEPT ![c] = "ended"]
      /\ flooded' = flooded \cup {c}
      /\ UNCHANGED <<accept, tag, nonce1, open, sessions, isAuth, setters, panics>>
  BY DEF Flood, Become, Serving, tableVars
<1>2. StratumTypeOK'
  BY <1>1 DEF StratumInv, StratumTypeOK, HasTag
<1>3. OneHolder'
  BY <1>1, OneHolderKept DEF StratumInv
<1>4. NonceIsTag' /\ OpenedLate' /\ NothingLeaks'
  BY <1>1 DEF StratumInv, StratumTypeOK, NonceIsTag, OpenedLate, NothingLeaks, Serving
<1> QED
  BY <1>2, <1>3, <1>4 DEF StratumInv

\* The tag goes back to the channel and is forgotten.
LEMMA ReturnTagStep == ASSUME StratumInv, NEW c \in Conns, ReturnTag(c) PROVE StratumInv'
<1>1. /\ state[c] = "ended" /\ state' = [state EXCEPT ![c] = "gone"]
      /\ accept' = [accept EXCEPT ![tag[c]] = accept[tag[c]] + 1]
      /\ tag' = [tag EXCEPT ![c] = NoTag]
      /\ UNCHANGED <<nonce1, open, sessions, isAuth, setters, flooded, panics>>
  BY DEF ReturnTag, PutTag, ForgetTag, Become, tableVars
<1>2. PICK t \in Tags : t = tag[c]
  BY <1>1 DEF StratumInv, StratumTypeOK, HasTag
<1>3. t # NoTag /\ c \in Holders(t)
  BY <1>2 DEF Tags, NoTag, Holders
<1>4. accept[t] = 0 /\ Holders(t) = {c}
  BY <1>3 DEF StratumInv, OneHolder
<1>5. accept' = [accept EXCEPT ![t] = 1]
  BY <1>1, <1>2, <1>4
<1>6. StratumTypeOK'
  BY <1>1, <1>5 DEF StratumInv, StratumTypeOK, HasTag
<1>7. OneHolder'
  <2>1. Holders(t)' = {}
    BY <1>1, <1>3, <1>4 DEF StratumInv, StratumTypeOK, Holders
  <2>2. accept'[t] = 1
    BY <1>5 DEF StratumInv, StratumTypeOK
  <2>3. ASSUME NEW s \in Tags, s # t
        PROVE  Holders(s)' = Holders(s) /\ accept'[s] = accept[s]
    <3>1. s # NoTag
      BY DEF Tags, NoTag
    <3> QED
      BY <1>1, <1>2, <1>5, <2>3, <3>1 DEF StratumInv, StratumTypeOK, Holders
  <2> QED
    BY <2>1, <2>2, <2>3 DEF StratumInv, OneHolder
<1>8. NonceIsTag' /\ OpenedLate' /\ NothingLeaks'
  BY <1>1 DEF StratumInv, StratumTypeOK, NonceIsTag, OpenedLate, NothingLeaks, Serving
<1> QED
  BY <1>6, <1>7, <1>8 DEF StratumInv

-----------------------------------------------------------------------------
(* Other goroutines.                                                        *)

\* SetDifficulty, PushFails: a session may leave the table.
LEMMA MayLeave ==
  ASSUME StratumInv, sessions' \subseteq sessions, setters' \subseteq setters,
         UNCHANGED <<accept, state, tag, nonce1, open, isAuth, flooded, panics>>
  PROVE  StratumInv'
<1>1. StratumTypeOK'
  BY DEF StratumInv, StratumTypeOK, HasTag
<1>2. OneHolder'
  BY OneHolderKept DEF StratumInv
<1>3. NonceIsTag' /\ OpenedLate' /\ NothingLeaks'
  BY DEF StratumInv, StratumTypeOK, NonceIsTag, OpenedLate, NothingLeaks, Serving
<1> QED
  BY <1>1, <1>2, <1>3 DEF StratumInv

\* The process starts again with all tags in the channel.
LEMMA PanicStep == StratumInv /\ Panic => StratumInv'
<1> SUFFICES ASSUME StratumInv, Panic PROVE StratumInv'
  OBVIOUS
<1>1. /\ state' \in [Conns -> {"new", "gone"}]
      /\ tag' = [c \in Conns |-> NoTag] /\ nonce1' = [c \in Conns |-> NoTag]
      /\ accept' = [t \in Tags |-> 1]
      /\ open' = {} /\ sessions' = {} /\ isAuth' = {} /\ setters' = {} /\ flooded' = {}
      /\ panics' \in Nat
  BY DEF StratumInv, StratumTypeOK, Panic
<1>2. StratumTypeOK'
  BY <1>1 DEF StratumTypeOK, HasTag
<1>3. OneHolder'
  <2>1. \A t \in Tags : t # NoTag
    BY DEF Tags, NoTag
  <2> QED
    BY <1>1, <2>1 DEF OneHolder, Holders
<1>4. NonceIsTag' /\ OpenedLate' /\ NothingLeaks'
  BY <1>1 DEF NonceIsTag, OpenedLate, NothingLeaks, Serving
<1> QED
  BY <1>2, <1>3, <1>4 DEF StratumInv

-----------------------------------------------------------------------------

LEMMA StratumInvInit == StratumInit => StratumInv
<1> SUFFICES ASSUME StratumInit PROVE StratumInv
  OBVIOUS
<1>1. StratumTypeOK
  BY DEF StratumInit, StratumTypeOK, HasTag
<1>2. OneHolder
  <2>1. \A t \in Tags : t # NoTag
    BY DEF Tags, NoTag
  <2> QED
    BY <2>1 DEF StratumInit, OneHolder, Holders
<1>3. NonceIsTag /\ OpenedLate /\ NothingLeaks
  BY DEF StratumInit, NonceIsTag, OpenedLate, NothingLeaks, Serving
<1> QED
  BY <1>1, <1>2, <1>3 DEF StratumInv

LEMMA StratumInvNext == StratumInv /\ [StratumNext]_stratumVars => StratumInv'
<1> SUFFICES ASSUME StratumInv, [StratumNext]_stratumVars PROVE StratumInv'
  OBVIOUS
<1>1. CASE Panic
  BY <1>1, PanicStep
<1>2. ASSUME NEW c \in Conns, Accept(c) \/ Refuse(c) \/ TakeTag(c) \/ ReturnTag(c)
      PROVE  StratumInv'
  BY <1>2, AcceptStep, RefuseStep, TakeTagStep, ReturnTagStep
<1>3. ASSUME NEW c \in Conns, Subscribe(c) \/ Authorize(c) \/ Reject(c) \/ Flood(c)
      PROVE  StratumInv'
  BY <1>3, SubscribeStep, AuthorizeStep, RejectStep, FloodStep
<1>4. ASSUME NEW c \in Conns, Disconnect(c) \/ CleanUp(c)
      PROVE  StratumInv'
  BY <1>4, Dropped DEF Disconnect, CleanUp, Drop, Become, Serving
<1>5. ASSUME NEW c \in Conns, SetDifficulty(c) \/ PushFails(c)
      PROVE  StratumInv'
  BY <1>5, MayLeave DEF SetDifficulty, PushFails
<1>6. CASE UNCHANGED stratumVars
  BY <1>6, MayLeave DEF stratumVars, tableVars
<1> QED
  BY <1>1, <1>2, <1>3, <1>4, <1>5, <1>6 DEF StratumNext, ServerStep

\* A tag is free or with one connection, whose nonce it is, at every step of the
\* server (registerSession, removeSession).
THEOREM StratumInvariance == StratumSpec => []StratumInv
BY StratumInvInit, StratumInvNext, PTL DEF StratumSpec

\* Tags, states and nonces have their types (StratumServer, Session).
THEOREM StratumTypeCorrect == StratumSpec => []StratumTypeOK
<1>1. StratumInv => StratumTypeOK
  BY DEF StratumInv
<1> QED
  BY <1>1, StratumInvariance, PTL

\* Each tag is in the channel or with one connection, for every number of
\* connections and tags (StratumServer.ListenTCP).
THEOREM TagsAreConserved == StratumSpec => []TagsConserved
<1>1. StratumInv => TagsConserved
  BY HoldersCounted DEF StratumInv
<1> QED
  BY <1>1, StratumInvariance, PTL

\* No two sessions being served search the same extraNonce1 (handleSubscribeRPC).
THEOREM NoncesAreDistinct == StratumSpec => []NoncesDistinct
<1>1. StratumInv => NoncesDistinct
  <2> SUFFICES ASSUME StratumInv, NEW c \in Conns, NEW d \in Conns,
                      Submitter(c), Submitter(d), nonce1[c] = nonce1[d]
               PROVE  c = d
    BY DEF NoncesDistinct
  <2>1. nonce1[c] # NoTag /\ nonce1[c] = tag[c] /\ nonce1[d] = tag[d]
    BY DEF StratumInv, NonceIsTag, Submitter
  <2> QED
    BY <2>1, TagsDiffer DEF StratumInv
<1> QED
  BY <1>1, StratumInvariance, PTL

\* What has ended is neither in the session table nor open, unless it flooded
\* (handleTCPClient, removeSession).
THEOREM NothingIsLeaked == StratumSpec => []NothingLeaks
<1>1. StratumInv => NothingLeaks
  BY DEF StratumInv
<1> QED
  BY <1>1, StratumInvariance, PTL

-----------------------------------------------------------------------------
(* Policy.                                                                  *)

\* What PolicyTypeOK says of the values, for the records and functions too.
PolicyShapes ==
  /\ reset \in [pc : {"idle", "next", "clear", "drop"}, todo : SUBSET Ips,
                ip : Ips \cup {Idle.ip}, expired : BOOLEAN, silent : BOOLEAN]
  /\ banChannel \in Seq(Ips) /\ overlapped \subseteq Sessions
  /\ connects \in [ObjIds -> [allowed : Nat, jumps : Nat]]
  /\ \A s \in Sessions : pc[s] = "idle" <=> ptr[s] = 0

\* Where no session is while time passes.
Active == Operations \cup {"store", "cas"}

\* A session that resetStats has not met still has the object of the table.
HoldsTableObject ==
  \A s \in Sessions \ overlapped :
    pc[s] # "idle" => reset.pc = "idle" /\ stats[IpOf[s]] = ptr[s]

\* The lookup that began a session's operation was just now.
JustSeen == \A s \in Sessions : pc[s] \in Active => obj[ptr[s]].beatAge = 0

\* Who is banned was seen when the ban began, or since.
SeenSinceBan ==
  \A o \in ObjIds : obj[o].beatAge <= obj[o].banAge \/ obj[o].banAge = Timeout

\* A sentence is served by the object in the table, which is banned as long.
Served ==
  \A i \in Ips : sentence[i] > 0 =>
    /\ stats[i] # 0 /\ obj[stats[i]].banned
    /\ sentence[i] + obj[stats[i]].banAge <= Timeout

\* What resetStats is about to do to an address is due.
ResetIsDue ==
  /\ reset.pc # "idle" => \A i \in reset.todo : stats[i] # 0
  /\ reset.pc \in {"clear", "drop"} =>
       /\ reset.ip \in Ips \ reset.todo /\ stats[reset.ip] # 0
       /\ reset.expired \/ reset.silent => sentence[reset.ip] = 0

\* The window and the limit, for the objects that are no longer in the table too.
WindowOfAll == \A o \in ObjIds : obj[o].valid + obj[o].invalid < CheckThreshold

Earned(o) == Limit + connects[o].jumps * LimitJump
Spends(o) ==
  /\ connects[o].allowed = 0 \/ connects[o].allowed < Earned(o)
  /\ connects[o].allowed + obj[o].limit <= Earned(o)
LimitOfAll == \A o \in ObjIds : InUse(o) => Spends(o)

PolicyInv ==
  /\ PolicyTypeOK /\ PolicyShapes
  /\ HoldsTableObject /\ JustSeen /\ SeenSinceBan /\ Served /\ ResetIsDue
  /\ WindowOfAll /\ LimitOfAll

LEMMA PolicyConstants ==
  /\ Timeout \in Nat /\ Timeout > 0 /\ ResetInterval \in Nat /\ Timeout <= ResetInterval
  /\ CheckThreshold \in Nat /\ CheckThreshold > 0 /\ MalformedLimit \in Nat
  /\ Limit \in Nat /\ LimitJump \in Nat /\ 0 \notin ObjIds
  /\ \A s \in Sessions : IpOf[s] \in Ips
BY PolicyAssumption

\* The Stats objects.
Objects ==
  [beatAge : 0..ResetInterval, banAge : 0..Timeout, banned : BOOLEAN,
   valid : Nat, invalid : Nat, malformed : 0..MalformedLimit, limit : Int]

LEMMA PolicyTypes ==
  ASSUME PolicyInv
  PROVE  /\ stats \in [Ips -> ObjIds \cup {0}] /\ obj \in [ObjIds -> Objects]
         /\ pc \in [Sessions -> Operations \cup {"idle", "store", "cas", "send"}]
         /\ ptr \in [Sessions -> ObjIds \cup {0}] /\ sentence \in [Ips -> 0..Timeout]
         /\ connects \in [ObjIds -> [allowed : Nat, jumps : Nat]]
         /\ \A i, j \in Ips : stats[i] = stats[j] /\ stats[i] # 0 => i = j
         /\ \A s \in Sessions : pc[s] # "idle" => ptr[s] \in ObjIds
         /\ counting \in ObjIds \cup {0} /\ checked \subseteq Ips
BY DEF PolicyInv, PolicyTypeOK, PolicyShapes, Objects

LEMMA NewStatsTyped == NewStats \in Objects
BY PolicyConstants DEF NewStats, Objects

\* What a function makes of a finite set is no larger.
LEMMA Image ==
  ASSUME NEW S, IsFiniteSet(S), NEW h
  PROVE  LET T == {h[x] : x \in S}
         IN  /\ IsFiniteSet(T) /\ Cardinality(T) <= Cardinality(S)
             /\ Cardinality(T) \in Nat /\ Cardinality(S) \in Nat
<1> DEFINE T == {h[x] : x \in S}
           f == [x \in S |-> h[x]]
<1>1. f \in Surjection(S, T)
  BY DEF Surjection
<1> HIDE DEF f
<1>2. IsFiniteSet(T) /\ Cardinality(T) <= Cardinality(S)
  BY <1>1, FS_Surjection
<1> QED
  BY <1>2, FS_CardinalityType

\* There is an object for an address that has none.
LEMMA FreeIsFree ==
  ASSUME NEW i \in Ips, stats[i] = 0
  PROVE  FreeObj \in ObjIds /\ ~InUse(FreeObj)
<1> DEFINE others == Ips \ {i}
           A == {stats[j] : j \in others}
           B == {ptr[s] : s \in Sessions}
<1>1. IsFiniteSet(others) /\ Cardinality(others) = Cardinality(Ips) - 1
  BY PolicyAssumption, FS_RemoveElement
<1>2. /\ IsFiniteSet(A) /\ Cardinality(A) <= Cardinality(Ips) - 1
      /\ Cardinality(A) \in Nat /\ Cardinality(Ips) \in Nat
  <2>1. IsFiniteSet(A) /\ Cardinality(A) <= Cardinality(others) /\ Cardinality(A) \in Nat
    BY <1>1, Image
  <2> QED
    BY <2>1, <1>1, PolicyAssumption, FS_CardinalityType
<1>3. /\ IsFiniteSet(B) /\ Cardinality(B) <= Cardinality(Sessions)
      /\ Cardinality(B) \in Nat /\ Cardinality(Sessions) \in Nat
  BY PolicyAssumption, Image
<1> HIDE DEF A, B
<1>4. /\ IsFiniteSet(A \cup B)
      /\ Cardinality(A \cup B) < Cardinality(Ips) + Cardinality(Sessions)
  <2>1. Cardinality(A \cap B) \in Nat
    <3>1. A \cap B \in SUBSET A
      OBVIOUS
    <3> QED
      BY <1>2, <3>1, FS_Subset, FS_CardinalityType
  <2>2. /\ IsFiniteSet(A \cup B)
        /\ Cardinality(A \cup B) = Cardinality(A) + Cardinality(B) - Cardinality(A \cap B)
    BY <1>2, <1>3, FS_Union
  <2> QED
    BY <1>2, <1>3, <2>1, <2>2
<1>5. /\ IsFiniteSet(A \cup B \cup {counting})
      /\ Cardinality(A \cup B \cup {counting}) < Cardinality(Ips) + Cardinality(Sessions) + 1
  <2>1. Cardinality(A \cup B) \in Nat
    BY <1>4, FS_CardinalityType
  <2>2. /\ IsFiniteSet(A \cup B \cup {counting})
        /\ \/ Cardinality(A \cup B \cup {counting}) = Cardinality(A \cup B)
           \/ Cardinality(A \cup B \cup {counting}) = Cardinality(A \cup B) + 1
    BY <1>4, FS_AddElement
  <2> QED
    BY <1>2, <1>3, <1>4, <2>1, <2>2
<1>6. PICK o \in ObjIds : o \notin A \cup B \cup {counting}
  <2> SUFFICES ASSUME ObjIds \subseteq A \cup B \cup {counting} PROVE FALSE
    OBVIOUS
  <2>1. ObjIds \in SUBSET (A \cup B \cup {counting})
    OBVIOUS
  <2>2. Cardinality(ObjIds) <= Cardinality(A \cup B \cup {counting})
    BY <1>5, <2>1, FS_Subset
  <2>3. /\ Cardinality(ObjIds) \in Nat
        /\ Cardinality(A \cup B \cup {counting}) \in Nat
    BY <1>5, PolicyAssumption, FS_CardinalityType
  <2> QED
    BY <1>2, <1>3, <1>5, <2>2, <2>3, PolicyAssumption
<1>7. ~InUse(o)
  BY <1>6, PolicyConstants DEF A, B, InUse
<1> QED
  BY <1>7 DEF FreeObj

LEMMA FoundObject ==
  ASSUME PolicyInv, NEW i \in Ips
  PROVE  /\ Found(i) \in ObjIds
         /\ stats[i] # 0 => Found(i) = stats[i]
         /\ stats[i] = 0 => ~InUse(Found(i))
         /\ \A j \in Ips : stats[j] = Found(i) => j = i
<1>1. stats[i] # 0 => Found(i) = stats[i] /\ stats[i] \in ObjIds
  BY PolicyTypes DEF Found
<1>2. stats[i] = 0 => Found(i) \in ObjIds /\ ~InUse(Found(i))
  BY FreeIsFree DEF Found
<1>3. \A j \in Ips : stats[j] = Found(i) => j = i
  BY <1>1, <1>2, PolicyTypes DEF InUse
<1> QED
  BY <1>1, <1>2, <1>3

\* What an object spends does not change with the others.
LEMMA SpendsSame ==
  ASSUME NEW o \in ObjIds, Spends(o), obj'[o].limit = obj[o].limit, connects'[o] = connects[o]
  PROVE  Spends(o)'
BY DEF Spends, Earned

LEMMA LookedUpType ==
  ASSUME PolicyInv, NEW i \in Ips
  PROVE  /\ History(i) \in [allowed : Nat, jumps : Nat]
         /\ stats[i] # 0 => History(i) = connects[Found(i)]
         /\ stats[i] = 0 => History(i).allowed = 0 /\ History(i).jumps = 0
<1>1. connects[Found(i)] \in [allowed : Nat, jumps : Nat]
  BY FoundObject, PolicyTypes
<1> QED
  BY <1>1 DEF History

\* A lookup, and what it does to what is known of the others.
LEMMA GetKeeps ==
  ASSUME PolicyInv, NEW i \in Ips, Get(i), UNCHANGED <<reset, sentence>>
  PROVE  /\ stats' \in [Ips -> ObjIds \cup {0}] /\ obj' \in [ObjIds -> Objects]
         /\ connects' \in [ObjIds -> [allowed : Nat, jumps : Nat]]
         /\ Found(i) \in ObjIds
         /\ stats'[i] = Found(i) /\ \A j \in Ips : j # i => stats'[j] = stats[j]
         /\ \A j, k \in Ips : stats'[j] = stats'[k] /\ stats'[j] # 0 => j = k
         /\ obj'[Found(i)].beatAge = 0
         /\ \A o \in ObjIds : o # Found(i) => obj'[o] = obj[o]
         /\ SeenSinceBan' /\ Served' /\ ResetIsDue' /\ WindowOfAll'
         /\ \A o \in ObjIds : o = Found(i) \/ InUse(o) => Spends(o)'
         /\ \A j \in Ips : stats[j] # 0 => stats'[j] = stats[j]
         /\ reset.pc = "idle"
<1> DEFINE f == Found(i)
           old == IF stats[i] = 0 THEN NewStats ELSE obj[f]
           known == History(i)
<1>1. /\ f \in ObjIds /\ (stats[i] # 0 => f = stats[i]) /\ (stats[i] = 0 => ~InUse(f))
      /\ \A j \in Ips : stats[j] = f => j = i
  BY FoundObject
<1>2. /\ stats' = [stats EXCEPT ![i] = f] /\ reset.pc = "idle"
      /\ obj' = [obj EXCEPT ![f] = [old EXCEPT !.beatAge = 0]]
      /\ connects' = [connects EXCEPT ![f] = known]
  BY DEF Get
<1>3. /\ known \in [allowed : Nat, jumps : Nat]
      /\ (stats[i] # 0 => known = connects[f])
      /\ (stats[i] = 0 => known.allowed = 0 /\ known.jumps = 0)
  BY LookedUpType
<1> HIDE DEF f, known
<1>4. /\ stats' \in [Ips -> ObjIds \cup {0}] /\ stats'[i] = f
      /\ \A j \in Ips : j # i => stats'[j] = stats[j]
  BY <1>1, <1>2, PolicyTypes
<1>5. old \in Objects /\ old.limit = IF stats[i] = 0 THEN Limit ELSE obj[f].limit
  BY <1>1, PolicyTypes, NewStatsTyped DEF NewStats
<1>6. /\ \A o \in ObjIds : o # f => obj'[o] = obj[o] /\ connects'[o] = connects[o]
      /\ obj'[f] = [old EXCEPT !.beatAge = 0] /\ connects'[f] = known
      /\ connects' \in [ObjIds -> [allowed : Nat, jumps : Nat]]
  BY <1>1, <1>2, <1>3, PolicyTypes
<1> HIDE DEF old
<1>7. /\ obj'[f] \in Objects /\ obj'[f].beatAge = 0 /\ obj'[f].limit = old.limit
      /\ obj'[f].banAge = old.banAge /\ obj'[f].banned = old.banned
      /\ obj'[f].valid = old.valid /\ obj'[f].invalid = old.invalid
  <2>1. /\ old.banAge \in 0..Timeout /\ old.banned \in BOOLEAN /\ old.valid \in Nat
        /\ old.invalid \in Nat /\ old.malformed \in 0..MalformedLimit
        /\ old.limit \in Int /\ 0 \in 0..ResetInterval
    BY <1>5, PolicyConstants DEF Objects
  <2>2. obj'[f] = [beatAge |-> 0, banAge |-> old.banAge, banned |-> old.banned,
                   valid |-> old.valid, invalid |-> old.invalid,
                   malformed |-> old.malformed, limit |-> old.limit]
    BY <1>5, <1>6 DEF Objects
  <2> QED
    BY <2>1, <2>2 DEF Objects
<1>8. obj' \in [ObjIds -> Objects]
  <2>1. obj' = [obj EXCEPT ![f] = obj'[f]]
    BY <1>2, <1>6, PolicyTypes
  <2> QED
    BY <1>7, <2>1, PolicyTypes
<1>9. SeenSinceBan'
  <2>1. 0 <= obj'[f].banAge
    BY <1>7, PolicyConstants DEF Objects
  <2> QED
    BY <1>6, <1>7, <2>1 DEF SeenSinceBan, PolicyInv
<1>10. Served'
  <2> SUFFICES ASSUME NEW j \in Ips, sentence[j] > 0
               PROVE  /\ stats'[j] # 0 /\ obj'[stats'[j]].banned
                      /\ sentence[j] + obj'[stats'[j]].banAge <= Timeout
    BY DEF Served
  <2>1. /\ stats[j] # 0 /\ stats[j] \in ObjIds /\ obj[stats[j]].banned
        /\ sentence[j] + obj[stats[j]].banAge <= Timeout
    BY PolicyTypes DEF PolicyInv, Served
  <2>2. CASE j # i
    BY <1>1, <1>4, <1>6, <2>1, <2>2
  <2>3. CASE j = i
    <3>1. old = obj[stats[j]]
      BY <1>1, <2>1, <2>3 DEF old
    <3> QED
      BY <1>1, <1>4, <1>7, <2>1, <2>3, <3>1
  <2> QED
    BY <2>2, <2>3
<1>11. WindowOfAll'
  <2>1. old.valid + old.invalid < CheckThreshold
    BY <1>1, PolicyConstants DEF old, NewStats, PolicyInv, WindowOfAll
  <2> QED
    BY <1>6, <1>7, <2>1 DEF PolicyInv, WindowOfAll
<1>12. ResetIsDue'
  BY <1>2 DEF ResetIsDue
<1>13. \A j, k \in Ips : stats'[j] = stats'[k] /\ stats'[j] # 0 => j = k
  BY <1>1, <1>4, PolicyTypes
<1>14. ASSUME NEW o \in ObjIds, o = f PROVE Spends(o)'
  <2>1. CASE stats[i] = 0
    <3>1. connects'[o].allowed = 0 /\ connects'[o].jumps = 0 /\ obj'[o].limit = Limit
      BY <1>3, <1>5, <1>6, <1>7, <1>14, <2>1
    <3> QED
      BY <3>1, PolicyConstants DEF Spends, Earned
  <2>2. CASE stats[i] # 0
    <3>1. InUse(o) /\ obj'[o].limit = obj[o].limit /\ connects'[o] = connects[o]
      BY <1>1, <1>3, <1>5, <1>6, <1>7, <1>14, <2>2 DEF InUse
    <3> QED
      BY <3>1, SpendsSame DEF PolicyInv, LimitOfAll
  <2> QED
    BY <2>1, <2>2
<1>15. ASSUME NEW o \in ObjIds, o # f, InUse(o) PROVE Spends(o)'
  <2>1. Spends(o) /\ obj'[o].limit = obj[o].limit /\ connects'[o] = connects[o]
    BY <1>6, <1>15 DEF PolicyInv, LimitOfAll
  <2> QED
    BY <2>1, SpendsSame
<1>16. \A j \in Ips : stats[j] # 0 => stats'[j] = stats[j]
  BY <1>1, <1>4
<1> QED
  BY <1>1, <1>2, <1>4, <1>6, <1>7, <1>8, <1>9, <1>10, <1>11, <1>12, <1>13, <1>14, <1>15, <1>16
  DEF f

\* Bans are as they were.
LEMMA BansKept ==
  ASSUME PolicyInv, UNCHANGED <<stats, reset, sentence>>,
         \A o \in ObjIds : /\ obj'[o].beatAge = obj[o].beatAge
                           /\ obj'[o].banAge = obj[o].banAge /\ obj'[o].banned = obj[o].banned
  PROVE  SeenSinceBan' /\ Served' /\ ResetIsDue'
<1>1. SeenSinceBan' /\ ResetIsDue'
  BY DEF PolicyInv, SeenSinceBan, ResetIsDue
<1>2. Served'
  <2>1. \A i \in Ips : stats[i] # 0 => stats[i] \in ObjIds
    BY PolicyTypes
  <2> QED
    BY <2>1 DEF PolicyInv, Served
<1> QED
  BY <1>1, <1>2

-----------------------------------------------------------------------------
(* The accept loop.                                                         *)

\* A lookup of the accept loop, whose object it may keep.
LEMMA AcceptLooks ==
  ASSUME PolicyInv, NEW i \in Ips, Get(i), counting' \in {counting, Found(i)},
         checked' \in {{}, {i}},
         UNCHANGED <<whitelist, pc, ptr, reset, banChannel, sentence, overlapped>>
  PROVE  PolicyInv'
<1> DEFINE f == Found(i)
<1>1. /\ stats' \in [Ips -> ObjIds \cup {0}] /\ obj' \in [ObjIds -> Objects]
      /\ connects' \in [ObjIds -> [allowed : Nat, jumps : Nat]]
      /\ f \in ObjIds /\ stats'[i] = f /\ \A j \in Ips : j # i => stats'[j] = stats[j]
      /\ \A j, k \in Ips : stats'[j] = stats'[k] /\ stats'[j] # 0 => j = k
      /\ obj'[f].beatAge = 0 /\ \A o \in ObjIds : o # f => obj'[o] = obj[o]
      /\ SeenSinceBan' /\ Served' /\ ResetIsDue' /\ WindowOfAll'
      /\ \A o \in ObjIds : o = f \/ InUse(o) => Spends(o)'
      /\ \A j \in Ips : stats[j] # 0 => stats'[j] = stats[j]
      /\ reset.pc = "idle"
  BY GetKeeps
<1> HIDE DEF f
<1>2. LimitOfAll'
  <2> SUFFICES ASSUME NEW o \in ObjIds, o # f, InUse(o)' PROVE InUse(o)
    BY <1>1 DEF LimitOfAll
  <2>1. counting' = o => counting = o
    BY DEF f
  <2> QED
    BY <1>1, <2>1 DEF InUse
<1>3. PolicyTypeOK'
  <2>1. checked' \subseteq Ips /\ Cardinality(checked') <= 1
    BY FS_EmptySet, FS_Singleton
  <2>2. counting' \in ObjIds \cup {0}
    BY <1>1, PolicyTypes DEF f
  <2> QED
    BY <1>1, <2>1, <2>2 DEF PolicyInv, PolicyTypeOK, Objects
<1>4. PolicyShapes'
  BY <1>1 DEF PolicyInv, PolicyShapes
<1>5. JustSeen'
  BY <1>1, PolicyTypes DEF PolicyInv, JustSeen, Active, Operations
<1>6. HoldsTableObject'
  <2> SUFFICES ASSUME NEW s \in Sessions \ overlapped, pc[s] # "idle"
               PROVE  stats'[IpOf[s]] = ptr[s]
    BY <1>1 DEF HoldsTableObject
  <2>1. stats[IpOf[s]] = ptr[s] /\ ptr[s] # 0 /\ IpOf[s] \in Ips
    BY PolicyConstants, PolicyTypes DEF PolicyInv, HoldsTableObject
  <2> QED
    BY <1>1, <2>1
<1> QED
  BY <1>1, <1>2, <1>3, <1>4, <1>5, <1>6 DEF PolicyInv

LEMMA CheckBanStep == ASSUME PolicyInv, NEW i \in Ips, CheckBan(i) PROVE PolicyInv'
<1>1. /\ Get(i) /\ counting' = counting /\ checked' \in {{}, {i}}
      /\ UNCHANGED <<whitelist, pc, ptr, reset, banChannel, sentence, overlapped>>
  BY DEF CheckBan
<1> QED
  BY <1>1, AcceptLooks

LEMMA ApplyLimitPolicyStep ==
  ASSUME PolicyInv, NEW i \in Ips, ApplyLimitPolicy(i)
  PROVE  PolicyInv'
<1>1. /\ Get(i) /\ counting' = Found(i) /\ checked' = {}
      /\ UNCHANGED <<whitelist, pc, ptr, reset, banChannel, sentence, overlapped>>
  BY DEF ApplyLimitPolicy
<1> QED
  BY <1>1, AcceptLooks

\* A connection is let in only while the limit lasts.
LEMMA DecrLimitStep == PolicyInv /\ DecrLimit => PolicyInv'
<1> SUFFICES ASSUME PolicyInv, DecrLimit PROVE PolicyInv'
  OBVIOUS
<1> DEFINE c == counting
           more == IF Allows(obj[c].limit) THEN 1 ELSE 0
           y == [obj[c] EXCEPT !.limit = @ - 1]
<1>1. /\ c \in ObjIds /\ obj' = [obj EXCEPT ![c] = y] /\ counting' = 0
      /\ connects' = [connects EXCEPT ![c].allowed = @ + more]
      /\ UNCHANGED <<stats, whitelist, pc, ptr, checked, reset, banChannel, sentence, overlapped>>
  BY PolicyTypes DEF DecrLimit
<1>2. obj[c] \in Objects /\ obj[c].limit \in Int /\ connects[c] \in [allowed : Nat, jumps : Nat]
  BY <1>1, PolicyTypes DEF Objects
<1>3. /\ y \in Objects /\ y.limit = obj[c].limit - 1
      /\ y.beatAge = obj[c].beatAge /\ y.banAge = obj[c].banAge /\ y.banned = obj[c].banned
      /\ y.valid = obj[c].valid /\ y.invalid = obj[c].invalid
  <2>1. y = [beatAge |-> obj[c].beatAge, banAge |-> obj[c].banAge, banned |-> obj[c].banned,
             valid |-> obj[c].valid, invalid |-> obj[c].invalid,
             malformed |-> obj[c].malformed, limit |-> obj[c].limit - 1]
    BY <1>2 DEF Objects
  <2> HIDE DEF y
  <2>2. obj[c].limit - 1 \in Int
    BY <1>2
  <2> QED
    BY <1>2, <2>1, <2>2 DEF Objects
<1>4. more \in {0, 1} /\ (more = 1 => obj[c].limit > 1)
  BY <1>2 DEF Allows
<1> HIDE DEF c, more, y
<1>5. /\ obj' \in [ObjIds -> Objects] /\ obj'[c] = y
      /\ \A o \in ObjIds : o # c => obj'[o] = obj[o]
      /\ connects' \in [ObjIds -> [allowed : Nat, jumps : Nat]]
      /\ connects'[c].allowed = connects[c].allowed + more
      /\ connects'[c].jumps = connects[c].jumps
      /\ \A o \in ObjIds : o # c => connects'[o] = connects[o]
  BY <1>1, <1>2, <1>3, <1>4, PolicyTypes
<1>6. \A o \in ObjIds : /\ obj'[o].beatAge = obj[o].beatAge
                        /\ obj'[o].banAge = obj[o].banAge /\ obj'[o].banned = obj[o].banned
                        /\ obj'[o].valid = obj[o].valid /\ obj'[o].invalid = obj[o].invalid
  BY <1>3, <1>5
<1>7. SeenSinceBan' /\ Served' /\ ResetIsDue'
  BY <1>1, <1>6, BansKept
<1>8. LimitOfAll'
  <2> SUFFICES ASSUME NEW o \in ObjIds, InUse(o)' PROVE Spends(o)'
    BY DEF LimitOfAll
  <2>1. Spends(o)
    <3>1. InUse(o)
      BY <1>1, PolicyConstants DEF InUse
    <3> QED
      BY <3>1 DEF PolicyInv, LimitOfAll
  <2>2. CASE o # c
    BY <1>5, <2>1, <2>2, SpendsSame
  <2>3. CASE o = c
    <3>1. Earned(o)' = Earned(o) /\ Earned(o) \in Int
      BY <1>2, <1>5, <2>3, PolicyConstants DEF Earned
    <3>2. /\ connects'[o].allowed = connects[o].allowed + more
          /\ obj'[o].limit = obj[o].limit - 1
          /\ connects[o].allowed \in Nat /\ obj[o].limit \in Int
      BY <1>2, <1>3, <1>5, <2>3
    <3>3. connects[o].allowed + obj[o].limit <= Earned(o)
      BY <2>1 DEF Spends
    <3>4. connects'[o].allowed + obj'[o].limit <= Earned(o)
      BY <1>4, <3>1, <3>2, <3>3
    <3>5. connects'[o].allowed = 0 \/ connects'[o].allowed < Earned(o)
      BY <1>4, <2>1, <2>3, <3>1, <3>2, <3>3 DEF Spends
    <3> QED
      BY <3>1, <3>4, <3>5 DEF Spends
  <2> QED
    BY <2>2, <2>3
<1>9. PolicyTypeOK' /\ PolicyShapes'
  BY <1>1, <1>5 DEF PolicyInv, PolicyTypeOK, PolicyShapes, Objects
<1>10. JustSeen' /\ HoldsTableObject'
  BY <1>1, <1>6, PolicyTypes DEF PolicyInv, JustSeen, HoldsTableObject, Active, Operations
<1>11. WindowOfAll'
  BY <1>6 DEF PolicyInv, WindowOfAll
<1> QED
  BY <1>7, <1>8, <1>9, <1>10, <1>11 DEF PolicyInv

LEMMA BeginStep ==
  ASSUME PolicyInv, NEW s \in Sessions, NEW op \in Operations, Begin(s, op)
  PROVE  PolicyInv'
<1> DEFINE i == IpOf[s]
           f == Found(i)
<1>1. /\ pc[s] = "idle" /\ Get(i) /\ i \in Ips
      /\ ptr' = [ptr EXCEPT ![s] = f] /\ pc' = [pc EXCEPT ![s] = op]
      /\ UNCHANGED <<whitelist, acceptVars, reset, banChannel, sentence, overlapped>>
  BY PolicyConstants DEF Begin, Goto
<1> HIDE DEF i
<1>2. /\ stats' \in [Ips -> ObjIds \cup {0}] /\ obj' \in [ObjIds -> Objects]
      /\ connects' \in [ObjIds -> [allowed : Nat, jumps : Nat]]
      /\ f \in ObjIds /\ stats'[i] = f /\ \A j \in Ips : j # i => stats'[j] = stats[j]
      /\ \A j, k \in Ips : stats'[j] = stats'[k] /\ stats'[j] # 0 => j = k
      /\ obj'[f].beatAge = 0 /\ \A o \in ObjIds : o # f => obj'[o] = obj[o]
      /\ SeenSinceBan' /\ Served' /\ ResetIsDue' /\ WindowOfAll'
      /\ \A o \in ObjIds : o = f \/ InUse(o) => Spends(o)'
      /\ \A j \in Ips : stats[j] # 0 => stats'[j] = stats[j]
      /\ reset.pc = "idle"
  BY <1>1, GetKeeps
<1> HIDE DEF f
<1>3. /\ pc' \in [Sessions -> Operations \cup {"idle", "store", "cas", "send"}]
      /\ ptr' \in [Sessions -> ObjIds \cup {0}] /\ ptr'[s] = f /\ pc'[s] = op
      /\ \A t \in Sessions : t # s => ptr'[t] = ptr[t] /\ pc'[t] = pc[t]
  BY <1>1, <1>2, PolicyTypes
<1>4. \A t \in Sessions : pc'[t] = "idle" <=> ptr'[t] = 0
  <2>1. \A t \in Sessions : pc[t] = "idle" <=> ptr[t] = 0
    BY DEF PolicyInv, PolicyShapes
  <2>2. f # 0 /\ op # "idle"
    BY <1>2, PolicyConstants DEF Operations
  <2> QED
    BY <1>3, <2>1, <2>2
<1>5. PolicyTypeOK' /\ PolicyShapes'
  BY <1>1, <1>2, <1>3, <1>4 DEF PolicyInv, PolicyTypeOK, PolicyShapes, Objects, acceptVars
<1>6. JustSeen'
  BY <1>2, <1>3, PolicyTypes DEF PolicyInv, JustSeen, Active, Operations
<1>7. HoldsTableObject'
  <2> SUFFICES ASSUME NEW t \in Sessions \ overlapped, pc'[t] # "idle"
               PROVE  stats'[IpOf[t]] = ptr'[t]
    BY <1>1, <1>2 DEF HoldsTableObject
  <2>1. CASE t = s
    BY <1>2, <1>3, <2>1 DEF i
  <2>2. CASE t # s
    <3>1. stats[IpOf[t]] = ptr[t] /\ ptr[t] # 0 /\ IpOf[t] \in Ips
      BY <1>3, <2>2, PolicyConstants, PolicyTypes DEF PolicyInv, HoldsTableObject
    <3> QED
      BY <1>2, <1>3, <2>2, <3>1
  <2> QED
    BY <2>1, <2>2
<1>8. LimitOfAll'
  <2> SUFFICES ASSUME NEW o \in ObjIds, o # f, InUse(o)' PROVE InUse(o)
    BY <1>2 DEF LimitOfAll
  <2> QED
    BY <1>1, <1>2, <1>3 DEF InUse, acceptVars
<1> QED
  BY <1>2, <1>5, <1>6, <1>7, <1>8 DEF PolicyInv


-----------------------------------------------------------------------------
(* The steps of a session.                                                  *)

\* Where it goes, or that it leaves, whatever it did to its object.
LEMMA SessionMoves ==
  ASSUME PolicyInv, NEW s \in Sessions, pc[s] # "idle",
         \/ Leave(s)
         \/ /\ pc[s] \in Active /\ UNCHANGED <<ptr, overlapped>>
            /\ Goto(s, "store") \/ Goto(s, "cas") \/ Goto(s, "send"),
         UNCHANGED <<stats, acceptVars, reset>>,
         \A o \in ObjIds : obj'[o].beatAge = obj[o].beatAge
  PROVE  /\ pc' \in [Sessions -> Operations \cup {"idle", "store", "cas", "send"}]
         /\ ptr' \in [Sessions -> ObjIds \cup {0}] /\ overlapped' \subseteq Sessions
         /\ \A t \in Sessions : pc'[t] = "idle" <=> ptr'[t] = 0
         /\ HoldsTableObject' /\ JustSeen'
         /\ \A o \in ObjIds : InUse(o)' => InUse(o)
<1>1. \/ /\ pc' = [pc EXCEPT ![s] = "idle"] /\ ptr' = [ptr EXCEPT ![s] = 0]
         /\ overlapped' = overlapped \ {s}
      \/ /\ pc[s] \in Active /\ UNCHANGED <<ptr, overlapped>>
         /\ \E label \in {"store", "cas", "send"} : pc' = [pc EXCEPT ![s] = label]
  BY DEF Leave, Goto
<1>2. /\ pc' \in [Sessions -> Operations \cup {"idle", "store", "cas", "send"}]
      /\ ptr' \in [Sessions -> ObjIds \cup {0}]
      /\ \A t \in Sessions : t # s => pc'[t] = pc[t] /\ ptr'[t] = ptr[t]
      /\ \/ pc'[s] = "idle" /\ ptr'[s] = 0
         \/ pc[s] \in Active /\ pc'[s] \in {"store", "cas", "send"} /\ ptr'[s] = ptr[s]
            /\ overlapped' = overlapped
  <2>1. CASE pc' = [pc EXCEPT ![s] = "idle"] /\ ptr' = [ptr EXCEPT ![s] = 0]
    BY <2>1, PolicyTypes
  <2>2. ASSUME NEW label \in {"store", "cas", "send"}, pc' = [pc EXCEPT ![s] = label],
               pc[s] \in Active, UNCHANGED <<ptr, overlapped>>
        PROVE  /\ pc' \in [Sessions -> Operations \cup {"idle", "store", "cas", "send"}]
               /\ ptr' \in [Sessions -> ObjIds \cup {0}]
               /\ \A t \in Sessions : t # s => pc'[t] = pc[t] /\ ptr'[t] = ptr[t]
               /\ pc'[s] = label
    BY <2>2, PolicyTypes
  <2> QED
    BY <1>1, <2>1, <2>2
<1>3. overlapped' \subseteq Sessions /\ overlapped \subseteq overlapped' \cup {s}
  BY <1>1 DEF PolicyInv, PolicyShapes
<1>4. \A t \in Sessions : pc'[t] = "idle" <=> ptr'[t] = 0
  <2>1. \A t \in Sessions : pc[t] = "idle" <=> ptr[t] = 0
    BY DEF PolicyInv, PolicyShapes
  <2>2. pc'[s] = "idle" <=> ptr'[s] = 0
    BY <1>2, <2>1
  <2> QED
    BY <1>2, <2>1, <2>2
<1>5. HoldsTableObject'
  <2> SUFFICES ASSUME NEW t \in Sessions \ overlapped', pc'[t] # "idle"
               PROVE  reset.pc = "idle" /\ stats[IpOf[t]] = ptr'[t]
    BY DEF HoldsTableObject
  <2>1. pc[t] # "idle" /\ t \notin overlapped /\ ptr'[t] = ptr[t]
    BY <1>2, <1>3
  <2> QED
    BY <2>1 DEF PolicyInv, HoldsTableObject
<1>6. JustSeen'
  <2> SUFFICES ASSUME NEW t \in Sessions, pc'[t] \in Active PROVE obj'[ptr'[t]].beatAge = 0
    BY DEF JustSeen
  <2>1. pc[t] \in Active /\ ptr'[t] = ptr[t]
    BY <1>2 DEF Active, Operations
  <2>2. ptr[t] \in ObjIds
    BY <2>1, PolicyTypes DEF Active, Operations
  <2> QED
    BY <2>1, <2>2 DEF PolicyInv, JustSeen
<1>7. \A o \in ObjIds : InUse(o)' => InUse(o)
  <2> SUFFICES ASSUME NEW o \in ObjIds, InUse(o)' PROVE InUse(o)
    OBVIOUS
  <2>1. \A t \in Sessions : ptr'[t] = o => ptr[t] = o
    BY <1>2, PolicyConstants
  <2> QED
    BY <2>1 DEF InUse, acceptVars
<1> QED
  BY <1>2, <1>3, <1>4, <1>5, <1>6, <1>7

LEMMA ApplySharePolicyStep ==
  ASSUME PolicyInv, NEW s \in Sessions, NEW isValid \in BOOLEAN, ApplySharePolicy(s, isValid)
  PROVE  PolicyInv'
<1> DEFINE o == ptr[s]
           x == IF isValid THEN [obj[o] EXCEPT !.valid = @ + 1, !.limit = @ + LimitJump]
                ELSE [obj[o] EXCEPT !.invalid = @ + 1]
           judged == x.valid + x.invalid >= CheckThreshold
           y == IF judged THEN Recounted(x) ELSE x
           jump == IF isValid THEN 1 ELSE 0
<1>1. /\ pc[s] = "share" /\ obj' = [obj EXCEPT ![o] = y]
      /\ connects' = IF isValid THEN [connects EXCEPT ![o].jumps = @ + 1] ELSE connects
      /\ Leave(s) \/ (Goto(s, "store") /\ UNCHANGED <<ptr, overlapped>>)
      /\ UNCHANGED <<stats, whitelist, acceptVars, reset, banChannel, sentence, offences>>
  BY DEF ApplySharePolicy
<1>2. o \in ObjIds /\ obj[o] \in Objects /\ connects[o] \in [allowed : Nat, jumps : Nat]
  BY <1>1, PolicyTypes
<1>3. /\ obj[o].beatAge \in 0..ResetInterval /\ obj[o].banAge \in 0..Timeout
      /\ obj[o].banned \in BOOLEAN /\ obj[o].valid \in Nat /\ obj[o].invalid \in Nat
      /\ obj[o].malformed \in 0..MalformedLimit /\ obj[o].limit \in Int
  BY <1>2 DEF Objects
<1>4. /\ x \in Objects /\ x.beatAge = obj[o].beatAge /\ x.banAge = obj[o].banAge
      /\ x.banned = obj[o].banned /\ x.limit = obj[o].limit + jump * LimitJump
  <2>1. CASE isValid
    <3>1. x = [beatAge |-> obj[o].beatAge, banAge |-> obj[o].banAge, banned |-> obj[o].banned,
               valid |-> obj[o].valid + 1, invalid |-> obj[o].invalid,
               malformed |-> obj[o].malformed, limit |-> obj[o].limit + LimitJump]
      BY <1>2, <2>1 DEF Objects
    <3>2. jump * LimitJump = LimitJump /\ obj[o].limit + LimitJump \in Int
      BY <1>3, <2>1, PolicyConstants
    <3> HIDE DEF x, jump
    <3> QED
      BY <1>3, <3>1, <3>2 DEF Objects
  <2>2. CASE ~isValid
    <3>1. x = [beatAge |-> obj[o].beatAge, banAge |-> obj[o].banAge, banned |-> obj[o].banned,
               valid |-> obj[o].valid, invalid |-> obj[o].invalid + 1,
               malformed |-> obj[o].malformed, limit |-> obj[o].limit]
      BY <1>2, <2>2 DEF Objects
    <3>2. obj[o].limit = obj[o].limit + jump * LimitJump
      BY <1>3, <2>2, PolicyConstants
    <3> HIDE DEF x, jump
    <3> QED
      BY <1>3, <3>1, <3>2 DEF Objects
  <2> QED
    BY <2>1, <2>2
<1> HIDE DEF x
<1>5. /\ y \in Objects /\ y.beatAge = obj[o].beatAge /\ y.banAge = obj[o].banAge
      /\ y.banned = obj[o].banned /\ y.limit = obj[o].limit + jump * LimitJump
      /\ y.valid + y.invalid < CheckThreshold
  <2>1. CASE judged
    <3>1. y = [x EXCEPT !.valid = 0, !.invalid = 0]
      BY <2>1 DEF Recounted
    <3> HIDE DEF y, jump
    <3>2. y = [beatAge |-> x.beatAge, banAge |-> x.banAge, banned |-> x.banned,
               valid |-> 0, invalid |-> 0, malformed |-> x.malformed, limit |-> x.limit]
      BY <1>4, <3>1 DEF Objects
    <3>3. y \in Objects /\ y.valid = 0 /\ y.invalid = 0
      BY <1>4, <3>2 DEF Objects
    <3>4. /\ y.beatAge = obj[o].beatAge /\ y.banAge = obj[o].banAge
          /\ y.banned = obj[o].banned /\ y.limit = obj[o].limit + jump * LimitJump
      BY <1>4, <3>2
    <3> QED
      BY <3>3, <3>4, PolicyConstants
  <2>2. CASE ~judged
    <3>1. y = x /\ x.valid \in Nat /\ x.invalid \in Nat
      BY <1>4, <2>2 DEF Objects
    <3> QED
      BY <1>4, <2>2, <3>1, PolicyConstants
  <2> QED
    BY <2>1, <2>2
<1> HIDE DEF y, o
<1>6. /\ obj' \in [ObjIds -> Objects] /\ obj'[o] = y
      /\ \A p \in ObjIds : p # o => obj'[p] = obj[p]
  BY <1>1, <1>2, <1>5, PolicyTypes
<1>7. /\ connects' \in [ObjIds -> [allowed : Nat, jumps : Nat]]
      /\ connects'[o].allowed = connects[o].allowed
      /\ connects'[o].jumps = connects[o].jumps + jump
      /\ \A p \in ObjIds : p # o => connects'[p] = connects[p]
  BY <1>1, <1>2, PolicyTypes
<1>8. \A p \in ObjIds : /\ obj'[p].beatAge = obj[p].beatAge
                        /\ obj'[p].banAge = obj[p].banAge /\ obj'[p].banned = obj[p].banned
  BY <1>5, <1>6
<1>9. SeenSinceBan' /\ Served' /\ ResetIsDue'
  BY <1>1, <1>8, BansKept
<1>10. /\ pc' \in [Sessions -> Operations \cup {"idle", "store", "cas", "send"}]
       /\ ptr' \in [Sessions -> ObjIds \cup {0}] /\ overlapped' \subseteq Sessions
       /\ \A t \in Sessions : pc'[t] = "idle" <=> ptr'[t] = 0
       /\ HoldsTableObject' /\ JustSeen'
       /\ \A p \in ObjIds : InUse(p)' => InUse(p)
  <2>1. pc[s] # "idle" /\ pc[s] \in Active
    BY <1>1 DEF Active, Operations
  <2> QED
    BY <1>1, <1>8, <2>1, SessionMoves
<1>11. WindowOfAll'
  BY <1>5, <1>6 DEF PolicyInv, WindowOfAll
<1>12. LimitOfAll'
  <2> SUFFICES ASSUME NEW p \in ObjIds, InUse(p)' PROVE Spends(p)'
    BY DEF LimitOfAll
  <2>1. Spends(p)
    BY <1>10 DEF PolicyInv, LimitOfAll
  <2>2. CASE p # o
    BY <1>6, <1>7, <2>1, <2>2, SpendsSame
  <2>3. CASE p = o
    <3>1. jump \in Nat /\ connects[o].jumps \in Nat /\ connects[o].allowed \in Nat
      BY <1>2
    <3> HIDE DEF jump
    <3>2. Earned(p)' = Earned(p) + jump * LimitJump
      <4>1. (connects[o].jumps + jump) * LimitJump
              = connects[o].jumps * LimitJump + jump * LimitJump
        BY <3>1, PolicyConstants
      <4>2. connects[o].jumps * LimitJump \in Nat /\ jump * LimitJump \in Nat
        BY <3>1, PolicyConstants
      <4> QED
        BY <1>7, <2>3, <4>1, <4>2, PolicyConstants DEF Earned
    <3>3. jump * LimitJump \in Nat /\ Earned(p) \in Int
      BY <2>3, <3>1, PolicyConstants DEF Earned
    <3> QED
      BY <1>3, <1>5, <1>6, <1>7, <2>1, <2>3, <3>1, <3>2, <3>3 DEF Spends
  <2> QED
    BY <2>2, <2>3
<1>13. PolicyTypeOK' /\ PolicyShapes'
  <2>1. UNCHANGED <<stats, whitelist, acceptVars, reset, banChannel, sentence>>
    BY <1>1
  <2>2. PolicyTypeOK'
    BY <1>6, <1>10, <2>1 DEF PolicyInv, PolicyTypeOK, Objects, acceptVars
  <2>3. PolicyShapes'
    BY <1>7, <1>10, <2>1 DEF PolicyInv, PolicyShapes
  <2> QED
    BY <2>2, <2>3
<1> QED
  BY <1>9, <1>10, <1>11, <1>12, <1>13 DEF PolicyInv

\* What is left of a session's step when the limits are as they were.
LEMMA SessionStep ==
  ASSUME PolicyInv, NEW s \in Sessions, pc[s] # "idle",
         \/ Leave(s)
         \/ /\ pc[s] \in Active /\ UNCHANGED <<ptr, overlapped>>
            /\ Goto(s, "store") \/ Goto(s, "cas") \/ Goto(s, "send"),
         UNCHANGED <<stats, whitelist, acceptVars, reset, connects>>,
         obj' \in [ObjIds -> Objects],
         \A o \in ObjIds : /\ obj'[o].beatAge = obj[o].beatAge /\ obj'[o].limit = obj[o].limit
                           /\ obj'[o].valid = obj[o].valid /\ obj'[o].invalid = obj[o].invalid,
         SeenSinceBan' /\ Served' /\ ResetIsDue', sentence' \in [Ips -> 0..Timeout],
         banChannel' \in Seq(Ips), Len(banChannel') <= ChannelSize
  PROVE  PolicyInv'
<1>1. /\ pc' \in [Sessions -> Operations \cup {"idle", "store", "cas", "send"}]
      /\ ptr' \in [Sessions -> ObjIds \cup {0}] /\ overlapped' \subseteq Sessions
      /\ \A t \in Sessions : pc'[t] = "idle" <=> ptr'[t] = 0
      /\ HoldsTableObject' /\ JustSeen'
      /\ \A p \in ObjIds : InUse(p)' => InUse(p)
  BY SessionMoves
<1>2. WindowOfAll'
  BY DEF PolicyInv, WindowOfAll
<1>3. LimitOfAll'
  BY <1>1, SpendsSame DEF PolicyInv, LimitOfAll
<1>4. PolicyTypeOK' /\ PolicyShapes'
  BY <1>1 DEF PolicyInv, PolicyTypeOK, PolicyShapes, Objects, acceptVars
<1> QED
  BY <1>1, <1>2, <1>3, <1>4 DEF PolicyInv

LEMMA ApplyMalformedPolicyStep ==
  ASSUME PolicyInv, NEW s \in Sessions, ApplyMalformedPolicy(s)
  PROVE  PolicyInv'
<1> DEFINE o == ptr[s]
           n == Older(obj[o].malformed, MalformedLimit)
<1>1. /\ pc[s] = "malformed" /\ obj' = [obj EXCEPT ![o] = [@ EXCEPT !.malformed = n]]
      /\ Leave(s) \/ (Goto(s, "store") /\ UNCHANGED <<ptr, overlapped>>)
      /\ UNCHANGED <<stats, whitelist, acceptVars, reset, banChannel, sentence, connects>>
  BY DEF ApplyMalformedPolicy
<1>2. pc[s] # "idle" /\ pc[s] \in Active /\ o \in ObjIds /\ obj[o] \in Objects
  BY <1>1, PolicyTypes DEF Active, Operations
<1>3. n \in 0..MalformedLimit
  BY <1>2, PolicyConstants DEF Older, Objects
<1> HIDE DEF n, o
<1>4. [obj[o] EXCEPT !.malformed = n] \in Objects
  BY <1>2, <1>3 DEF Objects
<1>5. obj' \in [ObjIds -> Objects]
  BY <1>1, <1>2, <1>4, PolicyTypes
<1>6. \A p \in ObjIds :
        /\ obj'[p].beatAge = obj[p].beatAge /\ obj'[p].banAge = obj[p].banAge
        /\ obj'[p].banned = obj[p].banned /\ obj'[p].limit = obj[p].limit
        /\ obj'[p].valid = obj[p].valid /\ obj'[p].invalid = obj[p].invalid
  BY <1>1, <1>2, PolicyTypes DEF Objects
<1>7. SeenSinceBan' /\ Served' /\ ResetIsDue'
  BY <1>1, <1>6, BansKept
<1>8. /\ sentence' \in [Ips -> 0..Timeout] /\ banChannel' \in Seq(Ips)
      /\ Len(banChannel') <= ChannelSize
  BY <1>1 DEF PolicyInv, PolicyTypeOK, PolicyShapes
<1> QED
  BY <1>1, <1>2, <1>5, <1>6, <1>7, <1>8, SessionStep

\* A ban begins while the address was just seen.
LEMMA StoreBannedAtStep ==
  ASSUME PolicyInv, NEW s \in Sessions, StoreBannedAt(s)
  PROVE  PolicyInv'
<1>1. /\ pc[s] # "idle" /\ pc[s] \in Active /\ ptr[s] \in ObjIds /\ obj[ptr[s]] \in Objects
      /\ UNCHANGED <<stats, whitelist, acceptVars, reset, banChannel, sentence, connects>>
  BY PolicyTypes DEF StoreBannedAt, Active, Operations
<1>2. /\ sentence' \in [Ips -> 0..Timeout] /\ banChannel' \in Seq(Ips)
      /\ Len(banChannel') <= ChannelSize
  BY <1>1 DEF PolicyInv, PolicyTypeOK, PolicyShapes
<1>3. CASE Leave(s) /\ UNCHANGED obj
  BY <1>1, <1>2, <1>3, BansKept, SessionStep, PolicyTypes
<1>4. CASE /\ obj' = [obj EXCEPT ![ptr[s]].banAge = 0] /\ Goto(s, "cas")
           /\ UNCHANGED <<ptr, overlapped>>
  <2>1. [obj[ptr[s]] EXCEPT !.banAge = 0] \in Objects
    BY <1>1, PolicyConstants DEF Objects
  <2>2. /\ obj' \in [ObjIds -> Objects] /\ obj'[ptr[s]] = [obj[ptr[s]] EXCEPT !.banAge = 0]
        /\ \A p \in ObjIds : p # ptr[s] => obj'[p] = obj[p]
    BY <1>1, <1>4, <2>1, PolicyTypes
  <2>3. /\ obj'[ptr[s]].beatAge = obj[ptr[s]].beatAge /\ obj'[ptr[s]].banAge = 0
        /\ obj'[ptr[s]].banned = obj[ptr[s]].banned /\ obj'[ptr[s]].limit = obj[ptr[s]].limit
        /\ obj'[ptr[s]].valid = obj[ptr[s]].valid /\ obj'[ptr[s]].invalid = obj[ptr[s]].invalid
    BY <1>1, <2>2 DEF Objects
  <2>4. obj[ptr[s]].beatAge = 0
    BY <1>1 DEF PolicyInv, JustSeen
  <2>5. SeenSinceBan'
    <3>1. \A p \in ObjIds : obj[p].beatAge <= obj[p].banAge \/ obj[p].banAge = Timeout
      BY DEF PolicyInv, SeenSinceBan
    <3>2. obj'[ptr[s]].beatAge <= obj'[ptr[s]].banAge
      BY <2>3, <2>4
    <3> QED
      BY <2>2, <3>1, <3>2 DEF SeenSinceBan
  <2>6. Served'
    <3> SUFFICES ASSUME NEW i \in Ips, sentence[i] > 0
                 PROVE  /\ stats[i] # 0 /\ obj'[stats[i]].banned
                        /\ sentence[i] + obj'[stats[i]].banAge <= Timeout
      BY <1>1 DEF Served
    <3>1. /\ stats[i] # 0 /\ stats[i] \in ObjIds /\ obj[stats[i]].banned
          /\ sentence[i] + obj[stats[i]].banAge <= Timeout /\ sentence[i] \in 0..Timeout
      BY PolicyTypes DEF PolicyInv, Served
    <3>2. CASE stats[i] = ptr[s]
      BY <2>3, <3>1, <3>2, PolicyConstants
    <3>3. CASE stats[i] # ptr[s]
      BY <2>2, <3>1, <3>3
    <3> QED
      BY <3>2, <3>3
  <2>7. ResetIsDue'
    BY <1>1 DEF PolicyInv, ResetIsDue
  <2>8. \A p \in ObjIds :
          /\ obj'[p].beatAge = obj[p].beatAge /\ obj'[p].limit = obj[p].limit
          /\ obj'[p].valid = obj[p].valid /\ obj'[p].invalid = obj[p].invalid
    BY <2>2, <2>3
  <2> QED
    BY <1>1, <1>2, <1>4, <2>2, <2>5, <2>6, <2>7, <2>8, SessionStep
<1> QED
  BY <1>3, <1>4 DEF StoreBannedAt

\* The sentence begins: the object is the one in the table.
LEMMA SwapBannedStep ==
  ASSUME PolicyInv, NEW s \in Sessions, SwapBanned(s)
  PROVE  PolicyInv'
<1> DEFINE o == ptr[s]
           i == IpOf[s]
<1>1. /\ pc[s] = "cas" /\ obj' = [obj EXCEPT ![o].banned = TRUE]
      /\ sentence' = IF s \in overlapped THEN sentence
                     ELSE [sentence EXCEPT ![i] = Timeout - obj[o].banAge]
      /\ Leave(s) \/ (Goto(s, "send") /\ UNCHANGED <<ptr, overlapped>>)
      /\ UNCHANGED <<stats, whitelist, acceptVars, reset, banChannel, connects>>
  BY DEF SwapBanned, SetBanned
<1>2. /\ pc[s] # "idle" /\ pc[s] \in Active /\ o \in ObjIds /\ obj[o] \in Objects /\ i \in Ips
      /\ obj[o].banAge \in 0..Timeout
  BY <1>1, PolicyTypes, PolicyConstants DEF Active, Operations, Objects
<1>3. s \notin overlapped => reset.pc = "idle" /\ stats[i] = o
  BY <1>2 DEF PolicyInv, HoldsTableObject
<1> HIDE DEF o, i
<1>4. [obj[o] EXCEPT !.banned = TRUE] \in Objects
  BY <1>2 DEF Objects
<1>5. /\ obj' \in [ObjIds -> Objects] /\ obj'[o] = [obj[o] EXCEPT !.banned = TRUE]
      /\ \A p \in ObjIds : p # o => obj'[p] = obj[p]
  BY <1>1, <1>2, <1>4, PolicyTypes
<1>6. /\ obj'[o].beatAge = obj[o].beatAge /\ obj'[o].banAge = obj[o].banAge
      /\ obj'[o].banned = TRUE /\ obj'[o].limit = obj[o].limit
      /\ obj'[o].valid = obj[o].valid /\ obj'[o].invalid = obj[o].invalid
  BY <1>2, <1>5 DEF Objects
<1>7. \A p \in ObjIds :
        /\ obj'[p].beatAge = obj[p].beatAge /\ obj'[p].limit = obj[p].limit
        /\ obj'[p].valid = obj[p].valid /\ obj'[p].invalid = obj[p].invalid
        /\ obj'[p].banAge = obj[p].banAge /\ (obj[p].banned => obj'[p].banned)
  BY <1>5, <1>6
<1>8. SeenSinceBan'
  BY <1>7 DEF PolicyInv, SeenSinceBan
<1>9. /\ sentence' \in [Ips -> 0..Timeout]
      /\ \A j \in Ips : j # i => sentence'[j] = sentence[j]
      /\ \/ sentence'[i] = sentence[i]
         \/ (s \notin overlapped /\ sentence'[i] = Timeout - obj[o].banAge)
  <2>1. Timeout - obj[o].banAge \in 0..Timeout
    BY <1>2, PolicyConstants
  <2> QED
    BY <1>1, <1>2, <2>1, PolicyTypes
<1>10. Served'
  <2> SUFFICES ASSUME NEW j \in Ips, sentence'[j] > 0
               PROVE  /\ stats[j] # 0 /\ obj'[stats[j]].banned
                      /\ sentence'[j] + obj'[stats[j]].banAge <= Timeout
    BY <1>1 DEF Served
  <2>1. CASE sentence'[j] = sentence[j]
    <3>1. /\ stats[j] # 0 /\ stats[j] \in ObjIds /\ obj[stats[j]].banned
          /\ sentence[j] + obj[stats[j]].banAge <= Timeout
      BY <2>1, PolicyTypes DEF PolicyInv, Served
    <3> QED
      BY <1>7, <2>1, <3>1
  <2>2. CASE j = i /\ s \notin overlapped /\ sentence'[i] = Timeout - obj[o].banAge
    BY <1>2, <1>3, <1>6, <2>2, PolicyConstants
  <2> QED
    BY <1>9, <2>1, <2>2
<1>11. ResetIsDue'
  <2>1. CASE s \in overlapped
    BY <1>1, <2>1 DEF PolicyInv, ResetIsDue
  <2>2. CASE s \notin overlapped
    BY <1>1, <1>3, <2>2 DEF ResetIsDue
  <2> QED
    BY <2>1, <2>2
<1>12. banChannel' \in Seq(Ips) /\ Len(banChannel') <= ChannelSize
  BY <1>1 DEF PolicyInv, PolicyTypeOK, PolicyShapes
<1> QED
  BY <1>1, <1>2, <1>5, <1>7, <1>8, <1>9, <1>10, <1>11, <1>12, SessionStep

LEMMA SendStep == ASSUME PolicyInv, NEW s \in Sessions, Send(s) PROVE PolicyInv'
<1>1. /\ pc[s] # "idle" /\ Leave(s) /\ UNCHANGED <<stats, obj, whitelist, acceptVars, reset, sentence, connects>>
      /\ banChannel' = Append(banChannel, IpOf[s]) /\ Len(banChannel) < ChannelSize
  BY DEF Send, HasRoom
<1>2. banChannel \in Seq(Ips) /\ IpOf[s] \in Ips /\ ChannelSize \in Nat
  BY PolicyAssumption DEF PolicyInv, PolicyShapes
<1>3. banChannel' \in Seq(Ips) /\ Len(banChannel') <= ChannelSize
  BY <1>1, <1>2
<1>4. SeenSinceBan' /\ Served' /\ ResetIsDue'
  BY <1>1, BansKept
<1> QED
  BY <1>1, <1>3, <1>4, SessionStep, PolicyTypes

-----------------------------------------------------------------------------
(* The workers, time and resetStats.                                         *)

\* Steps that leave the objects alone.
LEMMA ObjectsKept ==
  ASSUME PolicyInv, UNCHANGED <<stats, obj, pc, ptr, acceptVars, sentence, connects>>,
         whitelist' \subseteq Ips, overlapped' \subseteq Sessions,
         banChannel' \in Seq(Ips), Len(banChannel') <= ChannelSize,
         reset' \in [pc : {"idle", "next", "clear", "drop"}, todo : SUBSET Ips,
                     ip : Ips \cup {Idle.ip}, expired : BOOLEAN, silent : BOOLEAN],
         HoldsTableObject', ResetIsDue'
  PROVE  PolicyInv'
<1>1. PolicyTypeOK'
  BY DEF PolicyInv, PolicyTypeOK, acceptVars
<1>2. PolicyShapes'
  BY DEF PolicyInv, PolicyShapes
<1>3. JustSeen' /\ SeenSinceBan' /\ Served' /\ WindowOfAll'
  BY DEF PolicyInv, JustSeen, SeenSinceBan, Served, WindowOfAll
<1>4. \A o \in ObjIds : InUse(o)' => InUse(o)
  BY DEF InUse, acceptVars
<1>5. LimitOfAll'
  BY <1>4, SpendsSame DEF PolicyInv, LimitOfAll
<1> QED
  BY <1>1, <1>2, <1>3, <1>5 DEF PolicyInv

LEMMA WorkerStep == PolicyInv /\ Worker => PolicyInv'
<1> SUFFICES ASSUME PolicyInv, Worker PROVE PolicyInv'
  OBVIOUS
<1>1. /\ UNCHANGED <<stats, obj, whitelist, pc, ptr, acceptVars, reset, sentence, overlapped, connects>>
      /\ banChannel # <<>> /\ banChannel' = Tail(banChannel)
  BY DEF Worker, DoBan, histVars
<1>2. banChannel \in Seq(Ips) /\ Len(banChannel) <= ChannelSize /\ ChannelSize \in Nat
  BY PolicyAssumption DEF PolicyInv, PolicyShapes, PolicyTypeOK
<1>3. banChannel' \in Seq(Ips) /\ Len(banChannel') <= ChannelSize
  BY <1>1, <1>2
<1>4. /\ whitelist' \subseteq Ips /\ overlapped' \subseteq Sessions
      /\ reset' \in [pc : {"idle", "next", "clear", "drop"}, todo : SUBSET Ips,
                     ip : Ips \cup {Idle.ip}, expired : BOOLEAN, silent : BOOLEAN]
  BY <1>1 DEF PolicyInv, PolicyTypeOK, PolicyShapes
<1>5. HoldsTableObject' /\ ResetIsDue'
  BY <1>1 DEF PolicyInv, HoldsTableObject, ResetIsDue
<1> QED
  BY <1>1, <1>3, <1>4, <1>5, ObjectsKept

LEMMA RefreshStateStep ==
  ASSUME PolicyInv, NEW list \in SUBSET Ips, RefreshState(list)
  PROVE  PolicyInv'
<1>1. /\ UNCHANGED <<stats, obj, banChannel, pc, ptr, acceptVars, reset, sentence, overlapped, connects>>
      /\ whitelist' \subseteq Ips
  BY DEF RefreshState, histVars
<1>2. /\ banChannel' \in Seq(Ips) /\ Len(banChannel') <= ChannelSize
      /\ overlapped' \subseteq Sessions
      /\ reset' \in [pc : {"idle", "next", "clear", "drop"}, todo : SUBSET Ips,
                     ip : Ips \cup {Idle.ip}, expired : BOOLEAN, silent : BOOLEAN]
  BY <1>1 DEF PolicyInv, PolicyTypeOK, PolicyShapes
<1>3. HoldsTableObject' /\ ResetIsDue'
  BY <1>1 DEF PolicyInv, HoldsTableObject, ResetIsDue
<1> QED
  BY <1>1, <1>2, <1>3, ObjectsKept

\* Whoever has an object now is overlapped.
LEMMA LockStatsStep == PolicyInv /\ LockStats => PolicyInv'
<1> SUFFICES ASSUME PolicyInv, LockStats PROVE PolicyInv'
  OBVIOUS
<1>1. /\ UNCHANGED <<stats, obj, whitelist, banChannel, pc, ptr, acceptVars, sentence, connects>>
      /\ reset' = [reset EXCEPT !.pc = "next", !.todo = {i \in Ips : stats[i] # 0}]
      /\ overlapped' = {s \in Sessions : pc[s] # "idle"}
  BY DEF LockStats
<1>2. /\ whitelist' \subseteq Ips /\ overlapped' \subseteq Sessions
      /\ banChannel' \in Seq(Ips) /\ Len(banChannel') <= ChannelSize
  BY <1>1 DEF PolicyInv, PolicyTypeOK, PolicyShapes
<1>3. /\ reset' \in [pc : {"idle", "next", "clear", "drop"}, todo : SUBSET Ips,
                     ip : Ips \cup {Idle.ip}, expired : BOOLEAN, silent : BOOLEAN]
      /\ reset'.pc = "next" /\ reset'.todo = {i \in Ips : stats[i] # 0}
  BY <1>1 DEF PolicyInv, PolicyShapes
<1>4. HoldsTableObject'
  BY <1>1 DEF HoldsTableObject
<1>5. ResetIsDue'
  BY <1>1, <1>3 DEF ResetIsDue
<1> QED
  BY <1>1, <1>2, <1>3, <1>4, <1>5, ObjectsKept

\* A ban that expired was served; so was any of an address that is silent.
LEMMA LoadTimesStep ==
  ASSUME PolicyInv, NEW i \in Ips, LoadTimes(i)
  PROVE  PolicyInv'
<1> DEFINE x == obj[stats[i]]
<1>1. /\ UNCHANGED <<stats, obj, whitelist, banChannel, pc, ptr, acceptVars, sentence, connects, overlapped>>
      /\ reset.pc = "next" /\ i \in reset.todo
      /\ reset' = [pc |-> "clear", todo |-> reset.todo \ {i}, ip |-> i,
                   expired |-> x.banAge >= Timeout, silent |-> x.beatAge >= ResetInterval]
  BY DEF LoadTimes, Expired, histVars
<1>2. stats[i] \in ObjIds /\ x \in Objects
  <2>1. stats[i] # 0
    BY <1>1 DEF PolicyInv, ResetIsDue
  <2> QED
    BY <2>1, PolicyTypes
<1>3. /\ whitelist' \subseteq Ips /\ overlapped' \subseteq Sessions
      /\ banChannel' \in Seq(Ips) /\ Len(banChannel') <= ChannelSize
      /\ reset.todo \subseteq Ips
  BY <1>1 DEF PolicyInv, PolicyTypeOK, PolicyShapes
<1>4. x.beatAge \in Int /\ x.banAge \in Int
  BY <1>2 DEF Objects
<1>5. (x.banAge >= Timeout) \in BOOLEAN /\ (x.beatAge >= ResetInterval) \in BOOLEAN
  OBVIOUS
<1>6. x.banAge >= Timeout \/ x.beatAge >= ResetInterval => sentence[i] = 0
  <2>1. x.beatAge <= x.banAge \/ x.banAge = Timeout
    BY <1>2 DEF PolicyInv, SeenSinceBan
  <2>2. sentence[i] > 0 => sentence[i] + x.banAge <= Timeout
    BY DEF PolicyInv, Served
  <2>3. sentence[i] \in 0..Timeout
    BY PolicyTypes
  <2> HIDE DEF x
  <2> QED
    BY <1>4, <2>1, <2>2, <2>3, PolicyConstants
<1> HIDE DEF x
<1>7. reset' \in [pc : {"idle", "next", "clear", "drop"}, todo : SUBSET Ips,
                  ip : Ips \cup {Idle.ip}, expired : BOOLEAN, silent : BOOLEAN]
  BY <1>1, <1>3, <1>5
<1>8. HoldsTableObject'
  BY <1>1 DEF PolicyInv, HoldsTableObject
<1>9. ResetIsDue'
  <2>1. /\ reset'.pc = "clear" /\ reset'.todo = reset.todo \ {i} /\ reset'.ip = i
        /\ reset'.expired = (x.banAge >= Timeout)
        /\ reset'.silent = (x.beatAge >= ResetInterval)
    BY <1>1
  <2>2. \A j \in reset.todo : stats[j] # 0
    BY <1>1 DEF PolicyInv, ResetIsDue
  <2> QED
    BY <1>1, <1>6, <2>1, <2>2 DEF ResetIsDue
<1> QED
  BY <1>1, <1>3, <1>7, <1>8, <1>9, ObjectsKept

LEMMA UnlockStatsStep == PolicyInv /\ UnlockStats => PolicyInv'
<1> SUFFICES ASSUME PolicyInv, UnlockStats PROVE PolicyInv'
  OBVIOUS
<1>1. /\ UNCHANGED <<stats, obj, whitelist, banChannel, pc, ptr, acceptVars, sentence, connects, overlapped>>
      /\ reset.pc = "next" /\ reset' = Idle
  BY DEF UnlockStats, histVars
<1>2. /\ whitelist' \subseteq Ips /\ overlapped' \subseteq Sessions
      /\ banChannel' \in Seq(Ips) /\ Len(banChannel') <= ChannelSize
  BY <1>1 DEF PolicyInv, PolicyTypeOK, PolicyShapes
<1>3. /\ reset' \in [pc : {"idle", "next", "clear", "drop"}, todo : SUBSET Ips,
                     ip : Ips \cup {Idle.ip}, expired : BOOLEAN, silent : BOOLEAN]
      /\ reset'.pc = "idle"
  BY <1>1 DEF Idle
<1>4. HoldsTableObject'
  BY <1>1 DEF PolicyInv, HoldsTableObject
<1>5. ResetIsDue'
  BY <1>3 DEF ResetIsDue
<1> QED
  BY <1>1, <1>2, <1>3, <1>4, <1>5, ObjectsKept

\* A tick takes as much from a sentence as it adds to the age of the ban.
LEMMA TickStep == PolicyInv /\ Tick => PolicyInv'
<1> SUFFICES ASSUME PolicyInv, Tick PROVE PolicyInv'
  OBVIOUS
<1> DEFINE older(o) == [obj[o] EXCEPT !.beatAge = Older(obj[o].beatAge, ResetInterval),
                                      !.banAge = Older(obj[o].banAge, Timeout)]
<1>1. /\ UNCHANGED <<stats, whitelist, pc, ptr, acceptVars, reset, banChannel, overlapped, connects>>
      /\ reset.pc = "idle" /\ \A s \in Sessions : pc[s] \in {"idle", "send"}
      /\ obj' = [o \in ObjIds |-> IF InUse(o) THEN older(o) ELSE NewStats]
      /\ sentence' = [i \in Ips |-> IF sentence[i] > 0 THEN sentence[i] - 1 ELSE 0]
  BY DEF Tick
<1>2. ASSUME NEW o \in ObjIds
      PROVE  /\ older(o) \in Objects /\ older(o).banned = obj[o].banned
             /\ older(o).valid = obj[o].valid /\ older(o).invalid = obj[o].invalid
             /\ older(o).limit = obj[o].limit
             /\ older(o).banAge <= obj[o].banAge + 1
             /\ older(o).beatAge <= older(o).banAge \/ older(o).banAge = Timeout
  <2> DEFINE x == obj[o]
             beat == Older(x.beatAge, ResetInterval)
             ban == Older(x.banAge, Timeout)
  <2>1. x \in Objects /\ (x.beatAge <= x.banAge \/ x.banAge = Timeout)
    BY PolicyTypes DEF PolicyInv, SeenSinceBan
  <2>2. older(o) = [x EXCEPT !.beatAge = beat, !.banAge = ban]
    OBVIOUS
  <2> HIDE DEF x, older
  <2>3. x.beatAge \in 0..ResetInterval /\ x.banAge \in 0..Timeout
    BY <2>1 DEF Objects
  <2>4. /\ beat \in 0..ResetInterval /\ ban \in 0..Timeout /\ ban <= x.banAge + 1
        /\ beat <= ban \/ ban = Timeout
    BY <2>1, <2>3, PolicyConstants DEF Older
  <2> HIDE DEF beat, ban
  <2>5. older(o) = [beatAge |-> beat, banAge |-> ban, banned |-> x.banned, valid |-> x.valid,
                    invalid |-> x.invalid, malformed |-> x.malformed, limit |-> x.limit]
    BY <2>1, <2>2 DEF Objects
  <2>6. older(o) \in Objects
    BY <2>1, <2>4, <2>5 DEF Objects
  <2> QED
    BY <2>4, <2>5, <2>6 DEF x
<1> HIDE DEF older
<1>3. obj' \in [ObjIds -> Objects]
  BY <1>1, <1>2, NewStatsTyped
<1>4. \A o \in ObjIds : InUse(o)' <=> InUse(o)
  BY <1>1 DEF InUse, acceptVars
<1>5. /\ sentence' \in [Ips -> 0..Timeout]
      /\ \A i \in Ips : sentence'[i] > 0 => sentence[i] > 0 /\ sentence'[i] = sentence[i] - 1
  <2>1. \A i \in Ips : sentence[i] \in 0..Timeout
    BY PolicyTypes
  <2> QED
    BY <1>1, <2>1, PolicyConstants
<1>6. PolicyTypeOK'
  BY <1>1, <1>3, <1>5 DEF PolicyInv, PolicyTypeOK, Objects, acceptVars
<1>7. PolicyShapes'
  BY <1>1 DEF PolicyInv, PolicyShapes
<1>8. HoldsTableObject'
  BY <1>1 DEF PolicyInv, HoldsTableObject
<1>9. JustSeen'
  BY <1>1 DEF JustSeen, Active, Operations
<1>10. SeenSinceBan'
  <2> SUFFICES ASSUME NEW o \in ObjIds
               PROVE  obj'[o].beatAge <= obj'[o].banAge \/ obj'[o].banAge = Timeout
    BY DEF SeenSinceBan
  <2>1. CASE InUse(o)
    BY <1>1, <1>2, <2>1
  <2>2. CASE ~InUse(o)
    BY <1>1, <2>2 DEF NewStats
  <2> QED
    BY <2>1, <2>2
<1>11. Served'
  <2> SUFFICES ASSUME NEW i \in Ips, sentence'[i] > 0
               PROVE  /\ stats[i] # 0 /\ obj'[stats[i]].banned
                      /\ sentence'[i] + obj'[stats[i]].banAge <= Timeout
    BY <1>1 DEF Served
  <2>1. /\ stats[i] # 0 /\ stats[i] \in ObjIds /\ obj[stats[i]].banned
        /\ sentence[i] + obj[stats[i]].banAge <= Timeout
    BY <1>5, PolicyTypes DEF PolicyInv, Served
  <2>2. InUse(stats[i])
    BY DEF InUse
  <2>3. obj'[stats[i]] = older(stats[i])
    BY <1>1, <2>1, <2>2
  <2>4. /\ obj'[stats[i]].banned /\ obj'[stats[i]].banAge <= obj[stats[i]].banAge + 1
        /\ sentence'[i] = sentence[i] - 1
    BY <1>2, <1>5, <2>1, <2>3
  <2>5. /\ obj'[stats[i]].banAge \in Int /\ obj[stats[i]].banAge \in Int /\ sentence[i] \in Int
    BY <1>3, <2>1, PolicyTypes DEF Objects
  <2> QED
    BY <2>1, <2>4, <2>5, PolicyConstants
<1>12. ResetIsDue'
  BY <1>1 DEF ResetIsDue
<1>13. WindowOfAll'
  <2> SUFFICES ASSUME NEW o \in ObjIds PROVE obj'[o].valid + obj'[o].invalid < CheckThreshold
    BY DEF WindowOfAll
  <2>1. CASE InUse(o)
    BY <1>1, <1>2, <2>1 DEF PolicyInv, WindowOfAll
  <2>2. CASE ~InUse(o)
    BY <1>1, <2>2, PolicyConstants DEF NewStats
  <2> QED
    BY <2>1, <2>2
<1>14. LimitOfAll'
  <2> SUFFICES ASSUME NEW o \in ObjIds, InUse(o) PROVE Spends(o)'
    BY <1>4 DEF LimitOfAll
  <2>1. Spends(o) /\ obj'[o].limit = obj[o].limit /\ connects'[o] = connects[o]
    BY <1>1, <1>2 DEF PolicyInv, LimitOfAll
  <2> QED
    BY <2>1, SpendsSame
<1> QED
  BY <1>6, <1>7, <1>8, <1>9, <1>10, <1>11, <1>12, <1>13, <1>14 DEF PolicyInv

\* Whom resetStats is at has an object and, if its ban is dropped, served it.
LEMMA ResetObject ==
  ASSUME PolicyInv, reset.pc \in {"clear", "drop"}
  PROVE  /\ reset.ip \in Ips \ reset.todo /\ reset.todo \subseteq Ips
         /\ stats[reset.ip] \in ObjIds /\ obj[stats[reset.ip]] \in Objects
         /\ reset.expired \/ reset.silent => sentence[reset.ip] = 0
         /\ \A s \in Sessions : pc[s] # "idle" => s \in overlapped
         /\ \A j \in Ips : stats[j] = stats[reset.ip] => j = reset.ip
<1>1. /\ reset.ip \in Ips \ reset.todo /\ stats[reset.ip] # 0
      /\ reset.expired \/ reset.silent => sentence[reset.ip] = 0
  BY DEF PolicyInv, ResetIsDue
<1>2. reset.todo \subseteq Ips
  BY DEF PolicyInv, PolicyTypeOK
<1>3. \A s \in Sessions : pc[s] # "idle" => s \in overlapped
  BY DEF PolicyInv, HoldsTableObject
<1> QED
  BY <1>1, <1>2, <1>3, PolicyTypes

LEMMA ClearBannedAtStep == PolicyInv /\ ClearBannedAt => PolicyInv'
<1> SUFFICES ASSUME PolicyInv, ClearBannedAt PROVE PolicyInv'
  OBVIOUS
<1> DEFINE o == stats[reset.ip]
           x == [obj[o] EXCEPT !.banAge = Timeout]
<1>1. /\ UNCHANGED <<stats, whitelist, pc, ptr, acceptVars, banChannel, sentence, overlapped, connects>>
      /\ reset.pc = "clear" /\ reset' = [reset EXCEPT !.pc = "drop"]
      /\ obj' = IF reset.expired THEN [obj EXCEPT ![o] = x] ELSE obj
  BY DEF ClearBannedAt, histVars
<1>2. /\ reset.ip \in Ips \ reset.todo /\ reset.todo \subseteq Ips
      /\ o \in ObjIds /\ obj[o] \in Objects
      /\ reset.expired \/ reset.silent => sentence[reset.ip] = 0
      /\ \A s \in Sessions : pc[s] # "idle" => s \in overlapped
      /\ \A j \in Ips : stats[j] = o => j = reset.ip
  BY <1>1, ResetObject
<1> HIDE DEF o
<1>3. /\ x \in Objects /\ x.banAge = Timeout /\ x.beatAge = obj[o].beatAge
      /\ x.banned = obj[o].banned /\ x.valid = obj[o].valid /\ x.invalid = obj[o].invalid
      /\ x.limit = obj[o].limit
  BY <1>2, PolicyConstants DEF Objects
<1> HIDE DEF x
<1>4. /\ obj' \in [ObjIds -> Objects] /\ \A p \in ObjIds : p # o => obj'[p] = obj[p]
      /\ obj'[o] = IF reset.expired THEN x ELSE obj[o]
  BY <1>1, <1>2, <1>3, PolicyTypes
<1>5. \A p \in ObjIds :
        /\ obj'[p].beatAge = obj[p].beatAge /\ obj'[p].limit = obj[p].limit
        /\ obj'[p].valid = obj[p].valid /\ obj'[p].invalid = obj[p].invalid
        /\ obj'[p].banned = obj[p].banned
        /\ obj'[p].banAge = Timeout \/ obj'[p].banAge = obj[p].banAge
  BY <1>3, <1>4
<1>6. /\ reset' \in [pc : {"idle", "next", "clear", "drop"}, todo : SUBSET Ips,
                     ip : Ips \cup {Idle.ip}, expired : BOOLEAN, silent : BOOLEAN]
      /\ reset'.pc = "drop" /\ reset'.todo = reset.todo /\ reset'.ip = reset.ip
      /\ reset'.expired = reset.expired /\ reset'.silent = reset.silent
  BY <1>1 DEF PolicyInv, PolicyShapes
<1>7. PolicyTypeOK'
  BY <1>1, <1>4, <1>6 DEF PolicyInv, PolicyTypeOK, Objects, acceptVars
<1>8. PolicyShapes'
  BY <1>1, <1>6 DEF PolicyInv, PolicyShapes
<1>9. HoldsTableObject' /\ ResetIsDue'
  BY <1>1, <1>2, <1>6 DEF PolicyInv, HoldsTableObject, ResetIsDue
<1>10. JustSeen'
  <2>1. \A s \in Sessions : pc[s] \in Active => ptr[s] \in ObjIds
    BY PolicyTypes DEF Active, Operations
  <2> QED
    BY <1>1, <1>5, <2>1 DEF PolicyInv, JustSeen
<1>11. SeenSinceBan' /\ WindowOfAll'
  BY <1>5 DEF PolicyInv, SeenSinceBan, WindowOfAll
<1>12. Served'
  <2> SUFFICES ASSUME NEW i \in Ips, sentence[i] > 0
               PROVE  /\ stats[i] # 0 /\ obj'[stats[i]].banned
                      /\ sentence[i] + obj'[stats[i]].banAge <= Timeout
    BY <1>1 DEF Served
  <2>1. /\ stats[i] # 0 /\ stats[i] \in ObjIds /\ obj[stats[i]].banned
        /\ sentence[i] + obj[stats[i]].banAge <= Timeout
    BY PolicyTypes DEF PolicyInv, Served
  <2>2. obj'[stats[i]] = obj[stats[i]]
    <3>1. CASE i = reset.ip
      <4>1. ~reset.expired
        BY <1>2, <3>1
      <4> QED
        BY <1>1, <4>1
    <3>2. CASE i # reset.ip
      BY <1>2, <1>4, <2>1, <3>2
    <3> QED
      BY <3>1, <3>2
  <2> QED
    BY <2>1, <2>2
<1>13. \A p \in ObjIds : InUse(p)' => InUse(p)
  BY <1>1 DEF InUse, acceptVars
<1>14. LimitOfAll'
  BY <1>1, <1>5, <1>13, SpendsSame DEF PolicyInv, LimitOfAll
<1> QED
  BY <1>7, <1>8, <1>9, <1>10, <1>11, <1>12, <1>14 DEF PolicyInv

LEMMA DropBanStep == PolicyInv /\ DropBan => PolicyInv'
<1> SUFFICES ASSUME PolicyInv, DropBan PROVE PolicyInv'
  OBVIOUS
<1> DEFINE o == stats[reset.ip]
           dropped == reset.expired /\ WasBanned(obj[o])
           x == [obj[o] EXCEPT !.banned = FALSE]
<1>1. /\ UNCHANGED <<whitelist, pc, ptr, acceptVars, banChannel, sentence, overlapped, connects>>
      /\ reset.pc = "drop" /\ reset' = [reset EXCEPT !.pc = "next"]
      /\ obj' = IF dropped THEN [obj EXCEPT ![o] = x] ELSE obj
      /\ stats' = IF dropped \/ reset.silent THEN [stats EXCEPT ![reset.ip] = 0] ELSE stats
  BY DEF DropBan, histVars
<1>2. /\ reset.ip \in Ips \ reset.todo /\ reset.todo \subseteq Ips
      /\ o \in ObjIds /\ obj[o] \in Objects
      /\ reset.expired \/ reset.silent => sentence[reset.ip] = 0
      /\ \A s \in Sessions : pc[s] # "idle" => s \in overlapped
      /\ \A j \in Ips : stats[j] = o => j = reset.ip
  BY <1>1, ResetObject
<1>3. dropped \/ reset.silent => sentence[reset.ip] = 0
  BY <1>2
<1> HIDE DEF o, dropped
<1>4. /\ x \in Objects /\ x.banAge = obj[o].banAge /\ x.beatAge = obj[o].beatAge
      /\ x.valid = obj[o].valid /\ x.invalid = obj[o].invalid /\ x.limit = obj[o].limit
  BY <1>2 DEF Objects
<1> HIDE DEF x
<1>5. /\ obj' \in [ObjIds -> Objects] /\ \A p \in ObjIds : p # o => obj'[p] = obj[p]
      /\ obj'[o] = IF dropped THEN x ELSE obj[o]
  BY <1>1, <1>2, <1>4, PolicyTypes
<1>6. \A p \in ObjIds :
        /\ obj'[p].beatAge = obj[p].beatAge /\ obj'[p].limit = obj[p].limit
        /\ obj'[p].valid = obj[p].valid /\ obj'[p].invalid = obj[p].invalid
        /\ obj'[p].banAge = obj[p].banAge
  BY <1>4, <1>5
<1>7. /\ stats' \in [Ips -> ObjIds \cup {0}]
      /\ \A i \in Ips : i # reset.ip => stats'[i] = stats[i]
      /\ stats'[reset.ip] = 0 \/ (stats'[reset.ip] = o /\ ~dropped /\ ~reset.silent)
  BY <1>1, <1>2, PolicyTypes DEF o
<1>8. \A i, j \in Ips : stats'[i] = stats'[j] /\ stats'[i] # 0 => i = j
  BY <1>2, <1>7, PolicyTypes DEF o
<1>9. /\ reset' \in [pc : {"idle", "next", "clear", "drop"}, todo : SUBSET Ips,
                     ip : Ips \cup {Idle.ip}, expired : BOOLEAN, silent : BOOLEAN]
      /\ reset'.pc = "next" /\ reset'.todo = reset.todo
  BY <1>1 DEF PolicyInv, PolicyShapes
<1>10. PolicyTypeOK'
  BY <1>1, <1>5, <1>7, <1>8, <1>9 DEF PolicyInv, PolicyTypeOK, Objects, acceptVars
<1>11. PolicyShapes'
  BY <1>1, <1>9 DEF PolicyInv, PolicyShapes
<1>12. HoldsTableObject'
  BY <1>1, <1>2 DEF HoldsTableObject
<1>13. ResetIsDue'
  <2>1. \A i \in reset.todo : stats[i] # 0 /\ stats'[i] = stats[i]
    BY <1>1, <1>2, <1>7 DEF PolicyInv, ResetIsDue
  <2> QED
    BY <1>9, <2>1 DEF ResetIsDue
<1>14. JustSeen'
  <2>1. \A s \in Sessions : pc[s] \in Active => ptr[s] \in ObjIds
    BY PolicyTypes DEF Active, Operations
  <2> QED
    BY <1>1, <1>6, <2>1 DEF PolicyInv, JustSeen
<1>15. SeenSinceBan' /\ WindowOfAll'
  BY <1>6 DEF PolicyInv, SeenSinceBan, WindowOfAll
<1>16. Served'
  <2> SUFFICES ASSUME NEW i \in Ips, sentence[i] > 0
               PROVE  /\ stats'[i] # 0 /\ obj'[stats'[i]].banned
                      /\ sentence[i] + obj'[stats'[i]].banAge <= Timeout
    BY <1>1 DEF Served
  <2>1. /\ stats[i] # 0 /\ stats[i] \in ObjIds /\ obj[stats[i]].banned
        /\ sentence[i] + obj[stats[i]].banAge <= Timeout
    BY PolicyTypes DEF PolicyInv, Served
  <2>2. stats'[i] = stats[i] /\ obj'[stats[i]] = obj[stats[i]]
    <3>1. CASE i = reset.ip
      <4>1. ~dropped /\ ~reset.silent
        BY <1>3, <3>1
      <4> QED
        BY <1>1, <4>1
    <3>2. CASE i # reset.ip
      BY <1>2, <1>5, <1>7, <2>1, <3>2
    <3> QED
      BY <3>1, <3>2
  <2> QED
    BY <2>1, <2>2
<1>17. \A p \in ObjIds : InUse(p)' => InUse(p)
  <2> SUFFICES ASSUME NEW p \in ObjIds, InUse(p)' PROVE InUse(p)
    OBVIOUS
  <2>1. \A i \in Ips : stats'[i] = p => stats[i] = p
    BY <1>7, PolicyConstants DEF o
  <2> QED
    BY <1>1, <2>1 DEF InUse, acceptVars
<1>18. LimitOfAll'
  BY <1>1, <1>6, <1>17, SpendsSame DEF PolicyInv, LimitOfAll
<1> QED
  BY <1>10, <1>11, <1>12, <1>13, <1>14, <1>15, <1>16, <1>18 DEF PolicyInv

-----------------------------------------------------------------------------

LEMMA PolicyInvInit == PolicyInit => PolicyInv
<1> SUFFICES ASSUME PolicyInit PROVE PolicyInv
  OBVIOUS
<1> USE DEF PolicyInit
<1>1. obj \in [ObjIds -> Objects] /\ \A o \in ObjIds : obj[o] = NewStats
  BY NewStatsTyped
<1>2. PolicyTypeOK
  <2>1. banChannel = <<>> /\ Len(banChannel) = 0 /\ ChannelSize \in Nat
    BY PolicyAssumption
  <2>2. checked \subseteq Ips /\ Cardinality(checked) <= 1
    BY FS_EmptySet
  <2> QED
    BY <1>1, <2>1, <2>2, PolicyConstants DEF PolicyTypeOK, Objects, Idle
<1>3. PolicyShapes
  BY DEF PolicyShapes, Idle
<1>4. HoldsTableObject /\ JustSeen /\ Served
  BY PolicyConstants DEF HoldsTableObject, JustSeen, Served, Active, Operations
<1>5. SeenSinceBan
  BY <1>1 DEF SeenSinceBan, NewStats
<1>6. ResetIsDue
  BY DEF ResetIsDue, Idle
<1>7. WindowOfAll
  BY <1>1, PolicyConstants DEF WindowOfAll, NewStats
<1>8. LimitOfAll
  <2>1. \A o \in ObjIds : ~InUse(o)
    BY PolicyConstants DEF InUse
  <2> QED
    BY <2>1 DEF LimitOfAll
<1> QED
  BY <1>2, <1>3, <1>4, <1>5, <1>6, <1>7, <1>8 DEF PolicyInv

LEMMA PolicyInvNext == PolicyInv /\ [PolicyNext]_policyVars => PolicyInv'
<1> SUFFICES ASSUME PolicyInv, [PolicyNext]_policyVars PROVE PolicyInv'
  OBVIOUS
<1>1. CASE Tick
  BY <1>1, TickStep
<1>2. CASE Worker
  BY <1>2, WorkerStep
<1>3. CASE LockStats
  BY <1>3, LockStatsStep
<1>4. CASE ResetStep
  BY <1>4, LoadTimesStep, ClearBannedAtStep, DropBanStep, UnlockStatsStep DEF ResetStep
<1>5. ASSUME NEW list \in SUBSET Ips, RefreshState(list) PROVE PolicyInv'
  BY <1>5, RefreshStateStep
<1>6. ASSUME NEW i \in Ips, CheckBan(i) \/ ApplyLimitPolicy(i) PROVE PolicyInv'
  BY <1>6, CheckBanStep, ApplyLimitPolicyStep
<1>10. CASE DecrLimit
  BY <1>10, DecrLimitStep
<1>7. ASSUME NEW s \in Sessions, Proceed(s) PROVE PolicyInv'
  <2>1. ASSUME NEW isValid \in BOOLEAN, ApplySharePolicy(s, isValid) PROVE PolicyInv'
    BY <2>1, ApplySharePolicyStep
  <2>2. CASE ApplyMalformedPolicy(s)
    BY <2>2, ApplyMalformedPolicyStep
  <2>3. CASE StoreBannedAt(s)
    BY <2>3, StoreBannedAtStep
  <2>4. CASE SwapBanned(s)
    BY <2>4, SwapBannedStep
  <2>5. CASE Send(s)
    BY <2>5, SendStep
  <2> QED
    BY <1>7, <2>1, <2>2, <2>3, <2>4, <2>5 DEF Proceed
<1>8. ASSUME NEW s \in Sessions, NEW op \in Operations, Begin(s, op) PROVE PolicyInv'
  BY <1>8, BeginStep
<1>9. CASE UNCHANGED policyVars
  <2>1. UNCHANGED <<stats, obj, whitelist, pc, ptr, acceptVars, reset, banChannel,
                    acceptVars, sentence, overlapped, connects>>
    BY <1>9 DEF policyVars, histVars
  <2>2. /\ PolicyTypeOK' /\ PolicyShapes'
    BY <2>1 DEF PolicyInv, PolicyTypeOK, PolicyShapes, acceptVars
  <2>3. HoldsTableObject' /\ ResetIsDue'
    BY <2>1 DEF PolicyInv, HoldsTableObject, ResetIsDue
  <2> QED
    BY <2>1, <2>2, <2>3, ObjectsKept DEF PolicyTypeOK, PolicyShapes
<1> QED
  BY <1>1, <1>2, <1>3, <1>4, <1>5, <1>6, <1>7, <1>8, <1>9, <1>10 DEF PolicyNext, GoOn

\* The strengthened invariant, from which the others follow.
THEOREM PolicyInvariance == PolicySpec => []PolicyInv
BY PolicyInvInit, PolicyInvNext, PTL DEF PolicySpec

\* A ban of policy.go lasts for the banning timeout, for any addresses and
\* sessions and any interval of resetStats that is not below it.
THEOREM BansHold == PolicySpec => []BanHolds
<1>1. PolicyInv => BanHolds
  BY DEF PolicyInv, Served, BanHolds, IsBanned
<1> QED
  BY <1>1, PolicyInvariance, PTL

\* The window of shares is kept through the lookups, counts and judgements of any
\* number of sessions of an address (ApplySharePolicy).
THEOREM CountsAreBounded == PolicySpec => []CountsBounded
<1>1. PolicyInv => CountsBounded
  BY PolicyTypes DEF PolicyInv, WindowOfAll, WindowBounded, CountsBounded
<1> QED
  BY <1>1, PolicyInvariance, PTL

\* The limit of connections holds although sessions raise it between the lookups
\* and the count of the accept loop (ApplyLimitPolicy, incrLimit).
THEOREM LimitHolds == PolicySpec => []LimitEnforced
<1>1. PolicyInv => LimitEnforced
  <2> SUFFICES ASSUME PolicyInv, NEW i \in Ips, stats[i] # 0 PROVE Spends(stats[i])
    BY DEF LimitEnforced, Spends, Earned
  <2>1. stats[i] \in ObjIds /\ InUse(stats[i])
    BY PolicyTypes DEF InUse
  <2> QED
    BY <2>1 DEF PolicyInv, LimitOfAll
<1> QED
  BY <1>1, PolicyInvariance, PTL

=============================================================================
