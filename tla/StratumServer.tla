--------------------------- MODULE StratumServer ---------------------------
(***************************************************************************)
(* Connections and sessions of the stratum server (proxy/stratum.go,        *)
(* proxy/handlers.go).  The accept loop takes a tag from a channel for each  *)
(* connection, a goroutine serves the connection and gives the tag back;     *)
(* handlers, broadcasts and the goroutines that announce a difficulty put    *)
(* sessions into the table and take them out.  What a client sends is        *)
(* abstracted to which handler it reaches and how the handler ends.          *)
(***************************************************************************)
EXTENDS Integers, FiniteSets

CONSTANTS
  Conns,    \* connections, each of which comes once
  MaxConn,  \* stratum.maxConn
  TagRange, \* 2^16: a session keeps its tag as an uint16
  MaxPanics \* bound on the deaths of the process

ASSUME StratumAssumption ==
  /\ MaxConn \in Nat \ {0} /\ TagRange \in Nat \ {0} /\ MaxPanics \in Nat
  /\ MaxConn <= TagRange

Tags == 0..(MaxConn - 1)
NoTag == -1

VARIABLES
  accept,   \* how often each tag is in the channel of free tags
  state,    \* what each connection is at
  tag,      \* the tag its goroutine will give back
  nonce1,   \* the session's extraNonce1, which is its tag at the subscription
  open,     \* connections the server has not closed
  sessions, \* s.sessions
  isAuth,   \* sessions that are authorized
  setters,  \* goroutines that will announce a difficulty
  flooded,  \* history: connections that sent too long a line
  panics

tableVars == <<sessions, isAuth, setters>>
stratumVars == <<accept, state, tag, nonce1, open, tableVars, flooded, panics>>

\* "ended" and "failed": handleTCPClient has returned without and with an error.
Serving == {c \in Conns : state[c] = "serving"}
HasTag == {c \in Conns : state[c] \in {"serving", "ended", "failed"}}

StratumTypeOK ==
  /\ accept \in [Tags -> Nat]
  /\ state \in [Conns -> {"new", "waiting", "serving", "ended", "failed", "gone"}]
  /\ tag \in [Conns -> Tags \cup {NoTag}]
  /\ nonce1 \in [Conns -> 0..(TagRange - 1) \cup {NoTag}]
  /\ open \subseteq Conns /\ sessions \subseteq Conns /\ isAuth \subseteq Conns
  /\ setters \subseteq Conns /\ flooded \subseteq Conns
  /\ panics \in Nat
  /\ \A c \in Conns : tag[c] # NoTag <=> c \in HasTag

StratumInit ==
  /\ accept = [t \in Tags |-> 1]
  /\ state = [c \in Conns |-> "new"]
  /\ tag = [c \in Conns |-> NoTag]
  /\ nonce1 = [c \in Conns |-> NoTag]
  /\ open = {} /\ sessions = {} /\ isAuth = {} /\ setters = {} /\ flooded = {}
  /\ panics = 0

-----------------------------------------------------------------------------
(* The accept loop.                                                         *)

Become(c, s) == state' = [state EXCEPT ![c] = s]

\* One connection at a time; while it waits for a tag no other is accepted.
Accept(c) ==
  /\ state[c] = "new" /\ \A d \in Conns : state[d] # "waiting"
  /\ Become(c, "waiting")
  /\ open' = open \cup {c}
  /\ UNCHANGED <<accept, tag, nonce1, tableVars, flooded, panics>>

\* The address is banned or over its limit of connections.
Refuse(c) ==
  /\ state[c] = "new" /\ \A d \in Conns : state[d] # "waiting"
  /\ Become(c, "gone")
  /\ UNCHANGED <<accept, tag, nonce1, open, tableVars, flooded, panics>>

TakeTag(c) ==
  /\ state[c] = "waiting"
  /\ \E t \in Tags :
       /\ accept[t] > 0
       /\ accept' = [accept EXCEPT ![t] = accept[t] - 1]
       /\ tag' = [tag EXCEPT ![c] = t]
  /\ Become(c, "serving")
  /\ UNCHANGED <<nonce1, open, tableVars, flooded, panics>>

-----------------------------------------------------------------------------
(* handleTCPClient: a line is read and handled. After an error, which every  *)
(* error reply is too, the handler returns it.                               *)

Fail(c) == Become(c, "failed")

NonceOfServer(c) == MaxConn % TagRange
ExtraNonce1(c) == tag[c] % TagRange

\* The reply may fail after the session was registered.
Subscribe(c) ==
  /\ c \in Serving
  /\ sessions' = sessions \cup {c}
  /\ nonce1' = [nonce1 EXCEPT ![c] = ExtraNonce1(c)]
  /\ Fail(c) \/ UNCHANGED state
  /\ UNCHANGED <<accept, tag, open, isAuth, setters, flooded, panics>>

\* A subscription need not have come before.
Authorize(c) ==
  /\ c \in Serving
  /\ isAuth' = isAuth \cup {c}
  /\ setters' = setters \cup {c}
  /\ Fail(c) \/ UNCHANGED state
  /\ UNCHANGED <<accept, tag, nonce1, open, sessions, flooded, panics>>

\* Not subscribed, not authorized, an invalid share that goes too far, an
\* unknown method, a malformed line, a read that fails or takes too long.
Reject(c) ==
  /\ c \in Serving
  /\ Fail(c)
  /\ UNCHANGED <<accept, tag, nonce1, open, tableVars, flooded, panics>>

KeepSession(c) == open' = open \ {c} /\ UNCHANGED sessions
Drop(c) == sessions' = sessions \ {c} /\ open' = open \ {c}

\* At the end of the stream the handler itself cleans up.
Disconnect(c) ==
  /\ c \in Serving
  /\ Drop(c)
  /\ Become(c, "ended")
  /\ UNCHANGED <<accept, tag, nonce1, isAuth, setters, flooded, panics>>

\* ReadLine reports a line that is too long without an error: handleTCPClient
\* bans the address and returns nil, and nobody cleans up.
Flood(c) ==
  /\ c \in Serving
  /\ Become(c, "ended")
  /\ flooded' = flooded \cup {c}
  /\ UNCHANGED <<accept, tag, nonce1, open, tableVars, panics>>

CleanUp(c) ==
  /\ state[c] = "failed"
  /\ Drop(c)
  /\ Become(c, "ended")
  /\ UNCHANGED <<accept, tag, nonce1, isAuth, setters, flooded, panics>>

LoseTag(c) == UNCHANGED accept
PutTwice(c) == accept' = [accept EXCEPT ![tag[c]] = accept[tag[c]] + 2]
PutTag(c) == accept' = [accept EXCEPT ![tag[c]] = accept[tag[c]] + 1]

ForgetTag(c) == tag' = [tag EXCEPT ![c] = NoTag]

ReturnTag(c) ==
  /\ state[c] = "ended"
  /\ PutTag(c)
  /\ ForgetTag(c)
  /\ Become(c, "gone")
  /\ UNCHANGED <<nonce1, open, tableVars, flooded, panics>>

-----------------------------------------------------------------------------
(* Other goroutines.                                                        *)

\* setDifficulty works or its session is taken out of the table, whatever has
\* become of the session by then.
SetDifficulty(c) ==
  /\ c \in setters /\ nonce1[c] # NoTag
  /\ setters' = setters \ {c}
  /\ sessions' = sessions \ {c} \/ UNCHANGED sessions
  /\ UNCHANGED <<accept, state, tag, nonce1, open, isAuth, flooded, panics>>

\* A push of broadcastNewJobs fails; the socket stays to its reader.
PushFails(c) ==
  /\ c \in sessions \cap isAuth
  /\ sessions' = sessions \ {c}
  /\ UNCHANGED <<accept, state, tag, nonce1, open, isAuth, setters, flooded, panics>>

\* A session that was authorized before it subscribed has no target:
\* setDifficulty divides by zero, and the process starts again.
Panic ==
  /\ panics < MaxPanics
  /\ \E c \in setters : nonce1[c] = NoTag
  /\ panics' = panics + 1
  /\ accept' = [t \in Tags |-> 1]
  /\ state' = [c \in Conns |-> IF state[c] = "new" THEN "new" ELSE "gone"]
  /\ tag' = [c \in Conns |-> NoTag] /\ nonce1' = [c \in Conns |-> NoTag]
  /\ open' = {} /\ sessions' = {} /\ isAuth' = {} /\ setters' = {} /\ flooded' = {}

-----------------------------------------------------------------------------

\* What the server does of its own accord.
ServerStep(c) == TakeTag(c) \/ CleanUp(c) \/ ReturnTag(c)

StratumNext ==
  \/ Panic
  \/ \E c \in Conns :
       \/ Accept(c) \/ Refuse(c) \/ ServerStep(c)
       \/ Subscribe(c) \/ Authorize(c) \/ Reject(c) \/ Disconnect(c) \/ Flood(c)
       \/ SetDifficulty(c) \/ PushFails(c)

StratumSpec == StratumInit /\ [][StratumNext]_stratumVars

\* The server's goroutines go on. Clients may stay for ever: every line they send
\* and every job they are pushed renews the deadline of their connection.
StratumFairSpec == StratumSpec /\ \A c \in Conns : WF_stratumVars(ServerStep(c))

-----------------------------------------------------------------------------
(* Properties.                                                              *)

\* Every tag is in the channel once or with one connection, however its
\* handler ended, so the channel never overflows, the accept loop never runs
\* out of tags for good, and no tag is with two connections.
TagsConserved ==
  \A t \in Tags : accept[t] + Cardinality({c \in HasTag : tag[c] = t}) = 1

\* A client that may submit.
Submitter(c) == c \in Serving /\ c \in sessions

\* No two clients that may submit search the same extraNonce1: they would be
\* told of each other's shares that they are duplicates (handleSubscribeRPC).
NoncesDistinct ==
  \A c, d \in Conns : Submitter(c) /\ Submitter(d) /\ nonce1[c] = nonce1[d] => c = d

\* Once a connection has ended it is out of the session table and closed,
\* whichever of the reader, a broadcast and setDifficulty came last, unless it
\* ended with a flood: then both stay for ever.
NothingLeaks ==
  \A c \in Conns : state[c] \in {"ended", "gone"} =>
    c \in flooded \/ c \notin sessions \cup open

\* When a handler returns, however it ended, the connection that waits for a tag is
\* served (accept). It may wait as long as every handler goes on.
WaitingIsServed ==
  \A c, d \in Conns :
    state[c] = "waiting" /\ state[d] \in {"ended", "failed"} ~> state[c] # "waiting"
=============================================================================
