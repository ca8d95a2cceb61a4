---------------------------- MODULE JobBroadcast ----------------------------
(***************************************************************************)
(* How a new job reaches the sessions (broadcastNewJobs, proxy/stratum.go): *)
(* the broadcaster holds the table's read lock while it starts a goroutine   *)
(* per session, slowed down by a channel of bounded capacity; a goroutine    *)
(* whose push fails takes the write lock to remove its session.  Handlers    *)
(* take the same lock to register and to remove theirs.                      *)
(*                                                                          *)
(* sessionsMu is Go's RWMutex: a writer that waits keeps new readers out.    *)
(* The mutex of a session is left out: it is held while a reply or a job is  *)
(* written and no other lock is taken under it.                              *)
(***************************************************************************)
EXTENDS Integers, FiniteSets

CONSTANTS
  Sessions,
  Broadcasters,  \* goroutines of broadcastNewJobs, one per template stored
  Capacity       \* of the channel bcast: 1024

ASSUME BroadcastAssumption == Capacity \in Nat \ {0} /\ IsFiniteSet(Sessions)

VARIABLES
  table,    \* s.sessions
  isAuth,
  broken,   \* sessions whose connection no longer takes data
  readers,  \* broadcasters that hold the read lock
  handler,  \* what the goroutine that serves a session is at
  todo,     \* todo[b]: sessions that b has still to come to
  bcast,    \* bcast[b]: the elements in b's channel
  push,     \* push[<<b, s>>]: the goroutine that pushes b's job to s
  owed      \* history: sessions that b's job has not been written to

vars == <<table, isAuth, broken, readers, handler, todo, bcast, push, owed>>

Pushes == Broadcasters \X Sessions

TypeOK ==
  /\ table \subseteq Sessions /\ isAuth \subseteq Sessions /\ broken \subseteq Sessions
  /\ readers \subseteq Broadcasters
  /\ handler \in [Sessions -> {"out", "register", "in", "remove", "gone"}]
  /\ todo \in [Broadcasters -> SUBSET Sessions]
  /\ bcast \in [Broadcasters -> 0..Capacity]
  /\ push \in [Pushes -> {"none", "send", "sent", "failed", "remove"}]
  /\ owed \in [Broadcasters -> SUBSET Sessions]

Init ==
  /\ table = {} /\ isAuth = {} /\ broken = {} /\ readers = {}
  /\ handler = [s \in Sessions |-> "out"]
  /\ todo = [b \in Broadcasters |-> {}]
  /\ bcast = [b \in Broadcasters |-> 0]
  /\ push = [p \in Pushes |-> "none"]
  /\ owed = [b \in Broadcasters |-> {}]

-----------------------------------------------------------------------------
(* sessionsMu.                                                              *)

WritersWait ==
  \/ \E s \in Sessions : handler[s] \in {"register", "remove"}
  \/ \E p \in Pushes : push[p] = "remove"

CanRead == ~WritersWait
CanWrite == readers = {}

-----------------------------------------------------------------------------
(* The goroutine of a session.                                              *)

Is(s, label) == handler' = [handler EXCEPT ![s] = label]

Call(s, before, label) ==
  /\ handler[s] = before /\ Is(s, label)
  /\ UNCHANGED <<table, isAuth, broken, readers, todo, bcast, push, owed>>

Register(s) ==
  /\ handler[s] = "register" /\ CanWrite
  /\ table' = table \cup {s}
  /\ Is(s, "in")
  /\ UNCHANGED <<isAuth, broken, readers, todo, bcast, push, owed>>

\* Without the lock, also in the middle of a broadcast.
Authorize(s) ==
  /\ handler[s] = "in"
  /\ isAuth' = isAuth \cup {s}
  /\ UNCHANGED <<table, broken, readers, handler, todo, bcast, push, owed>>

Break(s) ==
  /\ broken' = broken \cup {s}
  /\ UNCHANGED <<table, isAuth, readers, handler, todo, bcast, push, owed>>

Remove(s) ==
  /\ handler[s] = "remove" /\ CanWrite
  /\ table' = table \ {s}
  /\ Is(s, "gone")
  /\ UNCHANGED <<isAuth, broken, readers, todo, bcast, push, owed>>

Handle(s) ==
  \/ Call(s, "out", "register") \/ Register(s) \/ Authorize(s)
  \/ Break(s) \/ Call(s, "in", "remove") \/ Remove(s)

-----------------------------------------------------------------------------
(* broadcastNewJobs.                                                        *)

Idle(b) == b \notin readers /\ \A s \in Sessions : push[<<b, s>>] = "none"

Start(b) ==
  /\ Idle(b) /\ CanRead
  /\ readers' = readers \cup {b}
  /\ todo' = [todo EXCEPT ![b] = table]
  /\ owed' = [owed EXCEPT ![b] = table \cap isAuth]
  /\ UNCHANGED <<table, isAuth, broken, handler, bcast, push>>

Skip(b, s) ==
  /\ s \in todo[b] \ isAuth
  /\ todo' = [todo EXCEPT ![b] = todo[b] \ {s}]
  /\ UNCHANGED <<table, isAuth, broken, readers, handler, bcast, push, owed>>

\* The loop waits while the channel is full.
HasRoom(b) == bcast[b] < Capacity

StartPush(b, s) ==
  /\ s \in todo[b] \cap isAuth /\ HasRoom(b)
  /\ todo' = [todo EXCEPT ![b] = todo[b] \ {s}]
  /\ bcast' = [bcast EXCEPT ![b] = bcast[b] + 1]
  /\ push' = [push EXCEPT ![<<b, s>>] = "send"]
  /\ UNCHANGED <<table, isAuth, broken, readers, handler, owed>>

\* The deferred unlock.
LeaveEarly(b) == b \in readers
EndOfLoop(b) == b \in readers /\ todo[b] = {}

Finish(b) ==
  /\ EndOfLoop(b)
  /\ readers' = readers \ {b}
  /\ UNCHANGED <<table, isAuth, broken, handler, todo, bcast, push, owed>>

Push(b, s) ==
  /\ push[<<b, s>>] = "send"
  /\ push' = [push EXCEPT ![<<b, s>>] = IF s \in broken THEN "failed" ELSE "sent"]
  /\ owed' = [owed EXCEPT ![b] = owed[b] \ {s}]
  /\ UNCHANGED <<table, isAuth, broken, readers, handler, todo, bcast>>

Take(b) == bcast' = [bcast EXCEPT ![b] = bcast[b] - 1]
TakeAfterRemoval(b, s) ==
  IF push[<<b, s>>] = "sent" THEN Take(b) ELSE UNCHANGED bcast
\* <-bcast comes before the error is looked at.
TakeFirst(b, s) == Take(b)

Receive(b, s) ==
  /\ push[<<b, s>>] \in {"sent", "failed"}
  /\ TakeFirst(b, s)
  /\ push' = [push EXCEPT ![<<b, s>>] = IF push[<<b, s>>] = "sent" THEN "none" ELSE "remove"]
  /\ UNCHANGED <<table, isAuth, broken, readers, handler, todo, owed>>

RemoveSession(b, s) ==
  /\ push[<<b, s>>] = "remove" /\ CanWrite
  /\ table' = table \ {s}
  /\ push' = [push EXCEPT ![<<b, s>>] = "none"]
  /\ UNCHANGED <<isAuth, broken, readers, handler, todo, bcast, owed>>

-----------------------------------------------------------------------------

BroadcastStep(b) ==
  \/ Finish(b)
  \/ \E s \in Sessions :
       Skip(b, s) \/ StartPush(b, s) \/ Push(b, s) \/ Receive(b, s) \/ RemoveSession(b, s)

Next ==
  \/ \E b \in Broadcasters : Start(b) \/ BroadcastStep(b)
  \/ \E s \in Sessions : Handle(s)

Spec == Init /\ [][Next]_vars

\* One of the goroutines of a broadcast that can go on does; a handler gets the
\* write lock when nobody holds the lock, which stays so as long as it waits.
FairSpec ==
  /\ Spec
  /\ \A b \in Broadcasters : WF_vars(BroadcastStep(b))
  /\ \A s \in Sessions : WF_vars(Register(s) \/ Remove(s))

-----------------------------------------------------------------------------
(* Properties.                                                              *)

\* The channel counts the goroutines that have not come to <-bcast, and no more
\* of them run than it has room for.
ChannelCounts ==
  \A b \in Broadcasters :
    bcast[b] = Cardinality({s \in Sessions : push[<<b, s>>] \in {"send", "sent", "failed"}})

\* When a broadcast is over, every session that was in the table and authorized
\* when it began has had its push, whoever came and went in between.
NobodyForgotten == \A b \in Broadcasters : Idle(b) => owed[b] = {}

\* A broadcast ends and lets go of the lock, however many pushes fail: no
\* goroutine waits for the write lock with its element still in the channel
\* that the broadcaster, who has the read lock, waits to have room in.
BroadcastEnds == \A b \in Broadcasters : b \in readers ~> b \notin readers

\* A session whose handler leaves, or whose push failed, gets out of the table.
RemovalHappens ==
  /\ \A s \in Sessions : handler[s] = "remove" ~> handler[s] = "gone"
  /\ \A p \in Pushes : push[p] = "remove" ~> push[p] = "none"

\* Neither side of the two locks, the table's and the full channel, waits for the
\* other for ever.
NobodyStuck == BroadcastEnds /\ RemovalHappens
=============================================================================
