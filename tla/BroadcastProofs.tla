--------------------------- MODULE BroadcastProofs ---------------------------
(***************************************************************************)
(* Invariance proofs for JobBroadcast, for every finite set of sessions, any *)
(* broadcasters and any capacity: the channel counts the goroutines that     *)
(* push, and a broadcast that is over has pushed to everyone it was for.     *)
(***************************************************************************)
EXTENDS JobBroadcast, FiniteSetTheorems, TLAPS

\* Goroutines of b that have an element in its channel.
Active(b) == {s \in Sessions : push[<<b, s>>] \in {"send", "sent", "failed"}}

\* The loop of b is under way only while it has the read lock, and a session it has
\* still to come to has no goroutine yet.
Loops ==
  \A b \in Broadcasters :
    /\ b \notin readers => todo[b] = {}
    /\ \A s \in todo[b] : push[<<b, s>>] = "none"

\* Who is owed a job is still in the loop, or about to be written to; and it is
\* authorized, so that the loop does not skip it.
OwedAhead ==
  \A b \in Broadcasters : \A s \in owed[b] :
    s \in isAuth /\ (s \in todo[b] \/ push[<<b, s>>] = "send")

IInv == TypeOK /\ ChannelCounts /\ Loops /\ OwedAhead

-----------------------------------------------------------------------------
(* Lemmas.                                                                  *)

\* What the channel of b has is the number of a finite set.
LEMMA Counted ==
  ASSUME ChannelCounts, NEW b \in Broadcasters
  PROVE  IsFiniteSet(Active(b)) /\ bcast[b] = Cardinality(Active(b))
<1>1. IsFiniteSet(Active(b))
  BY BroadcastAssumption, FS_Subset DEF Active
<1> QED
  BY <1>1 DEF ChannelCounts, Active

\* A step that leaves the broadcasts alone, but for sessions that are authorized.
LEMMA HandlerKept ==
  ASSUME IInv, TypeOK', isAuth \subseteq isAuth', UNCHANGED <<readers, todo, bcast, push, owed>>
  PROVE  IInv'
BY DEF IInv, ChannelCounts, Loops, OwedAhead

-----------------------------------------------------------------------------
(* The steps of a session.                                                  *)

LEMMA HandleStep == ASSUME IInv, NEW s \in Sessions, Handle(s) PROVE IInv'
<1>1. ASSUME NEW before, NEW label \in {"out", "register", "in", "remove", "gone"},
             Call(s, before, label)
      PROVE  IInv'
  <2>1. TypeOK'
    BY <1>1 DEF Call, Is, IInv, TypeOK
  <2> QED
    BY <1>1, <2>1, HandlerKept DEF Call
<1>2. CASE Register(s)
  <2>1. TypeOK'
    BY <1>2 DEF Register, Is, IInv, TypeOK
  <2> QED
    BY <1>2, <2>1, HandlerKept DEF Register
<1>3. CASE Authorize(s)
  <2>1. TypeOK'
    BY <1>3 DEF Authorize, IInv, TypeOK
  <2> QED
    BY <1>3, <2>1, HandlerKept DEF Authorize
<1>4. CASE Break(s)
  <2>1. TypeOK'
    BY <1>4 DEF Break, IInv, TypeOK
  <2> QED
    BY <1>4, <2>1, HandlerKept DEF Break
<1>5. CASE Remove(s)
  <2>1. TypeOK'
    BY <1>5 DEF Remove, Is, IInv, TypeOK
  <2> QED
    BY <1>5, <2>1, HandlerKept DEF Remove
<1> QED
  BY <1>1, <1>2, <1>3, <1>4, <1>5 DEF Handle

-----------------------------------------------------------------------------
(* The steps of a broadcast.                                                *)

LEMMA StartStep == ASSUME IInv, NEW b \in Broadcasters, Start(b) PROVE IInv'
<1>1. TypeOK'
  BY DEF Start, IInv, TypeOK
<1>2. ChannelCounts'
  BY DEF Start, IInv, ChannelCounts
<1>3. Loops'
  BY DEF Start, Idle, IInv, TypeOK, Loops
<1>4. OwedAhead'
  BY DEF Start, IInv, TypeOK, OwedAhead
<1> QED
  BY <1>1, <1>2, <1>3, <1>4 DEF IInv

LEMMA FinishStep == ASSUME IInv, NEW b \in Broadcasters, Finish(b) PROVE IInv'
<1>1. TypeOK'
  BY DEF Finish, IInv, TypeOK
<1>2. ChannelCounts' /\ Loops' /\ OwedAhead'
  BY DEF Finish, EndOfLoop, IInv, ChannelCounts, Loops, OwedAhead
<1> QED
  BY <1>1, <1>2 DEF IInv

LEMMA SkipStep ==
  ASSUME IInv, NEW b \in Broadcasters, NEW s \in Sessions, Skip(b, s)
  PROVE  IInv'
<1>1. TypeOK'
  BY DEF Skip, IInv, TypeOK
<1>2. ChannelCounts'
  BY DEF Skip, IInv, ChannelCounts
<1>3. Loops'
  BY DEF Skip, IInv, TypeOK, Loops
<1>4. OwedAhead'
  BY DEF Skip, IInv, TypeOK, OwedAhead
<1> QED
  BY <1>1, <1>2, <1>3, <1>4 DEF IInv

LEMMA StartPushStep ==
  ASSUME IInv, NEW b \in Broadcasters, NEW s \in Sessions, StartPush(b, s)
  PROVE  IInv'
<1>1. s \in todo[b] /\ s \in isAuth /\ bcast[b] \in 0..Capacity /\ bcast[b] < Capacity
  BY DEF StartPush, HasRoom, IInv, TypeOK
<1>2. push[<<b, s>>] = "none" /\ push' = [push EXCEPT ![<<b, s>>] = "send"]
  BY <1>1 DEF StartPush, IInv, Loops
<1>3. push' \in [Pushes -> {"none", "send", "sent", "failed", "remove"}]
  BY <1>2 DEF IInv, TypeOK
<1>4. bcast' = [bcast EXCEPT ![b] = bcast[b] + 1] /\ bcast[b] + 1 \in 0..Capacity
  BY <1>1, BroadcastAssumption DEF StartPush
<1>5. TypeOK'
  <2>1. bcast' \in [Broadcasters -> 0..Capacity]
    BY <1>4 DEF IInv, TypeOK
  <2>2. todo' \in [Broadcasters -> SUBSET Sessions]
    BY DEF StartPush, IInv, TypeOK
  <2> QED
    BY <1>3, <2>1, <2>2 DEF StartPush, IInv, TypeOK
<1>6. ChannelCounts'
  <2> SUFFICES ASSUME NEW a \in Broadcasters
               PROVE  bcast'[a] = Cardinality(Active(a)')
    BY DEF ChannelCounts, Active
  <2>1. IsFiniteSet(Active(a)) /\ bcast[a] = Cardinality(Active(a))
    BY Counted DEF IInv
  <2>2. CASE a = b
    <3>1. Active(a)' = Active(a) \cup {s} /\ s \notin Active(a)
      BY <1>2, <2>2 DEF Active, IInv, TypeOK, Pushes
    <3>2. Cardinality(Active(a)') = Cardinality(Active(a)) + 1
      BY <2>1, <3>1, FS_AddElement
    <3> QED
      BY <1>4, <2>1, <2>2, <3>2 DEF IInv, TypeOK
  <2>3. CASE a # b
    <3>1. Active(a)' = Active(a)
      BY <1>2, <2>3 DEF Active, IInv, TypeOK, Pushes
    <3> QED
      BY <1>4, <2>1, <2>3, <3>1 DEF IInv, TypeOK
  <2> QED
    BY <2>2, <2>3
<1>7. Loops'
  BY <1>1, <1>2 DEF StartPush, IInv, TypeOK, Pushes, Loops
<1>8. OwedAhead'
  <2> SUFFICES ASSUME NEW a \in Broadcasters, NEW u \in owed'[a]
               PROVE  u \in isAuth' /\ (u \in todo'[a] \/ push'[<<a, u>>] = "send")
    BY DEF OwedAhead
  <2>1. u \in owed[a] /\ u \in Sessions /\ isAuth' = isAuth
    BY DEF StartPush, IInv, TypeOK
  <2>2. u \in isAuth /\ (u \in todo[a] \/ push[<<a, u>>] = "send")
    BY <2>1 DEF IInv, OwedAhead
  <2>3. push'[<<a, u>>] = IF a = b /\ u = s THEN "send" ELSE push[<<a, u>>]
    BY <1>2, <2>1 DEF IInv, TypeOK, Pushes
  <2>4. todo'[a] = IF a = b THEN todo[a] \ {s} ELSE todo[a]
    BY DEF StartPush, IInv, TypeOK
  <2> QED
    BY <2>1, <2>2, <2>3, <2>4
<1> QED
  BY <1>5, <1>6, <1>7, <1>8 DEF IInv

LEMMA PushStep ==
  ASSUME IInv, NEW b \in Broadcasters, NEW s \in Sessions, Push(b, s)
  PROVE  IInv'
<1>1. push[<<b, s>>] = "send"
  BY DEF Push
<1>2. PICK done \in {"failed", "sent"} : push' = [push EXCEPT ![<<b, s>>] = done]
  BY DEF Push
<1>3. TypeOK'
  <2>1. push' \in [Pushes -> {"none", "send", "sent", "failed", "remove"}]
    BY <1>2 DEF IInv, TypeOK
  <2>2. owed' \in [Broadcasters -> SUBSET Sessions]
    BY DEF Push, IInv, TypeOK
  <2> QED
    BY <2>1, <2>2 DEF Push, IInv, TypeOK
<1>4. ChannelCounts'
  <2>1. \A a \in Broadcasters : Active(a)' = Active(a)
    BY <1>1, <1>2 DEF Active, IInv, TypeOK, Pushes
  <2>2. UNCHANGED bcast
    BY DEF Push
  <2> QED
    BY <2>1, <2>2 DEF IInv, ChannelCounts, Active
<1>5. Loops'
  BY <1>1, <1>2 DEF Push, IInv, TypeOK, Pushes, Loops
<1>6. OwedAhead'
  <2> SUFFICES ASSUME NEW a \in Broadcasters, NEW u \in owed'[a]
               PROVE  u \in isAuth' /\ (u \in todo'[a] \/ push'[<<a, u>>] = "send")
    BY DEF OwedAhead
  <2>1. u \in owed[a] /\ u \in Sessions /\ isAuth' = isAuth /\ ~(a = b /\ u = s)
    BY DEF Push, IInv, TypeOK
  <2>2. u \in isAuth /\ (u \in todo[a] \/ push[<<a, u>>] = "send")
    BY <2>1 DEF IInv, OwedAhead
  <2>3. push'[<<a, u>>] = IF a = b /\ u = s THEN done ELSE push[<<a, u>>]
    BY <1>2, <2>1 DEF IInv, TypeOK, Pushes
  <2> QED
    BY <2>1, <2>2, <2>3 DEF Push
<1> QED
  BY <1>3, <1>4, <1>5, <1>6 DEF IInv

LEMMA ReceiveStep ==
  ASSUME IInv, NEW b \in Broadcasters, NEW s \in Sessions, Receive(b, s)
  PROVE  IInv'
<1>1. push[<<b, s>>] \in {"sent", "failed"} /\ bcast' = [bcast EXCEPT ![b] = bcast[b] - 1]
  BY DEF Receive, TakeFirst, Take
<1>2. PICK done \in {"none", "remove"} : push' = [push EXCEPT ![<<b, s>>] = done]
  BY DEF Receive
<1>3. /\ IsFiniteSet(Active(b)) /\ bcast[b] = Cardinality(Active(b))
      /\ s \in Active(b) /\ Active(b)' = Active(b) \ {s}
  BY <1>1, <1>2, Counted DEF Active, IInv, TypeOK, Pushes
<1>4. Cardinality(Active(b)') = bcast[b] - 1 /\ Cardinality(Active(b)') \in Nat
  BY <1>3, FS_RemoveElement, FS_CardinalityType
<1>5. TypeOK'
  <2>1. push' \in [Pushes -> {"none", "send", "sent", "failed", "remove"}]
    BY <1>2 DEF IInv, TypeOK
  <2>2. bcast[b] - 1 \in 0..Capacity
    BY <1>4, BroadcastAssumption DEF IInv, TypeOK
  <2>3. bcast' \in [Broadcasters -> 0..Capacity]
    BY <1>1, <2>2 DEF IInv, TypeOK
  <2> QED
    BY <2>1, <2>3 DEF Receive, IInv, TypeOK
<1>6. ChannelCounts'
  <2> SUFFICES ASSUME NEW a \in Broadcasters
               PROVE  bcast'[a] = Cardinality(Active(a)')
    BY DEF ChannelCounts, Active
  <2>1. CASE a = b
    BY <1>1, <1>4, <2>1 DEF IInv, TypeOK
  <2>2. CASE a # b
    <3>1. Active(a)' = Active(a) /\ bcast'[a] = bcast[a]
      BY <1>1, <1>2, <2>2 DEF Active, IInv, TypeOK, Pushes
    <3> QED
      BY <3>1, Counted DEF IInv
  <2> QED
    BY <2>1, <2>2
<1>7. Loops'
  BY <1>1, <1>2 DEF Receive, IInv, TypeOK, Pushes, Loops
<1>8. OwedAhead'
  <2> SUFFICES ASSUME NEW a \in Broadcasters, NEW u \in owed'[a]
               PROVE  u \in isAuth' /\ (u \in todo'[a] \/ push'[<<a, u>>] = "send")
    BY DEF OwedAhead
  <2>1. u \in owed[a] /\ u \in Sessions /\ isAuth' = isAuth
    BY DEF Receive, IInv, TypeOK
  <2>2. u \in isAuth /\ (u \in todo[a] \/ push[<<a, u>>] = "send")
    BY <2>1 DEF IInv, OwedAhead
  <2>3. push'[<<a, u>>] = IF a = b /\ u = s THEN done ELSE push[<<a, u>>]
    BY <1>2, <2>1 DEF IInv, TypeOK, Pushes
  <2>4. todo' = todo /\ (push[<<a, u>>] = "send" => ~(a = b /\ u = s))
    BY <1>1 DEF Receive
  <2> QED
    BY <2>1, <2>2, <2>3, <2>4
<1> QED
  BY <1>5, <1>6, <1>7, <1>8 DEF IInv

LEMMA RemoveSessionStep ==
  ASSUME IInv, NEW b \in Broadcasters, NEW s \in Sessions, RemoveSession(b, s)
  PROVE  IInv'
<1>1. push[<<b, s>>] = "remove" /\ push' = [push EXCEPT ![<<b, s>>] = "none"]
  BY DEF RemoveSession
<1>2. TypeOK'
  BY <1>1 DEF RemoveSession, IInv, TypeOK
<1>3. ChannelCounts'
  <2>1. \A a \in Broadcasters : Active(a)' = Active(a)
    BY <1>1 DEF Active, IInv, TypeOK, Pushes
  <2>2. UNCHANGED bcast
    BY DEF RemoveSession
  <2> QED
    BY <2>1, <2>2 DEF IInv, ChannelCounts, Active
<1>4. Loops'
  BY <1>1 DEF RemoveSession, IInv, TypeOK, Pushes, Loops
<1>5. OwedAhead'
  <2> SUFFICES ASSUME NEW a \in Broadcasters, NEW u \in owed'[a]
               PROVE  u \in isAuth' /\ (u \in todo'[a] \/ push'[<<a, u>>] = "send")
    BY DEF OwedAhead
  <2>1. u \in owed[a] /\ u \in Sessions /\ isAuth' = isAuth
    BY DEF RemoveSession, IInv, TypeOK
  <2>2. u \in isAuth /\ (u \in todo[a] \/ push[<<a, u>>] = "send")
    BY <2>1 DEF IInv, OwedAhead
  <2>3. push'[<<a, u>>] = IF a = b /\ u = s THEN "none" ELSE push[<<a, u>>]
    BY <1>1, <2>1 DEF IInv, TypeOK, Pushes
  <2>4. todo' = todo /\ (push[<<a, u>>] = "send" => ~(a = b /\ u = s))
    BY <1>1 DEF RemoveSession
  <2> QED
    BY <2>1, <2>2, <2>3, <2>4
<1> QED
  BY <1>2, <1>3, <1>4, <1>5 DEF IInv

-----------------------------------------------------------------------------
(* The theorems.                                                            *)

LEMMA InitIInv == Init => IInv
<1> SUFFICES ASSUME Init PROVE IInv
  OBVIOUS
<1>1. TypeOK /\ Loops /\ OwedAhead
  BY BroadcastAssumption DEF Init, TypeOK, Loops, OwedAhead, Pushes
<1>2. ChannelCounts
  <2> SUFFICES ASSUME NEW b \in Broadcasters PROVE bcast[b] = Cardinality(Active(b))
    BY DEF ChannelCounts, Active
  <2>1. Active(b) = {}
    BY DEF Init, Active, Pushes
  <2> QED
    BY <2>1, FS_EmptySet DEF Init
<1> QED
  BY <1>1, <1>2 DEF IInv

LEMMA NextIInv == IInv /\ [Next]_vars => IInv'
<1> SUFFICES ASSUME IInv, [Next]_vars PROVE IInv'
  OBVIOUS
<1>1. CASE UNCHANGED vars
  BY <1>1 DEF vars, IInv, TypeOK, ChannelCounts, Loops, OwedAhead
<1>2. ASSUME NEW b \in Broadcasters, BroadcastStep(b)
      PROVE  IInv'
  BY <1>2, FinishStep, SkipStep, StartPushStep, PushStep, ReceiveStep, RemoveSessionStep
     DEF BroadcastStep
<1> QED
  BY <1>1, <1>2, StartStep, HandleStep DEF Next

\* In every broadcast each session owed the job has a push to come, and the channel
\* counts the pushes under way (broadcastNewJobs).
THEOREM Invariance == Spec => []IInv
BY InitIInv, NextIInv, PTL DEF Spec

\* The state of the broadcasts has its types: no channel holds more than its
\* capacity, and none is emptied by a goroutine that put nothing in
\* (broadcastNewJobs).
THEOREM TypeCorrect == Spec => []TypeOK
<1>1. IInv => TypeOK
  BY DEF IInv
<1> QED
  BY <1>1, Invariance, PTL

\* The channel of a broadcast counts its goroutines (broadcastNewJobs).
THEOREM ChannelIsCount == Spec => []ChannelCounts
<1>1. IInv => ChannelCounts
  BY DEF IInv
<1> QED
  BY <1>1, Invariance, PTL

\* A broadcast that is over has pushed its job to every session that was in the
\* table and authorized when it began, whoever came, was authorized, failed or left
\* in between (broadcastNewJobs).
THEOREM NobodyIsForgotten == Spec => []NobodyForgotten
<1>1. IInv => NobodyForgotten
  <2> SUFFICES ASSUME IInv, NEW b \in Broadcasters, Idle(b), NEW s \in owed[b]
               PROVE  FALSE
    BY DEF NobodyForgotten
  <2>1. todo[b] = {} /\ (s \in todo[b] \/ push[<<b, s>>] = "send") /\ s \in Sessions
    BY DEF Idle, IInv, TypeOK, Loops, OwedAhead
  <2> QED
    BY <2>1 DEF Idle
<1> QED
  BY <1>1, Invariance, PTL
=============================================================================
