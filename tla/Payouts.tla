------------------------------ MODULE Payouts ------------------------------
(***************************************************************************)
(* Payouts: the operations on the Redis ledger (storage/redis.go) and the    *)
(* processor that calls them (payouts/payer.go, which is commented out in    *)
(* this version of the program), with crashes, lost answers of Redis and of  *)
(* the node, and the maintenance run that resolves what they leave behind.   *)
(*                                                                          *)
(* Every MULTI is atomic, but its answer may be lost. The lists of payments   *)
(* made (payments:all, payments:<login>), which only the API shows, are left  *)
(* out, and with them what the node does with a transaction.                 *)
(***************************************************************************)
EXTENDS Integers, FiniteSets, Functions

CONSTANTS
  Logins,
  Threshold,    \* PayoutsConfig.Threshold
  Credits,      \* what a credit of the unlocker may add
  MaxCredit,    \* bound on what is credited to a login
  MaxFaults     \* bound on crashes, lost calls and lost answers

ASSUME PayoutsAssumption ==
  /\ Threshold \in Nat /\ MaxCredit \in Nat /\ MaxFaults \in Nat
  /\ Credits \subseteq Nat
  /\ IsFiniteSet(Logins)

VARIABLES
  balance, pending, paid,  \* the fields of miners:<login>
  finances,                \* the same of all
  pendingLog,              \* payments:pending, its members login:amount
  lock,                    \* payments:lock
  pc,                      \* the processor, or the maintenance run
  todo,                    \* the payees, or the rows, it has still to do
  login, amount,           \* the payment it is at
  credited,                \* history: what the unlocker credited
  faults

ledger == <<balance, pending, paid, finances, pendingLog, lock>>
payment == <<login, amount>>
vars == <<ledger, pc, todo, payment, credited, faults>>

Rows == Logins \X Nat
Session == {"pick", "lock", "debit", "send", "log"}
Maintenance == {"rollback", "unlock"}

TypeOK ==
  /\ balance \in [Logins -> Nat] /\ pending \in [Logins -> Nat] /\ paid \in [Logins -> Nat]
  /\ finances \in [balance : Int, pending : Int, paid : Int]
  /\ pendingLog \subseteq Rows
  /\ lock \in BOOLEAN
  /\ pc \in Session \cup Maintenance \cup {"down", "idle", "halted"}
  /\ credited \in [Logins -> Nat] /\ faults \in Nat
  /\ pc \in Session => todo \subseteq Logins
  /\ pc \in {"lock", "debit", "send", "log"} => login \in Logins /\ amount \in Nat \ {0}

Init ==
  /\ balance = [l \in Logins |-> 0] /\ pending = balance /\ paid = balance
  /\ finances = [balance |-> 0, pending |-> 0, paid |-> 0]
  /\ pendingLog = {} /\ lock = FALSE
  /\ pc = "down" /\ todo = {} /\ login = (CHOOSE l \in Logins : TRUE) /\ amount = 0
  /\ credited = balance /\ faults = 0

-----------------------------------------------------------------------------
(* The operations on Redis.                                                 *)

\* The unlocker's HIncrBy, at any time.
Credit(l, n) ==
  /\ credited[l] + n <= MaxCredit
  /\ credited' = [credited EXCEPT ![l] = @ + n]
  /\ balance' = [balance EXCEPT ![l] = @ + n]
  /\ finances' = [finances EXCEPT !.balance = @ + n]
  /\ UNCHANGED <<pending, paid, pendingLog, lock, pc, todo, payment, faults>>

KeepBalance(l, n) == balance
Deducted(l, n) == [balance EXCEPT ![l] = @ - n]

UpdateBalance(l, n) ==
  /\ balance' = Deducted(l, n)
  /\ pending' = [pending EXCEPT ![l] = @ + n]
  /\ finances' = [finances EXCEPT !.balance = @ - n, !.pending = @ + n]
  /\ pendingLog' = pendingLog \cup {<<l, n>>}
  /\ UNCHANGED <<paid, lock>>

KeepTotals(n) == finances
TotalsBack(n) == [finances EXCEPT !.balance = @ + n, !.pending = @ - n]

RollbackBalance(l, n) ==
  /\ balance' = [balance EXCEPT ![l] = @ + n]
  /\ pending' = [pending EXCEPT ![l] = @ - n]
  /\ finances' = TotalsBack(n)
  /\ pendingLog' = pendingLog \ {<<l, n>>}
  /\ UNCHANGED <<paid, lock>>

KeepRow(l, n) == pendingLog
WithoutRow(l, n) == pendingLog \ {<<l, n>>}

WritePayment(l, n) ==
  /\ pending' = [pending EXCEPT ![l] = @ - n]
  /\ paid' = [paid EXCEPT ![l] = @ + n]
  /\ finances' = [finances EXCEPT !.pending = @ - n, !.paid = @ + n]
  /\ pendingLog' = WithoutRow(l, n)
  /\ lock' = FALSE
  /\ UNCHANGED balance

-----------------------------------------------------------------------------
(* The processor.                                                           *)

Goto(label) == pc' = label
Fault == faults < MaxFaults /\ faults' = faults + 1

\* A call of Redis: it is answered, or the call or its answer is lost, which
\* the caller takes for a failure of the call.
Calls(effect, next, failed) ==
  \/ effect /\ Goto(next) /\ UNCHANGED faults
  \/ effect /\ Goto(failed) /\ Fault
  \/ UNCHANGED ledger /\ Goto(failed) /\ Fault

\* GetPendingPayments takes an error for an empty list.
NotLocked == ~lock

Start ==
  /\ pc = "down" /\ NotLocked
  /\ \/ pendingLog = {} /\ UNCHANGED faults
     \/ Fault
  /\ Goto("idle")
  /\ UNCHANGED <<ledger, todo, payment, credited>>

\* GetPayees scans the keys of the miners.
StartSession ==
  /\ pc = "idle" /\ Goto("pick")
  /\ todo' = {l \in Logins : credited[l] > 0}
  /\ UNCHANGED <<ledger, payment, credited, faults>>

reachedThreshold(l) == balance[l] > Threshold

\* A balance that cannot be read counts as nothing.
Skip(l) ==
  /\ pc = "pick" /\ l \in todo
  /\ IF reachedThreshold(l) THEN Fault ELSE UNCHANGED faults
  /\ todo' = todo \ {l}
  /\ UNCHANGED <<ledger, pc, payment, credited>>

Pick(l) ==
  /\ pc = "pick" /\ l \in todo /\ reachedThreshold(l)
  /\ todo' = todo \ {l}
  /\ login' = l /\ amount' = balance[l]
  /\ Goto("lock")
  /\ UNCHANGED <<ledger, credited, faults>>

EndSession ==
  /\ pc = "pick" /\ todo = {} /\ Goto("idle")
  /\ UNCHANGED <<ledger, todo, payment, credited, faults>>

\* Too few peers, or a locked account, ends the session; too little money at the
\* node, or no answer, halts the processor.
CannotPay ==
  /\ pc = "lock" /\ Fault
  /\ Goto("idle") \/ Goto("halted")
  /\ UNCHANGED <<ledger, todo, payment, credited>>

LockKey == TRUE

\* SetNX; its error is ignored and the lock taken to be another's.
LockPayouts ==
  /\ pc = "lock"
  /\ IF lock THEN Goto("halted") /\ UNCHANGED <<ledger, faults>>
     ELSE Calls(lock' = LockKey /\ UNCHANGED <<balance, pending, paid, finances, pendingLog>>,
                "debit", "halted")
  /\ UNCHANGED <<todo, payment, credited>>

Debit ==
  /\ pc = "debit"
  /\ Calls(UpdateBalance(login, amount), "send", "halted")
  /\ UNCHANGED <<todo, payment, credited>>

\* Without an answer, whether or not the node took the transaction, the
\* processor halts.
SendTransaction ==
  /\ pc = "send"
  /\ \/ Goto("log") /\ UNCHANGED faults
     \/ Goto("halted") /\ Fault
  /\ UNCHANGED <<ledger, todo, payment, credited>>

\* The wait for the confirmation of the transaction changes nothing.
Log ==
  /\ pc = "log"
  /\ Calls(WritePayment(login, amount), "pick", "halted")
  /\ UNCHANGED <<todo, payment, credited>>

\* A crash, or the operator stops a halted processor.
Stop ==
  /\ \/ pc = "halted" /\ UNCHANGED faults
     \/ pc # "down" /\ Fault
  /\ Goto("down") /\ todo' = {}
  /\ UNCHANGED <<ledger, payment, credited>>

-----------------------------------------------------------------------------
(* The maintenance run, RESOLVE_PAYOUT=1, and the operator.                 *)

\* The operator runs it for a payment that is not logged and, as far as he can
\* see, not confirmed (docs/PAYOUTS.md:39). It does not ask the node.
resolvePayouts ==
  /\ pc = "down" /\ pendingLog # {}
  /\ todo' = pendingLog /\ Goto("rollback")
  /\ UNCHANGED <<ledger, payment, credited, faults>>

Rollback(row) ==
  /\ pc = "rollback" /\ row \in todo
  /\ todo' = todo \ {row}
  /\ Calls(RollbackBalance(row[1], row[2]), IF todo' = {} THEN "unlock" ELSE "rollback", "down")
  /\ UNCHANGED <<payment, credited>>

UnlockPayouts ==
  /\ pc = "unlock"
  /\ Calls(lock' = FALSE /\ UNCHANGED <<balance, pending, paid, finances, pendingLog>>,
           "down", "down")
  /\ UNCHANGED <<todo, payment, credited>>

\* DEL "eth:payments:lock" when nothing is pending: the maintenance run says
\* "Payouts unlocked" without doing it when it finds no row.
DeleteLock ==
  /\ pc = "down" /\ lock /\ pendingLog = {}
  /\ lock' = FALSE
  /\ UNCHANGED <<balance, pending, paid, finances, pendingLog,
                 pc, todo, payment, credited, faults>>

-----------------------------------------------------------------------------
Step ==
  \/ StartSession \/ EndSession \/ LockPayouts \/ Debit \/ SendTransaction \/ Log
  \/ \E l \in Logins : Skip(l) \/ Pick(l)
Resolve ==
  \/ resolvePayouts \/ UnlockPayouts \/ DeleteLock
  \/ \E row \in todo : Rollback(row)

Next ==
  \/ Start \/ Step \/ Resolve \/ CannotPay \/ Stop
  \/ \E l \in Logins, n \in Credits : Credit(l, n)

Spec == Init /\ [][Next]_vars

-----------------------------------------------------------------------------
(* Properties.                                                              *)

\* What the unlocker credited is in the balance, pending or paid, whatever call
\* or answer is lost and wherever the processor dies.
Conserved == \A l \in Logins : balance[l] + pending[l] + paid[l] = credited[l]

\* The pool's totals are the sums of the miners'.
FinancesAgree ==
  finances = [balance |-> SumFunction(balance),
              pending |-> SumFunction(pending),
              paid |-> SumFunction(paid)]

\* At most one payment is pending, it is what the log says, and payouts are
\* locked while it is: so a processor that cannot read the log (an error reads
\* as an empty log) is still stopped by the lock.
PendingIsLogged ==
  /\ \A l \in Logins : pending[l] # 0 => <<l, pending[l]>> \in pendingLog
  /\ \A row \in pendingLog : row[2] = pending[row[1]]
  /\ \A r1, r2 \in pendingLog : r1 = r2
PendingIsLocked == pendingLog # {} => lock
OnePending == PendingIsLogged /\ PendingIsLocked
=============================================================================
