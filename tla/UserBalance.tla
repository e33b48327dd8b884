------------------------------ MODULE UserBalance ------------------------------
(***************************************************************************)
(* One user's balance row under concurrent calls.  Each reads the row in a *)
(* transaction that locks nothing and saves the whole row.  A call of the  *)
(* user service holds a lock in Redis meanwhile: every kind of call has a  *)
(* lock of its own, and a lock expires.  The order service freezes and     *)
(* unfreezes on the repository directly, and holds none of these locks.    *)
(***************************************************************************)
EXTENDS Integers

CONSTANTS
    Callers,        \* goroutines that serve calls, in any process
    Initial,        \* the balance the account is created with
    Amounts,        \* what a call may ask for: a price below zero makes it negative
    MaxCalls        \* bound: calls that reach the repository

ASSUME BalanceAssumption ==
    /\ Initial \in Nat
    /\ Amounts \subseteq Int
    /\ MaxCalls \in Nat

Kinds == {"freeze", "unfreeze", "deduct", "add"}

\* What the order service calls on the repository without the locks.
UnlockedKinds == {"freeze", "unfreeze"}

VARIABLES
    row,            \* the user's row
    lock,           \* which kinds' lock keys are in Redis
    pc,             \* "idle", "called", "read" (in the transaction), "return"
    keyed,          \* who has set the lock of its kind
    kind,           \* what each caller was called for
    amount,         \* and how much
    seen,           \* the row as its transaction read it
    calls,          \* calls that reached the repository
    saved,          \* ghost: the sum of what each kind has saved
    used,           \* ghost: the kinds that have saved something
    negative,       \* ghost: the kinds that have saved a negative amount
    clash,          \* ghost: transactions that share no lock were open together
    expired         \* ghost: a lock expired under its owner

local == <<keyed, kind, amount, seen>>
ledger == <<saved, used, negative>>
ghosts == <<ledger, clash, expired>>
vars == <<row, lock, pc, local, calls, ghosts>>

Row == [balance : Int, frozen : Int]
Opened == [balance |-> Initial, frozen |-> 0]

\* Variant of Covers: unfreeze looks at the wrong column.
CoversBalance(k, r, a) ==
    CASE k \in {"freeze", "unfreeze"} -> r.balance >= a
      [] k = "deduct" -> r.frozen >= a
      [] k = "add" -> TRUE

\* What the transaction of each kind asks of the row, and makes of it.
Covers(k, r, a) ==
    CASE k = "freeze" -> r.balance >= a
      [] k \in {"unfreeze", "deduct"} -> r.frozen >= a
      [] k = "add" -> TRUE

Result(k, r, a) ==
    CASE k = "freeze" -> [balance |-> r.balance - a, frozen |-> r.frozen + a]
      [] k = "unfreeze" -> [balance |-> r.balance + a, frozen |-> r.frozen - a]
      [] k = "deduct" -> [balance |-> r.balance, frozen |-> r.frozen - a]
      [] k = "add" -> [balance |-> r.balance + a, frozen |-> r.frozen]

Init ==
    /\ row = Opened
    /\ lock = [k \in Kinds |-> FALSE]
    /\ pc = [p \in Callers |-> "idle"]
    /\ keyed = [p \in Callers |-> FALSE]
    /\ kind = [p \in Callers |-> "freeze"]
    /\ amount = [p \in Callers |-> 0]
    /\ seen = [p \in Callers |-> Opened]
    /\ calls = 0
    /\ saved = [k \in Kinds |-> 0]
    /\ used = {} /\ negative = {}
    /\ clash = FALSE /\ expired = FALSE

-----------------------------------------------------------------------------

\* The call of a caller that is free reaches the repository.
Begin(p, k, a) ==
    /\ pc[p] = "idle" /\ calls < MaxCalls
    /\ pc' = [pc EXCEPT ![p] = "called"]
    /\ kind' = [kind EXCEPT ![p] = k]
    /\ amount' = [amount EXCEPT ![p] = a]
    /\ calls' = calls + 1
    /\ UNCHANGED <<row, seen, ghosts>>

\* Variant of Lock: the answer of SetNX is not looked at.
LockAnyway(p, k, a) ==
    /\ Begin(p, k, a)
    /\ lock' = [lock EXCEPT ![k] = TRUE]
    /\ keyed' = [keyed EXCEPT ![p] = TRUE]

\* SetNX; a call that finds the key is answered with a conflict.
Lock(p, k, a) ==
    /\ ~lock[k]
    /\ Begin(p, k, a)
    /\ lock' = [lock EXCEPT ![k] = TRUE]
    /\ keyed' = [keyed EXCEPT ![p] = TRUE]

\* The order service calls the repository.  Its own locks are of an order or of
\* a symbol: they keep no two calls on a balance apart.
CallUnlocked(p, k, a) ==
    /\ k \in UnlockedKinds
    /\ Begin(p, k, a)
    /\ UNCHANGED <<lock, keyed>>

\* Both were called through the lock of their kind.
ShareLock(p, q) == keyed[p] /\ keyed[q] /\ kind[p] = kind[q]

\* The transaction's SELECT, which takes no row lock.
Read(p) ==
    /\ pc[p] = "called"
    /\ pc' = [pc EXCEPT ![p] = "read"]
    /\ seen' = [seen EXCEPT ![p] = row]
    /\ clash' = (clash \/ \E q \in Callers : pc[q] = "read" /\ ~ShareLock(p, q))
    /\ UNCHANGED <<row, lock, keyed, kind, amount, calls, ledger, expired>>

\* What a save adds to the ledger.
Enter(p) ==
    /\ saved' = [saved EXCEPT ![kind[p]] = @ + amount[p]]
    /\ used' = used \cup {kind[p]}
    /\ negative' = IF amount[p] < 0 THEN negative \cup {kind[p]} ELSE negative

\* Variant of Save: only the column that was checked is kept from the reading.
SaveColumns(p) ==
    /\ pc[p] = "read"
    /\ Covers(kind[p], seen[p], amount[p])
    /\ pc' = [pc EXCEPT ![p] = "return"]
    /\ row' = [Result(kind[p], seen[p], amount[p]) EXCEPT !.frozen =
                  Result(kind[p], row, amount[p]).frozen]
    /\ Enter(p)
    /\ UNCHANGED <<lock, local, calls, clash, expired>>

\* Save writes both columns, computed from what was read, and commits.
Save(p) ==
    /\ pc[p] = "read"
    /\ Covers(kind[p], seen[p], amount[p])
    /\ pc' = [pc EXCEPT ![p] = "return"]
    /\ row' = Result(kind[p], seen[p], amount[p])
    /\ Enter(p)
    /\ UNCHANGED <<lock, local, calls, clash, expired>>

\* The row does not cover the amount, or the transaction fails.
Rollback(p) ==
    /\ pc[p] = "read"
    /\ pc' = [pc EXCEPT ![p] = "return"]
    /\ UNCHANGED <<row, lock, local, calls, ghosts>>

\* The call is over, and its variables with it.
End(p) ==
    /\ pc' = [pc EXCEPT ![p] = "idle"]
    /\ keyed' = [keyed EXCEPT ![p] = FALSE]
    /\ kind' = [kind EXCEPT ![p] = "freeze"]
    /\ amount' = [amount EXCEPT ![p] = 0]
    /\ seen' = [seen EXCEPT ![p] = Opened]

\* The deferred Del removes the key, whoever has set it.
Release(p) ==
    /\ pc[p] = "return" /\ keyed[p]
    /\ lock' = [lock EXCEPT ![kind[p]] = FALSE]
    /\ End(p)
    /\ UNCHANGED <<row, calls, ghosts>>

\* A call of the order service has no key to delete.
Return(p) ==
    /\ pc[p] = "return" /\ ~keyed[p]
    /\ End(p)
    /\ UNCHANGED <<row, lock, calls, ghosts>>

Holds(p, k) == keyed[p] /\ kind[p] = k

\* Ten seconds have passed since the key was set.
Expire(k) ==
    /\ lock[k]
    /\ lock' = [lock EXCEPT ![k] = FALSE]
    /\ expired' = (expired \/ \E p \in Callers : Holds(p, k))
    /\ UNCHANGED <<row, pc, local, calls, ledger, clash>>

\* The process that serves the call dies, its transaction is rolled back and its
\* lock stays; or Redis fails under SetNX or Del and leaves the key.
Die(p) ==
    /\ pc[p] # "idle"
    /\ End(p)
    /\ UNCHANGED <<row, lock, calls, ghosts>>

Next ==
    \/ \E p \in Callers :
        \/ \E k \in Kinds, a \in Amounts : Lock(p, k, a) \/ CallUnlocked(p, k, a)
        \/ Read(p) \/ Save(p) \/ Rollback(p)
        \/ Release(p) \/ Return(p) \/ Die(p)
    \/ \E k \in Kinds : Expire(k)

Spec == Init /\ [][Next]_vars

-----------------------------------------------------------------------------
(* What the balance must satisfy *)

\* Every variable has a value of its kind, and only a call in progress has a key.
TypeOK ==
    /\ row \in Row
    /\ lock \in [Kinds -> BOOLEAN]
    /\ pc \in [Callers -> {"idle", "called", "read", "return"}]
    /\ keyed \in [Callers -> BOOLEAN]
    /\ \A p \in Callers : keyed[p] => pc[p] # "idle"
    /\ kind \in [Callers -> Kinds]
    /\ amount \in [Callers -> Int]
    /\ seen \in [Callers -> Row]
    /\ calls \in Nat
    /\ saved \in [Kinds -> Int]
    /\ used \subseteq Kinds /\ negative \subseteq Kinds
    /\ clash \in BOOLEAN /\ expired \in BOOLEAN

\* However many updates are lost, the balance is not overdrawn unless a negative
\* amount was unfrozen or added, nor the frozen balance unless one was frozen: the
\* repository checks the amount against the column it takes it from, and its sign
\* nowhere.
NeverNegative ==
    /\ negative \cap {"unfreeze", "add"} = {} => row.balance >= 0
    /\ "freeze" \notin negative => row.frozen >= 0

\* Freezing and unfreezing alone, which is all the gateway asks for, never make
\* or lose money, whatever the amounts, whatever overlaps and whichever locks
\* expire: each saves both columns from one reading.
TotalConserved ==
    used \cap {"deduct", "add"} = {} => row.balance + row.frozen = Initial

\* The row is the sum of what was saved, unless transactions of two kinds
\* overlapped, or one of the order service overlapped another, or a lock expired
\* under its owner: the locks serialise the user service's calls of one kind,
\* and nothing else.
LedgerExact ==
    ~clash /\ ~expired =>
        /\ row.balance = Initial + saved["add"] + saved["unfreeze"] - saved["freeze"]
        /\ row.frozen = saved["freeze"] - saved["unfreeze"] - saved["deduct"]
=============================================================================
