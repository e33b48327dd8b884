--------------------------- MODULE UserBalanceProofs ---------------------------
(***************************************************************************)
(* Theorems about UserBalance, for any number of callers and calls, any    *)
(* initial balance and any amounts of either sign.                         *)
(***************************************************************************)
EXTENDS UserBalance, TLAPS

USE BalanceAssumption DEF Kinds, UnlockedKinds, Row, BalanceAssumption

\* What a transaction computes is a row again.
LEMMA ResultType ==
    ASSUME NEW k \in Kinds, NEW r \in Row, NEW a \in Int
    PROVE  Result(k, r, a) \in Row
BY DEF Result

\* The initial state is well typed.
LEMMA InitType == Init => TypeOK
<1> SUFFICES ASSUME Init PROVE TypeOK
  OBVIOUS
<1>1. Opened \in Row
  BY DEF Opened
<1>2. /\ lock \in [Kinds -> BOOLEAN] /\ keyed \in [Callers -> BOOLEAN]
      /\ clash \in BOOLEAN /\ expired \in BOOLEAN
  BY Zenon DEF Init
<1> QED
  BY <1>1, <1>2 DEF Init, TypeOK

\* Every step leads to a well typed state.
LEMMA StepType == TypeOK /\ [Next]_vars => TypeOK'
<1> SUFFICES ASSUME TypeOK, [Next]_vars PROVE TypeOK'
  OBVIOUS
<1> USE DEF TypeOK
<1>1. ASSUME NEW p \in Callers, NEW k \in Kinds, NEW a \in Amounts,
             Lock(p, k, a) \/ CallUnlocked(p, k, a)
      PROVE  TypeOK'
  <2>1. /\ pc' = [pc EXCEPT ![p] = "called"]
        /\ kind' = [kind EXCEPT ![p] = k]
        /\ amount' = [amount EXCEPT ![p] = a]
        /\ calls' = calls + 1
        /\ UNCHANGED <<row, seen, saved, used, negative, clash, expired>>
    BY <1>1 DEF Lock, CallUnlocked, Begin, ghosts, ledger
  <2>2. /\ lock' \in [Kinds -> BOOLEAN] /\ keyed' \in [Callers -> BOOLEAN]
        /\ \A q \in Callers : keyed'[q] => q = p \/ keyed[q]
    <3>1. CASE Lock(p, k, a)
      BY <3>1 DEF Lock
    <3>2. CASE CallUnlocked(p, k, a)
      BY <3>2 DEF CallUnlocked
    <3> QED
      BY <1>1, <3>1, <3>2
  <2>3. ASSUME NEW q \in Callers, keyed'[q] PROVE pc'[q] # "idle"
    BY <2>1, <2>2, <2>3
  <2>4. /\ pc' \in [Callers -> {"idle", "called", "read", "return"}]
        /\ kind' \in [Callers -> Kinds] /\ amount' \in [Callers -> Int]
        /\ calls' \in Nat
    BY <2>1
  <2> QED
    BY <2>1, <2>2, <2>3, <2>4
<1>2. ASSUME NEW p \in Callers, Read(p) PROVE TypeOK'
  BY <1>2 DEF Read, ledger
<1>3. ASSUME NEW p \in Callers, Save(p) PROVE TypeOK'
  <2>1. kind[p] \in Kinds /\ seen[p] \in Row /\ amount[p] \in Int
    OBVIOUS
  <2>2. row' \in Row
    BY <1>3, <2>1, ResultType DEF Save
  <2>3. saved' \in [Kinds -> Int]
    <3>1. saved \in [Kinds -> Int] /\ saved' = [saved EXCEPT ![kind[p]] = @ + amount[p]]
      BY <1>3 DEF Save, Enter
    <3> HIDE DEF TypeOK
    <3> QED
      BY <2>1, <3>1
  <2>4. used' \subseteq Kinds /\ negative' \subseteq Kinds
    BY <1>3, <2>1 DEF Save, Enter
  <2> QED
    BY <1>3, <2>2, <2>3, <2>4 DEF Save, local
<1>4. ASSUME NEW p \in Callers, Rollback(p) PROVE TypeOK'
  BY <1>4 DEF Rollback, local, ghosts, ledger
<1>5. ASSUME NEW p \in Callers, Release(p) PROVE TypeOK'
  BY <1>5 DEF Release, End, Opened, ghosts, ledger
<1>6. ASSUME NEW p \in Callers, Return(p) \/ Die(p) PROVE TypeOK'
  <2>1. End(p) /\ UNCHANGED <<row, lock, calls, saved, used, negative, clash, expired>>
    BY <1>6 DEF Return, Die, ghosts, ledger
  <2> QED
    BY <2>1 DEF End, Opened
<1>7. ASSUME NEW k \in Kinds, Expire(k) PROVE TypeOK'
  <2>1. expired' \in BOOLEAN /\ lock' \in [Kinds -> BOOLEAN]
    BY <1>7, Zenon DEF Expire, Holds
  <2> QED
    BY <1>7, <2>1 DEF Expire, local, ledger
<1>8. CASE UNCHANGED vars
  BY <1>8 DEF vars, local, ghosts, ledger
<1> QED
  BY <1>1, <1>2, <1>3, <1>4, <1>5, <1>6, <1>7, <1>8 DEF Next

\* Every state of the service is well typed.
THEOREM BalanceTypes == Spec => []TypeOK
BY InitType, StepType, PTL DEF Spec

-----------------------------------------------------------------------------
(* Overdrafts: what a transaction has read is not overdrawn either *)

BalanceKept == negative \cap {"unfreeze", "add"} = {}
FrozenKept == "freeze" \notin negative

ReadingsCovered ==
    /\ BalanceKept => row.balance >= 0 /\ \A p \in Callers : seen[p].balance >= 0
    /\ FrozenKept => row.frozen >= 0 /\ \A p \in Callers : seen[p].frozen >= 0

\* A covered amount leaves the column it is taken from as it should be, and the
\* other one unless the amount is negative.
LEMMA ResultCovered ==
    ASSUME NEW k \in Kinds, NEW r \in Row, NEW a \in Int, Covers(k, r, a)
    PROVE  /\ r.balance >= 0 /\ (a >= 0 \/ k \notin {"unfreeze", "add"})
                 => Result(k, r, a).balance >= 0
           /\ r.frozen >= 0 /\ (a >= 0 \/ k # "freeze")
                 => Result(k, r, a).frozen >= 0
<1>1. CASE k = "freeze"
  BY <1>1 DEF Result, Covers
<1>2. CASE k = "unfreeze"
  BY <1>2 DEF Result, Covers
<1>3. CASE k = "deduct"
  BY <1>3 DEF Result, Covers
<1>4. CASE k = "add"
  BY <1>4 DEF Result, Covers
<1> QED
  BY <1>1, <1>2, <1>3, <1>4

\* No step overdraws the row or makes a reading overdrawn.
LEMMA StepCovered ==
    TypeOK /\ ReadingsCovered /\ [Next]_vars => ReadingsCovered'
<1> SUFFICES ASSUME TypeOK, ReadingsCovered, [Next]_vars
             PROVE  ReadingsCovered'
  OBVIOUS
<1> USE DEF TypeOK, ReadingsCovered, BalanceKept, FrozenKept
<1>1. ASSUME NEW p \in Callers, NEW k \in Kinds, NEW a \in Amounts,
             Lock(p, k, a) \/ CallUnlocked(p, k, a)
      PROVE  ReadingsCovered'
  BY <1>1 DEF Lock, CallUnlocked, Begin, ghosts, ledger
<1>2. ASSUME NEW p \in Callers, Read(p) PROVE ReadingsCovered'
  BY <1>2 DEF Read, ledger
<1>3. ASSUME NEW p \in Callers, Save(p) PROVE ReadingsCovered'
  <2>1. kind[p] \in Kinds /\ seen[p] \in Row /\ amount[p] \in Int
    OBVIOUS
  <2>2. /\ Covers(kind[p], seen[p], amount[p])
        /\ row' = Result(kind[p], seen[p], amount[p])
        /\ negative \subseteq negative'
        /\ amount[p] < 0 => kind[p] \in negative'
        /\ seen' = seen
    BY <1>3 DEF Save, Enter, local
  <2>3. BalanceKept' => row'.balance >= 0 /\ \A q \in Callers : seen'[q].balance >= 0
    BY <2>1, <2>2, ResultCovered
  <2>4. FrozenKept' => row'.frozen >= 0 /\ \A q \in Callers : seen'[q].frozen >= 0
    BY <2>1, <2>2, ResultCovered
  <2> QED
    BY <2>3, <2>4
<1>4. ASSUME NEW p \in Callers, Rollback(p) PROVE ReadingsCovered'
  BY <1>4 DEF Rollback, local, ghosts, ledger
<1>5. ASSUME NEW p \in Callers, Release(p) \/ Return(p) \/ Die(p)
      PROVE  ReadingsCovered'
  <2>1. End(p) /\ UNCHANGED <<row, negative>>
    BY <1>5 DEF Release, Return, Die, ghosts, ledger
  <2> QED
    BY <2>1 DEF End, Opened
<1>6. ASSUME NEW k \in Kinds, Expire(k) PROVE ReadingsCovered'
  BY <1>6 DEF Expire, local, ledger
<1>7. CASE UNCHANGED vars
  BY <1>7 DEF vars, local, ghosts, ledger
<1> QED
  BY <1>1, <1>2, <1>3, <1>4, <1>5, <1>6, <1>7 DEF Next

\* Whatever updates are lost to overlapping transactions and expired locks, the
\* balance is not negative unless a negative amount was unfrozen or added, nor
\* the frozen balance unless one was frozen.
THEOREM NeverOverdrawn == Spec => []NeverNegative
<1>1. Init => ReadingsCovered
  BY DEF Init, ReadingsCovered, Opened
<1>2. ReadingsCovered => NeverNegative
  BY DEF ReadingsCovered, BalanceKept, FrozenKept, NeverNegative
<1> QED
  BY <1>1, <1>2, StepCovered, BalanceTypes, PTL DEF Spec

-----------------------------------------------------------------------------
(* Conservation: what a transaction has read has the same sum as the row *)

Sum(r) == r.balance + r.frozen

ReadingsConserve ==
    used \cap {"deduct", "add"} = {} =>
        /\ Sum(row) = Initial
        /\ \A p \in Callers : Sum(seen[p]) = Initial

\* Freezing and unfreezing move money between the columns.
LEMMA ResultConserves ==
    ASSUME NEW k \in {"freeze", "unfreeze"}, NEW r \in Row, NEW a \in Int
    PROVE  Sum(Result(k, r, a)) = Sum(r)
BY DEF Result, Sum, Kinds, Row

\* No step but a deduction or an addition changes the sum.
LEMMA StepConserves ==
    TypeOK /\ ReadingsConserve /\ [Next]_vars => ReadingsConserve'
<1> SUFFICES ASSUME TypeOK, ReadingsConserve, [Next]_vars,
                    used' \cap {"deduct", "add"} = {}
             PROVE  Sum(row)' = Initial /\ \A p \in Callers : Sum(seen'[p]) = Initial
  BY DEF ReadingsConserve, Sum
<1>0. ASSUME used \cap {"deduct", "add"} = {}
      PROVE  Sum(row) = Initial /\ \A p \in Callers : Sum(seen[p]) = Initial
  BY <1>0 DEF ReadingsConserve
<1> DEFINE Goal == Sum(row)' = Initial /\ \A p \in Callers : Sum(seen'[p]) = Initial
<1>1. ASSUME NEW p \in Callers, NEW k \in Kinds, NEW a \in Amounts,
             Lock(p, k, a) \/ CallUnlocked(p, k, a)
      PROVE  Goal
  BY <1>0, <1>1 DEF Lock, CallUnlocked, Begin, ghosts, ledger, Sum
<1>2. ASSUME NEW p \in Callers, Read(p) PROVE Goal
  BY <1>0, <1>2 DEF Read, ledger, TypeOK, Sum
<1>3. ASSUME NEW p \in Callers, Save(p) PROVE Goal
  <2>1. /\ kind[p] \in Kinds /\ seen[p] \in Row /\ amount[p] \in Int
        /\ used \subseteq Kinds
    BY <1>3 DEF TypeOK
  <2>2. /\ used' = used \cup {kind[p]} /\ seen' = seen
        /\ row' = Result(kind[p], seen[p], amount[p])
    BY <1>3 DEF Save, Enter, local
  <2>3. kind[p] \in {"freeze", "unfreeze"} /\ used \cap {"deduct", "add"} = {}
    BY <2>1, <2>2
  <2>4. Sum(row') = Sum(seen[p])
    BY <2>1, <2>2, <2>3, ResultConserves
  <2> QED
    BY <1>0, <2>2, <2>3, <2>4 DEF Sum
<1>4. ASSUME NEW p \in Callers, Rollback(p) PROVE Goal
  BY <1>0, <1>4 DEF Rollback, local, ghosts, ledger, Sum
<1>5. ASSUME NEW p \in Callers, Release(p) \/ Return(p) \/ Die(p) PROVE Goal
  <2>1. row' = row /\ used' = used /\ seen' = [seen EXCEPT ![p] = Opened]
    BY <1>5 DEF Release, Return, Die, End, ghosts, ledger
  <2>2. Sum(Opened) = Initial
    BY BalanceAssumption DEF Opened, Sum
  <2>3. seen \in [Callers -> Row]
    BY DEF TypeOK
  <2> QED
    BY <1>0, <2>1, <2>2, <2>3 DEF Sum
<1>6. ASSUME NEW k \in Kinds, Expire(k) PROVE Goal
  BY <1>0, <1>6 DEF Expire, local, ledger, Sum
<1>7. CASE UNCHANGED vars
  BY <1>0, <1>7 DEF vars, local, ghosts, ledger, Sum
<1> QED
  BY <1>1, <1>2, <1>3, <1>4, <1>5, <1>6, <1>7 DEF Next

\* Freezing and unfreezing alone neither make nor lose money, whatever their
\* amounts and however their transactions overlap.
THEOREM FreezingConserves == Spec => []TotalConserved
<1>1. Init => ReadingsConserve
  BY DEF Init, ReadingsConserve, Sum, Opened
<1>2. ReadingsConserve => TotalConserved
  BY DEF ReadingsConserve, TotalConserved, Sum
<1> QED
  BY <1>1, <1>2, StepConserves, BalanceTypes, PTL DEF Spec

-----------------------------------------------------------------------------
(* The ledger: while no lock has expired under its owner, a lock has at most *)
(* one owner; while no two transactions without a common lock have been open *)
(* together either, no other transaction is open, and what an open one has   *)
(* read is still the row.                                                    *)

LocksExclude ==
    ~expired =>
        /\ \A p \in Callers : keyed[p] => lock[kind[p]]
        /\ \A p, q \in Callers : keyed[p] /\ keyed[q] /\ kind[p] = kind[q] => p = q

Ledger ==
    /\ row.balance = Initial + saved["add"] + saved["unfreeze"] - saved["freeze"]
    /\ row.frozen = saved["freeze"] - saved["unfreeze"] - saved["deduct"]

ReadingsFresh ==
    ~clash /\ ~expired =>
        /\ Ledger
        /\ \A p, q \in Callers : pc[p] = "read" /\ pc[q] = "read" => p = q
        /\ \A p \in Callers : pc[p] = "read" => seen[p] = row

\* No step gives a lock two owners.
LEMMA StepExcludes == TypeOK /\ LocksExclude /\ [Next]_vars => LocksExclude'
<1> SUFFICES ASSUME TypeOK, LocksExclude, [Next]_vars PROVE LocksExclude'
  OBVIOUS
<1> USE DEF TypeOK, LocksExclude
<1>1. ASSUME NEW p \in Callers, NEW k \in Kinds, NEW a \in Amounts, Lock(p, k, a)
      PROVE  LocksExclude'
  BY <1>1 DEF Lock, Begin, ghosts
<1>2. ASSUME NEW p \in Callers, NEW k \in Kinds, NEW a \in Amounts,
             CallUnlocked(p, k, a)
      PROVE  LocksExclude'
  <2>1. ~keyed[p]
    BY <1>2 DEF CallUnlocked, Begin
  <2> QED
    BY <1>2, <2>1 DEF CallUnlocked, Begin, ghosts
<1>3. ASSUME NEW p \in Callers, Read(p) PROVE LocksExclude'
  BY <1>3 DEF Read
<1>4. ASSUME NEW p \in Callers, Save(p) PROVE LocksExclude'
  BY <1>4 DEF Save, local
<1>5. ASSUME NEW p \in Callers, Rollback(p) PROVE LocksExclude'
  BY <1>5 DEF Rollback, local, ghosts
<1>6. ASSUME NEW p \in Callers, Release(p) PROVE LocksExclude'
  BY <1>6 DEF Release, End, ghosts
<1>7. ASSUME NEW p \in Callers, Return(p) \/ Die(p) PROVE LocksExclude'
  <2>1. End(p) /\ UNCHANGED <<lock, expired>>
    BY <1>7 DEF Return, Die, ghosts
  <2> QED
    BY <2>1 DEF End
<1>8. ASSUME NEW k \in Kinds, Expire(k) PROVE LocksExclude'
  BY <1>8 DEF Expire, Holds, local
<1>9. CASE UNCHANGED vars
  BY <1>9 DEF vars, local, ghosts
<1> QED
  BY <1>1, <1>2, <1>3, <1>4, <1>5, <1>6, <1>7, <1>8, <1>9 DEF Next

\* What is saved is what the row gains, kind by kind.
LEMMA SaveKeepsLedger ==
    ASSUME TypeOK, Ledger, NEW p \in Callers, Save(p), seen[p] = row
    PROVE  Ledger'
<1>1. /\ kind[p] \in Kinds /\ row \in Row /\ amount[p] \in Int
      /\ saved \in [Kinds -> Int]
  BY DEF TypeOK
<1>2. /\ row' = Result(kind[p], row, amount[p])
      /\ saved' = [saved EXCEPT ![kind[p]] = @ + amount[p]]
  BY DEF Save, Enter
<1>3. CASE kind[p] = "freeze"
  BY <1>1, <1>2, <1>3 DEF Result, Ledger
<1>4. CASE kind[p] = "unfreeze"
  BY <1>1, <1>2, <1>4 DEF Result, Ledger
<1>5. CASE kind[p] = "deduct"
  BY <1>1, <1>2, <1>5 DEF Result, Ledger
<1>6. CASE kind[p] = "add"
  BY <1>1, <1>2, <1>6 DEF Result, Ledger
<1> QED
  BY <1>1, <1>3, <1>4, <1>5, <1>6

\* No step makes the reading of an open transaction stale.
LEMMA StepFresh ==
    TypeOK /\ LocksExclude /\ ReadingsFresh /\ [Next]_vars => ReadingsFresh'
<1> SUFFICES ASSUME TypeOK, LocksExclude, ReadingsFresh, [Next]_vars
             PROVE  ReadingsFresh'
  OBVIOUS
<1>1. ASSUME NEW p \in Callers, NEW k \in Kinds, NEW a \in Amounts,
             Lock(p, k, a) \/ CallUnlocked(p, k, a)
      PROVE  ReadingsFresh'
  BY <1>1 DEF Lock, CallUnlocked, Begin, ghosts, ledger, TypeOK, ReadingsFresh, Ledger
<1>2. ASSUME NEW p \in Callers, Read(p) PROVE ReadingsFresh'
  <2> SUFFICES ASSUME ~clash', ~expired' PROVE ReadingsFresh'
    BY DEF ReadingsFresh
  <2>1. ~clash /\ ~expired
    BY <1>2 DEF Read
  <2>2. \A q \in Callers : pc[q] = "read" => q = p
    <3>1. ASSUME NEW q \in Callers, pc[q] = "read" PROVE q = p
      <4>1. ShareLock(p, q)
        BY <1>2, <3>1 DEF Read
      <4> QED
        BY <2>1, <4>1 DEF ShareLock, LocksExclude
    <3> QED
      BY <3>1
  <2> QED
    BY <1>2, <2>1, <2>2 DEF Read, ledger, TypeOK, ReadingsFresh, Ledger
<1>3. ASSUME NEW p \in Callers, Save(p) PROVE ReadingsFresh'
  <2> SUFFICES ASSUME ~clash', ~expired' PROVE ReadingsFresh'
    BY DEF ReadingsFresh
  <2>1. ~clash /\ ~expired /\ pc[p] = "read"
    BY <1>3 DEF Save
  <2>2. Ledger /\ seen[p] = row
    BY <2>1 DEF ReadingsFresh
  <2>3. Ledger'
    BY <1>3, <2>2, SaveKeepsLedger
  <2>4. \A q \in Callers : pc'[q] # "read"
    BY <1>3, <2>1 DEF Save, ReadingsFresh, TypeOK
  <2> QED
    BY <2>3, <2>4 DEF ReadingsFresh
<1>4. ASSUME NEW p \in Callers, Rollback(p) PROVE ReadingsFresh'
  BY <1>4 DEF Rollback, local, ghosts, ledger, TypeOK, ReadingsFresh, Ledger
<1>5. ASSUME NEW p \in Callers, Release(p) \/ Return(p) \/ Die(p)
      PROVE  ReadingsFresh'
  <2>1. End(p) /\ UNCHANGED <<row, saved, clash, expired>>
    BY <1>5 DEF Release, Return, Die, ghosts, ledger
  <2> QED
    BY <2>1 DEF End, TypeOK, ReadingsFresh, Ledger
<1>6. ASSUME NEW k \in Kinds, Expire(k) PROVE ReadingsFresh'
  BY <1>6 DEF Expire, local, ledger, ReadingsFresh, Ledger
<1>7. CASE UNCHANGED vars
  BY <1>7 DEF vars, local, ghosts, ledger, ReadingsFresh, Ledger
<1> QED
  BY <1>1, <1>2, <1>3, <1>4, <1>5, <1>6, <1>7 DEF Next

\* The row is the sum of what was saved as long as no two transactions overlap
\* that do not share a lock, which those of the order service never do, and no
\* lock expires under its owner: the locks do serialise the calls of one kind.
THEOREM LedgerIsExact == Spec => []LedgerExact
<1>1. Init => LocksExclude /\ ReadingsFresh
  BY DEF Init, LocksExclude, ReadingsFresh, Ledger, Opened
<1>2. ReadingsFresh => LedgerExact
  BY DEF ReadingsFresh, Ledger, LedgerExact
<1> QED
  BY <1>1, <1>2, StepExcludes, StepFresh, BalanceTypes, PTL DEF Spec
=============================================================================
