-------------------------- MODULE OrderServiceProofs --------------------------
(***************************************************************************)
(* Theorems about OrderService, for any number of callers, calls and       *)
(* failures and any quantities.                                            *)
(***************************************************************************)
EXTENDS OrderService, FiniteSetTheorems, TLAPS

USE OrderServiceAssumption, NoRowAssumption DEF OrderServiceAssumption, NoRowAssumption

\* An order made of a status and a quantity is a row.
LEMMA OrderType ==
    ASSUME NEW status \in {"pending", "partial_filled", "filled", "cancelled"},
           NEW filled \in Int
    PROVE  Order(status, filled) \in Rows
BY DEF Order, Rows

\* The call of an idle caller.
LEMMA IdleType == Idle \in Call /\ [Idle EXCEPT !.pc = "cached"] \in Call
BY DEF Idle, Call, Operations, Locks, Places, Reading, NotReading, Charging

\* A call that goes on to another place of its operation, where it needs an
\* order only if it has one, is a call.
LEMMA GoToType ==
    ASSUME call \in [Callers -> Call], NEW c \in Callers,
           NEW pc \in Reading \cup NotReading \cup Charging, GoTo(c, pc),
           pc \in Places(call[c].op),
           pc \in Reading => call[c].pc \in Reading,
           pc \in NotReading => call[c].pc \in NotReading
    PROVE  call' \in [Callers -> Call]
<1> DEFINE r == [call[c] EXCEPT !.pc = pc]
<1>1. call[c] \in Call
  OBVIOUS
<1>2. r \in Call
  BY <1>1 DEF Call
<1>3. call' = [call EXCEPT ![c] = r]
  BY DEF GoTo
<1> QED
  BY <1>2, <1>3

LEMMA EndType ==
    ASSUME call \in [Callers -> Call], NEW c \in Callers, End(c)
    PROVE  call' \in [Callers -> Call]
BY IdleType DEF End

LEMMA LeaveType ==
    ASSUME call \in [Callers -> Call], NEW c \in Callers, Leave(c),
           call[c].op # "create"
    PROVE  call' \in [Callers -> Call]
<1>1. CASE call[c].op \in Locks
  <2>1. GoTo(c, "release")
    BY <1>1 DEF Leave
  <2>2. call[c].op = "cancel"
    BY <1>1 DEF Locks
  <2>3. "release" \in Places(call[c].op) /\ "release" \notin Reading \cup NotReading
    BY <2>2 DEF Places, Reading, NotReading
  <2> QED
    BY <2>1, <2>3, GoToType DEF Charging
<1>2. CASE call[c].op \notin Locks
  BY <1>2, EndType DEF Leave
<1> QED
  BY <1>1, <1>2

-----------------------------------------------------------------------------
(* Types *)

LEMMA InitType == Init => TypeOK
<1> SUFFICES ASSUME Init PROVE TypeOK
  OBVIOUS
<1>1. call \in [Callers -> Call]
  BY IdleType DEF Init
<1>2. lock \in [Locks -> BOOLEAN] /\ remembered \in BOOLEAN
  BY Zenon DEF Init
<1> QED
  BY <1>1, <1>2 DEF Init, TypeOK

\* What Begin puts in place of an idle call is a call.
LEMMA BeginType ==
    ASSUME TypeOK, NEW c \in Callers, NEW op \in Operations,
           NEW pc \in NotReading, NEW fill \in Int, pc \in Places(op),
           Begin(c, op, pc, fill)
    PROVE  call' \in [Callers -> Call] /\ calls' \in 0..MaxCalls
<1> DEFINE r == [op |-> op, pc |-> pc, seen |-> NoRow, fill |-> fill]
<1>1. r \in Call
  BY DEF Call, Reading, NotReading
<1>2. call' = [call EXCEPT ![c] = r]
  BY DEF Begin
<1> QED
  BY <1>1, <1>2 DEF Begin, TypeOK

\* A failure is counted within its bound.
LEMMA AccessType ==
    ASSUME TypeOK, NEW outcome, Access(outcome) \/ Fail
    PROVE  failures' \in 0..MaxFailures
BY DEF TypeOK, Access, Fail

\* Where a call is tells what it was called for.
LEMMA PlaceOf ==
    ASSUME TypeOK, NEW c \in Callers
    PROVE  /\ call[c] \in Call /\ call[c].op \in Operations
           /\ call[c].pc \in Places(call[c].op)
           /\ call[c].pc = "lock" => call[c].op \in Locks
           /\ call[c].pc \in {"freeze", "insert", "compensate", "remember"}
                  => call[c].op = "create"
           /\ call[c].pc \in {"cached", "select", "copy"} => call[c].op # "create"
           /\ call[c].pc \in {"judge", "unfreeze"} => call[c].op = "cancel"
           /\ call[c].pc \in {"update", "invalidate"} => call[c].op \in {"cancel", "fill"}
           /\ call[c].pc = "release" => call[c].op \in Locks
           /\ call[c].pc \in Reading => call[c].seen \in Rows
<1>1. call[c] \in Call
  BY DEF TypeOK
<1>2. call[c].op \in Operations /\ call[c].pc \in Places(call[c].op)
  BY <1>1 DEF Call
<1>3. call[c].pc \in Reading => call[c].seen \in Rows
  BY <1>1 DEF Call
<1>4. call[c].op \in {"create", "cancel", "get", "fill"}
  BY <1>2 DEF Operations, Locks
<1> QED
  BY <1>1, <1>2, <1>3, <1>4 DEF Places, Locks

\* The steps of CreateOrder that hold the lock.
LEMMA CreateType ==
    ASSUME TypeOK, NEW c \in Callers, NEW outcome, CreateOrder(c, outcome)
    PROVE  TypeOK'
<1> USE PlaceOf, AccessType DEF TypeOK, At
<1>1. ASSUME NEW pc \in {"insert", "compensate", "remember", "release"},
             call[c].op = "create", GoTo(c, pc)
      PROVE  call' \in [Callers -> Call]
  BY <1>1, GoToType DEF Places, Reading, NotReading, Charging
<1>2. CASE FreezeAmount(c, outcome)
  BY <1>1, <1>2 DEF FreezeAmount, store
<1>3. CASE Insert(c, outcome)
  <2>1. row' \in Rows \cup {NoRow}
    BY <1>3, OrderType DEF Insert
  <2> QED
    BY <1>1, <1>3, <2>1 DEF Insert, money
<1>4. CASE Compensate(c, outcome)
  BY <1>1, <1>4 DEF Compensate, store
<1>5. CASE RememberKey(c, outcome)
  <2>1. remembered' \in BOOLEAN
    BY Zenon, <1>5 DEF RememberKey, Written
  <2> QED
    BY <1>1, <1>5, <2>1 DEF RememberKey, money
<1> QED
  BY <1>2, <1>3, <1>4, <1>5 DEF CreateOrder

\* The steps that read the order.
LEMMA GetType ==
    ASSUME TypeOK, NEW c \in Callers, NEW outcome, GetByOrderID(c, outcome)
    PROVE  TypeOK'
<1> USE PlaceOf, AccessType DEF TypeOK, At
<1>1. ASSUME call[c].op # "create"
      PROVE  /\ Purpose(call[c].op) \in {"judge", "update", "answer"}
             /\ Purpose(call[c].op) \in Places(call[c].op)
  <2>1. call[c].op \in {"cancel", "get", "fill"}
    BY <1>1 DEF Operations, Locks
  <2> QED
    BY <2>1 DEF Purpose, Places
<1>2. ASSUME NEW pc \in Reading, NEW order \in Rows \cup {NoRow}, order # NoRow,
             pc \in Places(call[c].op),
             call' = [call EXCEPT ![c].pc = pc, ![c].seen = order]
      PROVE  call' \in [Callers -> Call]
  <2> DEFINE r == [call[c] EXCEPT !.pc = pc, !.seen = order]
  <2>1. r \in Call
    BY <1>2 DEF Call, Reading, NotReading
  <2>2. call' = [call EXCEPT ![c] = r]
    BY <1>2
  <2> QED
    BY <2>1, <2>2
<1>3. CASE ReadCache(c, outcome)
  <2>1. CASE cache # NoRow /\ Reported(outcome)
    <3>1. call' \in [Callers -> Call]
      BY <1>1, <1>2, <1>3, <2>1 DEF ReadCache, Reading
    <3>2. overlaps' \subseteq Locks \cup {"copy", "fill"}
      BY <1>3, <2>1 DEF ReadCache
    <3> QED
      BY <1>3, <3>1, <3>2 DEF ReadCache, store, money
  <2>2. CASE ~(cache # NoRow /\ Reported(outcome))
    <3>1. GoTo(c, "select") /\ UNCHANGED overlaps
      BY Zenon, <1>3, <2>2 DEF ReadCache
    <3>2. "select" \in Places(call[c].op)
      BY <1>3 DEF ReadCache, Places, Operations, Locks
    <3>3. call' \in [Callers -> Call]
      BY <1>3, <3>1, <3>2, GoToType DEF ReadCache, Reading, NotReading
    <3> QED
      BY <1>3, <3>1, <3>3 DEF ReadCache, store, money
  <2> QED
    BY <2>1, <2>2
<1>4. CASE ReadRow(c, outcome)
  <2>1. "copy" \in Places(call[c].op)
    BY <1>4 DEF ReadRow, Places, Operations, Locks
  <2>2. call' \in [Callers -> Call]
    BY <1>2, <1>4, <2>1, LeaveType DEF ReadRow, Reading
  <2> QED
    BY <1>4, <2>2 DEF ReadRow, store, money
<1>5. CASE FillCache(c, outcome)
  <2>1. call' \in [Callers -> Call]
    BY <1>1, <1>5, GoToType DEF FillCache, Reading, NotReading
  <2> QED
    BY <1>5, <2>1 DEF FillCache, money, Reading
<1> QED
  BY <1>3, <1>4, <1>5 DEF GetByOrderID

\* The steps with the locks.
LEMMA LockType ==
    ASSUME TypeOK, NEW c \in Callers, NEW outcome, NEW pc \in {"freeze", "cached"},
           pc = IF call[c].op = "create" THEN "freeze" ELSE "cached",
           SetLock(c, pc, outcome) \/ Release(c)
    PROVE  TypeOK'
<1> USE PlaceOf, AccessType, EndType DEF TypeOK, At
<1>1. CASE SetLock(c, pc, outcome)
  <2>1. lock' \in [Locks -> BOOLEAN]
    <3> DEFINE taken == lock[call[c].op] \/ Written(outcome)
    <3>1. lock' = [lock EXCEPT ![call[c].op] = taken]
      BY <1>1 DEF SetLock
    <3>2. taken \in BOOLEAN
      BY Zenon DEF Written
    <3> QED
      BY <3>1, <3>2
  <2>2. CASE End(c)
    BY <1>1, <2>1, <2>2 DEF SetLock, store, money
  <2>3. CASE GoTo(c, pc)
    <3>1. pc \in Places(call[c].op)
      BY <1>1 DEF SetLock, Places, Locks
    <3>2. call' \in [Callers -> Call]
      BY <1>1, <2>3, <3>1, GoToType DEF SetLock, Reading, NotReading, Charging
    <3> QED
      BY <1>1, <2>1, <3>2 DEF SetLock, store, money
  <2>4. GoTo(c, pc) \/ End(c)
    BY Zenon, <1>1 DEF SetLock
  <2> QED
    BY <2>2, <2>3, <2>4
<1>2. CASE Release(c)
  BY <1>2 DEF Release, store, money
<1> QED
  BY <1>1, <1>2

\* The steps of a cancellation that has read the order.
LEMMA CancelType ==
    ASSUME TypeOK, NEW c \in Callers, NEW outcome,
           Judge(c) \/ UnfreezeAmount(c, outcome)
    PROVE  TypeOK'
<1> USE PlaceOf, AccessType DEF TypeOK, At
<1>1. ASSUME NEW pc \in {"release", "unfreeze", "update"}, GoTo(c, pc),
             call[c].pc \in {"judge", "unfreeze"}
      PROVE  call' \in [Callers -> Call]
  BY <1>1, GoToType DEF Places, Reading, NotReading, Charging
<1>2. CASE Judge(c)
  <2>1. \E pc \in {"release", "unfreeze", "update"} : GoTo(c, pc)
    BY <1>2 DEF Judge
  <2> QED
    BY <1>1, <1>2, <2>1 DEF Judge, store, money
<1>3. CASE UnfreezeAmount(c, outcome)
  <2>1. Remaining(call[c].seen) \in Int
    BY <1>3 DEF UnfreezeAmount, Remaining, Rows, Reading
  <2>2. \E pc \in {"release", "unfreeze", "update"} : GoTo(c, pc)
    BY <1>3 DEF UnfreezeAmount
  <2>3. call' \in [Callers -> Call]
    BY <1>1, <1>3, <2>2 DEF UnfreezeAmount
  <2> QED
    BY <1>3, <2>1, <2>3 DEF UnfreezeAmount, store
<1> QED
  BY <1>2, <1>3

\* What an order is set to is a row.
LEMMA UpdatedType ==
    ASSUME TypeOK, NEW c \in Callers, call[c].pc \in Reading
    PROVE  Updated(c) \in Rows
<1>1. call[c] \in Call /\ call[c].seen \in Rows
  BY PlaceOf
<1>2. call[c].seen.filled \in Int /\ call[c].fill \in Int
  BY <1>1 DEF Rows, Call
<1> QED
  BY <1>2, OrderType DEF Updated

\* The steps that write the order and drop its copy.
LEMMA UpdateType ==
    ASSUME TypeOK, NEW c \in Callers, NEW outcome,
           UpdateStatus(c, outcome) \/ Invalidate(c, outcome)
    PROVE  TypeOK'
<1> USE PlaceOf, AccessType DEF TypeOK, At
<1>1. CASE UpdateStatus(c, outcome)
  <2>1. call[c] \in Call /\ call[c].op \in {"cancel", "fill"}
    BY <1>1 DEF UpdateStatus
  <2>3. Updated(c) \in Rows
    BY <1>1, UpdatedType DEF UpdateStatus, Reading
  <2>4. overlaps' \subseteq Locks \cup {"copy", "fill"}
    <3>1. Overlapping(c) \subseteq {"copy", "fill"}
      BY DEF Overlapping
    <3> QED
      BY <1>1, <3>1 DEF UpdateStatus
  <2>5. CASE GoTo(c, "invalidate")
    <3>1. "invalidate" \in Places(call[c].op)
      BY <2>1 DEF Places
    <3>2. call' \in [Callers -> Call]
      BY <1>1, <2>5, <3>1, GoToType DEF UpdateStatus, Reading, NotReading
    <3> QED
      BY <1>1, <2>3, <2>4, <3>2 DEF UpdateStatus, money
  <2>6. CASE Leave(c)
    <3>1. call' \in [Callers -> Call]
      BY <2>1, <2>6, LeaveType
    <3> QED
      BY <1>1, <2>3, <2>4, <3>1 DEF UpdateStatus, money
  <2> QED
    BY <1>1, <2>5, <2>6 DEF UpdateStatus
<1>2. CASE Invalidate(c, outcome)
  <2>1. CASE call[c].op = "fill"
    <3>1. call' \in [Callers -> Call]
      BY <1>2, <2>1, IdleType DEF Invalidate
    <3> QED
      BY <1>2, <3>1 DEF Invalidate, money
  <2>2. CASE call[c].op # "fill"
    <3>1. GoTo(c, "release") /\ call[c].op = "cancel"
      BY <1>2, <2>2 DEF Invalidate
    <3>2. "release" \in Places(call[c].op)
      BY <3>1 DEF Places
    <3>3. call' \in [Callers -> Call]
      BY <1>2, <3>1, <3>2, GoToType DEF Reading, NotReading, Charging
    <3> QED
      BY <1>2, <3>3 DEF Invalidate, money
  <2> QED
    BY <2>1, <2>2
<1> QED
  BY <1>1, <1>2

\* Beginnings and ends of calls.
LEMMA CallsType ==
    ASSUME TypeOK, NEW c \in Callers,
           CheckKey(c) \/ Start(c) \/ Answer(c) \/ Die(c)
    PROVE  TypeOK'
<1> USE EndType DEF TypeOK
<1>1. CASE CheckKey(c)
  <2>1. "create" \in Operations /\ "lock" \in NotReading /\ "lock" \in Places("create")
    BY DEF Operations, Locks, NotReading, Places
  <2>2. call' \in [Callers -> Call] /\ calls' \in 0..MaxCalls
    BY <1>1, <2>1, BeginType DEF CheckKey
  <2>3. failures' \in 0..MaxFailures
    BY <1>1 DEF CheckKey, Fail
  <2> QED
    BY <1>1, <2>2, <2>3 DEF CheckKey, store, money
<1>2. CASE Start(c)
  <2>1. /\ {"cancel", "get", "fill"} \subseteq Operations
        /\ {"lock", "cached"} \subseteq NotReading
        /\ "lock" \in Places("cancel") /\ "cached" \in Places("get")
        /\ "cached" \in Places("fill")
    BY DEF Operations, Locks, NotReading, Places
  <2>2. call' \in [Callers -> Call] /\ calls' \in 0..MaxCalls
    BY <1>2, <2>1, BeginType DEF Start, CancelOrder, GetOrder, UpdateOrderStatus
  <2> QED
    BY <1>2, <2>2 DEF Start, CancelOrder, GetOrder, UpdateOrderStatus, store, money
<1>3. CASE Answer(c)
  BY <1>3 DEF Answer, store, money
<1>4. CASE Die(c)
  BY <1>4, AccessType DEF Die, store, money
<1> QED
  BY <1>1, <1>2, <1>3, <1>4

LEMMA StepType == TypeOK /\ [Next]_vars => TypeOK'
<1> SUFFICES ASSUME TypeOK, [Next]_vars PROVE TypeOK'
  OBVIOUS
<1>1. ASSUME NEW c \in Callers,
             CheckKey(c) \/ Start(c) \/ Judge(c) \/ Answer(c) \/ Release(c) \/ Die(c)
      PROVE  TypeOK'
  <2>1. (IF call[c].op = "create" THEN "freeze" ELSE "cached") \in {"freeze", "cached"}
    OBVIOUS
  <2> QED
    BY <1>1, <2>1, LockType, CancelType, CallsType
<1>2. ASSUME NEW c \in Callers, NEW outcome \in Outcomes,
             \/ SetLock(c, IF call[c].op = "create" THEN "freeze" ELSE "cached", outcome)
             \/ CreateOrder(c, outcome) \/ GetByOrderID(c, outcome)
             \/ UnfreezeAmount(c, outcome)
             \/ UpdateStatus(c, outcome) \/ Invalidate(c, outcome)
      PROVE  TypeOK'
  <2>1. (IF call[c].op = "create" THEN "freeze" ELSE "cached") \in {"freeze", "cached"}
    OBVIOUS
  <2> QED
    BY <1>2, <2>1, LockType, CreateType, GetType, CancelType, UpdateType
<1>3. ASSUME NEW n \in Locks, Expire(n)
      PROVE  TypeOK'
  BY <1>3 DEF TypeOK, Expire, store, money
<1>4. CASE CopyExpires
  BY <1>4 DEF TypeOK, CopyExpires, money
<1>5. CASE UNCHANGED vars
  BY <1>5 DEF TypeOK, vars, store, money
<1> QED
  BY <1>1, <1>2, <1>3, <1>4, <1>5 DEF Next

\* Every state of every behaviour is well typed: a call is at a place of its
\* own operation and never judges, updates or answers with an order that it has
\* not read.
THEOREM OrderTypes == Spec => []TypeOK
BY InitType, StepType, PTL DEF Spec

-----------------------------------------------------------------------------
(* The copy in the cache *)

\* Besides: who is about to make a copy has the row as it is.
Fresh ==
    failures = 0 /\ "copy" \notin overlaps =>
        /\ cache \in {NoRow, row} \/ \E c \in Callers : At(c, "invalidate")
        /\ \A c \in Callers : At(c, "copy") => call[c].seen = row

\* A step that moves a caller leaves the others where they are.
LEMMA Moves ==
    ASSUME TypeOK, NEW c \in Callers, NEW pc,
           GoTo(c, pc) \/ End(c) \/ Leave(c)
    PROVE  /\ \A d \in Callers \ {c} : call'[d] = call[d]
           /\ call'[c].pc \in {pc, "idle", "release"}
           /\ call'[c].seen \in {call[c].seen, NoRow}
<1>1. call[c] \in Call /\ call \in [Callers -> Call]
  BY DEF TypeOK
<1>2. ASSUME NEW p, GoTo(c, p)
      PROVE  /\ \A d \in Callers \ {c} : call'[d] = call[d]
             /\ call'[c].pc = p /\ call'[c].seen = call[c].seen
  <2> DEFINE r == [call[c] EXCEPT !.pc = p]
  <2>1. call' = [call EXCEPT ![c] = r]
    BY <1>2 DEF GoTo
  <2>2. r.pc = p /\ r.seen = call[c].seen
    BY <1>1 DEF Call
  <2>3. call'[c] = r
    BY <1>1, <2>1
  <2> HIDE DEF r
  <2> QED
    BY <1>1, <2>1, <2>2, <2>3
<1>3. ASSUME End(c)
      PROVE  /\ \A d \in Callers \ {c} : call'[d] = call[d]
             /\ call'[c].pc = "idle" /\ call'[c].seen = NoRow
  BY <1>1, <1>3 DEF End, Idle
<1> QED
  BY <1>2, <1>3 DEF Leave

\* What Fresh says is kept by a step that leaves the row and the copy alone and
\* takes no caller to where it would have one in hand.
LEMMA FreshFrame ==
    ASSUME TypeOK, TypeOK', Fresh, NEW c \in Callers,
           failures' = 0 => failures = 0, overlaps \subseteq overlaps',
           row' = row, cache' = cache,
           \A d \in Callers \ {c} : call'[d] = call[d],
           failures' = 0 => call[c].pc # "invalidate",
           call'[c].pc # "copy"
    PROVE  Fresh'
BY DEF Fresh, TypeOK, At

\* Failures only add up, and no failure is left where an access has not ended
\* well.
LEMMA Failing ==
    ASSUME TypeOK, NEW outcome \in Outcomes, Access(outcome)
    PROVE  failures' = 0 => failures = 0 /\ Reported(outcome) /\ Written(outcome)
BY DEF Access, Fail, Reported, Written, Outcomes, TypeOK

LEMMA FreshInit == Init => Fresh
BY DEF Init, Fresh, At, Idle

\* The steps that have the row or the copy in hand.
LEMMA FreshWrite ==
    ASSUME TypeOK, TypeOK', Fresh, NEW c \in Callers, NEW outcome \in Outcomes,
           \/ Insert(c, outcome) \/ GetByOrderID(c, outcome)
           \/ UpdateStatus(c, outcome) \/ Invalidate(c, outcome)
    PROVE  Fresh'
<1> SUFFICES ASSUME failures' = 0, "copy" \notin overlaps'
             PROVE  /\ (cache \in {NoRow, row} \/ \E d \in Callers : At(d, "invalidate"))'
                    /\ (\A d \in Callers : At(d, "copy") => call[d].seen = row)'
  BY DEF Fresh
<1>0. call \in [Callers -> Call] /\ call[c] \in Call /\ call' \in [Callers -> Call]
  BY DEF TypeOK
<1>1. CASE Insert(c, outcome)
  <2>1. failures = 0 /\ overlaps' = overlaps
    BY <1>1, Failing DEF Insert
  <2>2. \A d \in Callers : At(d, "copy") => call[d].seen = row /\ row # NoRow
    <3>1. \A d \in Callers : At(d, "copy") => call[d].seen = row
      BY <1>1, <2>1 DEF Fresh, Insert
    <3>2. \A d \in Callers : At(d, "copy") => call[d].seen \in Rows
      BY PlaceOf DEF At, Reading
    <3> QED
      BY <3>1, <3>2
  <2>3. /\ \A d \in Callers \ {c} : call'[d] = call[d]
        /\ call'[c].pc \in {"remember", "compensate", "idle", "release"}
    BY <1>1, Moves DEF Insert
  <2>4. row' = row \/ (row = NoRow /\ \A d \in Callers : ~At(d, "copy"))
    BY <1>1, <2>2 DEF Insert
  <2>5. cache' = cache
    BY <1>1 DEF Insert
  <2>6. cache \in {NoRow, row} \/ \E d \in Callers \ {c} : At(d, "invalidate")
    BY <1>1, <2>1 DEF Fresh, Insert, At
  <2> QED
    BY <2>2, <2>3, <2>4, <2>5, <2>6 DEF At
<1>2. CASE ReadCache(c, outcome)
  <2>1. Purpose(call[c].op) # "copy"
    <3>1. call[c].op \in {"cancel", "get", "fill"}
      BY <1>2, PlaceOf DEF ReadCache, Operations, Locks, At
    <3> QED
      BY <3>1 DEF Purpose
  <2>2. /\ \A d \in Callers \ {c} : call'[d] = call[d]
        /\ call'[c].pc # "copy"
    <3>1. CASE call' = [call EXCEPT ![c].pc = Purpose(call[c].op), ![c].seen = cache]
      BY <1>0, <2>1, <3>1 DEF Call
    <3>2. CASE GoTo(c, "select")
      BY <3>2, Moves
    <3> QED
      BY <1>2, <3>1, <3>2 DEF ReadCache
  <2>3. failures = 0 /\ overlaps \subseteq overlaps'
    BY <1>2, Failing DEF ReadCache
  <2> QED
    BY <1>2, <2>2, <2>3, FreshFrame DEF ReadCache, store, At, Fresh
<1>3. CASE ReadRow(c, outcome)
  <2>1. failures = 0 /\ overlaps' = overlaps /\ row' = row /\ cache' = cache
    BY <1>3, Failing DEF ReadRow, store
  <2>2. CASE call' = [call EXCEPT ![c].pc = "copy", ![c].seen = row]
    BY <1>0, <1>3, <2>1, <2>2 DEF Fresh, ReadRow, At, Call
  <2>3. CASE Leave(c)
    <3>1. /\ \A d \in Callers \ {c} : call'[d] = call[d]
          /\ call'[c].pc \in {"idle", "release"}
      BY <2>3, Moves
    <3> QED
      BY <1>3, <2>1, <3>1 DEF Fresh, ReadRow, At
  <2> QED
    BY <1>3, <2>2, <2>3 DEF ReadRow
<1>4. CASE FillCache(c, outcome)
  <2>1. failures = 0 /\ overlaps' = overlaps /\ row' = row /\ cache' = call[c].seen
    BY <1>4, Failing DEF FillCache
  <2>2. Purpose(call[c].op) # "copy"
    <3>1. call[c].op \in {"cancel", "get", "fill"}
      BY <1>4, PlaceOf DEF FillCache, Operations, Locks, At
    <3> QED
      BY <3>1 DEF Purpose
  <2>3. /\ \A d \in Callers \ {c} : call'[d] = call[d]
        /\ call'[c].pc # "copy"
    BY <1>4, <2>2, Moves DEF FillCache
  <2> QED
    BY <1>4, <2>1, <2>3 DEF Fresh, FillCache, At
<1>5. CASE UpdateStatus(c, outcome)
  <2>1. failures = 0 /\ Reported(outcome)
    BY <1>5, Failing DEF UpdateStatus
  <2>2. \A d \in Callers : ~At(d, "copy")
    BY <1>5 DEF UpdateStatus, Overlapping
  <2>3. GoTo(c, "invalidate")
    BY <1>5, <2>1 DEF UpdateStatus
  <2>4. call'[c].pc = "invalidate" /\ \A d \in Callers \ {c} : call'[d] = call[d]
    BY <1>0, <2>3, Moves DEF GoTo, Call
  <2> QED
    BY <2>2, <2>4 DEF At
<1>6. CASE Invalidate(c, outcome)
  <2>1. failures = 0 /\ overlaps' = overlaps /\ row' = row /\ cache' = NoRow
    BY <1>6, Failing DEF Invalidate
  <2>2. /\ \A d \in Callers \ {c} : call'[d] = call[d]
        /\ call'[c].pc # "copy"
    <3>1. CASE call' = [call EXCEPT ![c] = [Idle EXCEPT !.pc = "cached"]]
      BY <1>0, <3>1 DEF Idle
    <3>2. CASE GoTo(c, "release")
      BY <3>2, Moves
    <3> QED
      BY <1>6, <3>1, <3>2 DEF Invalidate
  <2> QED
    BY <2>1, <2>2 DEF Fresh, At
<1> QED
  BY <1>1, <1>2, <1>3, <1>4, <1>5, <1>6 DEF GetByOrderID

LEMMA FreshStep == TypeOK /\ TypeOK' /\ Fresh /\ [Next]_vars => Fresh'
<1> SUFFICES ASSUME TypeOK, TypeOK', Fresh, [Next]_vars PROVE Fresh'
  OBVIOUS
<1>1. ASSUME NEW c \in Callers, NEW outcome \in Outcomes,
             \/ SetLock(c, IF call[c].op = "create" THEN "freeze" ELSE "cached", outcome)
             \/ FreezeAmount(c, outcome) \/ Compensate(c, outcome)
             \/ RememberKey(c, outcome) \/ UnfreezeAmount(c, outcome)
      PROVE  Fresh'
  <2>1. failures' = 0 => failures = 0
    BY <1>1, Failing
       DEF SetLock, FreezeAmount, Compensate, RememberKey, UnfreezeAmount
  <2>2. row' = row /\ cache' = cache /\ overlaps' = overlaps /\ call[c].pc # "invalidate"
    BY <1>1 DEF SetLock, FreezeAmount, Compensate, RememberKey, UnfreezeAmount, store, At
  <2>3. \E pc \in {"freeze", "cached", "insert", "release", "update"} :
            GoTo(c, pc) \/ End(c)
    BY <1>1 DEF SetLock, FreezeAmount, Compensate, RememberKey, UnfreezeAmount
  <2>4. call'[c].pc # "copy" /\ \A d \in Callers \ {c} : call'[d] = call[d]
    BY <2>3, Moves
  <2> QED
    BY <2>1, <2>2, <2>4, FreshFrame
<1>2. ASSUME NEW c \in Callers, Judge(c) \/ Answer(c) \/ Release(c) \/ Die(c)
      PROVE  Fresh'
  <2>1. /\ failures' = 0 => failures = 0 /\ call[c].pc # "invalidate"
        /\ row' = row /\ cache' = cache /\ overlaps' = overlaps
    BY <1>2 DEF Judge, Answer, Release, Die, store, Fail, At, TypeOK
  <2>2. \E pc \in {"release", "unfreeze", "update"} : GoTo(c, pc) \/ End(c)
    BY <1>2 DEF Judge, Answer, Release, Die
  <2>3. call'[c].pc # "copy" /\ \A d \in Callers \ {c} : call'[d] = call[d]
    BY <2>2, Moves
  <2> QED
    BY <2>1, <2>3, FreshFrame
<1>3. ASSUME NEW c \in Callers, CheckKey(c) \/ Start(c)
      PROVE  Fresh'
  <2>1. /\ failures' = 0 => failures = 0
        /\ row' = row /\ cache' = cache /\ overlaps' = overlaps
    BY <1>3
       DEF CheckKey, Start, CancelOrder, GetOrder, UpdateOrderStatus, store, Fail, TypeOK
  <2>2. \E op \in Operations, pc \in {"lock", "cached"}, fill \in Int :
            Begin(c, op, pc, fill)
    BY <1>3
       DEF CheckKey, Start, CancelOrder, GetOrder, UpdateOrderStatus, Operations, Locks
  <2>3. call[c].pc = "idle" /\ call'[c].pc # "copy"
            /\ \A d \in Callers \ {c} : call'[d] = call[d]
    BY <2>2 DEF Begin, At, TypeOK
  <2> QED
    BY <2>1, <2>3, FreshFrame
<1>4. ASSUME NEW n \in Locks, Expire(n)
      PROVE  Fresh'
  BY <1>4 DEF Fresh, Expire, store, At
<1>5. CASE CopyExpires
  BY <1>5 DEF Fresh, CopyExpires, At
<1>6. CASE UNCHANGED vars
  BY <1>6 DEF Fresh, vars, store, At
<1> QED
  BY <1>1, <1>2, <1>3, <1>4, <1>5, <1>6, FreshWrite DEF Next, CreateOrder

\* However many calls read, copy, cancel and fill the order at once, its copy is
\* its row outside an update, as long as no row changes while a reader is about
\* to copy it.
THEOREM CopiesAreFresh == Spec => []CopyIsFresh
<1>1. Fresh => CopyIsFresh
  BY DEF Fresh, CopyIsFresh
<1> QED
  BY <1>1, InitType, StepType, FreshInit, FreshStep, PTL DEF Spec

-----------------------------------------------------------------------------
(* The money frozen for the key *)

\* No order is in the cache or in a caller's hands before it has a row.
Known ==
    row = NoRow => cache = NoRow /\ \A c \in Callers : call[c].seen = NoRow

\* The callers that have frozen money and have neither made the order nor given
\* the money back; what is charged beyond them and the order.
Frozen == {c \in Callers : call[c].pc \in {"insert", "compensate"}}
Owed == IF row = NoRow THEN 0 ELSE Qty
Drift == charged - Owed - Qty * Cardinality(Frozen)

\* OneCharge at every moment: failures alone make the charge drift.
Bounded == Magnitude(Drift) <= Qty * failures

LEMMA KnownInit == Init => Known
BY DEF Init, Known, Idle

\* An order that is read or copied comes from the row or from its copy, and a
\* row stays.
LEMMA Sources ==
    ASSUME TypeOK, TypeOK', [Next]_vars
    PROVE  /\ row' \in Rows \cup {row}
           /\ cache' \in {cache, NoRow} \cup {call[c].seen : c \in Callers}
           /\ \A c \in Callers : call'[c].seen \in {call[c].seen, NoRow, cache, row}
<1> DEFINE Kept(c) == call'[c].seen \in {call[c].seen, NoRow, cache, row}
<1>0. \A c \in Callers : call[c] \in Call /\ call' \in [Callers -> Call]
  BY DEF TypeOK
<1>1. ASSUME NEW c \in Callers, NEW pc, GoTo(c, pc) \/ End(c) \/ Leave(c)
      PROVE  \A d \in Callers : Kept(d)
  BY <1>1, Moves
<1>2. ASSUME NEW c \in Callers, NEW outcome,
             \/ SetLock(c, IF call[c].op = "create" THEN "freeze" ELSE "cached", outcome)
             \/ CreateOrder(c, outcome) \/ UnfreezeAmount(c, outcome)
             \/ Judge(c) \/ Answer(c) \/ Release(c) \/ Die(c)
      PROVE  /\ row' \in Rows \cup {row} /\ cache' = cache
             /\ \A d \in Callers : Kept(d)
  <2>1. row' \in Rows \cup {row} /\ cache' = cache
    BY <1>2, OrderType
       DEF SetLock, CreateOrder, FreezeAmount, Insert, Compensate, RememberKey,
           UnfreezeAmount, Judge, Answer, Release, Die, store
  <2>2. \E pc : GoTo(c, pc) \/ End(c)
    BY <1>2
       DEF SetLock, CreateOrder, FreezeAmount, Insert, Compensate, RememberKey,
           UnfreezeAmount, Judge, Answer, Release, Die
  <2> QED
    BY <1>1, <2>1, <2>2
<1>3. ASSUME NEW c \in Callers, NEW outcome, GetByOrderID(c, outcome)
      PROVE  /\ row' = row /\ cache' \in {cache, call[c].seen}
             /\ \A d \in Callers : Kept(d)
  <2>1. row' = row /\ cache' \in {cache, call[c].seen}
    BY <1>3 DEF GetByOrderID, ReadCache, ReadRow, FillCache, store
  <2>3. CASE ReadCache(c, outcome)
    <3>1. CASE call' = [call EXCEPT ![c].pc = Purpose(call[c].op), ![c].seen = cache]
      BY <1>0, <2>1, <3>1 DEF Call
    <3>2. CASE GoTo(c, "select")
      BY <1>1, <2>1, <3>2
    <3> QED
      BY <2>1, <2>3, <3>1, <3>2 DEF ReadCache
  <2>4. CASE ReadRow(c, outcome)
    <3>1. CASE call' = [call EXCEPT ![c].pc = "copy", ![c].seen = row]
      BY <1>0, <2>1, <3>1 DEF Call
    <3>2. CASE Leave(c)
      BY <1>1, <2>1, <3>2
    <3> QED
      BY <2>1, <2>4, <3>1, <3>2 DEF ReadRow
  <2>5. CASE FillCache(c, outcome)
    BY <1>1, <2>1, <2>5 DEF FillCache
  <2> QED
    BY <1>3, <2>1, <2>3, <2>4, <2>5 DEF GetByOrderID
<1>4. ASSUME NEW c \in Callers, NEW outcome, UpdateStatus(c, outcome)
      PROVE  /\ row' \in Rows \cup {row} /\ cache' = cache
             /\ \A d \in Callers : Kept(d)
  <2>1. row' \in Rows \cup {row}
    BY <1>4, UpdatedType DEF UpdateStatus, At, Reading
  <2> QED
    BY <1>1, <1>4, <2>1 DEF UpdateStatus
<1>5. ASSUME NEW c \in Callers, NEW outcome, Invalidate(c, outcome)
      PROVE  /\ row' = row /\ cache' \in {cache, NoRow}
             /\ \A d \in Callers : Kept(d)
  <2>1. CASE call' = [call EXCEPT ![c] = [Idle EXCEPT !.pc = "cached"]]
    BY <1>0, <1>5, <2>1 DEF Invalidate, Idle, TypeOK
  <2> QED
    BY <1>1, <1>5, <2>1 DEF Invalidate
<1>6. ASSUME NEW c \in Callers, CheckKey(c) \/ Start(c)
      PROVE  row' = row /\ cache' = cache /\ \A d \in Callers : Kept(d)
  <2>1. \E op, pc, fill : Begin(c, op, pc, fill)
    BY <1>6 DEF CheckKey, Start, CancelOrder, GetOrder, UpdateOrderStatus
  <2>2. \A d \in Callers : Kept(d)
    BY <2>1 DEF Begin, TypeOK
  <2> QED
    BY <1>6, <2>2
       DEF CheckKey, Start, CancelOrder, GetOrder, UpdateOrderStatus, store
<1>7. CASE (\E n \in Locks : Expire(n)) \/ CopyExpires \/ UNCHANGED vars
  BY <1>7 DEF Expire, CopyExpires, vars, store
<1> QED
  BY <1>2, <1>3, <1>4, <1>5, <1>6, <1>7, Zenon DEF Next

LEMMA KnownStep == TypeOK /\ TypeOK' /\ Known /\ [Next]_vars => Known'
<1> SUFFICES ASSUME TypeOK, TypeOK', Known, [Next]_vars, row' = NoRow
             PROVE  cache' = NoRow /\ \A c \in Callers : call'[c].seen = NoRow
  BY DEF Known
<1>1. row = NoRow
  BY Sources
<1> QED
  BY <1>1, Sources DEF Known

LEMMA FrozenFinite == IsFiniteSet(Frozen) /\ IsFiniteSet(Frozen')
<1>1. Frozen \subseteq Callers /\ Frozen' \subseteq Callers
  BY DEF Frozen
<1> QED
  BY <1>1, FS_Subset

\* How one caller's move changes the number of those with money frozen.
LEMMA FrozenCount ==
    ASSUME NEW c \in Callers, \A d \in Callers \ {c} : call'[d] = call[d]
    PROVE  /\ Cardinality(Frozen) \in Nat /\ Cardinality(Frozen') \in Nat
           /\ (c \in Frozen <=> c \in Frozen')
                  => Cardinality(Frozen') = Cardinality(Frozen)
           /\ c \notin Frozen /\ c \in Frozen'
                  => Cardinality(Frozen') = Cardinality(Frozen) + 1
           /\ c \in Frozen /\ c \notin Frozen'
                  => Cardinality(Frozen') = Cardinality(Frozen) - 1
<1>1. IsFiniteSet(Frozen) /\ IsFiniteSet(Frozen')
  BY FrozenFinite
<1>2. Frozen' \ {c} = Frozen \ {c}
  BY DEF Frozen
<1>3. Cardinality(Frozen) \in Nat /\ Cardinality(Frozen') \in Nat
  BY <1>1, FS_CardinalityType
<1>4. (c \in Frozen <=> c \in Frozen') => Frozen' = Frozen
  BY <1>2
<1>5. c \notin Frozen /\ c \in Frozen' => Frozen' = Frozen \cup {c}
  BY <1>2
<1>6. c \in Frozen /\ c \notin Frozen' => Frozen' = Frozen \ {c}
  BY <1>2
<1> QED
  BY <1>1, <1>3, <1>4, <1>5, <1>6, FS_AddElement, FS_RemoveElement

\* A failure pays for a drift of one charge.
LEMMA DriftBound ==
    ASSUME TypeOK, Bounded, Drift \in Int,
           \/ Drift' = Drift /\ failures' \in {failures, failures + 1}
           \/ Drift' \in {Drift - Qty, Drift + Qty} /\ failures' = failures + 1
    PROVE  Bounded'
<1>1. failures \in Nat
  BY DEF TypeOK
<1>2. failures' = failures + 1 => Qty * failures' = Qty * failures + Qty
  BY <1>1
<1>3. Qty * failures \in Nat
  BY <1>1
<1> HIDE DEF Drift
<1> QED
  BY <1>1, <1>2, <1>3 DEF Bounded, Magnitude

\* The steps that move money for the key or make the order.
LEMMA BoundedCreate ==
    ASSUME TypeOK, TypeOK', Known, Bounded, NEW c \in Callers,
           NEW outcome \in Outcomes, CreateOrder(c, outcome)
    PROVE  Bounded'
<1> DEFINE n == Cardinality(Frozen)
<1>0. /\ n \in Nat /\ Qty \in Nat /\ charged \in Int /\ Drift \in Int
      /\ Qty * (n + 1) = Qty * n + Qty /\ Qty * (n - 1) = Qty * n - Qty
      /\ failures \in Nat
  <2>1. n \in Nat
    BY FrozenFinite, FS_CardinalityType
  <2>2. Qty \in Nat /\ charged \in Int /\ failures \in Nat
    BY DEF TypeOK
  <2>3. Qty * n \in Int /\ Owed \in Int
    BY <2>1, <2>2 DEF Owed
  <2> QED
    BY <2>1, <2>2, <2>3 DEF Drift
<1>1. ASSUME NEW pc, GoTo(c, pc)
      PROVE  /\ \A d \in Callers \ {c} : call'[d] = call[d]
             /\ call'[c].pc = pc
  <2>1. call' = [call EXCEPT ![c] = [call[c] EXCEPT !.pc = pc]]
    BY <1>1 DEF GoTo
  <2>2. [call[c] EXCEPT !.pc = pc].pc = pc
    BY PlaceOf DEF Call
  <2> QED
    BY <2>1, <2>2 DEF TypeOK
<1>2. ASSUME NEW pc, GoTo(c, pc)
      PROVE  LET In(p) == p \in {"insert", "compensate"}
             IN  /\ (In(pc) <=> In(call[c].pc)) => Qty * n' = Qty * n
                 /\ In(pc) /\ ~In(call[c].pc) => Qty * n' = Qty * n + Qty
                 /\ ~In(pc) /\ In(call[c].pc) => Qty * n' = Qty * n - Qty
  <2>1. /\ c \in Frozen <=> call[c].pc \in {"insert", "compensate"}
        /\ c \in Frozen' <=> pc \in {"insert", "compensate"}
    BY <1>1, <1>2 DEF Frozen
  <2> QED
    BY <1>0, <1>1, <1>2, <2>1, FrozenCount
<1>3. Drift = charged - Owed - Qty * n /\ Drift' = charged' - Owed' - Qty * n'
  BY DEF Drift
<1>4. Qty * n \in Int /\ Owed \in Int
  BY <1>0 DEF Owed
<1> HIDE DEF n
<1>5. CASE FreezeAmount(c, outcome)
  <2>1. Owed' = Owed
    BY <1>5 DEF FreezeAmount, store, Owed
  <2>2. CASE charged' = charged + Qty /\ GoTo(c, "insert") /\ UNCHANGED failures
    <3>1. Qty * n' = Qty * n + Qty
      BY <1>2, <1>5, <2>2 DEF FreezeAmount, At
    <3>2. Drift' = Drift
      BY <1>0, <1>3, <1>4, <2>1, <2>2, <3>1
    <3> QED
      BY <1>0, <2>2, <3>2, DriftBound
  <2>3. CASE charged' = charged + Qty /\ GoTo(c, "release") /\ failures' = failures + 1
    <3>1. Qty * n' = Qty * n
      BY <1>2, <1>5, <2>3 DEF FreezeAmount, At
    <3>2. Drift' = Drift + Qty
      BY <1>0, <1>3, <1>4, <2>1, <2>3, <3>1
    <3> QED
      BY <1>0, <2>3, <3>2, DriftBound
  <2>4. CASE charged' = charged /\ GoTo(c, "release") /\ UNCHANGED failures
    <3>1. Qty * n' = Qty * n
      BY <1>2, <1>5, <2>4 DEF FreezeAmount, At
    <3>2. Drift' = Drift
      BY <1>0, <1>3, <1>4, <2>1, <2>4, <3>1
    <3> QED
      BY <1>0, <2>4, <3>2, DriftBound
  <2> QED
    BY <1>5, <2>2, <2>3, <2>4 DEF FreezeAmount, Access, Fail
<1>6. CASE Insert(c, outcome)
  <2>1. charged' = charged
    BY <1>6 DEF Insert, money
  <2>2. CASE row = NoRow /\ Reported(outcome)
    <3>1. Qty * n' = Qty * n - Qty
      BY <1>2, <1>6, <2>2 DEF Insert, At
    <3>2. Owed = 0 /\ Owed' = Qty
      BY <1>6, <2>2, OrderType DEF Insert, Owed, Reported, Written
    <3>3. Drift' = Drift
      BY <1>0, <1>3, <1>4, <2>1, <3>1, <3>2
    <3> QED
      BY <1>0, <1>6, <2>2, <3>3, DriftBound DEF Insert, Access
  <2>3. CASE ~(row = NoRow /\ Reported(outcome))
    <3>1. Qty * n' = Qty * n
      BY <1>2, <1>6, <2>3 DEF Insert, At
    <3>2. CASE row # NoRow
      <4>1. Owed' = Owed
        BY <1>6, <3>2 DEF Insert, Owed
      <4>2. Drift' = Drift
        BY <1>0, <1>3, <1>4, <2>1, <3>1, <4>1
      <4> QED
        BY <1>0, <1>6, <4>2, DriftBound DEF Insert, Access, Fail
    <3>3. CASE row = NoRow
      <4>1. failures' = failures + 1 /\ Owed = 0
        BY <1>6, <2>3, <3>3 DEF Insert, Access, Fail, Owed
      <4>2. Owed' \in {0, Qty}
        BY DEF Owed
      <4>3. Drift' \in {Drift, Drift - Qty}
        BY <1>0, <1>3, <1>4, <2>1, <3>1, <4>1, <4>2
      <4> QED
        BY <1>0, <4>1, <4>3, DriftBound
    <3> QED
      BY <3>2, <3>3
  <2> QED
    BY <2>2, <2>3
<1>7. CASE Compensate(c, outcome)
  <2>1. Qty * n' = Qty * n - Qty
    BY <1>2, <1>7 DEF Compensate, At
  <2>2. Owed' = Owed
    BY <1>7 DEF Compensate, store, Owed
  <2>3. CASE Reported(outcome)
    <3>1. charged' = charged - Qty /\ UNCHANGED failures
      BY <1>7, <2>3 DEF Compensate, Access, Reported, Written
    <3>2. Drift' = Drift
      BY <1>0, <1>3, <1>4, <2>1, <2>2, <3>1
    <3> QED
      BY <1>0, <3>1, <3>2, DriftBound
  <2>4. CASE ~Reported(outcome)
    <3>1. charged' \in {charged, charged - Qty} /\ failures' = failures + 1
      BY <1>7, <2>4 DEF Compensate, Access, Fail
    <3>2. Drift' \in {Drift, Drift + Qty}
      BY <1>0, <1>3, <1>4, <2>1, <2>2, <3>1
    <3> QED
      BY <1>0, <3>1, <3>2, DriftBound
  <2> QED
    BY <2>3, <2>4
<1>8. CASE RememberKey(c, outcome)
  <2>1. Qty * n' = Qty * n
    BY <1>2, <1>8 DEF RememberKey, At
  <2>2. Owed' = Owed /\ charged' = charged /\ failures' \in {failures, failures + 1}
    BY <1>8 DEF RememberKey, money, Owed, Access, Fail
  <2>3. Drift' = Drift
    BY <1>0, <1>3, <1>4, <2>1, <2>2
  <2> QED
    BY <1>0, <2>2, <2>3, DriftBound
<1> QED
  BY <1>5, <1>6, <1>7, <1>8 DEF CreateOrder

\* The drift is kept by a step that moves no money of the key and that neither
\* makes the order nor takes a caller to where it has money frozen.
LEMMA BoundedFrame ==
    ASSUME TypeOK, Bounded, NEW c \in Callers,
           charged' = charged, row' = NoRow <=> row = NoRow,
           \A d \in Callers \ {c} : call'[d] = call[d],
           call'[c].pc \notin {"insert", "compensate"},
           \/ /\ call[c].pc \notin {"insert", "compensate"}
              /\ failures' \in {failures, failures + 1}
           \/ failures' = failures + 1
    PROVE  Bounded'
<1> DEFINE n == Cardinality(Frozen)
<1>1. n \in Nat /\ n' \in Nat
  BY FrozenFinite, FS_CardinalityType
<1>2. Owed' = Owed /\ Owed \in Int /\ charged \in Int /\ failures \in Nat
  BY DEF Owed, TypeOK
<1>3. /\ c \in Frozen <=> call[c].pc \in {"insert", "compensate"}
      /\ c \notin Frozen'
  BY DEF Frozen
<1>4. Drift = charged - Owed - Qty * n /\ Drift' = charged' - Owed' - Qty * n'
  BY DEF Drift
<1>5. Qty * n \in Int /\ Qty * (n - 1) = Qty * n - Qty
  BY <1>1
<1>6. CASE c \notin Frozen
  <2>1. n' = n
    BY <1>3, <1>6, FrozenCount
  <2> HIDE DEF n
  <2>2. Drift' = Drift /\ Drift \in Int
    BY <1>2, <1>4, <1>5, <2>1
  <2> QED
    BY <2>2, DriftBound
<1>7. CASE c \in Frozen
  <2>1. n' = n - 1 /\ failures' = failures + 1
    BY <1>3, <1>7, FrozenCount
  <2> HIDE DEF n
  <2>2. Drift' = Drift + Qty /\ Drift \in Int
    BY <1>2, <1>4, <1>5, <2>1
  <2> QED
    BY <2>1, <2>2, DriftBound
<1> QED
  BY <1>6, <1>7

LEMMA BoundedInit == Init => Bounded
<1> SUFFICES ASSUME Init PROVE Bounded
  OBVIOUS
<1>1. Frozen = {}
  BY DEF Init, Frozen, Idle
<1>2. Cardinality(Frozen) = 0
  BY <1>1, FS_EmptySet
<1> QED
  BY <1>2 DEF Init, Bounded, Drift, Owed, Magnitude

LEMMA BoundedStep ==
    TypeOK /\ TypeOK' /\ Known /\ Bounded /\ [Next]_vars => Bounded'
<1> SUFFICES ASSUME TypeOK, TypeOK', Known, Bounded, [Next]_vars PROVE Bounded'
  OBVIOUS
<1>1. ASSUME NEW c \in Callers, NEW outcome \in Outcomes,
             \/ SetLock(c, IF call[c].op = "create" THEN "freeze" ELSE "cached", outcome)
             \/ GetByOrderID(c, outcome) \/ UnfreezeAmount(c, outcome)
             \/ UpdateStatus(c, outcome) \/ Invalidate(c, outcome)
      PROVE  Bounded'
  <2>1. charged' = charged /\ failures' \in {failures, failures + 1}
    BY <1>1
       DEF SetLock, GetByOrderID, ReadCache, ReadRow, FillCache, UnfreezeAmount,
           UpdateStatus, Invalidate, money, Access, Fail
  <2>2. row' = NoRow <=> row = NoRow
    <3>1. CASE UpdateStatus(c, outcome)
      BY <3>1, PlaceOf, UpdatedType DEF UpdateStatus, Known, At, Reading
    <3> QED
      BY <1>1, <3>1
         DEF SetLock, GetByOrderID, ReadCache, ReadRow, FillCache, UnfreezeAmount,
             Invalidate, store
  <2>3. call[c].pc \notin {"insert", "compensate"}
    BY <1>1
       DEF SetLock, GetByOrderID, ReadCache, ReadRow, FillCache, UnfreezeAmount,
           UpdateStatus, Invalidate, At
  <2>4. /\ \A d \in Callers \ {c} : call'[d] = call[d]
        /\ call'[c].pc \notin {"insert", "compensate"}
    <3>1. Purpose(call[c].op) \notin {"insert", "compensate"}
              \/ call[c].op = "create"
      <4>1. call[c].op \in {"create", "cancel", "get", "fill"}
        BY PlaceOf DEF Operations, Locks
      <4> QED
        BY <4>1 DEF Purpose
    <3>2. ASSUME NEW pc, GoTo(c, pc) \/ End(c) \/ Leave(c),
                 pc \notin {"insert", "compensate"}
          PROVE  /\ \A d \in Callers \ {c} : call'[d] = call[d]
                 /\ call'[c].pc \notin {"insert", "compensate"}
      BY <3>2, Moves
    <3>3. CASE SetLock(c, IF call[c].op = "create" THEN "freeze" ELSE "cached", outcome)
      BY <3>2, <3>3 DEF SetLock
    <3>4. CASE ReadCache(c, outcome)
      <4>1. CASE call' = [call EXCEPT ![c].pc = Purpose(call[c].op), ![c].seen = cache]
        BY <3>1, <3>4, <4>1, PlaceOf DEF TypeOK, Call, ReadCache, At
      <4>2. CASE GoTo(c, "select")
        BY <3>2, <4>2
      <4> QED
        BY <3>4, <4>1, <4>2 DEF ReadCache
    <3>5. CASE ReadRow(c, outcome)
      <4>1. CASE call' = [call EXCEPT ![c].pc = "copy", ![c].seen = row]
        BY <4>1 DEF TypeOK, Call
      <4>2. CASE Leave(c)
        BY <3>2, <4>2
      <4> QED
        BY <3>5, <4>1, <4>2 DEF ReadRow
    <3>6. CASE FillCache(c, outcome)
      BY <3>1, <3>2, <3>6, PlaceOf DEF FillCache, At
    <3>7. CASE UnfreezeAmount(c, outcome)
      BY <3>2, <3>7 DEF UnfreezeAmount
    <3>8. CASE UpdateStatus(c, outcome)
      BY <3>2, <3>8 DEF UpdateStatus
    <3>9. CASE Invalidate(c, outcome)
      <4>1. CASE call' = [call EXCEPT ![c] = [Idle EXCEPT !.pc = "cached"]]
        BY <4>1 DEF TypeOK, Idle
      <4>2. CASE GoTo(c, "release")
        BY <3>2, <4>2
      <4> QED
        BY <3>9, <4>1, <4>2 DEF Invalidate
    <3> QED
      BY <1>1, <3>3, <3>4, <3>5, <3>6, <3>7, <3>8, <3>9 DEF GetByOrderID
  <2> QED
    BY <2>1, <2>2, <2>3, <2>4, BoundedFrame
<1>2. ASSUME NEW c \in Callers, Judge(c) \/ Answer(c) \/ Release(c) \/ Die(c)
      PROVE  Bounded'
  <2>1. /\ charged' = charged /\ row' = row
        /\ \/ call[c].pc \notin {"insert", "compensate"} /\ failures' = failures
           \/ failures' = failures + 1
    BY <1>2 DEF Judge, Answer, Release, Die, store, money, Fail, At
  <2>2. \E pc \in {"release", "unfreeze", "update"} : GoTo(c, pc) \/ End(c)
    BY <1>2 DEF Judge, Answer, Release, Die
  <2>3. /\ \A d \in Callers \ {c} : call'[d] = call[d]
        /\ call'[c].pc \notin {"insert", "compensate"}
    BY <2>2, Moves
  <2> QED
    BY <2>1, <2>3, BoundedFrame
<1>3. ASSUME NEW c \in Callers, CheckKey(c) \/ Start(c)
      PROVE  Bounded'
  <2>1. charged' = charged /\ row' = row /\ failures' \in {failures, failures + 1}
    BY <1>3
       DEF CheckKey, Start, CancelOrder, GetOrder, UpdateOrderStatus, store, money, Fail
  <2>2. \E op \in Operations, pc \in {"lock", "cached"}, fill \in Int :
            Begin(c, op, pc, fill)
    BY <1>3
       DEF CheckKey, Start, CancelOrder, GetOrder, UpdateOrderStatus, Operations, Locks
  <2>3. call[c].pc = "idle" /\ call'[c].pc \notin {"insert", "compensate"}
            /\ \A d \in Callers \ {c} : call'[d] = call[d]
    BY <2>2 DEF Begin, At, TypeOK
  <2> QED
    BY <2>1, <2>3, BoundedFrame
<1>4. CASE (\E n \in Locks : Expire(n)) \/ CopyExpires \/ UNCHANGED vars
  <2>1. Drift' = Drift /\ failures' = failures
    BY <1>4 DEF Drift, Owed, Frozen, Expire, CopyExpires, vars, store, money
  <2> QED
    BY <2>1 DEF Bounded
<1> QED
  BY <1>1, <1>2, <1>3, <1>4, BoundedCreate DEF Next

\* However many calls are made with the key and whatever locks expire between
\* them, the key is charged once if it has an order and not at all otherwise, to
\* within one charge for each failure.
THEOREM ChargedOnce == Spec => []OneCharge
<1>1. TypeOK /\ Bounded => OneCharge
  <2> SUFFICES ASSUME TypeOK, Bounded, ~Underway("create")
               PROVE  Magnitude(charged - Owed) <= Qty * failures
    BY DEF OneCharge, Owed
  <2>1. Frozen = {}
    BY PlaceOf DEF Frozen, Underway, At
  <2>2. Cardinality(Frozen) = 0
    BY <2>1, FS_EmptySet
  <2>3. charged - Owed \in Int
    BY DEF TypeOK, Owed
  <2> QED
    BY <2>2, <2>3 DEF Bounded, Drift
<1> QED
  BY <1>1, InitType, StepType, KnownInit, KnownStep, BoundedInit, BoundedStep, PTL
     DEF Spec

-----------------------------------------------------------------------------
(* The money a cancellation gives back *)

\* An order that may be cancelled has something left to give back.
Open(o) == o # NoRow /\ MayCancel(o) => Remaining(o) > 0
AllOpen == Open(row) /\ Open(cache) /\ \A c \in Callers : Open(call[c].seen)

\* Nothing has failed, and no two calls have met that the code does not keep
\* apart.
Quiet == failures = 0 /\ overlaps \subseteq {"create"}

Cancelling(c, places) == call[c].op = "cancel" /\ call[c].pc \in places

\* A cancellation has given the money back and has not yet said so in the row.
Settling == \E c \in Callers : Cancelling(c, {"update"})

\* The lock keeps cancellations apart, and the one that has read the order has
\* it as it is; what it gives back is what the row, now or next, says is left.
Exact ==
    Quiet =>
        /\ \A c \in Callers : Holds(c, "cancel") => lock["cancel"]
        /\ \A c, d \in Callers : Holds(c, "cancel") /\ Holds(d, "cancel") => c = d
        /\ \A c \in Callers :
              Cancelling(c, {"judge", "unfreeze", "update"}) => call[c].seen = row
        /\ \A c \in Callers :
              Cancelling(c, {"unfreeze", "update"}) => MayCancel(call[c].seen)
        /\ refunded = IF row # NoRow /\ (row.status = "cancelled" \/ Settling)
                      THEN Remaining(row) ELSE 0

\* A row is made or changed to one that may be cancelled only with something
\* left.
LEMMA RowStaysOpen ==
    ASSUME TypeOK, [Next]_vars, row' # row
    PROVE  Open(row')
<1>1. ASSUME NEW fill \in Int, fill < Qty
      PROVE  Open(Order("pending", 0)) /\ Open(Order("partial_filled", fill))
  BY <1>1 DEF Open, Order, Remaining
<1>2. ASSUME NEW status \in {"filled", "cancelled"}, NEW fill
      PROVE  Open(Order(status, fill))
  BY <1>2 DEF Open, Order, MayCancel
<1>3. ASSUME NEW c \in Callers, NEW outcome, UpdateStatus(c, outcome)
      PROVE  Open(row')
  <2>1. row' = Updated(c)
    BY <1>3 DEF UpdateStatus
  <2>2. call[c].fill \in Int
    BY PlaceOf DEF Call
  <2> QED
    BY <1>1, <1>2, <2>1, <2>2 DEF Updated
<1>4. ASSUME NEW c \in Callers, NEW outcome, CreateOrder(c, outcome)
      PROVE  Open(row')
  BY <1>1, <1>4 DEF CreateOrder, FreezeAmount, Insert, Compensate, RememberKey, store
<1>5. ASSUME NEW c \in Callers, NEW outcome, NEW pc,
             \/ SetLock(c, pc, outcome) \/ GetByOrderID(c, outcome)
             \/ UnfreezeAmount(c, outcome) \/ Invalidate(c, outcome)
      PROVE  row' = row
  BY <1>5
     DEF SetLock, GetByOrderID, ReadCache, ReadRow, FillCache, UnfreezeAmount,
         Invalidate, store
<1>6. ASSUME NEW c \in Callers,
             CheckKey(c) \/ Start(c) \/ Judge(c) \/ Answer(c) \/ Release(c) \/ Die(c)
      PROVE  row' = row
  BY <1>6 DEF CheckKey, Start, Judge, Answer, Release, Die, store
<1>7. CASE (\E n \in Locks : Expire(n)) \/ CopyExpires \/ UNCHANGED vars
  BY <1>7 DEF Expire, CopyExpires, vars, store
<1> QED
  BY <1>3, <1>4, <1>5, <1>6, <1>7 DEF Next

LEMMA OpenInit == Init => AllOpen
BY DEF Init, AllOpen, Open, Idle

LEMMA OpenStep == TypeOK /\ TypeOK' /\ AllOpen /\ [Next]_vars => AllOpen'
<1> SUFFICES ASSUME TypeOK, TypeOK', AllOpen, [Next]_vars PROVE AllOpen'
  OBVIOUS
<1>1. Open(row')
  BY RowStaysOpen DEF AllOpen
<1>2. Open(NoRow)
  BY DEF Open
<1>3. Open(cache') /\ \A c \in Callers : Open(call'[c].seen)
  BY <1>2, Sources DEF AllOpen
<1> QED
  BY <1>1, <1>3 DEF AllOpen

LEMMA ExactInit == Init => Exact
BY DEF Init, Exact, Holds, Cancelling, Settling, Idle

\* Failures and overlaps are never forgotten.
LEMMA QuietBefore ==
    ASSUME TypeOK, [Next]_vars, Quiet'
    PROVE  Quiet /\ failures' = 0
<1>1. failures \in Nat /\ failures' = 0
  BY DEF TypeOK, Quiet
<1> DEFINE Grown == failures = 0 /\ overlaps \subseteq overlaps'
<1>2. ASSUME NEW outcome, Access(outcome)
      PROVE  failures = 0
  BY <1>1, <1>2 DEF Access, Fail
<1>3. ASSUME NEW c \in Callers, NEW outcome, CreateOrder(c, outcome)
      PROVE  Grown
  BY <1>1, <1>2, <1>3
     DEF CreateOrder, FreezeAmount, Insert, Compensate, RememberKey
<1>4. ASSUME NEW c \in Callers, NEW outcome, NEW pc,
             SetLock(c, pc, outcome) \/ GetByOrderID(c, outcome)
      PROVE  Grown
  BY <1>2, <1>4 DEF SetLock, GetByOrderID, ReadCache, ReadRow, FillCache
<1>5. ASSUME NEW c \in Callers, NEW outcome,
             \/ UnfreezeAmount(c, outcome) \/ UpdateStatus(c, outcome)
             \/ Invalidate(c, outcome)
      PROVE  Grown
  BY <1>2, <1>5 DEF UnfreezeAmount, UpdateStatus, Invalidate
<1>6. ASSUME NEW c \in Callers,
             CheckKey(c) \/ Start(c) \/ Judge(c) \/ Answer(c) \/ Release(c) \/ Die(c)
      PROVE  Grown
  BY <1>1, <1>6 DEF CheckKey, Start, Judge, Answer, Release, Die, Fail
<1>7. ASSUME (\E n \in Locks : Expire(n)) \/ CopyExpires \/ UNCHANGED vars
      PROVE  Grown
  <2>1. CASE \E n \in Locks : Expire(n)
    BY <1>1, <2>1 DEF Expire
  <2>2. CASE CopyExpires \/ UNCHANGED vars
    BY <1>1, <2>2 DEF CopyExpires, vars
  <2> QED
    BY <1>7, <2>1, <2>2
<1> HIDE DEF Grown
<1>8. Grown
  BY <1>3, <1>4, <1>5, <1>6, <1>7 DEF Next
<1> QED
  BY <1>1, <1>8 DEF Quiet, Grown

LEMMA GoToMoves ==
    ASSUME TypeOK, NEW c \in Callers, NEW pc, GoTo(c, pc)
    PROVE  /\ \A d \in Callers \ {c} : call'[d] = call[d]
           /\ call'[c].pc = pc /\ call'[c].op = call[c].op
           /\ call'[c].seen = call[c].seen
<1> DEFINE r == [call[c] EXCEPT !.pc = pc]
<1>1. call[c] \in Call /\ call \in [Callers -> Call]
  BY DEF TypeOK
<1>2. call' = [call EXCEPT ![c] = r]
  BY DEF GoTo
<1>3. r.pc = pc /\ r.op = call[c].op /\ r.seen = call[c].seen
  BY <1>1 DEF Call
<1>4. call'[c] = r
  BY <1>1, <1>2
<1> HIDE DEF r
<1> QED
  BY <1>1, <1>2, <1>3, <1>4

LEMMA EndMoves ==
    ASSUME TypeOK, NEW c \in Callers, End(c)
    PROVE  /\ \A d \in Callers \ {c} : call'[d] = call[d]
           /\ call'[c].pc = "idle" /\ call'[c].op = "get"
BY DEF TypeOK, End, Idle

\* What Exact says is kept by a step of one caller that moves no money and
\* leaves the row and the lock alone, unless the caller comes to hold the lock
\* or an order that is not the row.
LEMMA ExactFrame ==
    ASSUME TypeOK, Exact, Quiet, NEW c \in Callers,
           row' = row, refunded' = refunded, lock'["cancel"] = lock["cancel"],
           \A d \in Callers \ {c} : call'[d] = call[d],
           \/ call'[c].op # "cancel" /\ ~Cancelling(c, {"update"})
           \/ /\ Holds(c, "cancel")
              /\ Cancelling(c, {"judge", "unfreeze", "update"})'
                    => call'[c].seen = row
              /\ Cancelling(c, {"unfreeze", "update"})'
                    => MayCancel(call'[c].seen)
              /\ Cancelling(c, {"update"})' <=> Cancelling(c, {"update"})
           \/ /\ call'[c].pc \in {"idle", "lock"} /\ ~Cancelling(c, {"update"})
    PROVE  Exact'
<1>1. \A d \in Callers : Holds(d, "cancel")' => Holds(d, "cancel")
  BY DEF Holds, Cancelling
<1>2. \A d \in Callers :
        Cancelling(d, {"judge", "unfreeze", "update"})' => call'[d].seen = row
  BY DEF Exact, Cancelling
<1>3. \A d \in Callers :
        Cancelling(d, {"unfreeze", "update"})' => MayCancel(call'[d].seen)
  BY DEF Exact, Cancelling
<1>4. \A d \in Callers :
        Cancelling(d, {"update"})' <=> Cancelling(d, {"update"})
  BY DEF Cancelling
<1>5. Settling' <=> Settling
  BY <1>4 DEF Settling
<1>6. /\ \A d \in Callers : Holds(d, "cancel")' => lock'["cancel"]
      /\ \A d, e \in Callers : Holds(d, "cancel")' /\ Holds(e, "cancel")' => d = e
  BY <1>1 DEF Exact
<1>7. refunded' = IF row' # NoRow /\ (row'.status = "cancelled" \/ Settling')
                  THEN Remaining(row)' ELSE 0
  BY <1>5 DEF Exact, Remaining
<1> QED
  BY <1>2, <1>3, <1>6, <1>7 DEF Exact

\* The steps of a creating call: they hold no cancel lock, and there was no order
\* to give anything back for if they make one.
LEMMA ExactCreate ==
    ASSUME TypeOK, Known, Exact, Quiet, NEW c \in Callers, NEW outcome,
           CreateOrder(c, outcome)
    PROVE  Exact'
<1>1. call[c].op = "create"
  BY PlaceOf
     DEF CreateOrder, FreezeAmount, Insert, Compensate, RememberKey, At
<1>2. PICK pc : GoTo(c, pc)
  BY DEF CreateOrder, FreezeAmount, Insert, Compensate, RememberKey
<1>3. /\ \A d \in Callers \ {c} : call'[d] = call[d]
      /\ call'[c].op = "create"
  BY <1>1, <1>2, GoToMoves
<1>4. refunded' = refunded /\ lock' = lock
  BY DEF CreateOrder, FreezeAmount, Insert, Compensate, RememberKey, store, money
<1>5. CASE row' = row
  BY <1>1, <1>3, <1>4, <1>5, ExactFrame DEF Cancelling
<1>6. CASE row' # row
  <2>1. row = NoRow /\ row' = Order("pending", 0)
    BY <1>6
       DEF CreateOrder, FreezeAmount, Insert, Compensate, RememberKey, store
  <2>2. \A d \in Callers : ~Cancelling(d, {"judge", "unfreeze", "update"})
    BY <2>1, PlaceOf DEF Cancelling, Known, Reading
  <2>3. \A d \in Callers : ~Cancelling(d, {"judge", "unfreeze", "update"})'
    BY <1>3, <2>2 DEF Cancelling
  <2>4. \A d \in Callers : Holds(d, "cancel")' => Holds(d, "cancel")
    BY <1>3 DEF Holds
  <2>5. refunded = 0
    BY <2>1 DEF Exact
  <2>6. ~Settling' /\ row'.status # "cancelled"
    BY <2>1, <2>3 DEF Settling, Cancelling, Order
  <2>7. refunded' = IF row' # NoRow /\ (row'.status = "cancelled" \/ Settling')
                    THEN Remaining(row)' ELSE 0
    BY <1>4, <2>5, <2>6
  <2>8. \A d \in Callers : ~Cancelling(d, {"unfreeze", "update"})'
    BY <2>3 DEF Cancelling
  <2> QED
    BY <1>4, <2>3, <2>4, <2>7, <2>8 DEF Exact
<1> QED
  BY <1>5, <1>6

\* A cancellation reads the order as it is: no fill is between its write and its
\* Del, no other cancellation is, and what is being copied is the row.
LEMMA ExactGet ==
    ASSUME TypeOK, Fresh, Exact, Quiet, Quiet', NEW c \in Callers,
           NEW outcome \in Outcomes, GetByOrderID(c, outcome)
    PROVE  Exact'
<1>1. /\ row' = row /\ refunded' = refunded /\ lock' = lock
      /\ call[c].pc \in {"cached", "select", "copy"}
      /\ call[c] \in Call /\ call \in [Callers -> Call]
  BY DEF GetByOrderID, ReadCache, ReadRow, FillCache, store, money, At, TypeOK
<1>2. ~Cancelling(c, {"update"}) /\ (call[c].op = "cancel" => Holds(c, "cancel"))
  BY <1>1 DEF Cancelling, Holds
<1>3. /\ failures = 0 /\ "copy" \notin overlaps
      /\ "fill" \notin overlaps'
  BY DEF Quiet
<1>4. call[c].op \in {"cancel", "get", "fill"}
  BY <1>1, PlaceOf DEF Operations, Locks
<1>5. ASSUME NEW pc, call[c].op = "cancel" => pc \in {"select", "release", "copy"},
             GoTo(c, pc) \/ End(c)
      PROVE  Exact'
  <2>1. CASE GoTo(c, pc)
    <3>1. /\ \A d \in Callers \ {c} : call'[d] = call[d]
          /\ call'[c].pc = pc /\ call'[c].op = call[c].op
      BY <2>1, GoToMoves
    <3> QED
      BY <1>1, <1>2, <1>5, <3>1, ExactFrame DEF Cancelling
  <2>2. CASE End(c)
    BY <1>1, <1>2, <2>2, EndMoves, ExactFrame
  <2> QED
    BY <1>5, <2>1, <2>2
<1>6. CASE ReadCache(c, outcome)
  <2>1. CASE cache # NoRow /\ Reported(outcome)
    <3>1. /\ \A d \in Callers \ {c} : call'[d] = call[d]
          /\ call'[c].op = call[c].op /\ call'[c].seen = cache
          /\ call'[c].pc = Purpose(call[c].op)
      BY <1>1, <1>6, <2>1 DEF ReadCache, Call
    <3>2. ASSUME call[c].op = "cancel" PROVE cache = row
      <4>1. ~Invalidating
        BY <1>3, <1>6, <2>1, <3>2 DEF ReadCache
      <4>2. \A d \in Callers : ~At(d, "invalidate")
        <5> SUFFICES ASSUME NEW d \in Callers, At(d, "invalidate") PROVE FALSE
          OBVIOUS
        <5>1. call[d].op = "cancel"
          BY <4>1, PlaceOf DEF Invalidating, At
        <5>2. Holds(d, "cancel") /\ Holds(c, "cancel")
          BY <1>2, <3>2, <5>1 DEF Holds, At
        <5>3. c = d
          BY <5>2 DEF Exact
        <5> QED
          BY <1>1, <5>3 DEF At
      <4> QED
        BY <1>3, <2>1, <4>2 DEF Fresh
    <3>3. Purpose(call[c].op) = "judge" \/ call[c].op # "cancel"
      BY DEF Purpose
    <3> QED
      BY <1>1, <1>2, <3>1, <3>2, <3>3, ExactFrame DEF Cancelling
  <2>2. CASE GoTo(c, "select")
    BY <1>5, <2>2
  <2> QED
    BY <1>6, <2>1, <2>2 DEF ReadCache
<1>7. CASE ReadRow(c, outcome)
  <2>1. CASE call' = [call EXCEPT ![c].pc = "copy", ![c].seen = row]
    <3>1. /\ \A d \in Callers \ {c} : call'[d] = call[d]
          /\ call'[c].op = call[c].op /\ call'[c].pc = "copy"
      BY <1>1, <2>1 DEF Call
    <3> QED
      BY <1>1, <1>2, <3>1, ExactFrame DEF Cancelling
  <2>2. CASE Leave(c)
    BY <1>5, <2>2 DEF Leave
  <2> QED
    BY <1>7, <2>1, <2>2 DEF ReadRow
<1>8. CASE FillCache(c, outcome)
  <2>1. GoTo(c, Purpose(call[c].op)) /\ At(c, "copy")
    BY <1>8 DEF FillCache
  <2>2. /\ \A d \in Callers \ {c} : call'[d] = call[d]
        /\ call'[c].pc = Purpose(call[c].op) /\ call'[c].op = call[c].op
        /\ call'[c].seen = call[c].seen
    BY <2>1, GoToMoves
  <2>3. call[c].seen = row
    BY <1>3, <2>1 DEF Fresh
  <2>4. Purpose(call[c].op) = "judge" \/ call[c].op # "cancel"
    BY DEF Purpose
  <2> QED
    BY <1>1, <1>2, <2>2, <2>3, <2>4, ExactFrame DEF Cancelling
<1> QED
  BY <1>6, <1>7, <1>8 DEF GetByOrderID

\* The lock of a cancellation is taken by a call that finds it free, when nobody
\* holds it, and given back by the only one that does.
LEMMA ExactLock ==
    ASSUME TypeOK, Exact, Quiet, Quiet', NEW c \in Callers, NEW outcome \in Outcomes,
           \/ SetLock(c, IF call[c].op = "create" THEN "freeze" ELSE "cached", outcome)
           \/ Release(c)
           \/ \E n \in Locks : Expire(n)
    PROVE  Exact'
<1>0. /\ call[c] \in Call /\ call \in [Callers -> Call]
      /\ lock \in [Locks -> BOOLEAN] /\ "cancel" \in Locks
  BY DEF TypeOK, Locks
<1>1. ASSUME lock' = [lock EXCEPT !["create"] = lock'["create"]],
             row' = row, refunded' = refunded,
             \A d \in Callers \ {c} : call'[d] = call[d],
             call'[c].op # "cancel", ~Cancelling(c, {"update"})
      PROVE  Exact'
  <2>1. lock'["cancel"] = lock["cancel"]
    BY <1>0, <1>1
  <2> QED
    BY <1>1, <2>1, ExactFrame
<1>2. CASE SetLock(c, IF call[c].op = "create" THEN "freeze" ELSE "cached", outcome)
  <2>1. /\ call[c].pc = "lock" /\ row' = row /\ refunded' = refunded
        /\ call[c].op \in Locks
    BY <1>2, PlaceOf DEF SetLock, store, money, At
  <2>2. CASE End(c)
    <3>1. /\ \A d \in Callers \ {c} : call'[d] = call[d]
          /\ call'[c].pc = "idle" /\ call'[c].op = "get"
      BY <2>2, EndMoves
    <3>2. lock["cancel"] => lock'["cancel"]
      BY <1>0, <1>2, <2>1 DEF SetLock
    <3>3. /\ \A d \in Callers : Holds(d, "cancel")' => Holds(d, "cancel")
          /\ \A d \in Callers : \A p \in SUBSET {"judge", "unfreeze", "update"} :
                Cancelling(d, p)' <=> Cancelling(d, p)
          /\ \A d \in Callers : Cancelling(d, {"judge", "unfreeze", "update"})'
                => call'[d].seen = call[d].seen
      BY <2>1, <3>1 DEF Holds, Cancelling
    <3>4. Settling' <=> Settling
      BY <3>3 DEF Settling
    <3> QED
      BY <2>1, <3>1, <3>2, <3>3, <3>4 DEF Exact, Remaining, Cancelling
  <2>3. CASE ~End(c) /\ call[c].op = "create"
    <3>1. GoTo(c, "freeze")
      BY <1>2, <2>3 DEF SetLock
    <3>2. /\ \A d \in Callers \ {c} : call'[d] = call[d]
          /\ call'[c].op = "create"
      BY <2>3, <3>1, GoToMoves
    <3>3. lock'["cancel"] = lock["cancel"]
      BY <1>0, <1>2, <2>3 DEF SetLock
    <3> QED
      BY <2>1, <2>3, <3>2, <3>3, ExactFrame DEF Cancelling
  <2>4. CASE ~End(c) /\ call[c].op = "cancel"
    <3>1. GoTo(c, "cached") /\ ~lock["cancel"] /\ lock'["cancel"] = TRUE
      <4>1. GoTo(c, "cached") /\ ~lock["cancel"] /\ Reported(outcome)
        BY <1>2, <2>4 DEF SetLock
      <4>2. Written(outcome)
        BY <4>1 DEF Reported, Written
      <4> QED
        BY <1>0, <1>2, <2>4, <4>1, <4>2 DEF SetLock
    <3>2. /\ \A d \in Callers \ {c} : call'[d] = call[d]
          /\ call'[c].pc = "cached"
      BY <3>1, GoToMoves
    <3>3. \A d \in Callers : ~Holds(d, "cancel")
      BY <3>1 DEF Exact
    <3>4. \A d \in Callers : Holds(d, "cancel")' => d = c
      BY <3>2, <3>3 DEF Holds
    <3>5. \A d \in Callers : \A p \in SUBSET {"judge", "unfreeze", "update"} :
                ~Cancelling(d, p) /\ ~Cancelling(d, p)'
      BY <2>1, <3>2, <3>3 DEF Holds, Cancelling
    <3>6. ~Settling /\ ~Settling'
      BY <3>5 DEF Settling
    <3> QED
      BY <2>1, <3>1, <3>4, <3>5, <3>6 DEF Exact, Remaining
  <2> QED
    BY <2>1, <2>2, <2>3, <2>4 DEF Locks
<1>3. CASE Release(c)
  <2>1. /\ call[c].pc = "release" /\ row' = row /\ refunded' = refunded
        /\ call[c].op \in Locks /\ End(c)
        /\ lock' = [lock EXCEPT ![call[c].op] = FALSE]
    BY <1>3, PlaceOf DEF Release, store, money, At
  <2>2. /\ \A d \in Callers \ {c} : call'[d] = call[d]
        /\ call'[c].pc = "idle" /\ call'[c].op = "get"
    BY <2>1, EndMoves
  <2>3. CASE call[c].op = "create"
    <3>1. lock'["cancel"] = lock["cancel"]
      BY <1>0, <2>1, <2>3
    <3> QED
      BY <2>1, <2>2, <2>3, <3>1, ExactFrame DEF Cancelling
  <2>4. CASE call[c].op = "cancel"
    <3>1. \A d \in Callers \ {c} : ~Holds(d, "cancel")
      BY <2>1, <2>4 DEF Exact, Holds
    <3>2. \A d \in Callers : ~Holds(d, "cancel")'
      BY <2>2, <3>1 DEF Holds
    <3>3. \A d \in Callers : \A p \in SUBSET {"judge", "unfreeze", "update"} :
                ~Cancelling(d, p) /\ ~Cancelling(d, p)'
      BY <2>1, <2>2, <3>1 DEF Holds, Cancelling
    <3>4. ~Settling /\ ~Settling'
      BY <3>3 DEF Settling
    <3> QED
      BY <2>1, <3>2, <3>3, <3>4 DEF Exact, Remaining
  <2> QED
    BY <2>1, <2>3, <2>4 DEF Locks
<1>4. ASSUME NEW n \in Locks, Expire(n)
      PROVE  Exact'
  <2>1. /\ UNCHANGED <<row, call, refunded>>
        /\ lock' = [lock EXCEPT ![n] = FALSE]
    BY <1>4 DEF Expire, store, money
  <2>2. \A d \in Callers : Holds(d, "cancel") => lock'["cancel"]
    <3>1. CASE n = "create"
      BY <1>0, <2>1, <3>1 DEF Exact
    <3>2. CASE n = "cancel"
      <4>1. "cancel" \notin overlaps'
        BY DEF Quiet
      <4> QED
        BY <1>4, <3>2, <4>1 DEF Expire
    <3> QED
      BY <3>1, <3>2 DEF Locks
  <2> QED
    BY <2>1, <2>2 DEF Exact, Holds, Cancelling, Settling, Remaining
<1> QED
  BY <1>2, <1>3, <1>4

\* The steps of a cancellation that has read the order, and of a fill, which
\* meets none: the money goes out once, just before the row says so.
LEMMA ExactCancel ==
    ASSUME TypeOK, AllOpen, Exact, Quiet, Quiet', NEW c \in Callers,
           NEW outcome \in Outcomes,
           \/ Judge(c) \/ UnfreezeAmount(c, outcome)
           \/ UpdateStatus(c, outcome) \/ Invalidate(c, outcome)
    PROVE  Exact'
<1>0. /\ call[c] \in Call /\ call \in [Callers -> Call]
      /\ lock' = lock /\ failures' = failures
  BY DEF TypeOK, Judge, UnfreezeAmount, UpdateStatus, Invalidate, Quiet, store
<1>1. Reported(outcome) \/ Judge(c)
  <2>1. failures = 0 /\ failures' = 0
    BY DEF Quiet
  <2> QED
    BY <2>1 DEF UnfreezeAmount, UpdateStatus, Invalidate, Access, Fail
<1>2. ASSUME Holds(c, "cancel"), NEW d \in Callers \ {c}
      PROVE  ~Holds(d, "cancel")
  BY <1>2 DEF Exact
<1>3. CASE Judge(c)
  <2>1. /\ call[c].pc = "judge" /\ call[c].op = "cancel" /\ call[c].seen \in Rows
        /\ row' = row /\ refunded' = refunded
    BY <1>3, PlaceOf DEF Judge, At, store, money, Reading
  <2>2. call[c].seen = row /\ Holds(c, "cancel") /\ ~Cancelling(c, {"update"})
    BY <2>1 DEF Exact, Holds, Cancelling, Quiet
  <2>3. MayCancel(call[c].seen) => Remaining(call[c].seen) > 0
    BY <2>1 DEF AllOpen, Open
  <2>4. PICK pc \in {"release", "unfreeze"} :
            GoTo(c, pc) /\ (pc = "unfreeze" => MayCancel(call[c].seen))
    BY <1>3, <2>3 DEF Judge
  <2>5. /\ \A d \in Callers \ {c} : call'[d] = call[d]
        /\ call'[c].pc = pc /\ call'[c].op = call[c].op
        /\ call'[c].seen = call[c].seen
    BY <2>4, GoToMoves
  <2> QED
    BY <1>0, <2>1, <2>2, <2>4, <2>5, ExactFrame DEF Cancelling
<1>4. CASE UnfreezeAmount(c, outcome)
  <2>1. /\ call[c].pc = "unfreeze" /\ call[c].op = "cancel" /\ call[c].seen \in Rows
        /\ row' = row /\ GoTo(c, "update")
        /\ refunded' = refunded + Remaining(call[c].seen)
    <3>1. Reported(outcome) /\ Written(outcome)
      BY <1>1, <1>4 DEF Reported, Written, Judge, UnfreezeAmount, At
    <3> QED
      BY <1>4, <3>1, PlaceOf DEF UnfreezeAmount, At, store, Reading
  <2>2. call[c].seen = row /\ MayCancel(row) /\ Holds(c, "cancel")
    BY <2>1 DEF Exact, Holds, Cancelling
  <2>3. /\ \A d \in Callers \ {c} : call'[d] = call[d]
        /\ call'[c].pc = "update" /\ call'[c].op = "cancel"
        /\ call'[c].seen = call[c].seen
    BY <2>1, GoToMoves
  <2>4. ~Settling
    BY <1>2, <2>1, <2>2 DEF Settling, Cancelling, Holds
  <2>5. row # NoRow /\ row.status # "cancelled"
    BY <2>1, <2>2 DEF MayCancel
  <2>6. refunded = 0
    BY <2>4, <2>5 DEF Exact
  <2>7. Remaining(row) \in Int
    BY <2>1, <2>2 DEF Remaining, Rows
  <2>8. Settling' /\ refunded' = Remaining(row)
    BY <2>1, <2>2, <2>3, <2>6, <2>7 DEF Settling, Cancelling
  <2>9. /\ \A d \in Callers : Holds(d, "cancel")' => d = c
        /\ lock'["cancel"]
    BY <1>0, <1>2, <2>2, <2>3 DEF Exact, Holds
  <2>10. \A d \in Callers : \A p \in SUBSET {"judge", "unfreeze", "update"} :
            Cancelling(d, p)' => d = c
    BY <2>9 DEF Cancelling, Holds
  <2>11. /\ \A d \in Callers : Cancelling(d, {"judge", "unfreeze", "update"})'
                => call'[d].seen = row'
         /\ \A d \in Callers : Cancelling(d, {"unfreeze", "update"})'
                => MayCancel(call'[d].seen)
    BY <2>1, <2>2, <2>3, <2>10
  <2>12. refunded' = IF row' # NoRow /\ (row'.status = "cancelled" \/ Settling')
                     THEN Remaining(row)' ELSE 0
    BY <2>1, <2>5, <2>8 DEF Remaining
  <2> QED
    BY <2>9, <2>11, <2>12 DEF Exact
<1>5. CASE UpdateStatus(c, outcome)
  <2>1. /\ call[c].pc = "update" /\ call[c].seen \in Rows
        /\ call[c].op \in {"cancel", "fill"}
        /\ row' = Updated(c) /\ GoTo(c, "invalidate") /\ refunded' = refunded
    <3>1. Reported(outcome) /\ Written(outcome)
      BY <1>1, <1>5 DEF Reported, Written, Judge, UpdateStatus, At
    <3> QED
      BY <1>5, <3>1, PlaceOf DEF UpdateStatus, At, money, Reading
  <2>2. /\ \A d \in Callers \ {c} : call'[d] = call[d]
        /\ call'[c].pc = "invalidate" /\ call'[c].op = call[c].op
    BY <2>1, GoToMoves
  <2>3. \A d \in Callers : Holds(d, "cancel")' <=> Holds(d, "cancel")
    BY <2>1, <2>2 DEF Holds
  <2>4. \A d \in Callers : ~Cancelling(d, {"judge", "unfreeze", "update"})'
    <3>1. CASE call[c].op = "cancel"
      <4>1. \A d \in Callers \ {c} : ~Holds(d, "cancel")
        BY <1>2, <2>1, <3>1 DEF Holds
      <4> QED
        BY <2>2, <4>1 DEF Cancelling, Holds
    <3>2. CASE call[c].op = "fill"
      <4>1. \A d \in Callers : ~Holds(d, "cancel")
        BY <1>5, <3>2 DEF UpdateStatus, Overlapping, Quiet
      <4> QED
        BY <2>3, <4>1 DEF Cancelling, Holds
    <3> QED
      BY <2>1, <3>1, <3>2
  <2>5. ~Settling' /\ \A d \in Callers : ~Cancelling(d, {"unfreeze", "update"})'
    BY <2>4 DEF Settling, Cancelling
  <2>6. refunded' = IF row' # NoRow /\ (row'.status = "cancelled" \/ Settling')
                    THEN Remaining(row)' ELSE 0
    <3>1. CASE call[c].op = "cancel"
      <4>1. Cancelling(c, {"update"}) /\ call[c].seen = row
        BY <2>1, <3>1 DEF Exact, Cancelling
      <4>2. refunded = Remaining(row)
        BY <2>1, <4>1 DEF Exact, Settling
      <4>3. row' = Order("cancelled", row.filled)
        BY <2>1, <3>1, <4>1 DEF Updated
      <4>4. row' # NoRow
        BY <2>1, <4>1, <4>3, OrderType DEF Rows
      <4>5. row'.status = "cancelled" /\ row'.filled = row.filled
        BY <4>3 DEF Order
      <4> QED
        BY <2>1, <4>2, <4>4, <4>5 DEF Remaining
    <3>2. CASE call[c].op = "fill"
      <4>1. row.status # "cancelled" /\ \A d \in Callers : ~Holds(d, "cancel")
        BY <1>5, <3>2 DEF UpdateStatus, Overlapping, Quiet
      <4>2. ~Settling
        BY <4>1 DEF Settling, Cancelling, Holds
      <4>3. refunded = 0
        BY <4>1, <4>2 DEF Exact
      <4>4. row'.status # "cancelled"
        BY <2>1, <3>2 DEF Updated, Order
      <4> QED
        BY <2>1, <2>5, <4>3, <4>4
    <3> QED
      BY <2>1, <3>1, <3>2
  <2> QED
    BY <1>0, <2>3, <2>4, <2>5, <2>6 DEF Exact
<1>6. CASE Invalidate(c, outcome)
  <2>1. /\ call[c].pc = "invalidate" /\ call[c].op \in {"cancel", "fill"}
        /\ row' = row /\ refunded' = refunded
    BY <1>6, PlaceOf DEF Invalidate, At, money
  <2>2. CASE call[c].op = "fill"
    <3>1. /\ \A d \in Callers \ {c} : call'[d] = call[d]
          /\ call'[c].op = "get"
      BY <1>0, <1>6, <2>2 DEF Invalidate, Idle
    <3> QED
      BY <1>0, <2>1, <2>2, <3>1, ExactFrame DEF Cancelling
  <2>3. CASE call[c].op = "cancel"
    <3>1. GoTo(c, "release")
      BY <1>6, <2>3 DEF Invalidate
    <3>2. /\ \A d \in Callers \ {c} : call'[d] = call[d]
          /\ call'[c].pc = "release"
      BY <3>1, GoToMoves
    <3> QED
      BY <1>0, <2>1, <2>3, <3>2, ExactFrame DEF Cancelling, Holds
  <2> QED
    BY <2>1, <2>2, <2>3
<1> QED
  BY <1>3, <1>4, <1>5, <1>6

\* Beginnings and ends of calls: none of them dies without a failure.
LEMMA ExactCalls ==
    ASSUME TypeOK, Exact, Quiet, Quiet', NEW c \in Callers,
           CheckKey(c) \/ Start(c) \/ Answer(c) \/ Die(c)
    PROVE  Exact'
<1>1. CASE CheckKey(c) \/ Start(c)
  <2>1. row' = row /\ refunded' = refunded /\ lock' = lock
    BY <1>1 DEF CheckKey, Start, store, money
  <2>2. PICK op \in Operations, pc \in {"lock", "cached"}, fill \in Int :
            Begin(c, op, pc, fill) /\ (op = "cancel" => pc = "lock")
    BY <1>1
       DEF CheckKey, Start, CancelOrder, GetOrder, UpdateOrderStatus, Operations, Locks
  <2>3. /\ call[c].pc = "idle" /\ call'[c].pc = pc /\ call'[c].op = op
        /\ \A d \in Callers \ {c} : call'[d] = call[d]
    BY <2>2 DEF Begin, At, TypeOK
  <2> QED
    BY <2>1, <2>2, <2>3, ExactFrame DEF Cancelling
<1>2. CASE Answer(c)
  <2>1. row' = row /\ refunded' = refunded /\ lock' = lock /\ call[c].pc = "answer"
    BY <1>2 DEF Answer, store, money, At
  <2>2. /\ \A d \in Callers \ {c} : call'[d] = call[d]
        /\ call'[c].pc = "idle"
    BY <1>2, EndMoves DEF Answer
  <2> QED
    BY <2>1, <2>2, ExactFrame DEF Cancelling
<1>3. ~Die(c)
  BY DEF Die, Fail, Quiet
<1> QED
  BY <1>1, <1>2, <1>3

LEMMA ExactStep ==
    TypeOK /\ Fresh /\ Known /\ AllOpen /\ Exact /\ [Next]_vars => Exact'
<1> SUFFICES ASSUME TypeOK, Fresh, Known, AllOpen, Exact, [Next]_vars, Quiet'
             PROVE  Exact'
  BY DEF Exact
<1>0. Quiet
  BY QuietBefore
<1>1. ASSUME NEW c \in Callers,
             CheckKey(c) \/ Start(c) \/ Judge(c) \/ Answer(c) \/ Release(c) \/ Die(c)
      PROVE  Exact'
  <2>1. "ok" \in Outcomes
    BY DEF Outcomes
  <2> QED
    BY <1>0, <1>1, <2>1, ExactCalls, ExactCancel, ExactLock
<1>2. ASSUME NEW c \in Callers, NEW outcome \in Outcomes,
             \/ SetLock(c, IF call[c].op = "create" THEN "freeze" ELSE "cached", outcome)
             \/ CreateOrder(c, outcome) \/ GetByOrderID(c, outcome)
             \/ UnfreezeAmount(c, outcome)
             \/ UpdateStatus(c, outcome) \/ Invalidate(c, outcome)
      PROVE  Exact'
  BY <1>0, <1>2, ExactLock, ExactCreate, ExactGet, ExactCancel
<1>3. ASSUME NEW n \in Locks, Expire(n)
      PROVE  Exact'
  <2>1. CASE Callers = {}
    BY <2>1, <1>0, <1>3 DEF Exact, Expire, store, money, Settling, Remaining
  <2>2. CASE Callers # {}
    BY <1>0, <1>3, <2>2, ExactLock DEF Outcomes
  <2> QED
    BY <2>1, <2>2
<1>4. CASE CopyExpires \/ UNCHANGED vars
  <2>1. UNCHANGED <<row, lock, call, refunded>>
    BY <1>4 DEF CopyExpires, vars, store, money
  <2> QED
    BY <1>0, <2>1 DEF Exact, Holds, Cancelling, Settling, Remaining
<1> QED
  BY <1>1, <1>2, <1>3, <1>4 DEF Next

\* However many cancellations, reads and fills of the order run at once, a
\* cancelled order has given back exactly what was not filled and no other has
\* given back anything, as long as nothing fails, no cancellation outlives its
\* lock, and no fill and no stale copy meets one.
THEOREM RefundsExact == Spec => []RefundExact
<1>1. TypeOK /\ Exact => RefundExact
  <2> SUFFICES ASSUME TypeOK, Exact, ~Underway("cancel"), Quiet
               PROVE  refunded = IF row # NoRow /\ row.status = "cancelled"
                                 THEN Remaining(row) ELSE 0
    BY DEF RefundExact, Quiet
  <2>1. ~Settling
    BY DEF Settling, Cancelling, Underway, At
  <2> QED
    BY <2>1 DEF Exact
<1> QED
  BY <1>1, InitType, StepType, FreshInit, FreshStep, KnownInit, KnownStep,
     OpenInit, OpenStep, ExactInit, ExactStep, PTL DEF Spec
=============================================================================
