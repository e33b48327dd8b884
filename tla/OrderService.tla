----------------------------- MODULE OrderService -----------------------------
(***************************************************************************)
(* The order service on one idempotency key and the order it makes: calls   *)
(* that create, cancel, read and fill the order, with its row in the        *)
(* database, the row's copy in Redis, the two locks in Redis, and the money *)
(* the service freezes and gives back for it.                               *)
(***************************************************************************)
EXTENDS Integers, FiniteSets

CONSTANTS
    Callers,        \* goroutines that serve calls, in any process
    NoRow,          \* no row, or no copy of it
    Qty,            \* the quantity ordered, at price one
    Fills,          \* the filled quantities that updates report
    MaxCalls,       \* bound: calls served
    MaxFailures     \* bound: accesses that fail and processes that die

ASSUME OrderServiceAssumption ==
    /\ IsFiniteSet(Callers)
    /\ Qty \in Nat \ {0}
    /\ Fills \subseteq Int
    /\ MaxCalls \in Nat /\ MaxFailures \in Nat

Locks == {"create", "cancel"}
Operations == Locks \cup {"get", "fill"}

VARIABLES
    row,            \* the order's row, with a unique idempotency_key
    cache,          \* its copy under order:<id>
    remembered,     \* the order is under idempotency:order:<key>
    lock,           \* which of the lock keys are set
    call,           \* what each caller does and the order it has read
    charged,        \* what creating calls have frozen and not given back
    refunded,       \* what cancelling calls have given back
    calls,          \* calls served
    failures,       \* ghost: accesses that failed and processes that died
    overlaps        \* ghost: which steps of two calls have fallen together

money == <<charged, refunded>>
store == <<row, cache, remembered>>
vars == <<store, lock, call, money, calls, failures, overlaps>>

\* An access succeeds, fails, or is done and reported as failed.
Outcomes == {"ok", "failed", "lost"}
Written(outcome) == outcome # "failed"
Reported(outcome) == outcome = "ok"

Fail == failures < MaxFailures /\ failures' = failures + 1
Access(outcome) == IF Reported(outcome) THEN UNCHANGED failures ELSE Fail

Rows == [status : {"pending", "partial_filled", "filled", "cancelled"}, filled : Int]
Order(status, filled) == [status |-> status, filled |-> filled]

ASSUME NoRowAssumption == NoRow \notin Rows

Idle == [op |-> "get", pc |-> "idle", seen |-> NoRow, fill |-> 0]

Init ==
    /\ row = NoRow /\ cache = NoRow /\ remembered = FALSE
    /\ lock = [n \in Locks |-> FALSE]
    /\ call = [c \in Callers |-> Idle]
    /\ charged = 0 /\ refunded = 0
    /\ calls = 0 /\ failures = 0 /\ overlaps = {}

At(c, pc) == call[c].pc = pc
GoTo(c, pc) == call' = [call EXCEPT ![c].pc = pc]

End(c) == call' = [call EXCEPT ![c] = Idle]

\* The call fails or is done; the deferred Del follows if it holds a lock.
Leave(c) == IF call[c].op \in Locks THEN GoTo(c, "release") ELSE End(c)

Begin(c, op, pc, fill) ==
    /\ At(c, "idle") /\ calls < MaxCalls
    /\ calls' = calls + 1
    /\ call' = [call EXCEPT ![c] =
                   [op |-> op, pc |-> pc, seen |-> NoRow, fill |-> fill]]

-----------------------------------------------------------------------------
(* Locks *)

\* SetNX; a call that finds the key, or whose SetNX fails, is answered with a
\* conflict.
SetLock(c, pc, outcome) ==
    LET op == call[c].op
    IN  /\ At(c, "lock")
        /\ lock' = [lock EXCEPT ![op] = @ \/ Written(outcome)]
        /\ IF ~lock[op] /\ Reported(outcome) THEN GoTo(c, pc) ELSE End(c)
        /\ Access(outcome)
        /\ UNCHANGED <<store, money, calls, overlaps>>

Holds(c, n) == call[c].op = n /\ call[c].pc \notin {"idle", "lock"}

\* Del removes the key, whoever has set it.
Release(c) ==
    /\ At(c, "release")
    /\ lock' = [lock EXCEPT ![call[c].op] = FALSE]
    /\ End(c)
    /\ UNCHANGED <<store, money, calls, failures, overlaps>>

\* Ten seconds have passed since the key was set.
Expire(n) ==
    /\ lock[n]
    /\ lock' = [lock EXCEPT ![n] = FALSE]
    /\ overlaps' = IF \E c \in Callers : Holds(c, n) THEN overlaps \cup {n}
                   ELSE overlaps
    /\ UNCHANGED <<store, call, money, calls, failures>>

-----------------------------------------------------------------------------
(* CreateOrder *)

\* A call whose key is in Redis, or on a row, is answered with that order; the
\* lock is not held yet.  A read that fails finds nothing (both count as one failure).
CheckKey(c) ==
    /\ Begin(c, "create", "lock", 0)
    /\ IF remembered \/ row # NoRow THEN Fail ELSE UNCHANGED failures
    /\ UNCHANGED <<store, lock, money, overlaps>>

\* GetBalance and FreezeAmount, which may refuse.
FreezeAmount(c, outcome) ==
    /\ At(c, "freeze")
    /\ \/ /\ Written(outcome)
          /\ charged' = charged + Qty
          /\ GoTo(c, IF Reported(outcome) THEN "insert" ELSE "release")
          /\ Access(outcome)
       \/ /\ outcome = "failed" /\ GoTo(c, "release")
          /\ UNCHANGED <<charged, failures>>
    /\ UNCHANGED <<store, lock, refunded, calls, overlaps>>

\* Variant of Insert: a key that is taken is not looked at as an error.
InsertIgnored(c, outcome) ==
    /\ At(c, "insert")
    /\ row' = IF row = NoRow /\ Written(outcome) THEN Order("pending", 0) ELSE row
    /\ GoTo(c, IF Reported(outcome) THEN "remember" ELSE "compensate")
    /\ Access(outcome)
    /\ UNCHANGED <<cache, remembered, lock, money, calls, overlaps>>

Insert(c, outcome) ==
    /\ At(c, "insert")
    /\ row' = IF row = NoRow /\ Written(outcome) THEN Order("pending", 0) ELSE row
    /\ GoTo(c, IF row = NoRow /\ Reported(outcome) THEN "remember" ELSE "compensate")
    /\ Access(outcome)
    /\ UNCHANGED <<cache, remembered, lock, money, calls, overlaps>>

\* The error of UnfreezeAmount is not looked at.
Compensate(c, outcome) ==
    /\ At(c, "compensate")
    /\ charged' = IF Written(outcome) THEN charged - Qty ELSE charged
    /\ GoTo(c, "release")
    /\ Access(outcome)
    /\ UNCHANGED <<store, lock, refunded, calls, overlaps>>

RememberKey(c, outcome) ==
    /\ At(c, "remember")
    /\ remembered' = (remembered \/ Written(outcome))
    /\ GoTo(c, "release")
    /\ Access(outcome)
    /\ UNCHANGED <<row, cache, lock, money, calls, overlaps>>

-----------------------------------------------------------------------------
(* GetByOrderID: cache aside *)

\* What the other operations do once they have the order.
Purpose(op) ==
    CASE op = "cancel" -> "judge" [] op = "fill" -> "update" [] op = "get" -> "answer"

\* A fill is between its write to the row and its Del of the copy.
Invalidating == \E d \in Callers : At(d, "invalidate") /\ call[d].op = "fill"

ReadCache(c, outcome) ==
    /\ At(c, "cached")
    /\ IF cache # NoRow /\ Reported(outcome)
       THEN /\ call' = [call EXCEPT ![c].pc = Purpose(call[c].op), ![c].seen = cache]
            /\ overlaps' = IF call[c].op = "cancel" /\ Invalidating
                           THEN overlaps \cup {"fill"} ELSE overlaps
       ELSE GoTo(c, "select") /\ UNCHANGED overlaps
    /\ Access(outcome)
    /\ UNCHANGED <<store, lock, money, calls>>

ReadRow(c, outcome) ==
    /\ At(c, "select")
    /\ IF row # NoRow /\ Reported(outcome)
       THEN call' = [call EXCEPT ![c].pc = "copy", ![c].seen = row]
       ELSE Leave(c)
    /\ Access(outcome)
    /\ UNCHANGED <<store, lock, money, calls, overlaps>>

FillCache(c, outcome) ==
    /\ At(c, "copy")
    /\ cache' = IF Written(outcome) THEN call[c].seen ELSE cache
    /\ GoTo(c, Purpose(call[c].op))
    /\ Access(outcome)
    /\ UNCHANGED <<row, remembered, lock, money, calls, overlaps>>

\* The order is given to who asked.
Answer(c) ==
    /\ At(c, "answer") /\ End(c)
    /\ UNCHANGED <<store, lock, money, calls, failures, overlaps>>

\* The copy lives for five minutes, the key for a day.
CopyExpires ==
    /\ \/ cache # NoRow /\ cache' = NoRow /\ UNCHANGED remembered
       \/ remembered /\ remembered' = FALSE /\ UNCHANGED cache
    /\ UNCHANGED <<row, lock, call, money, calls, failures, overlaps>>

-----------------------------------------------------------------------------
(* CancelOrder *)

\* Variant of MayCancel: the status is not asked for.
MayCancelAny(order) == TRUE
MayCancel(order) == order.status \in {"pending", "partial_filled"}

Remaining(order) == Qty - order.filled

Judge(c) ==
    LET order == call[c].seen
    IN  /\ At(c, "judge")
        /\ GoTo(c, IF ~MayCancel(order) THEN "release"
                   ELSE IF Remaining(order) > 0 THEN "unfreeze" ELSE "update")
        /\ UNCHANGED <<store, lock, money, calls, failures, overlaps>>

UnfreezeAmount(c, outcome) ==
    /\ At(c, "unfreeze")
    /\ refunded' = IF Written(outcome) THEN refunded + Remaining(call[c].seen)
                   ELSE refunded
    /\ GoTo(c, IF Reported(outcome) THEN "update" ELSE "release")
    /\ Access(outcome)
    /\ UNCHANGED <<store, lock, charged, calls, overlaps>>

-----------------------------------------------------------------------------
(* UpdateStatus, for a cancellation and for UpdateFilledQuantity *)

\* Whatever the row has become, it is set to what follows from the reading.
Updated(c) ==
    IF call[c].op = "cancel" THEN Order("cancelled", call[c].seen.filled)
    ELSE Order(IF call[c].fill >= Qty THEN "filled" ELSE "partial_filled",
               call[c].fill)

\* A reader has the row in hand that it will copy; a fill meets a cancellation.
Overlapping(c) ==
    (IF \E d \in Callers : At(d, "copy") THEN {"copy"} ELSE {})
        \cup (IF call[c].op = "fill"
                 /\ (row.status = "cancelled" \/ \E d \in Callers : Holds(d, "cancel"))
              THEN {"fill"} ELSE {})

\* Variant of UpdateStatus: the copy is left to expire.
UpdateStatusOnly(c, outcome) ==
    /\ At(c, "update")
    /\ row' = IF Written(outcome) THEN Updated(c) ELSE row
    /\ overlaps' = overlaps \cup Overlapping(c)
    /\ Leave(c)
    /\ Access(outcome)
    /\ UNCHANGED <<cache, remembered, lock, money, calls>>

UpdateStatus(c, outcome) ==
    /\ At(c, "update")
    /\ row' = IF Written(outcome) THEN Updated(c) ELSE row
    /\ overlaps' = overlaps \cup Overlapping(c)
    /\ IF Reported(outcome) THEN GoTo(c, "invalidate") ELSE Leave(c)
    /\ Access(outcome)
    /\ UNCHANGED <<cache, remembered, lock, money, calls>>

\* After a fill the server reads the order again for its answer.
Invalidate(c, outcome) ==
    /\ At(c, "invalidate")
    /\ cache' = IF Written(outcome) THEN NoRow ELSE cache
    /\ IF call[c].op = "fill"
       THEN call' = [call EXCEPT ![c] = [Idle EXCEPT !.pc = "cached"]]
       ELSE GoTo(c, "release")
    /\ Access(outcome)
    /\ UNCHANGED <<row, remembered, lock, money, calls, overlaps>>

-----------------------------------------------------------------------------

CancelOrder(c) == Begin(c, "cancel", "lock", 0)
GetOrder(c) == Begin(c, "get", "cached", 0)
UpdateOrderStatus(c) == \E fill \in Fills : Begin(c, "fill", "cached", fill)

Start(c) ==
    /\ CancelOrder(c) \/ GetOrder(c) \/ UpdateOrderStatus(c)
    /\ UNCHANGED <<store, lock, money, failures, overlaps>>

CreateOrder(c, outcome) ==
    \/ FreezeAmount(c, outcome) \/ Insert(c, outcome)
    \/ Compensate(c, outcome) \/ RememberKey(c, outcome)

GetByOrderID(c, outcome) ==
    ReadCache(c, outcome) \/ ReadRow(c, outcome) \/ FillCache(c, outcome)

\* The process that serves the call dies; the lock stays.
Die(c) ==
    /\ ~At(c, "idle") /\ Fail
    /\ End(c)
    /\ UNCHANGED <<store, lock, money, calls, overlaps>>

Next ==
    \/ \E c \in Callers :
        \/ CheckKey(c) \/ Start(c) \/ Judge(c) \/ Answer(c) \/ Release(c) \/ Die(c)
        \/ \E outcome \in Outcomes :
            \/ SetLock(c, IF call[c].op = "create" THEN "freeze" ELSE "cached", outcome)
            \/ CreateOrder(c, outcome) \/ GetByOrderID(c, outcome)
            \/ UnfreezeAmount(c, outcome)
            \/ UpdateStatus(c, outcome) \/ Invalidate(c, outcome)
    \/ \E n \in Locks : Expire(n)
    \/ CopyExpires

Spec == Init /\ [][Next]_vars

-----------------------------------------------------------------------------
(* What the order service must guarantee *)

\* The places of each operation.
Places(op) ==
    CASE op = "create" ->
            {"lock", "freeze", "insert", "compensate", "remember", "release"}
      [] op = "cancel" -> {"lock", "cached", "select", "copy", "judge", "unfreeze",
                           "update", "invalidate", "release"}
      [] op = "get" -> {"idle", "cached", "select", "copy", "answer"}
      [] op = "fill" -> {"cached", "select", "copy", "update", "invalidate"}

Reading == {"copy", "answer", "judge", "unfreeze", "update", "invalidate"}
NotReading == {"idle", "lock", "cached", "select"}
Charging == {"freeze", "insert", "compensate", "remember", "release"}

\* A call is at a place of its operation, and holds an order exactly while it
\* needs one.
Call ==
    {r \in [op : Operations, pc : Reading \cup NotReading \cup Charging,
            seen : Rows \cup {NoRow}, fill : Int] :
        /\ r.pc \in Places(r.op)
        /\ r.pc \in Reading => r.seen # NoRow
        /\ r.pc \in NotReading => r.seen = NoRow}

\* Every variable has a value of its kind, and every call is one of Call.
TypeOK ==
    /\ row \in Rows \cup {NoRow} /\ cache \in Rows \cup {NoRow}
    /\ remembered \in BOOLEAN /\ lock \in [Locks -> BOOLEAN]
    /\ call \in [Callers -> Call]
    /\ charged \in Int /\ refunded \in Int
    /\ calls \in 0..MaxCalls /\ failures \in 0..MaxFailures
    /\ overlaps \subseteq Locks \cup {"copy", "fill"}

Underway(op) == \E c \in Callers : call[c].op = op /\ ~At(c, "idle")

Magnitude(n) == IF n < 0 THEN -n ELSE n

\* A key is charged once if it has an order and not at all if it has none,
\* whatever locks expire and however many calls were made with it; each failure
\* costs one charge at most.  The unique key does it, not the lock.
OneCharge ==
    ~Underway("create") =>
        LET owed == IF row = NoRow THEN 0 ELSE Qty
        IN  Magnitude(charged - owed) <= Qty * failures

\* A cancelled order has given back what was not filled, and no other order has
\* given back anything, unless the lock of a cancellation expired, a reader put
\* an old row back into the cache, or a fill met the cancellation.
RefundExact ==
    ~Underway("cancel") /\ failures = 0 /\ overlaps \subseteq {"create"} =>
        refunded = IF row # NoRow /\ row.status = "cancelled" THEN Remaining(row)
                   ELSE 0

\* The copy is the row while no update is between the two, unless a reader was
\* about to make one when the row changed.
CopyIsFresh ==
    failures = 0 /\ "copy" \notin overlaps =>
        \/ cache \in {NoRow, row}
        \/ \E c \in Callers : At(c, "invalidate")
=============================================================================
