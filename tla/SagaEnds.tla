------------------------------- MODULE SagaEnds -------------------------------
(***************************************************************************)
(* What ends an order: the handlers of internal/order/saga/order_saga.go   *)
(* for the matching result, its failure and the cancellation, against the  *)
(* late success of the submission, the order service's update of the       *)
(* filled quantity, and CancelOrder of internal/gateway/handler, which     *)
(* gives money back and then asks the order service.  Each is a goroutine, *)
(* all on one order.  The saga writes the table past the copy of the row   *)
(* that the order service keeps in Redis.                                  *)
(*                                                                         *)
(* The order's whole amount, Qty at price one, is frozen.  What the outbox *)
(* does with an entry is Outbox's business: here it is delivered or dies.  *)
(* The order service's own races are OrderService's: its update and the    *)
(* deletion of the copy are one step here.  Every access may fail.         *)
(***************************************************************************)
EXTENDS Integers, Sequences

CONSTANTS
    MaxHandlers,    \* bound: handlers, each a goroutine of one call
    Qty,            \* the order's quantity
    Fills           \* the quantities that results report

Handlers == 1..MaxHandlers
NoCopy == [status |-> "none", filled |-> 0]

VARIABLES
    row,            \* the order: [status, filled]
    copy,           \* the order service's copy in Redis, or NoCopy
    entries,        \* the unfreeze entries of the outbox: [saga, amount, status]
    given,          \* what the user service has given back for it directly
    handler,        \* the call of each: [op, pc, seen, fill, complete]
    blind           \* ghost: a call has written over a row that it had not seen,
                    \* or has not asked whether it may

vars == <<row, copy, entries, given, handler, blind>>

Final == {"filled", "cancelled", "rejected", "settled"}

\* Variant of ValidTransitions: a cancelled order may yet be filled.
CancelIsNotFinal(s) ==
    CASE s = "created" -> {"frozen", "cancelled"}
      [] s = "frozen" -> {"pending", "cancelled"}
      [] s \in {"pending", "submitted"} ->
            {"partial_filled", "filled", "cancelled", "rejected"}
      [] s \in {"partial_filled", "cancelled"} -> {"filled", "cancelled", "rejected"}
      [] s = "filled" -> {"settled"}
      [] OTHER -> {}

ValidTransitions(s) ==
    CASE s = "created" -> {"frozen", "cancelled"}
      [] s = "frozen" -> {"pending", "cancelled"}
      [] s \in {"pending", "submitted"} ->
            {"partial_filled", "filled", "cancelled", "rejected"}
      [] s = "partial_filled" -> {"filled", "cancelled", "rejected"}
      [] s = "filled" -> {"settled"}
      [] OTHER -> {}

CanTransitionTo(s, t) == t \in ValidTransitions(s)

Idle == [op |-> "none", pc |-> "new", seen |-> NoCopy, fill |-> 0, complete |-> FALSE]
Over == [Idle EXCEPT !.pc = "done"]

Init ==
    /\ row \in [status : {"created", "frozen", "submitted"}, filled : {0}]
    /\ copy \in {NoCopy, row}
    /\ entries = <<>> /\ given = 0
    /\ handler = [h \in Handlers |-> Idle]
    /\ blind = FALSE

At(h, op, pc) == handler[h].op = op /\ handler[h].pc = pc
GoTo(h, pc) == handler' = [handler EXCEPT ![h].pc = pc]

\* The handler returns, and its variables are gone.
End(h) == handler' = [handler EXCEPT ![h] = Over]

-----------------------------------------------------------------------------
(* The calls *)

\* Handlers are numbered as they are called.
Begin(h, op, pc, fill, complete) ==
    /\ handler[h].pc = "new" /\ \A g \in Handlers : g < h => handler[g].pc # "new"
    /\ handler' = [handler EXCEPT ![h] =
            [op |-> op, pc |-> pc, seen |-> NoCopy, fill |-> fill,
             complete |-> complete]]
    /\ UNCHANGED <<row, copy, entries, given, blind>>

HandleMatchingResult(h) ==
    \E fill \in Fills, complete \in BOOLEAN :
        Begin(h, "result", "read", fill, complete)
CancelOrderSaga(h) == Begin(h, "cancel", "read", 0, FALSE)
HandleMatchingFailure(h) == Begin(h, "failure", "write", 0, FALSE)
HandleSubmitMatchingSuccess(h) == Begin(h, "submit", "write", 0, FALSE)
UpdateFilledQuantity(h) ==
    \E fill \in Fills : Begin(h, "fill", "write", fill, fill >= Qty)
CancelOrder(h) == Begin(h, "gateway", "get", 0, FALSE)

\* What those that look make of what they see.
Judged(op, seen) ==
    CASE op = "cancel" -> CanTransitionTo(seen.status, "cancelled")
      [] op = "result" -> \/ CanTransitionTo(seen.status, "partial_filled")
                          \/ CanTransitionTo(seen.status, "filled")
      [] op = "gateway" -> seen.status \in {"pending", "partial_filled"}

Sees(h, seen, pc, judges) ==
    IF judges /\ ~Judged(handler[h].op, seen) THEN End(h)
    ELSE handler' = [handler EXCEPT ![h].seen = seen, ![h].pc = pc]

\* The saga's repository reads the table.
ReadRow(h) ==
    /\ handler[h].pc = "read"
    /\ Sees(h, row, "write", TRUE)
    /\ UNCHANGED <<row, copy, entries, given, blind>>

\* The order service answers from its copy, and makes one.
Known == IF copy = NoCopy THEN row ELSE copy

GetOrder(h) ==
    /\ handler[h].pc = "get"
    /\ Sees(h, Known, "unfreeze", FALSE)
    /\ copy' = Known
    /\ UNCHANGED <<row, entries, given, blind>>

Asked(h) == handler[h].op \in {"result", "cancel", "gateway"}
Blind(h) == ~Asked(h) \/ handler[h].seen # row

\* UpdateStatus, the gateway's for the saga and the order service's, which
\* deletes the copy.
Write(h) ==
    /\ handler[h].pc = "write" /\ handler[h].op # "cancel"
    /\ row' = CASE handler[h].op = "failure" -> [status |-> "rejected", filled |-> 0]
                [] handler[h].op = "submit" -> [status |-> "submitted", filled |-> 0]
                [] OTHER -> [status |-> IF handler[h].complete THEN "filled"
                                        ELSE "partial_filled",
                             filled |-> handler[h].fill]
    /\ copy' = IF handler[h].op = "fill" THEN NoCopy ELSE copy
    /\ blind' = (blind \/ Blind(h))
    /\ IF handler[h].op = "failure" THEN GoTo(h, "compensate") ELSE End(h)
    /\ UNCHANGED <<entries, given>>

\* Variant of Rest: the whole order is released, whatever is filled.
WholeOrder(h) == Qty

Rest(h) == Qty - handler[h].seen.filled

Entry(saga, amount) == [saga |-> saga, amount |-> amount, status |-> "pending"]

\* The transaction of CancelOrderSaga: status and entry.
Transact(h) ==
    /\ At(h, "cancel", "write")
    /\ row' = [row EXCEPT !.status = "cancelled"]
    /\ entries' = Append(entries, Entry("cancel", Rest(h)))
    /\ blind' = (blind \/ Blind(h))
    /\ End(h)
    /\ UNCHANGED <<copy, given>>

\* The second half of the failure's handler: all that was frozen.
Compensate(h) ==
    /\ At(h, "failure", "compensate")
    /\ entries' = Append(entries, Entry("order", Qty))
    /\ End(h)
    /\ UNCHANGED <<row, copy, given, blind>>

\* The gateway has the rest unfrozen, and does not look at the answer.
GatewayUnfreezes(h) ==
    /\ handler[h].pc = "unfreeze"
    /\ given' \in {given, given + Rest(h)}
    /\ GoTo(h, "judge")
    /\ UNCHANGED <<row, copy, entries, blind>>

\* The order service's CancelOrder, under its lock: it judges by its copy,
\* has the rest unfrozen once more, and writes.
Locked(h) == \E g \in Handlers \ {h} : handler[g].pc \in {"refund", "overwrite"}

Judge(h) ==
    /\ handler[h].pc = "judge" /\ ~Locked(h)
    /\ Sees(h, Known, "refund", TRUE)
    /\ copy' = Known
    /\ UNCHANGED <<row, entries, given, blind>>

Refund(h) ==
    /\ handler[h].pc = "refund"
    /\ given' = given + Rest(h)
    /\ GoTo(h, "overwrite")
    /\ UNCHANGED <<row, copy, entries, blind>>

Overwrite(h) ==
    /\ handler[h].pc = "overwrite"
    /\ row' = [status |-> "cancelled", filled |-> handler[h].seen.filled]
    /\ blind' = (blind \/ Blind(h))
    /\ copy' = NoCopy
    /\ End(h)
    /\ UNCHANGED <<entries, given>>

\* An access fails, or the lock is taken, and the handler returns its error.
GiveUp(h) ==
    /\ handler[h].pc \in {"read", "write", "compensate", "get", "judge",
                          "refund", "overwrite"}
    /\ End(h)
    /\ UNCHANGED <<row, copy, entries, given, blind>>

Deliver(i, status) ==
    /\ entries[i].status = "pending"
    /\ entries' = [entries EXCEPT ![i].status = status]
    /\ UNCHANGED <<row, copy, given, handler, blind>>

CopyExpires ==
    /\ copy # NoCopy /\ copy' = NoCopy
    /\ UNCHANGED <<row, entries, given, handler, blind>>

Next ==
    \/ \E h \in Handlers :
        \/ HandleMatchingResult(h) \/ HandleMatchingFailure(h)
        \/ CancelOrderSaga(h) \/ HandleSubmitMatchingSuccess(h)
        \/ UpdateFilledQuantity(h) \/ CancelOrder(h)
        \/ ReadRow(h) \/ GetOrder(h) \/ Write(h) \/ Transact(h) \/ Compensate(h)
        \/ GatewayUnfreezes(h) \/ Judge(h) \/ Refund(h) \/ Overwrite(h)
        \/ GiveUp(h)
    \/ \E i \in DOMAIN entries, status \in {"done", "dead_letter"} :
            Deliver(i, status)
    \/ CopyExpires

Spec == Init /\ [][Next]_vars
-----------------------------------------------------------------------------
(* What the ends promise *)

\* GetSagaStatus.
SagaStatus(saga) ==
    LET Of == {i \in DOMAIN entries : entries[i].saga = saga} IN
    CASE Of = {} -> "not found"
      [] \E i \in Of : entries[i].status = "dead_letter" -> "dead_letter"
      [] Of # {} /\ \A i \in Of : entries[i].status = "done" -> "completed"
      [] OTHER -> "in_progress"

Amount(saga, statuses) ==
    LET sum[n \in 0..Len(entries)] ==
            IF n = 0 THEN 0
            ELSE sum[n - 1] + IF /\ entries[n].saga = saga
                                 /\ entries[n].status \in statuses
                              THEN entries[n].amount ELSE 0
    IN  sum[Len(entries)]

\* An order that is over stays as it is, unless a handler that never asks, or
\* that asked about something else than the row is now, writes over it: the
\* transition table and the order service let nobody through who has seen it.
FinalUnlessBlind ==
    [][row.status \in Final /\ row' # row => \E h \in Handlers :
            /\ handler[h].pc \in {"write", "overwrite"}
            /\ handler'[h].pc # handler[h].pc
            /\ Blind(h)]_vars

\* While no handler has written blindly, a cancelled order gives back what was
\* not filled, and a saga that is reported completed has given it back.  It
\* gives it back once, and an order that is not cancelled nothing, as long as
\* nobody cancels through the gateway, which gives back first and asks later.
RestGivenBackOnce ==
    LET written == Amount("cancel", {"pending", "done", "dead_letter"})
        rest == IF row.status = "cancelled" THEN Qty - row.filled ELSE 0
    IN  ~blind =>
            /\ written + given >= rest
            /\ given = 0 => written = rest
            /\ SagaStatus("cancel") = "completed" => Amount("cancel", {"done"}) = rest

TypeOK ==
    /\ row \in [status : Final \cup {"created", "frozen", "submitted",
                                     "partial_filled"}, filled : Nat]
    /\ copy = NoCopy \/ copy.status # "none"
    /\ entries \in Seq([saga : {"cancel", "order"}, amount : Int,
                        status : {"pending", "done", "dead_letter"}])
    /\ given \in Int /\ blind \in BOOLEAN
=============================================================================
