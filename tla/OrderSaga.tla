------------------------------- MODULE OrderSaga -------------------------------
(***************************************************************************)
(* An order's way through the gateway: the request stores the order and an *)
(* outbox entry, the workers freeze the balance, store the entry of the    *)
(* next step in the callback, and submit the order to the matching engine. *)
(* The user and the matching service are modelled by what a call does for  *)
(* an order, which neither of them recognises when it comes again.         *)
(***************************************************************************)
EXTENDS Outbox, FiniteSets

CONSTANTS
    Requests,       \* calls of CreateOrder
    NoOrder,        \* no row with this idempotency key
    Troubles,       \* what may go wrong besides a service's refusal
    MaxTroubles     \* bound: how often it does

Freeze == "freeze_balance"
Submit == "submit_matching"

ASSUME SagaAssumption ==
    /\ Actions = {Freeze, Submit}
    /\ Troubles \subseteq {"crash", "database", "answer"}
    /\ MaxTroubles \in Nat
    /\ NoOrder \notin {"created", "frozen", "submitted"}

VARIABLES
    order,          \* the status of each key's row in orders
    request,        \* what each CreateOrder call is about to do
    effects,        \* ghost: how often each service did its part for an order
    troubles        \* ghost: what went wrong so far

vars == <<outboxVars, order, request, effects, troubles>>

Init ==
    /\ OutboxInit
    /\ order = [k \in Sagas |-> NoOrder]
    /\ request = [r \in Requests |-> "new"]
    /\ effects = [k \in Sagas |-> [a \in Actions |-> 0]]
    /\ troubles = 0

Trouble(kind) ==
    /\ kind \in Troubles /\ troubles < MaxTroubles
    /\ troubles' = troubles + 1

\* An access to the database and how it ends.
Access(outcome) ==
    IF outcome = "ok" THEN UNCHANGED troubles ELSE Trouble("database")

-----------------------------------------------------------------------------
(* CreateOrderSaga *)

\* A key whose order is found is answered with it; one whose row cannot be read
\* passes unless its outbox entries can be read and say that it is in progress.
CheckIdempotency(r, k, outcome) ==
    LET inProgress == \E i \in DOMAIN outbox :
                          outbox[i].saga = k /\ outbox[i].status # "done"
    IN  /\ request[r] = "new"
        /\ \E found \in IF Reported(outcome) THEN {order[k] # NoOrder}
                         ELSE {inProgress, FALSE} :
               request' = [request EXCEPT ![r] = IF found THEN "answered" ELSE k]
        /\ Access(outcome)
        /\ UNCHANGED <<outboxVars, order, effects>>

\* Variant of StoreOrder: the keys of orders are not unique.
StoreOrderAgain(r, outcome) ==
    LET k == request[r]
    IN  /\ k \in Sagas
        /\ request' = [request EXCEPT ![r] = "answered"]
        /\ Access(outcome)
        /\ IF Written(outcome)
           THEN /\ order' = [order EXCEPT ![k] = "created"]
                /\ outbox' = Append(outbox, NewEntry(k, Freeze))
           ELSE UNCHANGED <<order, outbox>>
        /\ UNCHANGED <<worker, effects>>

\* Both rows are stored in one transaction; the keys of orders are unique.
StoreOrder(r, outcome) ==
    LET k == request[r]
    IN  /\ k \in Sagas
        /\ request' = [request EXCEPT ![r] = "answered"]
        /\ Access(outcome)
        /\ IF order[k] = NoOrder /\ Written(outcome)
           THEN /\ order' = [order EXCEPT ![k] = "created"]
                /\ outbox' = Append(outbox, NewEntry(k, Freeze))
           ELSE UNCHANGED <<order, outbox>>
        /\ UNCHANGED <<worker, effects>>

-----------------------------------------------------------------------------
(* Delivery handlers *)

\* "accepted"; "refused": no balance, no lock, an order that is not allowed;
\* "unheard": done, but the answer is an error.
Serve(k, action, answer) ==
    /\ effects' = IF answer = "refused" THEN effects
                  ELSE [effects EXCEPT ![k][action] = @ + 1]
    /\ IF answer = "unheard" THEN Trouble("answer") ELSE UNCHANGED troubles

\* Unheard also when the balance cannot be read back.
FreezeAmount(k, answer) == Serve(k, Freeze, answer)

\* Unheard also when a market order traded less than it asked for.
SubmitOrder(k, answer) == Serve(k, Submit, answer)

Deliver(w, answer) ==
    LET entry == Entry(w)
    IN  /\ Delivered(w, answer = "accepted")
        /\ IF entry.action = Freeze THEN FreezeAmount(entry.saga, answer)
                                    ELSE SubmitOrder(entry.saga, answer)
        /\ UNCHANGED <<order, request>>

-----------------------------------------------------------------------------
(* Success callbacks *)

SetOrder(k, status, outcome) ==
    order' = IF Written(outcome) THEN [order EXCEPT ![k] = status] ELSE order

\* HandleFreezeBalanceSuccess, first half: the order becomes frozen, whatever
\* its status was.
FreezeSucceeded(w, outcome) ==
    /\ worker[w].pc = "callback" /\ Entry(w).action = Freeze
    /\ SetOrder(Entry(w).saga, "frozen", outcome)
    /\ GoTo(w, IF Reported(outcome) THEN "next" ELSE "retry")
    /\ Access(outcome)
    /\ UNCHANGED <<outbox, request, effects>>

\* Second half: the entry that submits the order.
CreateSubmitEntry(w, outcome) ==
    /\ worker[w].pc = "next"
    /\ outbox' = IF Written(outcome) THEN Append(outbox, NewEntry(Entry(w).saga, Submit))
                 ELSE outbox
    /\ IF Reported(outcome) THEN EndEntry(w) ELSE GoTo(w, "retry")
    /\ Access(outcome)
    /\ UNCHANGED <<order, request, effects>>

\* HandleSubmitMatchingSuccess.
SubmitSucceeded(w, outcome) ==
    /\ worker[w].pc = "callback" /\ Entry(w).action = Submit
    /\ SetOrder(Entry(w).saga, "submitted", outcome)
    /\ IF Reported(outcome) THEN EndEntry(w) ELSE GoTo(w, "retry")
    /\ Access(outcome)
    /\ UNCHANGED <<outbox, request, effects>>

-----------------------------------------------------------------------------

\* The worker's own accesses to the table.
WorkerAccess(w, outcome) ==
    /\ \/ Take(w, outcome) \/ MarkDone(w, outcome)
       \/ /\ outcome \in Unreported
          /\ \/ Poll(w, outcome) \/ Fetch(w, outcome)
             \/ RecoverStale(w, outcome) \/ CountRetry(w, outcome)
             \/ Delay(w, outcome) \/ Requeue(w, outcome)
             \/ Bury(w, outcome) \/ RetryCallback(w, outcome)
    /\ Access(outcome)
    /\ UNCHANGED <<order, request, effects>>

Callback(w, outcome) ==
    \/ FreezeSucceeded(w, outcome)
    \/ CreateSubmitEntry(w, outcome)
    \/ SubmitSucceeded(w, outcome)

Work(w) ==
    \/ \E answer \in {"accepted", "refused", "unheard"} : Deliver(w, answer)
    \/ \E outcome \in Outcomes : WorkerAccess(w, outcome) \/ Callback(w, outcome)

\* The gateway's process dies, and the requests it was serving with it.
Crash(w) ==
    /\ WorkerCrash(w)
    /\ Trouble("crash")
    /\ request' = [r \in Requests |->
                      IF request[r] \in Sagas THEN "answered" ELSE request[r]]
    /\ UNCHANGED <<order, effects>>

Restart(w) ==
    /\ \E outcome \in Unreported : RecoverStaleEntries(w, outcome) /\ Access(outcome)
    /\ UNCHANGED <<order, request, effects>>

TimePasses ==
    /\ \E i \in DOMAIN outbox : Ages(i) \/ BackoffEnds(i)
    /\ UNCHANGED <<order, request, effects, troubles>>

Create(r) ==
    \E outcome \in Unreported :
        (\E k \in Sagas : CheckIdempotency(r, k, outcome)) \/ StoreOrder(r, outcome)

Next ==
    \/ \E r \in Requests : Create(r)
    \/ \E w \in Workers : Work(w) \/ Crash(w) \/ Restart(w)
    \/ TimePasses

Spec == Init /\ [][Next]_vars

\* The worker goes on, a supervisor restarts the gateway, and time passes.  That a
\* delivery returns is assumed of the services: no deadline is set for it.
FairSpec ==
    /\ Spec
    /\ WF_vars(TimePasses)
    /\ \A w \in Workers : WF_vars(Work(w)) /\ WF_vars(Restart(w))

-----------------------------------------------------------------------------
(* What the saga must guarantee *)

TypeOK ==
    /\ outbox \in Seq([saga : Sagas, action : Actions, status : Statuses,
                       retries : Nat, backoff : BOOLEAN, stale : BOOLEAN])
    /\ \A w \in Workers :
        /\ worker[w].pc \in {"idle", "recover", "take", "deliver", "count",
               "delay", "requeue", "bury", "mark", "callback", "next", "retry", "down"}
        /\ \A j \in DOMAIN worker[w].batch : worker[w].batch[j].id \in DOMAIN outbox
        /\ worker[w].batch = << >> => worker[w].pc \in {"idle", "recover", "down"}
    /\ order \in [Sagas -> {NoOrder, "created", "frozen", "submitted"}]
    /\ request \in [Requests -> {"new", "answered"} \cup Sagas]
    /\ effects \in [Sagas -> [Actions -> Nat]]
    /\ troubles \in 0..MaxTroubles

\* What a status claims has happened: no order is called frozen, or reaches the
\* engine, before its money is frozen, nor submitted before it was, whichever
\* writes fail and wherever the process dies.
StatusTellsTruth ==
    \A k \in Sagas :
        /\ order[k] \in {"frozen", "submitted"} => effects[k][Freeze] > 0
        /\ order[k] = "submitted" => effects[k][Submit] > 0
        /\ effects[k][Submit] > 0 => effects[k][Freeze] > 0

\* With one worker, money is frozen and an order submitted once, and once more
\* at most for each crash, failed access or unheard answer: neither retries, nor
\* recovery, nor a second request with the same key repeat what was done.
RepeatsHaveACause ==
    \A k \in Sagas, a \in Actions : effects[k][a] <= 1 + troubles

\* With one worker, an entry that is done or given up stays so: the recovery
\* of stale entries does not bring it back.
SettledIsFinal ==
    [][\A i \in DOMAIN outbox :
            ~Unfinished(i) => outbox'[i].status = outbox[i].status]_vars

\* An entry that fails "more than max_retries SHALL be marked dead_letter":
\* every entry is in the end done or given up, whatever goes wrong, as long as
\* it does not go wrong for ever.
EntriesSettle == <>[](\A i \in DOMAIN outbox : ~Unfinished(i))

\* The saga of k came to its end, or to where a person must look.
Concluded(k) ==
    \/ order[k] = "submitted"
    \/ \E i \in DOMAIN outbox : outbox[i].saga = k /\ outbox[i].status = "dead_letter"

\* If nothing goes wrong but refusals, every order that was accepted is in the
\* end submitted or has a dead letter.
SagaCompletes ==
    \A k \in Sagas : order[k] # NoOrder ~> Concluded(k) \/ troubles > 0

\* What the saga's document asks for: "Saga progress SHALL be persisted to
\* database. After Gateway restart, in-progress sagas ... SHALL be retried."
SagaResumes == \A k \in Sagas : order[k] # NoOrder ~> Concluded(k)
=============================================================================
