-------------------------------- MODULE Outbox --------------------------------
(***************************************************************************)
(* The outbox table and the background workers that deliver its entries,   *)
(* one worker in each gateway process.  What a delivery and its success     *)
(* callback do is left to the module that composes this one.               *)
(***************************************************************************)
EXTENDS Subsequence

CONSTANTS
    Workers,        \* the gateway processes, each with its worker
    Sagas,          \* saga identifiers: the idempotency keys
    Actions,        \* what an entry asks for
    MaxRetries      \* WorkerConfig.MaxRetries

ASSUME OutboxAssumption == MaxRetries \in Nat \ {0}

VARIABLES
    outbox,         \* the rows, by ID, which is their order of creation
    worker          \* each worker's place in processEntries

outboxVars == <<outbox, worker>>

Statuses == {"pending", "processing", "done", "dead_letter"}

\* A write to the database succeeds, fails, or is done but reported as failed.
\* Where nobody looks at the report the third is as good as the first.
Outcomes == {"ok", "failed", "lost"}
Unreported == {"ok", "failed"}
Written(outcome) == outcome # "failed"
Reported(outcome) == outcome = "ok"

Idle == [pc |-> "idle", batch |-> << >>]

OutboxInit ==
    /\ outbox = << >>
    /\ worker = [w \in Workers |-> Idle]

NewEntry(saga, action) ==
    [saga |-> saga, action |-> action, status |-> "pending", retries |-> 0,
     backoff |-> FALSE, stale |-> FALSE]

Unfinished(i) == outbox[i].status \in {"pending", "processing"}
Ready(i) == outbox[i].status = "pending" /\ ~outbox[i].backoff

\* Rows as they are read, in the order of their IDs: ID and retry count.
Rows(ids) ==
    LET found == Kept([i \in DOMAIN outbox |-> i], ids)
    IN  [j \in DOMAIN found |->
            [id |-> found[j], retries |-> outbox[found[j]].retries]]

\* Variant of StaleRows: whatever their status is.
StaleRowsOfAnyStatus == Rows({i \in DOMAIN outbox : outbox[i].stale})
\* Variant of StaleRows: those in processing are left to their worker.
StaleRowsPending ==
    Rows({i \in DOMAIN outbox : outbox[i].status = "pending" /\ outbox[i].stale})
StaleRows == Rows({i \in DOMAIN outbox : Unfinished(i) /\ outbox[i].stale})
ReadyRows == Rows({i \in DOMAIN outbox : Ready(i)})

Entry(w) == outbox[Head(worker[w].batch).id]
GoTo(w, pc) == worker' = [worker EXCEPT ![w].pc = pc]
NextEntry(w) ==
    worker' = [worker EXCEPT ![w] = [pc |-> @.pc, batch |-> Tail(@.batch)]]
SetStatus(w, status, outcome) ==
    outbox' = IF Written(outcome)
              THEN [outbox EXCEPT ![Head(worker[w].batch).id].status = status]
              ELSE outbox

-----------------------------------------------------------------------------
(* Time *)

\* 30 seconds have passed since the entry was created, and since the earlier
\* ones were.
Ages(i) ==
    /\ Unfinished(i) /\ ~outbox[i].stale
    /\ \A j \in 1..(i - 1) : Unfinished(j) => outbox[j].stale
    /\ outbox' = [outbox EXCEPT ![i].stale = TRUE]
    /\ UNCHANGED worker

\* next_retry_at is reached.
BackoffEnds(i) ==
    /\ outbox[i].backoff
    /\ outbox' = [outbox EXCEPT ![i].backoff = FALSE]
    /\ UNCHANGED worker

-----------------------------------------------------------------------------
(* A poll: first the stale entries, then those that are ready *)

\* A query that fails finds nothing.
Poll(w, outcome) ==
    /\ worker[w].pc = "idle"
    /\ worker' = [worker EXCEPT ![w] =
            [pc |-> "recover", batch |-> IF Reported(outcome) THEN StaleRows ELSE << >>]]
    /\ UNCHANGED outbox

\* The row is reset whatever has become of it since it was read.
RecoverStale(w, outcome) ==
    /\ worker[w].pc = "recover" /\ worker[w].batch # << >>
    /\ SetStatus(w, "pending", outcome)
    /\ NextEntry(w)

Fetch(w, outcome) ==
    /\ worker[w].pc = "recover" /\ worker[w].batch = << >>
    /\ worker' = [worker EXCEPT ![w] =
            IF Reported(outcome) /\ ReadyRows # << >>
            THEN [pc |-> "take", batch |-> ReadyRows] ELSE Idle]
    /\ UNCHANGED outbox

-----------------------------------------------------------------------------
(* processEntry *)

\* On to the next entry of the batch, or to the next poll.
EndEntry(w) ==
    worker' = [worker EXCEPT ![w] =
        IF Len(@.batch) = 1 THEN Idle
        ELSE [pc |-> "take", batch |-> Tail(@.batch)]]

Take(w, outcome) ==
    /\ worker[w].pc = "take"
    /\ SetStatus(w, "processing", outcome)
    /\ IF Reported(outcome) THEN GoTo(w, "deliver") ELSE EndEntry(w)

\* Variant of Delivered: the handler's error is not looked at.
DeliveredAnyway(w, accepted) ==
    /\ worker[w].pc = "deliver"
    /\ GoTo(w, "mark")
    /\ UNCHANGED outbox

\* The handler returned; accepted says whether without error.
Delivered(w, accepted) ==
    /\ worker[w].pc = "deliver"
    /\ GoTo(w, IF accepted THEN "mark" ELSE "count")
    /\ UNCHANGED outbox

\* The count as it was when the batch was read decides.
Exhausted(w) == Head(worker[w].batch).retries + 1 >= MaxRetries

CountRetry(w, outcome) ==
    /\ worker[w].pc = "count"
    /\ outbox' = IF Written(outcome)
                 THEN [outbox EXCEPT ![Head(worker[w].batch).id].retries = @ + 1]
                 ELSE outbox
    /\ GoTo(w, IF Exhausted(w) THEN "bury" ELSE "delay")

Delay(w, outcome) ==
    /\ worker[w].pc = "delay"
    /\ outbox' = IF Written(outcome)
                 THEN [outbox EXCEPT ![Head(worker[w].batch).id].backoff = TRUE]
                 ELSE outbox
    /\ GoTo(w, "requeue")

Requeue(w, outcome) ==
    /\ worker[w].pc = "requeue"
    /\ SetStatus(w, "pending", outcome)
    /\ EndEntry(w)

\* Variant of Bury: who runs out of retries is dropped.
BuryAsDone(w, outcome) ==
    /\ worker[w].pc = "bury"
    /\ SetStatus(w, "done", outcome)
    /\ EndEntry(w)

Bury(w, outcome) ==
    /\ worker[w].pc = "bury"
    /\ SetStatus(w, "dead_letter", outcome)
    /\ EndEntry(w)

MarkDone(w, outcome) ==
    /\ worker[w].pc = "mark"
    /\ SetStatus(w, "done", outcome)
    /\ IF Reported(outcome) THEN GoTo(w, "callback") ELSE EndEntry(w)

\* A failed callback is retried by a new entry with the same action, so that
\* its delivery is repeated too.
RetryCallback(w, outcome) ==
    /\ worker[w].pc = "retry"
    /\ outbox' = IF Written(outcome)
                 THEN Append(outbox, NewEntry(Entry(w).saga, Entry(w).action))
                 ELSE outbox
    /\ EndEntry(w)

-----------------------------------------------------------------------------
(* The process ends, between two entries when it is stopped in order; a new  *)
(* one resets the stale entries before it serves                            *)

Down == [pc |-> "down", batch |-> << >>]

WorkerCrash(w) ==
    /\ worker[w].pc # "down"
    /\ worker' = [worker EXCEPT ![w] = Down]
    /\ UNCHANGED outbox

\* Without a message, so that no column is missed; a failure is only logged.
RecoverStaleEntries(w, outcome) ==
    /\ worker[w].pc = "down"
    /\ worker' = [worker EXCEPT ![w] = Idle]
    /\ outbox' = [i \in DOMAIN outbox |->
            IF Written(outcome) /\ Unfinished(i) /\ outbox[i].stale
            THEN [outbox[i] EXCEPT !.status = "pending"] ELSE outbox[i]]
=============================================================================
