------------------------------ MODULE WorkerPool ------------------------------
(***************************************************************************)
(* The worker pool, internal/matching/workerpool/workerpool.go: workers    *)
(* that take tasks from one buffered channel, submitters, and the two ways *)
(* to stop it, which any number of goroutines may call.                    *)
(*                                                                         *)
(* A select with several ready cases takes any of them, and to send on a   *)
(* closed channel is ready, and panics.  A task may fail; it does not      *)
(* panic and it ends.                                                      *)
(***************************************************************************)
EXTENDS Integers, FiniteSets, Sequences

CONSTANTS
    Workers,        \* worker goroutines
    Tasks,          \* tasks, each submitted once
    Stoppers,       \* goroutines that stop the pool
    QueueSize       \* capacity of taskQueue

NoTask == "none"    \* a worker has none
Gone == "gone"      \* it has returned

VARIABLES
    running,        \* wp.running
    cancelled,      \* wp.ctx is done
    queue,          \* taskQueue
    closed,         \* it is closed
    worker,         \* the task of each worker, NoTask or Gone
    started,        \* the workers that have counted their task as running
    task,           \* where each task is: "new", "sent" before it is counted,
                    \* "accepted", "ended", or what Submit answered instead
    stopper,        \* where each stopper is
    waits,          \* the stoppers that called Shutdown, not ShutdownNow
    metrics,        \* Metrics, but QueuedTasks, which is not what is reported
    panicked        \* a send on the closed channel has ended the process

vars == <<running, cancelled, queue, closed, worker, started, task, stopper,
          waits, metrics, panicked>>

Init ==
    /\ running = TRUE /\ cancelled = FALSE
    /\ queue = <<>> /\ closed = FALSE
    /\ worker = [w \in Workers |-> NoTask] /\ started = {}
    /\ task = [t \in Tasks |-> "new"]
    /\ stopper = [s \in Stoppers |-> "idle"] /\ waits = {}
    /\ metrics = [submitted |-> 0, running |-> 0, completed |-> 0, failed |-> 0]
    /\ panicked = FALSE

-----------------------------------------------------------------------------
(* Submit, and SubmitWithContext, which does not look at the pool's context *)

TaskBecomes(t, what) == task' = [task EXCEPT ![t] = what]

Turned(t, what) ==
    /\ TaskBecomes(t, what)
    /\ UNCHANGED <<running, cancelled, queue, closed, worker, started, stopper,
                   waits, metrics, panicked>>

Send(t) ==
    /\ task[t] = "new" /\ ~closed /\ Len(queue) < QueueSize
    /\ queue' = Append(queue, t)
    /\ TaskBecomes(t, "sent")
    /\ UNCHANGED <<running, cancelled, closed, worker, started, stopper, waits,
                   metrics, panicked>>

\* The pool's context is done, or the caller's is: a second way to be turned
\* away, whatever the pool does.
TurnAway(t) == task[t] = "new" /\ Turned(t, "cancelled")

\* default: no other case is ready.
Full(t) ==
    /\ task[t] = "new" /\ ~closed /\ Len(queue) = QueueSize
    /\ Turned(t, "full")

SendOnClosed(t) ==
    /\ task[t] = "new" /\ closed
    /\ panicked' = TRUE
    /\ UNCHANGED <<running, cancelled, queue, closed, worker, started, task,
                   stopper, waits, metrics>>

\* The worker may have taken it, and even ended it, by now.
CountSubmitted(t) ==
    /\ task[t] \in {"sent", "ended early"}
    /\ metrics' = [metrics EXCEPT !.submitted = @ + 1]
    /\ TaskBecomes(t, IF task[t] = "sent" THEN "accepted" ELSE "ended")
    /\ UNCHANGED <<running, cancelled, queue, closed, worker, started, stopper,
                   waits, panicked>>

-----------------------------------------------------------------------------
(* A worker *)

WorkerBecomes(w, what) == worker' = [worker EXCEPT ![w] = what]

\* Variant of Take: the head stays in the channel.
TakeCopy(w) ==
    /\ worker[w] = NoTask /\ queue # <<>>
    /\ WorkerBecomes(w, Head(queue))
    /\ UNCHANGED <<running, cancelled, queue, closed, started, task, stopper,
                   waits, metrics, panicked>>

Take(w) ==
    /\ worker[w] = NoTask /\ queue # <<>>
    /\ WorkerBecomes(w, Head(queue)) /\ queue' = Tail(queue)
    /\ UNCHANGED <<running, cancelled, closed, started, task, stopper, waits,
                   metrics, panicked>>

Run(w) ==
    /\ worker[w] \in Tasks /\ w \notin started
    /\ started' = started \cup {w}
    /\ metrics' = [metrics EXCEPT !.running = @ + 1]
    /\ UNCHANGED <<running, cancelled, queue, closed, worker, task, stopper,
                   waits, panicked>>

\* Variant of Counted: a failed task goes on running in the metrics.
CountedIfDone(m, fails) ==
    IF fails THEN [m EXCEPT !.failed = @ + 1]
    ELSE [m EXCEPT !.running = @ - 1, !.completed = @ + 1]

Counted(m, fails) ==
    IF fails THEN [m EXCEPT !.running = @ - 1, !.failed = @ + 1]
    ELSE [m EXCEPT !.running = @ - 1, !.completed = @ + 1]

Finish(w, fails) ==
    /\ w \in started
    /\ started' = started \ {w} /\ WorkerBecomes(w, NoTask)
    /\ metrics' = Counted(metrics, fails)
    /\ TaskBecomes(worker[w],
            IF task[worker[w]] = "sent" THEN "ended early" ELSE "ended")
    /\ UNCHANGED <<running, cancelled, queue, closed, stopper, waits, panicked>>

\* The context is done, or the channel closed and empty.
Return(w) ==
    /\ worker[w] = NoTask /\ (cancelled \/ (closed /\ queue = <<>>))
    /\ WorkerBecomes(w, Gone)
    /\ UNCHANGED <<running, cancelled, queue, closed, started, task, stopper,
                   waits, metrics, panicked>>

-----------------------------------------------------------------------------
(* Shutdown and ShutdownNow *)

StopperGoes(s, pc) ==
    /\ stopper' = [stopper EXCEPT ![s] = pc]
    /\ UNCHANGED <<queue, worker, started, task, metrics, panicked>>

\* Only the first gets past running; who comes later returns at once.
Stop(s, wait) ==
    /\ stopper[s] = "idle"
    /\ StopperGoes(s, IF running THEN "flagged" ELSE "turned away")
    /\ running' = FALSE
    /\ waits' = IF wait THEN waits \cup {s} ELSE waits
    /\ UNCHANGED <<cancelled, closed>>

CancelContext(s) ==
    /\ stopper[s] = "flagged" /\ StopperGoes(s, "cancelled")
    /\ cancelled' = TRUE
    /\ UNCHANGED <<running, closed, waits>>

CloseQueue(s) ==
    /\ stopper[s] = "cancelled" /\ StopperGoes(s, "closed")
    /\ closed' = TRUE
    /\ UNCHANGED <<running, cancelled, waits>>

\* Variant of WorkersDone: the wait group counts nobody.
WorkersUncounted == TRUE

WorkersDone == \A w \in Workers : worker[w] = Gone

StopReturns(s) ==
    /\ stopper[s] = "closed" /\ (s \in waits => WorkersDone)
    /\ StopperGoes(s, "returned")
    /\ UNCHANGED <<running, cancelled, closed, waits>>

WorkerSteps(w) ==
    \/ Take(w) \/ Run(w) \/ Return(w) \/ \E fails \in BOOLEAN : Finish(w, fails)

StopSteps(s) == CancelContext(s) \/ CloseQueue(s) \/ StopReturns(s)

Next ==
    /\ ~panicked
    /\ \/ \E t \in Tasks :
            Send(t) \/ TurnAway(t) \/ Full(t) \/ SendOnClosed(t) \/ CountSubmitted(t)
       \/ \E w \in Workers : WorkerSteps(w)
       \/ \E s \in Stoppers :
            StopSteps(s) \/ \E wait \in BOOLEAN : Stop(s, wait)

Spec == Init /\ [][Next]_vars
-----------------------------------------------------------------------------
(* What the pool promises *)

InQueue == {queue[i] : i \in DOMAIN queue}
InHand == {worker[w] : w \in Workers} \cap Tasks
Ended == {t \in Tasks : task[t] \in {"ended", "ended early"}}

\* A task that Submit has accepted is in one place: waiting in the channel, in
\* the hands of one worker, or ended, and no other task is in any; once every
\* submitter and worker has counted its last step, the metrics say how many.
\* When the Shutdown that stops the pool has returned no task is run any more,
\* not even one that is left in the channel.
TasksAccounted ==
    /\ InQueue \cup InHand \cup Ended
            = {t \in Tasks : task[t] \in {"sent", "accepted", "ended", "ended early"}}
    /\ Len(queue) + Cardinality({w \in Workers : worker[w] \in Tasks})
            + Cardinality(Ended)
            = Cardinality(InQueue \cup InHand \cup Ended)
    /\ metrics.running = Cardinality(started)
    /\ metrics.completed + metrics.failed = Cardinality(Ended)
    /\ (\A t \in Tasks : task[t] \notin {"sent", "ended early"}) =>
            metrics.submitted = Cardinality(InQueue \cup InHand \cup Ended)
    /\ \A s \in waits : stopper[s] = "returned" => InHand = {}

TypeOK ==
    /\ {running, cancelled, closed, panicked} \subseteq BOOLEAN
    /\ queue \in Seq(Tasks)
    /\ worker \in [Workers -> Tasks \cup {NoTask, Gone}]
    /\ started \subseteq Workers /\ waits \subseteq Stoppers
    /\ task \in [Tasks -> {"new", "sent", "accepted", "ended early", "ended",
                           "cancelled", "full"}]
    /\ stopper \in [Stoppers -> {"idle", "flagged", "cancelled", "closed",
                                 "returned", "turned away"}]
    /\ metrics \in [submitted : Nat, running : Nat, completed : Nat, failed : Nat]
=============================================================================
