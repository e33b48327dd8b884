---------------------------- MODULE EngineShutdown ----------------------------
(***************************************************************************)
(* How the matching service stops: main of cmd/matching-svc, and Shutdown  *)
(* of internal/matching/engine/engine.go against the calls that are still  *)
(* under way, the actors of several symbols and the notifier.              *)
(*                                                                         *)
(* Shutdown takes the engine apart in steps: running, the contexts, the    *)
(* two maps, the notification channel.  A call looks at running twice and  *)
(* uses the maps and the channel later.  Go panics when it stores in a nil *)
(* map or sends on a closed channel, and no handler recovers: the process  *)
(* is gone.  A command's channel, of 1000, never fills up here, and what a *)
(* command does to a book is OrderBook's business.                         *)
(***************************************************************************)
EXTENDS Integers, FiniteSets, Sequences

CONSTANTS
    Symbols,        \* symbols
    Calls,          \* SubmitOrder calls
    NotifySize      \* capacity of the notification channel (10000)

VARIABLES
    graceful,       \* the server is stopped before the engine, as main does
    phase,          \* how far the stop has come
    running,        \* m.running
    ctxDone,        \* m.ctx is cancelled, and every actor's with it
    actor,          \* the actor of each symbol: "none", "running", "exited"
    queue,          \* its commands
    chans,          \* the symbols of m.exitedChans
    actorsNil,      \* m.actors is nil
    chansNil,       \* m.exitedChans is nil
    awaited,        \* the exits Shutdown waits for
    notify,         \* the notification channel
    closed,         \* it is closed
    notifier,       \* processNotifications: "idle", the call in hand, "gone"
    pc,             \* where each call is
    symbol,         \* its symbol
    outcome,        \* what it answers
    log,            \* ghost: the calls in the write-ahead log
    executed,       \* ghost: the calls an actor has executed
    panicked        \* the process has died of a panic

engineVars == <<running, ctxDone, actorsNil, chansNil, awaited, closed>>
vars == <<graceful, phase, engineVars, actor, queue, chans, notify, notifier,
          pc, symbol, outcome, log, executed, panicked>>

Init ==
    /\ graceful \in BOOLEAN /\ phase = "serving"
    /\ running = TRUE /\ ctxDone = FALSE
    /\ actor = [s \in Symbols |-> "none"] /\ queue = [s \in Symbols |-> <<>>]
    /\ chans = {} /\ actorsNil = FALSE /\ chansNil = FALSE /\ awaited = {}
    /\ notify = <<>> /\ closed = FALSE /\ notifier = "idle"
    /\ pc = [c \in Calls |-> "new"]
    /\ symbol = [c \in Calls |-> CHOOSE s \in Symbols : TRUE]
    /\ outcome = [c \in Calls |-> "none"]
    /\ log = {} /\ executed = {} /\ panicked = FALSE

-----------------------------------------------------------------------------
(* A call: SubmitOrder and dispatch *)

Goes(c, p) ==
    /\ pc' = [pc EXCEPT ![c] = p]
    /\ UNCHANGED <<outcome, panicked>>

Ends(c, o) ==
    /\ pc' = [pc EXCEPT ![c] = "done"]
    /\ outcome' = [outcome EXCEPT ![c] = o]
    /\ UNCHANGED panicked

Panics ==
    /\ panicked' = TRUE
    /\ UNCHANGED <<pc, outcome>>

\* The server takes new calls until it is stopped; the first look at running.
Arrive(c, s) ==
    /\ pc[c] = "new" /\ (phase = "serving" \/ ~graceful)
    /\ symbol' = [symbol EXCEPT ![c] = s]
    /\ IF running THEN Goes(c, "checked") ELSE Ends(c, "refused")
    /\ UNCHANGED <<graceful, phase, engineVars, actor, queue, chans, notify,
                   notifier, log, executed>>

Log(c) ==
    /\ pc[c] = "checked"
    /\ log' = log \cup {c}
    /\ Goes(c, "logged")
    /\ UNCHANGED <<graceful, phase, engineVars, actor, queue, chans, notify,
                   notifier, symbol, executed>>

\* dispatch looks again.
Check(c) ==
    /\ pc[c] = "logged"
    /\ IF running THEN Goes(c, "admitted") ELSE Ends(c, "refused")
    /\ UNCHANGED <<graceful, phase, engineVars, actor, queue, chans, notify,
                   notifier, symbol, log, executed>>

Known(c) == ~actorsNil /\ actor[symbol[c]] # "none"

\* getOrCreateActor, under actorsMu, for a symbol that has an actor, although
\* that may have exited.
FindActor(c) ==
    /\ pc[c] = "admitted" /\ Known(c)
    /\ Goes(c, "found")
    /\ UNCHANGED <<graceful, phase, engineVars, actor, queue, chans, notify,
                   notifier, symbol, log, executed>>

CreateActor(c) ==
    /\ pc[c] = "admitted" /\ ~Known(c) /\ ~actorsNil /\ ~chansNil
    /\ actor' = [actor EXCEPT ![symbol[c]] = "running"]
    /\ chans' = chans \cup {symbol[c]}
    /\ Goes(c, "found")
    /\ UNCHANGED <<graceful, phase, engineVars, queue, notify, notifier,
                   symbol, log, executed>>

CreateInNil(c) ==
    /\ pc[c] = "admitted" /\ ~Known(c) /\ (actorsNil \/ chansNil)
    /\ Panics
    /\ UNCHANGED <<graceful, phase, engineVars, actor, queue, chans, notify,
                   notifier, symbol, log, executed>>

Put(c) ==
    /\ pc[c] = "found"
    /\ queue' = [queue EXCEPT ![symbol[c]] = Append(@, c)]
    /\ Goes(c, "queued")
    /\ UNCHANGED <<graceful, phase, engineVars, actor, chans, notify,
                   notifier, symbol, log, executed>>

\* The caller's context ends, or five seconds have passed.
TimeOut(c) ==
    /\ pc[c] \in {"found", "queued"}
    /\ Ends(c, "timeout")
    /\ UNCHANGED <<graceful, phase, engineVars, actor, queue, chans, notify,
                   notifier, symbol, log, executed>>

Receive(c) ==
    /\ pc[c] = "queued" /\ c \in executed
    /\ Goes(c, "answered")
    /\ UNCHANGED <<graceful, phase, engineVars, actor, queue, chans, notify,
                   notifier, symbol, log, executed>>

\* The result goes to the notifier if there is room; a full channel drops it.
Notify(c) ==
    /\ pc[c] = "answered" /\ ~closed
    /\ notify' = IF Len(notify) < NotifySize THEN Append(notify, c) ELSE notify
    /\ Ends(c, "ok")
    /\ UNCHANGED <<graceful, phase, engineVars, actor, queue, chans,
                   notifier, symbol, log, executed>>

NotifyClosed(c) ==
    /\ pc[c] = "answered" /\ closed
    /\ Panics
    /\ UNCHANGED <<graceful, phase, engineVars, actor, queue, chans, notify,
                   notifier, symbol, log, executed>>

CallStep(c) ==
    \/ Log(c) \/ Check(c) \/ FindActor(c) \/ CreateActor(c) \/ CreateInNil(c)
    \/ Put(c) \/ TimeOut(c) \/ Receive(c) \/ Notify(c) \/ NotifyClosed(c)

-----------------------------------------------------------------------------
(* The goroutines of the engine *)

callVars == <<pc, symbol, outcome, log, panicked>>

\* An actor takes its commands, and chooses freely once its context is done.
Handle(s) ==
    /\ actor[s] = "running" /\ queue[s] # <<>>
    /\ executed' = executed \cup {Head(queue[s])}
    /\ queue' = [queue EXCEPT ![s] = Tail(@)]
    /\ UNCHANGED <<graceful, phase, engineVars, actor, chans, notify, notifier,
                   callVars>>

\* It returns, closes its channel and removes it from the map, if there is one.
Exit(s) ==
    /\ actor[s] = "running" /\ ctxDone
    /\ actor' = [actor EXCEPT ![s] = "exited"]
    /\ chans' = chans \ {s}
    /\ UNCHANGED <<graceful, phase, engineVars, queue, notify, notifier,
                   callVars, executed>>

TakeResult ==
    /\ notifier = "idle" /\ notify # <<>>
    /\ notifier' = Head(notify) /\ notify' = Tail(notify)
    /\ UNCHANGED <<graceful, phase, engineVars, actor, queue, chans, callVars,
                   executed>>

\* Trades are logged, stored and published.
Process ==
    /\ notifier \in Calls
    /\ notifier' = "idle"
    /\ UNCHANGED <<graceful, phase, engineVars, actor, queue, chans, notify,
                   callVars, executed>>

\* What is left in the channel stays there.
NotifierGoes ==
    /\ notifier = "idle" /\ (ctxDone \/ (closed /\ notify = <<>>))
    /\ notifier' = "gone"
    /\ UNCHANGED <<graceful, phase, engineVars, actor, queue, chans, notify,
                   callVars, executed>>

-----------------------------------------------------------------------------
(* The stop *)

Stops(from, to) ==
    /\ phase = from /\ phase' = to
    /\ UNCHANGED <<graceful, actor, queue, chans, notify, notifier, callVars,
                   executed>>

Signal ==
    /\ Stops("serving", "draining")
    /\ UNCHANGED engineVars

\* Variant of ServerStopped: main does not wait for the server.
NotAwaited == TRUE

\* GracefulStop returns when the calls it has taken have.
ServerStopped == graceful => \A c \in Calls : pc[c] \in {"new", "done"}

SwapRunning ==
    /\ ServerStopped
    /\ Stops("draining", "swapped")
    /\ running' = FALSE
    /\ UNCHANGED <<ctxDone, actorsNil, chansNil, awaited, closed>>

\* Variant of Cancel: the context is left alone.
CancelForgotten ==
    /\ Stops("swapped", "cancelled")
    /\ UNCHANGED engineVars

\* m.cancel: an actor's context is derived from m.ctx.
Cancel ==
    /\ Stops("swapped", "cancelled")
    /\ ctxDone' = TRUE
    /\ UNCHANGED <<running, actorsNil, chansNil, awaited, closed>>

\* Under actorsMu.
TakeChans ==
    /\ Stops("cancelled", "waiting")
    /\ awaited' = chans /\ chansNil' = TRUE
    /\ UNCHANGED <<running, ctxDone, actorsNil, closed>>

\* Every exit waited for has come, and under actorsMu the map goes.
DropActors ==
    /\ \A s \in awaited : actor[s] = "exited"
    /\ Stops("waiting", "dropped")
    /\ actorsNil' = TRUE
    /\ UNCHANGED <<running, ctxDone, chansNil, awaited, closed>>

CloseNotify ==
    /\ Stops("dropped", "stopped")
    /\ closed' = TRUE
    /\ UNCHANGED <<running, ctxDone, actorsNil, chansNil, awaited>>

Shutdown == SwapRunning \/ Cancel \/ TakeChans \/ DropActors \/ CloseNotify

Next ==
    /\ ~panicked
    /\ \/ \E c \in Calls : CallStep(c) \/ \E s \in Symbols : Arrive(c, s)
       \/ \E s \in Symbols : Handle(s) \/ Exit(s)
       \/ TakeResult \/ Process \/ NotifierGoes
       \/ Signal \/ Shutdown

Spec == Init /\ [][Next]_vars

\* Goroutines run, a deadline passes, and a select whose context is done does
\* not choose the other case for ever.
Fairness ==
    /\ \A c \in Calls : WF_vars(~panicked /\ CallStep(c))
    /\ \A s \in Symbols : WF_vars(~panicked /\ Exit(s))
    /\ WF_vars(~panicked /\ Shutdown)

FairSpec == Spec /\ Fairness
-----------------------------------------------------------------------------
(* What a stop promises *)

\* Main's order is enough: a call never finds the engine taken apart, so none
\* panics, none is logged and then turned away only to be executed by the
\* next start's replay, and of the calls that are logged and not executed
\* when the engine has stopped the callers have been told of a time-out.
StopIsClean ==
    graceful =>
        /\ ~panicked
        /\ \A c \in log : outcome[c] # "refused"
        /\ phase = "stopped" => \A c \in log \ executed : outcome[c] = "timeout"

\* Shutdown returns, whatever the calls and the actors are doing, unless the
\* process has died; none of its waits is for somebody who waits for it.
ShutdownReturns == phase = "draining" ~> phase = "stopped" \/ panicked

TypeOK ==
    /\ graceful \in BOOLEAN /\ running \in BOOLEAN /\ ctxDone \in BOOLEAN
    /\ phase \in {"serving", "draining", "swapped", "cancelled", "waiting",
                  "dropped", "stopped"}
    /\ actor \in [Symbols -> {"none", "running", "exited"}]
    /\ queue \in [Symbols -> Seq(Calls)] /\ notify \in Seq(Calls)
    /\ chans \subseteq Symbols /\ awaited \subseteq Symbols
    /\ {actorsNil, chansNil, closed, panicked} \subseteq BOOLEAN
    /\ notifier \in Calls \cup {"idle", "gone"}
    /\ pc \in [Calls -> {"new", "checked", "logged", "admitted", "found",
                         "queued", "answered", "done"}]
    /\ symbol \in [Calls -> Symbols]
    /\ outcome \in [Calls -> {"none", "refused", "timeout", "ok"}]
    /\ log \subseteq Calls /\ executed \subseteq Calls
=============================================================================
