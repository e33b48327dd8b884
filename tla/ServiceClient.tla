---------------------------- MODULE ServiceClient ----------------------------
(***************************************************************************)
(* A gRPC client of one service: internal/gateway/client for the gateway's *)
(* three, internal/matching/client for the one of the matching service.    *)
(* A call is a goroutine that goes through a chain of interceptors, which  *)
(* is what the clients differ in: the breaker, the time-out, the retries.  *)
(* All calls of a client share its breaker.                                *)
(*                                                                         *)
(* A request is a message that the service takes when it likes, perhaps    *)
(* after the caller has given up, perhaps never.  The connection may break *)
(* before or after it has.  The library retries an unavailable service and *)
(* nothing else, and no longer than the context lives.                     *)
(***************************************************************************)
EXTENDS Integers, FiniteSets

CONSTANTS
    MaxRetries,     \* attempts of a client that retries (3)
    FailureThreshold, \* failures in a row that trip the breaker (5)
    MaxProbes,      \* MaxRequests of the breaker (3)
    MaxCalls,       \* bound: calls of a behaviour
    MaxInFlight     \* bound: calls at a time

Calls == 1..MaxCalls

\* The chains.  The gateway's order client retries within one deadline, that
\* of the matching service gives each attempt its own; the others have none.
OrderClient == [guarded |-> TRUE, deadline |-> TRUE, attempts |-> MaxRetries]
UserClient == [guarded |-> TRUE, deadline |-> FALSE, attempts |-> 1]
MatchingClient == [guarded |-> TRUE, deadline |-> FALSE, attempts |-> 1]
UpdateClient == [guarded |-> FALSE, deadline |-> TRUE, attempts |-> MaxRetries]

VARIABLES
    client,         \* the client
    breaker,        \* its breaker
    pc,             \* where each call is
    attempt,        \* its attempts so far
    wire,           \* the requests the service has not taken: <<call, attempt>>
    executed,       \* how often the service has executed each call
    result,         \* what the call returns; to the breaker an error is an error
    late            \* ghost: the calls in flight when the breaker last opened

vars == <<client, breaker, pc, attempt, wire, executed, result, late>>

INSTANCE CircuitBreaker

Init ==
    /\ client \in {OrderClient, UserClient, MatchingClient, UpdateClient}
    /\ breaker = Closed
    /\ pc = [c \in Calls |-> "new"]
    /\ attempt = [c \in Calls |-> 0]
    /\ wire = {}
    /\ executed = [c \in Calls |-> 0]
    /\ result = [c \in Calls |-> "none"]
    /\ late = {}

InFlight == {c \in Calls : pc[c] \in {"sent", "backoff"}}

-----------------------------------------------------------------------------
(* The breaker's interceptor *)

\* Calls are numbered as they come.
Comes(c) ==
    /\ pc[c] = "new" /\ \A d \in Calls : d < c => pc[d] # "new"
    /\ Cardinality(InFlight) < MaxInFlight

Send(c) ==
    /\ attempt' = [attempt EXCEPT ![c] = @ + 1]
    /\ wire' = wire \cup {<<c, attempt[c] + 1>>}
    /\ pc' = [pc EXCEPT ![c] = "sent"]

Enter(c) ==
    /\ Comes(c) /\ (client.guarded => Admits(Current(breaker)))
    /\ breaker' = IF client.guarded THEN Entered(Current(breaker), c) ELSE breaker
    /\ Send(c)
    /\ UNCHANGED <<client, executed, result, late>>

\* ErrOpenState or ErrTooManyRequests: nothing is sent.
Refuse(c) ==
    /\ Comes(c) /\ client.guarded /\ ~Admits(Current(breaker))
    /\ breaker' = Current(breaker)
    /\ result' = [result EXCEPT ![c] = "refused"]
    /\ pc' = [pc EXCEPT ![c] = "done"]
    /\ UNCHANGED <<client, attempt, wire, executed, late>>

ReadyToTrip(b) == b.failing >= FailureThreshold

\* afterRequest.  Any error counts, a service's refusal and the caller's own
\* cancellation too.
AfterRequest(c, r) ==
    LET b == Current(breaker) IN
    IF ~client.guarded THEN breaker
    ELSE IF r = "ok" THEN Succeeded(b, c)
    ELSE Failed(b, c, ReadyToTrip(Counted(b, c)))

\* Its interval or its time-out is over.
Expire ==
    /\ client.guarded /\ Ticks(breaker, TRUE)
    /\ breaker' = [breaker EXCEPT !.due = TRUE]
    /\ UNCHANGED <<client, pc, attempt, wire, executed, result, late>>

-----------------------------------------------------------------------------
(* The service, the retries and the deadline *)

\* The service takes a request, whether its caller still waits or not.
Execute(c, a) ==
    /\ <<c, a>> \in wire
    /\ wire' = wire \ {<<c, a>>}
    /\ executed' = [executed EXCEPT ![c] = @ + 1]
    /\ UNCHANGED <<client, breaker, pc, attempt, result, late>>

\* The call ends and the breaker counts it.
Return(c, r) ==
    /\ result' = [result EXCEPT ![c] = r]
    /\ pc' = [pc EXCEPT ![c] = "done"]
    /\ breaker' = AfterRequest(c, r)
    /\ late' = IF breaker'.state = "open" /\ Current(breaker).state # "open"
               THEN InFlight \ {c} ELSE late
    /\ UNCHANGED <<client, attempt, wire, executed>>

\* Its answer: done, or refused for a reason of its own.
Answer(c, r) ==
    /\ pc[c] = "sent" /\ <<c, attempt[c]>> \notin wire
    /\ Return(c, r)

\* Variant of MayRetry: the first attempt is not counted.
RetriesNotCounted(c) == attempt[c] <= client.attempts

MayRetry(c) == attempt[c] < client.attempts

\* The connection breaks, whatever the service has done.
Break(c) ==
    /\ pc[c] = "sent" /\ MayRetry(c)
    /\ pc' = [pc EXCEPT ![c] = "backoff"]
    /\ UNCHANGED <<client, breaker, attempt, wire, executed, result, late>>

GiveUp(c) ==
    /\ pc[c] = "sent" /\ ~MayRetry(c)
    /\ Return(c, "error")

Retry(c) ==
    /\ pc[c] = "backoff"
    /\ Send(c)
    /\ UNCHANGED <<client, breaker, executed, result, late>>

\* Variant of HasDeadline: the interceptor is left out of the chain.
HasNone(c) == FALSE

HasDeadline(c) == client.deadline /\ pc[c] \in {"sent", "backoff"}

\* The deadline of the call; for the update client that of an attempt, and its
\* error is not retried.
Deadline(c) ==
    /\ HasDeadline(c)
    /\ Return(c, "error")

\* The caller's context ends: its own caller has gone.
Cancel(c) ==
    /\ pc[c] \in {"sent", "backoff"}
    /\ Return(c, "error")

Next ==
    \/ Expire
    \/ \E c \in Calls :
        \/ Enter(c) \/ Refuse(c)
        \/ \E a \in 1..MaxRetries : Execute(c, a)
        \/ \E r \in {"ok", "error"} : Answer(c, r)
        \/ Break(c) \/ GiveUp(c) \/ Retry(c) \/ Deadline(c) \/ Cancel(c)

Spec == Init /\ [][Next]_vars

\* Timers fire and a goroutine goes on.  The service need do nothing, and the
\* caller need not lose patience.
Fairness ==
    \A c \in Calls : WF_vars(Retry(c)) /\ WF_vars(Deadline(c))

FairSpec == Spec /\ Fairness
-----------------------------------------------------------------------------
(* What the clients promise *)

TypeOK ==
    /\ breaker \in Breaker(Calls)
    /\ pc \in [Calls -> {"new", "sent", "backoff", "done"}]
    /\ attempt \in [Calls -> Nat]
    /\ wire \subseteq Calls \X Nat
    /\ executed \in [Calls -> Nat]
    /\ result \in [Calls -> {"none", "refused", "ok", "error"}]
    /\ late \subseteq Calls

\* While the breaker is not closed the service is left alone: apart from the
\* calls that were in flight when it opened, no more than MaxProbes are, with
\* all the late answers of several generations in between, and so it is asked
\* to do no more than MaxProbes times the attempts of a call.
ProbesBounded ==
    client.guarded /\ breaker.state # "closed" =>
        Cardinality(InFlight \ late) <= MaxProbes

\* The service executes a call no more often than the client may try; a call
\* that the breaker refused has never been executed and never will be; one
\* that came back with success has been.
ExecutionsAccounted ==
    \A c \in Calls :
        /\ executed[c] + Cardinality({m \in wire : m[1] = c}) <= client.attempts
        /\ result[c] = "refused" =>
                executed[c] = 0 /\ \A m \in wire : m[1] # c
        /\ result[c] = "ok" => executed[c] > 0

\* A client with a deadline returns from every call although the service may
\* be hung, and so its breaker is not held half open by probes that never come
\* back: when all places are taken it is decided.
HungServiceSurvived ==
    <>[](client.deadline =>
            /\ InFlight = {}
            /\ ~(breaker.state = "half-open" /\ breaker.requests = MaxProbes))
=============================================================================
