---------------------------- MODULE CircuitBreaker ----------------------------
(***************************************************************************)
(* The circuit breaker of github.com/sony/gobreaker, which the gateway     *)
(* puts in front of Redis and of each service.  A breaker is a record, and *)
(* what beforeRequest and afterRequest make of it are operators: who uses  *)
(* one says when it trips (ReadyToTrip) and when its timer has run out     *)
(* (due).                                                                  *)
(*                                                                         *)
(* A change of state, or of the counting interval, begins a generation:    *)
(* the counts start from zero, and an answer to a request admitted before  *)
(* is ignored.  inside is who was admitted in this generation and has not  *)
(* been answered.                                                          *)
(***************************************************************************)
EXTENDS Integers

CONSTANTS MaxProbes     \* MaxRequests: requests the half-open breaker admits

NewGeneration(s) ==
    [state |-> s, requests |-> 0, failures |-> 0, failing |-> 0,
     succeeding |-> 0, due |-> FALSE, inside |-> {}]

Closed == NewGeneration("closed")

Breaker(Callers) ==
    [state : {"closed", "open", "half-open"}, requests : Nat, failures : Nat,
     failing : Nat, succeeding : Nat, due : BOOLEAN, inside : SUBSET Callers]

\* currentState: whoever asks finds that the timer has run out.
Current(b) ==
    IF ~b.due THEN b
    ELSE NewGeneration(IF b.state = "open" THEN "half-open" ELSE "closed")

\* Variant of Admits: a half-open breaker admits everybody.
AdmitsUnlessOpen(b) == b.state # "open"

\* beforeRequest: an open breaker admits nobody, a half-open one MaxProbes.
Admits(b) ==
    \/ b.state = "closed"
    \/ (b.state = "half-open" /\ b.requests < MaxProbes)

Entered(b, p) == [b EXCEPT !.requests = @ + 1, !.inside = @ \cup {p}]

\* afterRequest, for a success.
Succeeded(b, p) ==
    LET c == [b EXCEPT !.succeeding = @ + 1, !.failing = 0,
                       !.inside = @ \ {p}]
    IN  IF p \notin b.inside THEN b
        ELSE IF b.state = "half-open" /\ c.succeeding >= MaxProbes THEN Closed
        ELSE c

\* The counts after one more failure, which ReadyToTrip looks at.
Counted(b, p) ==
    [b EXCEPT !.failures = @ + 1, !.failing = @ + 1, !.succeeding = 0,
              !.inside = @ \ {p}]

\* afterRequest, for a failure that trips the closed breaker or does not.
Failed(b, p, trips) ==
    IF p \notin b.inside THEN b
    ELSE IF b.state = "half-open" \/ trips THEN NewGeneration("open")
    ELSE Counted(b, p)

\* The timer of a closed breaker runs if its counts are for an interval.
Ticks(b, interval) ==
    ~b.due /\ (b.state = "open" \/ (b.state = "closed" /\ interval))
=============================================================================
