------------------------------- MODULE Consumer -------------------------------
(***************************************************************************)
(* The notification consumers, internal/notify/consumer/consumer.go: one   *)
(* Redis stream, one group, the publishers that add to it and the          *)
(* consumers that read what is new for the group, handle it and            *)
(* acknowledge it. A consumer may be stopped, and its process may die, at  *)
(* any moment; it may be started again under its name.                     *)
(*                                                                         *)
(* Redis gives an event to one reader and keeps it in the group's pending  *)
(* list until it is acknowledged.  Any answer of Redis may be lost; an     *)
(* acknowledgement whose error nobody looks at may not arrive.             *)
(***************************************************************************)
EXTENDS Integers, FiniteSets, Sequences

CONSTANTS
    Consumers,      \* the consumers of the group
    MaxEvents,      \* bound: events published
    Handled,        \* the events of a type that has a handler
    BatchSize,      \* Count of an XReadGroup (10)
    MaxStops        \* bound: stops and deaths

Events == 1..MaxEvents

VARIABLES
    published,      \* events in the stream, in order
    delivered,      \* events the group has given out
    pending,        \* its pending list
    consumer,       \* each consumer: "down", "up" or "stopping"
    batch,          \* the events in its hands, in order
    verdict,        \* what the first of them came to
    tried,          \* ghost: how often each event's handler has run
    done,           \* ghost: the events whose handler has succeeded
    stops           \* stops and deaths so far

vars == <<published, delivered, pending, consumer, batch, verdict,
          tried, done, stops>>

Init ==
    /\ published = 0 /\ delivered = 0 /\ pending = {}
    /\ consumer = [c \in Consumers |-> "down"]
    /\ batch = [c \in Consumers |-> <<>>]
    /\ verdict = [c \in Consumers |-> "none"]
    /\ tried = [e \in Events |-> 0] /\ done = {} /\ stops = 0

\* Publish, whether the publisher hears of it or not.
Publish ==
    /\ published < MaxEvents
    /\ published' = published + 1
    /\ UNCHANGED <<delivered, pending, consumer, batch, verdict, tried,
                   done, stops>>

\* Start makes the group, which begins with the first event of the stream; one
\* that exists keeps its place.
Start(c) ==
    /\ consumer[c] = "down"
    /\ consumer' = [consumer EXCEPT ![c] = "up"]
    /\ UNCHANGED <<published, delivered, pending, batch, verdict, tried, done,
                   stops>>

\* Variant of NewEvents: what is there is given out again.
FromTheStart == LET last == published IN
    [i \in 1..(IF last < BatchSize THEN last ELSE BatchSize) |-> i]

\* What is new for the group, BatchSize events at most.
NewEvents ==
    LET n == published - delivered IN
    [i \in 1..(IF n < BatchSize THEN n ELSE BatchSize) |-> delivered + i]

\* XReadGroup of ">".  If its answer is lost the events stay pending.
Read(c, answered) ==
    /\ consumer[c] = "up" /\ batch[c] = <<>> /\ NewEvents # <<>>
    /\ delivered' = NewEvents[Len(NewEvents)]
    /\ pending' = pending \cup {NewEvents[i] : i \in DOMAIN NewEvents}
    /\ batch' = IF answered THEN [batch EXCEPT ![c] = NewEvents] ELSE batch
    /\ UNCHANGED <<published, consumer, verdict, tried, done, stops>>

\* processMessage: an event that nobody handles is as good as done.
Process(c, succeeds) ==
    /\ batch[c] # <<>> /\ verdict[c] = "none"
    /\ LET e == Head(batch[c])
           ok == succeeds \/ e \notin Handled
       IN  /\ tried' = IF e \in Handled THEN [tried EXCEPT ![e] = @ + 1] ELSE tried
           /\ done' = IF ok THEN done \cup {e} ELSE done
           /\ verdict' = [verdict EXCEPT ![c] = IF ok THEN "ok" ELSE "failed"]
    /\ UNCHANGED <<published, delivered, pending, consumer, batch, stops>>

\* Variant of Acknowledges: whatever the handler says.
AcknowledgesAll(c) == consumer[c] = "up"

\* XAck is sent with the consumer's own context: not after Stop.
Acknowledges(c) == consumer[c] = "up" /\ verdict[c] = "ok"

GoOn(c) ==
    /\ batch' = [batch EXCEPT ![c] = Tail(@)]
    /\ verdict' = [verdict EXCEPT ![c] = "none"]
    /\ UNCHANGED <<published, delivered, consumer, tried, done, stops>>

Acknowledge(c) ==
    /\ verdict[c] # "none" /\ Acknowledges(c)
    /\ pending' = pending \ {Head(batch[c])}
    /\ GoOn(c)

\* The handler has failed, the consumer is stopping, or the call is lost.
LeavePending(c) ==
    /\ verdict[c] # "none"
    /\ GoOn(c)
    /\ UNCHANGED pending

\* Stop cancels the context; the batch in hand is worked off.
Stop(c) ==
    /\ consumer[c] = "up" /\ stops < MaxStops
    /\ consumer' = [consumer EXCEPT ![c] = "stopping"]
    /\ stops' = stops + 1
    /\ UNCHANGED <<published, delivered, pending, batch, verdict, tried,
                   done>>

Stopped(c) ==
    /\ consumer[c] = "stopping" /\ batch[c] = <<>>
    /\ consumer' = [consumer EXCEPT ![c] = "down"]
    /\ UNCHANGED <<published, delivered, pending, batch, verdict, tried,
                   done, stops>>

Die(c) ==
    /\ consumer[c] # "down" /\ stops < MaxStops
    /\ consumer' = [consumer EXCEPT ![c] = "down"]
    /\ batch' = [batch EXCEPT ![c] = <<>>]
    /\ verdict' = [verdict EXCEPT ![c] = "none"]
    /\ stops' = stops + 1
    /\ UNCHANGED <<published, delivered, pending, tried, done>>

Work(c) ==
    \/ \E answered \in BOOLEAN : Read(c, answered)
    \/ \E succeeds \in BOOLEAN : Process(c, succeeds)
    \/ Acknowledge(c) \/ LeavePending(c) \/ Stopped(c)

Next ==
    \/ Publish
    \/ \E c \in Consumers : Start(c) \/ Work(c) \/ Stop(c) \/ Die(c)

Spec == Init /\ [][Next]_vars
-----------------------------------------------------------------------------
(* What becomes of an event *)

InHand == UNION {{batch[c][i] : i \in DOMAIN batch[c]} : c \in Consumers}

\* An event is handled once at most, however many consumers there are, die and
\* come back; it leaves the pending list only when it has been handled with
\* success or has nobody to handle it; and one that the group has given out is
\* never forgotten, though nobody ever looks at the pending ones again.
EventsAccounted ==
    /\ \A e \in Events : tried[e] <= 1
    /\ \A e \in 1..delivered : e \in pending \/ e \in done
    /\ pending \cup InHand \subseteq 1..delivered
    /\ \A c, d \in Consumers : c # d =>
            \A i \in DOMAIN batch[c], j \in DOMAIN batch[d] : batch[c][i] # batch[d][j]

TypeOK ==
    /\ published \in 0..MaxEvents /\ delivered \in 0..published
    /\ pending \subseteq Events
    /\ consumer \in [Consumers -> {"down", "up", "stopping"}]
    /\ batch \in [Consumers -> Seq(Events)]
    /\ verdict \in [Consumers -> {"none", "ok", "failed"}]
    /\ tried \in [Events -> Nat] /\ done \subseteq Events /\ stops \in Nat
=============================================================================
