------------------------------- MODULE MCParts -------------------------------
(* The components of Parts, and the list of prices: a behaviour is that of   *)
(* one of them, as part says, and the others stay in their initial states.   *)
EXTENDS SkipList, Parts

VARIABLE part

\* Two logins in a short window, and one of anything else in a long one, both by
\* address: the long window is longer than a key of the short one lives.
TwoPolicies == << [paths |-> {"login"}, scope |-> "ip", window |-> 1, max |-> 2],
                  [paths |-> {}, scope |-> "ip", window |-> 3, max |-> 1] >>

ASSUME Log!AloneAssumption
ASSUME Limiter!LimiterAssumption
ASSUME Pages!PageAssumption

\* A cursor of up to three bytes is read as the offset it was made of; the
\* first of four sends the client back to the beginning.
ASSUME CursorSurvives ==
    /\ \A n \in (1..300) \cup (65530..65540) \cup (2^24 - 5)..(2^24 - 1) :
            Pages!ParseCursor(Pages!EncodeCursor(n)) = n
    /\ Pages!ParseCursor(Pages!EncodeCursor(2^24)) = 0

logVars == <<lsn, log, synced, pending, broken, appender, truncator, up, appends,
             crashes, failures>>
stopVars == <<graceful, phase, running, ctxDone, actor, queue, chans, actorsNil,
              chansNil, awaited, notify, closed, notifier, submitPC, symbol, outcome,
              logged, engineExecuted, panicked>>
poolVars == <<poolRunning, cancelled, taskQueue, queueClosed, worker, started, task,
              stopper, waits, metrics, poolPanicked>>
groupVars == <<published, delivered, pendingEvents, consumer, batch, verdict, tried,
               done, stops>>
pageVars == <<clock, writer, createdAt, rows, reader, offset, wanted, seen>>
limitVars == <<now, zset, expires, breaker, requestPC, path, asked, stamp, result, slow,
               unchecked>>
clientVars == <<client, clientBreaker, callPC, attempt, wire, executed, callResult,
                late>>
endVars == <<row, copy, entries, given, handler, blind>>
matchingVars == <<vars, logVars, stopVars, poolVars, groupVars, pageVars>>
gatewayVars == <<limitVars, clientVars, endVars>>
partsVars == <<part, matchingVars, gatewayVars>>

-----------------------------------------------------------------------------
(* Their behaviours *)

PartsInit ==
    /\ part \in {"list", "log", "stop", "pool", "events", "pages",
                 "limit", "client", "ends"}
    /\ Init /\ Log!Init /\ Stop!Init /\ Pool!Init /\ Group!Init /\ Pages!Init
    /\ Limiter!Init /\ Client!Init /\ Ends!Init
    \* What a part does not need has one initial state.
    /\ graceful \/ part = "stop"
    /\ client = Client!OrderClient \/ part = "client"
    /\ row.status = "created" \/ part = "ends"
    \* A frozen order is cancelled as a created one is; GetOrder makes the copy.
    /\ row.status # "frozen" /\ copy = Ends!NoCopy

OthersOfMatching(theirs) ==
    UNCHANGED <<part, gatewayVars>> /\ UNCHANGED theirs

ListStep ==
    /\ part = "list" /\ Next
    /\ OthersOfMatching(<<logVars, stopVars, poolVars, groupVars, pageVars>>)
\* Bound: truncations can fail without end.
LogStep ==
    /\ part = "log" /\ Log!Next /\ failures' <= 2
    /\ OthersOfMatching(<<vars, stopVars, poolVars, groupVars, pageVars>>)
StopStep ==
    /\ part = "stop" /\ Stop!Next
    /\ OthersOfMatching(<<vars, logVars, poolVars, groupVars, pageVars>>)
PoolStep ==
    /\ part = "pool" /\ Pool!Next
    /\ OthersOfMatching(<<vars, logVars, stopVars, groupVars, pageVars>>)
EventsStep ==
    /\ part = "events" /\ Group!Next
    /\ OthersOfMatching(<<vars, logVars, stopVars, poolVars, pageVars>>)
PagesStep ==
    /\ part = "pages" /\ Pages!Next
    /\ OthersOfMatching(<<vars, logVars, stopVars, poolVars, groupVars>>)

\* Bounds: Redis fails in the first unit of time, and the third begins when two
\* requests have been answered.
LimitStep ==
    /\ part = "limit" /\ Limiter!Next
    /\ \A r \in Limiter!Requests : result'[r] = "error" => now = 0 \/ result[r] = "error"
    /\ now' = MaxTime => \A r \in Limiter!Requests \ {MaxRequests} :
                            result'[r] = "ok" /\ requestPC'[r] = "passed"
    /\ UNCHANGED <<part, matchingVars, clientVars, endVars>>
\* A client that retries makes three calls.
ClientStep ==
    /\ part = "client" /\ Client!Next
    /\ client.attempts > 1 => callPC'[4] = "new"
    /\ UNCHANGED <<part, matchingVars, limitVars, endVars>>
EndsStep ==
    /\ part = "ends" /\ Ends!Next
    /\ UNCHANGED <<part, matchingVars, limitVars, clientVars>>

PartsNext ==
    \/ ListStep \/ LogStep \/ StopStep \/ PoolStep \/ EventsStep \/ PagesStep
    \/ LimitStep \/ ClientStep \/ EndsStep

\* The engine's and the clients' own fairness; the other parts' initial states
\* enable none of the steps it asks for.
PartsSpec ==
    /\ PartsInit /\ [][PartsNext]_partsVars
    /\ Stop!Fairness /\ Client!Fairness
=============================================================================
