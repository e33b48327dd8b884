----------------------------- MODULE RateLimiter -----------------------------
(***************************************************************************)
(* The gateway's rate limiter, internal/gateway/middleware/                *)
(* ratelimit_redis.go: requests, each its own goroutine in any of several  *)
(* gateways, are counted in one sorted set of Redis per scope, identity    *)
(* and start of a window by a script that Redis runs as one step.  A       *)
(* circuit breaker stands before Redis, and a request whose check fails    *)
(* passes, unless the breaker is open when it looks.                       *)
(*                                                                         *)
(* The policy is not in the key: policies of one scope whose windows begin *)
(* together count in one set, and each run of the script drops what is     *)
(* older than its own policy's window, and, when it admits, lets Redis     *)
(* expire the set after that window and a buffer.                          *)
(*                                                                         *)
(* The clock is read twice, for the key and then for the stamp, and the    *)
(* script runs later than both: the stamp is any time between the first    *)
(* reading and the script.  Redis expires keys by the same clock.  The     *)
(* breaker's timer runs independently of the windows.  The model has one   *)
(* gateway: a second one has a breaker of its own and shares nothing but   *)
(* Redis.                                                                  *)
(***************************************************************************)
EXTENDS Integers, FiniteSets, Sequences

CONSTANTS
    Paths,          \* paths a request may be for
    Policies,       \* the policies in order: [paths, scope, window, max]
    TTLBuffer,      \* how long a key outlives the window (one minute)
    MinRequests,    \* the breaker trips from so many requests on (20)
    FailureThreshold, \* and so many failures in a row (5)
    MaxProbes,      \* its MaxRequests (10)
    MaxRequests,    \* bound: requests of a behaviour
    MaxInFlight,    \* bound: requests at a time
    MaxTime         \* bound: the clock

\* A scope of any other name counts as "user" does.
Scopes == {"ip", "user", "api"}

\* What the code's configuration gives.
LimiterAssumption ==
    /\ Policies \in Seq([paths : SUBSET Paths, scope : Scopes,
                         window : Nat \ {0}, max : Int])
    /\ {MinRequests, FailureThreshold, MaxProbes, MaxInFlight} \subseteq Nat \ {0}
    /\ {TTLBuffer, MaxRequests, MaxTime} \subseteq Nat

Requests == 1..MaxRequests
None == 0           \* no policy
NoStamp == -1       \* the script has not run
Times == 0..MaxTime

VARIABLES
    now,            \* the clock
    zset,           \* the sorted sets of Redis: the requests in each key
    expires,        \* when Redis expires each key
    breaker,        \* the breaker
    pc,             \* where each request is, and at the end what became of it
    path,           \* what each request is for
    asked,          \* when its key was built
    stamp,          \* the time it is counted at, once it is
    result,         \* what its check answered: "ok", "full", "error", or
                    \* "refused" by the breaker
    slow,           \* ghost: whose script ran a buffer or more after its stamp
    unchecked       \* ghost: requests let through unchecked while the breaker
                    \* is closed, since Redis last answered one

redis == <<zset, expires>>
vars == <<now, redis, breaker, pc, path, asked, stamp, result, slow, unchecked>>

INSTANCE CircuitBreaker

\* getWindowStart: where the window of length w that the time t is in begins.
WindowStart(w, t) == (t \div w) * w
WindowKeys == [scope : Scopes, of : Paths \cup {"address"}, start : Times]

\* The one policy a request is checked against: the first that matches.
PolicyFor(p) ==
    LET matching == {i \in DOMAIN Policies :
                        Policies[i].paths = {} \/ p \in Policies[i].paths}
    IN  IF matching = {} THEN None
        ELSE CHOOSE i \in matching : \A j \in matching : i <= j

PolicyOf(r) == Policies[PolicyFor(path[r])]

\* buildKey: scope, identity and start of the window, not the policy.  A user is
\* not yet known where the middleware runs, so it is counted as its address.
KeyFor(p, t) ==
    LET policy == Policies[PolicyFor(p)] IN
    [scope |-> policy.scope, of |-> IF policy.scope = "api" THEN p ELSE "address",
     start |-> WindowStart(policy.window, t)]

Key(r) == KeyFor(path[r], asked[r])

Init ==
    /\ now = 0
    /\ zset = [k \in WindowKeys |-> {}]
    /\ expires = [k \in WindowKeys |-> 0]
    /\ breaker = Closed
    /\ pc = [r \in Requests |-> "new"]
    /\ path = [r \in Requests |-> CHOOSE p \in Paths : TRUE]
    /\ asked = [r \in Requests |-> 0]
    /\ stamp = [r \in Requests |-> NoStamp]
    /\ result = [r \in Requests |-> "none"]
    /\ slow = {} /\ unchecked = 0

-----------------------------------------------------------------------------
(* The breaker *)

\* The counts are never reset while the breaker is closed.
ReadyToTrip(c) ==
    /\ c.requests >= MinRequests
    /\ 2 * c.failures >= c.requests
    /\ c.failing >= FailureThreshold

\* Variant of AfterError: a failed check is not the breaker's concern.
AfterErrorIgnored(b, r) == [b EXCEPT !.inside = @ \ {r}]

AfterError(b, r) == Failed(b, r, ReadyToTrip(Counted(b, r)))

InFlight == {r \in Requests : pc[r] \in {"asking", "checked", "judged"}}

-----------------------------------------------------------------------------
(* A request *)

\* Requests are numbered as they come.  One whose path no policy names passes
\* and changes nothing here.
Comes(r) ==
    /\ pc[r] = "new" /\ \A q \in Requests : q < r => pc[q] # "new"
    /\ Cardinality(InFlight) < MaxInFlight

\* cb.Execute admits it, and Check builds its key.
Enter(r, p) ==
    /\ Comes(r) /\ PolicyFor(p) # None /\ Admits(Current(breaker))
    /\ path' = [path EXCEPT ![r] = p]
    /\ breaker' = Entered(Current(breaker), r)
    /\ asked' = [asked EXCEPT ![r] = now]
    /\ pc' = [pc EXCEPT ![r] = "asking"]
    /\ UNCHANGED <<now, redis, stamp, result, slow, unchecked>>

Refuse(r) ==
    /\ Comes(r) /\ \E p \in Paths : PolicyFor(p) # None
    /\ ~Admits(Current(breaker))
    /\ breaker' = Current(breaker)
    /\ result' = [result EXCEPT ![r] = "refused"]
    /\ pc' = [pc EXCEPT ![r] = "judged"]
    /\ UNCHANGED <<now, redis, path, asked, stamp, slow, unchecked>>

\* What Redis still has under the key.
Live(k) == IF now < expires[k] THEN zset[k] ELSE {}

\* The script: what is as old as the policy's window goes.
Kept(r, t) == {q \in Live(Key(r)) : stamp[q] > t - PolicyOf(r).window}

\* Variant of Admitted: the last place is given twice.
AdmittedOneMore(r, t) == Cardinality(Kept(r, t)) <= PolicyOf(r).max

Admitted(r, t) == Cardinality(Kept(r, t)) < PolicyOf(r).max

\* Redis runs the script with stamp t.  Its answer may be lost.
Run(r, t, answered) ==
    /\ pc[r] = "asking" /\ t \in asked[r]..now
    /\ stamp' = [stamp EXCEPT ![r] = t]
    /\ zset' = [zset EXCEPT ![Key(r)] =
                    Kept(r, t) \cup (IF Admitted(r, t) THEN {r} ELSE {})]
    /\ expires' = IF Admitted(r, t)
                  THEN [expires EXCEPT ![Key(r)] = now + PolicyOf(r).window + TTLBuffer]
                  ELSE expires
    /\ result' = [result EXCEPT ![r] =
                    IF ~answered THEN "error"
                    ELSE IF Admitted(r, t) THEN "ok" ELSE "full"]
    /\ pc' = [pc EXCEPT ![r] = "checked"]
    /\ slow' = IF now < t + TTLBuffer THEN slow ELSE slow \cup {r}
    /\ UNCHANGED <<now, breaker, path, asked, unchecked>>

\* Redis does not run it.
Miss(r) ==
    /\ pc[r] = "asking"
    /\ result' = [result EXCEPT ![r] = "error"]
    /\ pc' = [pc EXCEPT ![r] = "checked"]
    /\ UNCHANGED <<now, redis, breaker, path, asked, stamp, slow, unchecked>>

\* cb.Execute counts the outcome, and an answered request goes its way; a full
\* window is a success to the breaker.
Leave(r) ==
    /\ pc[r] = "checked"
    /\ breaker' = IF result[r] = "error"
                  THEN AfterError(Current(breaker), r)
                  ELSE Succeeded(Current(breaker), r)
    /\ pc' = [pc EXCEPT ![r] = CASE result[r] = "ok" -> "passed"
                                [] result[r] = "full" -> "limited"
                                [] OTHER -> "judged"]
    /\ unchecked' = IF result[r] = "error" /\ breaker'.state = "closed"
                    THEN unchecked ELSE 0
    /\ UNCHANGED <<now, redis, path, asked, stamp, result, slow>>

\* The check failed, and the breaker is asked once more: 503 if it is open
\* now, else the request passes unchecked, whatever the reason was.
Judge(r) ==
    /\ pc[r] = "judged"
    /\ breaker' = Current(breaker)
    /\ pc' = [pc EXCEPT ![r] =
                IF Current(breaker).state = "open" THEN "unavailable" ELSE "passed"]
    /\ unchecked' = unchecked + IF Current(breaker).state = "closed" THEN 1 ELSE 0
    /\ UNCHANGED <<now, redis, path, asked, stamp, result, slow>>

-----------------------------------------------------------------------------
Tick ==
    /\ now < MaxTime
    /\ now' = now + 1
    /\ UNCHANGED <<redis, breaker, pc, path, asked, stamp, result, slow, unchecked>>

\* The breaker has been open for Timeout; Interval is not set.
Expire ==
    /\ Ticks(breaker, FALSE)
    /\ breaker' = [breaker EXCEPT !.due = TRUE]
    /\ UNCHANGED <<now, redis, pc, path, asked, stamp, result, slow, unchecked>>

Serve(r) ==
    \/ \E t \in Times, answered \in BOOLEAN : Run(r, t, answered)
    \/ Miss(r) \/ Leave(r) \/ Judge(r)

Next ==
    \/ \E r \in Requests, p \in Paths : Enter(r, p)
    \/ \E r \in Requests : Refuse(r) \/ Serve(r)
    \/ Tick \/ Expire

Spec == Init /\ [][Next]_vars
-----------------------------------------------------------------------------
(* What the limiter promises *)

\* The requests Redis has admitted and told so.
Allowed == {r \in Requests : result[r] = "ok"}

Ran == {r \in Requests : stamp[r] # NoStamp}

\* The script ran for r in its time: r is stamped in the window of its key, and
\* not counted when the key may be gone.
Straight(r) ==
    /\ WindowStart(PolicyOf(r).window, stamp[r]) = Key(r).start
    /\ r \notin slow

\* Redis lets no more requests through under a key than the limit of the policy
\* they were checked against, however gateways, scripts, lost answers and
\* policies that share the key interleave, unless one of those counted there
\* read the clock on both sides of a window's end or waited for Redis longer than
\* a key outlives its window, or was checked against a policy with a shorter
\* window: that one's script drops what the longer window still counts, and lets
\* the key expire before it is over.
WindowBound ==
    \A r \in Allowed :
        (\A q \in Ran : Key(q) = Key(r) =>
                Straight(q) /\ PolicyOf(q).window >= PolicyOf(r).window) =>
            Cardinality({q \in Allowed :
                Key(q) = Key(r) /\ PolicyFor(path[q]) = PolicyFor(path[r])})
                    <= PolicyOf(r).max

Greater(a, b) == IF a >= b THEN a ELSE b

\* An outage of Redis opens the breaker: the requests that pass unchecked
\* before it does are no more than the failures it counts to, apart from those
\* in flight.  It counts far: as its counts are never reset while it is closed,
\* every check answered so far may put the limit off by one.
OutageBounded ==
    LET Answered == {r \in Requests : result[r] \in {"ok", "full"}}
    IN  breaker.state = "closed" =>
            unchecked < MaxInFlight - 1 +
                Greater(FailureThreshold,
                    Greater(MinRequests, Cardinality(Answered) + MaxInFlight - 1))
=============================================================================
