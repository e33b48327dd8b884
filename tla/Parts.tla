-------------------------------- MODULE Parts --------------------------------
(***************************************************************************)
(* The components that are checked and proved about by themselves, under   *)
(* one roof: each has variables of its own, and a constant that several    *)
(* have stands for the one's own.  MCParts runs them one at a time on      *)
(* small instances; PartsProofs proves about each for every instance.      *)
(***************************************************************************)
CONSTANTS
    \* write-ahead log
    Appenders, Truncators, Entries, Torn, NoEntry, SyncMode, SyncEvery, SyncMayFail,
    DiskMayFail, PowerLoss, TornWrites, BufferRecords, ScrapLSNs, MaxAppends, MaxCrashes,
    \* stop of the engine
    Symbols, Submissions, NotifySize,
    \* worker pool
    Workers, Tasks, Stoppers, QueueSize,
    \* notification consumers
    Consumers, MaxEvents, Handled, BatchSize, MaxStops,
    \* trade history, and the limiter's bound on the clock
    Results, PageSize, MaxTime,
    \* rate limiter
    Paths, Policies, TTLBuffer, MinRequests, MaxRequests,
    \* service client, and the limiter's breaker and bound on requests at a time
    MaxRetries, FailureThreshold, MaxProbes, MaxCalls, MaxInFlight,
    \* ends of a saga
    MaxHandlers, Qty, Fills

VARIABLES
    \* write-ahead log
    lsn, log, synced, pending, broken, appender, truncator, up, appends, crashes, failures,
    \* stop of the engine
    graceful, phase, running, ctxDone, actor, queue, chans, actorsNil, chansNil,
    awaited, notify, closed, notifier, submitPC, symbol, outcome, logged,
    engineExecuted, panicked,
    \* worker pool
    poolRunning, cancelled, taskQueue, queueClosed, worker, started, task,
    stopper, waits, metrics, poolPanicked,
    \* notification consumers
    published, delivered, pendingEvents, consumer, batch, verdict, tried, done, stops,
    \* trade history
    clock, writer, createdAt, rows, reader, offset, wanted, seen,
    \* rate limiter
    now, zset, expires, breaker, requestPC, path, asked, stamp, result, slow, unchecked,
    \* service client
    client, clientBreaker, callPC, attempt, wire, executed, callResult, late,
    \* ends of a saga
    row, copy, entries, given, handler, blind

Log == INSTANCE WriteAheadLogAlone
Stop == INSTANCE EngineShutdown
        WITH Calls <- Submissions, pc <- submitPC, log <- logged,
             executed <- engineExecuted
Pool == INSTANCE WorkerPool
        WITH running <- poolRunning, queue <- taskQueue, closed <- queueClosed,
             panicked <- poolPanicked
Group == INSTANCE Consumer WITH pending <- pendingEvents
Pages == INSTANCE TradePages
         WITH Limit <- PageSize, now <- clock, stamp <- createdAt
Limiter == INSTANCE RateLimiter WITH pc <- requestPC
Client == INSTANCE ServiceClient
          WITH breaker <- clientBreaker, pc <- callPC, result <- callResult
Ends == INSTANCE SagaEnds

-----------------------------------------------------------------------------
(* The components' properties, under their names *)

\* The log, syncing by count: a power failure costs less than a batch, and a
\* batch more for each crash and a record for each fsync or rewriting that failed
\* (wal.go, Append, truncateLocked).
LossIsBounded == Log!LossIsBounded

\* The log: what a truncation takes away is at or below its LSN, whatever is
\* appended beside it, unless the record lies where a buffered reader does not
\* find it, or the rewriting is cut short by an error or the death of the process
\* (wal.go, Truncate, truncateLocked).
TruncationKeepsNewer == Log!TruncationKeepsNewer

\* A stop of the engine: once the server has stopped gracefully no call panics,
\* and only calls that were told of a time-out are logged and not executed
\* (engine.go, Shutdown; cmd/matching-svc/main.go).
StopIsClean == Stop!StopIsClean

\* A stop of the engine: Shutdown returns, whatever calls and commands are
\* under way, unless the process has panicked (engine.go, Shutdown).
ShutdownReturns == Stop!ShutdownReturns

\* The worker pool: an accepted task is in the channel, with one worker or
\* ended, and the metrics agree; none runs once a Shutdown has waited and
\* returned (workerpool.go).
TasksAccounted == Pool!TasksAccounted

\* The consumers: no event is handled twice or forgotten, whoever stops or
\* dies (consumer.go, readAndProcess).
EventsAccounted == Group!EventsAccounted

\* The trade history: paging misses no trade that was there at the start and
\* has its created_at for itself (matching_server.go, GetTrades).
PagesMissNone == Pages!PagesMissNone

\* The rate limiter: Redis admits no more requests under a key than the policy's
\* limit, unless one was late or a policy with a shorter window has the same key
\* (ratelimit_redis.go, Check, buildKey, slidingWindowScript).
WindowBound == Limiter!WindowBound

\* The rate limiter: while Redis is out no more requests pass unchecked than the
\* failures that open the breaker, and those in flight (ratelimit_redis.go).
OutageBounded == Limiter!OutageBounded

\* A client: while its breaker is not closed no more than MaxProbes calls that
\* it let in since are in flight (clients.go, circuitBreakerInterceptor).
ProbesBounded == Client!ProbesBounded

\* A client: no call is executed more often than the client may try, a refused
\* one never, one that succeeded at least once (order_client.go, clients.go).
ExecutionsAccounted == Client!ExecutionsAccounted

\* A client with a deadline gets every call back from a hung service, and its
\* breaker is not left half open and full (order_client.go, clients.go).
HungServiceSurvived == Client!HungServiceSurvived

\* The ends of a saga: while nobody has written blindly a cancelled order gives
\* back what was not filled, and once (order_saga.go, handler.go).
RestGivenBackOnce == Ends!RestGivenBackOnce

\* The ends of a saga: an order that is over changes only under a handler that
\* never asked or asked about an older row (order_saga.go, order_service.go).
FinalUnlessBlind == Ends!FinalUnlessBlind
=============================================================================
