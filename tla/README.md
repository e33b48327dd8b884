# Exchange matching: specifications, model checking and proofs

TLA+ specifications of the exchange in this repository (Go: a gateway, an order
service, a user service and a matching service), the TLC configurations that
check them, and theorems about them that TLAPS checks. `PROJECT.json` lists the
parts, the runs, the mutants, the source lines behind every definition, the
divergences found, the hazards and the theorems.

The first part of this file is the inventory of the whole system and the plan;
the second describes what is modelled, checked and proved today.

## 1. The system

A client's order enters the HTTP **gateway**, which starts an **order saga**:
the order and an outbox entry are stored in one transaction; an **outbox
worker** in the gateway process freezes the user's balance through the **user
service** and then submits the order through the **matching service**. There
each symbol has an **actor**, a goroutine that owns an **order book**. The
engine logs every command to the symbol's **write-ahead log** before it sends
it to the actor (if the log can be opened: if not, it sends it all the same), logs
trades afterwards, and may take **snapshots** that let it truncate the log. On start it loads the latest snapshot and replays the log.
The **order service** keeps order rows behind a Redis cache, the user service
balance rows behind Redis locks.

| Component (source) | State | Operations | What is hard |
|---|---|---|---|
| Order book (`matching/book/orderbook.go`) | two sorted slices, price levels shared by both sides, two price indexes, map of orders, the trades of a call | `AddOrder` (limit, market, FOK), `CancelOrder`, `GetDepth`, best prices, recovery inserts | four structures kept in step by hand; FOK rollback; removal by order ID; readers that run beside a writer that takes no lock |
| Skip list (`book/skiplist.go`) | towers of forward pointers, a lock | insert, remove, seek, next | pointer updates on several levels; iteration while the list changes |
| Actor (`matching/engine/actor.go`) | a book, two channels | handle a command, handle a cancellation, recover from a panic | `select` takes any ready channel |
| Engine (`matching/engine/engine.go`) | actors and logs by symbol, the notification channel, snapshot triggers | `SubmitOrder`, `CancelOrder`, `dispatch`, `persistTrades`, `TakeSnapshot`, `Recover`, `Shutdown` | log and send are two steps; a log that cannot be opened is passed over; time-outs do not take back; snapshot LSN and book are read apart; two commands of one symbol from several goroutines; file names that do not give the symbol back |
| Write-ahead log (`matching/wal/wal.go`) | file, LSN counter, pending syncs, a mutex | `Append`, `Replay`, `Truncate`, `SnapshotLSN`, open | crash or error between any two system calls; group commit; truncation in place; reads that come short |
| Snapshots (`matching/snapshot/snapshot.go`) | snapshot files, temporary and final, the `.latest` link | `Take`, `Save`, `Load` | a temporary name that two snapshots share; crash between removing and making the link; depth limit |
| Matching server (`matching/server`, `matching/client`) | none | submit, cancel, depth, status update by a goroutine | error codes decide what is retried; a context that ends with the request |
| Worker pool (`matching/workerpool`) | task channel, flags | submit, shut down | send on a closed channel (no process uses it) |
| Order saga (`order/saga`) | order rows, outbox rows | create, freeze done, submit done, matching result, failure, cancel | each step may be repeated, be late, or never come |
| Outbox worker (`order/outbox`) | outbox rows: status, retry count, next retry | poll, recover stale, process, retry, dead letter, callback | crash between effect, mark and callback |
| Order service (`order/service`, `order/server`, `order/repository`) | order and trade rows, cache, idempotency keys | create, get, cancel, update status | check-then-act; cache against row |
| User service (`user/*`) | balance and frozen balance, locks | freeze, unfreeze, deduct, add | read-modify-write; a different lock for each operation, and none for the order service; locks that expire; amounts whose sign nobody checks |
| Consumer (`notify/consumer`) | stream group | read, process, acknowledge | failed messages stay pending (no process starts it) |
| Gateway (`gateway/handler`, `router`, `client`) | none | create, cancel, query; wires handlers and callbacks of the outbox | cancellation in several calls to several services |
| Middleware (`gateway/middleware`) | rate windows in Redis, circuit breaker | allow, record, authenticate | window boundaries; policies that share keys; Redis failing |
| Others (`pkg`, `cmd`, `api/gen`, `migrations`, `model`) | configuration | logging, metrics, wiring, record types | order of shutdown |

What makes them correct, in a line each. Order book: price-time priority, never
crossed, nothing lost on an order, a killed FOK leaves no trace, settled means
settled, the loop ends. Log: what was promised to be on disk is on disk;
truncation takes only what is below its cut. Engine: no command that was logged and
answered is lost by a crash, calls that come one at a time are recovered to the same book,
every call returns. Saga and outbox: money is frozen once for each order, and every frozen
amount is in the end spent or given back; status never goes backwards. Balances:
the sum of balance and frozen balance changes only by deposits and trades, and no column is overdrawn. Order
service: one order for each idempotency key. Rate limiter: no more than the
limit in any window.

## 2. Modules

| Module | What it is |
|---|---|
| `OrderBook` | one symbol's book, one step per iteration of the matching loop |
| `MatchingPromise` | abstract: an order takes what it may, all at once, by price and time |
| `OrderBookRefinement` | how `OrderBook` implements `MatchingPromise`, and why |
| `OrderBookProofs` | theorems about `OrderBook`, the refinement among them |
| `WriteAheadLog` | a log file, its callers, crashes; actions for others to compose |
| `WriteAheadLogAlone` | the log under any callers, with its properties |
| `BookCommands` | what a command does to a book of one-unit orders (a function) |
| `MatchingEngine` | callers, log, actor, notifier, snapshots, crash and recovery |
| `DurableMatching` | abstract: a serial execution that forgets nothing answered, where its disk can be read |
| `MatchingEngineProofs` | theorems about `MatchingEngine`, the refinement among them |
| `Outbox` | the outbox table and its workers; what a delivery does is left open |
| `OrderSaga` | requests, delivery handlers and callbacks on top of `Outbox`; crash, restart, time |
| `OrderSagaProofs` | theorems about `OrderSaga` |
| `UserBalance` | one balance row under concurrent calls, locks and expiry |
| `UserBalanceProofs` | theorems about `UserBalance` |
| `OrderService` | one idempotency key and its order: row, copy, locks, money, calls |
| `OrderServiceProofs` | theorems about `OrderService` |
| `SkipList` | the price index: towers, pointers, one step for each node a search passes |
| `OrderedKeys` | abstract: a set of keys with lower-bound search and both ends |
| `SkipListProofs` | theorems about `SkipList`, the refinement among them |
| `WalReplay` | how `Replay` reads bytes through a buffered reader |
| `EngineShutdown` | `Shutdown` against calls, actors of several symbols and the notifier |
| `TradePages` | the trades' table, and a client that reads it page by page |
| `WorkerPool` | submitters, workers and those who stop the pool |
| `Consumer` | a stream, its consumer group, consumers that stop and die |
| `CircuitBreaker` | a breaker as a record; operators for others to use |
| `RateLimiter` | requests, their policies, the clock, Redis' sorted sets and when they expire, a breaker before them |
| `ServiceClient` | a gRPC client: its breaker, deadline and retries, and a service that may hang |
| `SagaEnds` | what ends an order: result, failure and cancellation handlers side by side |
| `Parts` | the components that are checked and proved about by themselves, each with its own variables |
| `PartsProofs` | theorems about `WriteAheadLogAlone`, `EngineShutdown`, `WorkerPool`, `Consumer`, `TradePages`, `RateLimiter`, `ServiceClient`, `SagaEnds` |
| `Subsequence` | `Kept(s, S)`, what is left of a sequence when only members of `S` stay: a recursive function |
| `SubsequenceProofs` | lemmas on `Kept`, on parts of sequences and on least numbers, for the other proofs |
| `MC...` | values of constants for TLC; `MCParts` runs `SkipList` and the components of `Parts` one at a time |

`MatchingEngine` EXTENDS `WriteAheadLog`: its callers and its notifier are the
appenders, its snapshots the truncators. `OrderBook` gives the detail of what
`BookCommands` treats as one step of the actor: the actor is the only goroutine
that writes the book, so a whole call is one step of the engine.

`OrderSaga` EXTENDS `Outbox`: it gives deliveries and callbacks their meaning, and
takes from the matching and the user service only what a call does for an
order. `UserBalance` is what the user service does inside such a call.

`OrderService` stands alone: the saga stores its orders itself and does not pass through the
service's `CreateOrder`, and the user service is for it a call that freezes or gives
back an amount, refuses, or fails.

`RateLimiter` and `ServiceClient` both INSTANCE `CircuitBreaker`, and say when it trips and
when its timer has run out. `SkipList` is what the price sets of `OrderBook` stand for;
`OrderedKeys` is the interface between the two. `EngineShutdown` is the end of
`MatchingEngine`'s life that is not a crash, with several symbols and without the log's detail.
`SagaEnds` takes up the order where `OrderSaga` leaves it and has, as one step each, what
`OrderService` splits.

### OrderBook

`AddOrder` begins a call (`pc = "match"`); `MatchNext` trades with one resting
order, `NextLevel` moves the scan, `EndMatch` leaves the loop; a FOK order that
is left short goes through `Rollback`; `CleanupBuys` and `CleanupSells` take
filled orders off; `FinishImmediate`, `FinishFilled`, `FinishRest` or
`FinishPanics` ends the call. `CancelOrder` runs between calls, as the actor does. An
unlocked reader sees every one of these states, so an invariant here is one a
reader can rely on.

A pointer is the order's arrival number, which is also its time: the actor
stamps orders as it takes them from its channel. A level is a set, since the
loop sorts it by time on each entry. The slices are sets read through
`Ahead`, the skip lists sets of prices read through `Seek` and `Nearer`.
Prices and quantities are small integers; nothing in the loop depends on more than
their order, sum and minimum.

Panics are modelled: `addToBookInternal` dereferences a level that another call
removed (`FinishPanics`), and the actor recovers and goes on with the
half-changed book, as its `recover` does. With unique order IDs this cannot
happen (theorem `NeverPanics`). Orders share an ID in this system: the gateway
never sets `OrderId` in its matching requests. `UniqueIDs` selects the case.

### WriteAheadLog

`Reserve` is the atomic increment at the head of `Append`, before the lock; `Write` is the
locked part up to the flush, `Sync` the fsync, which may report an error that is logged and
ignored (`SyncMayFail`). `ShouldSync` holds the four sync modes; `byduration` asks the clock,
so it is a free choice. `WriteFails` is an error of the write or the flush: it may leave part
of the record, and every later write of this handle fails too (`broken`), as a `bufio.Writer`
keeps its error.

`SnapshotLSN`, `Truncate` and `Rewrite` are the three stages of a truncation: read the counter
under the lock; later read the file and empty it; write back what is kept, open the file again
and set the counter. `FlushPart` is the writer's buffer running full on the way.
`TruncateRefused`, `RewriteFails` and `ReopenFails` are the errors, before the file is emptied,
after it, and behind the closed handle.

A record is its LSN and its entry, and a unit of the reader's buffer. `Readings` says what
`Truncate` and `Replay` may get out of a file, since both take what one `Read` of a
`bufio.Reader` returns for a header or a payload: the records that fit in the buffer
(`BufferRecords` of them, 4096 bytes) and lie before the first that was cut short are read as
they are (`Clean`); of the rest any records may be missing, and the first may be taken for
something else (`Misread`, with an LSN from `ScrapLSNs`). `WalReplay` looks at the bytes.

A crash kills every call. A power failure also leaves only a beginning of what was not fsynced
(`Beginnings`), with part of a record at its end if `TornWrites`. `Reopen` reads the last LSN
back, exactly but for what is behind a torn record, as `NewWAL` reads the whole file; it starts
from 0 if the file cannot be read.

### MatchingEngine

One symbol. A caller goes through `SubmitOrder` or `CancelOrder`: `GetWAL` finds or opens the
log (`GetsLog`) and the command takes its LSN, or `GetWAL` fails (`GetsNoLog`) and the command
goes to the actor without being logged, which the ghost `unlogged` notes. `ClientAppends`
is the log, `ClientAppendFails` its error, which ends the call; `Send` is the channel, and then the caller waits.
`HandleCommand` and `HandleCancel` are the actor's two channels, and `Answer` gives the result
back and queues the trades for the notifier, unless its channel is full. `GiveUp` is the
caller's context ending or its time-out, before or after the send. The command is not taken
back. `PersistTrade`, `NotifierAppends` and `CheckTrigger` are the notifier; `MonitorTrigger`
the time trigger.

`SnapCapture` and `SnapTake` read the LSN and the book. `Save` is `SnapCreate`, `SnapWrite`,
`SnapRename` and `SnapSaveFails`: the name of the temporary file is made of the symbol and the
LSN, so that a second snapshot with the same LSN empties the first one's file, writes beside it
and finds it renamed. `temps` and `files` are what has each name, `snap[t].at` where the file
that a snapshot has open is by now, and the ghost `shared` holds the LSNs for which this
happened. `SnapUnlink` and `SnapLink` replace `.latest`, whose errors are only reported.
`SnapTruncate` and `SnapRewrite` are the truncation, `SnapKeepsLog` its refusal or the absence of a log.

`Crash` and `Recover` end and begin a life of the process; `Recover` runs before requests are
accepted and is one step. It starts from a snapshot file that can be decoded (`Base`), replays
one of `Readings`, and finds the symbol only if its name survives the file system (`Named`):
`SanitizeSymbol` writes `_` for `/` and for `:`, and the names of log files are read back with `/`.

`applied`, `answered`, `unlogged`, `readable`, `disordered` and `shared` are history variables.

Abstractions: orders of one unit, so that a command is `rest`, `take` or `cancel`; a power
failure leaves the snapshot directory as the process saw it; encoding, fsync and closing of a
snapshot file are one step; symbols do not interact except for the notification channel, whose
being full is a free choice, and two symbols whose names give one file name are not modelled.
`cmd/matching-svc/main.go` sets no snapshot directory and leaves the sync mode at `byduration`, so the
runs with `Snapshots = {}` stand for the deployment's structure, and those with snapshots for
the engine's feature as its tests configure it.

### Outbox and OrderSaga

`outbox` is the table in the order of its IDs. A worker's `pc` is the line of
`processEntries` or `processEntry` that comes next: `Poll` and `RecoverStale`
reset what is stale, `Fetch` reads a batch, and for each entry `Take` marks it,
`Delivered` is the handler's return, then either `MarkDone` and the callback
(`RetryCallback` if that fails), or `CountRetry` and `Delay` with `Requeue`, or
`Bury`. The batch keeps the retry count it has read, as the code does. Each
write to the database is a step, so that a crash falls between any two. Its
outcome is a parameter: it succeeds, fails, or is done and reported as failed.
`Access` says what it costs: `troubles` counts what goes wrong, up to
`MaxTroubles`.

`OrderSaga` has `Create` (`CheckIdempotency`, `StoreOrder`), `Deliver`, and the
callbacks `FreezeSucceeded`, `CreateSubmitEntry` and `SubmitSucceeded`. A delivery is
*accepted*, *refused*, or *unheard*: done but answered with an error. Besides a
lost answer the code has two such cases: the user service freezes and then fails to
read the balance back (`user_server.go:116`), and the matching service answers
`Unavailable` to a market order that has traded in part
(`matching_server.go:99`). Neither service recognises a delivery it has seen.
`effects` counts, as a history variable, what each has done for an order.

Abstractions: amounts and payloads are left out; that an entry is stale (30
seconds old) and that it backs off are bits which `TimePasses` sets and clears, in
order of creation; a query's limit of 100 rows is not reached; a worker polls
between batches, since `run` is one goroutine. An orderly stop ends the
worker between two entries, which `Crash` covers.

The table of the model has every column the code names. No table in the repository has:
the struct of an entry declares `error_msg` (`outbox.go:53`) where `UpdateStatus` writes
`error_message` (`outbox.go:138`), and the migration has `error_message` but neither
`error_msg` nor `next_retry_at` (`002_outbox.sql:24`). What the runs show holds of a
table on which these agree.

### UserBalance

A call of the user service takes the lock of its kind (`Lock`, a `SetNX` for ten seconds), reads
the row in a transaction (`Read`), saves both columns computed from what it has read (`Save`) or
rolls back, and deletes the lock (`Release`), whoever holds it by then. The order service calls
`FreezeAmount` and `UnfreezeAmount` of the repository itself (`order_service.go:92`, `112`, `164`):
`CallUnlocked`, which takes none of these locks and ends with `Return`; `keyed` says who has set a
lock. `Expire` removes a lock at any moment; `Die` ends a caller and leaves its lock. The
transaction takes no row lock when it reads (`Clauses()` is empty). A call that finds its lock
taken is answered with a conflict and changes nothing.

Amounts are integers of either sign: the gateway asks for a positive price of limit orders only
(`handler.go:283`-`289`), so that the price of a market order, and with it the amount to freeze
(`order_saga.go:133`), may be negative, and the repository compares it with the column it takes it from and
looks at nothing else (`user_repository.go:120`). `saved`, `used` and `negative` are the history
of what was saved, `clash` and `expired` say that transactions that share no lock were open
together, or that a lock expired under its owner.

### OrderService

Calls on one idempotency key of one user and symbol, and on the order made with it. A caller's
`pc` is the access to Redis, to the database or to the user service that comes next,
`seen` the order it has read. `CheckKey` looks for the key in Redis and on a row,
*before* `SetLock`; then come `FreezeAmount`, `Insert` (the table's unique
index refuses a second row), `Compensate` and `RememberKey`. A cancellation takes its own
lock, reads the order (`ReadCache`, else `ReadRow` and `FillCache`), judges what it has
read (`Judge`), gives back the rest (`UnfreezeAmount`) and writes (`UpdateStatus`,
`Invalidate`). An update of the filled quantity reads and writes the same way without
a lock, sets the status from its argument whatever it was, and reads the order
once more for its answer. Locks, copies and keys expire at any moment.

An access succeeds, fails, or is done and reported as failed; the last two, and the
death of a process, count in `failures`. `overlaps` is a history variable: which
steps of two calls have fallen together, by name: `"create"` and `"cancel"` (a lock expired
under its owner), `"copy"` (the row changed while a reader had it in hand and was about to put
it into the cache), `"fill"` (a fill met a cancellation). The properties name the
overlaps they cannot do without; each has been seen to be needed.

Abstractions: the price is one; the canceller is the owner (anyone else is refused before
anything changes). Orders of the saga share the table but pass through `created`, `frozen`
and `submitted`, which the service refuses to cancel: they are not in this model. Requests
without a key are not either; all of them share the empty key of the unique index.

### SkipList

A node is its key; `forward`, `backward`, `level` and `length` are the fields of the code. One
call runs at a time, under the list's mutex: `Call` begins it, `Forth` and `Down` are the
iterations of its search, which `Insert`, `Delete`, `Search` and `Seek` share and which
collects `update` on the way; the call's last step is named after it. Linking and unlinking are
one step, since nobody else holds the mutex. `ScanStart`, `ScanOn` and `ScanEnd` are the
matching loop's scan of the bids, which goes backward through the lowest chain with no lock;
the list does not change meanwhile, as the actor is the only one to call it. The height of a node
is random, so it is any.

### WalReplay

The file is the sequence of its records' sizes. `Read` is `bufio.Reader.Read`: it gives what is
buffered, if anything is, though more was asked for. The loop takes a header, then skips or
takes a payload, and never looks at how many bytes came. What bytes that are no header say as a
length is left open (`Misread`). `Readings` of `WriteAheadLog` is what this amounts to when a
record is one thing; `Truncate` reads by the same code.

### EngineShutdown

A call's `pc` is what it does next: the first look at `running`, the log, the second look,
the actor's map, the channel, the answer, the notification channel. `Shutdown` is one action for
each thing it takes apart: `SwapRunning`, `Cancel`, `TakeChans`, `DropActors`, the wait
for the actors, `CloseNotify`. Storing in a nil map and sending on a closed channel panic, and
no handler recovers. `graceful` says whether the server was stopped first, as
`cmd/matching-svc/main.go` does. Actors are created on demand and exit with their context; a command's channel never fills up.

### TradePages

Each result's trades are stored by a goroutine of its own, whole or not at all, with a
`created_at` taken before. A page is any that the query's `ORDER BY`, `LIMIT` and `OFFSET`
allow: rows of one `created_at` come in any order. The cursor is not abstracted: its hand-written
base 64 is modelled on bytes and digits, and `MCParts` asserts (`CursorSurvives`) where it gives back the
offset it was made of, and where it does not.

### WorkerPool, Consumer

The pool's `Submit` is its check, its send and its count in three steps; a send on the closed
channel is ready, and panics. `Shutdown` and `ShutdownNow` are steps of any number of stoppers. A
consumer reads a batch of new events, handles each and acknowledges it; the answer to a read
and an acknowledgement may be lost, and a consumer may stop between two events or die anywhere.

### CircuitBreaker, RateLimiter, ServiceClient

A breaker counts within a generation and ignores answers to requests of an older one
(`inside`). A request to the limiter passes `Enter` (which builds its key), `Run` (the script,
one step in Redis, with a stamp read any time before) or `Miss`, `Leave` and `Judge`; the
script's answer may be lost. `Policies` is the sequence of them, each with its paths, scope, limit and
window of its own; a key is made of scope, identity and start of the window and not of the policy,
so that policies share keys, and a script that admits sets the key to expire after *its* policy's window
and `TTLBuffer` (`expires`). A policy whose limit does not parse has a window of 0, by which the code
divides; such policies are not modelled. **The deployed gateway has no policies at all**: `config.Load`
never fills `RateLimit.Policies`, and `NewRateLimitMiddleware` then lets every request pass
(`middleware.go:167`). Only `LoadDefault`, which nothing calls, has policies, and the first of them matches
every path. The model is of the middleware under any policies; in the deployment it is inert. `ServiceClient` has four clients, which differ in their chain of
interceptors: `OrderClient`, `UserClient` and `MatchingClient` of the gateway, `UpdateClient` of
the matching service. A request is a message the service takes when it likes or never.

### SagaEnds

One order in any of the states a handler can find it in, and handlers of six kinds,
each a goroutine: read, judge, write, compensate, with an error possible at each. `blind` is a
history variable: a handler has written over a row other than the one it asked about, or
without asking.

## 3. What is checked

Runs that pass:

| Run | Bounds | Shows |
|---|---|---|
| `OrderBook_match` | 3 orders, unique IDs, 2 prices, 2 quantities, symmetry on IDs | the structures agree, the book is never crossed even inside a call, fills add up through rollbacks, market orders exhaust the book, settled orders do not change, and the loop implements `MatchingPromise` |
| `OrderBook_sameid` | 4 orders that share one ID, at one price | fills add up, settled orders stay so and every call ends although levels lose orders and calls may panic |
| `MatchingEngine_wal` | 2 callers, 2 calls, 2 crashes or power failures, torn writes, a disk whose operations fail (but for the fsync), a reader's buffer of 2 records, time-outs | without snapshots, and with an fsync for each append: the engine implements `DurableMatching` for what was logged, logged answers are durable while the log fits the reader's buffer, calls that come one at a time are recovered exactly, every call returns |
| `MatchingEngine_snap` | 1 caller, 2 calls, 2 overlapping snapshots, 1 order a side in a snapshot, a failing disk, 1 crash | recovery starts from, and the log is cut for, whole snapshots only, unless two shared a temporary file |
| `OrderSaga_saga` | 1 gateway, 2 requests with one key, 3 retries, 1 trouble of any kind (crash, failed or unreported access, unheard answer) | statuses tell the truth; nothing is repeated without a cause; what is settled stays so; entries settle; without trouble every saga is submitted or has a dead letter |
| `OrderService_order` | 3 callers, 4 calls of any kind, 2 units ordered, fills of 1 and 2, 1 failure, any expiries, symmetry on callers | a key is charged once; a cancelled order has given back exactly its rest and no other order anything, but for the overlaps named; the copy is the row outside an update unless a reader held it while it changed |
| `UserBalance_locks` | 3 callers, 3 calls of any kind with or without the lock, amounts -1, 1 and 2 on a balance of 2, symmetry on callers | no column is overdrawn but by negative amounts of the kinds named; freezing conserves the sum; the ledger is exact unless transactions that share no lock overlap or a lock expires |
| `Parts` | nine components, each behaviour one of them; bounds below | see the next table |

`Parts` holds the components that are small enough to be checked by themselves. `MCParts` adds the
price index, and its variable `part` says which of them a behaviour is about; the others stay in their
initial states. It takes about four minutes.

| Part | Bounds | Shows |
|---|---|---|
| list | 4 keys, 2 levels, any calls in any order, unbounded | the list implements `OrderedKeys`; the scan of the bids passes every price above the one it has come to |
| log | 2 appends by 2 callers, 2 truncators, 1 crash or power failure, failing fsyncs and a failing disk (2 records lost to them at most), a reader's buffer of 1 record, batches of 2 | the unsynced tail is bounded; truncation takes nothing above its cut that its reader can see, unless an error or a crash interrupts it |
| stop | 2 calls, 2 symbols, a notification channel of 1 | after a graceful stop nothing panics and what is logged is executed or was told of a time-out; `Shutdown` returns |
| pool | 2 tasks, 2 workers, 2 stoppers, a channel of 1 | every accepted task is in one place; the metrics add up; none runs after the pool has stopped |
| events | 4 events, one of which nobody handles, 2 consumers, batches of 2, 2 stops or deaths | no event is handled twice or forgotten |
| pages | 3 results of 1, 1 and 2 trades, pages of 1, 3 instants | paging misses no trade that was there and has its instant for itself |
| limit | 3 requests, 2 at a time, 2 policies that share keys, of windows 1 and 3, 3 instants, keys that live 1 longer, a breaker that trips after 2 | Redis admits no more than a policy's limit under a key, but for the late and for policies of shorter windows; an outage of Redis opens the breaker |
| client | 4 calls (3 of a client that retries), 2 at a time, 2 attempts, a breaker that trips after 2 and probes with 1 | a half-open breaker is not overrun; nothing is executed more often than tried; a hung service does not hold a client with a deadline |
| ends | 3 handlers of any kinds, 2 units, fills of 1 and 2 | while nobody writes blindly a cancelled order gives back its rest, and once; an order that is over changes under blind handlers only |

Runs that show where a document, a comment or a test says something else:

| Run | Divergence |
|---|---|
| `OrderBook_vanished` | orders that share an ID drop out of their level; a market order leaves them unmatched |
| `MatchingEngine_order` | two callers are logged in one order and executed in the other; recovery builds another book |
| `OrderSaga_resume` | a crash between the mark *done* and the success callback ends a saga half-way |
| `WalReplay_all` | `Replay` gives its handler every record only while the file fits in bufio's buffer of 4096 bytes: the record across its end is lost, and what follows is read from the middle (`wal.go:394`, against line 379) |

Others met while modelling, which follow from the code as modelled, and for
which no run is kept:

- Book: a rejected FOK order keeps the `FilledQuantity` of its undone attempt
  (`orderbook.go:258`, against `openspec/specs/matching-order-types/spec.md:63`); a
  FOK order is held to its limit where the scenario at line 77 of that document lets it
  cross levels; `AddOrder` takes no lock (`orderbook.go:135`), so readers meet filled
  orders although the mutex "protects all fields below" (line 109).
- Log: LSNs in the file need not ascend with two appenders (`wal.go:259`); in the
  default sync mode an answer may precede its fsync (`wal.go:198`, against
  `README.md:43`); truncation empties the file before it writes back what it keeps
  (`wal.go:591`), which a crash or an error in between loses, and sets the LSN counter back
  (`wal.go:624`); it reads as short as `Replay` does (`wal.go:562`), so that in a log of more than 4096
  bytes it also takes records above its cut, where line 472 has "removes all entries with LSN <=
  upToLSN"; an error once the old handle is closed leaves a log to which nothing can be appended
  (`wal.go:617`); a torn record hides what is appended behind it (`wal.go:139`).
- Engine: a command whose log cannot be opened is executed and answered unlogged (`engine.go:463`, `539`),
  against the "zero data loss" of `README.md:43`; the property and the refinement speak of the logged
  ones. `Recover` reads the names of log files back with `/` (`engine.go:819`), so that a symbol with `_` or `:` in
  its name is recovered under another's, and two such symbols share a log.
- Snapshots: a command logged before the snapshot's LSN is read and executed
  after its book is read is in neither snapshot nor replay (`engine.go:997`), one
  logged after the first and executed before the second is in both
  (`engine.go:1002`); ten orders a side are kept (`snapshot.go:42`); between
  `os.Remove` and `os.Symlink` there is no latest snapshot (`snapshot.go:169`); two snapshots of one
  symbol and LSN write one temporary file (`snapshot.go:117`), where line 107 has "writes a snapshot to disk
  atomically": the link may come to name a file that is half written, and the log be cut for it.
- Saga (documents under
  `openspec/changes/archive/2026-06-21-saga-outbox/specs/`): no service
  deduplicates deliveries (`order-outbox/spec.md:18`), so a crash after the effect
  freezes money twice; nothing calls the compensation of a failed submission
  (`order-saga/spec.md:22`); callbacks set a status whatever it was
  (`order-saga/spec.md:25`).
- Balances: calls of different kinds hold different locks on one row, and the order service's hold
  none, and they lose each other's updates (`user_service.go:104`, `116`; `order_service.go:92`, `112`, `164`),
  which is why `LedgerExact` has its condition; a negative amount is frozen (`user_repository.go:120`),
  drives the frozen column below zero and raises the balance.
- Outbox: the columns of section 2; two gateways on one table deliver one entry twice, and one sets back what
  the other has settled, with nothing having failed (section 4).
- Order service: a fill sets `filled` or `partial_filled` over `cancelled`, and a smaller
  quantity over a larger (`order_service.go:215`), where `README.md:158` calls these
  states terminal; a reader that has read the row before a cancellation and writes its
  copy after the `Del` (`order_repository.go:72`, `119`) lets a second cancellation
  judge by the old status and refund again; the key is looked up before the lock
  is taken and not again under it (`order_service.go:51`, `74`). The matching service reports as
  filled quantity what remains, negated or zero (`matching_server.go:332`,
  `340`), and the order service's server ignores the status it sends (`order_server.go:133`).
- Gateway: `Stop` is called at shutdown and again deferred
  (`cmd/gateway/main.go:107`, `136`) and closes a closed channel; cancellation
  unfreezes a quantity rather than an amount, before the order service has judged, which
  unfreezes again (`handler.go:487`).
- Ends of a saga: two concurrent `CancelOrderSaga` can write two unfreeze entries, since the row
  is read outside the transaction (`order_saga.go:289`, `332`), where line 314 speaks of
  idempotence; the saga writes the table past the order service's copy in Redis.
- Rate limiter: the window does not slide (its key holds the aligned window,
  `ratelimit_redis.go:147`); the breaker opens after 20 requests of which half failed, the last five
  in a row (line 35), where `docs/interview/10-gobreaker-circuit-breaker.md:990` has five in a row; its counts
  are never reset while it is closed, so that an outage after many good answers passes as many
  requests unchecked; only the first policy that matches is checked, policies of one scope share
  their keys, and a script of a short window drops what a long one still counts and lets the key
  expire before it (`ratelimit_redis.go:84`, `116`), so that a limit by the hour is exceeded beside one
  by the minute; the scope `user` counts addresses, as the middleware runs before
  the token is read.
- Clients: those of the user and the matching service have no time-out, so that a hung service
  holds their calls, and the probes of a half-open breaker, for ever
  (`docs/interview/10-gobreaker-circuit-breaker.md:1157` has one for each); the order client's three attempts
  share one deadline.
- Stop of the engine: the notifier leaves at the context's end what is still in its channel
  (`engine.go:230`); without the graceful stop of the server before it, calls that are
  past the check store in a nil map or send on a closed channel, and the process panics.
- Trades: the rows of one result share a `created_at`, so that one may be missed between two
  pages; a batch that fails is only logged; the cursor's base 64 pads full groups, so that
  the first offset of four bytes comes back as 0 (`matching_server.go:301`).
- Worker pool: `Shutdown` waits for the running tasks and drops the queued ones
  (`workerpool.go:205`), and a second `Shutdown` returns at once. Consumers never read what is
  pending (`consumer.go:107`), so that an event whose handler fails is not tried again.

**Why the bounds are enough.** Three orders on two prices let a taker meet two
levels, two orders in one level, a partial fill, a FOK that trades before it is
killed, and a resting remainder that meets a later order; with shared IDs the
panic takes four requests: two namesakes at one price, the cancellation of one, an order of
the other side at their price, and a fourth that meets the index left behind. In the log two appends are a batch, or
one on either side of a crash or a truncation, and two records are one more than its reader's buffer holds;
one crash or two failures fall between any two steps. In the engine two callers are enough to disagree about
the order of log and channel; two calls are an order and its counterpart or its
cancellation, of which the notifier logs the trade as a third record, one more than the reader's buffer holds; two
crashes let a recovered log be appended to and read again. Two snapshots overlap in
every way that involves one log, one temporary file and one link: without the exception for shared
files `TLC` finds the link to a file that is half written, and the log cut for it. Each of the three
conditions of `WindowBound` (a stamp outside its window, a script that came late, a shorter window on the
same key) was seen to be needed as well. The channel holds one command,
so that callers do wait for it.
Two requests with one key race between check and store; more keys would
interact only through the order of a batch. Three retries let an entry fail,
back off, become stale while it waits, and be buried. One trouble falls anywhere in two
steps of a saga with their retries; `RepeatsHaveACause` counts per trouble. In the order
service three callers are two that contend and one that reads or fills meanwhile; four
calls are a creation, two cancellations and a reader or fill between them, or two creations
with what follows; a fill of one of two units leaves a rest, one of two none. Of balances, three
callers are two of one kind, of which one waits, has outlived its lock or took none, and one of another kind; three calls
let the balance be frozen, given back and frozen again.
Of the parts: four keys let a node be linked between two others on both levels and the scan pass nodes
on either side of a change; two calls on two symbols let an actor be created beside the stop and
beside another, and a full notification channel; one slot in the pool's channel lets a submitter
wait while it is closed; four events are two batches; three requests at a limit of two are one too
many, and two at a limit of one with a third of the other policy between; Redis fails in the first unit of
time only, and the third begins when two requests have passed; with retries three calls trip a breaker, probe and
come late, without them four; three handlers are two that race and one that comes late. In `MCParts` a
part's start is restricted where another part's value does not matter, the row of `ends` is never
`frozen`, which is cancelled as `created` is, and its copy is made by the first reader.

**Fairness.** Safety needs none. `OrderBook`: weak fairness of the actor's own
steps, as a goroutine that can run is scheduled. Requests are not fair: no
order has to come. `MatchingEngine`: weak fairness of the actor, which waits for
nothing but its channels; strong fairness of callers, notifier and snapshots,
whose steps wait for the log's mutex or a place in a channel: Go's mutex hands
over to a waiter after a millisecond and its channels are first-in-first-out, so who
waits infinitely often for what is infinitely often free gets it. Crashes,
requests, triggers and giving up are never fair: `CallsReturn` owes nothing to
time-outs. `OrderSaga`: weak fairness of the worker, a goroutine on a ticker. That its
deliveries return is an assumption on the services, not on this code: the clients of the user and the
matching service have no time-out (`HungServiceSurvived` holds of the others only), and the worker's
context has none, so that a service that hangs with its connection up holds the only worker, and every saga,
until the gateway is restarted. Weak fairness also of the restart, as a supervisor
restarts the gateway; of time. Which outcome an access or a
delivery has is never fair: a service may refuse for ever, and the dead letter is
what ends it. `EngineShutdown`: weak fairness of the calls, whose deadlines pass, of the shutdown, and
of an actor's exit: a `select` whose context is done does not take the other case for ever.
`ServiceClient`: weak fairness of what the client does by itself, its back-off and its deadline;
a service that never answers is fair, and so is a caller that never loses patience.
Troubles are finite by their bound; `EntriesSettle` says what becomes
of entries when they end, `SagaCompletes` of sagas when there are none.

**Deadlock** is checked in the runs of `OrderSaga`, whose worker never stops
polling. In the others every bounded behaviour ends when its requests are used
up; there the waiting hazards are the properties `CallsReturn`, `ShutdownReturns` and
`HungServiceSurvived`.

**Mutants.** An operator whose comment begins with "Variant" is a plausible
mistake in the one behind it. `PROJECT.json` names, for each property of each
passing run, the variant that breaks it.

## 4. What is proved

`TLC` checks a small instance; the theorems below hold for every value of the constants that satisfies
the modules' assumptions and what the second column adds. They state every invariant, action property
and refinement that a passing run checks, but for `SerialRecovery` of `MatchingEngine`.

### OrderBook

`OrderBookProofs`, for any sets of IDs, prices and quantities and any number of orders:

| Theorem | Assumes | States |
|---|---|---|
| `TypeCorrect` | | `Spec => []TypeOK` |
| `FillsAlwaysAddUp` | | `Spec => []FillsAddUp` |
| `ClosedForGood` | | `Spec => FinalIsForever` |
| `BookNeverCrosses` | unique IDs | `Spec => []NeverCrossed` |
| `BookStaysConsistent` | unique IDs | `Spec => []BookConsistent` |
| `NeverPanics` | unique IDs | the panic of `addToBookInternal` is unreachable |
| `MarketTakesAll` | unique IDs | `Spec => []MarketExhaustsBook` |
| `TapeIsTrue` | unique IDs | `Spec => []TapeAccountsForFills` |
| `BookImplementsPromise` | unique IDs | `Spec => ImplementsPromise` |

The argument is in layers. `BaseInv` holds whatever IDs callers use: types;
each order's numbers agree with its status; levels hold limit orders; the log of
the rollback restores exactly what this call has taken (without it a rollback
could overfill an order); a listed order is active unless the call in progress
has just filled it. `BookInv` is inductive on top of it when IDs differ: lists, index and levels
agree in every state (`StructuresAgree`), nothing is crossed, and what the scan has
passed can no longer trade with the taker (`ScanComplete`). This last part is
why `FinishRest` may put the remainder on the book without crossing it, and why a market order
with something left has met everyone (`MarketTakesAll`). There is one lemma for each
action and layer.

`TapeInv` is the third layer. Between calls an order has filled what the tape says. Within one,
the trades collected so far are not published yet, and a rollback forgets them: so filled
is what the tape and these trades say together, the log of the rollback holds what
the tape says alone, and an order that is not in this log is in none of these trades.

`PromiseInv` is the fourth. `MatchingPromise` takes an order at once, the loop takes a
level and a maker at a time, and the two meet where `AddOrder` returns. Until then the invariant says that what the
loop has done is a beginning of what the promise does at once: the makers it met are the first
in turn (`ServedInTurn`), each has lost what the promise takes from it (`ServedRightly`), and the taker
has the sum (`TakerServed`). When the scan ends the beginning is the whole: either the taker is
filled, or `ScanComplete` holds up to its limit and nobody willing is left. A killed FOK maps to the promise's `Kill`
because the log of the rollback is exact. `FinishPanics` has no counterpart, and `NeverPanics` excludes it.

### MatchingEngine

`MatchingEngineProofs`, for any commands, clients, queue sizes, numbers of snapshots and of crashes:

| Theorem | Assumes | States |
|---|---|---|
| `EngineTypeCorrect` | | `Spec => []EngineTypes` |
| `SnapshotsAreSaved` | | `Spec => []SnapshotBeforeUse` |
| `AnswersAreDurable` | no snapshots; power fails only if every append is synced and no fsync fails | `Spec => []AnsweredIsDurable` |
| `KeepsThePromise` | the same | `Spec => ImplementsDurableMatching` |

`SnapshotsAreSaved` is for any number of snapshots at once, with errors and crashes anywhere.
`WholeInv` carries it: as long as nobody has shared the file of an LSN, at most one snapshot is writing under that name, what it has
written is whole when it is renamed, and nobody writes to a final file; a snapshot that unlinks, links or
cuts has its file there.

The last two assume away what section 3 shows the code not to survive: a snapshot names an LSN that
its book does not hold, and `bycount` and `byduration` answer before the fsync. What they do not assume away
stands in the property: commands that no log took are not spoken of, nor is a log that its reader's buffer
cuts or that has a torn record (`Clean`), nor a symbol that recovery takes for another; `readable` says the same to the refinement. What is
left is what the code does promise, and includes crashes of the process at any step in any mode and errors of the
disk at any operation. `LastingInv` carries it: the log has each command once, written by its caller (`LogInv`); a
caller who has queued a command that it logged has it on disk, and one who is about to has it neither in a
channel nor in the book (`CallerInv`); no two callers have one command (`Apart`); what is queued is queued once and
not executed (`QueueInv`); what was logged and answered is on disk (`AnswerInv`).

### OrderSaga and Outbox

`OrderSagaProofs`, for any number of requests, keys, entries and troubles:

| Theorem | Assumes | States |
|---|---|---|
| `SagaTypeCorrect` | | `Spec => []SagaTypes` |
| `StatusIsTrue` | | `Spec => []StatusTellsTruth` |
| `RepeatsAreCaused` | one worker | `Spec => []RepeatsHaveACause` |
| `SettledStaysSettled` | one worker | `Spec => SettledIsFinal` |

`SagaInv`, for any number of gateways, is the status with its reasons: behind its delivery an entry's service has done its
part (`DeliveryHappened`), and no entry submits before the money is frozen (`FreezeBeforeSubmit`). The entries of one
worker's batch are moreover unfinished until it comes to them (`BatchLive`). `Caused` counts: for each saga and part, the
deliveries, the entries that may still deliver and the order that is not stored yet are no more than one and the
troubles there were. One worker is needed: with two, `BatchLive` is false, and `TLC` finds both conclusions
violated without any trouble, as nothing keeps two gateways from reading one pending row (`GetPendingReady`, `outbox.go:161`,
takes no lock) and no write asks for the status it replaces (`outbox.go:144`).

### UserBalance

`UserBalanceProofs`, for any number of callers, with the locks or without, any amounts of either sign and any initial balance:

| Theorem | States |
|---|---|
| `BalanceTypes` | `Spec => []TypeOK` |
| `NeverOverdrawn` | `Spec => []NeverNegative` |
| `FreezingConserves` | `Spec => []TotalConserved` |
| `LedgerIsExact` | `Spec => []LedgerExact` |

None of these is inductive, because what a transaction will save was computed
from what it has read. `ReadingsCovered` and `ReadingsConserve` say of each
reading what is to be said of the row: a column is not negative unless an amount of the kinds
that add to it was, it has the same sum. A lost
update then replaces the row by the result of an older reading, which is as
good. For the ledger that is not enough. `LocksExclude` says that
while no lock has expired under its owner who took one still has it alone, `ReadingsFresh` that while no two
transactions without a common lock have overlapped either, one is open at most and has read the row as it still is.

### OrderService

`OrderServiceProofs`, for any number of callers, calls and failures, any
positive quantity and any fills, negative ones included:

| Theorem | States |
|---|---|
| `OrderTypes` | `Spec => []TypeOK` |
| `CopiesAreFresh` | `Spec => []CopyIsFresh` |
| `ChargedOnce` | `Spec => []OneCharge` |
| `RefundsExact` | `Spec => []RefundExact` |

`CopyIsFresh` becomes inductive with what the next writer of the cache holds: while no
failure and no overlap has happened, who is about to copy has the row as it is (`Fresh`).
`OneCharge` speaks of moments without a creation under way; `Bounded` says it of all: the
money charged, less the order's and less that of callers between freeze and insert or
compensation, has drifted by no more than one charge for each failure. It needs
`Known`, that nobody holds an order without a row, so that an update never makes
one. Neither needs a lock: the unique index and the compensation are enough. `RefundExact` does: `Exact` says that
while nothing has failed and no lock expired or write met a cancellation, who holds the cancellation lock is alone and has the
row as it is, and what was given back is the rest of an order that is cancelled or about to be.

### SkipList

`SkipListProofs`, for any set of positive prices and any greatest height:

| Theorem | States |
|---|---|
| `ListAlwaysSorted` | `Spec => []ListInv`: chains sorted and complete, backward links mirror the lowest chain, the level in use is the highest |
| `ScanNeverMisses` | `Spec => []ScanMissesNone` |
| `ListImplementsIndex` | `Spec => ImplementsOrderedKeys` |

`ListInv` says of each node on a chain that its pointer leads to the next greater key of that chain
(`IsNext`), and that a chain holds exactly the nodes of its height. It is not inductive without
`SearchInv`, which says what a search has established when it ends: on each level `update` is the last
node before the key. Three lemmas on `IsNext` say what putting a key between two nodes and taking it out does to
all others; `InsertPlace` and `DeletePlace` bring the search to them. The refinement maps the
set to the lowest chain and follows from what `After` is when the search ends.

### The components of Parts

`PartsProofs`. A bound of the model that is a constant, such as `MaxCalls`, is any natural number.

| Theorem | Assumes besides | States |
|---|---|---|
| `LossBounded` | sync by count, a positive threshold | `Log!Spec => []LossIsBounded` |
| `TruncationKeeps` | | `Log!Spec => TruncationKeepsNewer` |
| `ShutdownIsClean` | | `Stop!Spec => []StopIsClean` |
| `EventsHandledOnce` | | `Group!Spec => []EventsAccounted` |
| `TasksAreAccounted` | finitely many workers and tasks; no task is called as the two marks are | `Pool!Spec => []TasksAccounted` |
| `ExecutionsAreAccounted` | an execution may be tried once at least | `Client!Spec => []ExecutionsAccounted` |
| `ProbesAreBounded` | | `Client!Spec => []ProbesBounded` |
| `WindowIsBounded` | | `Limiter!Spec => []WindowBound` |
| `OutageIsBounded` | | `Limiter!Spec => []OutageBounded` |
| `PagesMissNothing` | offsets survive their cursors | `Pages!Spec => []PagesMissNone` |
| `FinalStays` | no fill above the quantity | `Ends!Spec => FinalUnlessBlind` |
| `RestComesBack` | no fill above the quantity | `Ends!Spec => []RestGivenBackOnce` |

- The log: `LossInv` bounds the records that are not on disk by `pending` and what the counter has forgotten
  (`Forgotten`): one threshold for each crash, since a new process counts from nothing, the fsyncs that failed, and
  what a write or a rewriting cut short has left (`failures`). What is promised to stay is what is synced or with a
  truncator (`Held`); a truncation takes of it what is at or below its cut, or lies beyond its reader's buffer or a torn record
  (`Overlooked`), and drops what it holds only when it fails or dies (`Interrupted`).
- The shutdown: nothing is taken apart while the server may still have calls (`Whole`), and none is under way
  after that (`CallsSettled`).
- The consumers: each event of a batch is in one hand (`InHandOf`, `NotShared`), and the group has given it
  out once (`GivenOut`). The pool: a task that was sent and has not ended is in one place (`Placed`); who has waited
  and returned finds no worker (`NobodyLeft`).
- The client: `ClientInv` counts executions and requests on the wire against the attempts. An open breaker has let
  nobody in, and a half-open one no more than it counted (`Probing`); who is in flight meanwhile was there
  when it opened or was let in (`LetIn`).
- The limiter: `WindowsRight` says that where all requests of a key were in time and none had a shorter window
  (`Fit`), Redis still has whom it has admitted (`Lasting`) until the window is over for good (`Over`), and how many that may be;
  `CountsRight` relates a closed breaker's counts to the requests inside it, those answered and those in flight.
- Pages: `PagesInv` says that what the client wants and has not received is behind its cursor, as rows that
  come later come before it in the order of the pages. The hypothesis is about the codec only: 2^24 is the first
  offset it loses, and `CursorSurvives` has `TLC` show that, and samples of those below.
- The ends of a saga: who writes was let through on what it saw (`Fits`) and has given the rest back if it writes in
  the gateway's name (`Paid`); `GivenBack` relates the row to the entries and what they give.

### Assumptions and limits

The assumptions are those of the modules, which every run evaluates, and the second columns above.
Positive prices in `1..MaxPrice` are there because the least price beyond the scan has to exist; prices are
machine numbers. `NoRowAssumption`, `EntryAssumption` and the like say that a mark for "nothing" is not one of the things.

A recursive function is unfolded by its definition, and what it does on every input is proved by contradiction from
the least length on which it fails (`AllNumbers` of `SubsequenceProofs`). The functions treated so are
`Kept`, `Run`, `Dealt`, `Amount` and the `Sum` of the promise. The cursor's codec is not: it stays a hypothesis.

**Only model-checked**: `SerialRecovery`, of which `KeepsThePromise` has the part that does not depend on order;
the six liveness properties, `MatchingTerminates`,
`CallsReturn`, `EntriesSettle`, `SagaCompletes`, `ShutdownReturns` and `HungServiceSurvived`,
which are out of the prover's reach, and the fairness conditions with them. What the four runs
that expect a violation show is a counterexample, and needs no proof.
Inductive invariants are not in a run's list; each was checked by TLC before it was proved.

## 5. Plan

What would be worth adding, in this order:

1. Several gateways on one outbox table, where entries have no owner. `Outbox` is written for a set
   of workers and the run has one; section 4 says which theorems need that. What holds instead is to be stated:
   how often a part may be repeated with `n` gateways.
2. Durability with snapshots: under which order of capture, log and execution `AnsweredIsDurable` would hold,
   as a theorem with that order for its hypothesis.
3. A snapshot that reads the book in the middle of a match: `OrderBook`'s steps under
   `MatchingEngine`'s snapshots, with the book's own recovery inserts.
4. Composition of `OrderSaga` with `UserBalance` and `SagaEnds`: what is frozen is in the end
   spent or given back, or has a dead letter.

## 6. Not modelled

- The recovery inserts of the book, which replay whole orders; `SubmitOrderAsync`, which nothing
  calls; publication to Redis; loading a snapshot by name; `Close` of
  the log and its unused `WriteAtomicSnapshot`; two symbols that share a log file.
- Several gateways on one outbox; limits of 100 rows; entries whose action has no handler.
- Requests to the order service without a key, and lists of orders. Accounts, roles and the user cache.
- The gateway's mode without a saga, which `NewRouter` never selects; what forwards one request to
  one service; tokens and roles, which are functions of one request.
- Configuration, logging, metrics, tracing, formatting and wiring: no state that the system's
  correctness depends on. Generated code. Tables, except for the keys and columns named above.

## 7. Running

    tlc -workers 2 -config OrderBook_match.cfg MCOrderBook
    tlapm OrderBookProofs.tla
    tlapm UserBalanceProofs.tla
    tlapm OrderServiceProofs.tla
    tlapm SkipListProofs.tla
    tlapm OrderSagaProofs.tla
    tlapm MatchingEngineProofs.tla
    tlapm PartsProofs.tla
    tlapm SubsequenceProofs.tla

`PartsProofs` takes about twelve minutes, `OrderBookProofs` five, the others less.

Configurations are named after the module they check; `MCOrderBook`, `MCMatchingEngine`,
`MCOrderSaga`, `MCOrderService`, `MCUserBalance`, `MCParts` and `WalReplay` are the root modules.
