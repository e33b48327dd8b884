---------------------------- MODULE MatchingEngine ----------------------------
(***************************************************************************)
(* One symbol of the matching engine: callers that log a command and then  *)
(* send it to the symbol's actor, the actor and its two channels, the      *)
(* goroutine that logs trades, snapshots, crashes and recovery.            *)
(* internal/matching/engine/{engine,actor}.go, snapshot/snapshot.go; the   *)
(* log is WriteAheadLog, whose appenders are the clients and the notifier  *)
(* and whose truncators are the snapshots.                                 *)
(*                                                                         *)
(* Recover runs before any request is accepted and replays one command at  *)
(* a time, so it is one step. A power failure leaves the snapshot          *)
(* directory as the process saw it: the directory is synced before the     *)
(* link is replaced, not after, so this is the kinder case. A result       *)
(* without trades is of no consequence to the notifier and is not queued   *)
(* for it. The encoding, the fsync and the closing of a snapshot file are  *)
(* one step beside other snapshots. Order IDs are unique; the panics of    *)
(* OrderBook, which need shared ones, are not here.                        *)
(***************************************************************************)
EXTENDS WriteAheadLog, BookCommands, FiniteSets

CONSTANTS
    Clients,        \* goroutines that call SubmitOrder or CancelOrder
    Notifier,       \* the processNotifications goroutine
    Snapshots,      \* goroutines that run TakeSnapshot; {}: no snapshotDir
    QueueCap,       \* capacity of cmdCh and of cancelCh: 1000 in the code
    SnapshotDepth,  \* orders per side in a snapshot: GetDepth's default, 10
    MaxTradesPerSnapshot,
    Timeouts,       \* TRUE: a caller may give up
    Separator,      \* between the symbol's two assets
    MaxCalls,       \* bound: calls in a behaviour
    MaxCrashes      \* bound: crashes in a behaviour

CommandSet ==
    [op : {"rest", "take", "cancel", "trade"}, no : 1..MaxCalls, order : 1..MaxCalls]

ASSUME EngineAssumption ==
    /\ Appenders = Clients \cup {Notifier} /\ Notifier \notin Clients
    /\ Truncators = Snapshots
    /\ QueueCap \in Nat \ {0} /\ SnapshotDepth \in Nat \ {0}
    /\ MaxTradesPerSnapshot \in Nat \ {0}
    /\ Separator \in {"/", "_", ":", "none"}
    /\ Timeouts \in BOOLEAN /\ MaxCalls \in Nat /\ MaxCrashes \in Nat
    /\ CommandSet \subseteq Entries

VARIABLES
    up,             \* the process runs
    actor,          \* the symbol has an actor
    book,           \* its order book
    cmdCh, cancelCh,\* its channels
    client,         \* where each caller is
    notify,         \* m.notify: results that carry trades
    notifier,       \* the goroutine that reads it
    sinceSnapshot,  \* tradesSinceLastSnapshot
    snap,           \* where each TakeSnapshot is
    temps, files,   \* temporary and final snapshot files, by their EndingLSN
    latest,         \* the .latest link: the LSN it points to, or nothing
    opened,         \* GetWAL has the log open
    created,        \* there is a log file
    calls, crashes, \* how many so far
    applied,        \* ghost: the commands the book is made of
    answered,       \* ghost: commands whose caller has had an answer
    unlogged,       \* ghost: commands sent without a log
    readable,       \* ghost: the last recovery read all that the disk has
    disordered,     \* ghost: since then calls overlapped, or one went
                    \* unlogged or unanswered
    shared          \* ghost: LSNs whose temporary file two snapshots shared

storeVars == <<temps, files, latest, shared>>
logVars == <<opened, created>>
actorVars == <<actor, book, cmdCh, cancelCh, applied>>
notifierVars == <<notify, notifier, sinceSnapshot>>
boundVars == <<up, calls, crashes>>
ghostVars == <<answered, unlogged, readable, disordered>>
vars == <<walVars, storeVars, logVars, actorVars, notifierVars, boundVars, ghostVars,
          client, snap>>

NoCall == [pc |-> "idle", cmd |-> NoEntry, traded |-> FALSE]
NoSnapshot == [pc |-> "idle", at |-> "none", book |-> <<>>, covers |-> <<>>]
NoResult == [pc |-> "idle", cmd |-> NoEntry]
NoFile == [whole |-> FALSE, book |-> <<>>, covers |-> <<>>]

Init ==
    /\ WALInit
    /\ up = TRUE /\ actor = FALSE /\ book = <<>> /\ applied = <<>>
    /\ cmdCh = <<>> /\ cancelCh = <<>>
    /\ client = [c \in Clients |-> NoCall]
    /\ notify = <<>> /\ notifier = NoResult /\ sinceSnapshot = 0
    /\ snap = [t \in Snapshots |-> NoSnapshot]
    /\ temps = [n \in {} |-> NoFile] /\ files = temps /\ latest = {} /\ shared = {}
    /\ opened = FALSE /\ created = FALSE
    /\ calls = 0 /\ crashes = 0
    /\ answered = {} /\ unlogged = {} /\ readable = TRUE /\ disordered = FALSE

-----------------------------------------------------------------------------
(* Callers *)

\* GetWAL finds the log open, or opens it.
GetsLog == opened' = TRUE /\ created' = TRUE

\* GetWAL fails, and whoever calls it next tries again.  The file may be there.
GetsNoLog ==
    /\ DiskMayFail /\ ~opened
    /\ created' \in {created, TRUE}
    /\ UNCHANGED <<walVars, opened>>

AllIdle == \A c \in Clients : client[c].pc = "idle"

\* A call begins: the command goes to the log first, and if there is none to
\* the actor without more ado.
Call(c, cmd) ==
    /\ client[c].pc = "idle"
    /\ \/ /\ GetsLog /\ Reserve(c, cmd)
          /\ client' = [client EXCEPT ![c] = [NoCall EXCEPT !.pc = "append", !.cmd = cmd]]
          /\ UNCHANGED unlogged
       \/ /\ GetsNoLog
          /\ client' = [client EXCEPT ![c] = [NoCall EXCEPT !.pc = "send", !.cmd = cmd]]
          /\ unlogged' = unlogged \cup {cmd}
    /\ disordered' = (disordered \/ ~AllIdle \/ cmd \in unlogged')
    /\ calls' = calls + 1
    /\ UNCHANGED <<storeVars, actorVars, notifierVars, up, crashes, snap, answered,
                   readable>>

SubmitOrder(c, op) ==
    /\ up /\ calls < MaxCalls
    /\ Call(c, Command(op, calls + 1, calls + 1))

\* A symbol without an actor has nothing to cancel: no record is written.
CancelOrder(c, order) ==
    /\ up /\ calls < MaxCalls /\ actor
    /\ Call(c, Command("cancel", calls + 1, order))

ClientAppends(c) ==
    /\ client[c].pc = "append"
    /\ AppendStep(c)
    /\ client' = IF appender'[c].pc = "idle"
                 THEN [client EXCEPT ![c].pc = "send"] ELSE client
    /\ UNCHANGED <<storeVars, logVars, actorVars, notifierVars, boundVars, ghostVars, snap>>

\* An error of Append goes back to the caller, and nothing is sent.
ClientAppendFails(c) ==
    /\ client[c].pc = "append"
    /\ WriteFails(c)
    /\ client' = [client EXCEPT ![c] = NoCall]
    /\ UNCHANGED <<storeVars, logVars, actorVars, notifierVars, boundVars, ghostVars, snap>>

Queued(c) == [client |-> c, cmd |-> client[c].cmd]

\* dispatch, or the second half of CancelOrder: a channel for each.
Send(c) ==
    /\ client[c].pc = "send"
    /\ IF client[c].cmd.op = "cancel"
       THEN /\ Len(cancelCh) < QueueCap
            /\ cancelCh' = Append(cancelCh, Queued(c))
            /\ UNCHANGED <<actor, cmdCh>>
       ELSE /\ Len(cmdCh) < QueueCap
            /\ cmdCh' = Append(cmdCh, Queued(c))
            /\ actor' = TRUE
            /\ UNCHANGED cancelCh
    /\ client' = [client EXCEPT ![c].pc = "wait"]
    /\ UNCHANGED <<walVars, storeVars, logVars, book, applied, notifierVars, boundVars,
                   ghostVars, snap>>

\* The caller's context ends, or the timeout does: in both selects, and even
\* with the reply there, since a select takes any of its ready cases.
GiveUp(c) ==
    /\ Timeouts
    /\ client[c].pc \in {"send", "wait", "reply"}
    /\ client' = [client EXCEPT ![c] = NoCall]
    /\ actor' = (actor \/ client[c].cmd.op # "cancel")
    /\ disordered' = TRUE
    /\ UNCHANGED <<walVars, storeVars, logVars, book, cmdCh, cancelCh, applied,
                   notifierVars, boundVars, snap, answered, unlogged, readable>>

\* The result reaches the caller.  Trades go on to the notifier, unless its
\* channel, which all symbols share, is full.
Answer(c) ==
    /\ client[c].pc = "reply"
    /\ answered' = answered \cup {client[c].cmd}
    /\ \/ client[c].traded /\ notify' = Append(notify, client[c].cmd)
       \/ notify' = notify
    /\ client' = [client EXCEPT ![c] = NoCall]
    /\ UNCHANGED <<walVars, storeVars, logVars, actorVars, notifier, sinceSnapshot,
                   boundVars, snap, unlogged, readable, disordered>>

-----------------------------------------------------------------------------
(* The actor *)

\* Variant: only trades are reported.
RepliesIfTraded(q) ==
    client' = [c \in Clients |->
        IF c = q.client /\ client[c].pc = "wait" /\ client[c].cmd = q.cmd
                /\ Trades(book, q.cmd)
        THEN [client[c] EXCEPT !.pc = "reply", !.traded = TRUE]
        ELSE client[c]]

\* The reply channel holds one result: the actor never waits for a caller, and
\* nobody reads the reply of a caller that has given up.
Replies(q) ==
    client' = [c \in Clients |->
        IF c = q.client /\ client[c].pc = "wait" /\ client[c].cmd = q.cmd
        THEN [client[c] EXCEPT !.pc = "reply", !.traded = Trades(book, q.cmd)]
        ELSE client[c]]

Handle(q) ==
    /\ book' = Apply(book, q.cmd)
    /\ applied' = Append(applied, q.cmd)
    /\ Replies(q)
    /\ UNCHANGED <<walVars, storeVars, logVars, actor, notifierVars, boundVars,
                   ghostVars, snap>>

HandleCommand ==
    /\ cmdCh # <<>>
    /\ Handle(Head(cmdCh))
    /\ cmdCh' = Tail(cmdCh) /\ UNCHANGED cancelCh

HandleCancel ==
    /\ cancelCh # <<>>
    /\ Handle(Head(cancelCh))
    /\ cancelCh' = Tail(cancelCh) /\ UNCHANGED cmdCh

-----------------------------------------------------------------------------
(* The notifier and the snapshot triggers *)

\* persistTrades logs the trade, if there is a log.
PersistTrade ==
    /\ notifier.pc = "idle" /\ notify # <<>>
    /\ \/ /\ GetsLog
          /\ Reserve(Notifier, Command("trade", Head(notify).no, Head(notify).order))
          /\ notifier' = [pc |-> "append", cmd |-> Head(notify)]
       \/ /\ GetsNoLog
          /\ notifier' = [pc |-> "check", cmd |-> Head(notify)]
    /\ notify' = Tail(notify)
    /\ UNCHANGED <<storeVars, actorVars, sinceSnapshot, boundVars, ghostVars, client,
                   snap>>

\* An error of Append is only reported.
NotifierAppends ==
    /\ notifier.pc = "append"
    /\ AppendStep(Notifier) \/ WriteFails(Notifier)
    /\ notifier' = IF appender'[Notifier].pc = "idle"
                   THEN [notifier EXCEPT !.pc = "check"] ELSE notifier
    /\ UNCHANGED <<storeVars, logVars, actorVars, notify, sinceSnapshot, boundVars,
                   ghostVars, client, snap>>

Free == {t \in Snapshots : snap[t].pc = "idle"}

\* Snapshots bounds how many run at a time: one too many is left out.
StartSnapshot ==
    IF Free = {} THEN UNCHANGED snap
    ELSE \E t \in Free : snap' = [snap EXCEPT ![t].pc = "lsn"]

\* checkAndTriggerSnapshot: enough trades, or enough time, start a snapshot
\* and reset the count.
CheckTrigger ==
    /\ notifier.pc = "check"
    /\ notifier' = NoResult
    /\ IF Snapshots = {}
       THEN UNCHANGED <<sinceSnapshot, snap>>
       ELSE \/ /\ sinceSnapshot + 1 < MaxTradesPerSnapshot
               /\ sinceSnapshot' = sinceSnapshot + 1 /\ UNCHANGED snap
            \/ sinceSnapshot' = 0 /\ StartSnapshot
    /\ UNCHANGED <<walVars, storeVars, logVars, actorVars, notify, boundVars, ghostVars,
                   client>>

\* checkAndTriggerTimeSnapshot: the interval is over and there were trades.
\* It leaves their count as it is.
MonitorTrigger ==
    /\ sinceSnapshot > 0
    /\ StartSnapshot
    /\ UNCHANGED <<walVars, storeVars, logVars, actorVars, notifierVars, boundVars,
                   ghostVars, client>>

-----------------------------------------------------------------------------
(* TakeSnapshot *)

SnapStep(t, from, to) == snap[t].pc = from /\ snap' = [snap EXCEPT ![t].pc = to]

EndsSnapshot(t) == snap' = [snap EXCEPT ![t] = NoSnapshot]

EndingLSN(t) == truncator[t].upTo

Others == UNCHANGED <<actorVars, notifierVars, boundVars, ghostVars, client>>

StoreOnly == UNCHANGED <<walVars, logVars>> /\ Others

\* The LSN of the log, or 0 if there is none: then nothing will be cut.
SnapCapture(t) ==
    /\ SnapStep(t, "lsn", "take")
    /\ (GetsLog /\ SnapshotLSN(t)) \/ GetsNoLog
    /\ UNCHANGED storeVars /\ Others

\* Variant: the error of Save is ignored, and what follows it runs.
SnapTakeUnsaved(t) ==
    /\ SnapStep(t, "take", "unlink")
    /\ UNCHANGED storeVars /\ StoreOnly

\* GetDepth(0): the best orders of each side, read beside the actor.
SnapTake(t) ==
    /\ snap[t].pc = "take"
    /\ snap' = [snap EXCEPT ![t] =
            [pc |-> "create", at |-> "none", covers |-> applied,
             book |-> SubSeq(book, 1,
                        IF Len(book) < SnapshotDepth THEN Len(book) ELSE SnapshotDepth)]]
    /\ UNCHANGED storeVars /\ StoreOnly

With(dir, n, file) == [m \in DOMAIN dir \cup {n} |-> IF m = n THEN file ELSE dir[m]]

Without(dir, n) == [m \in DOMAIN dir \ {n} |-> dir[m]]

Saved(t) == [whole |-> TRUE, book |-> snap[t].book, covers |-> snap[t].covers]

\* The files that the others are writing under this name, temporary or final,
\* have another place.
Moved(t, to) ==
    [u \in Snapshots |->
        IF EndingLSN(u) = EndingLSN(t) THEN [snap[u] EXCEPT !.at = to[@]] ELSE snap[u]]

\* Save: os.Create makes the temporary file, or empties the one that another
\* snapshot with the same LSN has made.
SnapCreate(t) ==
    /\ snap[t].pc = "create"
    /\ snap' = [snap EXCEPT ![t].pc = "write", ![t].at = "temp"]
    /\ temps' = With(temps, EndingLSN(t), NoFile)
    /\ shared' = shared \cup (DOMAIN temps \cap {EndingLSN(t)})
    /\ UNCHANGED <<files, latest>> /\ StoreOnly

\* Those who have the same file open.
Beside(t) ==
    {u \in Snapshots \ {t} : EndingLSN(u) = EndingLSN(t) /\ snap[u].at = snap[t].at}

\* What a write of t gets into its file, wherever that is by now.
Puts(t, file) ==
    /\ temps' = IF snap[t].at = "temp" THEN With(temps, EndingLSN(t), file) ELSE temps
    /\ files' = IF snap[t].at = "final" THEN With(files, EndingLSN(t), file) ELSE files

\* Save: two that write to one file may spoil it.
SnapWrite(t) ==
    /\ snap[t].pc = "write"
    /\ snap' = [snap EXCEPT ![t].pc = "rename", ![t].at = "none"]
    /\ \E file \in {Saved(t)} \cup {NoFile : u \in Beside(t)} : Puts(t, file)
    /\ UNCHANGED <<latest, shared>> /\ StoreOnly

\* Save: the temporary file gets its final name, whoever has written it.
SnapRename(t) ==
    /\ snap[t].pc = "rename" /\ EndingLSN(t) \in DOMAIN temps
    /\ files' = With(files, EndingLSN(t), temps[EndingLSN(t)])
    /\ temps' = Without(temps, EndingLSN(t))
    /\ snap' = [Moved(t, [none |-> "none", temp |-> "final", final |-> "gone", gone |-> "gone"])
                    EXCEPT ![t].pc = "unlink"]
    /\ UNCHANGED <<latest, shared>> /\ StoreOnly

\* Save returns an error: of the disk, or since another snapshot has renamed
\* the temporary file.  It removes what has that name, and TakeSnapshot ends.
SnapSaveFails(t) ==
    /\ snap[t].pc \in {"create", "write", "rename"}
    /\ DiskMayFail \/ (snap[t].pc = "rename" /\ EndingLSN(t) \notin DOMAIN temps)
    /\ IF snap[t].pc = "create"
       THEN UNCHANGED <<temps, files>> /\ EndsSnapshot(t)
       ELSE /\ temps' = Without(temps, EndingLSN(t))
            /\ files' = IF snap[t].at = "final" THEN With(files, EndingLSN(t), NoFile)
                        ELSE files
            /\ snap' = [Moved(t, [none |-> "none", temp |-> "gone", final |-> "final",
                                  gone |-> "gone"]) EXCEPT ![t] = NoSnapshot]
    /\ truncator' = [truncator EXCEPT ![t] = NoTruncation]
    /\ UNCHANGED <<lsn, log, synced, pending, broken, appender, logVars, latest, shared>>
    /\ Others

\* The link is taken away and made again, which fails if another snapshot was
\* quicker; an error of either is only reported.
SnapUnlink(t) ==
    /\ SnapStep(t, "unlink", "link")
    /\ latest' = {} \/ (DiskMayFail /\ latest' = latest)
    /\ UNCHANGED <<temps, files, shared>> /\ StoreOnly

SnapLink(t) ==
    /\ SnapStep(t, "link", "cut")
    /\ \/ latest' = IF latest = {} THEN {EndingLSN(t)} ELSE latest
       \/ DiskMayFail /\ latest' = latest
    /\ UNCHANGED <<temps, files, shared>> /\ StoreOnly

SnapTruncate(t) ==
    /\ SnapStep(t, "cut", "rewrite")
    /\ Truncate(t)
    /\ UNCHANGED <<storeVars, logVars>> /\ Others

\* Without a log there is nothing to truncate.
SnapKeepsLog(t) ==
    /\ snap[t].pc = "cut"
    /\ EndsSnapshot(t)
    /\ TruncateRefused(t) \/ (truncator[t].pc = "idle" /\ UNCHANGED walVars)
    /\ UNCHANGED <<storeVars, logVars>> /\ Others

SnapRewrite(t) ==
    /\ snap[t].pc = "rewrite"
    /\ \/ FlushPart(t) /\ UNCHANGED snap
       \/ (Rewrite(t) \/ RewriteFails(t) \/ ReopenFails(t)) /\ EndsSnapshot(t)
    /\ UNCHANGED <<storeVars, logVars>> /\ Others

SnapRuns(t) ==
    \/ SnapCapture(t) \/ SnapTake(t)
    \/ SnapCreate(t) \/ SnapWrite(t) \/ SnapRename(t) \/ SnapSaveFails(t)
    \/ SnapUnlink(t) \/ SnapLink(t)
    \/ SnapTruncate(t) \/ SnapKeepsLog(t) \/ SnapRewrite(t)

-----------------------------------------------------------------------------
(* Crash and recovery *)

\* Memory is lost; the book is left to be read by nobody until Recover sets it.
\* A temporary file that stays is emptied by whoever creates it again.
Crash ==
    /\ up /\ crashes < MaxCrashes
    /\ WALCrash \/ PowerFails
    /\ up' = FALSE /\ crashes' = crashes + 1
    /\ actor' = FALSE /\ cmdCh' = <<>> /\ cancelCh' = <<>>
    /\ client' = [c \in Clients |-> NoCall]
    /\ notify' = <<>> /\ notifier' = NoResult /\ sinceSnapshot' = 0
    /\ snap' = [t \in Snapshots |-> NoSnapshot]
    /\ temps' = [n \in {} |-> NoFile] /\ opened' = FALSE
    /\ UNCHANGED <<files, latest, shared, created, book, applied, calls, ghostVars>>

\* What Load and Restore give: the book and the LSN of the latest snapshot, if
\* there is one that can be decoded.
Base ==
    LET good == {n \in latest : files[n].whole}
        n == CHOOSE n \in good : TRUE
    IN  IF good = {} THEN [lsn |-> 0, book |-> <<>>, covers |-> <<>>]
        ELSE [lsn |-> n, book |-> files[n].book, covers |-> files[n].covers]

CommandsOf(records) == [i \in DOMAIN records |-> records[i].entry]

\* Variant: cancel records are skipped like trade records.
ReplayedOrders(reading) ==
    CommandsOf(Kept(reading, {r \in Range(reading) :
        r.lsn > Base.lsn /\ r.entry # Torn /\ r.entry.op \notin {"trade", "cancel"}}))

\* Replay: the commands behind the snapshot's LSN, in the order they are read.
Replayed(reading) ==
    CommandsOf(Kept(reading, {r \in Range(reading) :
        r.lsn > Base.lsn /\ r.entry # Torn /\ r.entry.op # "trade"}))

RecoveredBook(reading) == Run(Base.book, Replayed(reading))

\* Recover finds the symbol under its own name: the files have "_" in place of
\* "/" and ":", the log's is read as "/", the link's as it is and as "/".
Named ==
    \/ created /\ Separator \notin {"_", ":"}
    \/ latest # {} /\ Separator # ":"

\* A log that cannot be opened is only reported.
Recover ==
    /\ ~up /\ up' = TRUE
    /\ Reopen
    /\ actor' = Named
    /\ \E opens \in IF DiskMayFail THEN BOOLEAN ELSE {TRUE} :
       \E reading \in IF opens THEN Readings(log) ELSE {<<>>} :
        /\ created' = (created \/ (Named /\ opens))
        /\ book' = IF Named THEN RecoveredBook(reading) ELSE <<>>
        /\ applied' = IF Named THEN Base.covers \o Replayed(reading) ELSE <<>>
        /\ readable' = (opens /\ reading = log
                            /\ (Named \/ (~created /\ latest = {})))
        /\ disordered' = ~readable'
    /\ UNCHANGED <<storeVars, opened, cmdCh, cancelCh, notifierVars, calls, crashes,
                   client, snap, answered, unlogged>>

-----------------------------------------------------------------------------
ClientRuns(c) ==
    ClientAppends(c) \/ ClientAppendFails(c) \/ Send(c) \/ Answer(c)

ActorRuns == HandleCommand \/ HandleCancel

NotifierRuns == PersistTrade \/ NotifierAppends \/ CheckTrigger

Next ==
    \/ \E c \in Clients :
        \/ \E op \in {"rest", "take"} : SubmitOrder(c, op)
        \/ \E order \in 1..calls : CancelOrder(c, order)
        \/ ClientRuns(c) \/ GiveUp(c)
    \/ ActorRuns \/ NotifierRuns \/ MonitorTrigger
    \/ \E t \in Snapshots : SnapRuns(t)
    \/ Crash \/ Recover

Spec == Init /\ [][Next]_vars

\* Go schedules every goroutine that can run; its mutex and its channels
\* serve those that wait for them in turn, hence strong fairness where a step
\* waits for one.
FairSpec ==
    /\ Spec
    /\ \A c \in Clients : SF_vars(ClientRuns(c))
    /\ WF_vars(ActorRuns)
    /\ SF_vars(NotifierRuns)
    /\ \A t \in Snapshots : SF_vars(SnapRuns(t))

-----------------------------------------------------------------------------
(* What the engine must guarantee *)

\* Every variable holds a value of its kind, and a caller waits in the log
\* exactly while its Append is under way.
TypeOK ==
    /\ lsn \in Nat /\ pending \in Nat /\ synced \in 0..Len(log)
    /\ \A i \in DOMAIN log :
            log[i].lsn \in Nat /\ log[i].entry \in CommandSet \cup {Torn}
    /\ \A c \in Clients :
        /\ client[c].pc \in {"idle", "append", "send", "wait", "reply"}
        /\ client[c].pc = "append" <=> appender[c].pc # "idle"
        /\ client[c].pc # "idle" => client[c].cmd \in CommandSet
    /\ \A t \in Snapshots :
        snap[t].pc = "rewrite" <=> truncator[t].pc = "rewrite"
    /\ Len(cmdCh) <= QueueCap /\ Len(cancelCh) <= QueueCap
    /\ latest \subseteq Nat /\ Cardinality(latest) <= 1
    /\ answered \subseteq CommandSet /\ unlogged \subseteq CommandSet

\* The part of the log that any crash leaves.
Durable == IF PowerLoss THEN SubSeq(log, 1, synced) ELSE log

\* The commands that a recovery from this log executes.
Recovered(reading) ==
    IF Named THEN Range(Base.covers) \cup Range(Replayed(reading)) ELSE {}

\* "zero data loss", for what did get into a log: a crash at this moment would
\* lose no such command whose caller has been answered; the latest snapshot
\* covers it or the log replays it.  A log that is longer than the buffer of
\* its reader, and a symbol that Recover takes for another, are excepted.
AnsweredIsDurable ==
    Clean(Durable) = Durable /\ Separator \in {"/", "none"}
        => \A reading \in Readings(Durable) :
                answered \ unlogged \subseteq Recovered(reading)

\* No call is under way.
Quiet ==
    /\ up
    /\ AllIdle
    /\ cmdCh = <<>> /\ cancelCh = <<>>

\* "the order book SHALL be in exactly the same state": should the process die
\* between calls, recovery would rebuild the very book that was in memory.
RecoveryExact == Quiet => RecoveredBook(log) = book

\* It does if calls have come one at a time since the last recovery, each of
\* them logged and none given up, if that recovery could read everything, and
\* there is neither a snapshot nor a log that the reader's buffer cuts.
SerialRecovery ==
    Quiet /\ ~disordered /\ DOMAIN files = {} /\ Clean(log) = log
        => \A reading \in Readings(log) : RecoveredBook(reading) = book

\* The snapshot of this LSN can be loaded, unless two wrote its file at once.
OnDisk(n) == n \in DOMAIN files /\ (files[n].whole \/ n \in shared)

\* Recovery never starts from, and the log is never cut for, a snapshot that
\* is not on disk as a whole, unless another had the same temporary file.
SnapshotBeforeUse ==
    /\ \A n \in latest : OnDisk(n)
    /\ \A t \in Snapshots :
        truncator[t].pc = "rewrite" => OnDisk(EndingLSN(t))

\* Every call returns to its caller: no wait for the log's mutex, a channel, the
\* actor or the notifier lasts for ever.
CallsReturn ==
    \A c \in Clients : client[c].pc # "idle" ~> client[c].pc = "idle"

-----------------------------------------------------------------------------
Promise == INSTANCE DurableMatching
           WITH Commands <- CommandSet, running <- up, history <- applied,
                answered <- answered \ unlogged

\* The engine keeps the promise of DurableMatching for the commands that did
\* get into a log: callers, channels, crashes and replays amount to some serial
\* execution, and a recovery that can read everything forgets nothing answered.
ImplementsDurableMatching == Promise!Spec
=============================================================================
