---------------------------- MODULE WriteAheadLog ----------------------------
(***************************************************************************)
(* One symbol's write-ahead log, internal/matching/wal/wal.go.             *)
(*                                                                         *)
(* Append takes its LSN from an atomic counter before it takes the lock    *)
(* that orders the records, and returns after an fsync only if the sync    *)
(* mode asks for one.  Truncate rewrites the file in place, under the      *)
(* lock, and stores the LSN of the last record it kept in the counter.     *)
(* The file outlives the process; what was not fsynced need not outlive a  *)
(* power failure.                                                          *)
(*                                                                         *)
(* Data abstractions.  A record is its LSN and its entry; framing and      *)
(* encoding are left out, but for a record that was cut short, which is    *)
(* Torn.  NewWAL reads the whole file and stops at it.  Truncate and       *)
(* Replay read through a buffer and take what one Read returns for a       *)
(* header or a payload: they are exact up to the first record that is cut  *)
(* short or that the buffer holds only a part of, and may make anything    *)
(* out of the rest.  A record is a unit of the buffer's size.              *)
(***************************************************************************)
EXTENDS Subsequence, Functions

CONSTANTS
    Appenders,      \* goroutines that append: one call each at a time
    Truncators,     \* goroutines that truncate: TakeSnapshot
    Entries,        \* what is logged
    Torn,           \* stands for an entry that cannot be decoded
    NoEntry,        \* no entry
    SyncMode,       \* "none", "always", "bycount" or "byduration"
    SyncEvery,      \* threshold of "bycount"
    SyncMayFail,    \* TRUE: an fsync may report an error
    DiskMayFail,    \* TRUE: so may any other operation on files
    PowerLoss,      \* TRUE: a crash may lose what was not fsynced
    TornWrites,     \* TRUE: a write cut short may leave part of a record
    BufferRecords,  \* records that a reader's buffer holds: 4096 bytes
    ScrapLSNs       \* what a misread header may give as an LSN

ASSUME SyncAssumption ==
    /\ SyncMode \in {"none", "always", "bycount", "byduration"}
    /\ SyncEvery \in Nat
ASSUME FailureAssumption ==
    /\ SyncMayFail \in BOOLEAN /\ DiskMayFail \in BOOLEAN
    /\ PowerLoss \in BOOLEAN /\ TornWrites \in BOOLEAN
ASSUME BufferAssumption == BufferRecords \in Nat /\ ScrapLSNs \subseteq Nat
ASSUME EntryAssumption == Torn \notin Entries /\ NoEntry \notin Entries

VARIABLES
    lsn,            \* w.lsn, the atomic counter
    log,            \* the records of the file
    synced,         \* how many of them are on disk for good
    pending,        \* w.pendingSyncs
    broken,         \* w.writer has failed, or w.file is closed
    appender,       \* the Append each appender is in
    truncator       \* the truncation each truncator is in

walVars == <<lsn, log, synced, pending, broken, appender, truncator>>

NoAppend == [pc |-> "idle", lsn |-> 0, entry |-> NoEntry]
NoTruncation == [pc |-> "idle", upTo |-> 0, kept |-> <<>>]

-----------------------------------------------------------------------------
(* The file and the mutex *)

\* The records before the first that was cut short.
Readable(file) ==
    LET torn == {i \in DOMAIN file : file[i].entry = Torn}
    IN  IF torn = {} THEN file
        ELSE SubSeq(file, 1, (CHOOSE i \in torn : \A j \in torn : i <= j) - 1)

LastOf(file) == IF file = <<>> THEN 0 ELSE file[Len(file)].lsn

\* readLastLSN: the last complete record, or something behind a torn one.
LastLSNs(file) ==
    {LastOf(Readable(file))} \cup {file[i].lsn : i \in (Len(Readable(file)) + 1)..Len(file)}

\* The records that a buffered reader is sure to get right.
Clean(file) ==
    LET r == Readable(file)
    IN  SubSeq(r, 1, IF Len(r) < BufferRecords THEN Len(r) ELSE BufferRecords)

\* The next record may be found as it is, or as something else.
Misread(rest) ==
    {<<[lsn |-> n, entry |-> Torn]>> \o Tail(rest) : n \in ScrapLSNs \cup {rest[1].lsn}}

\* What Replay and Truncate may read.
Readings(file) ==
    LET rest == SubSeq(file, Len(Clean(file)) + 1, Len(file))
    IN  IF rest = <<>> THEN {file}
        ELSE {Clean(file) \o found : found \in
                UNION {{Kept(r, S) : S \in SUBSET Range(r)} : r \in {rest} \cup Misread(rest)}}

\* What a write of the records behind the first n may get onto the disk.
Beginnings(file, n) ==
    LET whole == {SubSeq(file, 1, m) : m \in n..Len(file)}
        cut == {Append(SubSeq(file, 1, m), [lsn |-> file[m + 1].lsn, entry |-> Torn]) :
                    m \in n..(Len(file) - 1)}
    IN  IF TornWrites THEN whole \cup cut ELSE whole

\* w.mu is free: no Append is between write and return, no file half written.
Unlocked ==
    /\ \A a \in Appenders : appender[a].pc # "sync"
    /\ \A t \in Truncators : truncator[t].pc # "rewrite"

-----------------------------------------------------------------------------
WALInit ==
    /\ lsn = 0 /\ log = <<>> /\ synced = 0 /\ pending = 0 /\ broken = FALSE
    /\ appender = [a \in Appenders |-> NoAppend]
    /\ truncator = [t \in Truncators |-> NoTruncation]

\* Append: w.lsn.Add(1), and no lock yet.
Reserve(a, entry) ==
    /\ appender[a].pc = "idle"
    /\ lsn' = lsn + 1
    /\ appender' =
        [appender EXCEPT ![a] = [pc |-> "write", lsn |-> lsn + 1, entry |-> entry]]
    /\ UNCHANGED <<log, synced, pending, broken, truncator>>

\* Variant: "bycount" waits for one entry more.
ShouldSyncLate(n) ==
    IF SyncMode = "byduration" THEN BOOLEAN
    ELSE {SyncMode = "always" \/ (SyncMode = "bycount" /\ n > SyncEvery)}

\* Variant: a mode without a case of its own.
ShouldSyncNotAlways(n) ==
    IF SyncMode = "byduration" THEN BOOLEAN
    ELSE {SyncMode = "bycount" /\ n >= SyncEvery}

\* shouldSync with n entries pending; "byduration" asks the clock.
ShouldSync(n) ==
    IF SyncMode = "byduration" THEN BOOLEAN
    ELSE {SyncMode = "always" \/ (SyncMode = "bycount" /\ n >= SyncEvery)}

NewRecord(a) == [lsn |-> appender[a].lsn, entry |-> appender[a].entry]

\* Append: the record is written and flushed to the page cache.
Write(a) ==
    /\ appender[a].pc = "write" /\ Unlocked /\ ~broken
    /\ log' = Append(log, NewRecord(a))
    /\ pending' = pending + 1
    /\ \E sync \in ShouldSync(pending + 1) :
        appender' = [appender EXCEPT ![a] =
            IF sync THEN [@ EXCEPT !.pc = "sync"] ELSE NoAppend]
    /\ UNCHANGED <<lsn, synced, broken, truncator>>

\* Append: the write or the flush fails, and with it every later one, since a
\* bufio.Writer keeps its error.
WriteFails(a) ==
    /\ appender[a].pc = "write" /\ Unlocked
    /\ broken \/ DiskMayFail
    /\ log' \in IF broken THEN {log}
               ELSE Beginnings(Append(log, NewRecord(a)), Len(log)) \ {Append(log, NewRecord(a))}
    /\ broken' = TRUE
    /\ appender' = [appender EXCEPT ![a] = NoAppend]
    /\ UNCHANGED <<lsn, synced, pending, truncator>>

\* Append: the fsync, whose failure is logged and otherwise ignored.
Sync(a) ==
    /\ appender[a].pc = "sync"
    /\ \/ synced' = Len(log) /\ pending' = 0
       \/ SyncMayFail /\ UNCHANGED <<synced, pending>>
    /\ appender' = [appender EXCEPT ![a] = NoAppend]
    /\ UNCHANGED <<lsn, log, broken, truncator>>

AppendStep(a) == Write(a) \/ Sync(a)

-----------------------------------------------------------------------------
SnapshotLSN(t) ==
    /\ truncator[t].pc = "idle" /\ Unlocked
    /\ truncator' = [truncator EXCEPT ![t].pc = "captured", ![t].upTo = lsn]
    /\ UNCHANGED <<lsn, log, synced, pending, broken, appender>>

\* Variant: off by one.
NewerThanNext(file, upTo) ==
    Kept(file, {record \in Range(file) : record.lsn > upTo + 1})

NewerThan(file, upTo) ==
    Kept(file, {record \in Range(file) : record.lsn > upTo})

\* Truncate: read what is to be kept, then os.Create empties the file.
Truncate(t) ==
    /\ truncator[t].pc = "captured" /\ Unlocked
    /\ \E reading \in Readings(log) :
        truncator' = [truncator EXCEPT
            ![t].pc = "rewrite", ![t].kept = NewerThan(reading, truncator[t].upTo)]
    /\ log' = <<>> /\ synced' = 0
    /\ UNCHANGED <<lsn, pending, broken, appender>>

\* Truncate: the buffer is flushed as it fills up.
FlushPart(t) ==
    /\ truncator[t].pc = "rewrite" /\ log = <<>>
    /\ log' \in Beginnings(truncator[t].kept, 0)
    /\ UNCHANGED <<lsn, synced, pending, broken, appender, truncator>>

\* Truncate: all is written back and fsynced, the file opened again, and the
\* counter set to the LSN of the last record kept.
Rewrite(t) ==
    /\ truncator[t].pc = "rewrite"
    /\ log' = truncator[t].kept
    /\ synced' = Len(log')
    /\ lsn' = LastOf(log')
    /\ broken' = FALSE
    /\ truncator' = [truncator EXCEPT ![t] = NoTruncation]
    /\ UNCHANGED <<pending, appender>>

\* Truncate returns an error: before it empties the file,
TruncateRefused(t) ==
    /\ DiskMayFail
    /\ truncator[t].pc = "captured" /\ Unlocked
    /\ truncator' = [truncator EXCEPT ![t] = NoTruncation]
    /\ UNCHANGED <<lsn, log, synced, pending, broken, appender>>

\* or with what was written until then, at a write or the fsync, and Append
\* goes on behind it through the old handle,
RewriteFails(t) ==
    /\ DiskMayFail
    /\ truncator[t].pc = "rewrite"
    /\ truncator' = [truncator EXCEPT ![t] = NoTruncation]
    /\ UNCHANGED <<lsn, log, synced, pending, broken, appender>>

\* or with the old handle closed and no new one.
ReopenFails(t) ==
    /\ DiskMayFail
    /\ truncator[t].pc = "rewrite"
    /\ log' = truncator[t].kept
    /\ synced' = Len(log')
    /\ broken' = TRUE
    /\ truncator' = [truncator EXCEPT ![t] = NoTruncation]
    /\ UNCHANGED <<lsn, pending, appender>>

-----------------------------------------------------------------------------
(* Crash and reopening *)

\* The process dies: its calls with it, the file stays as it is.
WALCrash ==
    /\ appender' = [a \in Appenders |-> NoAppend]
    /\ truncator' = [t \in Truncators |-> NoTruncation]
    /\ UNCHANGED <<lsn, log, synced, pending, broken>>

\* What a power failure may leave holds what was fsynced.
PowerFails ==
    /\ PowerLoss
    /\ log' \in Beginnings(log, synced)
    /\ synced' = Len(log')
    /\ appender' = [a \in Appenders |-> NoAppend]
    /\ truncator' = [t \in Truncators |-> NoTruncation]
    /\ UNCHANGED <<lsn, pending, broken>>

\* Variant: the file is opened but not read.
ReopenUnread ==
    /\ lsn' = 0 /\ pending' = 0 /\ broken' = FALSE
    /\ UNCHANGED <<log, synced, appender, truncator>>

\* NewWAL: the counter starts from the last complete record, or from 0 if the
\* file cannot be read.
Reopen ==
    /\ lsn' \in LastLSNs(log) \/ (DiskMayFail /\ lsn' = 0)
    /\ pending' = 0 /\ broken' = FALSE
    /\ UNCHANGED <<log, synced, appender, truncator>>
=============================================================================
