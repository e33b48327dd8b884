-------------------------- MODULE WriteAheadLogAlone --------------------------
(***************************************************************************)
(* The write-ahead log under any callers: appenders log numbered entries,  *)
(* truncators cut it at an LSN they captured earlier, the process and the  *)
(* machine crash at any moment and come back.                              *)
(***************************************************************************)
EXTENDS WriteAheadLog, FiniteSets

CONSTANTS
    MaxAppends,     \* bound: Append calls in a behaviour
    MaxCrashes      \* bound: crashes in a behaviour

AloneAssumption ==
    /\ MaxAppends \in Nat /\ MaxCrashes \in Nat
    /\ Entries = 1..MaxAppends
    /\ BufferRecords \in Nat /\ ScrapLSNs \subseteq Nat

VARIABLES
    up,             \* the process runs
    appends,        \* Append calls so far
    crashes,        \* crashes so far
    failures        \* ghost: fsyncs that failed so far, and records that a
                    \* write or a rewriting cut short has left

vars == <<walVars, up, appends, crashes, failures>>

Init ==
    /\ WALInit
    /\ up = TRUE /\ appends = 0 /\ crashes = 0 /\ failures = 0

AppendCalled(a) ==
    /\ up /\ appends < MaxAppends
    /\ Reserve(a, appends + 1)
    /\ appends' = appends + 1
    /\ UNCHANGED <<up, crashes, failures>>

AppendRuns(a) ==
    /\ \/ /\ AppendStep(a)
          /\ failures' = IF appender[a].pc = "sync" /\ synced' < Len(log)
                         THEN failures + 1 ELSE failures
       \/ /\ WriteFails(a)
          /\ failures' = failures + Len(log') - Len(log)
    /\ UNCHANGED <<up, appends, crashes>>

TruncatorRuns(t) ==
    /\ up
    /\ \/ /\ \/ SnapshotLSN(t) \/ Truncate(t) \/ TruncateRefused(t)
             \/ FlushPart(t) \/ Rewrite(t) \/ ReopenFails(t)
          /\ UNCHANGED failures
       \/ RewriteFails(t) /\ failures' = failures + Len(log)
    /\ UNCHANGED <<up, appends, crashes>>

Rewriting == \E t \in Truncators : truncator[t].pc = "rewrite"

Crash ==
    /\ up /\ crashes < MaxCrashes
    /\ WALCrash \/ PowerFails
    /\ failures' = IF Rewriting THEN failures + Len(log') - synced' ELSE failures
    /\ up' = FALSE /\ crashes' = crashes + 1
    /\ UNCHANGED appends

Restart ==
    /\ ~up
    /\ Reopen
    /\ up' = TRUE
    /\ UNCHANGED <<appends, crashes, failures>>

Next ==
    \/ \E a \in Appenders : AppendCalled(a) \/ AppendRuns(a)
    \/ \E t \in Truncators : TruncatorRuns(t)
    \/ Crash \/ Restart

Spec == Init /\ [][Next]_vars

-----------------------------------------------------------------------------
(* What the log must guarantee *)

Record == [lsn : Nat, entry : Entries \cup {Torn}]

\* Every variable holds a value of its kind, no more is synced than written,
\* and the mutex has one holder.
TypeOK ==
    /\ lsn \in Nat
    /\ log \in Seq(Record)
    /\ synced \in 0..Len(log)
    /\ pending \in Nat
    /\ appender \in [Appenders -> [pc : {"idle", "write", "sync"}, lsn : Nat,
                                   entry : Entries \cup {NoEntry}]]
    /\ truncator \in [Truncators -> [pc : {"idle", "captured", "rewrite"},
                                     upTo : Nat, kept : Seq(Record)]]
    /\ Cardinality({a \in Appenders : appender[a].pc = "sync"})
        + Cardinality({t \in Truncators : truncator[t].pc = "rewrite"}) <= 1
    /\ up \in BOOLEAN /\ appends \in Nat /\ crashes \in Nat
    /\ failures \in Nat

\* "bycount" bounds what a power failure costs: less than one batch, a batch
\* more for each time the process died and forgot how much was pending, a record
\* more for each fsync that failed, since the next append tries again, and what
\* a truncation that failed or died had written back.
LossIsBounded ==
    Unlocked => Len(log) - synced < (crashes + 1) * SyncEvery + failures

\* What the log has promised to keep: the synced records of the file, and
\* those in the memory of the truncator that is writing the file back.
Held ==
    {log[i] : i \in 1..synced}
        \cup UNION {Range(truncator[t].kept) : t \in Truncators}

Emptying(t) == truncator[t].pc = "captured" /\ truncator'[t].pc = "rewrite"

CutAway(record) == \E t \in Truncators : Emptying(t) /\ record.lsn <= truncator[t].upTo

\* A truncator that did not read it: beyond its buffer, or behind a torn record.
Overlooked(record) == record \notin Range(Clean(log)) /\ \E t \in Truncators : Emptying(t)

\* A truncator that emptied the file and does not get to write it back, for an
\* error of the disk or since the process dies.
Interrupted == \E t \in Truncators : truncator[t].pc = "rewrite" /\ (~up' \/ RewriteFails(t))

\* As long as the log fits a reader's buffer and nothing fails, truncation takes
\* what it was told to and nothing else, whatever is appended or truncated
\* meanwhile: a record leaves only if its LSN is not above the cut, if it lies
\* where the buffered reader does not find it, or with a rewriting cut short.
TruncationKeepsNewer ==
    [][\A record \in Held :
            \/ record \in Held'
            \/ CutAway(record) \/ Overlooked(record) \/ Interrupted]_vars
=============================================================================
