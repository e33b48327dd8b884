------------------------------- MODULE WalReplay -------------------------------
(***************************************************************************)
(* How Replay of internal/matching/wal/wal.go reads the file's bytes: a    *)
(* header and a payload for each record, each with one Read of a buffered  *)
(* reader, whose count is not looked at. Truncate reads in the same way.   *)
(*                                                                         *)
(* The records have the LSNs 1, 2, ... and are written whole. A Read       *)
(* returns what is buffered, if anything is, though it was asked for more; *)
(* the rest of the header or the payload is zeros, and the next Read goes  *)
(* on in the middle. What such bytes say as a header, and whether they     *)
(* decode, depends on the data and is left open. A length of up to four    *)
(* gigabytes, for which the allocation itself may fail, is left out.       *)
(***************************************************************************)
EXTENDS Integers, Sequences, SequencesExt

CONSTANTS
    HeaderSize,     \* bytes of a header: 13
    BufferSize,     \* bytes of bufio's buffer: 4096
    PayloadSizes,   \* bytes a payload may have
    Misread,        \* what bytes that are no header may say as a length
    MaxRecords      \* bound: records of the file

VARIABLES
    file,           \* the size of each record's payload
    fromLSN,        \* where the replay is to begin, exclusive
    pos,            \* bytes the loop has consumed
    filled,         \* bytes the reader has read from the file
    pc,             \* "header", "skip", "payload" or "done"
    record,         \* the record whose header was read, or Garbled
    payloadLen,     \* the length it was read to have
    given           \* what the handler has been called with

vars == <<file, fromLSN, pos, filled, pc, record, payloadLen, given>>

Garbled == 0

\* Where record i begins in the file.
Offset(i) == FoldLeft(LAMBDA sum, size : sum + HeaderSize + size, 0, SubSeq(file, 1, i - 1))
Size == Offset(Len(file) + 1)

Init ==
    /\ \E n \in 0..MaxRecords : file \in [1..n -> PayloadSizes]
    /\ fromLSN \in 0..Len(file)
    /\ pos = 0 /\ filled = 0 /\ pc = "header"
    /\ record = Garbled /\ payloadLen = 0 /\ given = <<>>

-----------------------------------------------------------------------------
(* bufio.Reader.Read *)

Lesser(a, b) == IF a <= b THEN a ELSE b

\* The bytes that Read returns when it is asked for n.
Returned(n) == Lesser(n, IF pos < filled THEN filled - pos ELSE Size - pos)

\* An empty buffer is filled once; a request as long as it goes past it.
Read(n) ==
    /\ pos' = pos + Returned(n)
    /\ filled' = IF pos < filled THEN filled
                 ELSE IF n >= BufferSize THEN pos'
                 ELSE Lesser(pos + BufferSize, Size)

-----------------------------------------------------------------------------
(* The loop *)

EndOfFile ==
    /\ pc \in {"header", "payload"} /\ pos = Size
    /\ pc' = "done"
    /\ UNCHANGED <<file, fromLSN, pos, filled, record, payloadLen, given>>

\* A record's own header, whole; one at or below fromLSN is skipped.
ReadHeader(i) ==
    /\ pc = "header" /\ pos < Size
    /\ pos = Offset(i) /\ Returned(HeaderSize) = HeaderSize
    /\ Read(HeaderSize)
    /\ record' = i /\ payloadLen' = file[i]
    /\ pc' = IF i <= fromLSN THEN "skip" ELSE "payload"
    /\ UNCHANGED <<file, fromLSN, given>>

\* Anything else is taken for a header all the same.
MisreadHeader ==
    /\ pc = "header" /\ pos < Size
    /\ \A i \in DOMAIN file : pos # Offset(i) \/ Returned(HeaderSize) < HeaderSize
    /\ Read(HeaderSize)
    /\ record' = Garbled /\ payloadLen' \in Misread
    /\ pc' \in {"skip", "payload"}
    /\ UNCHANGED <<file, fromLSN, given>>

Skip ==
    /\ pc = "skip" /\ pc' = "header"
    /\ Read(payloadLen)
    /\ UNCHANGED <<file, fromLSN, record, payloadLen, given>>

\* The payload is decoded and handled; one that is cut off is skipped, or
\* decodes to something else.
ReadPayload ==
    /\ pc = "payload" /\ pos < Size /\ pc' = "header"
    /\ Read(payloadLen)
    /\ IF record # Garbled /\ Returned(payloadLen) = payloadLen
       THEN given' = Append(given, record)
       ELSE given' \in {given, Append(given, Garbled)}
    /\ UNCHANGED <<file, fromLSN, record, payloadLen>>

Next ==
    \/ \E i \in DOMAIN file : ReadHeader(i)
    \/ MisreadHeader \/ Skip \/ ReadPayload \/ EndOfFile

Spec == Init /\ [][Next]_vars

-----------------------------------------------------------------------------

\* "Replay reads WAL entries from fromLSN (exclusive) to the end, calling
\* handler for each": all of them, in order, and nothing else (wal.go, Replay).
ReplayReadsAll ==
    pc = "done" => given = [i \in 1..(Len(file) - fromLSN) |-> fromLSN + i]
=============================================================================
