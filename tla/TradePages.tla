------------------------------ MODULE TradePages ------------------------------
(***************************************************************************)
(* The trade history: each result's trades are stored by a goroutine of    *)
(* its own (persistTrades, engine.go; CreateBatch, trade_repository.go),   *)
(* and a client reads them page by page (GetTrades, matching_server.go),   *)
(* newest first, with an offset in its cursor.                             *)
(*                                                                         *)
(* rows are the trades that match what the client asks for. A batch is     *)
(* stored whole or not at all; created_at is taken when the statement is   *)
(* made, before it is stored. Rows of one created_at come in any order,    *)
(* another one for each query. A page whose query fails is asked for       *)
(* again. GetTrades without a filter does not read pages and is left out.  *)
(***************************************************************************)
EXTENDS Integers, FiniteSets, Sequences, SequencesExt

CONSTANTS
    Results,        \* the results: the set of the trades of each
    Limit,          \* trades in a page
    MaxTime         \* bound: the clock

\* The rows there may be.
Rows == [trade : UNION Results, at : 0..MaxTime]

VARIABLES
    now,            \* the clock, in units of created_at
    writer,         \* each result's goroutine: "idle", "inserting" or "ended"
    stamp,          \* the created_at it has taken
    rows,           \* the table
    reader,         \* the client: "idle", "reading" or "done"
    offset,         \* what its cursor says
    wanted,         \* ghost: the rows there when it began
    seen            \* ghost: the rows it has received

vars == <<now, writer, stamp, rows, reader, offset, wanted, seen>>

Init ==
    /\ now = 0 /\ rows = {}
    /\ writer = [r \in Results |-> "idle"] /\ stamp = [r \in Results |-> 0]
    /\ reader = "idle" /\ offset = 0 /\ wanted = {} /\ seen = {}

-----------------------------------------------------------------------------
(* The cursor: an offset as bytes, as digits of base 64 and pads *)

Pad == 64

Shift(v, n) == IF n < 0 THEN v * 2^(-n) ELSE v \div 2^n

\* Bytes, most significant first; zero is no byte at all.
BytesOf[n \in Nat] == IF n = 0 THEN <<>> ELSE Append(BytesOf[n \div 256], n % 256)

Digits(data, base) == FoldLeft(LAMBDA v, d : v * base + d, 0, data)

\* Groups of n elements, the last one shorter.
Grouped(s, n) ==
    [i \in 1..((Len(s) + n - 1) \div n) |->
        SubSeq(s, n * (i - 1) + 1, IF n * i < Len(s) THEN n * i ELSE Len(s))]

\* Every group of three is padded as the last one needs it, the full ones too.
EncodeBase64(data) ==
    LET padding == (3 - (Len(data) % 3)) % 3
        Group(bytes) == [j \in 1..4 |->
            IF j > 4 - padding THEN Pad
            ELSE Shift(Digits(bytes, 256), 24 - 6 * j - 8 * padding) % 64]
        groups == Grouped(data, 3)
    IN  FlattenSeq([i \in DOMAIN groups |-> Group(groups[i])])

\* The pads of all the groups so far shift a group.
DecodeBase64(s) ==
    LET Pads(t) == Len(SelectSeq(t, LAMBDA c : c = Pad))
        groups == Grouped(s, 4)
        Bytes(i) ==
            LET val == Digits(SelectSeq(groups[i], LAMBDA c : c # Pad), 64)
                up == 6 * Pads(SubSeq(s, 1, 4 * i))
            IN  [j \in 1..3 |-> Shift(val, 24 - 8 * j - up) % 256]
        bytes == FlattenSeq([i \in DOMAIN groups |-> Bytes(i)])
    IN  SubSeq(bytes, 1, Len(bytes) - Pads(s))

EncodeCursor(n) == EncodeBase64(BytesOf[n])
ParseCursor(cursor) == Digits(DecodeBase64(cursor), 256)

\* The offsets there may be survive the way to the client and back.
PageAssumption ==
    /\ IsFiniteSet(Results) /\ \A r \in Results : IsFiniteSet(r)
    /\ Limit \in Nat \ {0} /\ MaxTime \in Nat
    /\ \A n \in 0..Cardinality(Rows) : ParseCursor(EncodeCursor(n)) = n

-----------------------------------------------------------------------------
(* The writers *)

Tick ==
    /\ now < MaxTime /\ now' = now + 1
    /\ UNCHANGED <<writer, stamp, rows, reader, offset, wanted, seen>>

CreateBatch(r) ==
    /\ writer[r] = "idle"
    /\ writer' = [writer EXCEPT ![r] = "inserting"]
    /\ stamp' = [stamp EXCEPT ![r] = now]
    /\ UNCHANGED <<now, rows, reader, offset, wanted, seen>>

Ended(r) ==
    /\ writer[r] = "inserting"
    /\ writer' = [writer EXCEPT ![r] = "ended"]
    /\ UNCHANGED <<now, stamp, reader, offset, wanted, seen>>

Stored(r) ==
    /\ Ended(r)
    /\ rows' = rows \cup {[trade |-> t, at |-> stamp[r]] : t \in r}

\* The error is logged, and nobody tries again.
NotStored(r) == Ended(r) /\ UNCHANGED rows

-----------------------------------------------------------------------------
(* The client *)

Begin ==
    /\ reader = "idle" /\ reader' = "reading"
    /\ wanted' = rows
    /\ UNCHANGED <<now, writer, stamp, rows, offset, seen>>

Newer(newer, older) == \A x \in newer, y \in older : x.at >= y.at

\* ORDER BY created_at DESC LIMIT Limit OFFSET offset.
IsPage(skipped, page) ==
    LET rest == (rows \ skipped) \ page
    IN  /\ skipped \cap page = {}
        /\ Cardinality(skipped) <= offset /\ Cardinality(page) <= Limit
        /\ page # {} => Cardinality(skipped) = offset
        /\ rest # {} => Cardinality(page) = Limit
        /\ Newer(skipped, page \cup rest) /\ Newer(page, rest)

\* One row more than the page is read, to tell whether there is another page.
HasMore == Cardinality(rows) > offset + Limit

\* Variant of NextCursor: behind the row that was read to look ahead.
CursorBehindNext == EncodeCursor(offset + Limit + 1)

NextCursor == EncodeCursor(offset + Limit)

GetTrades ==
    /\ reader = "reading"
    /\ \E skipped, page \in SUBSET rows :
        IsPage(skipped, page) /\ seen' = seen \cup page
    /\ IF HasMore
       THEN offset' = ParseCursor(NextCursor) /\ UNCHANGED reader
       ELSE reader' = "done" /\ UNCHANGED offset
    /\ UNCHANGED <<now, writer, stamp, rows, wanted>>

Next ==
    \/ Tick \/ Begin \/ GetTrades
    \/ \E r \in Results : CreateBatch(r) \/ Stored(r) \/ NotStored(r)

Spec == Init /\ [][Next]_vars

-----------------------------------------------------------------------------
(* What a client may rely on *)

\* Whatever is stored while a client pages, and however late: when it is told
\* that there is no more it has received every trade that was there when it
\* began, unless the trade shares its created_at with another, as those of one
\* result do; such trades may change places between two pages.
PagesMissNone ==
    reader = "done" =>
        {x \in wanted : \A y \in rows : y.at = x.at => y = x} \subseteq seen

TypeOK ==
    /\ now \in 0..MaxTime /\ offset \in Nat
    /\ writer \in [Results -> {"idle", "inserting", "ended"}]
    /\ stamp \in [Results -> 0..MaxTime]
    /\ rows \subseteq Rows
    /\ reader \in {"idle", "reading", "done"}
    /\ wanted \subseteq rows /\ seen \subseteq rows
=============================================================================
