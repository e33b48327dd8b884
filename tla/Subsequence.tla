------------------------------ MODULE Subsequence ------------------------------
(* The part of a sequence that a query or a filter keeps, in the order it has. *)
(* SelectSeq would say the same, but nothing can be proved about it.           *)
EXTENDS Integers, Sequences

Kept(s, S) ==
    LET kept[n \in 0..Len(s)] ==
            IF n = 0 THEN <<>>
            ELSE IF s[n] \in S THEN Append(kept[n - 1], s[n]) ELSE kept[n - 1]
    IN  kept[Len(s)]
=============================================================================
