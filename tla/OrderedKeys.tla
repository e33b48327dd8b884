----------------------------- MODULE OrderedKeys -----------------------------
(***************************************************************************)
(* What the matching loop relies on the price index for: a set of keys     *)
(* with lower-bound search and both ends, one call at a time.              *)
(***************************************************************************)
EXTENDS Integers

CONSTANTS Keys, Nil

VARIABLES
    keys,           \* the keys of the list
    answer          \* what the last call returned: a key, or Nil

Least(S) == IF S = {} THEN Nil ELSE CHOOSE k \in S : \A j \in S : k <= j
Greatest(S) == IF S = {} THEN Nil ELSE CHOOSE k \in S : \A j \in S : k >= j

Init == keys = {} /\ answer = Nil

\* A key that is there already is answered with and stays.
Insert(k) == keys' = keys \cup {k} /\ answer' = k

\* The answer is whether the key was there: the key, or Nil.
Delete(k) ==
    /\ keys' = keys \ {k}
    /\ answer' = IF k \in keys THEN k ELSE Nil

Search(k) == answer' = (IF k \in keys THEN k ELSE Nil) /\ UNCHANGED keys

\* The least key from k on, and if every key is below k the greatest one.
Seek(k) ==
    /\ answer' = IF \E j \in keys : j >= k
                 THEN Least({j \in keys : j >= k})
                 ELSE Greatest(keys)
    /\ UNCHANGED keys

SeekFirst == answer' = Least(keys) /\ UNCHANGED keys
SeekLast == answer' = Greatest(keys) /\ UNCHANGED keys

Next ==
    \/ \E k \in Keys : Insert(k) \/ Delete(k) \/ Search(k) \/ Seek(k)
    \/ SeekFirst \/ SeekLast

Spec == Init /\ [][Next]_<<keys, answer>>
=============================================================================
