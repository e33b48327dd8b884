------------------------------ MODULE SkipList ------------------------------
(***************************************************************************)
(* The price index of a book, internal/matching/book/skiplist.go: a list   *)
(* of sorted chains, where a node of height h is on the chains 1 to h and  *)
(* every chain starts at the header.  One call runs at a time, under the   *)
(* list's mutex; each step of its search is a step of the model.           *)
(*                                                                         *)
(* A node is its key, which no two nodes of a list share, and the header   *)
(* is the key it is made with, zero: no price is zero.  Chains are         *)
(* numbered from 1, where the code counts from 0.  The height of a new     *)
(* node is random, so it is any.                                           *)
(***************************************************************************)
EXTENDS Integers

CONSTANTS
    Keys,           \* prices
    MaxLevel        \* greatest height of a node

ASSUME ListAssumption == Keys \subseteq Nat \ {0} /\ MaxLevel \in Nat \ {0}

Header == 0
Nil == -1

Nodes == Keys \cup {Header}
Levels == 1..MaxLevel

VARIABLES
    height,         \* len(Forward) of each key's node, 0 if it has none
    forward,        \* Forward of each node, by level
    backward,       \* Backward of each node
    level,          \* sl.level: levels in use
    length,         \* sl.length
    pc,             \* "idle", "descend" (the search), "scan"
    call,           \* the running call: its kind, its key
    curr,           \* its node
    at,             \* the level it searches, 0 once it is through
    update,         \* the last node before its key, by level
    scanned,        \* the nodes a scan has passed
    answer          \* what the last call returned

listVars == <<height, forward, backward, level, length>>
vars == <<listVars, pc, call, curr, at, update, scanned, answer>>

ByKey == {"insert", "delete", "search", "seek"}
Calls == [kind : ByKey, key : Keys] \cup [kind : {"last", "scan"}, key : {Header}]
NoCall == [kind |-> "none", key |-> Header]

Init ==
    /\ height = [k \in Keys |-> 0]
    /\ forward = [n \in Nodes |-> [l \in Levels |-> Nil]]
    /\ backward = [n \in Nodes |-> Nil]
    /\ level = 0 /\ length = 0
    /\ pc = "idle" /\ call = NoCall
    /\ curr = Header /\ at = 0
    /\ update = [l \in Levels |-> Header]
    /\ scanned = {}
    /\ answer = Nil

-----------------------------------------------------------------------------
(* The search: along each chain, from the highest one down *)

Call(c) ==
    /\ pc = "idle"
    /\ call' = c
    /\ pc' = "descend"
    /\ at' = level
    /\ UNCHANGED <<listVars, curr, update, scanned, answer>>

\* Variant of Before: the search goes on to its key.
BeforeOrAt(n) == n # Nil /\ (call.kind \in ByKey => n <= call.key)

\* The loop goes on to n: its key is less, and for the last key any is.
Before(n) == n # Nil /\ (call.kind \in ByKey => n < call.key)

Forth ==
    /\ pc = "descend" /\ at > 0
    /\ Before(forward[curr][at])
    /\ curr' = forward[curr][at]
    /\ UNCHANGED <<listVars, pc, call, at, update, scanned, answer>>

Down ==
    /\ pc = "descend" /\ at > 0
    /\ ~Before(forward[curr][at])
    /\ update' = [update EXCEPT ![at] = curr]
    /\ at' = at - 1
    /\ UNCHANGED <<listVars, pc, call, curr, scanned, answer>>

\* The search is through for a call of one of these kinds.
Searched(kinds) == pc = "descend" /\ at = 0 /\ call.kind \in kinds

\* The call ends: what was local to it is gone.
End ==
    /\ pc' = "idle" /\ call' = NoCall
    /\ curr' = Header /\ at' = 0 /\ scanned' = {}
    /\ update' = [l \in Levels |-> Header]

Return(a) == answer' = a /\ End

\* The node after the search's last one, at the lowest level.
After == forward[curr][1]
Found == After = call.key

-----------------------------------------------------------------------------
(* The calls *)

Search ==
    /\ Searched({"search"})
    /\ Return(IF Found THEN After ELSE Nil)
    /\ UNCHANGED listVars

\* The search is past all keys: it answers with the last one.
Seek ==
    /\ Searched({"seek"})
    /\ Return(IF After # Nil THEN After ELSE IF curr # Header THEN curr ELSE Nil)
    /\ UNCHANGED listVars

SeekLast ==
    /\ Searched({"last"})
    /\ Return(IF curr # Header THEN curr ELSE Nil)
    /\ UNCHANGED listVars

SeekFirst ==
    /\ pc = "idle"
    /\ answer' = forward[Header][1]
    /\ UNCHANGED <<listVars, pc, call, curr, at, update, scanned>>

InsertFound ==
    /\ Searched({"insert"}) /\ Found
    /\ Return(After)
    /\ UNCHANGED listVars

\* The node of k is put after update[l] on the chains 1 to h.  The levels
\* above sl.level start at the header, as update does.
Linked(k, h) ==
    [n \in Nodes |-> [l \in Levels |->
        IF l > h THEN forward[n][l]
        ELSE IF n = k THEN forward[update[l]][l]
        ELSE IF n = update[l] THEN k
        ELSE forward[n][l]]]

\* Variant of InsertedBackward: the next node keeps its Backward.
InsertedOneWay(k) == [backward EXCEPT ![k] = update[1]]

InsertedBackward(k) ==
    [n \in Nodes |->
        IF n = k THEN update[1]
        ELSE IF n = After THEN k
        ELSE backward[n]]

InsertNew(h) ==
    /\ Searched({"insert"}) /\ ~Found
    /\ level' = IF h > level THEN h ELSE level
    /\ height' = [height EXCEPT ![call.key] = h]
    /\ forward' = Linked(call.key, h)
    /\ backward' = InsertedBackward(call.key)
    /\ length' = length + 1
    /\ Return(call.key)

DeleteMissing ==
    /\ Searched({"delete"}) /\ ~Found
    /\ Return(Nil)
    /\ UNCHANGED listVars

\* The node of k is taken out of the chains in use, by Backward from the
\* lowest and by update from each it is next on; nothing points to it then.
Unlinked(k) ==
    [n \in Nodes |-> [l \in Levels |->
        IF n = k THEN Nil
        ELSE IF l = 1 /\ n = backward[k] THEN forward[k][l]
        ELSE IF l <= level /\ n = update[l] /\ forward[n][l] = k
        THEN forward[k][l]
        ELSE forward[n][l]]]

\* sl.level is lowered past the chains that are empty now.
LowerLevel(chains) ==
    \E l \in 0..level :
        /\ level' = l
        /\ l > 0 => chains[Header][l] # Nil
        /\ \A j \in Levels : j > l /\ j <= level => chains[Header][j] = Nil

Delete ==
    /\ Searched({"delete"}) /\ Found
    /\ forward' = Unlinked(call.key)
    /\ backward' = [n \in Nodes |->
            IF n = call.key THEN Nil
            ELSE IF n = forward[call.key][1] THEN backward[call.key]
            ELSE backward[n]]
    /\ LowerLevel(forward')
    /\ height' = [height EXCEPT ![call.key] = 0]
    /\ length' = length - 1
    /\ Return(call.key)

-----------------------------------------------------------------------------
(* The matching loop's scan of the bids: SeekLast, then Prev to nil, which *)
(* comes after the header.                                                 *)

ScanStart ==
    /\ Searched({"scan"}) /\ curr # Header
    /\ pc' = "scan"
    /\ UNCHANGED <<listVars, call, curr, at, update, scanned, answer>>

ScanEmpty ==
    /\ Searched({"scan"}) /\ curr = Header
    /\ End
    /\ UNCHANGED <<listVars, answer>>

ScanOn ==
    /\ pc = "scan" /\ backward[curr] # Nil
    /\ scanned' = scanned \cup {curr}
    /\ curr' = backward[curr]
    /\ UNCHANGED <<listVars, pc, call, at, update, answer>>

ScanEnd ==
    /\ pc = "scan" /\ backward[curr] = Nil
    /\ End
    /\ UNCHANGED <<listVars, answer>>

Next ==
    \/ \E c \in Calls : Call(c)
    \/ Forth \/ Down
    \/ Search \/ Seek \/ SeekLast \/ SeekFirst
    \/ InsertFound \/ \E h \in Levels : InsertNew(h)
    \/ DeleteMissing \/ Delete
    \/ ScanStart \/ ScanEmpty \/ ScanOn \/ ScanEnd

Spec == Init /\ [][Next]_vars

-----------------------------------------------------------------------------
(* What the list guarantees *)

\* The nodes on chain l, the header apart.
Chain(l) == {k \in Keys : height[k] >= l}

\* n is the first of the nodes S after m, Nil if there is none.
IsNext(m, n, S) ==
    IF n = Nil THEN \A k \in S : k <= m
    ELSE n \in S /\ n > m /\ \A k \in S : k <= m \/ n <= k

ChainsSorted ==
    \A l \in Levels : \A m \in Chain(l) \cup {Header} :
        IsNext(m, forward[m][l], Chain(l))

BackwardMirrors ==
    /\ backward[Header] = Nil
    /\ \A k \in Chain(1) :
        /\ backward[k] \in Chain(1) \cup {Header}
        /\ forward[backward[k]][1] = k

LevelIsHighest ==
    /\ \A k \in Keys : height[k] <= level
    /\ level > 0 => \E k \in Keys : height[k] = level

\* After every call, and at each step of the next one, each chain links
\* exactly the nodes that reach it in the order of their keys, the backward
\* links are those of the lowest chain reversed, and the highest level in use
\* is the greatest height: what Insert, Delete and their search maintain.
ListInv == ChainsSorted /\ BackwardMirrors /\ LevelIsHighest

\* The matching loop's scan of the bids misses no level: those it has passed
\* are all the keys above the one it has come to, so a market order that
\* reaches the header has seen every bid.
ScanMissesNone ==
    pc = "scan" => scanned = {k \in Chain(1) : k > curr}

\* The list is a set of keys with lower-bound search, whatever heights its
\* nodes drew: each call answers for the set and changes it as its key says.
Index == INSTANCE OrderedKeys WITH keys <- Chain(1), answer <- answer
ImplementsOrderedKeys == Index!Spec

\* Why it holds: what the running call knows.  The nodes of update are on
\* their chains, before the key, and next to what is not before it.
Upto(n) == call.kind \in ByKey => n < call.key

Placed(n, l) ==
    /\ n \in Chain(l) \cup {Header} /\ Upto(n)
    /\ ~Before(forward[n][l])

SearchInv ==
    /\ pc = "idle" =>
        curr = Header /\ at = 0 /\ update = [l \in Levels |-> Header]
    /\ pc = "descend" =>
        /\ call \in Calls /\ at <= level
        /\ curr \in Chain(1) \cup {Header} /\ Upto(curr)
        /\ at > 0 => curr \in Chain(at) \cup {Header}
        /\ at = 0 => Placed(curr, 1) /\ curr = update[1]
        /\ \A l \in Levels : l > at /\ l <= level => Placed(update[l], l)
        /\ \A l \in Levels : l > level => update[l] = Header
    /\ pc = "scan" => curr \in Chain(1) \cup {Header}
    /\ pc # "scan" => scanned = {}

TypeOK ==
    /\ height \in [Keys -> 0..MaxLevel]
    /\ forward \in [Nodes -> [Levels -> Nodes \cup {Nil}]]
    /\ backward \in [Nodes -> Nodes \cup {Nil}]
    /\ level \in 0..MaxLevel /\ length \in Int
    /\ pc \in {"idle", "descend", "scan"} /\ call \in Calls \cup {NoCall}
    /\ curr \in Nodes /\ at \in 0..MaxLevel
    /\ update \in [Levels -> Nodes]
    /\ scanned \subseteq Keys /\ answer \in Keys \cup {Nil}

IndexInv == TypeOK /\ ListInv /\ SearchInv /\ ScanMissesNone
=============================================================================
