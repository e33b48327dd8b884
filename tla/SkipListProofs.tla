---------------------------- MODULE SkipListProofs ----------------------------
(***************************************************************************)
(* Theorems about SkipList, for any set of keys and any greatest height.   *)
(***************************************************************************)
EXTENDS SkipList, TLAPS

USE ListAssumption DEF Header, Nil, Nodes, Levels

\* What follows u follows k when k is put between the two.
LEMMA NextOfNew ==
    ASSUME NEW S \in SUBSET (Nat \ {0}), NEW k \in Nat \ {0}, NEW u \in Nat,
           NEW n \in S \cup {Nil}, IsNext(u, n, S), u < k, n = Nil \/ k < n
    PROVE  /\ IsNext(k, n, S \cup {k})
           /\ IsNext(u, k, S \cup {k})
BY DEF IsNext

\* The other nodes do not notice k.
LEMMA NextOfOther ==
    ASSUME NEW S \in SUBSET (Nat \ {0}), NEW k \in Nat \ {0},
           NEW u \in S \cup {0}, NEW n \in S \cup {Nil}, IsNext(u, n, S),
           u < k, n = Nil \/ k < n,
           NEW m \in S \cup {0}, m # u, NEW o \in S \cup {Nil}, IsNext(m, o, S)
    PROVE  IsNext(m, o, S \cup {k})
<1>1. CASE m < u
  <2>1. o \in S /\ o > m /\ o <= u /\ \A x \in S : x <= m \/ o <= x
    BY <1>1 DEF IsNext
  <2> QED
    BY <2>1 DEF IsNext
<1>2. CASE m > u
  <2>1. k < m
    BY <1>2 DEF IsNext
  <2> QED
    BY <2>1 DEF IsNext
<1> QED
  BY <1>1, <1>2

\* When k leaves, what follows k follows u.
LEMMA NextWithout ==
    ASSUME NEW S \in SUBSET (Nat \ {0}), NEW k \in S, NEW u \in S \cup {0},
           IsNext(u, k, S), NEW n \in S \cup {Nil}, IsNext(k, n, S)
    PROVE  /\ IsNext(u, n, S \ {k})
           /\ \A m \in S \cup {0} : \A o \in S \cup {Nil} :
                m # u /\ IsNext(m, o, S) => IsNext(m, o, S \ {k})
BY DEF IsNext

\* The first state.
LEMMA InitIndex == Init => IndexInv
<1> SUFFICES ASSUME Init PROVE IndexInv
  OBVIOUS
<1>1. TypeOK
  BY DEF Init, TypeOK
<1>2. \A l \in Levels : Chain(l) = {}
  BY DEF Init, Chain
<1>3. ListInv
  BY <1>2 DEF Init, ListInv, ChainsSorted, BackwardMirrors, LevelIsHighest,
              IsNext
<1>4. SearchInv /\ ScanMissesNone
  BY DEF Init, SearchInv, ScanMissesNone
<1> QED
  BY <1>1, <1>3, <1>4 DEF IndexInv

\* A search that is through stands at the last node before its key.
LEMMA SearchThrough ==
    ASSUME IndexInv, pc = "descend", at = 0
    PROVE  /\ curr \in Chain(1) \cup {Header} /\ Upto(curr)
           /\ IsNext(curr, After, Chain(1)) /\ ~Before(After)
           /\ curr = update[1]
BY DEF IndexInv, SearchInv, ListInv, ChainsSorted, Placed, After, TypeOK

\* A step that leaves the list alone keeps it right.
LEMMA ListKept ==
    ASSUME ListInv, UNCHANGED listVars
    PROVE  ListInv'
<1>1. \A l \in Levels : Chain(l)' = Chain(l)
  BY DEF listVars, Chain
<1>2. Chain(1)' = Chain(1)
  BY <1>1
<1>3. \A l \in Levels : \A m \in Chain(l)' \cup {Header} :
          IsNext(m, forward'[m][l], Chain(l)')
  BY <1>1 DEF ListInv, ChainsSorted, listVars
<1>4. ChainsSorted'
  BY <1>3 DEF ChainsSorted, IsNext
<1> QED
  BY <1>2, <1>4 DEF ListInv, BackwardMirrors, LevelIsHighest, listVars

\* What a chain links is on it.
LEMMA ChainType ==
    ASSUME TypeOK, ListInv, NEW l \in Levels
    PROVE  /\ Chain(l) \in SUBSET (Nat \ {0}) /\ Chain(l) \subseteq Keys
           /\ Chain(l) \subseteq Chain(1)
           /\ l > level => Chain(l) = {}
           /\ \A m \in Chain(l) \cup {0} :
                /\ forward[m][l] \in Chain(l) \cup {Nil}
                /\ IsNext(m, forward[m][l], Chain(l))
<1>1. Chain(l) \subseteq Keys
  BY DEF Chain
<1>0. level \in Int /\ \A k \in Keys : height[k] \in Int /\ height[k] <= level
  BY DEF TypeOK, ListInv, LevelIsHighest
<1>2. Chain(l) \subseteq Chain(1) /\ (l > level => Chain(l) = {})
  <2>1. \A k \in Keys : height[k] >= l => height[k] >= 1
    BY <1>0
  <2>2. ASSUME l > level, NEW k \in Keys PROVE ~(height[k] >= l)
    <3>1. height[k] \in Int /\ height[k] <= level
      BY <1>0
    <3> QED
      BY <1>0, <2>2, <3>1
  <2> QED
    BY <2>1, <2>2 DEF Chain
<1>3. ASSUME NEW m \in Chain(l) \cup {0}
      PROVE  /\ forward[m][l] \in Chain(l) \cup {Nil}
             /\ IsNext(m, forward[m][l], Chain(l))
  <2>1. IsNext(m, forward[m][l], Chain(l))
    BY <1>3 DEF ListInv, ChainsSorted
  <2> QED
    BY <2>1 DEF IsNext
<1> QED
  BY <1>1, <1>2, <1>3

\* Where a new node is put: after update[l], before what followed it.
LEMMA InsertPlace ==
    ASSUME IndexInv, NEW h \in Levels, InsertNew(h), NEW l \in 1..h
    PROVE  /\ call.key \in Keys /\ call.key \notin Chain(1)
           /\ update[l] \in Chain(l) \cup {0} /\ update[l] < call.key
           /\ \/ forward[update[l]][l] = Nil
              \/ call.key < forward[update[l]][l]
           /\ update[1] = curr
<1> DEFINE k == call.key
           u == update[l]
<1> USE DEF IndexInv
<1>0. l \in Levels /\ pc = "descend" /\ at = 0 /\ call.kind = "insert" /\ ~Found
  BY DEF InsertNew, Searched
<1>1. k \in Keys /\ k \in Nat \ {0} /\ call.kind \in ByKey
  BY <1>0 DEF SearchInv, Calls, ByKey
<1>2. k \notin Chain(1)
  <2>1. IsNext(curr, After, Chain(1)) /\ ~Before(After) /\ Upto(curr)
        /\ curr \in Chain(1) \cup {Header}
    BY <1>0, SearchThrough
  <2>2. After = Nil \/ (After \in Int /\ After > k)
    <3>1. After \in Nodes \cup {Nil}
      BY <2>1 DEF After, TypeOK, Chain
    <3> QED
      <4>1. After # Nil => ~(After < k)
        BY <1>1, <2>1 DEF Before
      <4>2. After # k
        BY <1>0 DEF Found
      <4>3. After = Nil \/ After \in Nat
        BY <3>1
      <4> HIDE DEF k
      <4> QED
        BY <1>1, <4>1, <4>2, <4>3
  <2>3. curr < k /\ curr \in Int /\ \A x \in Chain(1) : x \in Int
    BY <1>1, <2>1 DEF Upto, Chain
  <2>4. k \in Int /\ (After = Nil \/ After \in Int)
    BY <1>1, <2>2
  <2> HIDE DEF k
  <2> QED
    BY <2>1, <2>2, <2>3, <2>4 DEF IsNext
<1>3. k \notin Chain(l)
  BY <1>0, <1>2, ChainType
<1>6. update[1] = curr
  BY <1>0, SearchThrough
<1>4. CASE l > level
  <2>1. u = Header /\ Chain(l) = {}
    BY <1>0, <1>4, ChainType DEF SearchInv
  <2>2. forward[u][l] = Nil
    BY <1>0, <2>1, ChainType
  <2> QED
    BY <1>1, <1>2, <1>6, <2>1, <2>2
<1>5. CASE l <= level
  <2>1. Placed(u, l)
    BY <1>0, <1>5 DEF SearchInv
  <2>2. u \in Chain(l) \cup {0} /\ u < k /\ ~Before(forward[u][l])
    BY <1>0, <2>1 DEF Placed, Upto, ByKey
  <2>3. forward[u][l] \in Chain(l) \cup {Nil}
    BY <1>0, <2>2, ChainType
  <2>4. forward[u][l] = Nil \/ k < forward[u][l]
    <3>1. forward[u][l] # k /\ (forward[u][l] = Nil \/ forward[u][l] \in Nat)
      <4>1. Chain(l) \in SUBSET (Nat \ {0})
        BY <1>0, ChainType
      <4> HIDE DEF u, k
      <4> QED
        BY <1>1, <1>3, <2>3, <4>1
    <3> QED
      BY <1>1, <2>2, <3>1 DEF Before
  <2> QED
    BY <1>1, <1>2, <1>6, <2>2, <2>4
<1> QED
  BY <1>0, <1>4, <1>5 DEF TypeOK

\* Inserting keeps the list right.
LEMMA InsertList ==
    ASSUME IndexInv, NEW h \in Levels, InsertNew(h)
    PROVE  ListInv' /\ Chain(1)' = Chain(1) \cup {call.key}
<1> DEFINE k == call.key
<1> USE DEF IndexInv
<1>0. k \in Keys /\ k \notin Chain(1) /\ update[1] = curr
  <2>1. 1 \in 1..h
    OBVIOUS
  <2> QED
    BY <2>1, InsertPlace
<1>1. /\ k \in Keys /\ k \notin Chain(1) /\ update[1] = curr
      /\ height' = [height EXCEPT ![k] = h]
      /\ level' = (IF h > level THEN h ELSE level)
      /\ forward' = Linked(k, h) /\ backward' = InsertedBackward(k)
  BY <1>0 DEF InsertNew
<1>2. ASSUME NEW l \in Levels
      PROVE  Chain(l)' = IF l <= h THEN Chain(l) \cup {k} ELSE Chain(l)
  <2>1. height[k] = 0
    <3>1. height[k] \in 0..MaxLevel /\ ~(height[k] >= 1)
      BY <1>1 DEF TypeOK, Chain
    <3> QED
      BY <3>1
  <2>2. \A j \in Keys : height'[j] = IF j = k THEN h ELSE height[j]
    BY <1>1 DEF TypeOK
  <2> HIDE DEF k
  <2> QED
    BY <1>1, <2>1, <2>2 DEF Chain
<1>3. ASSUME NEW l \in Levels, NEW m \in Chain(l)' \cup {Header}
      PROVE  IsNext(m, forward'[m][l], Chain(l)')
  <2>1. k \notin Chain(l) /\ Chain(l) \subseteq Keys
    BY <1>1, ChainType
  <2>2. CASE l > h
    <3>1. m \in Chain(l) \cup {0} /\ forward'[m][l] = forward[m][l]
      BY <1>1, <1>2, <1>3, <2>1, <2>2 DEF Linked
    <3> QED
      BY <1>2, <2>2, <3>1, ChainType
  <2>3. CASE l <= h
    <3> DEFINE u == update[l]
               n == forward[u][l]
    <3>1. /\ u \in Chain(l) \cup {0} /\ u < k /\ (n = Nil \/ k < n)
          /\ n \in Chain(l) \cup {Nil} /\ IsNext(u, n, Chain(l))
          /\ Chain(l) \in SUBSET (Nat \ {0}) /\ k \in Nat \ {0} /\ u \in Nat
      <4>1. l \in 1..h
        BY <2>3
      <4>2. u \in Chain(l) \cup {0} /\ u < k /\ (n = Nil \/ k < n)
        BY <4>1, InsertPlace
      <4>3. n \in Chain(l) \cup {Nil} /\ IsNext(u, n, Chain(l))
            /\ Chain(l) \in SUBSET (Nat \ {0})
        BY <4>2, ChainType
      <4>4. k \in Nat \ {0}
        BY <1>1
      <4>5. u \in Nat
        BY <4>2, <4>3
      <4> HIDE DEF u, n, k
      <4> QED
        BY <4>2, <4>3, <4>4, <4>5
    <3>2. Chain(l)' = Chain(l) \cup {k}
      BY <1>2, <2>3
    <3>3. CASE m = k
      <4>1. forward'[m][l] = n
        BY <1>1, <2>3, <3>3 DEF Linked
      <4> QED
        BY <3>1, <3>2, <3>3, <4>1, NextOfNew
    <3>4. CASE m = u
      <4>1. forward'[m][l] = k
        BY <1>1, <2>1, <2>3, <3>1, <3>4 DEF Linked
      <4> QED
        BY <3>1, <3>2, <3>4, <4>1, NextOfNew, SMTT(20)
    <3>5. CASE m # k /\ m # u
      <4>1. m \in Chain(l) \cup {0} /\ forward'[m][l] = forward[m][l]
        BY <1>1, <1>3, <2>1, <2>3, <3>2, <3>5 DEF Linked
      <4>2. IsNext(m, forward[m][l], Chain(l))
            /\ forward[m][l] \in Chain(l) \cup {Nil}
        BY <4>1, ChainType
      <4> HIDE DEF u, n, k
      <4> QED
        BY <3>1, <3>2, <3>5, <4>1, <4>2, NextOfOther
    <3> QED
      BY <3>3, <3>4, <3>5
  <2> QED
    BY <2>2, <2>3
<1>4. ChainsSorted'
  BY <1>3 DEF ChainsSorted, IsNext
<1>5. BackwardMirrors'
  <2>1. /\ Chain(1)' = Chain(1) \cup {k} /\ Chain(1) \subseteq Keys
        /\ curr \in Chain(1) \cup {Header}
        /\ After \in Chain(1) \cup {Nil}
    <3>1. Chain(1)' = Chain(1) \cup {k}
      BY <1>2
    <3>2. curr \in Chain(1) \cup {Header}
      BY <1>1, InsertPlace
    <3> QED
      BY <3>1, <3>2, ChainType DEF After
  <2>2. backward'[Header] = Nil
    BY <1>1, <2>1 DEF InsertedBackward, ListInv, BackwardMirrors
  <2>3. ASSUME NEW j \in Chain(1)'
        PROVE  /\ backward'[j] \in Chain(1)' \cup {Header}
               /\ forward'[backward'[j]][1] = j
    <3>1. CASE j = k
      <4>1. backward'[j] = curr /\ forward'[curr][1] = k
        BY <1>1, <2>1, <3>1 DEF InsertedBackward, Linked
      <4> QED
        BY <2>1, <3>1, <4>1
    <3>2. CASE j # k /\ j = After
      <4>1. backward'[j] = k /\ forward'[k][1] = After
        BY <1>1, <2>1, <2>3, <3>2 DEF InsertedBackward, Linked, After
      <4> QED
        BY <2>1, <3>2, <4>1
    <3>3. CASE j # k /\ j # After
      <4>1. backward'[j] = backward[j] /\ j \in Chain(1)
        BY <1>1, <2>1, <2>3, <3>3 DEF InsertedBackward
      <4>2. backward[j] \in Chain(1) \cup {Header} /\ forward[backward[j]][1] = j
        BY <4>1 DEF ListInv, BackwardMirrors
      <4>3. backward[j] # k /\ backward[j] # curr
        BY <1>1, <2>1, <3>3, <4>2 DEF After
      <4>4. forward'[backward[j]][1] = j
        BY <1>1, <2>1, <4>2, <4>3 DEF Linked
      <4> QED
        BY <2>1, <4>1, <4>2, <4>4
    <3> QED
      BY <3>1, <3>2, <3>3
  <2> QED
    BY <2>2, <2>3 DEF BackwardMirrors
<1>6. LevelIsHighest'
  <2>1. \A j \in Keys : height'[j] <= level'
    BY <1>1 DEF TypeOK, ListInv, LevelIsHighest
  <2>2. level' > 0 => \E j \in Keys : height'[j] = level'
    <3>1. CASE h > level
      BY <1>1, <3>1 DEF TypeOK
    <3>2. CASE ~(h > level)
      <4>1. level > 0 /\ level' = level
        BY <1>1, <3>2 DEF TypeOK
      <4>2. PICK j \in Keys : height[j] = level
        BY <4>1 DEF ListInv, LevelIsHighest
      <4>3. j # k
        <5>1. j \in Chain(1)
          BY <4>1, <4>2 DEF Chain, TypeOK
        <5> QED
          BY <1>1, <5>1
      <4> QED
        BY <1>1, <4>1, <4>2, <4>3 DEF TypeOK
    <3> QED
      BY <3>1, <3>2
  <2> QED
    BY <2>1, <2>2 DEF LevelIsHighest
<1>7. Chain(1)' = Chain(1) \cup {k}
  BY <1>2
<1> QED
  BY <1>4, <1>5, <1>6, <1>7 DEF ListInv

\* Where the node that is deleted is: on its chains, after update[l].
LEMMA DeletePlace ==
    ASSUME IndexInv, Delete
    PROVE  /\ call.key \in Chain(1) /\ backward[call.key] = curr
           /\ update[1] = curr
           /\ \A l \in Levels : call.key \in Chain(l) =>
                /\ update[l] \in Chain(l) \cup {0}
                /\ forward[update[l]][l] = call.key
           /\ \A l \in Levels : \A m \in Chain(l) \cup {0} :
                call.key \notin Chain(l) => forward[m][l] # call.key
<1> DEFINE k == call.key
<1> USE DEF IndexInv
<1>0. /\ pc = "descend" /\ at = 0 /\ call.kind = "delete" /\ After = k
  BY DEF Delete, Searched, Found
<1>1. k \in Keys /\ k \in Nat \ {0} /\ call.kind \in ByKey
  BY <1>0 DEF SearchInv, Calls, ByKey
<1>2. 1 \in Levels
  OBVIOUS
<1>3. /\ curr \in Chain(1) \cup {0} /\ curr = update[1]
      /\ forward[curr][1] = k
  BY <1>0, SearchThrough DEF After
<1>4. k \in Chain(1)
  <2> HIDE DEF k
  <2> QED
    BY <1>1, <1>2, <1>3, ChainType
<1>5. ASSUME NEW l \in Levels, k \in Chain(l)
      PROVE  update[l] \in Chain(l) \cup {0} /\ forward[update[l]][l] = k
  <2> DEFINE u == update[l]
             n == forward[u][l]
  <2>1. l <= level
    BY <1>5, ChainType DEF TypeOK
  <2>2. Placed(u, l)
    BY <1>0, <2>1 DEF SearchInv
  <2>3. u \in Chain(l) \cup {0} /\ u < k /\ (n # Nil => ~(n < k))
    BY <1>1, <2>2 DEF Placed, Upto, Before
  <2>4. n \in Chain(l) \cup {Nil} /\ IsNext(u, n, Chain(l))
        /\ Chain(l) \in SUBSET (Nat \ {0})
    BY <2>3, ChainType
  <2> HIDE DEF u, n, k
  <2>5. n # Nil /\ n <= k
    BY <1>1, <1>5, <2>3, <2>4 DEF IsNext
  <2>6. n = k
    BY <1>1, <2>3, <2>4, <2>5
  <2> QED
    BY <2>3, <2>6 DEF u, n
<1>6. ASSUME NEW l \in Levels, NEW m \in Chain(l) \cup {0}, k \notin Chain(l)
      PROVE  forward[m][l] # k
  <2>1. forward[m][l] \in Chain(l) \cup {Nil}
    BY <1>6, ChainType
  <2> HIDE DEF k
  <2> QED
    BY <1>1, <1>6, <2>1
<1>7. backward[k] = curr
  <2>1. backward[k] \in Chain(1) \cup {0} /\ forward[backward[k]][1] = k
    BY <1>4 DEF ListInv, BackwardMirrors
  <2>2. /\ IsNext(curr, k, Chain(1)) /\ IsNext(backward[k], k, Chain(1))
        /\ Chain(1) \in SUBSET (Nat \ {0})
    BY <1>2, <1>3, <2>1, ChainType
  <2> DEFINE b == backward[k]
  <2>3. b \in Chain(1) \cup {0}
    BY <2>1
  <2> HIDE DEF b, k
  <2>4. ~(b < curr) /\ ~(curr < b)
    BY <1>1, <1>3, <2>2, <2>3 DEF IsNext, b
  <2> QED
    BY <1>3, <2>2, <2>3, <2>4 DEF b
<1> QED
  BY <1>3, <1>4, <1>5, <1>6, <1>7

\* Deleting keeps the list right.
LEMMA DeleteList ==
    ASSUME IndexInv, Delete
    PROVE  ListInv' /\ Chain(1)' = Chain(1) \ {call.key}
<1> DEFINE k == call.key
<1> USE DEF IndexInv
<1>1. /\ k \in Chain(1) /\ backward[k] = curr /\ update[1] = curr
      /\ forward[curr][1] = k /\ k \in Keys /\ k \in Nat \ {0}
      /\ curr \in Chain(1) \cup {0}
  <2>1. 1 \in Levels
    OBVIOUS
  <2>2. k \in Chain(1) /\ backward[k] = curr /\ update[1] = curr
        /\ forward[curr][1] = k /\ curr \in Chain(1) \cup {0}
    BY <2>1, DeletePlace
  <2> HIDE DEF k
  <2> QED
    BY <2>1, <2>2, ChainType
<1>2. /\ height' = [height EXCEPT ![k] = 0]
      /\ forward' = Unlinked(k) /\ LowerLevel(forward')
      /\ backward' = [n \in Nodes |->
              IF n = k THEN Nil
              ELSE IF n = forward[k][1] THEN backward[k] ELSE backward[n]]
  BY DEF Delete
<1>3. ASSUME NEW l \in Levels PROVE Chain(l)' = Chain(l) \ {k}
  <2>1. \A j \in Keys : height'[j] = IF j = k THEN 0 ELSE height[j]
    BY <1>1, <1>2 DEF TypeOK
  <2>2. ~(0 >= l)
    OBVIOUS
  <2> HIDE DEF k
  <2>3. \A j \in Keys : height'[j] >= l <=> (height[j] >= l /\ j # k)
    BY <1>1, <2>1, <2>2
  <2> QED
    BY <2>3 DEF Chain
<1>4. ASSUME NEW l \in Levels, NEW m \in Chain(l) \cup {0}, m # k
      PROVE  /\ forward[m][l] # k => forward'[m][l] = forward[m][l]
             /\ forward[m][l] = k =>
                  /\ m = update[l] /\ k \in Chain(l)
                  /\ forward'[m][l] = forward[k][l]
  <2>1. m \in Nodes /\ curr \in Nodes
    BY <1>1, <1>4, ChainType
  <2>2. CASE forward[m][l] # k
    <3>1. ~(l = 1 /\ m = curr)
      BY <1>1, <2>2
    <3> QED
      BY <1>1, <1>2, <1>4, <2>1, <2>2, <3>1 DEF Unlinked
  <2>3. CASE forward[m][l] = k
    <3>1. k \in Chain(l)
      BY <1>4, <2>3, DeletePlace
    <3>2. m = update[l]
      <4>1. /\ update[l] \in Chain(l) \cup {0} /\ forward[update[l]][l] = k
        BY <3>1, DeletePlace
      <4> DEFINE u == update[l]
      <4>2. IsNext(u, k, Chain(l)) /\ IsNext(m, k, Chain(l))
            /\ u \in Chain(l) \cup {0} /\ Chain(l) \in SUBSET (Nat \ {0})
        BY <1>4, <2>3, <4>1, ChainType
      <4> HIDE DEF u, k
      <4>3. ~(u < m) /\ ~(m < u)
        BY <1>1, <1>4, <4>2 DEF IsNext
      <4>4. u = m
        BY <1>4, <4>2, <4>3
      <4> QED
        BY <4>4 DEF u
    <3>3. l <= level
      BY <3>1, ChainType DEF TypeOK
    <3>4. forward'[m][l] = forward[k][l]
      BY <1>1, <1>2, <1>4, <2>1, <2>3, <3>2, <3>3 DEF Unlinked
    <3> QED
      BY <2>3, <3>1, <3>2, <3>4
  <2> QED
    BY <2>2, <2>3
<1>5. ASSUME NEW l \in Levels, NEW m \in Chain(l)' \cup {Header}
      PROVE  IsNext(m, forward'[m][l], Chain(l)')
  <2> DEFINE n == forward[m][l]
  <2>1. /\ m \in Chain(l) \cup {0} /\ m # k
        /\ Chain(l)' = Chain(l) \ {k}
        /\ Chain(l) \in SUBSET (Nat \ {0})
        /\ n \in Chain(l) \cup {Nil} /\ IsNext(m, n, Chain(l))
    <3>1. m \in Chain(l) \cup {0} /\ m # k
      BY <1>1, <1>3, <1>5
    <3> QED
      BY <1>3, <3>1, ChainType
  <2>2. CASE n # k
    <3>1. forward'[m][l] = n
      BY <1>4, <2>1, <2>2
    <3>2. CASE k \in Chain(l)
      <4>1. update[l] \in Chain(l) \cup {0} /\ forward[update[l]][l] = k
        BY <3>2, DeletePlace
      <4>2. /\ IsNext(update[l], k, Chain(l))
            /\ IsNext(k, forward[k][l], Chain(l))
            /\ forward[k][l] \in Chain(l) \cup {Nil}
        BY <3>2, <4>1, ChainType
      <4>3. m # update[l]
        BY <2>2, <4>1
      <4> HIDE DEF n, k
      <4>4. \A i \in Chain(l) \cup {0} : \A o \in Chain(l) \cup {Nil} :
               i # update[l] /\ IsNext(i, o, Chain(l))
                    => IsNext(i, o, Chain(l) \ {k})
        BY <2>1, <3>2, <4>1, <4>2, NextWithout
      <4>5. IsNext(m, n, Chain(l) \ {k})
        BY <2>1, <4>3, <4>4
      <4> QED
        BY <2>1, <3>1, <4>5
    <3>3. CASE k \notin Chain(l)
      <4>1. Chain(l)' = Chain(l)
        BY <2>1, <3>3
      <4> HIDE DEF n, k
      <4> QED
        BY <2>1, <3>1, <4>1
    <3> QED
      BY <3>2, <3>3
  <2>3. CASE n = k
    <3>1. k \in Chain(l) /\ forward'[m][l] = forward[k][l]
      BY <1>4, <2>1, <2>3
    <3>2. /\ IsNext(k, forward[k][l], Chain(l))
          /\ forward[k][l] \in Chain(l) \cup {Nil}
      BY <3>1, ChainType
    <3>3. IsNext(m, k, Chain(l))
      BY <2>1, <2>3
    <3> HIDE DEF n, k
    <3> QED
      BY <2>1, <3>1, <3>2, <3>3, NextWithout
  <2> QED
    BY <2>2, <2>3
<1>6. ChainsSorted'
  BY <1>5 DEF ChainsSorted, IsNext
<1>7. BackwardMirrors'
  <2> DEFINE n == forward[k][1]
  <2>1. /\ Chain(1)' = Chain(1) \ {k} /\ Chain(1) \subseteq Keys
        /\ n \in Chain(1) \cup {Nil} /\ n # k /\ curr # k
    <3>1. 1 \in Levels
      OBVIOUS
    <3>2. /\ IsNext(k, n, Chain(1)) /\ n \in Chain(1) \cup {Nil}
          /\ IsNext(curr, k, Chain(1)) /\ Chain(1) \subseteq Keys
          /\ Chain(1) \in SUBSET (Nat \ {0})
      BY <1>1, <3>1, ChainType
    <3>3. n # k /\ curr # k
      <4> HIDE DEF n, k
      <4> QED
        BY <1>1, <3>2 DEF IsNext
    <3> QED
      BY <1>3, <3>1, <3>2, <3>3
  <2>2. backward'[Header] = Nil
    BY <1>1, <1>2, <2>1 DEF ListInv, BackwardMirrors
  <2>3. ASSUME NEW j \in Chain(1)'
        PROVE  /\ backward'[j] \in Chain(1)' \cup {Header}
               /\ forward'[backward'[j]][1] = j
    <3>0. j \in Chain(1) /\ j # k /\ j \in Nodes /\ 1 \in Levels
      BY <2>1, <2>3
    <3>1. CASE j = n
      <4>1. backward'[j] = curr
        BY <1>1, <1>2, <3>0, <3>1
      <4>2. forward'[curr][1] = n
        BY <1>1, <1>4, <2>1, <3>0
      <4> QED
        BY <1>1, <2>1, <3>1, <4>1, <4>2
    <3>2. CASE j # n
      <4>1. backward'[j] = backward[j]
        BY <1>2, <3>0, <3>2
      <4>2. backward[j] \in Chain(1) \cup {0} /\ forward[backward[j]][1] = j
        BY <3>0 DEF ListInv, BackwardMirrors
      <4>3. backward[j] # k
        BY <3>2, <4>2
      <4>4. forward'[backward[j]][1] = j
        BY <1>4, <3>0, <4>2, <4>3
      <4> QED
        BY <2>1, <4>1, <4>2, <4>3, <4>4
    <3> QED
      BY <3>1, <3>2
  <2> QED
    BY <2>2, <2>3 DEF BackwardMirrors
<1>8. LevelIsHighest'
  <2>1. \A j \in Keys : height'[j] = IF j = k THEN 0 ELSE height[j]
    BY <1>1, <1>2 DEF TypeOK
  <2>2. /\ level' \in 0..level /\ level \in 0..MaxLevel
        /\ level' > 0 => forward'[Header][level'] # Nil
        /\ \A j \in Levels : j > level' /\ j <= level => forward'[Header][j] = Nil
    BY <1>2 DEF LowerLevel, TypeOK
  <2>3. ASSUME NEW l \in Levels
        PROVE  forward'[Header][l] = Nil <=> \A j \in Keys : ~(height'[j] >= l)
    <3>1. IsNext(Header, forward'[Header][l], Chain(l)')
      BY <1>5
    <3>2. \A j \in Chain(l)' : j \in Nat \ {0}
      BY DEF Chain
    <3>3. forward'[Header][l] = Nil <=> Chain(l)' = {}
      <4>1. CASE forward'[Header][l] = Nil
        <5>1. \A j \in Chain(l)' : j <= 0
          BY <3>1, <4>1 DEF IsNext
        <5> QED
          BY <3>2, <4>1, <5>1
      <4>2. CASE forward'[Header][l] # Nil
        BY <3>1, <4>2 DEF IsNext
      <4> QED
        BY <4>1, <4>2
    <3>4. Chain(l)' = {} <=> \A j \in Keys : ~(height'[j] >= l)
      BY DEF Chain
    <3> QED
      BY <3>3, <3>4
  <2>4. ASSUME NEW j \in Keys PROVE height'[j] <= level'
    <3>1. height[j] \in 0..MaxLevel /\ height[j] <= level
      BY <2>4 DEF TypeOK, ListInv, LevelIsHighest
    <3>2. CASE height'[j] > level'
      <4>1. height'[j] \in Levels /\ height'[j] <= level /\ height'[j] = height[j]
        BY <2>1, <2>2, <3>1, <3>2
      <4>2. forward'[Header][height'[j]] = Nil
        BY <2>2, <3>2, <4>1
      <4> QED
        BY <2>3, <2>4, <4>1, <4>2
    <3> QED
      BY <2>1, <2>2, <3>1, <3>2
  <2>5. ASSUME level' > 0 PROVE \E j \in Keys : height'[j] = level'
    <3>1. level' \in Levels /\ forward'[Header][level'] # Nil
      BY <2>2, <2>5
    <3>2. PICK j \in Keys : height'[j] >= level'
      BY <2>3, <3>1
    <3>3. height'[j] \in Int /\ height'[j] <= level'
      BY <2>1, <2>4, <3>2 DEF TypeOK
    <3> QED
      BY <2>2, <3>2, <3>3
  <2> QED
    BY <2>4, <2>5 DEF LevelIsHighest
<1>9. Chain(1)' = Chain(1) \ {k}
  <2>1. 1 \in Levels
    OBVIOUS
  <2> QED
    BY <1>3, <2>1
<1> QED
  BY <1>6, <1>7, <1>8, <1>9 DEF ListInv

\* Every step leads to a well typed state.
LEMMA StepType == IndexInv /\ [Next]_vars => TypeOK'
<1> SUFFICES ASSUME IndexInv, [Next]_vars PROVE TypeOK'
  OBVIOUS
<1> USE DEF IndexInv
<1>0. /\ TypeOK
      /\ [l \in Levels |-> Header] \in [Levels -> Nodes]
      /\ 1 \in Levels
  OBVIOUS
<1>1. ASSUME NEW c \in Calls, Call(c) PROVE TypeOK'
  BY <1>0, <1>1 DEF Call, TypeOK, listVars
<1>2. CASE Forth
  BY <1>0, <1>2 DEF Forth, Before, TypeOK, listVars
<1>3. CASE Down
  BY <1>0, <1>3 DEF Down, TypeOK, listVars
<1>4. ASSUME NEW a \in Keys \cup {Nil}, Return(a), UNCHANGED listVars
      PROVE  TypeOK'
  BY <1>0, <1>4 DEF Return, End, TypeOK, listVars
<1>5. ASSUME pc = "descend", at = 0
      PROVE  /\ curr \in Keys \cup {Header}
             /\ After \in Keys \cup {Nil}
  <2>1. curr \in Chain(1) \cup {Header} /\ IsNext(curr, After, Chain(1))
    BY <1>5, SearchThrough
  <2> QED
    BY <2>1 DEF IsNext, Chain
<1>6. CASE Search
  BY <1>4, <1>5, <1>6 DEF Search, Searched
<1>7. CASE Seek
  BY <1>4, <1>5, <1>7 DEF Seek, Searched
<1>8. CASE SeekLast
  BY <1>4, <1>5, <1>8 DEF SeekLast, Searched
<1>9. CASE SeekFirst
  <2>1. forward[Header][1] \in Keys \cup {Nil}
    BY <1>0, ChainType
  <2> QED
    BY <1>0, <1>9, <2>1 DEF SeekFirst, TypeOK, listVars
<1>10. CASE InsertFound
  BY <1>4, <1>5, <1>10 DEF InsertFound, Searched
<1>11. ASSUME NEW h \in Levels, InsertNew(h) PROVE TypeOK'
  <2> DEFINE k == call.key
  <2>1. k \in Keys
    <3>1. 1 \in 1..h
      OBVIOUS
    <3> QED
      BY <1>11, <3>1, InsertPlace
  <2>2. height' \in [Keys -> 0..MaxLevel] /\ level' \in 0..MaxLevel
    BY <1>0, <1>11, <2>1 DEF InsertNew, TypeOK
  <2>3. forward' \in [Nodes -> [Levels -> Nodes \cup {Nil}]]
    <3>1. \A n \in Nodes, l \in Levels :
              /\ forward[n][l] \in Nodes \cup {Nil}
              /\ forward[update[l]][l] \in Nodes \cup {Nil}
      <4>1. \A n \in Nodes : forward[n] \in [Levels -> Nodes \cup {Nil}]
        BY <1>0 DEF TypeOK
      <4>2. \A l \in Levels : update[l] \in Nodes
        BY <1>0 DEF TypeOK
      <4> HIDE DEF Nodes, Levels
      <4> QED
        BY <4>1, <4>2
    <3>2. k \in Nodes \cup {Nil}
      BY <2>1
    <3> HIDE DEF k
    <3>3. \A n \in Nodes, l \in Levels : Linked(k, h)[n][l] \in Nodes \cup {Nil}
      BY <3>1, <3>2 DEF Linked
    <3>4. Linked(k, h) \in [Nodes -> [Levels -> Nodes \cup {Nil}]]
      BY <3>3 DEF Linked
    <3> QED
      BY <1>11, <3>4 DEF InsertNew, k
  <2>4. backward' \in [Nodes -> Nodes \cup {Nil}]
    BY <1>0, <1>11, <2>1 DEF InsertNew, TypeOK, InsertedBackward
  <2> QED
    BY <1>0, <1>11, <2>1, <2>2, <2>3, <2>4 DEF InsertNew, Return, End, TypeOK
<1>12. CASE DeleteMissing
  BY <1>4, <1>12 DEF DeleteMissing
<1>13. CASE Delete
  <2> DEFINE k == call.key
  <2>1. k \in Keys
    BY <1>13, DeletePlace DEF Chain
  <2>2. height' \in [Keys -> 0..MaxLevel] /\ level' \in 0..MaxLevel
    BY <1>0, <1>13, <2>1 DEF Delete, LowerLevel, TypeOK
  <2>3. forward' \in [Nodes -> [Levels -> Nodes \cup {Nil}]]
    <3>1. \A n \in Nodes, l \in Levels :
              /\ forward[n][l] \in Nodes \cup {Nil}
              /\ forward[k][l] \in Nodes \cup {Nil}
      <4>1. \A n \in Nodes : forward[n] \in [Levels -> Nodes \cup {Nil}]
        BY <1>0 DEF TypeOK
      <4>2. k \in Nodes
        BY <2>1
      <4> HIDE DEF Nodes, Levels, k
      <4> QED
        BY <4>1, <4>2
    <3> HIDE DEF k
    <3>2. \A n \in Nodes, l \in Levels : Unlinked(k)[n][l] \in Nodes \cup {Nil}
      BY <3>1 DEF Unlinked
    <3>3. Unlinked(k) \in [Nodes -> [Levels -> Nodes \cup {Nil}]]
      BY <3>2 DEF Unlinked
    <3> QED
      BY <1>13, <3>3 DEF Delete, k
  <2>4. backward' \in [Nodes -> Nodes \cup {Nil}]
    BY <1>0, <1>13, <2>1 DEF Delete, TypeOK
  <2> QED
    BY <1>0, <1>13, <2>1, <2>2, <2>3, <2>4 DEF Delete, Return, End, TypeOK
<1>14. CASE ScanStart
  BY <1>0, <1>14 DEF ScanStart, TypeOK, listVars
<1>15. CASE ScanEmpty \/ ScanEnd
  BY <1>0, <1>15 DEF ScanEmpty, ScanEnd, End, TypeOK, listVars
<1>16. CASE ScanOn
  <2>1. curr # Header /\ curr \in Keys
    BY <1>16 DEF ScanOn, ListInv, BackwardMirrors, TypeOK
  <2> QED
    BY <1>0, <1>16, <2>1 DEF ScanOn, TypeOK, listVars
<1>17. CASE UNCHANGED vars
  BY <1>0, <1>17 DEF vars, listVars, TypeOK
<1> QED
  BY <1>1, <1>2, <1>3, <1>6, <1>7, <1>8, <1>9, <1>10, <1>11, <1>12, <1>13,
     <1>14, <1>15, <1>16, <1>17 DEF Next

\* Every step keeps the list right.
LEMMA StepList == IndexInv /\ [Next]_vars => ListInv'
<1> SUFFICES ASSUME IndexInv, [Next]_vars PROVE ListInv'
  OBVIOUS
<1>1. ASSUME NEW h \in Levels, InsertNew(h) PROVE ListInv'
  BY <1>1, InsertList
<1>2. CASE Delete
  BY <1>2, DeleteList
<1>3. CASE UNCHANGED listVars
  BY <1>3, ListKept DEF IndexInv
<1> QED
  BY <1>1, <1>2, <1>3
     DEF Next, vars, Call, Forth, Down, Search, Seek, SeekLast, SeekFirst,
         InsertFound, DeleteMissing, ScanStart, ScanEmpty, ScanOn, ScanEnd

\* Every step of a search keeps what it knows.
LEMMA StepSearch == IndexInv /\ [Next]_vars => SearchInv'
<1> SUFFICES ASSUME IndexInv, [Next]_vars PROVE SearchInv'
  OBVIOUS
<1> USE DEF IndexInv
<1>0. TypeOK /\ SearchInv /\ 1 \in Levels
  OBVIOUS
<1>1. ASSUME NEW c \in Calls, Call(c) PROVE SearchInv'
  <2>1. /\ pc = "idle" /\ pc' = "descend" /\ call' = c /\ at' = level
        /\ curr' = Header /\ update' = [l \in Levels |-> Header]
        /\ level' = level /\ height' = height /\ forward' = forward
        /\ scanned' = {}
    BY <1>0, <1>1 DEF Call, SearchInv, listVars
  <2>2. Upto(Header)'
    <3>1. CASE c \in [kind : ByKey, key : Keys]
      <4>1. c.key \in Nat \ {0}
        BY <3>1
      <4> QED
        BY <2>1, <4>1 DEF Upto
    <3>2. CASE c \in [kind : {"last", "scan"}, key : {Header}]
      BY <2>1, <3>2 DEF Upto, ByKey
    <3> QED
      BY <3>1, <3>2 DEF Calls
  <2>3. level = 0 => Placed(Header, 1)'
    <3>1. level = 0 => forward[Header][1] = Nil
      BY <1>0, ChainType
    <3> QED
      BY <2>1, <2>2, <3>1 DEF Placed, Before, Upto
  <2>4. level \in 0..MaxLevel
    BY <1>0 DEF TypeOK
  <2> QED
    BY <2>1, <2>2, <2>3, <2>4 DEF SearchInv
<1>2. CASE Forth
  <2>1. /\ pc = "descend" /\ pc' = "descend" /\ at > 0 /\ at' = at
        /\ curr' = forward[curr][at] /\ update' = update /\ call' = call
        /\ level' = level /\ height' = height /\ forward' = forward
        /\ scanned' = scanned /\ Before(curr')
    BY <1>2 DEF Forth, listVars
  <2>2. at \in Levels /\ curr \in Chain(at) \cup {0}
    BY <1>0, <2>1 DEF SearchInv, TypeOK
  <2>3. curr' \in Chain(at) /\ Chain(at) \subseteq Chain(1)
    BY <2>1, <2>2, ChainType DEF Before
  <2>4. Upto(curr)'
    BY <2>1, <2>3 DEF Upto, Before
  <2>5. ASSUME NEW l \in Levels PROVE Placed(update[l], l) <=> Placed(update[l], l)'
    BY <2>1 DEF Placed, Upto, Before, Chain
  <2>6. Chain(1)' = Chain(1) /\ Chain(at)' = Chain(at)
    BY <2>1 DEF Chain
  <2> QED
    BY <1>0, <2>1, <2>3, <2>4, <2>5, <2>6 DEF SearchInv, TypeOK
<1>3. CASE Down
  <2>1. /\ pc = "descend" /\ pc' = "descend" /\ at > 0 /\ at' = at - 1
        /\ update' = [update EXCEPT ![at] = curr] /\ curr' = curr
        /\ call' = call /\ scanned' = scanned
        /\ level' = level /\ height' = height /\ forward' = forward
        /\ ~Before(forward[curr][at])
    BY <1>3 DEF Down, listVars
  <2>2. /\ at \in Levels /\ at \in Int /\ curr \in Chain(at) \cup {0}
        /\ Upto(curr) /\ curr \in Chain(1) \cup {0} /\ at <= level
        /\ level \in Int
    BY <1>0, <2>1 DEF SearchInv, TypeOK
  <2>3. Placed(curr, at)
    BY <2>1, <2>2 DEF Placed
  <2>6. at - 1 > 0 => curr \in Chain(at - 1) \cup {0}
    <3>1. at - 1 > 0 /\ curr \in Chain(at) => curr \in Chain(at - 1)
      BY <1>0, <2>2 DEF Chain, TypeOK
    <3> QED
      BY <2>2, <3>1
  <2>7. ASSUME NEW l \in Levels, l > at - 1, l <= level
        PROVE  Placed(update[l], l)'
    <3>1. CASE l = at
      <4>1. update'[l] = curr
        BY <1>0, <2>1, <3>1 DEF TypeOK
      <4> QED
        BY <2>1, <2>3, <3>1, <4>1 DEF Placed, Upto, Before, Chain
    <3>2. CASE l # at
      <4>1. l > at /\ update'[l] = update[l]
        BY <1>0, <2>1, <2>2, <2>7, <3>2 DEF TypeOK
      <4>2. Placed(update[l], l)
        BY <1>0, <2>1, <2>7, <4>1 DEF SearchInv
      <4> QED
        BY <2>1, <4>1, <4>2 DEF Placed, Upto, Before, Chain
    <3> QED
      BY <3>1, <3>2
  <2>8. \A l \in Levels : l > level => update'[l] = Header
    BY <1>0, <2>1, <2>2 DEF SearchInv, TypeOK
  <2>9. at - 1 = 0 => Placed(curr, 1)' /\ curr = update'[1]
    <3>1. at - 1 = 0 => at = 1
      BY <2>2
    <3>2. at = 1 => update'[1] = curr
      BY <1>0, <2>1 DEF TypeOK
    <3> QED
      BY <2>1, <2>3, <3>1, <3>2 DEF Placed, Upto, Before, Chain
  <2>10. Upto(curr)'
    BY <2>1, <2>2 DEF Upto
  <2>11. call \in Calls /\ at - 1 <= level /\ scanned = {}
    BY <1>0, <2>1, <2>2 DEF SearchInv
  <2>12. /\ (curr \in Chain(1) \cup {Header})'
         /\ (at > 0 => curr \in Chain(at) \cup {Header})'
    BY <2>1, <2>2, <2>6 DEF Chain
  <2>13. \A l \in Levels : (l > at /\ l <= level => Placed(update[l], l))'
    BY <2>1, <2>7
  <2>14. (at = 0 => Placed(curr, 1) /\ curr = update[1])'
    BY <2>1, <2>9
  <2> QED
    BY <2>1, <2>8, <2>10, <2>11, <2>12, <2>13, <2>14 DEF SearchInv
<1>4. CASE End
  BY <1>0, <1>4 DEF End, SearchInv
<1>5. CASE SeekFirst
  BY <1>0, <1>5 DEF SeekFirst, SearchInv
<1>6. CASE ScanStart
  <2>1. curr \in Chain(1) \cup {Header} /\ pc' = "scan" /\ curr' = curr
        /\ height' = height
    BY <1>0, <1>6 DEF ScanStart, Searched, SearchInv, listVars
  <2> QED
    BY <2>1 DEF SearchInv, Chain
<1>7. CASE ScanOn
  <2>1. curr \in Chain(1)
    BY <1>0, <1>7 DEF ScanOn, SearchInv, ListInv, BackwardMirrors
  <2>2. backward[curr] \in Chain(1) \cup {Header}
    BY <2>1 DEF ListInv, BackwardMirrors
  <2>3. pc' = "scan" /\ curr' = backward[curr] /\ height' = height
    BY <1>7 DEF ScanOn, listVars
  <2> QED
    BY <2>2, <2>3 DEF SearchInv, Chain
<1>8. CASE UNCHANGED vars
  BY <1>0, <1>8 DEF vars, listVars, SearchInv, Placed, Upto, Before, Chain
<1> QED
  BY <1>1, <1>2, <1>3, <1>4, <1>5, <1>6, <1>7, <1>8
     DEF Next, Search, Seek, SeekLast, InsertFound, InsertNew, DeleteMissing,
         Delete, ScanEmpty, ScanEnd, Return

\* Every step of a scan keeps count of what it has passed.
LEMMA StepScan == IndexInv /\ [Next]_vars => ScanMissesNone'
<1> SUFFICES ASSUME IndexInv, [Next]_vars PROVE ScanMissesNone'
  OBVIOUS
<1> USE DEF IndexInv
<1>0. 1 \in Levels /\ Chain(1) \in SUBSET (Nat \ {0})
  <2>1. 1 \in Levels
    OBVIOUS
  <2> QED
    BY <2>1, ChainType
<1>1. CASE ScanStart
  <2>1. /\ pc = "descend" /\ at = 0 /\ call.kind = "scan"
        /\ curr' = curr /\ scanned' = scanned /\ height' = height
    BY <1>1 DEF ScanStart, Searched, listVars
  <2>2. /\ curr \in Chain(1) \cup {0} /\ IsNext(curr, After, Chain(1))
        /\ ~Before(After)
    BY <2>1, SearchThrough
  <2>3. After = Nil
    BY <2>1, <2>2 DEF Before, ByKey
  <2>4. \A k \in Chain(1) : ~(k > curr)
    BY <1>0, <2>2, <2>3 DEF IsNext
  <2>5. scanned = {}
    BY <2>1 DEF SearchInv
  <2> QED
    BY <2>1, <2>4, <2>5 DEF ScanMissesNone, Chain
<1>2. CASE ScanOn
  <2>1. /\ pc = "scan" /\ backward[curr] # Nil /\ scanned' = scanned \cup {curr}
        /\ curr' = backward[curr] /\ height' = height
    BY <1>2 DEF ScanOn, listVars
  <2>2. curr \in Chain(1)
    BY <2>1 DEF SearchInv, ListInv, BackwardMirrors
  <2>3. /\ backward[curr] \in Chain(1) \cup {0}
        /\ IsNext(backward[curr], curr, Chain(1))
    <3>1. /\ backward[curr] \in Chain(1) \cup {0}
          /\ forward[backward[curr]][1] = curr
      BY <2>2 DEF ListInv, BackwardMirrors
    <3> QED
      BY <1>0, <3>1, ChainType
  <2> DEFINE b == backward[curr]
  <2>4. \A k \in Chain(1) : k > b <=> (k > curr \/ k = curr)
    <3>1. b \in Chain(1) \cup {0} /\ IsNext(b, curr, Chain(1))
      BY <2>3
    <3> HIDE DEF b
    <3> QED
      BY <1>0, <2>2, <3>1 DEF IsNext
  <2>5. scanned = {k \in Chain(1) : k > curr}
    BY <2>1 DEF ScanMissesNone
  <2>6. scanned' = {k \in Chain(1) : k > b}
    BY <2>1, <2>2, <2>4, <2>5
  <2> QED
    BY <2>1, <2>6 DEF ScanMissesNone, Chain
<1>3. CASE pc' # "scan"
  BY <1>3 DEF ScanMissesNone
<1>4. CASE UNCHANGED <<pc, height, scanned, curr>>
  BY <1>4 DEF ScanMissesNone, Chain
<1> QED
  BY <1>1, <1>2, <1>3, <1>4
     DEF Next, vars, listVars, Call, Forth, Down, Search, Seek, SeekLast,
         SeekFirst, InsertFound, InsertNew, DeleteMissing, Delete, ScanEmpty,
         ScanEnd, Return, End

\* The four parts together are inductive.
LEMMA IndexInductive == Spec => []IndexInv
<1>1. IndexInv /\ [Next]_vars => IndexInv'
  BY StepType, StepList, StepSearch, StepScan DEF IndexInv
<1> QED
  BY <1>1, InitIndex, PTL DEF Spec

\* Whatever heights the nodes draw and whatever the calls, every chain links
\* its nodes in order and the backward links mirror the lowest one.
THEOREM ListAlwaysSorted == Spec => []ListInv
<1>1. IndexInv => ListInv
  BY DEF IndexInv
<1> QED
  BY <1>1, IndexInductive, PTL

\* The matching loop's scan of the bids passes every one of them.
THEOREM ScanNeverMisses == Spec => []ScanMissesNone
<1>1. IndexInv => ScanMissesNone
  BY DEF IndexInv
<1> QED
  BY <1>1, IndexInductive, PTL

\* A least element is what Least chooses, a greatest what Greatest does.
LEMMA LeastIs ==
    ASSUME NEW S \in SUBSET Nat, NEW k \in S, \A j \in S : k <= j
    PROVE  Index!Least(S) = k
<1> DEFINE x == CHOOSE i \in S : \A j \in S : i <= j
<1>1. x \in S /\ \A j \in S : x <= j
  OBVIOUS
<1>2. x = k
  <2> HIDE DEF x
  <2> QED
    BY <1>1
<1> QED
  BY <1>2 DEF Index!Least

LEMMA GreatestIs ==
    ASSUME NEW S \in SUBSET Nat, NEW k \in S, \A j \in S : k >= j
    PROVE  Index!Greatest(S) = k
<1> DEFINE x == CHOOSE i \in S : \A j \in S : i >= j
<1>1. x \in S /\ \A j \in S : x >= j
  OBVIOUS
<1>2. x = k
  <2> HIDE DEF x
  <2> QED
    BY <1>1
<1> QED
  BY <1>2 DEF Index!Greatest

\* An end of the search answers for the set of keys.
LEMMA SearchAnswers ==
    ASSUME IndexInv, pc = "descend", at = 0
    PROVE  /\ Search => Index!Search(call.key) /\ call.key \in Keys
           /\ Seek => Index!Seek(call.key) /\ call.key \in Keys
           /\ SeekLast => Index!SeekLast
<1> USE DEF IndexInv
<1> DEFINE k == call.key
<1>1. /\ 1 \in Levels /\ curr \in Chain(1) \cup {0} /\ Upto(curr)
      /\ IsNext(curr, After, Chain(1)) /\ ~Before(After)
  BY SearchThrough
<1>2. Chain(1) \in SUBSET (Nat \ {0}) /\ Chain(1) \subseteq Keys
  BY <1>1, ChainType
<1>3. UNCHANGED listVars => Chain(1)' = Chain(1)
  BY DEF listVars, Chain
<1>4. ASSUME call.kind \in ByKey
      PROVE  /\ k \in Keys /\ k \in Nat \ {0} /\ curr < k
             /\ After \in Chain(1) \cup {Nil} /\ (After # Nil => After >= k)
  <2>1. k \in Keys /\ k \in Nat \ {0}
    BY <1>4 DEF SearchInv, Calls, ByKey
  <2>2. curr < k /\ (After # Nil => ~(After < k))
    BY <1>1, <1>4 DEF Upto, Before
  <2>3. After \in Chain(1) \cup {Nil}
    BY <1>1 DEF IsNext
  <2> HIDE DEF k
  <2>4. After # Nil => After >= k
    BY <1>2, <2>1, <2>2, <2>3
  <2> QED
    BY <2>1, <2>2, <2>3, <2>4
<1>5. ASSUME Search PROVE Index!Search(k) /\ k \in Keys
  <2>1. call.kind \in ByKey /\ answer' = (IF After = k THEN After ELSE Nil)
        /\ Chain(1)' = Chain(1)
    BY <1>3, <1>5 DEF Search, Searched, Found, Return, ByKey
  <2>2. k \in Chain(1) <=> After = k
    <3>1. /\ k \in Nat \ {0} /\ curr < k /\ (After # Nil => After >= k)
          /\ After \in Chain(1) \cup {Nil}
      BY <1>4, <2>1
    <3> HIDE DEF k
    <3> QED
      BY <1>1, <1>2, <3>1 DEF IsNext
  <2> QED
    BY <1>4, <2>1, <2>2 DEF Index!Search
<1>6. ASSUME Seek PROVE Index!Seek(k) /\ k \in Keys
  <2>1. call.kind \in ByKey /\ Chain(1)' = Chain(1) /\ UNCHANGED listVars
        /\ answer' = IF After # Nil THEN After
                     ELSE IF curr # Header THEN curr ELSE Nil
    BY <1>3, <1>6 DEF Seek, Searched, Return, ByKey
  <2> DEFINE S == {j \in Chain(1) : j >= k}
  <2>2. /\ k \in Nat \ {0} /\ curr < k /\ (After # Nil => After >= k)
        /\ After \in Chain(1) \cup {Nil}
    BY <1>4, <2>1
  <2>3. CASE After # Nil
    <3>1. After \in S /\ \A j \in S : After <= j
      <4> HIDE DEF k
      <4> QED
        BY <1>1, <1>2, <2>2, <2>3 DEF IsNext
    <3>2. S \in SUBSET Nat
      BY <1>2
    <3>3. Index!Least(S) = After
      BY <3>1, <3>2, LeastIs
    <3>4. \E j \in Chain(1) : j >= k
      BY <3>1
    <3> QED
      BY <1>4, <2>1, <2>3, <3>3, <3>4 DEF Index!Seek
  <2>4. CASE After = Nil
    <3>1. \A j \in Chain(1) : j <= curr
      BY <1>1, <2>4 DEF IsNext
    <3>2. ~\E j \in Chain(1) : j >= k
      <4> HIDE DEF k
      <4> QED
        BY <1>1, <1>2, <2>2, <3>1
    <3>3. CASE curr # Header
      <4>1. Index!Greatest(Chain(1)) = curr
        BY <1>1, <1>2, <3>1, <3>3, GreatestIs
      <4> QED
        BY <1>4, <2>1, <2>4, <3>2, <3>3, <4>1 DEF Index!Seek
    <3>4. CASE curr = Header
      <4>1. Chain(1) = {}
        BY <1>2, <3>1, <3>4
      <4>2. Index!Greatest(Chain(1)) = Nil
        BY <4>1 DEF Index!Greatest
      <4> QED
        BY <1>4, <2>1, <2>4, <3>2, <3>4, <4>2 DEF Index!Seek
    <3> QED
      BY <3>3, <3>4
  <2> QED
    BY <2>3, <2>4
<1>7. ASSUME SeekLast PROVE Index!SeekLast
  <2>1. call.kind = "last" /\ Chain(1)' = Chain(1)
        /\ answer' = IF curr # Header THEN curr ELSE Nil
    BY <1>3, <1>7 DEF SeekLast, Searched, Return
  <2>2. After = Nil
    BY <1>1, <2>1 DEF Before, ByKey
  <2>3. \A j \in Chain(1) : j <= curr
    BY <1>1, <2>2 DEF IsNext
  <2>4. Index!Greatest(Chain(1)) = IF curr # Header THEN curr ELSE Nil
    <3>1. CASE curr # Header
      BY <1>1, <1>2, <2>3, <3>1, GreatestIs
    <3>2. CASE curr = Header
      <4>1. Chain(1) = {}
        BY <1>2, <2>3, <3>2
      <4> QED
        BY <3>2, <4>1 DEF Index!Greatest
    <3> QED
      BY <3>1, <3>2
  <2> QED
    BY <2>1, <2>4 DEF Index!SeekLast
<1> QED
  BY <1>5, <1>6, <1>7

\* Every step of the list is a call on the set of its keys, or no step of it.
LEMMA StepRefines ==
    IndexInv /\ [Next]_vars => [Index!Next]_<<Chain(1), answer>>
<1> SUFFICES ASSUME IndexInv, [Next]_vars
             PROVE  Index!Next \/ UNCHANGED <<Chain(1), answer>>
  BY DEF Index!Next
<1> USE DEF IndexInv
<1> DEFINE k == call.key
<1>0. 1 \in Levels /\ Chain(1) \in SUBSET (Nat \ {0})
  <2>1. 1 \in Levels
    OBVIOUS
  <2> QED
    BY <2>1, ChainType
<1>1. CASE UNCHANGED <<height, answer>>
  BY <1>1 DEF Chain
<1>2. CASE Search
  <2>1. Index!Search(k) /\ k \in Keys
    BY <1>2, SearchAnswers DEF Search, Searched
  <2> QED
    BY <2>1 DEF Index!Next
<1>3. CASE Seek
  <2>1. Index!Seek(k) /\ k \in Keys
    BY <1>3, SearchAnswers DEF Seek, Searched
  <2> QED
    BY <2>1 DEF Index!Next
<1>4. CASE SeekLast
  <2>1. Index!SeekLast
    BY <1>4, SearchAnswers DEF SeekLast, Searched
  <2> QED
    BY <2>1 DEF Index!Next
<1>5. CASE SeekFirst
  <2>1. answer' = forward[Header][1] /\ Chain(1)' = Chain(1)
    BY <1>5 DEF SeekFirst, listVars, Chain
  <2>2. IsNext(0, forward[Header][1], Chain(1))
    BY <1>0, ChainType
  <2>3. Index!Least(Chain(1)) = forward[Header][1]
    <3>1. CASE forward[Header][1] = Nil
      <4>1. \A j \in Chain(1) : j <= 0
        BY <2>2, <3>1 DEF IsNext
      <4>2. Chain(1) = {}
        BY <1>0, <4>1
      <4> QED
        BY <3>1, <4>2 DEF Index!Least
    <3>2. CASE forward[Header][1] # Nil
      <4>1. /\ forward[Header][1] \in Chain(1)
            /\ \A j \in Chain(1) : forward[Header][1] <= j
        BY <1>0, <2>2, <3>2 DEF IsNext
      <4> QED
        BY <1>0, <4>1, LeastIs
    <3> QED
      BY <3>1, <3>2
  <2>4. Index!SeekFirst
    BY <2>1, <2>3 DEF Index!SeekFirst
  <2> QED
    BY <2>4 DEF Index!Next
<1>6. CASE InsertFound
  <2>1. /\ pc = "descend" /\ at = 0 /\ call.kind = "insert" /\ After = k
        /\ answer' = k /\ Chain(1)' = Chain(1)
    BY <1>6 DEF InsertFound, Searched, Found, Return, listVars, Chain
  <2>2. k \in Keys
    BY <2>1 DEF SearchInv, Calls, ByKey
  <2>3. k \in Chain(1)
    <3>1. IsNext(curr, After, Chain(1))
      BY <2>1, SearchThrough
    <3> QED
      BY <2>1, <2>2, <3>1 DEF IsNext
  <2>4. Index!Insert(k)
    BY <2>1, <2>3 DEF Index!Insert
  <2> QED
    BY <2>2, <2>4 DEF Index!Next
<1>7. ASSUME NEW h \in Levels, InsertNew(h) PROVE Index!Next
  <2>1. 1 \in 1..h
    OBVIOUS
  <2>2. k \in Keys /\ Chain(1)' = Chain(1) \cup {k} /\ answer' = k
    BY <1>7, <2>1, InsertPlace, InsertList DEF InsertNew, Return
  <2>3. Index!Insert(k)
    BY <2>2 DEF Index!Insert
  <2> QED
    BY <2>2, <2>3 DEF Index!Next
<1>8. CASE DeleteMissing
  <2>1. /\ pc = "descend" /\ at = 0 /\ call.kind = "delete" /\ After # k
        /\ answer' = Nil /\ Chain(1)' = Chain(1)
    BY <1>8 DEF DeleteMissing, Searched, Found, Return, listVars, Chain
  <2>2. /\ IsNext(curr, After, Chain(1)) /\ ~Before(After) /\ Upto(curr)
        /\ curr \in Chain(1) \cup {0}
    BY <2>1, SearchThrough
  <2>3. k \in Keys /\ k \in Nat \ {0} /\ call.kind \in ByKey
    BY <2>1 DEF SearchInv, Calls, ByKey
  <2>4. curr < k /\ (After # Nil => ~(After < k))
        /\ After \in Chain(1) \cup {Nil}
    BY <2>2, <2>3 DEF Upto, Before, IsNext
  <2>5. k \notin Chain(1)
    <3>1. After # k
      BY <2>1
    <3> HIDE DEF k
    <3> QED
      BY <1>0, <2>2, <2>3, <2>4, <3>1 DEF IsNext
  <2>6. Index!Delete(k)
    BY <2>1, <2>5 DEF Index!Delete
  <2> QED
    BY <2>3, <2>6 DEF Index!Next
<1>9. CASE Delete
  <2>1. k \in Chain(1) /\ Chain(1)' = Chain(1) \ {k} /\ answer' = k
    BY <1>9, DeletePlace, DeleteList DEF Delete, Return
  <2>2. k \in Keys
    BY <2>1 DEF Chain
  <2>3. Index!Delete(k)
    BY <2>1 DEF Index!Delete
  <2> QED
    BY <2>2, <2>3 DEF Index!Next
<1> QED
  BY <1>1, <1>2, <1>3, <1>4, <1>5, <1>6, <1>7, <1>8, <1>9
     DEF Next, vars, listVars, Call, Forth, Down, ScanStart, ScanOn, ScanEmpty,
         ScanEnd, End

\* The list implements a set of keys with lower-bound search and both ends,
\* for any keys and any heights.
THEOREM ListImplementsIndex == Spec => ImplementsOrderedKeys
<1>1. Init => Index!Init
  <2>1. ASSUME Init PROVE Chain(1) = {} /\ answer = Nil
    BY <2>1 DEF Init, Chain
  <2> QED
    BY <2>1 DEF Index!Init
<1>2. Spec => []IndexInv
  BY IndexInductive
<1> QED
  BY <1>1, <1>2, StepRefines, PTL DEF Spec, Index!Spec, ImplementsOrderedKeys
=============================================================================
