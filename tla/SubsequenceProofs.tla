--------------------------- MODULE SubsequenceProofs ---------------------------
(***************************************************************************)
(* What Kept returns for every sequence.  The library's induction theorems *)
(* have operators for parameters; the least number for which a statement   *)
(* fails does their work.                                                  *)
(***************************************************************************)
EXTENDS Subsequence, WellFoundedInduction, TLAPS

\* A set of numbers has a least one.
LEMMA LeastNumber ==
    ASSUME NEW S \in SUBSET Nat, S # {}
    PROVE  \E m \in S : \A n \in S : m <= n
  <1>1. \E m \in S : \A n \in S : ~(<<n, m>> \in OpToRel(<, Nat))
    BY NatLessThanWellFounded, WFMin
  <1>2. \A m, n \in S : ~(<<n, m>> \in OpToRel(<, Nat)) => m <= n
    BY DEF OpToRel
  <1> QED
    BY <1>1, <1>2

\* A set that holds zero and, with a number, the next one, holds them all.
LEMMA AllNumbers ==
    ASSUME NEW N \in Nat, NEW S, 0 \in S,
           \A n \in 1..N : n - 1 \in S => n \in S
    PROVE  \A n \in 0..N : n \in S
  <1> DEFINE T == {n \in 0..N : n \notin S}
  <1>1. SUFFICES ASSUME T # {} PROVE FALSE
    OBVIOUS
  <1>2. PICK m \in T : \A n \in T : m <= n
    <2>1. T \in SUBSET Nat
      OBVIOUS
    <2> QED
      BY <2>1, <1>1, LeastNumber
  <1>3. m \in 1..N /\ m - 1 \in 0..N /\ m - 1 \notin T
    BY <1>2
  <1> QED
    BY <1>2, <1>3

\* The parts of s that are kept of its beginnings.
Filter(s, S, f) ==
    f = [n \in 0..Len(s) |->
            IF n = 0 THEN <<>>
            ELSE IF s[n] \in S THEN Append(f[n - 1], s[n]) ELSE f[n - 1]]

\* The recursion of Kept defines a function.
LEMMA FilterExists ==
    ASSUME NEW T, NEW s \in Seq(T), NEW S
    PROVE  \E f : Filter(s, S, f)
  <1> DEFINE Upto(k, g) ==
                g = [n \in 0..k |->
                        IF n = 0 THEN <<>>
                        ELSE IF s[n] \in S THEN Append(g[n - 1], s[n]) ELSE g[n - 1]]
             Fine == {k \in 0..Len(s) : \E g : Upto(k, g)}
  <1>1. 0 \in Fine
    <2> DEFINE g == [n \in 0..0 |-> <<>>]
    <2>1. Upto(0, g)
      OBVIOUS
    <2>2. \E f : Upto(0, f)
      BY <2>1
    <2> QED
      BY <2>2
  <1>2. ASSUME NEW k \in 1..Len(s), k - 1 \in Fine
        PROVE  k \in Fine
    <2>1. PICK g : Upto(k - 1, g)
      BY <1>2
    <2> DEFINE new == IF s[k] \in S THEN Append(g[k - 1], s[k]) ELSE g[k - 1]
               h == [n \in 0..k |-> IF n = k THEN new ELSE g[n]]
    <2>2. \A n \in 0..(k - 1) : h[n] = g[n]
      OBVIOUS
    <2>3. h[k] = IF s[k] \in S THEN Append(h[k - 1], s[k]) ELSE h[k - 1]
      BY <2>2
    <2>4. ASSUME NEW n \in 1..(k - 1)
          PROVE  h[n] = IF s[n] \in S THEN Append(h[n - 1], s[n]) ELSE h[n - 1]
      <3>1. n \in 0..(k - 1) /\ n - 1 \in 0..(k - 1) /\ n # 0
        OBVIOUS
      <3>2. g[n] = IF s[n] \in S THEN Append(g[n - 1], s[n]) ELSE g[n - 1]
        BY <2>1, <3>1
      <3> QED
        BY <2>2, <3>1, <3>2
    <2>5. h[0] = <<>>
      BY <2>1
    <2>6. h = [n \in 0..k |-> h[n]]
      OBVIOUS
    <2> HIDE DEF h
    <2>7. \A n \in 0..k :
            h[n] = IF n = 0 THEN <<>>
                   ELSE IF s[n] \in S THEN Append(h[n - 1], s[n]) ELSE h[n - 1]
      BY <2>3, <2>4, <2>5
    <2>8. Upto(k, h)
      BY <2>6, <2>7
    <2>9. \E f : Upto(k, f)
      BY <2>8
    <2> QED
      BY <2>9
  <1>3. Len(s) \in Nat /\ Len(s) \in 0..Len(s)
    OBVIOUS
  <1> HIDE DEF Fine
  <1>4. Len(s) \in Fine
    BY <1>1, <1>2, <1>3, AllNumbers
  <1> QED
    BY <1>4 DEF Filter, Fine

\* Kept is what is kept of the whole.
LEMMA KeptFilters ==
    ASSUME NEW T, NEW s \in Seq(T), NEW S
    PROVE  \E f : Filter(s, S, f) /\ Kept(s, S) = f[Len(s)]
  <1> DEFINE g == CHOOSE f : Filter(s, S, f)
  <1>1. Filter(s, S, g)
    BY FilterExists
  <1>2. Kept(s, S) = g[Len(s)]
    BY DEF Kept, Filter
  <1> QED
    BY <1>1, <1>2
\* A sequence of those elements of s that are in S, all of them and in the order
\* they have.
IsPart(t, s, n, S) ==
    /\ \A i \in 1..n : s[i] \in S => \E j \in DOMAIN t : t[j] = s[i]
    /\ \A j \in DOMAIN t : \E i \in 1..n : t[j] = s[i]
    /\ \A j, k \in DOMAIN t : j < k =>
            \E i, l \in 1..n : i < l /\ t[j] = s[i] /\ t[k] = s[l]

\* What the next element adds.
LEMMA PartGrows ==
    ASSUME NEW T, NEW s \in Seq(T), NEW S, NEW n \in 1..Len(s),
           NEW t \in Seq(T \cap S), IsPart(t, s, n - 1, S)
    PROVE  LET u == IF s[n] \in S THEN Append(t, s[n]) ELSE t
           IN  u \in Seq(T \cap S) /\ IsPart(u, s, n, S)
  <1>1. n - 1 \in Nat /\ s[n] \in T /\ \A i \in 1..n : i \in 1..(n - 1) \/ i = n
    OBVIOUS
  <1>2. 1..(n - 1) \subseteq 1..n
    OBVIOUS
  <1>3. CASE s[n] \notin S
    BY <1>1, <1>2, <1>3 DEF IsPart
  <1>4. CASE s[n] \in S
    <2> DEFINE u == Append(t, s[n])
    <2>1. /\ u \in Seq(T \cap S) /\ Len(u) = Len(t) + 1 /\ u[Len(t) + 1] = s[n]
          /\ \A j \in DOMAIN t : u[j] = t[j]
          /\ DOMAIN u = 1..(Len(t) + 1) /\ DOMAIN t = 1..Len(t)
      BY <1>1, <1>4
    <2> HIDE DEF u
    <2>2. \A j \in DOMAIN u : j \in DOMAIN t \/ j = Len(t) + 1
      BY <2>1
    <2>3. \A i \in 1..n : s[i] \in S => \E j \in DOMAIN u : u[j] = s[i]
      <3>1. TAKE i \in 1..n
      <3>2. CASE i \in 1..(n - 1)
        BY <3>2, <2>1 DEF IsPart
      <3>3. CASE i = n
        BY <3>3, <2>1
      <3> QED
        BY <3>2, <3>3, <1>1
    <2>4. \A j \in DOMAIN u : \E i \in 1..n : u[j] = s[i]
      <3>1. TAKE j \in DOMAIN u
      <3>2. CASE j \in DOMAIN t
        <4>1. PICK i \in 1..(n - 1) : t[j] = s[i]
          BY <3>2 DEF IsPart
        <4> QED
          BY <4>1, <3>2, <2>1, <1>2
      <3>3. CASE j = Len(t) + 1
        BY <3>3, <2>1
      <3> QED
        BY <3>2, <3>3, <2>2
    <2>5. ASSUME NEW j \in DOMAIN u, NEW k \in DOMAIN u, j < k
          PROVE  \E i, l \in 1..n : i < l /\ u[j] = s[i] /\ u[k] = s[l]
      <3>1. j \in DOMAIN t
        BY <2>5, <2>1
      <3>2. CASE k \in DOMAIN t
        <4>1. PICK i, l \in 1..(n - 1) : i < l /\ t[j] = s[i] /\ t[k] = s[l]
          BY <3>1, <3>2, <2>5 DEF IsPart
        <4> QED
          BY <4>1, <3>1, <3>2, <2>1, <1>2
      <3>3. CASE k = Len(t) + 1
        <4>1. PICK i \in 1..(n - 1) : t[j] = s[i]
          BY <3>1 DEF IsPart
        <4>2. i < n /\ i \in 1..n /\ n \in 1..n
          BY <4>1
        <4> QED
          BY <4>1, <4>2, <3>1, <3>3, <2>1
      <3> QED
        BY <3>2, <3>3, <2>2
    <2>6. IsPart(u, s, n, S)
      BY <2>3, <2>4, <2>5 DEF IsPart
    <2> QED
      BY <2>1, <2>6, <1>4 DEF u
  <1> QED
    BY <1>3, <1>4

\* Kept keeps the elements that are in S and no others, and their order.
LEMMA KeptIsPart ==
    ASSUME NEW T, NEW s \in Seq(T), NEW S
    PROVE  Kept(s, S) \in Seq(T \cap S) /\ IsPart(Kept(s, S), s, Len(s), S)
  <1>1. PICK f : Filter(s, S, f) /\ Kept(s, S) = f[Len(s)]
    BY KeptFilters
  <1> DEFINE Fine == {n \in 0..Len(s) : f[n] \in Seq(T \cap S) /\ IsPart(f[n], s, n, S)}
  <1>2. 0 \in Fine
    <2>1. f[0] = <<>>
      BY <1>1 DEF Filter
    <2>2. f[0] \in Seq(T \cap S) /\ DOMAIN f[0] = {}
      BY <2>1
    <2>3. IsPart(f[0], s, 0, S)
      BY <2>2 DEF IsPart
    <2> QED
      BY <2>2, <2>3
  <1>3. ASSUME NEW n \in 1..Len(s), n - 1 \in Fine
        PROVE  n \in Fine
    <2>0. n \in 0..Len(s) /\ n # 0
      OBVIOUS
    <2>1. f[n] = IF s[n] \in S THEN Append(f[n - 1], s[n]) ELSE f[n - 1]
      BY <1>1, <2>0 DEF Filter
    <2>2. f[n - 1] \in Seq(T \cap S) /\ IsPart(f[n - 1], s, n - 1, S)
      BY <1>3
    <2>3. f[n] \in Seq(T \cap S) /\ IsPart(f[n], s, n, S)
      BY <2>1, <2>2, PartGrows
    <2> QED
      BY <2>3
  <1>4. Len(s) \in Nat /\ Len(s) \in 0..Len(s)
    OBVIOUS
  <1> HIDE DEF Fine
  <1>5. Len(s) \in Fine
    BY <1>2, <1>3, <1>4, AllNumbers
  <1> QED
    BY <1>1, <1>5 DEF Fine

\* What is kept is of the same kind.
LEMMA KeptOf ==
    ASSUME NEW T, NEW s \in Seq(T), NEW S
    PROVE  Kept(s, S) \in Seq(T) /\ \A j \in DOMAIN Kept(s, S) : Kept(s, S)[j] \in S
  <1> DEFINE k == Kept(s, S)
  <1>1. k \in Seq(T \cap S)
    BY KeptIsPart
  <1> HIDE DEF k
  <1>2. k \in Seq(T) /\ \A j \in DOMAIN k : k[j] \in S
    BY <1>1
  <1> QED
    BY <1>2 DEF k
=============================================================================
