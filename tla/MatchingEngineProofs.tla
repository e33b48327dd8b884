------------------------- MODULE MatchingEngineProofs -------------------------
(***************************************************************************)
(* Theorems about MatchingEngine.  The first hold for any callers,         *)
(* snapshots, buffer, sync mode, crashes and failing operations on files;  *)
(* what an answer is worth is proved for an engine without snapshots, for  *)
(* the commands that got into a log, which is synced unless only the       *)
(* process dies.                                                           *)
(***************************************************************************)
EXTENDS MatchingEngine, SubsequenceProofs, SequenceTheorems

-----------------------------------------------------------------------------
(* Running commands *)

\* f is the book after each beginning of the commands.
Runs(b, cmds, f) ==
    f = [n \in 0..Len(cmds) |-> IF n = 0 THEN b ELSE Apply(f[n - 1], cmds[n])]

\* There is one such function.
LEMMA RunsExist ==
    ASSUME NEW T, NEW cmds \in Seq(T), NEW b
    PROVE  \E f : Runs(b, cmds, f)
  <1> DEFINE Upto(k, g) ==
                g = [n \in 0..k |-> IF n = 0 THEN b ELSE Apply(g[n - 1], cmds[n])]
             Fine == {k \in 0..Len(cmds) : \E g : Upto(k, g)}
  <1>1. 0 \in Fine
    <2> DEFINE g == [n \in 0..0 |-> b]
    <2>1. Upto(0, g)
      OBVIOUS
    <2>2. \E f : Upto(0, f)
      BY <2>1
    <2> QED
      BY <2>2
  <1>2. ASSUME NEW k \in 1..Len(cmds), k - 1 \in Fine
        PROVE  k \in Fine
    <2>1. PICK g : Upto(k - 1, g)
      BY <1>2
    <2> DEFINE new == Apply(g[k - 1], cmds[k])
               h == [n \in 0..k |-> IF n = k THEN new ELSE g[n]]
    <2>2. \A n \in 0..(k - 1) : h[n] = g[n]
      OBVIOUS
    <2>3. h[k] = Apply(h[k - 1], cmds[k])
      BY <2>2
    <2>4. ASSUME NEW n \in 1..(k - 1)
          PROVE  h[n] = Apply(h[n - 1], cmds[n])
      <3>1. n \in 0..(k - 1) /\ n - 1 \in 0..(k - 1) /\ n # 0
        OBVIOUS
      <3>2. g[n] = Apply(g[n - 1], cmds[n])
        BY <2>1, <3>1
      <3> QED
        BY <2>2, <3>1, <3>2
    <2>5. h[0] = b
      BY <2>1
    <2>6. h = [n \in 0..k |-> h[n]]
      OBVIOUS
    <2> HIDE DEF h
    <2>7. \A n \in 0..k : h[n] = IF n = 0 THEN b ELSE Apply(h[n - 1], cmds[n])
      BY <2>3, <2>4, <2>5
    <2>8. Upto(k, h)
      BY <2>6, <2>7
    <2>9. \E f : Upto(k, f)
      BY <2>8
    <2> QED
      BY <2>9
  <1>3. Len(cmds) \in Nat /\ Len(cmds) \in 0..Len(cmds)
    OBVIOUS
  <1> HIDE DEF Fine
  <1>4. Len(cmds) \in Fine
    BY <1>1, <1>2, <1>3, AllNumbers
  <1> QED
    BY <1>4 DEF Runs, Fine

\* f is so for the first N commands.
Follows(b, cmds, N, f) ==
    \A n \in 0..N : f[n] = IF n = 0 THEN b ELSE Apply(f[n - 1], cmds[n])

LEMMA RunsAgree ==
    ASSUME NEW cmds, NEW b, NEW f, NEW g, NEW N \in Nat,
           Follows(b, cmds, N, f), Follows(b, cmds, N, g)
    PROVE  \A n \in 0..N : f[n] = g[n]
  <1> DEFINE Fine == {n \in 0..N : f[n] = g[n]}
  <1>1. 0 \in Fine
    BY DEF Follows
  <1>2. ASSUME NEW n \in 1..N, n - 1 \in Fine
        PROVE  n \in Fine
    <2>1. n \in 0..N /\ n # 0 /\ f[n - 1] = g[n - 1]
      BY <1>2
    <2> QED
      BY <2>1 DEF Follows
  <1> HIDE DEF Fine
  <1>3. \A n \in 0..N : n \in Fine
    BY <1>1, <1>2, AllNumbers
  <1> QED
    BY <1>3 DEF Fine

LEMMA RunIsLast ==
    ASSUME NEW T, NEW cmds \in Seq(T), NEW b
    PROVE  \E f : Runs(b, cmds, f) /\ Run(b, cmds) = f[Len(cmds)]
  <1> DEFINE g == CHOOSE f : Runs(b, cmds, f)
  <1>1. Runs(b, cmds, g)
    BY RunsExist
  <1>2. Run(b, cmds) = g[Len(cmds)]
    BY DEF Run, Runs
  <1> QED
    BY <1>1, <1>2

LEMMA RunNothing == ASSUME NEW b PROVE Run(b, <<>>) = b
  <1>1. <<>> \in Seq({}) /\ Len(<<>>) = 0
    OBVIOUS
  <1>2. PICK f : Runs(b, <<>>, f) /\ Run(b, <<>>) = f[Len(<<>>)]
    BY <1>1, RunIsLast
  <1> QED
    BY <1>1, <1>2 DEF Runs

\* One command more.
LEMMA RunAppends ==
    ASSUME NEW T, NEW cmds \in Seq(T), NEW b, NEW cmd \in T
    PROVE  Run(b, Append(cmds, cmd)) = Apply(Run(b, cmds), cmd)
  <1> DEFINE all == Append(cmds, cmd)
             N == Len(cmds)
  <1>1. /\ all \in Seq(T) /\ Len(all) = N + 1 /\ all[N + 1] = cmd /\ N \in Nat
        /\ \A n \in 1..N : all[n] = cmds[n]
    OBVIOUS
  <1>2. PICK f : Runs(b, all, f) /\ Run(b, all) = f[Len(all)]
    BY <1>1, RunIsLast
  <1>3. PICK g : Runs(b, cmds, g) /\ Run(b, cmds) = g[N]
    BY RunIsLast
  <1> HIDE DEF all
  <1>4. Follows(b, cmds, N, f)
    <2>1. ASSUME NEW n \in 0..N
          PROVE  f[n] = IF n = 0 THEN b ELSE Apply(f[n - 1], cmds[n])
      <3>1. n \in 0..Len(all) /\ (n # 0 => n \in 1..N)
        BY <1>1
      <3> QED
        BY <1>1, <1>2, <3>1 DEF Runs
    <2> QED
      BY <2>1 DEF Follows
  <1>5. Follows(b, cmds, N, g)
    BY <1>3 DEF Runs, Follows
  <1>6. N \in 0..N
    BY <1>1
  <1>7. f[N] = g[N]
    BY <1>1, <1>4, <1>5, <1>6, RunsAgree
  <1>8. f[N + 1] = Apply(f[N], cmd)
    <2>1. N + 1 \in 0..Len(all) /\ N + 1 # 0 /\ (N + 1) - 1 = N
      BY <1>1
    <2> QED
      BY <1>1, <1>2, <2>1 DEF Runs
  <1> QED
    BY <1>1, <1>2, <1>3, <1>7, <1>8 DEF all

\* First these, then those.
LEMMA RunContinues ==
    ASSUME NEW T, NEW s \in Seq(T), NEW t \in Seq(T), NEW b
    PROVE  Run(b, s \o t) = Run(Run(b, s), t)
  <1> DEFINE part(n) == SubSeq(t, 1, n)
             Fine == {n \in 0..Len(t) : Run(b, s \o part(n)) = Run(Run(b, s), part(n))}
  <1>1. 0 \in Fine
    <2>1. part(0) = <<>> /\ s \o <<>> = s
      OBVIOUS
    <2>2. Run(b, s \o part(0)) = Run(b, s)
      BY <2>1
    <2>3. Run(Run(b, s), part(0)) = Run(b, s)
      BY <2>1, RunNothing
    <2> QED
      BY <2>2, <2>3
  <1>2. ASSUME NEW n \in 1..Len(t), n - 1 \in Fine
        PROVE  n \in Fine
    <2>1. part(n) = Append(part(n - 1), t[n]) /\ part(n - 1) \in Seq(T) /\ t[n] \in T
      OBVIOUS
    <2>2. s \o part(n) = Append(s \o part(n - 1), t[n]) /\ s \o part(n - 1) \in Seq(T)
      BY <2>1
    <2> HIDE DEF part
    <2>3. Run(b, s \o part(n)) = Apply(Run(b, s \o part(n - 1)), t[n])
      <3> DEFINE u == s \o part(n - 1)
      <3>1. u \in Seq(T) /\ t[n] \in T /\ s \o part(n) = Append(u, t[n])
        BY <2>1, <2>2
      <3> HIDE DEF u
      <3>2. Run(b, Append(u, t[n])) = Apply(Run(b, u), t[n])
        BY <3>1, RunAppends
      <3> QED
        BY <3>1, <3>2 DEF u
    <2>4. Run(Run(b, s), part(n)) = Apply(Run(Run(b, s), part(n - 1)), t[n])
      BY <2>1, RunAppends
    <2> QED
      BY <1>2, <2>3, <2>4
  <1>3. Len(t) \in Nat /\ Len(t) \in 0..Len(t) /\ part(Len(t)) = t
    OBVIOUS
  <1> HIDE DEF part, Fine
  <1>4. Len(t) \in Fine
    BY <1>1, <1>2, <1>3, AllNumbers
  <1> QED
    BY <1>3, <1>4 DEF Fine

-----------------------------------------------------------------------------
(* Types *)

\* What the actor executes.
Handled == {cmd \in CommandSet : cmd.op # "trade"}

Records == [lsn : Nat, entry : CommandSet \cup {Torn}]

LogTypes ==
    /\ lsn \in Nat /\ log \in Seq(Records) /\ synced \in 0..Len(log)
    /\ appender \in [Appenders -> [pc : {"idle", "write", "sync"}, lsn : Nat,
                                   entry : CommandSet \cup {NoEntry}]]
    /\ \A a \in Appenders : appender[a].pc # "idle" => appender[a].entry \in CommandSet
    /\ truncator \in [Truncators -> [pc : {"idle", "captured", "rewrite"}, upTo : Nat,
                                     kept : Seq(Records)]]

Queue == Seq([client : Clients, cmd : Handled])

CallTypes ==
    /\ client \in [Clients -> [pc : {"idle", "append", "send", "wait", "reply"},
                               cmd : Handled \cup {NoEntry}, traded : BOOLEAN]]
    /\ \A c \in Clients : client[c].pc # "idle" => client[c].cmd \in Handled
    /\ cmdCh \in Queue /\ cancelCh \in Queue
    /\ up \in BOOLEAN /\ calls \in 0..MaxCalls

BookTypes == book \in Seq(Nat) /\ applied \in Seq(Handled)

NotifyTypes ==
    /\ notify \in Seq(Handled)
    /\ notifier \in [pc : {"idle", "append", "check"}, cmd : Handled \cup {NoEntry}]

Copy == [pc : {"idle", "lsn", "take", "create", "write", "rename", "unlink", "link", "cut",
               "rewrite"},
         at : {"none", "temp", "final", "gone"}, book : Seq(Nat), covers : Seq(Handled)]

File == [whole : BOOLEAN, book : Seq(Nat), covers : Seq(Handled)]

\* A log is cut, and recovery begins, only where a snapshot file is.
StoreTypes ==
    /\ snap \in [Snapshots -> Copy]
    /\ \A n \in DOMAIN temps : temps[n] \in File
    /\ \A n \in DOMAIN files : files[n] \in File
    /\ latest \subseteq DOMAIN files
    /\ \A t \in Snapshots :
        /\ truncator[t].pc = "rewrite" => snap[t].pc = "rewrite"
        /\ snap[t].pc \in {"unlink", "link", "cut", "rewrite"} =>
                truncator[t].upTo \in DOMAIN files

EngineTypes == LogTypes /\ CallTypes /\ BookTypes /\ NotifyTypes /\ StoreTypes

LEMMA Elements == ASSUME NEW T, NEW s \in Seq(T) PROVE \A i \in DOMAIN s : s[i] \in T
OBVIOUS

LEMMA TailOf ==
    ASSUME NEW T, NEW s \in Seq(T), NEW n \in 0..Len(s)
    PROVE  /\ SubSeq(s, n + 1, Len(s)) \in Seq(T)
           /\ Len(SubSeq(s, n + 1, Len(s))) = Len(s) - n
           /\ \A i \in 1..(Len(s) - n) : SubSeq(s, n + 1, Len(s))[i] = s[n + i]
OBVIOUS

\* What NewWAL makes of the file is a beginning of it, without what was cut short.
LEMMA ReadableIsPrefix ==
    ASSUME NEW file \in Seq(Records)
    PROVE  /\ \E n \in 0..Len(file) : Readable(file) = SubSeq(file, 1, n)
           /\ Readable(file) \in Seq(Records)
  <1> DEFINE torn == {i \in DOMAIN file : file[i].entry = Torn}
             m == CHOOSE i \in torn : \A j \in torn : i <= j
  <1>1. Readable(file) = IF torn = {} THEN file ELSE SubSeq(file, 1, m - 1)
    BY DEF Readable
  <1>2. DOMAIN file = 1..Len(file) /\ Len(file) \in Nat
    OBVIOUS
  <1>3. CASE torn = {}
    <2>1. file = SubSeq(file, 1, Len(file)) /\ Len(file) \in 0..Len(file)
      OBVIOUS
    <2> QED
      BY <1>1, <1>3, <2>1
  <1>4. CASE torn # {}
    <2>1. m \in torn
      <3>1. torn \in SUBSET Nat
        BY <1>2
      <3>2. \E i \in torn : \A j \in torn : i <= j
        BY <1>4, <3>1, LeastNumber
      <3> QED
        BY <3>2
    <2>2. m - 1 \in 0..Len(file)
      BY <1>2, <2>1
    <2>3. Readable(file) = SubSeq(file, 1, m - 1)
      BY <1>1, <1>4
    <2> HIDE DEF m, torn
    <2>4. SubSeq(file, 1, m - 1) \in Seq(Records)
      BY <2>2
    <2> QED
      BY <2>2, <2>3, <2>4
  <1> QED
    BY <1>3, <1>4

LEMMA CleanIsPrefix ==
    ASSUME NEW file \in Seq(Records)
    PROVE  \E n \in 0..Len(file) : Clean(file) = SubSeq(file, 1, n)
  <1> DEFINE r == Readable(file)
             k == IF Len(r) < BufferRecords THEN Len(r) ELSE BufferRecords
  <1>1. PICK n \in 0..Len(file) : r = SubSeq(file, 1, n)
    BY ReadableIsPrefix
  <1>2. Len(r) = n /\ n \in Nat
    BY <1>1
  <1>3. k \in 0..n
    BY <1>2, BufferAssumption
  <1>4. Clean(file) = SubSeq(r, 1, k)
    BY DEF Clean
  <1> HIDE DEF r, k
  <1>5. SubSeq(r, 1, k) = SubSeq(file, 1, k)
    BY <1>1, <1>3
  <1> QED
    BY <1>3, <1>4, <1>5

\* The records read are records of the file, in its order, but for those that
\* cannot be decoded.
Found(reading, file) ==
    /\ \A j \in DOMAIN reading :
        reading[j].entry = Torn \/ \E i \in DOMAIN file : reading[j] = file[i]
    /\ \A j, k \in DOMAIN reading :
        j < k /\ reading[j].entry # Torn /\ reading[k].entry # Torn =>
            \E i, l \in DOMAIN file : i < l /\ reading[j] = file[i] /\ reading[k] = file[l]

\* Replay and Truncate read a file that their buffer holds as it is, and may leave
\* out what they like of another.
LEMMA ReadingsAre ==
    ASSUME NEW file \in Seq(Records), NEW reading \in Readings(file)
    PROVE  /\ reading \in Seq(Records) /\ Found(reading, file)
           /\ Clean(file) = file => reading = file
  <1> DEFINE rest == SubSeq(file, Len(Clean(file)) + 1, Len(file))
  <1>1. PICK n \in 0..Len(file) : Clean(file) = SubSeq(file, 1, n)
    BY CleanIsPrefix
  <1>2. /\ Len(Clean(file)) = n /\ n \in Nat /\ Len(file) \in Nat
        /\ Clean(file) \in Seq(Records) /\ DOMAIN file = 1..Len(file)
        /\ \A i \in 1..n : Clean(file)[i] = file[i]
    BY <1>1
  <1>3. /\ rest \in Seq(Records) /\ Len(rest) = Len(file) - n
        /\ \A i \in 1..Len(rest) : rest[i] = file[n + i]
    <2>1. rest = SubSeq(file, n + 1, Len(file))
      BY <1>2
    <2> QED
      BY <2>1, TailOf
  <1>4. \/ rest = <<>> /\ reading = file
        \/ /\ rest # <<>>
           /\ \E r \in {rest} \cup Misread(rest) : \E S : reading = Clean(file) \o Kept(r, S)
    BY DEF Readings
  <1>5. ASSUME Clean(file) = file
        PROVE  reading = file
    <2>1. Len(rest) = 0
      BY <1>2, <1>3, <1>5
    <2> HIDE DEF rest
    <2>2. rest = <<>>
      BY <1>3, <2>1
    <2> QED
      BY <1>4, <2>2
  <1> HIDE DEF rest
  <1>6. CASE rest = <<>> /\ reading = file
    BY <1>5, <1>6 DEF Found
  <1>7. ASSUME rest # <<>>, NEW r \in {rest} \cup Misread(rest), NEW S,
               reading = Clean(file) \o Kept(r, S)
        PROVE  reading \in Seq(Records) /\ Found(reading, file)
    <2> DEFINE k == Kept(r, S)
               N == Len(rest)
    <2>1. rest[1] \in Records /\ rest[1].lsn \in Nat /\ Len(rest) \in Nat /\ Len(rest) > 0
      <3>1. Len(rest) \in Nat /\ Len(rest) > 0
        BY <1>3, <1>7, EmptySeq
      <3>2. rest[1] \in Records
        BY <1>3, <3>1, Elements
      <3> QED
        BY <3>1, <3>2 DEF Records
    <2>2. /\ r \in Seq(Records) /\ Len(r) = N
          /\ r[1] = rest[1] \/ r[1].entry = Torn
          /\ \A i \in 2..N : r[i] = rest[i]
      <3>1. CASE r = rest
        BY <1>3, <3>1
      <3>2. CASE r \in Misread(rest)
        <4>1. PICK m \in ScrapLSNs \cup {rest[1].lsn} :
                r = <<[lsn |-> m, entry |-> Torn]>> \o Tail(rest)
          BY <3>2 DEF Misread
        <4>2. [lsn |-> m, entry |-> Torn] \in Records
          BY <2>1, BufferAssumption DEF Records
        <4>3. /\ Tail(rest) \in Seq(Records) /\ Len(Tail(rest)) = N - 1
              /\ \A i \in 1..(N - 1) : Tail(rest)[i] = rest[i + 1]
          BY <1>3, <1>7, <2>1
        <4> DEFINE first == [lsn |-> m, entry |-> Torn]
        <4>4. first.entry = Torn
          OBVIOUS
        <4>5. first \in Records
          BY <4>2
        <4> HIDE DEF first
        <4>6. r = <<first>> \o Tail(rest)
          BY <4>1 DEF first
        <4>7. /\ r \in Seq(Records) /\ Len(r) = N /\ r[1] = first
              /\ \A i \in 2..N : r[i] = Tail(rest)[i - 1]
          BY <2>1, <4>3, <4>5, <4>6
        <4>8. \A i \in 2..N : Tail(rest)[i - 1] = rest[i]
          <5>1. TAKE i \in 2..N
          <5>2. i - 1 \in 1..(N - 1) /\ (i - 1) + 1 = i
            BY <2>1
          <5> QED
            BY <4>3, <5>2
        <4> QED
          BY <4>4, <4>7, <4>8
      <3> QED
        BY <1>7, <3>1, <3>2
    <2>3. k \in Seq(Records \cap S) /\ IsPart(k, r, Len(r), S)
      BY <2>2, KeptIsPart
    <2>4. k \in Seq(Records)
      BY <2>3
    <2> HIDE DEF k
    <2>5. /\ reading \in Seq(Records) /\ Len(reading) = n + Len(k)
          /\ \A j \in 1..n : reading[j] = file[j]
          /\ \A j \in (n + 1)..(n + Len(k)) : reading[j] = k[j - n]
          /\ DOMAIN reading = 1..(n + Len(k)) /\ Len(k) \in Nat /\ DOMAIN k = 1..Len(k)
      <3> DEFINE clean == Clean(file)
      <3>1. reading = clean \o k
        BY <1>7 DEF k
      <3>2. clean \in Seq(Records) /\ Len(clean) = n /\ \A i \in 1..n : clean[i] = file[i]
        BY <1>2
      <3> HIDE DEF clean
      <3>3. /\ reading \in Seq(Records) /\ Len(reading) = n + Len(k) /\ Len(k) \in Nat
            /\ \A j \in 1..(n + Len(k)) : reading[j] = IF j <= n THEN clean[j] ELSE k[j - n]
        <4>1. Len(clean) + Len(k) = n + Len(k) /\ Len(k) \in Nat
          BY <1>2, <2>4, <3>2
        <4>2. /\ reading \in Seq(Records) /\ Len(reading) = Len(clean) + Len(k)
              /\ \A j \in 1..(Len(clean) + Len(k)) :
                    reading[j] = IF j <= Len(clean) THEN clean[j] ELSE k[j - Len(clean)]
          BY <2>4, <3>1, <3>2, ConcatProperties
        <4> QED
          BY <3>2, <4>1, <4>2
      <3>4. ASSUME NEW j \in 1..n
            PROVE  reading[j] = file[j]
        <4>1. j \in 1..(n + Len(k)) /\ j <= n
          BY <1>2, <3>3
        <4> QED
          BY <3>2, <3>3, <4>1
      <3>5. ASSUME NEW j \in (n + 1)..(n + Len(k))
            PROVE  reading[j] = k[j - n]
        <4>1. j \in 1..(n + Len(k)) /\ ~(j <= n)
          BY <1>2, <3>3
        <4> QED
          BY <3>3, <4>1
      <3>6. DOMAIN reading = 1..(n + Len(k)) /\ DOMAIN k = 1..Len(k)
        BY <2>4, <3>3
      <3> QED
        BY <3>3, <3>4, <3>5, <3>6
    <2>6. \A i \in 1..Len(r) :
            r[i].entry # Torn => n + i \in DOMAIN file /\ r[i] = file[n + i]
      <3>1. TAKE i \in 1..Len(r)
      <3>2. HAVE r[i].entry # Torn
      <3>3. r[i] = rest[i] /\ i \in 1..Len(rest)
        <4>1. CASE i = 1
          BY <2>1, <2>2, <3>2, <4>1
        <4>2. CASE i # 1
          <5>1. i \in 2..N
            BY <2>1, <2>2, <4>2
          <5> QED
            BY <2>1, <2>2, <5>1
        <4> QED
          BY <4>1, <4>2
      <3> QED
        BY <1>2, <1>3, <3>3
    <2>7. \A j \in DOMAIN reading :
            j \in 1..n \/ (~(j \in 1..n) /\ j > n /\ j - n \in DOMAIN k /\ reading[j] = k[j - n])
      BY <1>2, <2>5
    <2>8. \A j \in DOMAIN k : \E i \in 1..Len(r) : k[j] = r[i]
      BY <2>3 DEF IsPart
    <2>9. \A i \in 1..n : i \in DOMAIN file
      BY <1>2
    <2>10. ASSUME NEW j \in DOMAIN reading, reading[j].entry # Torn
           PROVE  \E i \in DOMAIN file : reading[j] = file[i] /\ (~(j \in 1..n) => i > n)
      <3>1. CASE j \in 1..n
        BY <2>5, <2>9, <3>1
      <3>2. CASE ~(j \in 1..n)
        <4>1. PICK i \in 1..Len(r) : k[j - n] = r[i]
          BY <2>7, <2>8, <3>2
        <4>2. reading[j] = r[i]
          BY <2>7, <3>2, <4>1
        <4>3. n + i \in DOMAIN file /\ reading[j] = file[n + i] /\ n + i > n
          BY <1>2, <2>2, <2>6, <2>10, <4>1, <4>2
        <4> QED
          BY <4>3
      <3> QED
        BY <3>1, <3>2
    <2>11. ASSUME NEW j \in DOMAIN reading, NEW l \in DOMAIN reading, j < l,
                  reading[j].entry # Torn, reading[l].entry # Torn
           PROVE  \E i, m \in DOMAIN file : i < m /\ reading[j] = file[i] /\ reading[l] = file[m]
      <3>1. CASE j \in 1..n /\ l \in 1..n
        BY <2>5, <2>9, <2>11, <3>1
      <3>2. CASE j \in 1..n /\ ~(l \in 1..n)
        <4>1. PICK m \in DOMAIN file : reading[l] = file[m] /\ m > n
          BY <2>10, <2>11, <3>2
        <4>2. j < m /\ j \in DOMAIN file /\ reading[j] = file[j]
          BY <1>2, <2>5, <2>9, <3>2, <4>1
        <4> QED
          BY <4>1, <4>2
      <3>3. CASE ~(j \in 1..n) /\ ~(l \in 1..n)
        <4>1. /\ j - n \in DOMAIN k /\ l - n \in DOMAIN k /\ j - n < l - n
              /\ reading[j] = k[j - n] /\ reading[l] = k[l - n]
          BY <1>2, <2>5, <2>7, <2>11, <3>3
        <4>2. PICK i, m \in 1..Len(r) : i < m /\ k[j - n] = r[i] /\ k[l - n] = r[m]
          BY <2>3, <4>1 DEF IsPart
        <4>3. /\ n + i \in DOMAIN file /\ reading[j] = file[n + i]
              /\ n + m \in DOMAIN file /\ reading[l] = file[n + m]
          BY <2>6, <2>11, <4>1, <4>2
        <4>4. n + i < n + m
          BY <1>2, <2>2, <4>2
        <4> QED
          BY <4>3, <4>4
      <3>4. ~(j \in 1..n) => ~(l \in 1..n)
        BY <1>2, <2>5, <2>11
      <3> QED
        BY <3>1, <3>2, <3>3, <3>4
    <2> QED
      BY <2>5, <2>10, <2>11 DEF Found
  <1> QED
    BY <1>4, <1>5, <1>6, <1>7

LEMMA LastOfType ==
    ASSUME NEW file \in Seq(Records)
    PROVE  LastOf(file) \in Nat /\ LastLSNs(file) \subseteq Nat
  <1>1. ASSUME NEW f \in Seq(Records)
        PROVE  LastOf(f) \in Nat
    <2>1. f # <<>> => f[Len(f)] \in Records
      OBVIOUS
    <2> QED
      BY <2>1 DEF LastOf, Records
  <1>2. PICK n \in 0..Len(file) : Readable(file) = SubSeq(file, 1, n)
    BY ReadableIsPrefix
  <1>3. Readable(file) \in Seq(Records) /\ Len(Readable(file)) = n
    BY <1>2, ReadableIsPrefix
  <1>4. \A i \in (n + 1)..Len(file) : file[i].lsn \in Nat
    <2>1. TAKE i \in (n + 1)..Len(file)
    <2>2. file[i] \in Records
      BY <1>2
    <2> QED
      BY <2>2 DEF Records
  <1> QED
    BY <1>1, <1>3, <1>4 DEF LastLSNs

\* What a write, cut short or not, leaves behind the first n records.
LEMMA BeginningsAre ==
    ASSUME NEW file \in Seq(Records), NEW n \in 0..Len(file), NEW left \in Beginnings(file, n)
    PROVE  /\ left \in Seq(Records) /\ Len(left) >= n
           /\ \E m \in n..Len(file) :
                \/ left = SubSeq(file, 1, m)
                \/ /\ m < Len(file)
                   /\ left = Append(SubSeq(file, 1, m), [lsn |-> file[m + 1].lsn, entry |-> Torn])
  <1>1. Len(file) \in Nat /\ n \in Nat
    OBVIOUS
  <1>2. PICK m \in n..Len(file) :
            \/ left = SubSeq(file, 1, m)
            \/ /\ m < Len(file)
               /\ left = Append(SubSeq(file, 1, m), [lsn |-> file[m + 1].lsn, entry |-> Torn])
    <2>1. \/ \E m \in n..Len(file) : left = SubSeq(file, 1, m)
          \/ \E m \in n..(Len(file) - 1) :
                left = Append(SubSeq(file, 1, m), [lsn |-> file[m + 1].lsn, entry |-> Torn])
      BY DEF Beginnings
    <2>2. n..(Len(file) - 1) \subseteq n..Len(file) /\ \A m \in n..(Len(file) - 1) : m < Len(file)
      BY <1>1
    <2> QED
      BY <2>1, <2>2
  <1>3. SubSeq(file, 1, m) \in Seq(Records) /\ Len(SubSeq(file, 1, m)) = m
    BY <1>1
  <1>4. CASE left = SubSeq(file, 1, m)
    BY <1>1, <1>2, <1>3, <1>4
  <1>5. CASE /\ m < Len(file)
             /\ left = Append(SubSeq(file, 1, m), [lsn |-> file[m + 1].lsn, entry |-> Torn])
    <2> DEFINE torn == [lsn |-> file[m + 1].lsn, entry |-> Torn]
    <2>1. file[m + 1] \in Records
      BY <1>1, <1>5
    <2>2. torn \in Records
      BY <2>1 DEF Records
    <2> HIDE DEF torn
    <2>3. left = Append(SubSeq(file, 1, m), torn)
      BY <1>5 DEF torn
    <2>4. left \in Seq(Records) /\ Len(left) = m + 1
      BY <1>3, <2>2, <2>3
    <2>5. Len(left) >= n
      BY <1>1, <2>4
    <2> QED
      BY <1>2, <2>4, <2>5
  <1> QED
    BY <1>2, <1>4, <1>5

LEMMA NewRecordType ==
    ASSUME LogTypes, NEW a \in Appenders, appender[a].pc # "idle"
    PROVE  NewRecord(a) \in Records
  <1>1. appender[a].lsn \in Nat /\ appender[a].entry \in CommandSet
    BY DEF LogTypes
  <1> QED
    BY <1>1 DEF Records, NewRecord

\* A record is added, or not.
LEMMA WriteTypes ==
    ASSUME LogTypes, NEW a \in Appenders, AppendStep(a) \/ WriteFails(a)
    PROVE  LogTypes' /\ UNCHANGED <<lsn, truncator>>
  <1>1. CASE Write(a)
    <2>1. appender[a].entry \in CommandSet /\ NewRecord(a) \in Records
      BY <1>1, NewRecordType DEF LogTypes, Write
    <2>3. log' \in Seq(Records) /\ Len(log') = Len(log) + 1
      BY <1>1, <2>1 DEF LogTypes, Write
    <2>4. UNCHANGED <<lsn, synced, truncator>>
      BY <1>1 DEF Write
    <2>5. PICK sync \in ShouldSync(pending + 1) :
            appender' = [appender EXCEPT ![a] =
                            IF sync THEN [@ EXCEPT !.pc = "sync"] ELSE NoAppend]
      BY <1>1 DEF Write
    <2>6. /\ appender' \in [Appenders -> [pc : {"idle", "write", "sync"}, lsn : Nat,
                                          entry : CommandSet \cup {NoEntry}]]
          /\ \A b \in Appenders : appender'[b].pc # "idle" => appender'[b].entry \in CommandSet
      <3>0. appender[a] \in
                [pc : {"idle", "write", "sync"}, lsn : Nat, entry : CommandSet \cup {NoEntry}]
        BY DEF LogTypes
      <3>1. [appender[a] EXCEPT !.pc = "sync"] \in
                [pc : {"idle", "write", "sync"}, lsn : Nat, entry : CommandSet \cup {NoEntry}]
        BY <3>0
      <3>2. [appender[a] EXCEPT !.pc = "sync"].entry \in CommandSet
        BY <2>1, <3>0
      <3>3. NoAppend \in [pc : {"idle", "write", "sync"}, lsn : Nat,
                          entry : CommandSet \cup {NoEntry}] /\ NoAppend.pc = "idle"
        BY DEF NoAppend
      <3>4. PICK v : /\ appender' = [appender EXCEPT ![a] = v]
                     /\ v \in {[appender[a] EXCEPT !.pc = "sync"], NoAppend}
        BY <2>5
      <3> QED
        BY <3>1, <3>2, <3>3, <3>4 DEF LogTypes
    <2>7. synced' \in 0..Len(log')
      BY <2>3, <2>4 DEF LogTypes
    <2> QED
      BY <2>3, <2>4, <2>6, <2>7 DEF LogTypes
  <1>2. CASE Sync(a)
    <2>1. UNCHANGED <<lsn, log, truncator>> /\ synced' \in {Len(log), synced}
      BY <1>2 DEF Sync
    <2>2. synced' \in 0..Len(log')
      BY <2>1 DEF LogTypes
    <2>3. appender' = [appender EXCEPT ![a] = NoAppend]
      BY <1>2 DEF Sync
    <2> QED
      BY <2>1, <2>2, <2>3 DEF LogTypes, NoAppend
  <1>3. CASE WriteFails(a)
    <2>1. /\ UNCHANGED <<lsn, synced, truncator>>
          /\ appender' = [appender EXCEPT ![a] = NoAppend]
      BY <1>3 DEF WriteFails
    <2>2. log' = log \/ log' \in Beginnings(Append(log, NewRecord(a)), Len(log))
      BY <1>3 DEF WriteFails
    <2>3. log' \in Seq(Records) /\ Len(log') >= Len(log)
      <3>1. CASE log' = log
        BY <3>1 DEF LogTypes
      <3>2. CASE log' \in Beginnings(Append(log, NewRecord(a)), Len(log))
        <4>1. NewRecord(a) \in Records /\ log \in Seq(Records)
          BY <1>3, NewRecordType DEF WriteFails, LogTypes
        <4>2. Append(log, NewRecord(a)) \in Seq(Records)
              /\ Len(log) \in 0..Len(Append(log, NewRecord(a)))
          BY <4>1
        <4> QED
          BY <3>2, <4>2, BeginningsAre
      <3> QED
        BY <2>2, <3>1, <3>2
    <2>4. synced' \in 0..Len(log')
      BY <2>1, <2>3 DEF LogTypes
    <2> QED
      BY <2>1, <2>3, <2>4 DEF LogTypes, NoAppend
  <1> QED
    BY <1>1, <1>2, <1>3 DEF AppendStep

LEMMA ReserveTypes ==
    ASSUME LogTypes, NEW a \in Appenders, NEW cmd \in CommandSet, Reserve(a, cmd)
    PROVE  LogTypes' /\ UNCHANGED truncator
BY DEF LogTypes, Reserve

\* What is cut.
LEMMA CutTypes ==
    ASSUME LogTypes, NEW t \in Truncators,
           \/ SnapshotLSN(t) \/ Truncate(t) \/ FlushPart(t) \/ Rewrite(t)
           \/ TruncateRefused(t) \/ RewriteFails(t) \/ ReopenFails(t)
    PROVE  /\ LogTypes' /\ \A u \in Truncators \ {t} : truncator'[u] = truncator[u]
           /\ SnapshotLSN(t) => truncator'[t].pc # "rewrite"
           /\ Truncate(t) => truncator'[t].upTo = truncator[t].upTo
           /\ FlushPart(t) => truncator'[t] = truncator[t]
           /\ Rewrite(t) \/ TruncateRefused(t) \/ RewriteFails(t) \/ ReopenFails(t)
                => truncator'[t] = NoTruncation
  <1> DEFINE Cut == [pc : {"idle", "captured", "rewrite"}, upTo : Nat, kept : Seq(Records)]
  <1>0. /\ lsn \in Nat /\ log \in Seq(Records) /\ synced \in 0..Len(log)
        /\ truncator \in [Truncators -> Cut] /\ truncator[t] \in Cut
    BY DEF LogTypes
  <1>1. NoTruncation \in Cut
    BY DEF NoTruncation
  <1>2. ASSUME NEW v \in Cut, truncator' = [truncator EXCEPT ![t] = v]
        PROVE  /\ truncator' \in [Truncators -> Cut] /\ truncator'[t] = v
               /\ \A u \in Truncators \ {t} : truncator'[u] = truncator[u]
    BY <1>0, <1>2
  <1>3. CASE SnapshotLSN(t)
    <2> DEFINE c == truncator[t]
               v == [c EXCEPT !.pc = "captured", !.upTo = lsn]
    <2>1. UNCHANGED <<lsn, log, synced, appender>> /\ truncator' = [truncator EXCEPT ![t] = v]
      BY <1>0, <1>3 DEF SnapshotLSN
    <2>2. v \in Cut /\ v.pc = "captured"
      <3>1. c \in Cut
        BY <1>0
      <3> HIDE DEF c
      <3> QED
        BY <1>0, <3>1
    <2> HIDE DEF v
    <2>3. LogTypes
      OBVIOUS
    <2>4. ~Truncate(t) /\ ~FlushPart(t) /\ truncator'[t] # NoTruncation
      <3>1. truncator[t].pc = "idle" /\ truncator'[t].pc = "captured"
        BY <1>0, <1>2, <1>3, <2>1, <2>2 DEF SnapshotLSN
      <3> QED
        BY <3>1 DEF Truncate, FlushPart, NoTruncation
    <2>5. ~Rewrite(t) /\ ~TruncateRefused(t) /\ ~RewriteFails(t) /\ ~ReopenFails(t)
      BY <1>3 DEF SnapshotLSN, Rewrite, TruncateRefused, RewriteFails, ReopenFails
    <2> QED
      BY <1>2, <2>1, <2>2, <2>3, <2>4, <2>5 DEF LogTypes
  <1>4. CASE Truncate(t)
    <2>1. PICK reading \in Readings(log) :
            truncator' = [truncator EXCEPT ![t].pc = "rewrite",
                                ![t].kept = NewerThan(reading, truncator[t].upTo)]
      BY <1>4 DEF Truncate
    <2> DEFINE kept == NewerThan(reading, truncator[t].upTo)
               c == truncator[t]
               v == [c EXCEPT !.pc = "rewrite", !.kept = kept]
    <2>2. kept \in Seq(Records)
      BY <1>0, ReadingsAre, KeptOf DEF NewerThan
    <2>3. log' = <<>> /\ synced' = 0 /\ UNCHANGED <<lsn, appender>>
      BY <1>4 DEF Truncate
    <2> HIDE DEF kept
    <2>4. truncator' = [truncator EXCEPT ![t] = v]
      BY <1>0, <2>1 DEF kept
    <2>5. v \in Cut /\ v.upTo = c.upTo /\ v.pc = "rewrite"
      <3>1. c \in Cut
        BY <1>0
      <3> HIDE DEF c
      <3> QED
        BY <2>2, <3>1
    <2> HIDE DEF v
    <2>6. log' \in Seq(Records) /\ synced' \in 0..Len(log')
      BY <2>3
    <2>7. ~SnapshotLSN(t) /\ ~FlushPart(t) /\ ~Rewrite(t) /\ ~TruncateRefused(t)
          /\ ~RewriteFails(t) /\ ~ReopenFails(t)
      <3>1. truncator[t].pc = "captured" /\ truncator'[t].pc = "rewrite"
        BY <1>2, <1>4, <2>4, <2>5 DEF Truncate
      <3>2. ~TruncateRefused(t)
        BY <1>0, <3>1 DEF TruncateRefused, NoTruncation
      <3> QED
        BY <3>1, <3>2 DEF SnapshotLSN, FlushPart, Rewrite, RewriteFails, ReopenFails
    <2> QED
      BY <1>2, <2>3, <2>4, <2>5, <2>6, <2>7 DEF LogTypes
  <1>5. CASE FlushPart(t)
    <2>1. /\ UNCHANGED <<lsn, synced, appender, truncator>> /\ log = <<>>
          /\ log' \in Beginnings(truncator[t].kept, 0)
      BY <1>5 DEF FlushPart
    <2>2. log' \in Seq(Records)
      <3>1. truncator[t].kept \in Seq(Records)
        BY <1>0
      <3>2. 0 \in 0..Len(truncator[t].kept)
        BY <3>1
      <3> QED
        BY <2>1, <3>1, <3>2, BeginningsAre
    <2>3. synced' \in 0..Len(log')
      BY <1>0, <2>1, <2>2
    <2>4. ~SnapshotLSN(t) /\ (truncator'[t] # NoTruncation)
      BY <1>5, <2>1 DEF SnapshotLSN, FlushPart, NoTruncation
    <2>5. ~Truncate(t) /\ ~Rewrite(t) /\ ~TruncateRefused(t) /\ ~RewriteFails(t) /\ ~ReopenFails(t)
      <3>1. truncator[t].pc = "rewrite"
        BY <1>5 DEF FlushPart
      <3>2. NoTruncation.pc = "idle"
        BY DEF NoTruncation
      <3> QED
        BY <1>0, <2>1, <3>1, <3>2 DEF Truncate, Rewrite, TruncateRefused, RewriteFails, ReopenFails
    <2> QED
      BY <2>1, <2>2, <2>3, <2>4, <2>5 DEF LogTypes
  <1>6. CASE Rewrite(t) \/ TruncateRefused(t) \/ RewriteFails(t) \/ ReopenFails(t)
    <2>1. truncator' = [truncator EXCEPT ![t] = NoTruncation] /\ UNCHANGED appender
      BY <1>6 DEF Rewrite, TruncateRefused, RewriteFails, ReopenFails
    <2>2. truncator[t].kept \in Seq(Records)
      BY <1>0
    <2>3. \/ log' = log /\ synced' = synced
          \/ log' = truncator[t].kept /\ synced' = Len(log')
      BY <1>6 DEF Rewrite, TruncateRefused, RewriteFails, ReopenFails
    <2>4. log' \in Seq(Records) /\ synced' \in 0..Len(log')
      BY <1>0, <2>2, <2>3
    <2>5. lsn' \in Nat
      BY <1>0, <1>6, <2>4, LastOfType DEF Rewrite, TruncateRefused, RewriteFails, ReopenFails
    <2>6. truncator'[t] = NoTruncation /\ NoTruncation.pc = "idle"
      BY <1>1, <1>2, <2>1 DEF NoTruncation
    <2>7. ~SnapshotLSN(t) /\ ~Truncate(t) /\ ~FlushPart(t)
      <3>1. truncator'[t].pc = "idle" /\ truncator[t].pc \in {"captured", "rewrite"}
        BY <1>6, <2>6 DEF Rewrite, TruncateRefused, RewriteFails, ReopenFails
      <3> QED
        BY <1>0, <3>1 DEF SnapshotLSN, Truncate, FlushPart
    <2> QED
      BY <1>1, <1>2, <2>1, <2>4, <2>5, <2>6, <2>7 DEF LogTypes
  <1> QED
    BY <1>3, <1>4, <1>5, <1>6

LEMMA CrashTypes ==
    ASSUME LogTypes, WALCrash \/ PowerFails
    PROVE  LogTypes'
  <1>1. lsn' = lsn /\ log' \in Seq(Records) /\ synced' \in 0..Len(log')
    <2>1. CASE WALCrash
      BY <2>1 DEF WALCrash, LogTypes
    <2>2. CASE PowerFails
      <3>1. log' \in Beginnings(log, synced) /\ synced' = Len(log') /\ lsn' = lsn
        BY <2>2 DEF PowerFails
      <3>2. log' \in Seq(Records)
        BY <3>1, BeginningsAre DEF LogTypes
      <3> QED
        BY <3>1, <3>2
    <2> QED
      BY <2>1, <2>2
  <1>2. /\ appender' = [a \in Appenders |-> NoAppend]
        /\ truncator' = [t \in Truncators |-> NoTruncation]
    BY DEF WALCrash, PowerFails
  <1>3. NoTruncation \in [pc : {"idle", "captured", "rewrite"}, upTo : Nat, kept : Seq(Records)]
    BY DEF NoTruncation
  <1> QED
    BY <1>1, <1>2, <1>3 DEF LogTypes, NoAppend

LEMMA ReopenTypes ==
    ASSUME LogTypes, Reopen
    PROVE  LogTypes' /\ UNCHANGED truncator
  <1>1. lsn' \in Nat
    BY LastOfType DEF LogTypes, Reopen
  <1> QED
    BY <1>1 DEF LogTypes, Reopen

LEMMA ApplyTypes ==
    ASSUME NEW b \in Seq(Nat), NEW cmd \in Handled
    PROVE  Apply(b, cmd) \in Seq(Nat)
  <1>1. cmd.op \in {"rest", "take", "cancel"} /\ cmd.order \in Nat
    <2>1. MaxCalls \in Nat
      BY EngineAssumption
    <2> QED
      BY <2>1 DEF Handled, CommandSet
  <1>2. CASE cmd.op = "rest"
    BY <1>1, <1>2 DEF Apply
  <1>3. CASE cmd.op = "take"
    BY <1>3 DEF Apply
  <1>4. CASE cmd.op = "cancel"
    BY <1>4, KeptOf DEF Apply
  <1> QED
    BY <1>1, <1>2, <1>3, <1>4

LEMMA RunTypes ==
    ASSUME NEW b \in Seq(Nat), NEW cmds \in Seq(Handled)
    PROVE  Run(b, cmds) \in Seq(Nat)
  <1>1. PICK f : Runs(b, cmds, f) /\ Run(b, cmds) = f[Len(cmds)]
    BY RunIsLast
  <1> DEFINE Fine == {n \in 0..Len(cmds) : f[n] \in Seq(Nat)}
  <1>2. 0 \in Fine
    BY <1>1 DEF Runs
  <1>3. ASSUME NEW n \in 1..Len(cmds), n - 1 \in Fine
        PROVE  n \in Fine
    <2>1. n \in 0..Len(cmds) /\ n # 0 /\ f[n - 1] \in Seq(Nat) /\ cmds[n] \in Handled
      BY <1>3
    <2>2. f[n] = Apply(f[n - 1], cmds[n])
      BY <1>1, <2>1 DEF Runs
    <2>3. f[n] \in Seq(Nat)
      BY <2>1, <2>2, ApplyTypes
    <2> QED
      BY <2>1, <2>3
  <1>4. Len(cmds) \in Nat /\ Len(cmds) \in 0..Len(cmds)
    OBVIOUS
  <1> HIDE DEF Fine
  <1>5. Len(cmds) \in Fine
    BY <1>2, <1>3, <1>4, AllNumbers
  <1> QED
    BY <1>1, <1>5 DEF Fine

\* What is replayed are commands.
LEMMA ReplayedTypes ==
    ASSUME NEW reading \in Seq(Records)
    PROVE  Replayed(reading) \in Seq(Handled)
  <1> DEFINE wanted == {r \in Range(reading) :
                            r.lsn > Base.lsn /\ r.entry # Torn /\ r.entry.op # "trade"}
             kept == Kept(reading, wanted)
  <1>1. kept \in Seq(Records) /\ \A j \in DOMAIN kept : kept[j] \in wanted
    BY KeptOf
  <1>2. ASSUME NEW j \in DOMAIN kept
        PROVE  kept[j].entry \in Handled
    <2>1. kept[j] \in Records /\ kept[j] \in wanted
      BY <1>1
    <2> QED
      BY <2>1 DEF Records, Handled
  <1>3. Replayed(reading) = CommandsOf(kept)
    BY DEF Replayed
  <1> HIDE DEF kept
  <1> QED
    BY <1>1, <1>2, <1>3 DEF CommandsOf

LEMMA BaseTypes ==
    ASSUME StoreTypes
    PROVE  Base.book \in Seq(Nat) /\ Base.covers \in Seq(Handled)
  <1> DEFINE good == {n \in latest : files[n].whole}
             n == CHOOSE n \in good : TRUE
  <1>1. CASE good = {}
    BY <1>1 DEF Base
  <1>2. CASE good # {}
    <2>1. n \in latest
      BY <1>2
    <2>2. files[n] \in File
      BY <2>1 DEF StoreTypes
    <2>3. Base.book = files[n].book /\ Base.covers = files[n].covers
      BY <1>2 DEF Base
    <2> HIDE DEF n
    <2> QED
      BY <2>2, <2>3 DEF File
  <1> QED
    BY <1>1, <1>2

LEMMA ActorQuiet ==
    ASSUME EngineTypes, UNCHANGED <<book, applied, notify, notifier>>
    PROVE  BookTypes' /\ NotifyTypes'
BY DEF EngineTypes, BookTypes, NotifyTypes

LEMMA StoreQuiet ==
    ASSUME EngineTypes, UNCHANGED <<temps, files, latest, snap, truncator>>
    PROVE  StoreTypes'
BY DEF EngineTypes, StoreTypes

\* The callers.
LEMMA CallerTypes ==
    ASSUME EngineTypes, NEW c \in Clients,
           \/ \E op \in {"rest", "take"} : SubmitOrder(c, op)
           \/ \E order \in 1..calls : CancelOrder(c, order)
           \/ ClientRuns(c) \/ GiveUp(c)
    PROVE  EngineTypes'
  <1>1. LogTypes /\ CallTypes /\ BookTypes /\ NotifyTypes /\ StoreTypes
    BY DEF EngineTypes
  <1>2. c \in Appenders /\ MaxCalls \in Nat
    BY EngineAssumption
  <1>3. client[c].cmd \in Handled \cup {NoEntry}
        /\ (client[c].pc # "idle" => client[c].cmd \in Handled)
    BY <1>1 DEF CallTypes
  <1>4. ASSUME NEW cmd \in Handled, Call(c, cmd), calls < MaxCalls
        PROVE  EngineTypes'
    <2>1. cmd \in CommandSet /\ (Reserve(c, cmd) \/ UNCHANGED walVars)
      BY <1>4 DEF Call, GetsNoLog, Handled
    <2>2. LogTypes' /\ UNCHANGED truncator
      BY <1>1, <1>2, <2>1, ReserveTypes DEF LogTypes, walVars
    <2>3. PICK pc \in {"append", "send"} :
            /\ client' = [client EXCEPT ![c] = [NoCall EXCEPT !.pc = pc, !.cmd = cmd]]
            /\ calls' = calls + 1 /\ UNCHANGED <<cmdCh, cancelCh, up>>
      BY <1>4 DEF Call, actorVars
    <2>4. CallTypes'
      <3> DEFINE v == [NoCall EXCEPT !.pc = pc, !.cmd = cmd]
      <3>1. /\ v \in [pc : {"idle", "append", "send", "wait", "reply"},
                     cmd : Handled \cup {NoEntry}, traded : BOOLEAN]
            /\ v.cmd = cmd
        BY DEF NoCall
      <3>2. calls' \in 0..MaxCalls
        BY <1>1, <1>2, <1>4, <2>3 DEF CallTypes
      <3>3. client' = [client EXCEPT ![c] = v]
        BY <2>3
      <3> HIDE DEF v
      <3>4. client' \in [Clients -> [pc : {"idle", "append", "send", "wait", "reply"},
                                     cmd : Handled \cup {NoEntry}, traded : BOOLEAN]]
        BY <1>1, <3>1, <3>3 DEF CallTypes
      <3>5. \A d \in Clients : client'[d] = IF d = c THEN v ELSE client[d]
        BY <1>1, <3>3 DEF CallTypes
      <3>6. \A d \in Clients : client'[d].pc # "idle" => client'[d].cmd \in Handled
        BY <1>1, <3>1, <3>5 DEF CallTypes
      <3> QED
        BY <1>1, <2>3, <3>2, <3>4, <3>6 DEF CallTypes
    <2>5. UNCHANGED <<book, applied, notify, notifier, temps, files, latest, snap>>
      BY <1>4 DEF Call, actorVars, notifierVars, storeVars
    <2> QED
      BY <2>2, <2>4, <2>5, ActorQuiet, StoreQuiet DEF EngineTypes
  <1>5. ASSUME NEW op \in {"rest", "take"}, SubmitOrder(c, op)
        PROVE  EngineTypes'
    <2>1. calls < MaxCalls /\ Call(c, Command(op, calls + 1, calls + 1))
      BY <1>5 DEF SubmitOrder
    <2>2. calls + 1 \in 1..MaxCalls
      BY <1>1, <1>2, <2>1 DEF CallTypes
    <2>3. Command(op, calls + 1, calls + 1) \in Handled
      BY <2>2 DEF Command, Handled, CommandSet
    <2> QED
      BY <1>4, <2>1, <2>3
  <1>6. ASSUME NEW order \in 1..calls, CancelOrder(c, order)
        PROVE  EngineTypes'
    <2>1. calls < MaxCalls /\ Call(c, Command("cancel", calls + 1, order))
      BY <1>6 DEF CancelOrder
    <2>2. calls + 1 \in 1..MaxCalls /\ order \in 1..MaxCalls
      BY <1>1, <1>2, <2>1 DEF CallTypes
    <2>3. Command("cancel", calls + 1, order) \in Handled
      BY <2>2 DEF Command, Handled, CommandSet
    <2> QED
      BY <1>4, <2>1, <2>3
  <1>7. CASE ClientAppends(c) \/ ClientAppendFails(c)
    <2>1. LogTypes' /\ UNCHANGED truncator
      BY <1>1, <1>2, <1>7, WriteTypes DEF ClientAppends, ClientAppendFails
    <2>2. UNCHANGED <<book, applied, notify, notifier, temps, files, latest, snap, cmdCh,
                      cancelCh, up, calls>>
      BY <1>7 DEF ClientAppends, ClientAppendFails, actorVars, notifierVars, storeVars,
                  boundVars
    <2>3. CallTypes'
      <3>1. /\ client' \in {[client EXCEPT ![c].pc = "send"], [client EXCEPT ![c] = NoCall],
                            client}
            /\ client[c].pc = "append"
        BY <1>7 DEF ClientAppends, ClientAppendFails
      <3>2. client' \in [Clients -> [pc : {"idle", "append", "send", "wait", "reply"},
                                     cmd : Handled \cup {NoEntry}, traded : BOOLEAN]]
        <4>1. NoCall \in [pc : {"idle", "append", "send", "wait", "reply"},
                          cmd : Handled \cup {NoEntry}, traded : BOOLEAN]
          BY DEF NoCall
        <4>2. CASE client' = [client EXCEPT ![c].pc = "send"]
          BY <1>1, <4>2 DEF CallTypes
        <4>3. CASE client' \in {[client EXCEPT ![c] = NoCall], client}
          BY <1>1, <4>1, <4>3 DEF CallTypes
        <4> QED
          BY <3>1, <4>2, <4>3
      <3>3. \A d \in Clients : client'[d].pc # "idle" => client'[d].cmd \in Handled
        BY <1>1, <3>1 DEF CallTypes, NoCall
      <3> QED
        BY <1>1, <2>2, <3>2, <3>3 DEF CallTypes
    <2> QED
      BY <2>1, <2>2, <2>3, ActorQuiet, StoreQuiet DEF EngineTypes
  <1>8. CASE Send(c)
    <2>1. UNCHANGED <<lsn, log, synced, pending, appender, truncator>>
      BY <1>8 DEF Send, walVars
    <2>2. UNCHANGED <<book, applied, notify, notifier, temps, files, latest, snap, up, calls>>
      BY <1>8 DEF Send, notifierVars, storeVars, boundVars
    <2>3. client' = [client EXCEPT ![c].pc = "wait"] /\ client[c].pc = "send"
      BY <1>8 DEF Send
    <2>4. Queued(c) \in [client : Clients, cmd : Handled]
      BY <1>3, <2>3 DEF Queued
    <2>5. cmdCh' \in Queue /\ cancelCh' \in Queue
      <3>1. Append(cmdCh, Queued(c)) \in Queue /\ Append(cancelCh, Queued(c)) \in Queue
        BY <1>1, <2>4 DEF CallTypes, Queue
      <3>2. /\ cmdCh' = Append(cmdCh, Queued(c)) \/ UNCHANGED cmdCh
            /\ cancelCh' = Append(cancelCh, Queued(c)) \/ UNCHANGED cancelCh
        BY <1>8 DEF Send
      <3> QED
        BY <1>1, <3>1, <3>2 DEF CallTypes
    <2>6. CallTypes'
      BY <1>1, <2>2, <2>3, <2>5 DEF CallTypes
    <2>7. LogTypes'
      BY <1>1, <2>1 DEF LogTypes
    <2> QED
      BY <2>1, <2>2, <2>6, <2>7, ActorQuiet, StoreQuiet DEF EngineTypes
  <1>9. CASE GiveUp(c)
    <2>1. UNCHANGED <<lsn, log, synced, pending, appender, truncator>>
      BY <1>9 DEF GiveUp, walVars
    <2>2. UNCHANGED <<book, applied, notify, notifier, temps, files, latest, snap, up, calls,
                      cmdCh, cancelCh>>
      BY <1>9 DEF GiveUp, notifierVars, storeVars, boundVars
    <2>3. client' = [client EXCEPT ![c] = NoCall]
      BY <1>9 DEF GiveUp
    <2>4. CallTypes'
      BY <1>1, <2>2, <2>3 DEF CallTypes, NoCall
    <2>5. LogTypes'
      BY <1>1, <2>1 DEF LogTypes
    <2> QED
      BY <2>1, <2>2, <2>4, <2>5, ActorQuiet, StoreQuiet DEF EngineTypes
  <1>10. CASE Answer(c)
    <2>1. UNCHANGED <<lsn, log, synced, pending, appender, truncator>>
      BY <1>10 DEF Answer, walVars
    <2>2. UNCHANGED <<book, applied, notifier, temps, files, latest, snap, up, calls,
                      cmdCh, cancelCh>>
      BY <1>10 DEF Answer, actorVars, storeVars, boundVars
    <2>3. client' = [client EXCEPT ![c] = NoCall] /\ client[c].pc = "reply"
      BY <1>10 DEF Answer
    <2>4. CallTypes'
      BY <1>1, <2>2, <2>3 DEF CallTypes, NoCall
    <2>5. LogTypes' /\ StoreTypes' /\ BookTypes'
      BY <1>1, <2>1, <2>2 DEF LogTypes, StoreTypes, BookTypes
    <2>6. NotifyTypes'
      BY <1>1, <1>3, <1>10, <2>2, <2>3 DEF NotifyTypes, Answer
    <2> QED
      BY <2>4, <2>5, <2>6 DEF EngineTypes
  <1> QED
    BY <1>5, <1>6, <1>7, <1>8, <1>9, <1>10 DEF ClientRuns

\* The actor.
LEMMA ActorTypes ==
    ASSUME EngineTypes, NEW q, Handle(q),
           \/ /\ cmdCh # <<>> /\ q = Head(cmdCh)
              /\ cmdCh' = Tail(cmdCh) /\ UNCHANGED cancelCh
           \/ /\ cancelCh # <<>> /\ q = Head(cancelCh)
              /\ cancelCh' = Tail(cancelCh) /\ UNCHANGED cmdCh
    PROVE  EngineTypes' /\ q \in [client : Clients, cmd : Handled]
  <1>1. LogTypes /\ CallTypes /\ BookTypes /\ NotifyTypes /\ StoreTypes
    BY DEF EngineTypes
  <1>2. q \in [client : Clients, cmd : Handled] /\ cmdCh' \in Queue /\ cancelCh' \in Queue
    <2>1. cmdCh \in Queue /\ cancelCh \in Queue
      BY <1>1 DEF CallTypes
    <2>2. \A ch \in Queue : ch # <<>> =>
            Head(ch) \in [client : Clients, cmd : Handled] /\ Tail(ch) \in Queue
      BY HeadTailProperties DEF Queue
    <2> QED
      BY <2>1, <2>2
  <1>3. UNCHANGED <<lsn, log, synced, pending, appender, truncator, notify, notifier,
                    temps, files, latest, snap, up, calls>>
    BY DEF Handle, walVars, notifierVars, storeVars, boundVars
  <1>4. BookTypes'
    <2>1. book' = Apply(book, q.cmd) /\ applied' = Append(applied, q.cmd)
      BY DEF Handle
    <2>2. Apply(book, q.cmd) \in Seq(Nat)
      BY <1>1, <1>2, ApplyTypes DEF BookTypes
    <2> QED
      BY <1>1, <1>2, <2>1, <2>2 DEF BookTypes
  <1>5. CallTypes'
    <2>1. Replies(q) /\ Trades(book, q.cmd) \in BOOLEAN
      BY DEF Handle, Trades
    <2>2. client' = [c \in Clients |->
                        IF c = q.client /\ client[c].pc = "wait" /\ client[c].cmd = q.cmd
                        THEN [client[c] EXCEPT !.pc = "reply", !.traded = Trades(book, q.cmd)]
                        ELSE client[c]]
      BY <2>1 DEF Replies
    <2>3. ASSUME NEW c \in Clients
          PROVE  /\ client'[c] \in [pc : {"idle", "append", "send", "wait", "reply"},
                                    cmd : Handled \cup {NoEntry}, traded : BOOLEAN]
                 /\ client'[c].pc # "idle" => client'[c].cmd \in Handled
      <3> DEFINE v == [client[c] EXCEPT !.pc = "reply", !.traded = Trades(book, q.cmd)]
      <3>1. client[c] \in [pc : {"idle", "append", "send", "wait", "reply"},
                           cmd : Handled \cup {NoEntry}, traded : BOOLEAN]
            /\ (client[c].pc # "idle" => client[c].cmd \in Handled)
        BY <1>1 DEF CallTypes
      <3>2. v \in [pc : {"idle", "append", "send", "wait", "reply"},
                   cmd : Handled \cup {NoEntry}, traded : BOOLEAN] /\ v.cmd = client[c].cmd
        BY <2>1, <3>1
      <3>3. client'[c] = client[c] \/ (client'[c] = v /\ client[c].pc = "wait")
        BY <2>2
      <3> HIDE DEF v
      <3> QED
        BY <3>1, <3>2, <3>3
    <2>4. client' \in [Clients -> [pc : {"idle", "append", "send", "wait", "reply"},
                                   cmd : Handled \cup {NoEntry}, traded : BOOLEAN]]
      BY <2>2, <2>3
    <2> QED
      BY <1>1, <1>2, <1>3, <2>3, <2>4 DEF CallTypes
  <1>6. LogTypes' /\ NotifyTypes' /\ StoreTypes'
    BY <1>1, <1>3 DEF LogTypes, NotifyTypes, StoreTypes
  <1> QED
    BY <1>2, <1>4, <1>5, <1>6 DEF EngineTypes

\* The notifier and the snapshot triggers.
LEMMA NotifierTypes ==
    ASSUME EngineTypes, NotifierRuns \/ MonitorTrigger
    PROVE  EngineTypes'
  <1>1. LogTypes /\ CallTypes /\ BookTypes /\ NotifyTypes /\ StoreTypes
    BY DEF EngineTypes
  <1>2. Notifier \in Appenders
    BY EngineAssumption
  <1>3. UNCHANGED <<book, applied, temps, files, latest, client, cmdCh, cancelCh, up, calls>>
    BY DEF NotifierRuns, PersistTrade, NotifierAppends, CheckTrigger, MonitorTrigger,
           actorVars, storeVars, boundVars
  <1>4. BookTypes' /\ CallTypes'
    BY <1>1, <1>3 DEF BookTypes, CallTypes
  <1>5. CASE PersistTrade
    <2>1. notify # <<>> /\ Head(notify) \in Handled /\ Tail(notify) \in Seq(Handled)
      BY <1>1, <1>5 DEF PersistTrade, NotifyTypes
    <2>2. Command("trade", Head(notify).no, Head(notify).order) \in CommandSet
      BY <2>1 DEF Command, Handled, CommandSet
    <2>3. LogTypes' /\ UNCHANGED truncator
      <3>1. \/ UNCHANGED walVars
            \/ Reserve(Notifier, Command("trade", Head(notify).no, Head(notify).order))
        BY <1>5 DEF PersistTrade, GetsNoLog
      <3> QED
        BY <1>1, <1>2, <2>2, <3>1, ReserveTypes DEF LogTypes, walVars
    <2>4. NotifyTypes'
      <3>1. /\ notify' = Tail(notify)
            /\ notifier' \in {[pc |-> "append", cmd |-> Head(notify)],
                              [pc |-> "check", cmd |-> Head(notify)]}
        BY <1>5 DEF PersistTrade
      <3> QED
        BY <2>1, <3>1 DEF NotifyTypes
    <2> QED
      BY <1>1, <1>3, <1>4, <1>5, <2>3, <2>4, StoreQuiet DEF EngineTypes, PersistTrade
  <1>6. CASE NotifierAppends
    <2>1. LogTypes' /\ UNCHANGED truncator
      BY <1>1, <1>2, <1>6, WriteTypes DEF NotifierAppends
    <2>2. NotifyTypes'
      <3>1. notifier' \in {[notifier EXCEPT !.pc = "check"], notifier} /\ UNCHANGED notify
        BY <1>6 DEF NotifierAppends
      <3> QED
        BY <1>1, <3>1 DEF NotifyTypes
    <2> QED
      BY <1>1, <1>3, <1>4, <1>6, <2>1, <2>2, StoreQuiet DEF EngineTypes, NotifierAppends
  <1>7. CASE CheckTrigger \/ MonitorTrigger
    <2>1. UNCHANGED <<lsn, log, synced, pending, appender, truncator, notify>>
      BY <1>7 DEF CheckTrigger, MonitorTrigger, walVars, notifierVars
    <2>2. notifier' \in {notifier, NoResult}
      BY <1>7 DEF CheckTrigger, MonitorTrigger, notifierVars
    <2>3. NotifyTypes'
      BY <1>1, <2>1, <2>2 DEF NotifyTypes, NoResult
    <2>4. \/ UNCHANGED snap
          \/ \E t \in Snapshots : snap[t].pc = "idle" /\ snap' = [snap EXCEPT ![t].pc = "lsn"]
      BY <1>7 DEF CheckTrigger, MonitorTrigger, StartSnapshot, Free
    <2>5. StoreTypes'
      <3>1. CASE UNCHANGED snap
        BY <1>1, <1>3, <2>1, <3>1 DEF StoreTypes
      <3>2. ASSUME NEW t \in Snapshots, snap[t].pc = "idle",
                   snap' = [snap EXCEPT ![t].pc = "lsn"]
            PROVE  StoreTypes'
        <4> DEFINE v == [snap[t] EXCEPT !.pc = "lsn"]
        <4>1. snap[t] \in Copy
          BY <1>1 DEF StoreTypes
        <4>2. v \in Copy /\ v.pc = "lsn"
          BY <4>1 DEF Copy
        <4>3. snap' = [snap EXCEPT ![t] = v]
          BY <3>2
        <4> HIDE DEF v
        <4>4. snap' \in [Snapshots -> Copy]
          BY <1>1, <4>2, <4>3 DEF StoreTypes
        <4>5. truncator[t].pc # "rewrite" /\ DOMAIN snap = Snapshots
          BY <1>1, <3>2 DEF StoreTypes
        <4>6. \A u \in Snapshots : snap'[u] = IF u = t THEN v ELSE snap[u]
          BY <4>3, <4>5
        <4> QED
          BY <1>1, <1>3, <2>1, <4>2, <4>4, <4>5, <4>6 DEF StoreTypes
      <3> QED
        BY <2>4, <3>1, <3>2
    <2>6. LogTypes'
      BY <1>1, <2>1 DEF LogTypes
    <2> QED
      BY <1>4, <2>3, <2>5, <2>6 DEF EngineTypes
  <1> QED
    BY <1>5, <1>6, <1>7 DEF NotifierRuns

Places == {"none", "temp", "final", "gone"}

LEMMA MovedTypes ==
    ASSUME snap \in [Snapshots -> Copy], NEW t \in Snapshots, NEW to \in [Places -> Places]
    PROVE  /\ Moved(t, to) \in [Snapshots -> Copy]
           /\ \A u \in Snapshots :
                /\ Moved(t, to)[u].pc = snap[u].pc
                /\ Moved(t, to)[u].at = IF EndingLSN(u) = EndingLSN(t)
                                        THEN to[snap[u].at] ELSE snap[u].at
  <1>1. ASSUME NEW u \in Snapshots
        PROVE  /\ [snap[u] EXCEPT !.at = to[@]] \in Copy
               /\ [snap[u] EXCEPT !.at = to[@]].pc = snap[u].pc
               /\ [snap[u] EXCEPT !.at = to[@]].at = to[snap[u].at]
    <2>1. snap[u] \in Copy /\ snap[u].at \in Places
      BY DEF Copy, Places
    <2>2. to[snap[u].at] \in Places
      BY <2>1
    <2> QED
      BY <2>1, <2>2 DEF Copy, Places
  <1> QED
    BY <1>1 DEF Moved

\* A snapshot: its file is there before the link points to it and the log is cut.
LEMMA SnapTypes ==
    ASSUME EngineTypes, NEW t \in Snapshots, SnapRuns(t)
    PROVE  EngineTypes'
  <1>1. LogTypes /\ CallTypes /\ BookTypes /\ NotifyTypes /\ StoreTypes
    BY DEF EngineTypes
  <1>2. t \in Truncators /\ DOMAIN snap = Snapshots /\ snap[t] \in Copy
        /\ DOMAIN truncator = Snapshots /\ snap \in [Snapshots -> Copy]
    BY <1>1, EngineAssumption DEF StoreTypes, LogTypes
  <1>3. UNCHANGED <<book, applied, cmdCh, cancelCh, notify, notifier, up, calls, client>>
    BY DEF SnapRuns, SnapCapture, SnapTake, SnapCreate, SnapWrite, SnapRename, SnapSaveFails,
           SnapUnlink, SnapLink, SnapTruncate, SnapKeepsLog, SnapRewrite, StoreOnly, Others,
           actorVars, notifierVars, boundVars
  <1>4. CallTypes' /\ BookTypes' /\ NotifyTypes'
    BY <1>1, <1>3 DEF CallTypes, BookTypes, NotifyTypes
  <1>5. ASSUME snap' \in [Snapshots -> Copy],
               \A u \in Snapshots \ {t} : snap'[u].pc = snap[u].pc,
               DOMAIN files \subseteq DOMAIN files',
               \A n \in DOMAIN files' : files'[n] \in File,
               \A n \in DOMAIN temps' : temps'[n] \in File,
               latest' \subseteq DOMAIN files',
               \A u \in Snapshots \ {t} : truncator'[u] = truncator[u],
               truncator'[t].pc = "rewrite" => snap'[t].pc = "rewrite",
               snap'[t].pc \in {"unlink", "link", "cut", "rewrite"} =>
                    truncator'[t].upTo \in DOMAIN files'
        PROVE  StoreTypes'
    <2>1. ASSUME NEW u \in Snapshots
          PROVE  /\ truncator'[u].pc = "rewrite" => snap'[u].pc = "rewrite"
                 /\ snap'[u].pc \in {"unlink", "link", "cut", "rewrite"} =>
                        truncator'[u].upTo \in DOMAIN files'
      <3>1. CASE u = t
        BY <1>5, <3>1
      <3>2. CASE u # t
        BY <1>1, <1>5, <3>2 DEF StoreTypes, EndingLSN
      <3> QED
        BY <3>1, <3>2
    <2> QED
      BY <1>5, <2>1 DEF StoreTypes, EndingLSN
  <1>6. ASSUME NEW v \in Copy, snap' = [snap EXCEPT ![t] = v]
        PROVE  /\ snap' \in [Snapshots -> Copy] /\ snap'[t] = v
               /\ \A u \in Snapshots \ {t} : snap'[u].pc = snap[u].pc
    BY <1>2, <1>6
  <1>7. ASSUME NEW from, NEW to, SnapStep(t, from, to),
               to \in {"idle", "lsn", "take", "create", "unlink", "link", "cut", "rewrite"}
        PROVE  \E v \in Copy : /\ snap' = [snap EXCEPT ![t] = v] /\ v.pc = to
                               /\ snap[t].pc = from
    <2> DEFINE v == [snap[t] EXCEPT !.pc = to]
    <2>1. /\ v \in Copy /\ snap' = [snap EXCEPT ![t] = v] /\ v.pc = to
      BY <1>2, <1>7 DEF SnapStep, Copy
    <2>2. snap[t].pc = from
      BY <1>7 DEF SnapStep
    <2> HIDE DEF v
    <2> QED
      BY <2>1, <2>2
  <1>8. NoSnapshot \in Copy /\ NoSnapshot.pc = "idle" /\ NoFile \in File
    BY DEF NoSnapshot, Copy, NoFile, File
  <1>9. CASE SnapCapture(t)
    <2>1. PICK v \in Copy : snap' = [snap EXCEPT ![t] = v] /\ v.pc = "take" /\ snap[t].pc = "lsn"
      BY <1>7, <1>9 DEF SnapCapture
    <2>2. UNCHANGED <<temps, files, latest>>
      BY <1>9 DEF SnapCapture, storeVars
    <2>3. SnapshotLSN(t) \/ UNCHANGED walVars
      BY <1>9 DEF SnapCapture, GetsNoLog
    <2>4. /\ LogTypes' /\ \A u \in Snapshots \ {t} : truncator'[u] = truncator[u]
          /\ truncator'[t].pc # "rewrite"
      <3>1. CASE SnapshotLSN(t)
        BY <1>1, <1>2, <3>1, CutTypes, EngineAssumption
      <3>2. CASE UNCHANGED walVars
        BY <1>1, <2>1, <3>2 DEF LogTypes, StoreTypes, walVars
      <3> QED
        BY <2>3, <3>1, <3>2
    <2>5. StoreTypes'
      BY <1>1, <1>5, <1>6, <2>1, <2>2, <2>4 DEF StoreTypes
    <2> QED
      BY <1>4, <2>4, <2>5 DEF EngineTypes
  <1>10. ASSUME UNCHANGED walVars
         PROVE  LogTypes' /\ UNCHANGED truncator
    BY <1>1, <1>10 DEF LogTypes, walVars
  <1>11. CASE SnapTake(t)
    <2> DEFINE k == IF Len(book) < SnapshotDepth THEN Len(book) ELSE SnapshotDepth
               v == [pc |-> "create", at |-> "none", covers |-> applied,
                     book |-> SubSeq(book, 1, k)]
    <2>1. snap' = [snap EXCEPT ![t] = v] /\ snap[t].pc = "take"
      BY <1>11 DEF SnapTake
    <2>2. UNCHANGED walVars /\ UNCHANGED <<temps, files, latest>>
      BY <1>11 DEF SnapTake, StoreOnly, storeVars
    <2>3. v \in Copy /\ v.pc = "create"
      <3>1. k \in 0..Len(book) /\ book \in Seq(Nat) /\ applied \in Seq(Handled)
        <4>1. SnapshotDepth \in Nat /\ book \in Seq(Nat) /\ applied \in Seq(Handled)
          BY <1>1, EngineAssumption DEF BookTypes
        <4> QED
          BY <4>1
      <3>2. SubSeq(book, 1, k) \in Seq(Nat)
        BY <3>1
      <3> QED
        BY <3>1, <3>2 DEF Copy
    <2> HIDE DEF v
    <2>4. LogTypes' /\ UNCHANGED truncator
      BY <1>10, <2>2
    <2>5. StoreTypes'
      BY <1>1, <1>5, <1>6, <2>1, <2>2, <2>3, <2>4 DEF StoreTypes
    <2> QED
      BY <1>4, <2>4, <2>5 DEF EngineTypes
  <1>12. ASSUME NEW dir, NEW n, NEW file \in File, \A m \in DOMAIN dir : dir[m] \in File
         PROVE  /\ \A m \in DOMAIN With(dir, n, file) : With(dir, n, file)[m] \in File
                /\ DOMAIN With(dir, n, file) = DOMAIN dir \cup {n}
                /\ \A m \in DOMAIN Without(dir, n) : Without(dir, n)[m] \in File
    BY <1>12 DEF With, Without
  <1>13. CASE SnapCreate(t)
    <2> DEFINE v == [snap[t] EXCEPT !.pc = "write", !.at = "temp"]
    <2>1. /\ snap' = [snap EXCEPT ![t] = v] /\ snap[t].pc = "create"
          /\ UNCHANGED walVars /\ UNCHANGED <<files, latest>>
          /\ temps' = With(temps, EndingLSN(t), NoFile)
      BY <1>2, <1>13 DEF SnapCreate, StoreOnly
    <2>2. v \in Copy /\ v.pc = "write"
      BY <1>2 DEF Copy
    <2> HIDE DEF v
    <2>3. LogTypes' /\ UNCHANGED truncator
      BY <1>10, <2>1
    <2>4. StoreTypes'
      BY <1>1, <1>5, <1>6, <1>8, <1>12, <2>1, <2>2, <2>3 DEF StoreTypes
    <2> QED
      BY <1>4, <2>3, <2>4 DEF EngineTypes
  <1>14. CASE SnapWrite(t)
    <2> DEFINE v == [snap[t] EXCEPT !.pc = "rename", !.at = "none"]
    <2>1. /\ snap' = [snap EXCEPT ![t] = v] /\ snap[t].pc = "write"
          /\ UNCHANGED walVars /\ UNCHANGED latest
      BY <1>2, <1>14 DEF SnapWrite, StoreOnly
    <2>2. v \in Copy /\ v.pc = "rename"
      BY <1>2 DEF Copy
    <2>3. PICK file \in {Saved(t), NoFile} : Puts(t, file)
      BY <1>14 DEF SnapWrite
    <2>4. file \in File
      <3>1. Saved(t) \in File
        BY <1>2 DEF Saved, Copy, File
      <3> QED
        BY <1>8, <2>3, <3>1
    <2>5. /\ temps' \in {With(temps, EndingLSN(t), file), temps}
          /\ files' \in {With(files, EndingLSN(t), file), files}
      BY <2>3 DEF Puts
    <2>6. /\ \A n \in DOMAIN temps' : temps'[n] \in File
          /\ \A n \in DOMAIN files' : files'[n] \in File
          /\ DOMAIN files \subseteq DOMAIN files'
      <3>1. /\ \A n \in DOMAIN files : files[n] \in File
            /\ \A n \in DOMAIN temps : temps[n] \in File
        BY <1>1 DEF StoreTypes
      <3>2. /\ \A m \in DOMAIN With(files, EndingLSN(t), file) :
                    With(files, EndingLSN(t), file)[m] \in File
            /\ DOMAIN files \subseteq DOMAIN With(files, EndingLSN(t), file)
        BY <2>4, <3>1 DEF With
      <3>3. \A m \in DOMAIN With(temps, EndingLSN(t), file) :
                    With(temps, EndingLSN(t), file)[m] \in File
        BY <1>12, <2>4, <3>1
      <3> QED
        BY <2>5, <3>1, <3>2, <3>3
    <2> HIDE DEF v
    <2>7. LogTypes' /\ UNCHANGED truncator
      BY <1>10, <2>1
    <2>8. StoreTypes'
      BY <1>1, <1>5, <1>6, <2>1, <2>2, <2>6, <2>7 DEF StoreTypes
    <2> QED
      BY <1>4, <2>7, <2>8 DEF EngineTypes
  <1>15. CASE SnapRename(t)
    <2> DEFINE to == [none |-> "none", temp |-> "final", final |-> "gone", gone |-> "gone"]
    <2>1. to \in [Places -> Places]
      BY DEF Places
    <2>2. /\ snap' = [Moved(t, to) EXCEPT ![t].pc = "unlink"] /\ snap[t].pc = "rename"
          /\ UNCHANGED walVars /\ UNCHANGED latest
          /\ files' = With(files, EndingLSN(t), temps[EndingLSN(t)])
          /\ temps' = Without(temps, EndingLSN(t)) /\ EndingLSN(t) \in DOMAIN temps
      BY <1>15 DEF SnapRename, StoreOnly
    <2> HIDE DEF to
    <2>3. Moved(t, to) \in [Snapshots -> Copy] /\ \A u \in Snapshots : Moved(t, to)[u].pc = snap[u].pc
      BY <1>2, <2>1, MovedTypes
    <2>4. snap' \in [Snapshots -> Copy] /\ \A u \in Snapshots \ {t} : snap'[u].pc = snap[u].pc
      BY <2>2, <2>3 DEF Copy
    <2>5. temps[EndingLSN(t)] \in File
      BY <1>1, <2>2 DEF StoreTypes
    <2>6. LogTypes' /\ UNCHANGED truncator
      BY <1>10, <2>2
    <2>7. truncator[t].pc # "rewrite"
      BY <1>1, <2>2 DEF StoreTypes
    <2>8. truncator'[t].upTo \in DOMAIN files' /\ DOMAIN files \subseteq DOMAIN files'
      <3>1. DOMAIN files' = DOMAIN files \cup {EndingLSN(t)}
        BY <1>1, <1>12, <2>2, <2>5 DEF StoreTypes
      <3> QED
        BY <2>6, <3>1 DEF EndingLSN
    <2>9. StoreTypes'
      BY <1>1, <1>5, <1>12, <2>2, <2>4, <2>5, <2>6, <2>7, <2>8 DEF StoreTypes
    <2> QED
      BY <1>4, <2>6, <2>9 DEF EngineTypes
  <1>16. CASE SnapSaveFails(t)
    <2> DEFINE to == [none |-> "none", temp |-> "gone", final |-> "final", gone |-> "gone"]
    <2>1. to \in [Places -> Places]
      BY DEF Places
    <2>2. /\ snap' \in {[snap EXCEPT ![t] = NoSnapshot], [Moved(t, to) EXCEPT ![t] = NoSnapshot]}
          /\ temps' \in {temps, Without(temps, EndingLSN(t))}
          /\ files' \in {files, With(files, EndingLSN(t), NoFile)}
          /\ truncator' = [truncator EXCEPT ![t] = NoTruncation]
          /\ UNCHANGED <<lsn, log, synced, appender, latest>>
      BY <1>16 DEF SnapSaveFails, EndsSnapshot
    <2> HIDE DEF to
    <2>3. Moved(t, to) \in [Snapshots -> Copy] /\ \A u \in Snapshots : Moved(t, to)[u].pc = snap[u].pc
      BY <1>2, <2>1, MovedTypes
    <2>4. /\ snap' \in [Snapshots -> Copy] /\ snap'[t] = NoSnapshot
          /\ \A u \in Snapshots \ {t} : snap'[u].pc = snap[u].pc
      BY <1>2, <1>8, <2>2, <2>3
    <2>5. /\ LogTypes' /\ truncator'[t].pc = "idle"
          /\ \A u \in Snapshots \ {t} : truncator'[u] = truncator[u]
      <3>1. NoTruncation \in [pc : {"idle", "captured", "rewrite"}, upTo : Nat, kept : Seq(Records)]
            /\ NoTruncation.pc = "idle"
        BY DEF NoTruncation
      <3> QED
        BY <1>1, <1>2, <2>2, <3>1 DEF LogTypes
    <2>6. /\ \A n \in DOMAIN temps' : temps'[n] \in File
          /\ \A n \in DOMAIN files' : files'[n] \in File
          /\ DOMAIN files \subseteq DOMAIN files'
      <3>1. /\ \A n \in DOMAIN files : files[n] \in File
            /\ \A n \in DOMAIN temps : temps[n] \in File
        BY <1>1 DEF StoreTypes
      <3>2. /\ \A m \in DOMAIN With(files, EndingLSN(t), NoFile) :
                    With(files, EndingLSN(t), NoFile)[m] \in File
            /\ DOMAIN files \subseteq DOMAIN With(files, EndingLSN(t), NoFile)
        BY <1>8, <3>1 DEF With
      <3>3. \A m \in DOMAIN Without(temps, EndingLSN(t)) :
                    Without(temps, EndingLSN(t))[m] \in File
        BY <1>8, <1>12, <3>1
      <3> QED
        BY <2>2, <3>1, <3>2, <3>3
    <2>7. StoreTypes'
      BY <1>1, <1>5, <1>8, <2>2, <2>4, <2>5, <2>6 DEF StoreTypes
    <2> QED
      BY <1>4, <2>5, <2>7 DEF EngineTypes
  <1>17. CASE SnapUnlink(t) \/ SnapLink(t)
    <2>1. PICK v \in Copy : /\ snap' = [snap EXCEPT ![t] = v] /\ v.pc \in {"link", "cut"}
                            /\ snap[t].pc \in {"unlink", "link"}
      BY <1>7, <1>17 DEF SnapUnlink, SnapLink
    <2>2. UNCHANGED walVars /\ UNCHANGED <<temps, files>>
      BY <1>17 DEF SnapUnlink, SnapLink, StoreOnly
    <2>3. EndingLSN(t) \in DOMAIN files /\ truncator[t].pc # "rewrite"
      BY <1>1, <2>1 DEF StoreTypes, EndingLSN
    <2>4. latest' \subseteq DOMAIN files'
      BY <1>1, <1>17, <2>2, <2>3 DEF SnapUnlink, SnapLink, StoreTypes
    <2>5. LogTypes' /\ UNCHANGED truncator
      BY <1>10, <2>2
    <2>6. StoreTypes'
      BY <1>1, <1>5, <1>6, <2>1, <2>2, <2>3, <2>4, <2>5 DEF StoreTypes, EndingLSN
    <2> QED
      BY <1>4, <2>5, <2>6 DEF EngineTypes
  <1>18. CASE SnapTruncate(t)
    <2>1. PICK v \in Copy : /\ snap' = [snap EXCEPT ![t] = v] /\ v.pc = "rewrite"
                            /\ snap[t].pc = "cut"
      BY <1>7, <1>18 DEF SnapTruncate
    <2>2. UNCHANGED <<temps, files, latest>> /\ Truncate(t)
      BY <1>18 DEF SnapTruncate, storeVars
    <2>3. EndingLSN(t) \in DOMAIN files
      BY <1>1, <2>1 DEF StoreTypes, EndingLSN
    <2>4. /\ LogTypes' /\ truncator'[t].upTo = truncator[t].upTo
          /\ \A u \in Snapshots \ {t} : truncator'[u] = truncator[u]
      BY <1>1, <1>2, <2>2, CutTypes, EngineAssumption
    <2>5. StoreTypes'
      BY <1>1, <1>5, <1>6, <2>1, <2>2, <2>3, <2>4 DEF StoreTypes, EndingLSN
    <2> QED
      BY <1>4, <2>4, <2>5 DEF EngineTypes
  <1>19. CASE SnapKeepsLog(t)
    <2>1. /\ snap' = [snap EXCEPT ![t] = NoSnapshot] /\ UNCHANGED <<temps, files, latest>>
          /\ snap[t].pc = "cut"
          /\ TruncateRefused(t) \/ UNCHANGED walVars
      BY <1>19 DEF SnapKeepsLog, EndsSnapshot, storeVars
    <2>2. /\ LogTypes' /\ \A u \in Snapshots \ {t} : truncator'[u] = truncator[u]
          /\ truncator'[t].pc # "rewrite"
      <3>1. CASE TruncateRefused(t)
        <4>1. NoTruncation.pc = "idle"
          BY DEF NoTruncation
        <4> QED
          BY <1>1, <1>2, <3>1, <4>1, CutTypes, EngineAssumption
      <3>2. CASE UNCHANGED walVars
        BY <1>1, <2>1, <3>2 DEF LogTypes, StoreTypes, walVars
      <3> QED
        BY <2>1, <3>1, <3>2
    <2>3. StoreTypes'
      BY <1>1, <1>5, <1>6, <1>8, <2>1, <2>2 DEF StoreTypes
    <2> QED
      BY <1>4, <2>2, <2>3 DEF EngineTypes
  <1>20. CASE SnapRewrite(t)
    <2>1. UNCHANGED <<temps, files, latest>> /\ snap[t].pc = "rewrite"
      BY <1>20 DEF SnapRewrite, storeVars
    <2>2. CASE FlushPart(t) /\ UNCHANGED snap
      <3>1. /\ LogTypes' /\ truncator'[t] = truncator[t]
            /\ \A u \in Snapshots \ {t} : truncator'[u] = truncator[u]
        BY <1>1, <1>2, <2>2, CutTypes, EngineAssumption
      <3>2. StoreTypes'
        BY <1>1, <1>5, <2>1, <2>2, <3>1 DEF StoreTypes, EndingLSN
      <3> QED
        BY <1>4, <3>1, <3>2 DEF EngineTypes
    <2>3. CASE (Rewrite(t) \/ RewriteFails(t) \/ ReopenFails(t)) /\ EndsSnapshot(t)
      <3>1. /\ LogTypes' /\ truncator'[t] = NoTruncation /\ NoTruncation.pc = "idle"
            /\ \A u \in Snapshots \ {t} : truncator'[u] = truncator[u]
        <4>1. NoTruncation.pc = "idle"
          BY DEF NoTruncation
        <4> QED
          BY <1>1, <1>2, <2>3, <4>1, CutTypes, EngineAssumption
      <3>2. snap' = [snap EXCEPT ![t] = NoSnapshot]
        BY <2>3 DEF EndsSnapshot
      <3>3. StoreTypes'
        BY <1>1, <1>5, <1>6, <1>8, <2>1, <3>1, <3>2 DEF StoreTypes
      <3> QED
        BY <1>4, <3>1, <3>3 DEF EngineTypes
    <2> QED
      BY <1>20, <2>2, <2>3 DEF SnapRewrite
  <1> QED
    BY <1>9, <1>11, <1>13, <1>14, <1>15, <1>16, <1>17, <1>18, <1>19, <1>20 DEF SnapRuns

\* A crash, and recovery.
LEMMA RestartTypes ==
    ASSUME EngineTypes, Crash \/ Recover
    PROVE  EngineTypes'
  <1>1. LogTypes /\ CallTypes /\ BookTypes /\ NotifyTypes /\ StoreTypes
    BY DEF EngineTypes
  <1>2. CASE Crash
    <2>1. LogTypes'
      BY <1>1, <1>2, CrashTypes DEF Crash
    <2>2. CallTypes'
      <3>1. cmdCh' = <<>> /\ cancelCh' = <<>> /\ up' = FALSE /\ UNCHANGED calls
        BY <1>2 DEF Crash
      <3>2. client' = [c \in Clients |-> NoCall]
        BY <1>2 DEF Crash
      <3>3. cmdCh' \in Queue /\ cancelCh' \in Queue
        BY <3>1 DEF Queue
      <3>4. /\ NoCall \in [pc : {"idle", "append", "send", "wait", "reply"},
                          cmd : Handled \cup {NoEntry}, traded : BOOLEAN]
            /\ NoCall.pc = "idle"
        BY DEF NoCall
      <3> QED
        BY <1>1, <3>1, <3>2, <3>3, <3>4 DEF CallTypes
    <2>3. BookTypes' /\ NotifyTypes'
      BY <1>1, <1>2 DEF Crash, BookTypes, NotifyTypes, NoResult
    <2>4. StoreTypes'
      <3>1. /\ truncator' = [t \in Truncators |-> NoTruncation]
            /\ snap' = [t \in Snapshots |-> NoSnapshot]
            /\ temps' = [n \in {} |-> NoFile] /\ UNCHANGED <<files, latest>>
        BY <1>2 DEF Crash, WALCrash, PowerFails
      <3>2. snap' \in [Snapshots -> Copy]
        BY <3>1 DEF NoSnapshot, Copy
      <3>3. Truncators = Snapshots /\ DOMAIN temps' = {}
        BY <3>1, EngineAssumption
      <3> QED
        BY <1>1, <3>1, <3>2, <3>3 DEF StoreTypes, NoTruncation, NoSnapshot
    <2> QED
      BY <2>1, <2>2, <2>3, <2>4 DEF EngineTypes
  <1>3. CASE Recover
    <2>1. LogTypes' /\ UNCHANGED truncator
      BY <1>1, <1>3, ReopenTypes DEF Recover
    <2>2. UNCHANGED <<temps, files, latest, snap, cmdCh, cancelCh, notify, notifier, calls, client>>
      BY <1>3 DEF Recover, storeVars, notifierVars
    <2>3. CallTypes' /\ NotifyTypes' /\ StoreTypes'
      <3>1. up' \in BOOLEAN
        BY <1>3 DEF Recover
      <3> QED
        BY <1>1, <2>1, <2>2, <3>1 DEF CallTypes, NotifyTypes, StoreTypes
    <2>4. ASSUME NEW reading \in Seq(Records)
          PROVE  RecoveredBook(reading) \in Seq(Nat) /\ Base.covers \o Replayed(reading) \in Seq(Handled)
      <3>1. /\ Replayed(reading) \in Seq(Handled) /\ Base.book \in Seq(Nat)
            /\ Base.covers \in Seq(Handled)
        BY <1>1, ReplayedTypes, BaseTypes
      <3> QED
        BY <3>1, RunTypes DEF RecoveredBook
    <2>5. PICK reading \in Seq(Records) :
            /\ book' \in {RecoveredBook(reading), <<>>}
            /\ applied' \in {Base.covers \o Replayed(reading), <<>>}
      <3>1. PICK reading \in Readings(log) \cup {<<>>} :
                /\ book' \in {RecoveredBook(reading), <<>>}
                /\ applied' \in {Base.covers \o Replayed(reading), <<>>}
        BY <1>3 DEF Recover
      <3>2. reading \in Seq(Records)
        <4>1. log \in Seq(Records) /\ <<>> \in Seq(Records)
          BY <1>1 DEF LogTypes
        <4> QED
          BY <3>1, <4>1, ReadingsAre
      <3> QED
        BY <3>1, <3>2
    <2>6. BookTypes'
      <3>1. <<>> \in Seq(Nat) /\ <<>> \in Seq(Handled)
        OBVIOUS
      <3> QED
        BY <2>4, <2>5, <3>1 DEF BookTypes
    <2> QED
      BY <2>1, <2>3, <2>6 DEF EngineTypes
  <1> QED
    BY <1>2, <1>3

LEMMA TypesInit == Init => EngineTypes
  <1> SUFFICES ASSUME Init PROVE EngineTypes
    OBVIOUS
  <1>1. LogTypes
    BY DEF Init, WALInit, LogTypes, NoAppend, NoTruncation
  <1>2. CallTypes
    <2>1. MaxCalls \in Nat /\ up = TRUE /\ calls = 0 /\ cmdCh = <<>> /\ cancelCh = <<>>
      BY EngineAssumption DEF Init
    <2>2. client = [c \in Clients |-> NoCall]
      BY DEF Init
    <2>3. cmdCh \in Queue /\ cancelCh \in Queue
      BY <2>1 DEF Queue
    <2> QED
      BY <2>1, <2>2, <2>3 DEF CallTypes, NoCall
  <1>3. BookTypes /\ NotifyTypes
    BY DEF Init, BookTypes, NotifyTypes, NoResult
  <1>4. StoreTypes
    <2>1. /\ snap = [t \in Snapshots |-> NoSnapshot] /\ temps = [n \in {} |-> NoFile]
          /\ files = temps /\ latest = {} /\ truncator = [t \in Truncators |-> NoTruncation]
      BY DEF Init, WALInit
    <2>2. snap \in [Snapshots -> Copy]
      BY <2>1 DEF NoSnapshot, Copy
    <2>3. Truncators = Snapshots /\ DOMAIN temps = {} /\ DOMAIN files = {}
      BY <2>1, EngineAssumption
    <2> QED
      BY <2>1, <2>2, <2>3 DEF StoreTypes, NoTruncation, NoSnapshot
  <1> QED
    BY <1>1, <1>2, <1>3, <1>4 DEF EngineTypes

LEMMA TypesNext == EngineTypes /\ [Next]_vars => EngineTypes'
  <1> SUFFICES ASSUME EngineTypes, [Next]_vars PROVE EngineTypes'
    OBVIOUS
  <1>1. CASE ActorRuns
    BY <1>1, ActorTypes DEF ActorRuns, HandleCommand, HandleCancel
  <1>2. CASE UNCHANGED vars
    <2>1. /\ UNCHANGED <<lsn, log, synced, appender, truncator>>
          /\ UNCHANGED <<client, cmdCh, cancelCh, up, calls, book, applied, notify, notifier>>
          /\ UNCHANGED <<snap, temps, files, latest>>
      BY <1>2 DEF vars, walVars, storeVars, actorVars, notifierVars, boundVars
    <2>2. LogTypes' /\ CallTypes' /\ BookTypes' /\ NotifyTypes'
      BY <2>1 DEF EngineTypes, LogTypes, CallTypes, BookTypes, NotifyTypes
    <2> QED
      BY <2>1, <2>2, StoreQuiet DEF EngineTypes
  <1> QED
    BY <1>1, <1>2, CallerTypes, NotifierTypes, SnapTypes, RestartTypes DEF Next

\* For any callers, snapshots, sync modes and crashes every state is well typed.
THEOREM EngineTypeCorrect == Spec => []EngineTypes
BY TypesInit, TypesNext, PTL DEF Spec

-----------------------------------------------------------------------------
(* Snapshot files *)

Writing == {t \in Snapshots : snap[t].pc \in {"write", "rename"}}

\* A file that nobody shares is written by one snapshot, in its temporary place,
\* and is whole when that is done; so two that write one file share it.
WholeInv ==
    /\ \A n \in DOMAIN files : files[n].whole \/ n \in shared
    /\ \A t \in Snapshots : EndingLSN(t) \notin shared =>
        /\ snap[t].pc = "write" => snap[t].at = "temp" /\ EndingLSN(t) \in DOMAIN temps
        /\ snap[t].pc = "rename" => EndingLSN(t) \in DOMAIN temps /\ temps[EndingLSN(t)].whole
    /\ \A t, u \in Writing : t # u /\ EndingLSN(t) = EndingLSN(u) => EndingLSN(t) \in shared
    /\ \A t \in Snapshots : snap[t].at # "none" => snap[t].pc = "write"

\* What has nothing to do with files.
LEMMA WholeKept ==
    ASSUME WholeInv, UNCHANGED <<temps, files, shared>>,
           \A t \in Snapshots :
            \/ snap'[t] = snap[t] /\ truncator'[t].upTo = truncator[t].upTo
            \/ snap'[t].pc \notin {"write", "rename"} /\ snap'[t].at = "none"
    PROVE  WholeInv'
  <1>1. \A t \in Writing' :
            /\ t \in Writing /\ snap'[t] = snap[t] /\ EndingLSN(t)' = EndingLSN(t)
    BY DEF Writing, EndingLSN
  <1>2. \A t, u \in Writing' :
            t # u /\ EndingLSN(t)' = EndingLSN(u)' => EndingLSN(t)' \in shared'
    BY <1>1 DEF WholeInv
  <1>3. ASSUME NEW t \in Snapshots, (EndingLSN(t) \notin shared)'
        PROVE  /\ snap'[t].pc = "write" =>
                    snap'[t].at = "temp" /\ EndingLSN(t)' \in DOMAIN temps'
               /\ snap'[t].pc = "rename" =>
                    EndingLSN(t)' \in DOMAIN temps' /\ temps'[EndingLSN(t)'].whole
    <2>1. CASE t \in Writing'
      BY <1>1, <1>3, <2>1 DEF WholeInv
    <2>2. CASE t \notin Writing'
      BY <2>2 DEF Writing
    <2> QED
      BY <2>1, <2>2
  <1>4. \A t \in Snapshots : snap'[t].at # "none" => snap'[t].pc = "write"
    BY DEF WholeInv
  <1>5. \A n \in DOMAIN files' : files'[n].whole \/ n \in shared'
    BY DEF WholeInv
  <1> QED
    BY <1>2, <1>3, <1>4, <1>5 DEF WholeInv

\* The steps of Save.
LEMMA WholeSave ==
    ASSUME EngineTypes, WholeInv, NEW t \in Snapshots,
           SnapCreate(t) \/ SnapWrite(t) \/ SnapRename(t) \/ SnapSaveFails(t)
    PROVE  WholeInv'
  <1> DEFINE n == EndingLSN(t)
  <1>1. StoreTypes /\ snap \in [Snapshots -> Copy] /\ LogTypes /\ Truncators = Snapshots
    BY EngineAssumption DEF EngineTypes, StoreTypes
  <1>2. ASSUME NEW u \in Writing, u # t, t \in Writing, EndingLSN(u) = n
        PROVE  n \in shared
    BY <1>2 DEF WholeInv
  <1>3. ASSUME /\ shared \subseteq shared'
               /\ \A u \in Snapshots \ {t} :
                    /\ snap'[u].pc = snap[u].pc /\ truncator'[u].upTo = truncator[u].upTo
                    /\ snap'[u].at = snap[u].at \/ (EndingLSN(u) = n /\ snap[u].at # "none")
               /\ \A u \in Writing \ {t} : EndingLSN(u) = n /\ t \in Writing' => n \in shared'
               /\ \A u \in Writing \ {t} : EndingLSN(u) = n =>
                    \/ n \in shared'
                    \/ UNCHANGED <<temps, snap>>
               /\ \A m \in (DOMAIN temps) \ {n} : m \in DOMAIN temps' /\ temps'[m] = temps[m]
               /\ \A m \in DOMAIN files' : files'[m].whole \/ m \in shared'
               /\ t \in Writing' => EndingLSN(t)' = n
               /\ n \notin shared' =>
                    /\ snap'[t].pc = "write" => snap'[t].at = "temp" /\ n \in DOMAIN temps'
                    /\ snap'[t].pc = "rename" => n \in DOMAIN temps' /\ temps'[n].whole
               /\ snap'[t].at # "none" => snap'[t].pc = "write"
        PROVE  WholeInv'
    <2> HIDE DEF n
    <2>1. \A u \in Snapshots \ {t} :
            /\ EndingLSN(u)' = EndingLSN(u) /\ (u \in Writing' <=> u \in Writing)
      BY <1>3 DEF EndingLSN, Writing
    <2>2. \A m \in DOMAIN files' : files'[m].whole \/ m \in shared'
      BY <1>3
    <2>3. ASSUME NEW u \in Snapshots, EndingLSN(u)' \notin shared'
          PROVE  /\ snap'[u].pc = "write" =>
                        snap'[u].at = "temp" /\ EndingLSN(u)' \in DOMAIN temps'
                 /\ snap'[u].pc = "rename" =>
                        EndingLSN(u)' \in DOMAIN temps' /\ temps'[EndingLSN(u)'].whole
      <3>1. CASE u = t
        BY <1>3, <2>3, <3>1 DEF Writing
      <3>2. CASE u # t /\ EndingLSN(u) = n /\ u \in Writing
        <4>1. UNCHANGED <<temps, snap>>
          BY <1>3, <2>1, <2>3, <3>2
        <4> QED
          BY <1>3, <2>1, <2>3, <3>2, <4>1 DEF WholeInv
      <3>3. CASE u # t /\ EndingLSN(u) # n
        <4>1. snap'[u].pc = snap[u].pc /\ snap'[u].at = snap[u].at
          BY <1>3, <3>3
        <4>2. EndingLSN(u) \notin shared /\ EndingLSN(u)' = EndingLSN(u)
          BY <1>3, <2>1, <2>3, <3>3
        <4>3. /\ snap[u].pc = "write" => snap[u].at = "temp" /\ EndingLSN(u) \in DOMAIN temps
              /\ snap[u].pc = "rename" =>
                    EndingLSN(u) \in DOMAIN temps /\ temps[EndingLSN(u)].whole
          BY <4>2 DEF WholeInv
        <4>4. EndingLSN(u) \in DOMAIN temps =>
                EndingLSN(u) \in DOMAIN temps' /\ temps'[EndingLSN(u)] = temps[EndingLSN(u)]
          BY <1>3, <3>3
        <4> QED
          BY <4>1, <4>2, <4>3, <4>4
      <3>4. CASE u # t /\ u \notin Writing
        BY <1>3, <3>4 DEF Writing
      <3> QED
        BY <3>1, <3>2, <3>3, <3>4
    <2>4. ASSUME NEW u \in Writing', NEW v \in Writing', u # v, EndingLSN(u)' = EndingLSN(v)'
          PROVE  EndingLSN(u)' \in shared'
      <3>1. CASE u # t /\ v # t
        <4>1. u \in Writing /\ v \in Writing /\ EndingLSN(u) = EndingLSN(v)
          BY <2>1, <2>4, <3>1 DEF Writing
        <4> QED
          BY <1>3, <2>1, <2>4, <3>1, <4>1 DEF WholeInv, Writing
      <3>2. CASE u = t
        <4>1. v \in Snapshots \ {t}
          BY <2>4, <3>2 DEF Writing
        <4>2. v \in Writing /\ EndingLSN(v) = n /\ EndingLSN(t)' = n
          BY <1>3, <2>1, <2>4, <3>2, <4>1
        <4> QED
          BY <1>3, <2>4, <3>2, <4>1, <4>2
      <3>3. CASE v = t
        <4>1. u \in Snapshots \ {t}
          BY <2>4, <3>3 DEF Writing
        <4>2. u \in Writing /\ EndingLSN(u) = n /\ EndingLSN(t)' = n
          BY <1>3, <2>1, <2>4, <3>3, <4>1
        <4> QED
          BY <1>3, <2>4, <3>3, <4>1, <4>2
      <3> QED
        BY <3>1, <3>2, <3>3
    <2>5. ASSUME NEW u \in Snapshots, snap'[u].at # "none"
          PROVE  snap'[u].pc = "write"
      <3>1. CASE u = t
        BY <1>3, <2>5, <3>1
      <3>2. CASE u # t
        BY <1>3, <2>5, <3>2 DEF WholeInv
      <3> QED
        BY <3>1, <3>2
    <2> QED
      BY <2>2, <2>3, <2>4, <2>5 DEF WholeInv
  <1>4. \A m \in DOMAIN files : files[m].whole \/ m \in shared
    BY DEF WholeInv
  <1>5. CASE SnapCreate(t)
    <2>1. /\ snap[t].pc = "create" /\ UNCHANGED <<files, truncator>>
          /\ snap' = [snap EXCEPT ![t] = [snap[t] EXCEPT !.pc = "write", !.at = "temp"]]
          /\ temps' = With(temps, n, NoFile) /\ shared' = shared \cup (DOMAIN temps \cap {n})
      BY <1>1, <1>5 DEF SnapCreate, StoreOnly, walVars
    <2>2. /\ snap'[t].pc = "write" /\ snap'[t].at = "temp"
          /\ \A u \in Snapshots \ {t} : snap'[u] = snap[u]
      BY <1>1, <2>1 DEF Copy
    <2>3. \A u \in Writing \ {t} : EndingLSN(u) = n => n \in shared'
      BY <2>1 DEF WholeInv, Writing
    <2>4. n \in DOMAIN temps' /\ \A m \in (DOMAIN temps) \ {n} :
                                    m \in DOMAIN temps' /\ temps'[m] = temps[m]
      BY <2>1 DEF With
    <2>5. EndingLSN(t)' = n
      BY <2>1 DEF EndingLSN
    <2> HIDE DEF n
    <2> QED
      BY <1>3, <1>4, <2>1, <2>2, <2>3, <2>4, <2>5
  <1>6. CASE SnapWrite(t)
    <2>1. /\ snap[t].pc = "write" /\ UNCHANGED <<truncator, shared>>
          /\ snap' = [snap EXCEPT ![t] = [snap[t] EXCEPT !.pc = "rename", !.at = "none"]]
      BY <1>1, <1>6 DEF SnapWrite, StoreOnly, walVars
    <2>2. PICK file \in {Saved(t)} \cup {NoFile : u \in Beside(t)} : Puts(t, file)
      BY <1>6 DEF SnapWrite
    <2>3. /\ snap'[t].pc = "rename" /\ snap'[t].at = "none"
          /\ \A u \in Snapshots \ {t} : snap'[u] = snap[u]
      BY <1>1, <2>1 DEF Copy
    <2>4. t \in Writing
      BY <2>1 DEF Writing
    <2>5. \A u \in Writing \ {t} : EndingLSN(u) = n => n \in shared'
      BY <1>2, <2>1, <2>4
    <2>6. ASSUME n \notin shared
          PROVE  /\ snap[t].at = "temp" /\ file = Saved(t) /\ file.whole
      <3>1. snap[t].at = "temp"
        BY <2>1, <2>6 DEF WholeInv
      <3>2. Beside(t) = {}
        <4>1. \A u \in Beside(t) : u \in Writing /\ u # t /\ EndingLSN(u) = n
          BY <3>1 DEF Beside, WholeInv, Writing
        <4> QED
          BY <1>2, <2>4, <2>6, <4>1
      <3> QED
        BY <2>2, <3>1, <3>2 DEF Saved
    <2>7. /\ temps' = IF snap[t].at = "temp" THEN With(temps, n, file) ELSE temps
          /\ files' = IF snap[t].at = "final" THEN With(files, n, file) ELSE files
      BY <2>2 DEF Puts
    <2>8. n \notin shared => n \in DOMAIN temps' /\ temps'[n].whole
      BY <2>6, <2>7 DEF With
    <2>9. \A m \in (DOMAIN temps) \ {n} : m \in DOMAIN temps' /\ temps'[m] = temps[m]
      BY <2>7 DEF With
    <2>10. ASSUME NEW m \in DOMAIN files'
           PROVE  files'[m].whole \/ m \in shared'
      <3>1. CASE n \notin shared
        BY <1>4, <2>1, <2>6, <2>7, <2>10, <3>1
      <3>2. CASE n \in shared
        BY <1>4, <2>1, <2>7, <2>10, <3>2 DEF With
      <3> QED
        BY <3>1, <3>2
    <2>11. EndingLSN(t)' = n
      BY <2>1 DEF EndingLSN
    <2> HIDE DEF n
    <2> QED
      BY <1>3, <2>1, <2>3, <2>5, <2>8, <2>9, <2>10, <2>11
  <1>7. CASE SnapRename(t)
    <2> DEFINE to == [none |-> "none", temp |-> "final", final |-> "gone", gone |-> "gone"]
    <2>1. /\ snap[t].pc = "rename" /\ UNCHANGED <<truncator, shared>>
          /\ snap' = [Moved(t, to) EXCEPT ![t].pc = "unlink"]
          /\ files' = With(files, n, temps[n]) /\ temps' = Without(temps, n)
      BY <1>7 DEF SnapRename, StoreOnly, walVars
    <2>2. to \in [Places -> Places] /\ to["none"] = "none"
      BY DEF Places
    <2> HIDE DEF to
    <2>3. /\ Moved(t, to) \in [Snapshots -> Copy]
          /\ \A u \in Snapshots :
                /\ Moved(t, to)[u].pc = snap[u].pc
                /\ Moved(t, to)[u].at = IF EndingLSN(u) = n THEN to[snap[u].at] ELSE snap[u].at
      BY <1>1, <2>2, MovedTypes
    <2>4. snap[t].at = "none"
      BY <2>1 DEF WholeInv
    <2>5. /\ snap'[t].pc = "unlink" /\ snap'[t].at = "none"
          /\ \A u \in Snapshots \ {t} :
                /\ snap'[u].pc = snap[u].pc
                /\ snap'[u].at = snap[u].at \/ (EndingLSN(u) = n /\ snap[u].at # "none")
      <3>1. snap'[t].pc = "unlink" /\ snap'[t].at = Moved(t, to)[t].at
        BY <2>1, <2>3 DEF Copy
      <3>2. \A u \in Snapshots \ {t} : snap'[u] = Moved(t, to)[u]
        BY <2>1, <2>3
      <3> QED
        BY <2>2, <2>3, <2>4, <3>1, <3>2
    <2>6. t \in Writing /\ ~(t \in Writing')
      BY <2>1, <2>5 DEF Writing
    <2>7. \A u \in Writing \ {t} : EndingLSN(u) = n => n \in shared'
      BY <1>2, <2>1, <2>6
    <2>8. \A m \in (DOMAIN temps) \ {n} : m \in DOMAIN temps' /\ temps'[m] = temps[m]
      BY <2>1 DEF Without
    <2>9. ASSUME NEW m \in DOMAIN files'
          PROVE  files'[m].whole \/ m \in shared'
      <3>1. n \notin shared => temps[n].whole
        BY <2>1 DEF WholeInv
      <3> QED
        BY <1>4, <2>1, <2>9, <3>1 DEF With
    <2> HIDE DEF n
    <2> QED
      BY <1>3, <2>1, <2>5, <2>6, <2>7, <2>8, <2>9
  <1>8. CASE SnapSaveFails(t)
    <2> DEFINE to == [none |-> "none", temp |-> "gone", final |-> "final", gone |-> "gone"]
    <2>1. /\ snap[t].pc \in {"create", "write", "rename"} /\ UNCHANGED shared
          /\ truncator' = [truncator EXCEPT ![t] = NoTruncation]
      BY <1>8 DEF SnapSaveFails
    <2>2. \A u \in Snapshots \ {t} : truncator'[u].upTo = truncator[u].upTo
      BY <1>1, <2>1 DEF LogTypes
    <2>3. NoSnapshot.pc = "idle" /\ NoSnapshot.at = "none"
      BY DEF NoSnapshot
    <2>4. CASE snap[t].pc = "create"
      <3>1. snap' = [snap EXCEPT ![t] = NoSnapshot] /\ UNCHANGED <<temps, files>>
        BY <1>8, <2>4 DEF SnapSaveFails, EndsSnapshot
      <3>2. \A u \in Snapshots : IF u = t THEN snap'[u] = NoSnapshot ELSE snap'[u] = snap[u]
        BY <1>1, <3>1
      <3> QED
        BY <2>1, <2>2, <2>3, <3>1, <3>2, WholeKept
    <2>5. CASE snap[t].pc # "create"
      <3>1. /\ temps' = Without(temps, n)
            /\ files' = IF snap[t].at = "final" THEN With(files, n, NoFile) ELSE files
            /\ snap' = [Moved(t, to) EXCEPT ![t] = NoSnapshot]
        BY <1>8, <2>5 DEF SnapSaveFails
      <3>2. to \in [Places -> Places] /\ to["none"] = "none"
        BY DEF Places
      <3> HIDE DEF to
      <3>3. /\ Moved(t, to) \in [Snapshots -> Copy]
            /\ \A u \in Snapshots :
                /\ Moved(t, to)[u].pc = snap[u].pc
                /\ Moved(t, to)[u].at = IF EndingLSN(u) = n THEN to[snap[u].at] ELSE snap[u].at
        BY <1>1, <3>2, MovedTypes
      <3>4. /\ snap'[t] = NoSnapshot
            /\ \A u \in Snapshots \ {t} :
                /\ snap'[u].pc = snap[u].pc
                /\ snap'[u].at = snap[u].at \/ (EndingLSN(u) = n /\ snap[u].at # "none")
        <4>1. snap'[t] = NoSnapshot /\ \A u \in Snapshots \ {t} : snap'[u] = Moved(t, to)[u]
          BY <3>1, <3>3
        <4> QED
          BY <3>2, <3>3, <4>1
      <3>5. t \in Writing /\ ~(t \in Writing')
        BY <2>1, <2>3, <2>5, <3>4 DEF Writing
      <3>6. \A u \in Writing \ {t} : EndingLSN(u) = n => n \in shared'
        BY <1>2, <2>1, <3>5
      <3>7. \A m \in (DOMAIN temps) \ {n} : m \in DOMAIN temps' /\ temps'[m] = temps[m]
        BY <3>1 DEF Without
      <3>8. ASSUME NEW m \in DOMAIN files'
            PROVE  files'[m].whole \/ m \in shared'
        <4>1. CASE snap[t].at = "final"
          <5>1. snap[t].pc = "write" /\ n \in shared
            BY <4>1 DEF WholeInv
          <5> QED
            BY <1>4, <2>1, <3>1, <3>8, <4>1, <5>1 DEF With
        <4>2. CASE snap[t].at # "final"
          BY <1>4, <2>1, <3>1, <3>8, <4>2
        <4> QED
          BY <4>1, <4>2
      <3> HIDE DEF n
      <3> QED
        BY <1>3, <2>1, <2>2, <2>3, <3>4, <3>5, <3>6, <3>7, <3>8
    <2> QED
      BY <2>4, <2>5
  <1> QED
    BY <1>5, <1>6, <1>7, <1>8

LEMMA WholeNext ==
    ASSUME EngineTypes, WholeInv, [Next]_vars
    PROVE  WholeInv'
  <1>1. /\ LogTypes /\ StoreTypes /\ Truncators = Snapshots /\ snap \in [Snapshots -> Copy]
        /\ Clients \subseteq Appenders /\ Notifier \in Appenders
    BY EngineAssumption DEF EngineTypes, StoreTypes
  <1>2. \A t \in Snapshots : snap[t].pc # "write" => snap[t].at = "none"
    BY DEF WholeInv
  <1>3. ASSUME UNCHANGED <<temps, files, shared, snap, truncator>>
        PROVE  WholeInv'
    BY <1>3, WholeKept
  <1>4. ASSUME NEW c \in Clients,
               \/ \E op \in {"rest", "take"} : SubmitOrder(c, op)
               \/ \E order \in 1..calls : CancelOrder(c, order)
               \/ ClientRuns(c) \/ GiveUp(c)
        PROVE  WholeInv'
    <2>1. ASSUME NEW cmd, Call(c, cmd)
          PROVE  UNCHANGED <<temps, files, shared, snap, truncator>>
      BY <2>1 DEF Call, Reserve, GetsNoLog, walVars, storeVars
    <2>2. CASE ClientAppends(c) \/ ClientAppendFails(c)
      <3>1. UNCHANGED truncator
        BY <1>1, <2>2, WriteTypes DEF ClientAppends, ClientAppendFails
      <3> QED
        BY <1>3, <2>2, <3>1 DEF ClientAppends, ClientAppendFails, storeVars
    <2>3. CASE Send(c) \/ Answer(c) \/ GiveUp(c)
      BY <1>3, <2>3 DEF Send, Answer, GiveUp, walVars, storeVars
    <2> QED
      BY <1>3, <1>4, <2>1, <2>2, <2>3 DEF SubmitOrder, CancelOrder, ClientRuns
  <1>5. CASE ActorRuns
    BY <1>3, <1>5 DEF ActorRuns, HandleCommand, HandleCancel, Handle, walVars, storeVars
  <1>6. ASSUME StartSnapshot \/ UNCHANGED snap, UNCHANGED <<temps, files, shared, truncator>>
        PROVE  WholeInv'
    <2>1. CASE UNCHANGED snap
      BY <1>3, <1>6, <2>1
    <2>2. ASSUME NEW t \in Free, snap' = [snap EXCEPT ![t].pc = "lsn"]
          PROVE  WholeInv'
      <3>1. t \in Snapshots /\ snap[t].at = "none" /\ snap[t] \in Copy
        BY <1>1, <1>2, <2>2 DEF Free
      <3>2. snap'[t].pc = "lsn" /\ snap'[t].at = "none"
            /\ \A u \in Snapshots \ {t} : snap'[u] = snap[u]
        BY <1>1, <2>2, <3>1 DEF Copy
      <3> QED
        BY <1>6, <3>2, WholeKept
    <2> QED
      BY <1>6, <2>1, <2>2 DEF StartSnapshot
  <1>7. CASE NotifierRuns \/ MonitorTrigger
    <2>1. CASE PersistTrade
      BY <1>3, <2>1 DEF PersistTrade, Reserve, GetsNoLog, walVars, storeVars
    <2>2. CASE NotifierAppends
      <3>1. UNCHANGED truncator
        BY <1>1, <2>2, WriteTypes DEF NotifierAppends
      <3> QED
        BY <1>3, <2>2, <3>1 DEF NotifierAppends, storeVars
    <2>3. CASE CheckTrigger \/ MonitorTrigger
      BY <1>6, <2>3 DEF CheckTrigger, MonitorTrigger, walVars, storeVars
    <2> QED
      BY <1>7, <2>1, <2>2, <2>3 DEF NotifierRuns
  <1>8. ASSUME NEW t \in Snapshots, SnapRuns(t)
        PROVE  WholeInv'
    <2>0. snap[t] \in Copy
      BY <1>1
    <2>1. ASSUME \A u \in Snapshots \ {t} : snap'[u] = snap[u] /\ truncator'[u] = truncator[u],
                 snap'[t].pc \notin {"write", "rename"} /\ snap'[t].at = "none",
                 UNCHANGED <<temps, files, shared>>
          PROVE  WholeInv'
      BY <2>1, WholeKept
    <2>2. ASSUME NEW from, NEW to, SnapStep(t, from, to), from # "write"
          PROVE  /\ \A u \in Snapshots \ {t} : snap'[u] = snap[u]
                 /\ snap'[t].pc = to /\ snap'[t].at = "none"
      <3>1. snap[t].at = "none" /\ snap' = [snap EXCEPT ![t] = [snap[t] EXCEPT !.pc = to]]
        BY <1>1, <1>2, <2>2 DEF SnapStep
      <3> QED
        BY <1>1, <2>0, <3>1 DEF Copy
    <2>3. ASSUME EndsSnapshot(t)
          PROVE  /\ \A u \in Snapshots \ {t} : snap'[u] = snap[u]
                 /\ snap'[t].pc = "idle" /\ snap'[t].at = "none"
      BY <1>1, <2>3 DEF EndsSnapshot, NoSnapshot
    <2>4. ASSUME \/ SnapshotLSN(t) \/ Truncate(t) \/ Rewrite(t)
                 \/ TruncateRefused(t) \/ RewriteFails(t) \/ ReopenFails(t)
          PROVE  \A u \in Snapshots \ {t} : truncator'[u] = truncator[u]
      BY <1>1, <2>4, CutTypes
    <2>5. CASE SnapCapture(t)
      <3>1. /\ SnapStep(t, "lsn", "take") /\ UNCHANGED <<temps, files, shared>>
            /\ SnapshotLSN(t) \/ UNCHANGED truncator
        BY <2>5 DEF SnapCapture, GetsNoLog, walVars, storeVars
      <3> QED
        BY <2>1, <2>2, <2>4, <3>1
    <2>6. CASE SnapTake(t)
      <3>1. /\ UNCHANGED <<temps, files, shared, truncator>>
            /\ \A u \in Snapshots \ {t} : snap'[u] = snap[u]
            /\ snap'[t].pc = "create" /\ snap'[t].at = "none"
        BY <1>1, <2>6 DEF SnapTake, StoreOnly, walVars, storeVars
      <3> QED
        BY <2>1, <3>1
    <2>7. CASE SnapUnlink(t) \/ SnapLink(t)
      <3>1. /\ SnapStep(t, "unlink", "link") \/ SnapStep(t, "link", "cut")
            /\ UNCHANGED <<temps, files, shared, truncator>>
        BY <2>7 DEF SnapUnlink, SnapLink, StoreOnly, walVars
      <3> QED
        BY <2>1, <2>2, <3>1
    <2>8. CASE SnapTruncate(t)
      <3>1. /\ SnapStep(t, "cut", "rewrite") /\ Truncate(t) /\ UNCHANGED <<temps, files, shared>>
        BY <2>8 DEF SnapTruncate, storeVars
      <3> QED
        BY <2>1, <2>2, <2>4, <3>1
    <2>9. CASE SnapKeepsLog(t)
      <3>1. /\ EndsSnapshot(t) /\ UNCHANGED <<temps, files, shared>>
            /\ TruncateRefused(t) \/ UNCHANGED truncator
        BY <2>9 DEF SnapKeepsLog, storeVars, walVars
      <3> QED
        BY <2>1, <2>3, <2>4, <3>1
    <2>10. CASE SnapRewrite(t)
      <3>1. UNCHANGED <<temps, files, shared>>
        BY <2>10 DEF SnapRewrite, storeVars
      <3>2. CASE FlushPart(t) /\ UNCHANGED snap
        BY <1>3, <3>1, <3>2 DEF FlushPart
      <3>3. CASE (Rewrite(t) \/ RewriteFails(t) \/ ReopenFails(t)) /\ EndsSnapshot(t)
        BY <2>1, <2>3, <2>4, <3>1, <3>3
      <3> QED
        BY <2>10, <3>2, <3>3 DEF SnapRewrite
    <2> QED
      BY <1>8, <2>5, <2>6, <2>7, <2>8, <2>9, <2>10, WholeSave DEF SnapRuns
  <1>9. CASE Crash
    <2>1. UNCHANGED <<files, shared>> /\ snap' = [t \in Snapshots |-> NoSnapshot]
      BY <1>9 DEF Crash
    <2>2. \A t \in Snapshots : snap'[t].pc = "idle" /\ snap'[t].at = "none"
      BY <2>1 DEF NoSnapshot
    <2>3. Writing' = {}
      BY <2>2 DEF Writing
    <2> QED
      BY <2>1, <2>2, <2>3 DEF WholeInv
  <1>10. CASE Recover
    BY <1>3, <1>10 DEF Recover, Reopen, storeVars
  <1>11. CASE UNCHANGED vars
    BY <1>3, <1>11 DEF vars, walVars, storeVars
  <1> QED
    BY <1>4, <1>5, <1>7, <1>8, <1>9, <1>10, <1>11 DEF Next

\* For any number of snapshots at once, of one LSN among them, with any of their
\* writes, renamings and links failing and crashes between: recovery never starts
\* from, and the log is never cut for, a snapshot that is not on disk as a whole,
\* unless two snapshots had the same temporary file at once.
THEOREM SnapshotsAreSaved == Spec => []SnapshotBeforeUse
  <1>1. EngineTypes /\ WholeInv => SnapshotBeforeUse
    <2> SUFFICES ASSUME EngineTypes, WholeInv PROVE SnapshotBeforeUse
      OBVIOUS
    <2>1. \A n \in DOMAIN files : OnDisk(n)
      BY DEF WholeInv, OnDisk
    <2>2. latest \subseteq DOMAIN files
      BY DEF EngineTypes, StoreTypes
    <2>3. \A t \in Snapshots : truncator[t].pc = "rewrite" => EndingLSN(t) \in DOMAIN files
      BY DEF EngineTypes, StoreTypes, EndingLSN
    <2> QED
      BY <2>1, <2>2, <2>3 DEF SnapshotBeforeUse
  <1>2. Init => WholeInv
    <2> SUFFICES ASSUME Init PROVE WholeInv
      OBVIOUS
    <2>1. snap = [t \in Snapshots |-> NoSnapshot] /\ temps = [n \in {} |-> NoFile] /\ files = temps
      BY DEF Init
    <2>2. \A t \in Snapshots : snap[t].pc = "idle" /\ snap[t].at = "none"
      BY <2>1 DEF NoSnapshot
    <2>3. Writing = {} /\ DOMAIN files = {}
      BY <2>1, <2>2 DEF Writing
    <2> QED
      BY <2>2, <2>3 DEF WholeInv
  <1>3. EngineTypes /\ WholeInv /\ [Next]_vars => WholeInv'
    BY WholeNext
  <1> QED
    BY <1>1, <1>2, <1>3, EngineTypeCorrect, PTL DEF Spec

-----------------------------------------------------------------------------
(* What an answer is worth: no snapshots, and a log that is synced before an *)
(* answer unless a crash spares what was written                             *)

\* A crash leaves whatever an Append that has returned has written.
Lasting ==
    /\ Snapshots = {}
    /\ PowerLoss => SyncMode = "always" /\ ~SyncMayFail

Logs(file, cmd) == \E i \in DOMAIN file : file[i].entry = cmd

\* A crash leaves n records of the file at least.
Survives(file, n, cmd) ==
    \E i \in 1..(IF PowerLoss THEN n ELSE Len(file)) : file[i].entry = cmd

Holds(ch, cmd) == \E i \in DOMAIN ch : ch[i].cmd = cmd

\* The log has each command once, written by its caller.
LogInv ==
    /\ latest = {}
    /\ log # <<>> => created
    /\ \A i \in DOMAIN log : log[i].lsn > 0
    /\ \A i, j \in DOMAIN log :
            i # j /\ log[i].entry \in Handled => log[i].entry # log[j].entry
    /\ \A i \in DOMAIN log : log[i].entry \in Handled => log[i].entry.no <= calls
    /\ \A a \in Appenders :
        /\ appender[a].pc # "idle" => appender[a].lsn > 0 /\ created
        /\ appender[a].pc = "sync" => log # <<>> /\ log[Len(log)].entry = appender[a].entry
    /\ appender[Notifier].pc # "idle" => appender[Notifier].entry.op = "trade"

\* A caller's command is logged once, then queued once, and on disk before if there
\* was a log.
CallerInv(c) ==
    /\ client[c].pc = "append" <=> appender[c].pc # "idle"
    /\ appender[c].pc # "idle" => appender[c].entry = client[c].cmd
    /\ client[c].pc # "idle" => up /\ client[c].cmd.no <= calls
    /\ appender[c].pc = "write" => ~Logs(log, client[c].cmd)
    /\ client[c].pc \in {"append", "send"} =>
        /\ ~Holds(cmdCh, client[c].cmd) /\ ~Holds(cancelCh, client[c].cmd)
        /\ client[c].cmd \notin Range(applied)
    /\ client[c].pc \in {"send", "wait", "reply"} =>
        client[c].cmd \in unlogged \/ Survives(log, synced, client[c].cmd)
    /\ client[c].pc = "reply" => client[c].cmd \in Range(applied)

Apart ==
    \A c, d \in Clients :
        c # d /\ client[c].pc # "idle" /\ client[d].pc # "idle" =>
            client[c].cmd # client[d].cmd

\* What is queued is queued once and was not executed.
QueueInv ==
    /\ \A ch \in {cmdCh, cancelCh} :
        /\ \A i, j \in DOMAIN ch : i # j => ch[i].cmd # ch[j].cmd
        /\ \A i \in DOMAIN ch : ch[i].cmd.no <= calls /\ ch[i].cmd \notin Range(applied)
    /\ \A i \in DOMAIN cmdCh : cmdCh[i].cmd.op # "cancel"
    /\ \A i \in DOMAIN cancelCh : cancelCh[i].cmd.op = "cancel"
    /\ IsInjective(applied) /\ \A i \in DOMAIN applied : applied[i].no <= calls
    /\ ~up => cmdCh = <<>> /\ cancelCh = <<>>

AnswerInv ==
    \A cmd \in answered :
        /\ cmd \in Handled /\ cmd.no <= calls
        /\ cmd \in unlogged \/ Survives(log, synced, cmd)

LastingInv ==
    LogInv /\ (\A c \in Clients : CallerInv(c)) /\ Apart /\ QueueInv /\ AnswerInv

LEMMA TornIsNone == Torn \notin Handled
BY EngineAssumption, EntryAssumption DEF Handled

\* Replaying gives commands of the file, those of a log that is read as it is all, and
\* none more often than the file has it.
LEMMA ReplayedHolds ==
    ASSUME NEW file \in Seq(Records), NEW reading \in Seq(Records), Found(reading, file),
           latest = {}, \A i \in DOMAIN file : file[i].lsn > 0
    PROVE  /\ \A j \in DOMAIN Replayed(reading) :
                \E i \in DOMAIN file : Replayed(reading)[j] = file[i].entry
           /\ (\A i, j \in DOMAIN file :
                    i # j /\ file[i].entry \in Handled => file[i].entry # file[j].entry)
              => IsInjective(Replayed(reading))
           /\ reading = file =>
                \A i \in DOMAIN file :
                    file[i].entry \in Handled => file[i].entry \in Range(Replayed(reading))
  <1> DEFINE wanted == {r \in Range(reading) : r.lsn > 0 /\ r.entry # Torn /\ r.entry.op # "trade"}
             kept == Kept(reading, wanted)
  <1>1. Base.lsn = 0
    BY DEF Base
  <1>2. Replayed(reading) = CommandsOf(kept)
    BY <1>1 DEF Replayed
  <1>3. kept \in Seq(Records \cap wanted) /\ IsPart(kept, reading, Len(reading), wanted)
    BY KeptIsPart
  <1>4. DOMAIN reading = 1..Len(reading) /\ \A i \in DOMAIN reading : reading[i] \in Records
    BY Elements
  <1>5. \A r \in wanted : r.entry # Torn
    OBVIOUS
  <1>6. \A i \in DOMAIN reading : reading[i].entry \in Handled /\ reading[i].lsn > 0 => reading[i] \in wanted
    BY TornIsNone DEF Range, Handled
  <1>7. DOMAIN Replayed(reading) = DOMAIN kept
        /\ \A j \in DOMAIN kept : Replayed(reading)[j] = kept[j].entry
    BY <1>2 DEF CommandsOf
  <1>8. Replayed(reading) \in Seq(Handled)
    BY ReplayedTypes
  <1> HIDE DEF kept, wanted
  <1>9. /\ \A j \in DOMAIN kept : kept[j] \in wanted
        /\ DOMAIN kept = 1..Len(kept) /\ Len(kept) \in Nat
    BY <1>3
  <1>10. ASSUME NEW j \in DOMAIN Replayed(reading)
         PROVE  \E i \in DOMAIN file : Replayed(reading)[j] = file[i].entry
    <2>1. PICK i \in 1..Len(reading) : kept[j] = reading[i]
      BY <1>3, <1>7 DEF IsPart
    <2>2. reading[i].entry # Torn
      BY <1>5, <1>7, <1>9, <2>1
    <2>3. PICK l \in DOMAIN file : reading[i] = file[l]
      BY <1>4, <2>1, <2>2 DEF Found
    <2> QED
      BY <1>7, <2>1, <2>3
  <1>11. ASSUME \A i, j \in DOMAIN file :
                    i # j /\ file[i].entry \in Handled => file[i].entry # file[j].entry
         PROVE  IsInjective(Replayed(reading))
    <2>1. ASSUME NEW j \in DOMAIN kept, NEW k \in DOMAIN kept, j < k,
                 kept[j].entry = kept[k].entry
          PROVE  FALSE
      <3>1. PICK i, l \in 1..Len(reading) : i < l /\ kept[j] = reading[i] /\ kept[k] = reading[l]
        BY <1>3, <2>1 DEF IsPart
      <3>2. reading[i].entry # Torn /\ reading[l].entry # Torn
        BY <1>5, <1>9, <2>1, <3>1
      <3>3. PICK m, n \in DOMAIN file : m < n /\ reading[i] = file[m] /\ reading[l] = file[n]
        BY <1>4, <3>1, <3>2 DEF Found
      <3>4. kept[j].entry \in Handled
        BY <1>7, <1>8, Elements
      <3>5. m # n /\ file[m].entry = file[n].entry /\ file[m].entry \in Handled
        BY <2>1, <3>1, <3>3, <3>4
      <3> QED
        BY <1>11, <3>5
    <2>2. \A j, k \in DOMAIN kept : kept[j].entry = kept[k].entry => j = k
      BY <1>9, <2>1
    <2> QED
      BY <1>7, <2>2 DEF IsInjective
  <1>12. ASSUME reading = file, NEW i \in DOMAIN file, file[i].entry \in Handled
         PROVE  file[i].entry \in Range(Replayed(reading))
    <2>1. file[i] \in wanted
      BY <1>6, <1>12
    <2>2. PICK j \in DOMAIN kept : kept[j] = file[i]
      BY <1>3, <1>4, <1>12, <2>1 DEF IsPart
    <2> QED
      BY <1>7, <2>2 DEF Range
  <1> QED
    BY <1>10, <1>11, <1>12

\* The numbers of a command and of the calls.
LEMMA Numbers ==
    ASSUME EngineTypes
    PROVE  /\ MaxCalls \in Nat /\ calls \in Nat
           /\ \A cmd \in CommandSet : cmd.no \in Nat
  <1>1. MaxCalls \in Nat
    BY EngineAssumption
  <1>2. calls \in 0..MaxCalls
    BY DEF EngineTypes, CallTypes
  <1> QED
    BY <1>1, <1>2 DEF CommandSet

\* A caller that a step leaves alone.
LEMMA CallerStays ==
    ASSUME EngineTypes, EngineTypes', NEW c \in Clients, CallerInv(c),
           client'[c] = client[c], appender'[c] = appender[c], up' = up, calls' >= calls,
           NEW cmd, cmd = client[c].cmd,
           appender[c].pc = "write" => (Logs(log', cmd) => Logs(log, cmd)),
           client[c].pc \in {"append", "send"} =>
                /\ Holds(cmdCh', cmd) => Holds(cmdCh, cmd)
                /\ Holds(cancelCh', cmd) => Holds(cancelCh, cmd)
                /\ cmd \in Range(applied') => cmd \in Range(applied),
           Survives(log, synced, cmd) => Survives(log', synced', cmd),
           cmd \in unlogged => cmd \in unlogged',
           cmd \in Range(applied) => cmd \in Range(applied')
    PROVE  CallerInv(c)'
  <1>1. client[c].pc # "idle" => client[c].cmd.no <= calls'
    <2>1. client[c].pc # "idle" => client[c].cmd \in Handled /\ client[c].cmd.no <= calls
      BY DEF EngineTypes, CallTypes, CallerInv
    <2>2. MaxCalls \in Nat /\ calls' \in 0..MaxCalls
      BY EngineAssumption DEF EngineTypes, CallTypes
    <2>3. calls \in Nat /\ \A x \in Handled : x.no \in Nat
      BY Numbers DEF Handled
    <2> QED
      BY <2>1, <2>2, <2>3
  <1> QED
    BY <1>1 DEF CallerInv, Logs, Holds, Survives

\* What is in a channel.
LEMMA Queues ==
    ASSUME EngineTypes, NEW ch \in {cmdCh, cancelCh}
    PROVE  ch \in Queue /\ \A i \in DOMAIN ch : ch[i].client \in Clients /\ ch[i].cmd \in Handled
  <1>1. ch \in Seq([client : Clients, cmd : Handled])
    BY DEF EngineTypes, CallTypes, Queue
  <1>2. \A i \in DOMAIN ch : ch[i] \in [client : Clients, cmd : Handled]
    BY <1>1, Elements
  <1> QED
    BY <1>1, <1>2 DEF Queue

\* A call begins, with a number of its own.
LEMMA CallLasting ==
    ASSUME EngineTypes, EngineTypes', LastingInv, NEW c \in Clients, NEW cmd \in Handled,
           cmd.no = calls + 1, up, Call(c, cmd)
    PROVE  LastingInv'
  <1>1. PICK logs \in BOOLEAN :
        /\ client[c].pc = "idle"
        /\ client' = [client EXCEPT ![c] =
                        [NoCall EXCEPT !.pc = IF logs THEN "append" ELSE "send", !.cmd = cmd]]
        /\ calls' = calls + 1
        /\ UNCHANGED <<cmdCh, cancelCh, applied, up, latest, log, synced, answered>>
        /\ logs => /\ unlogged' = unlogged /\ created'
                   /\ appender' = [appender EXCEPT ![c] =
                                    [pc |-> "write", lsn |-> lsn + 1, entry |-> cmd]]
        /\ ~logs => /\ unlogged' = unlogged \cup {cmd} /\ (created => created')
                    /\ appender' = appender
    <2>1. /\ client[c].pc = "idle" /\ calls' = calls + 1
          /\ UNCHANGED <<cmdCh, cancelCh, applied, up, latest, answered>>
      BY DEF Call, actorVars, storeVars
    <2>2. CASE /\ GetsLog /\ Reserve(c, cmd)
               /\ client' = [client EXCEPT ![c] = [NoCall EXCEPT !.pc = "append", !.cmd = cmd]]
               /\ UNCHANGED unlogged
      <3>1. /\ created' /\ UNCHANGED <<log, synced>>
            /\ appender' = [appender EXCEPT ![c] = [pc |-> "write", lsn |-> lsn + 1, entry |-> cmd]]
        BY <2>2 DEF GetsLog, Reserve
      <3> WITNESS TRUE \in BOOLEAN
      <3> QED
        BY <2>1, <2>2, <3>1
    <2>3. CASE /\ GetsNoLog
               /\ client' = [client EXCEPT ![c] = [NoCall EXCEPT !.pc = "send", !.cmd = cmd]]
               /\ unlogged' = unlogged \cup {cmd}
      <3>1. UNCHANGED <<log, synced, appender>>
        BY <2>3 DEF GetsNoLog, walVars
      <3>2. created' = created \/ created' = TRUE
        BY <2>3 DEF GetsNoLog
      <3> WITNESS FALSE \in BOOLEAN
      <3> QED
        BY <2>1, <2>3, <3>1, <3>2
    <2> QED
      BY <2>2, <2>3 DEF Call
  <1>2. c \in Appenders /\ c # Notifier /\ Notifier \in Appenders /\ Clients \subseteq Appenders
    BY EngineAssumption
  <1>3. /\ client'[c].pc = (IF logs THEN "append" ELSE "send") /\ client'[c].cmd = cmd
        /\ \A d \in Clients \ {c} : client'[d] = client[d]
    BY <1>1 DEF EngineTypes, CallTypes, NoCall
  <1>4. /\ logs => /\ appender'[c].pc = "write" /\ appender'[c].entry = cmd
                   /\ appender'[c].lsn > 0
        /\ \A a \in Appenders \ {c} : appender'[a] = appender[a]
    BY <1>1, <1>2 DEF EngineTypes, LogTypes
  <1>5. calls \in Nat /\ calls' \in Nat /\ \A x \in CommandSet : x.no \in Nat
    BY Numbers, <1>1
  <1>6. \A d \in Clients \ {c} : CallerInv(d)'
    <2>1. TAKE d \in Clients \ {c}
    <2> DEFINE x == client[d].cmd
    <2>2. /\ client'[d] = client[d] /\ appender'[d] = appender[d] /\ calls' >= calls
          /\ x \in unlogged => x \in unlogged'
      BY <1>1, <1>2, <1>3, <1>4, <1>5
    <2>3. x = client[d].cmd
      OBVIOUS
    <2> HIDE DEF x
    <2> QED
      BY <1>1, <2>2, <2>3, CallerStays DEF LastingInv
  <1>7. CallerInv(c)'
    <2>1. ~Logs(log, cmd)
      <3>1. ASSUME NEW i \in DOMAIN log, log[i].entry = cmd
            PROVE  FALSE
        BY <1>5, <3>1 DEF LastingInv, LogInv
      <3> QED
        BY <3>1 DEF Logs
    <2>2. ~Holds(cmdCh, cmd) /\ ~Holds(cancelCh, cmd)
      BY <1>5 DEF LastingInv, QueueInv, Holds
    <2>3. cmd \notin Range(applied)
      BY <1>5 DEF LastingInv, QueueInv, Range
    <2>4. appender[c].pc = "idle"
      BY <1>1 DEF LastingInv, CallerInv
    <2>5. CASE logs
      BY <1>1, <1>3, <1>4, <1>5, <2>1, <2>2, <2>3, <2>5 DEF CallerInv
    <2>6. CASE ~logs
      BY <1>1, <1>3, <1>5, <2>2, <2>3, <2>4, <2>6 DEF CallerInv
    <2> QED
      BY <2>5, <2>6
  <1>8. Apart'
    <2>1. ASSUME NEW d \in Clients \ {c}, client[d].pc # "idle"
          PROVE  client[d].cmd # cmd
      <3>1. client[d].cmd.no <= calls
        BY <2>1 DEF LastingInv, CallerInv
      <3> QED
        BY <1>5, <3>1
    <2> QED
      BY <1>3, <2>1 DEF LastingInv, Apart
  <1>9. LogInv'
    <2>1. \A i \in DOMAIN log : log[i].entry \in Handled => log[i].entry.no <= calls'
      <3>1. TAKE i \in DOMAIN log
      <3>2. HAVE log[i].entry \in Handled
      <3>3. log[i].entry.no <= calls /\ log[i].entry.no \in Nat
        BY <1>5, <3>2 DEF LastingInv, LogInv, Handled
      <3> QED
        BY <1>1, <1>5, <3>3
    <2>2. \A a \in Appenders :
            /\ appender'[a].pc # "idle" => appender'[a].lsn > 0 /\ created'
            /\ appender'[a].pc = "sync" => log # <<>> /\ log[Len(log)].entry = appender'[a].entry
      BY <1>1, <1>4 DEF LastingInv, LogInv
    <2>3. appender'[Notifier].pc # "idle" => appender'[Notifier].entry.op = "trade"
      BY <1>2, <1>4 DEF LastingInv, LogInv
    <2>4. log # <<>> => created'
      BY <1>1 DEF LastingInv, LogInv
    <2> QED
      BY <1>1, <2>1, <2>2, <2>3, <2>4 DEF LastingInv, LogInv
  <1>10. QueueInv'
    <2>1. ASSUME NEW ch \in {cmdCh, cancelCh}, NEW i \in DOMAIN ch
          PROVE  ch[i].cmd.no <= calls'
      <3>2. ch[i].cmd \in CommandSet
        BY Queues DEF Handled
      <3>3. ch[i].cmd.no <= calls /\ ch[i].cmd.no \in Nat
        BY <1>5, <3>2 DEF LastingInv, QueueInv
      <3> QED
        BY <1>1, <1>5, <3>3
    <2>2. ASSUME NEW i \in DOMAIN applied
          PROVE  applied[i].no <= calls'
      <3>1. applied[i] \in CommandSet
        BY DEF EngineTypes, BookTypes, Handled
      <3>2. applied[i].no <= calls /\ applied[i].no \in Nat
        BY <1>5, <3>1 DEF LastingInv, QueueInv
      <3> QED
        BY <1>1, <1>5, <3>2
    <2> QED
      BY <1>1, <2>1, <2>2 DEF LastingInv, QueueInv
  <1>11. AnswerInv'
    <2>1. ASSUME NEW x \in answered
          PROVE  x \in Handled /\ x.no <= calls' /\ (x \in unlogged' \/ Survives(log, synced, x))
      <3>1. x \in Handled /\ x.no <= calls /\ (x \in unlogged \/ Survives(log, synced, x))
        BY DEF LastingInv, AnswerInv
      <3>2. x.no \in Nat
        BY <1>5, <3>1 DEF Handled
      <3> QED
        BY <1>1, <1>5, <3>1, <3>2
    <2> QED
      BY <1>1, <2>1 DEF AnswerInv, Survives
  <1> QED
    BY <1>6, <1>7, <1>8, <1>9, <1>10, <1>11 DEF LastingInv

\* What an Append does to the log.
LEMMA AppendLogs ==
    ASSUME EngineTypes, EngineTypes', LastingInv, NEW a \in Appenders, AppendStep(a),
           UNCHANGED <<calls, latest, created>>
    PROVE  /\ LogInv'
           /\ \A cmd : /\ Survives(log, synced, cmd) => Survives(log', synced', cmd)
                       /\ Logs(log', cmd) => Logs(log, cmd) \/ cmd = appender[a].entry
           /\ \A b \in Appenders \ {a} : appender'[b] = appender[b]
           /\ appender'[a].pc # "idle" =>
                appender'[a].pc = "sync" /\ appender'[a].entry = appender[a].entry
           /\ Lasting /\ appender'[a].pc = "idle" => Survives(log', synced', appender[a].entry)
  <1> DEFINE e == appender[a].entry
             n == Len(log) + 1
  <1>1. /\ LogTypes /\ log \in Seq(Records) /\ synced \in 0..Len(log) /\ Len(log) \in Nat
        /\ DOMAIN log = 1..Len(log) /\ DOMAIN appender = Appenders
    BY DEF EngineTypes, LogTypes
  <1>2. /\ appender[a].pc # "idle" /\ e \in CommandSet /\ appender[a].lsn > 0
    BY DEF AppendStep, Write, Sync, EngineTypes, LogTypes, LastingInv, LogInv
  <1>0. created
    BY <1>2 DEF LastingInv, LogInv
  <1>3. e \in Handled => a \in Clients
    BY <1>2, EngineAssumption DEF LastingInv, LogInv, Handled
  <1>4. CASE Write(a)
    <2>1. /\ log' = Append(log, [lsn |-> appender[a].lsn, entry |-> e])
          /\ appender[a].pc = "write" /\ Unlocked /\ synced' = synced
      BY <1>4 DEF Write, NewRecord
    <2>2. PICK sync \in ShouldSync(pending + 1) :
            appender' = [appender EXCEPT ![a] =
                            IF sync THEN [@ EXCEPT !.pc = "sync"] ELSE NoAppend]
      BY <1>4 DEF Write
    <2>3. /\ DOMAIN log' = DOMAIN log \cup {n} /\ n \notin DOMAIN log /\ Len(log') = n
          /\ \A i \in DOMAIN log : log'[i] = log[i]
          /\ log'[n].entry = e /\ log'[n].lsn > 0
      BY <1>1, <1>2, <2>1
    <2>4. /\ \A b \in Appenders \ {a} : appender'[b] = appender[b]
          /\ \/ sync /\ appender'[a].pc = "sync" /\ appender'[a].entry = e
                /\ appender'[a].lsn = appender[a].lsn
             \/ ~sync /\ appender'[a].pc = "idle"
      <3>1. appender[a] \in [pc : {"idle", "write", "sync"}, lsn : Nat,
                             entry : CommandSet \cup {NoEntry}]
        BY <1>1 DEF LogTypes
      <3>2. /\ [appender[a] EXCEPT !.pc = "sync"].pc = "sync"
            /\ [appender[a] EXCEPT !.pc = "sync"].entry = e
            /\ [appender[a] EXCEPT !.pc = "sync"].lsn = appender[a].lsn
            /\ NoAppend.pc = "idle"
        BY <3>1 DEF NoAppend
      <3>3. appender'[a] = IF sync THEN [appender[a] EXCEPT !.pc = "sync"] ELSE NoAppend
        BY <1>1, <2>2
      <3>4. \A b \in Appenders \ {a} : appender'[b] = appender[b]
        BY <1>1, <2>2
      <3>5. sync \in BOOLEAN
        BY DEF ShouldSync
      <3> QED
        BY <3>2, <3>3, <3>4, <3>5
    <2>5. e \in Handled => ~Logs(log, e) /\ e.no <= calls
      <3>1. HAVE e \in Handled
      <3>2. a \in Clients /\ CallerInv(a)
        BY <1>3, <3>1 DEF LastingInv
      <3> QED
        BY <2>1, <3>2 DEF CallerInv
    <2> HIDE DEF e, n
    <2>6. \A cmd : /\ Survives(log, synced, cmd) => Survives(log', synced', cmd)
                   /\ Logs(log', cmd) => Logs(log, cmd) \/ cmd = e
      <3>1. TAKE cmd
      <3>2. 1..(IF PowerLoss THEN synced ELSE Len(log)) \subseteq DOMAIN log
        BY <1>1
      <3>3. 1..(IF PowerLoss THEN synced ELSE Len(log))
                \subseteq 1..(IF PowerLoss THEN synced' ELSE Len(log'))
        BY <1>1, <2>1, <2>3 DEF n
      <3>4. Survives(log, synced, cmd) => Survives(log', synced', cmd)
        BY <2>3, <3>2, <3>3 DEF Survives
      <3>5. Logs(log', cmd) => Logs(log, cmd) \/ cmd = e
        BY <2>3 DEF Logs
      <3> QED
        BY <3>4, <3>5
    <2>7. LogInv'
      <3>1. \A i \in DOMAIN log' : log'[i].lsn > 0
        BY <1>2, <2>3 DEF LastingInv, LogInv, e
      <3>2. \A i \in DOMAIN log' : log'[i].entry \in Handled => log'[i].entry.no <= calls'
        BY <2>3, <2>5 DEF LastingInv, LogInv
      <3>3. ASSUME NEW i \in DOMAIN log', NEW j \in DOMAIN log', i # j,
                   log'[i].entry = log'[j].entry, log'[i].entry \in Handled
            PROVE  FALSE
        <4>2. CASE i \in DOMAIN log /\ j \in DOMAIN log
          BY <2>3, <3>3, <4>2 DEF LastingInv, LogInv
        <4>3. CASE i = n \/ j = n
          <5>1. e \in Handled /\ ~Logs(log, e)
            BY <2>3, <2>5, <3>3, <4>3
          <5>2. i \in DOMAIN log \/ j \in DOMAIN log
            BY <2>3, <3>3
          <5> QED
            BY <2>3, <3>3, <4>3, <5>1, <5>2 DEF Logs
        <4> QED
          BY <2>3, <4>2, <4>3
      <3>4. \A b \in Appenders : appender'[b].pc = "sync" => b = a
        BY <2>1, <2>4 DEF Unlocked
      <3>5. log' # <<>> /\ log'[Len(log')].entry = e
        BY <2>3 DEF n
      <3>6. \A b \in Appenders :
            /\ appender'[b].pc # "idle" => appender'[b].lsn > 0 /\ created'
            /\ appender'[b].pc = "sync" => log' # <<>> /\ log'[Len(log')].entry = appender'[b].entry
        BY <1>0, <1>2, <2>4, <3>4, <3>5 DEF LastingInv, LogInv
      <3>7. appender'[Notifier].pc # "idle" => appender'[Notifier].entry.op = "trade"
        BY <1>2, <2>4, EngineAssumption DEF LastingInv, LogInv, e
      <3> QED
        BY <1>0, <3>1, <3>2, <3>3, <3>6, <3>7 DEF LastingInv, LogInv
    <2>8. ASSUME Lasting, appender'[a].pc = "idle"
          PROVE  Survives(log', synced', e)
      <3>1. ~sync
        BY <2>4, <2>8
      <3>2. ~PowerLoss
        BY <2>8, <3>1 DEF Lasting, ShouldSync
      <3>3. n \in 1..Len(log')
        BY <1>1, <2>3 DEF n
      <3> QED
        BY <2>3, <3>2, <3>3 DEF Survives
    <2> QED
      BY <2>4, <2>6, <2>7, <2>8 DEF e
  <1>5. CASE Sync(a)
    <2>1. /\ appender[a].pc = "sync" /\ log' = log /\ synced' \in {Len(log), synced}
          /\ appender' = [appender EXCEPT ![a] = NoAppend]
          /\ synced' = Len(log) \/ SyncMayFail
      BY <1>5 DEF Sync
    <2>2. /\ \A b \in Appenders \ {a} : appender'[b] = appender[b]
          /\ appender'[a].pc = "idle"
      BY <1>1, <2>1 DEF NoAppend
    <2>3. log # <<>> /\ log[Len(log)].entry = e
      BY <2>1 DEF LastingInv, LogInv
    <2> HIDE DEF e, n
    <2>4. \A cmd : /\ Survives(log, synced, cmd) => Survives(log', synced', cmd)
                   /\ Logs(log', cmd) => Logs(log, cmd) \/ cmd = e
      <3>1. TAKE cmd
      <3>2. 1..(IF PowerLoss THEN synced ELSE Len(log))
                \subseteq 1..(IF PowerLoss THEN synced' ELSE Len(log'))
        BY <1>1, <2>1
      <3> QED
        BY <2>1, <3>2 DEF Survives
    <2>5. LogInv'
      BY <2>1, <2>2 DEF LastingInv, LogInv
    <2>6. ASSUME Lasting
          PROVE  Survives(log', synced', e)
      <3>1. PowerLoss => synced' = Len(log)
        BY <2>1, <2>6 DEF Lasting
      <3>2. Len(log) \in 1..(IF PowerLoss THEN synced' ELSE Len(log'))
        BY <1>1, <2>1, <2>3, <3>1
      <3> QED
        BY <2>1, <2>3, <3>2 DEF Survives
    <2> QED
      BY <2>2, <2>4, <2>5, <2>6 DEF e
  <1> QED
    BY <1>4, <1>5 DEF AppendStep

LEMMA ClientAppendLasting ==
    ASSUME EngineTypes, EngineTypes', LastingInv, Lasting, NEW c \in Clients, ClientAppends(c)
    PROVE  LastingInv'
  <1> DEFINE cmd == client[c].cmd
  <1>1. /\ client[c].pc = "append" /\ AppendStep(c)
        /\ client' = IF appender'[c].pc = "idle"
                     THEN [client EXCEPT ![c].pc = "send"] ELSE client
        /\ UNCHANGED <<cmdCh, cancelCh, applied, up, latest, calls, answered, unlogged, created>>
    BY DEF ClientAppends, actorVars, storeVars, boundVars, logVars, ghostVars
  <1>2. c \in Appenders /\ c # Notifier /\ Clients \subseteq Appenders
    BY EngineAssumption
  <1>3. CallerInv(c) /\ appender[c].pc # "idle" /\ appender[c].entry = cmd
    BY <1>1 DEF LastingInv, CallerInv
  <1>4. /\ \A d \in Clients \ {c} : client'[d] = client[d]
        /\ client'[c].cmd = cmd
        /\ client'[c].pc = IF appender'[c].pc = "idle" THEN "send" ELSE "append"
    <2>1. client \in [Clients -> [pc : {"idle", "append", "send", "wait", "reply"},
                                  cmd : Handled \cup {NoEntry}, traded : BOOLEAN]]
      BY DEF EngineTypes, CallTypes
    <2>2. CASE appender'[c].pc = "idle"
      BY <1>1, <2>1, <2>2
    <2>3. CASE appender'[c].pc # "idle"
      BY <1>1, <2>1, <2>3
    <2> QED
      BY <2>2, <2>3
  <1>5. /\ LogInv'
        /\ \A x : /\ Survives(log, synced, x) => Survives(log', synced', x)
                  /\ Logs(log', x) => Logs(log, x) \/ x = cmd
        /\ \A b \in Appenders \ {c} : appender'[b] = appender[b]
        /\ appender'[c].pc # "idle" => appender'[c].pc = "sync" /\ appender'[c].entry = cmd
        /\ appender'[c].pc = "idle" => Survives(log', synced', cmd)
    BY <1>1, <1>2, <1>3, AppendLogs
  <1> HIDE DEF cmd
  <1>6. CallerInv(c)'
    <2>1. up' /\ cmd.no <= calls'
      BY <1>1, <1>3 DEF CallerInv, cmd
    <2>2. /\ ~Holds(cmdCh', cmd) /\ ~Holds(cancelCh', cmd) /\ cmd \notin Range(applied')
      BY <1>1, <1>3 DEF CallerInv, cmd
    <2> QED
      BY <1>4, <1>5, <2>1, <2>2 DEF CallerInv
  <1>7. ASSUME NEW d \in Clients \ {c}
        PROVE  CallerInv(d)'
    <2> DEFINE x == client[d].cmd
    <2>1. /\ client'[d] = client[d] /\ appender'[d] = appender[d] /\ calls' >= calls
          /\ CallerInv(d) /\ UNCHANGED <<up, cmdCh, cancelCh, applied, unlogged>>
      BY <1>1, <1>2, <1>4, <1>5, Numbers DEF LastingInv
    <2>2. appender[d].pc = "write" => (Logs(log', x) => Logs(log, x))
      <3>1. HAVE appender[d].pc = "write"
      <3>2. client[d].pc # "idle" /\ client[c].pc # "idle"
        BY <1>1, <2>1, <3>1 DEF CallerInv
      <3>3. x # cmd
        BY <3>2 DEF LastingInv, Apart, cmd
      <3> QED
        BY <1>5, <3>3
    <2>3. Survives(log, synced, x) => Survives(log', synced', x)
      BY <1>5
    <2>4. x = client[d].cmd
      OBVIOUS
    <2> HIDE DEF x
    <2> QED
      BY <2>1, <2>2, <2>3, <2>4, CallerStays
  <1>8. Apart'
    <2>1. \A d \in Clients : client'[d].cmd = client[d].cmd
                             /\ (client'[d].pc # "idle" => client[d].pc # "idle")
      BY <1>1, <1>4 DEF cmd
    <2> QED
      BY <2>1 DEF LastingInv, Apart
  <1>9. QueueInv' /\ AnswerInv'
    BY <1>1, <1>5 DEF LastingInv, QueueInv, AnswerInv
  <1> QED
    BY <1>5, <1>6, <1>7, <1>8, <1>9 DEF LastingInv

\* What an Append that fails does to the log.
LEMMA FailLogs ==
    ASSUME EngineTypes, EngineTypes', LastingInv, NEW a \in Appenders, WriteFails(a),
           UNCHANGED <<calls, latest, created>>
    PROVE  /\ LogInv'
           /\ \A cmd \in Handled : /\ Survives(log, synced, cmd) => Survives(log', synced', cmd)
                                   /\ Logs(log', cmd) => Logs(log, cmd)
           /\ \A b \in Appenders \ {a} : appender'[b] = appender[b]
           /\ appender'[a].pc = "idle"
  <1> DEFINE r == NewRecord(a)
             n == Len(log) + 1
             all == Append(log, r)
             torn == [lsn |-> all[n].lsn, entry |-> Torn]
  <1>1. /\ LogTypes /\ log \in Seq(Records) /\ synced \in 0..Len(log) /\ Len(log) \in Nat
        /\ DOMAIN log = 1..Len(log) /\ DOMAIN appender = Appenders
    BY DEF EngineTypes, LogTypes
  <1>2. /\ appender[a].pc = "write" /\ Unlocked /\ synced' = synced
        /\ appender' = [appender EXCEPT ![a] = NoAppend]
        /\ log' = log \/ log' \in Beginnings(all, Len(log)) \ {all}
    BY DEF WriteFails
  <1>3. r \in Records /\ r.lsn > 0
    <2>1. r \in Records
      BY <1>1, <1>2, NewRecordType
    <2>2. r.lsn = appender[a].lsn
      BY DEF NewRecord
    <2> QED
      BY <1>2, <2>1, <2>2 DEF LastingInv, LogInv
  <1>4. created
    BY <1>2 DEF LastingInv, LogInv
  <1> HIDE DEF r
  <1>5. /\ all \in Seq(Records) /\ Len(all) = n /\ all[n] = r /\ SubSeq(all, 1, Len(log)) = log
        /\ Len(log) \in 0..Len(all) /\ n \in Nat /\ SubSeq(all, 1, n) = all
    BY <1>1, <1>3
  <1>6. torn \in Records /\ torn.lsn > 0 /\ torn.entry = Torn
    BY <1>3, <1>5 DEF Records
  <1> HIDE DEF all, torn
  <1>7. log' = log \/ log' = Append(log, torn)
    <2>1. CASE log' \in Beginnings(all, Len(log)) \ {all}
      <3> DEFINE k == Len(log)
      <3>0. k \in 0..Len(all) /\ log' \in Beginnings(all, k)
        BY <1>5, <2>1
      <3> HIDE DEF k
      <3>1. PICK m \in k..Len(all) :
                \/ log' = SubSeq(all, 1, m)
                \/ /\ m < Len(all)
                   /\ log' = Append(SubSeq(all, 1, m), [lsn |-> all[m + 1].lsn, entry |-> Torn])
        BY <1>5, <3>0, BeginningsAre
      <3> USE DEF k
      <3>2. CASE m = Len(log)
        BY <1>1, <1>5, <3>1, <3>2 DEF torn
      <3>3. CASE m # Len(log)
        <4>1. Len(all) = Len(log) + 1 /\ Len(log) \in Nat /\ m \in Len(log)..Len(all)
          BY <1>1, <1>5, <3>1
        <4>2. m = Len(log) + 1
          BY <3>3, <4>1
        <4> QED
          BY <1>1, <1>5, <2>1, <3>1, <4>2
      <3> QED
        BY <3>2, <3>3
    <2> QED
      BY <1>2, <2>1
  <1>8. /\ DOMAIN log \subseteq DOMAIN log' /\ Len(log') >= Len(log) /\ Len(log') \in Nat
        /\ \A i \in DOMAIN log : log'[i] = log[i]
        /\ \A i \in DOMAIN log' \ DOMAIN log : log'[i] = torn
    <2>1. CASE log' = log
      BY <1>1, <2>1
    <2>2. CASE log' = Append(log, torn)
      BY <1>1, <1>6, <2>2
    <2> QED
      BY <1>7, <2>1, <2>2
  <1>9. /\ \A b \in Appenders \ {a} : appender'[b] = appender[b]
        /\ appender'[a].pc = "idle"
    BY <1>1, <1>2 DEF NoAppend
  <1>10. \A b \in Appenders : appender'[b].pc # "sync"
    BY <1>2, <1>9 DEF Unlocked
  <1>11. \A i \in DOMAIN log' : log'[i].entry \in Handled => i \in DOMAIN log
    BY <1>6, <1>8, TornIsNone
  <1>12. ASSUME NEW cmd \in Handled
         PROVE  /\ Survives(log, synced, cmd) => Survives(log', synced', cmd)
                /\ Logs(log', cmd) => Logs(log, cmd)
    <2>1. 1..(IF PowerLoss THEN synced ELSE Len(log)) \subseteq DOMAIN log
      BY <1>1
    <2>2. 1..(IF PowerLoss THEN synced ELSE Len(log))
              \subseteq 1..(IF PowerLoss THEN synced' ELSE Len(log'))
      BY <1>1, <1>2, <1>8
    <2>3. Survives(log, synced, cmd) => Survives(log', synced', cmd)
      BY <1>8, <2>1, <2>2 DEF Survives
    <2>4. Logs(log', cmd) => Logs(log, cmd)
      BY <1>8, <1>11 DEF Logs
    <2> QED
      BY <2>3, <2>4
  <1>13. LogInv'
    <2>1. \A i \in DOMAIN log' : log'[i].lsn > 0
      BY <1>6, <1>8 DEF LastingInv, LogInv
    <2>2. \A i \in DOMAIN log' : log'[i].entry \in Handled => log'[i].entry.no <= calls'
      BY <1>8, <1>11 DEF LastingInv, LogInv
    <2>3. \A i, j \in DOMAIN log' :
            i # j /\ log'[i].entry \in Handled => log'[i].entry # log'[j].entry
      <3>1. TAKE i, j \in DOMAIN log'
      <3>2. HAVE i # j /\ log'[i].entry \in Handled
      <3>3. CASE j \in DOMAIN log
        BY <1>8, <1>11, <3>2, <3>3 DEF LastingInv, LogInv
      <3>4. CASE j \notin DOMAIN log
        BY <1>6, <1>8, <3>2, <3>4, TornIsNone
      <3> QED
        BY <3>3, <3>4
    <2>4. \A b \in Appenders :
            appender'[b].pc # "idle" => appender'[b].lsn > 0 /\ created'
      BY <1>4, <1>9 DEF LastingInv, LogInv
    <2>5. appender'[Notifier].pc # "idle" => appender'[Notifier].entry.op = "trade"
      BY <1>9, EngineAssumption DEF LastingInv, LogInv
    <2> QED
      BY <1>4, <1>10, <2>1, <2>2, <2>3, <2>4, <2>5 DEF LastingInv, LogInv
  <1> QED
    BY <1>9, <1>12, <1>13

\* The others, when the log has changed and they have not.
LEMMA OthersLasting ==
    ASSUME EngineTypes, EngineTypes', LastingInv, NEW d \in Clients,
           client'[d] = client[d], appender'[d] = appender[d],
           UNCHANGED <<cmdCh, cancelCh, applied, up, calls, unlogged>>,
           \A cmd \in Handled : /\ Survives(log, synced, cmd) => Survives(log', synced', cmd)
                                /\ Logs(log', cmd) => Logs(log, cmd)
    PROVE  CallerInv(d)'
  <1> DEFINE x == client[d].cmd
  <1>1. CallerInv(d) /\ calls' >= calls
    BY Numbers DEF LastingInv
  <1>2. client[d].pc # "idle" => x \in Handled
    BY DEF EngineTypes, CallTypes
  <1>3. CASE client[d].pc = "idle"
    BY <1>1, <1>3 DEF CallerInv
  <1>4. CASE client[d].pc # "idle"
    <2>1. /\ Survives(log, synced, x) => Survives(log', synced', x)
          /\ Logs(log', x) => Logs(log, x)
      BY <1>2, <1>4
    <2>2. x = client[d].cmd
      OBVIOUS
    <2> HIDE DEF x
    <2> QED
      BY <1>1, <2>1, <2>2, CallerStays
  <1> QED
    BY <1>3, <1>4

LEMMA ClientAppendFailsLasting ==
    ASSUME EngineTypes, EngineTypes', LastingInv, NEW c \in Clients, ClientAppendFails(c)
    PROVE  LastingInv'
  <1>1. /\ client[c].pc = "append" /\ WriteFails(c) /\ client' = [client EXCEPT ![c] = NoCall]
        /\ UNCHANGED <<cmdCh, cancelCh, applied, up, latest, calls, answered, unlogged, created>>
    BY DEF ClientAppendFails, actorVars, storeVars, boundVars, logVars, ghostVars
  <1>2. c \in Appenders /\ Clients \subseteq Appenders
    BY EngineAssumption
  <1>3. /\ \A d \in Clients \ {c} : client'[d] = client[d]
        /\ client'[c].pc = "idle"
    BY <1>1 DEF EngineTypes, CallTypes, NoCall
  <1>4. /\ LogInv'
        /\ \A x \in Handled : /\ Survives(log, synced, x) => Survives(log', synced', x)
                              /\ Logs(log', x) => Logs(log, x)
        /\ \A b \in Appenders \ {c} : appender'[b] = appender[b]
        /\ appender'[c].pc = "idle"
    BY <1>1, <1>2, FailLogs
  <1>5. CallerInv(c)'
    BY <1>3, <1>4 DEF CallerInv
  <1>6. \A d \in Clients \ {c} : CallerInv(d)'
    BY <1>1, <1>2, <1>3, <1>4, OthersLasting
  <1>7. Apart' /\ QueueInv' /\ AnswerInv'
    BY <1>1, <1>3, <1>4 DEF LastingInv, Apart, QueueInv, AnswerInv
  <1> QED
    BY <1>4, <1>5, <1>6, <1>7 DEF LastingInv

LEMMA NotifierAppendLasting ==
    ASSUME EngineTypes, EngineTypes', LastingInv, NotifierAppends
    PROVE  LastingInv'
  <1>1. /\ AppendStep(Notifier) \/ WriteFails(Notifier)
        /\ UNCHANGED <<client, cmdCh, cancelCh, applied, up, latest, calls, answered, unlogged,
                       created>>
    BY DEF NotifierAppends, actorVars, storeVars, boundVars, logVars, ghostVars
  <1>2. Notifier \in Appenders /\ Notifier \notin Clients /\ Clients \subseteq Appenders
    BY EngineAssumption
  <1>3. /\ LogInv'
        /\ \A x \in Handled : /\ Survives(log, synced, x) => Survives(log', synced', x)
                              /\ Logs(log', x) => Logs(log, x)
        /\ \A b \in Appenders \ {Notifier} : appender'[b] = appender[b]
    <2>1. CASE AppendStep(Notifier)
      <3>1. appender[Notifier].pc # "idle"
        BY <2>1 DEF AppendStep, Write, Sync
      <3>2. appender[Notifier].entry.op = "trade"
        BY <3>1 DEF LastingInv, LogInv
      <3>3. \A x \in Handled : x # appender[Notifier].entry
        BY <3>2 DEF Handled
      <3> QED
        BY <1>1, <1>2, <2>1, <3>3, AppendLogs
    <2>2. CASE WriteFails(Notifier)
      BY <1>1, <1>2, <2>2, FailLogs
    <2> QED
      BY <1>1, <2>1, <2>2
  <1>4. \A d \in Clients : CallerInv(d)'
    BY <1>1, <1>2, <1>3, OthersLasting
  <1>5. Apart' /\ QueueInv' /\ AnswerInv'
    BY <1>1, <1>3 DEF LastingInv, Apart, QueueInv, AnswerInv
  <1> QED
    BY <1>3, <1>4, <1>5 DEF LastingInv

LEMMA PersistLasting ==
    ASSUME EngineTypes, EngineTypes', LastingInv, PersistTrade
    PROVE  LastingInv'
  <1> DEFINE e == Command("trade", Head(notify).no, Head(notify).order)
  <1>1. UNCHANGED <<client, cmdCh, cancelCh, applied, up, latest, calls, answered, unlogged>>
    BY DEF PersistTrade, actorVars, storeVars, boundVars, ghostVars
  <1>2. Notifier \in Appenders /\ Notifier \notin Clients /\ Clients \subseteq Appenders
    BY EngineAssumption
  <1>3. CASE GetsNoLog
    <2>1. UNCHANGED <<log, synced, appender>>
      BY <1>3 DEF GetsNoLog, walVars
    <2>4. created' = created \/ created' = TRUE
      BY <1>3 DEF GetsNoLog
    <2>2. LogInv' /\ Apart' /\ QueueInv' /\ AnswerInv'
      BY <1>1, <2>1, <2>4 DEF LastingInv, LogInv, Apart, QueueInv, AnswerInv, Survives
    <2>3. \A c \in Clients : CallerInv(c)'
      BY <1>1, <2>1 DEF LastingInv, CallerInv, Survives, Logs, Holds
    <2> QED
      BY <2>2, <2>3 DEF LastingInv
  <1>4. CASE GetsLog /\ Reserve(Notifier, e)
    <2>1. /\ appender' = [appender EXCEPT ![Notifier] =
                            [pc |-> "write", lsn |-> lsn + 1, entry |-> e]]
          /\ UNCHANGED <<log, synced>> /\ created'
      BY <1>4 DEF Reserve, GetsLog
    <2>2. e.op = "trade"
      BY DEF Command
    <2> HIDE DEF e
    <2>3. /\ appender'[Notifier].pc = "write" /\ appender'[Notifier].lsn > 0
          /\ appender'[Notifier].entry = e
          /\ \A b \in Appenders \ {Notifier} : appender'[b] = appender[b]
      BY <1>2, <2>1 DEF EngineTypes, LogTypes
    <2>4. ASSUME NEW d \in Clients
          PROVE  CallerInv(d)'
      <3>1. /\ client'[d] = client[d] /\ appender'[d] = appender[d] /\ calls' >= calls
            /\ CallerInv(d) /\ UNCHANGED <<up, cmdCh, cancelCh, applied, log, synced, unlogged>>
        BY <1>1, <1>2, <2>1, <2>3, Numbers DEF LastingInv
      <3> QED
        BY <3>1, CallerStays
    <2>5. LogInv'
      BY <1>1, <2>1, <2>2, <2>3 DEF LastingInv, LogInv
    <2>6. Apart' /\ QueueInv' /\ AnswerInv'
      BY <1>1, <2>1 DEF LastingInv, Apart, QueueInv, AnswerInv, Survives
    <2> QED
      BY <2>4, <2>5, <2>6 DEF LastingInv
  <1> QED
    BY <1>3, <1>4 DEF PersistTrade

Single(ch) == \A i, j \in DOMAIN ch : i # j => ch[i].cmd # ch[j].cmd

LEMMA Enqueue ==
    ASSUME NEW T, NEW ch \in Seq(T), NEW q \in T, Single(ch), ~Holds(ch, q.cmd)
    PROVE  /\ Single(Append(ch, q))
           /\ \A i \in DOMAIN Append(ch, q) :
                Append(ch, q)[i] = q \/ \E j \in DOMAIN ch : Append(ch, q)[i] = ch[j]
           /\ \A x : Holds(Append(ch, q), x) => Holds(ch, x) \/ x = q.cmd
  <1> DEFINE new == Append(ch, q)
             n == Len(ch) + 1
  <1>1. /\ DOMAIN new = DOMAIN ch \cup {n} /\ n \notin DOMAIN ch
        /\ new[n] = q /\ \A i \in DOMAIN ch : new[i] = ch[i]
    OBVIOUS
  <1> HIDE DEF new, n
  <1>2. Single(new)
    BY <1>1 DEF Single, Holds
  <1>3. \A i \in DOMAIN new : new[i] = q \/ \E j \in DOMAIN ch : new[i] = ch[j]
    BY <1>1
  <1>4. \A x : Holds(new, x) => Holds(ch, x) \/ x = q.cmd
    BY <1>1 DEF Holds
  <1> QED
    BY <1>2, <1>3, <1>4 DEF new

LEMMA Dequeue ==
    ASSUME NEW T, NEW ch \in Seq(T), ch # <<>>, Single(ch)
    PROVE  /\ Head(ch) \in T /\ 1 \in DOMAIN ch /\ Head(ch) = ch[1]
           /\ Single(Tail(ch)) /\ ~Holds(Tail(ch), Head(ch).cmd)
           /\ \A i \in DOMAIN Tail(ch) : \E j \in DOMAIN ch : Tail(ch)[i] = ch[j]
           /\ \A x : Holds(Tail(ch), x) => Holds(ch, x)
  <1> DEFINE new == Tail(ch)
  <1>1. /\ 1 \in DOMAIN ch /\ Head(ch) = ch[1] /\ Head(ch) \in T
        /\ DOMAIN new = 1..(Len(ch) - 1) /\ DOMAIN ch = 1..Len(ch) /\ Len(ch) \in Nat
        /\ \A i \in DOMAIN new : new[i] = ch[i + 1]
    OBVIOUS
  <1>2. \A i \in DOMAIN new : i + 1 \in DOMAIN ch /\ i + 1 # 1 /\ i \in Nat
    BY <1>1
  <1> HIDE DEF new
  <1>3. Single(new)
    <2>1. ASSUME NEW i \in DOMAIN new, NEW j \in DOMAIN new, i # j
          PROVE  new[i].cmd # new[j].cmd
      <3>1. i + 1 # j + 1
        BY <1>2, <2>1
      <3> QED
        BY <1>1, <1>2, <3>1 DEF Single
    <2> QED
      BY <2>1 DEF Single
  <1>4. ~Holds(new, Head(ch).cmd)
    BY <1>1, <1>2 DEF Single, Holds
  <1>5. \A i \in DOMAIN new : \E j \in DOMAIN ch : new[i] = ch[j]
    BY <1>1, <1>2
  <1>6. \A x : Holds(new, x) => Holds(ch, x)
    BY <1>1, <1>2 DEF Holds
  <1> QED
    BY <1>1, <1>3, <1>4, <1>5, <1>6 DEF new

LEMMA SendLasting ==
    ASSUME EngineTypes, EngineTypes', LastingInv, NEW c \in Clients, Send(c)
    PROVE  LastingInv'
  <1> DEFINE cmd == client[c].cmd
             q == Queued(c)
             Jobs == [client : Clients, cmd : Handled]
  <1>1. /\ client[c].pc = "send"
        /\ client' = [client EXCEPT ![c].pc = "wait"]
        /\ UNCHANGED <<appender, applied, up, latest, calls, answered, log, synced, unlogged, created>>
        /\ \/ cmd.op = "cancel" /\ cancelCh' = Append(cancelCh, q) /\ cmdCh' = cmdCh
           \/ cmd.op # "cancel" /\ cmdCh' = Append(cmdCh, q) /\ cancelCh' = cancelCh
    BY DEF Send, storeVars, boundVars, walVars, logVars, ghostVars
  <1>2. /\ CallerInv(c) /\ up /\ cmd.no <= calls /\ ~Holds(cmdCh, cmd) /\ ~Holds(cancelCh, cmd)
        /\ cmd \notin Range(applied)
    BY <1>1 DEF LastingInv, CallerInv
  <1>3. q \in Jobs /\ q.cmd = cmd
    BY <1>1 DEF EngineTypes, CallTypes, Queued
  <1>4. /\ \A d \in Clients \ {c} : client'[d] = client[d]
        /\ client'[c].cmd = cmd /\ client'[c].pc = "wait"
    BY <1>1 DEF EngineTypes, CallTypes
  <1>5. Single(cmdCh) /\ Single(cancelCh)
    BY DEF LastingInv, QueueInv, Single
  <1>6. cmdCh \in Seq(Jobs) /\ cancelCh \in Seq(Jobs)
    BY DEF EngineTypes, CallTypes, Queue
  <1> HIDE DEF cmd, q, Jobs
  <1>7. /\ Single(cmdCh') /\ Single(cancelCh')
        /\ \A i \in DOMAIN cmdCh' :
            \/ cmdCh'[i].cmd = cmd /\ cmd.op # "cancel"
            \/ \E j \in DOMAIN cmdCh : cmdCh'[i] = cmdCh[j]
        /\ \A i \in DOMAIN cancelCh' :
            \/ cancelCh'[i].cmd = cmd /\ cmd.op = "cancel"
            \/ \E j \in DOMAIN cancelCh : cancelCh'[i] = cancelCh[j]
        /\ \A x : x # cmd => /\ Holds(cmdCh', x) => Holds(cmdCh, x)
                             /\ Holds(cancelCh', x) => Holds(cancelCh, x)
    <2>1. CASE cmd.op = "cancel" /\ cancelCh' = Append(cancelCh, q) /\ cmdCh' = cmdCh
      <3>1. ~Holds(cancelCh, q.cmd)
        BY <1>2, <1>3
      <3>2. /\ Single(Append(cancelCh, q))
            /\ \A i \in DOMAIN Append(cancelCh, q) :
                Append(cancelCh, q)[i] = q \/ \E j \in DOMAIN cancelCh : Append(cancelCh, q)[i] = cancelCh[j]
            /\ \A x : Holds(Append(cancelCh, q), x) => Holds(cancelCh, x) \/ x = q.cmd
        BY <1>3, <1>5, <1>6, <3>1, Enqueue
      <3> QED
        BY <1>3, <1>5, <2>1, <3>2 DEF Single, Holds
    <2>2. CASE cmd.op # "cancel" /\ cmdCh' = Append(cmdCh, q) /\ cancelCh' = cancelCh
      <3>1. ~Holds(cmdCh, q.cmd)
        BY <1>2, <1>3
      <3>2. /\ Single(Append(cmdCh, q))
            /\ \A i \in DOMAIN Append(cmdCh, q) :
                Append(cmdCh, q)[i] = q \/ \E j \in DOMAIN cmdCh : Append(cmdCh, q)[i] = cmdCh[j]
            /\ \A x : Holds(Append(cmdCh, q), x) => Holds(cmdCh, x) \/ x = q.cmd
        BY <1>3, <1>5, <1>6, <3>1, Enqueue
      <3> QED
        BY <1>3, <1>5, <2>2, <3>2 DEF Single, Holds
    <2> QED
      BY <1>1, <2>1, <2>2
  <1>8. QueueInv'
    <2>1. \A i \in DOMAIN cmdCh' :
            cmdCh'[i].cmd.no <= calls' /\ cmdCh'[i].cmd \notin Range(applied')
            /\ cmdCh'[i].cmd.op # "cancel"
      BY <1>1, <1>2, <1>7 DEF LastingInv, QueueInv
    <2>2. \A i \in DOMAIN cancelCh' :
            cancelCh'[i].cmd.no <= calls' /\ cancelCh'[i].cmd \notin Range(applied')
            /\ cancelCh'[i].cmd.op = "cancel"
      BY <1>1, <1>2, <1>7 DEF LastingInv, QueueInv
    <2>3. IsInjective(applied') /\ (\A i \in DOMAIN applied' : applied'[i].no <= calls') /\ up'
      BY <1>1, <1>2 DEF LastingInv, QueueInv
    <2> QED
      BY <1>7, <2>1, <2>2, <2>3 DEF QueueInv, Single
  <1>9. CallerInv(c)'
    BY <1>1, <1>2, <1>4 DEF CallerInv, Survives, cmd
  <1>10. ASSUME NEW d \in Clients \ {c}
         PROVE  CallerInv(d)'
    <2>1. /\ client'[d] = client[d] /\ calls' >= calls
          /\ CallerInv(d) /\ UNCHANGED <<appender, up, applied, log, synced, unlogged>>
      BY <1>1, <1>4, Numbers DEF LastingInv
    <2>2. client[d].pc \in {"append", "send"} => client[d].cmd # cmd
      BY <1>1 DEF LastingInv, Apart, cmd
    <2> QED
      BY <1>7, <2>1, <2>2, CallerStays
  <1>11. LogInv' /\ Apart' /\ AnswerInv'
    <2>1. \A d \in Clients : client'[d].cmd = client[d].cmd
                             /\ (client'[d].pc # "idle" => client[d].pc # "idle")
      BY <1>1, <1>4 DEF cmd
    <2>2. Apart'
      BY <2>1 DEF LastingInv, Apart
    <2> QED
      BY <1>1, <2>2 DEF LastingInv, LogInv, AnswerInv, Survives
  <1> QED
    BY <1>8, <1>9, <1>10, <1>11 DEF LastingInv

LEMMA LeaveLasting ==
    ASSUME EngineTypes, EngineTypes', LastingInv, NEW c \in Clients, client[c].pc # "append",
           client' = [client EXCEPT ![c] = NoCall],
           UNCHANGED <<cmdCh, cancelCh, appender, applied, up, latest, calls, log, synced, unlogged,
                       created>>,
           AnswerInv'
    PROVE  LastingInv'
  <1>1. /\ \A d \in Clients \ {c} : client'[d] = client[d]
        /\ client'[c].pc = "idle" /\ appender[c].pc = "idle"
    BY DEF EngineTypes, CallTypes, LastingInv, CallerInv, NoCall
  <1>2. CallerInv(c)'
    BY <1>1 DEF CallerInv
  <1>3. ASSUME NEW d \in Clients \ {c}
        PROVE  CallerInv(d)'
    <2>1. client'[d] = client[d] /\ calls' >= calls /\ CallerInv(d)
      BY <1>1, Numbers DEF LastingInv
    <2> QED
      BY <2>1, CallerStays
  <1>4. Apart'
    BY <1>1 DEF LastingInv, Apart
  <1>5. LogInv' /\ QueueInv'
    BY DEF LastingInv, LogInv, QueueInv
  <1> QED
    BY <1>2, <1>3, <1>4, <1>5 DEF LastingInv

LEMMA GiveUpLasting ==
    ASSUME EngineTypes, EngineTypes', LastingInv, NEW c \in Clients, GiveUp(c)
    PROVE  LastingInv'
  <1>1. /\ client[c].pc # "append" /\ client' = [client EXCEPT ![c] = NoCall]
        /\ UNCHANGED <<cmdCh, cancelCh, appender, applied, up, latest, calls, log, synced,
                       answered, unlogged, created>>
    BY DEF GiveUp, walVars, storeVars, boundVars, logVars
  <1>2. AnswerInv'
    BY <1>1 DEF LastingInv, AnswerInv, Survives
  <1> QED
    BY <1>1, <1>2, LeaveLasting

LEMMA AnswerLasting ==
    ASSUME EngineTypes, EngineTypes', LastingInv, NEW c \in Clients, Answer(c)
    PROVE  LastingInv'
  <1>1. /\ client[c].pc = "reply" /\ client' = [client EXCEPT ![c] = NoCall]
        /\ answered' = answered \cup {client[c].cmd}
        /\ UNCHANGED <<cmdCh, cancelCh, appender, applied, up, latest, calls, log, synced,
                       unlogged, created>>
    BY DEF Answer, walVars, storeVars, boundVars, actorVars, logVars
  <1>2. /\ client[c].cmd \in Handled /\ client[c].cmd.no <= calls
        /\ client[c].cmd \in unlogged \/ Survives(log, synced, client[c].cmd)
    BY <1>1 DEF EngineTypes, CallTypes, LastingInv, CallerInv
  <1>3. AnswerInv'
    BY <1>1, <1>2 DEF LastingInv, AnswerInv, Survives
  <1> QED
    BY <1>1, <1>3, LeaveLasting

LEMMA HandleLasting ==
    ASSUME EngineTypes, EngineTypes', LastingInv, ActorRuns
    PROVE  LastingInv'
  <1> DEFINE ch == IF HandleCommand THEN cmdCh ELSE cancelCh
             q == Head(ch)
  <1>1. /\ ch # <<>> /\ ch \in {cmdCh, cancelCh}
        /\ applied' = Append(applied, q.cmd) /\ Replies(q)
        /\ UNCHANGED <<appender, up, latest, calls, answered, log, synced, unlogged, created>>
        /\ \/ ch = cmdCh /\ cmdCh' = Tail(ch) /\ cancelCh' = cancelCh
           \/ ch = cancelCh /\ cancelCh' = Tail(ch) /\ cmdCh' = cmdCh
    BY DEF ActorRuns, HandleCommand, HandleCancel, Handle, walVars, storeVars, boundVars,
           logVars, ghostVars
  <1> HIDE DEF ch
  <1>2. ch \in Seq([client : Clients, cmd : Handled]) /\ Single(ch)
    BY <1>1 DEF EngineTypes, CallTypes, Queue, LastingInv, QueueInv, Single
  <1>3. /\ q \in [client : Clients, cmd : Handled] /\ 1 \in DOMAIN ch /\ q = ch[1]
        /\ Single(Tail(ch)) /\ ~Holds(Tail(ch), q.cmd)
        /\ \A i \in DOMAIN Tail(ch) : \E j \in DOMAIN ch : Tail(ch)[i] = ch[j]
        /\ \A x : Holds(Tail(ch), x) => Holds(ch, x)
    BY <1>1, <1>2, Dequeue
  <1> HIDE DEF q
  <1>4. q.cmd \in Handled /\ q.cmd.no <= calls /\ q.cmd \notin Range(applied) /\ Holds(ch, q.cmd)
    BY <1>1, <1>3 DEF LastingInv, QueueInv, Holds
  <1>5. applied \in Seq(Handled)
    BY DEF EngineTypes, BookTypes
  <1>6. /\ DOMAIN applied' = DOMAIN applied \cup {Len(applied) + 1}
        /\ Len(applied) + 1 \notin DOMAIN applied /\ applied'[Len(applied) + 1] = q.cmd
        /\ \A i \in DOMAIN applied : applied'[i] = applied[i]
    BY <1>1, <1>4, <1>5
  <1>7. Range(applied') = Range(applied) \cup {q.cmd}
    BY <1>6 DEF Range
  <1>8. IsInjective(applied') /\ \A i \in DOMAIN applied' : applied'[i].no <= calls'
    BY <1>1, <1>4, <1>6 DEF LastingInv, QueueInv, IsInjective, Range
  <1>9. /\ Single(cmdCh') /\ Single(cancelCh')
        /\ ~Holds(cmdCh', q.cmd) /\ ~Holds(cancelCh', q.cmd)
        /\ \A i \in DOMAIN cmdCh' : \E j \in DOMAIN cmdCh : cmdCh'[i] = cmdCh[j]
        /\ \A i \in DOMAIN cancelCh' : \E j \in DOMAIN cancelCh : cancelCh'[i] = cancelCh[j]
        /\ \A x : /\ Holds(cmdCh', x) => Holds(cmdCh, x)
                  /\ Holds(cancelCh', x) => Holds(cancelCh, x)
    <2>1. Single(cmdCh) /\ Single(cancelCh)
      BY DEF LastingInv, QueueInv, Single
    <2>2. CASE ch = cmdCh /\ cmdCh' = Tail(ch) /\ cancelCh' = cancelCh
      <3>1. ~Holds(cancelCh, q.cmd)
        BY <1>3, <2>2 DEF LastingInv, QueueInv, Holds
      <3> QED
        BY <1>3, <2>1, <2>2, <3>1
    <2>3. CASE ch = cancelCh /\ cancelCh' = Tail(ch) /\ cmdCh' = cmdCh
      <3>1. ~Holds(cmdCh, q.cmd)
        BY <1>3, <2>3 DEF LastingInv, QueueInv, Holds
      <3> QED
        BY <1>3, <2>1, <2>3, <3>1
    <2> QED
      BY <1>1, <2>2, <2>3
  <1>10. QueueInv'
    <2>1. \A i \in DOMAIN cmdCh' :
            cmdCh'[i].cmd.no <= calls' /\ cmdCh'[i].cmd \notin Range(applied')
            /\ cmdCh'[i].cmd.op # "cancel"
      BY <1>1, <1>7, <1>9 DEF LastingInv, QueueInv, Holds
    <2>2. \A i \in DOMAIN cancelCh' :
            cancelCh'[i].cmd.no <= calls' /\ cancelCh'[i].cmd \notin Range(applied')
            /\ cancelCh'[i].cmd.op = "cancel"
      BY <1>1, <1>7, <1>9 DEF LastingInv, QueueInv, Holds
    <2>3. up'
      BY <1>1, <1>3 DEF LastingInv, QueueInv
    <2> QED
      BY <1>8, <1>9, <2>1, <2>2, <2>3 DEF QueueInv, Single
  <1>11. \A d \in Clients :
            \/ client'[d] = client[d]
            \/ /\ client'[d].cmd = client[d].cmd /\ client[d].cmd = q.cmd
               /\ client[d].pc = "wait" /\ client'[d].pc = "reply"
    <2>1. TAKE d \in Clients
    <2>2. client[d] \in [pc : {"idle", "append", "send", "wait", "reply"},
                         cmd : Handled \cup {NoEntry}, traded : BOOLEAN]
      BY DEF EngineTypes, CallTypes
    <2>3. client'[d] = IF d = q.client /\ client[d].pc = "wait" /\ client[d].cmd = q.cmd
                       THEN [client[d] EXCEPT !.pc = "reply", !.traded = Trades(book, q.cmd)]
                       ELSE client[d]
      BY <1>1 DEF Replies
    <2> QED
      BY <2>2, <2>3
  <1>12. ASSUME NEW d \in Clients
         PROVE  CallerInv(d)'
    <2>1. CallerInv(d) /\ calls' >= calls
      BY <1>1, Numbers DEF LastingInv
    <2>2. CASE client'[d] = client[d]
      <3>1. client[d].pc \in {"append", "send"} => client[d].cmd # q.cmd
        BY <1>1, <1>4, <2>1 DEF CallerInv
      <3> QED
        BY <1>1, <1>7, <1>9, <2>1, <2>2, <3>1, CallerStays
    <2>3. CASE /\ client'[d].cmd = client[d].cmd /\ client[d].cmd = q.cmd
               /\ client[d].pc = "wait" /\ client'[d].pc = "reply"
      BY <1>1, <1>7, <2>1, <2>3 DEF CallerInv, Survives
    <2> QED
      BY <1>11, <2>2, <2>3
  <1>13. Apart'
    <2>1. \A d \in Clients : client'[d].cmd = client[d].cmd
                             /\ (client'[d].pc # "idle" => client[d].pc # "idle")
      BY <1>11
    <2> QED
      BY <2>1 DEF LastingInv, Apart
  <1>14. LogInv' /\ AnswerInv'
    BY <1>1 DEF LastingInv, LogInv, AnswerInv, Survives
  <1> QED
    BY <1>10, <1>12, <1>13, <1>14 DEF LastingInv

LEMMA CrashLasting ==
    ASSUME EngineTypes, EngineTypes', LastingInv, Crash
    PROVE  LastingInv'
  <1>1. /\ up' = FALSE /\ cmdCh' = <<>> /\ cancelCh' = <<>>
        /\ client' = [c \in Clients |-> NoCall]
        /\ appender' = [a \in Appenders |-> NoAppend]
        /\ UNCHANGED <<latest, applied, calls, answered, unlogged, created>>
    BY DEF Crash, WALCrash, PowerFails, ghostVars
  <1>2. log \in Seq(Records) /\ synced \in 0..Len(log) /\ Len(log) \in Nat
        /\ LogTypes /\ DOMAIN log = 1..Len(log)
    BY DEF EngineTypes, LogTypes
  <1> DEFINE n == IF PowerLoss THEN synced ELSE Len(log)
  <1>3. /\ log' \in Seq(Records)
        /\ n <= (IF PowerLoss THEN synced' ELSE Len(log')) /\ n <= Len(log')
        /\ \E m \in 0..Len(log) :
                \/ log' = SubSeq(log, 1, m) /\ n <= m
                \/ /\ m < Len(log) /\ n <= m
                   /\ log' = Append(SubSeq(log, 1, m), [lsn |-> log[m + 1].lsn, entry |-> Torn])
    <2>1. CASE WALCrash
      <3>1. log' = log /\ synced' = synced
        BY <2>1 DEF WALCrash
      <3>2. log = SubSeq(log, 1, Len(log)) /\ Len(log) \in 0..Len(log) /\ n <= Len(log)
        BY <1>2
      <3>3. \E m \in 0..Len(log) : log' = SubSeq(log, 1, m) /\ n <= m
        BY <3>1, <3>2
      <3> QED
        BY <1>2, <3>1, <3>2, <3>3
    <2>2. CASE PowerFails
      <3>1. PowerLoss /\ log' \in Beginnings(log, synced) /\ synced' = Len(log') /\ n = synced
        BY <2>2 DEF PowerFails
      <3>2. /\ log' \in Seq(Records) /\ Len(log') >= synced
            /\ \E m \in synced..Len(log) :
                \/ log' = SubSeq(log, 1, m)
                \/ /\ m < Len(log)
                   /\ log' = Append(SubSeq(log, 1, m), [lsn |-> log[m + 1].lsn, entry |-> Torn])
        BY <1>2, <3>1, BeginningsAre
      <3> HIDE DEF n
      <3>3. \A m \in synced..Len(log) : m \in 0..Len(log) /\ n <= m
        BY <1>2, <3>1
      <3> QED
        BY <1>2, <3>1, <3>2, <3>3
    <2> QED
      BY <2>1, <2>2 DEF Crash
  <1>4. PICK m \in 0..Len(log) :
            \/ log' = SubSeq(log, 1, m) /\ n <= m
            \/ /\ m < Len(log) /\ n <= m
               /\ log' = Append(SubSeq(log, 1, m), [lsn |-> log[m + 1].lsn, entry |-> Torn])
    BY <1>3
  <1>5. /\ n \in 0..Len(log) /\ n <= m
    BY <1>2, <1>4
  <1> HIDE DEF n
  <1> DEFINE torn == [lsn |-> log[m + 1].lsn, entry |-> Torn]
  <1>6. /\ 1..m \subseteq DOMAIN log' /\ 1..m \subseteq DOMAIN log
        /\ \A i \in 1..m : log'[i] = log[i]
        /\ \A i \in DOMAIN log' : i \in 1..m \/ (m < Len(log) /\ log'[i] = torn)
    <2>1. /\ SubSeq(log, 1, m) \in Seq(Records) /\ Len(SubSeq(log, 1, m)) = m
          /\ \A i \in 1..m : SubSeq(log, 1, m)[i] = log[i]
      BY <1>2
    <2>2. CASE log' = SubSeq(log, 1, m)
      BY <1>2, <2>1, <2>2
    <2>3. CASE m < Len(log) /\ log' = Append(SubSeq(log, 1, m), torn)
      BY <1>2, <2>1, <2>3
    <2> QED
      BY <1>4, <2>2, <2>3
  <1>7. torn.entry = Torn /\ (m < Len(log) => torn.lsn > 0)
    <2>1. m < Len(log) => m + 1 \in DOMAIN log
      BY <1>2
    <2> QED
      BY <2>1 DEF LastingInv, LogInv
  <1> HIDE DEF torn
  <1>8. \A i \in DOMAIN log' : log'[i].entry \in Handled => i \in 1..m
    BY <1>6, <1>7, TornIsNone
  <1>9. LogInv'
    <2>1. \A a \in Appenders : appender'[a].pc = "idle"
      BY <1>1 DEF NoAppend
    <2>2. \A i \in DOMAIN log' : log'[i].lsn > 0
      BY <1>6, <1>7 DEF LastingInv, LogInv
    <2>3. \A i \in DOMAIN log' : log'[i].entry \in Handled => log'[i].entry.no <= calls'
      BY <1>1, <1>6, <1>8 DEF LastingInv, LogInv
    <2>4. \A i, j \in DOMAIN log' :
            i # j /\ log'[i].entry \in Handled => log'[i].entry # log'[j].entry
      <3>1. TAKE i, j \in DOMAIN log'
      <3>2. HAVE i # j /\ log'[i].entry \in Handled
      <3>3. CASE j \in 1..m
        BY <1>6, <1>8, <3>2, <3>3 DEF LastingInv, LogInv
      <3>4. CASE j \notin 1..m
        BY <1>6, <1>7, <3>2, <3>4, TornIsNone
      <3> QED
        BY <3>3, <3>4
    <2>5. log' # <<>> => created'
      <3>1. log = <<>> => log' = <<>>
        <4>1. HAVE log = <<>>
        <4>2. Len(log) = 0 /\ m = 0
          BY <1>2, <4>1
        <4>3. log' = SubSeq(log, 1, 0)
          BY <1>4, <4>2
        <4> QED
          BY <4>3
      <3> QED
        BY <1>1, <3>1 DEF LastingInv, LogInv
    <2> QED
      BY <1>1, <2>1, <2>2, <2>3, <2>4, <2>5, EngineAssumption DEF LastingInv, LogInv
  <1>10. ASSUME NEW c \in Clients
         PROVE  CallerInv(c)'
    <2>1. client'[c].pc = "idle" /\ appender'[c].pc = "idle"
      BY <1>1, EngineAssumption DEF NoCall, NoAppend
    <2> QED
      BY <2>1 DEF CallerInv
  <1>11. Apart'
    BY <1>1 DEF Apart, NoCall
  <1>12. QueueInv'
    <2>1. DOMAIN cmdCh' = {} /\ DOMAIN cancelCh' = {}
      BY <1>1
    <2> QED
      BY <1>1, <2>1 DEF LastingInv, QueueInv
  <1>13. ASSUME NEW cmd, Survives(log, synced, cmd)
         PROVE  Survives(log', synced', cmd)
    <2>1. PICK i \in 1..n : log[i].entry = cmd
      BY <1>13 DEF Survives, n
    <2>2. i \in 1..m /\ log'[i] = log[i]
      BY <1>2, <1>5, <1>6, <2>1
    <2>3. Len(log') \in Nat /\ synced' \in Nat
      BY <1>3 DEF EngineTypes, LogTypes
    <2>4. i \in 1..(IF PowerLoss THEN synced' ELSE Len(log'))
      BY <1>2, <1>3, <1>5, <2>1, <2>3
    <2> QED
      BY <2>1, <2>2, <2>4 DEF Survives
  <1>14. AnswerInv'
    BY <1>1, <1>13 DEF LastingInv, AnswerInv
  <1> QED
    BY <1>9, <1>10, <1>11, <1>12, <1>14 DEF LastingInv

\* What is on disk of the answered commands is replayed when the log is read as it is.
LEMMA AnsweredIsReplayed ==
    ASSUME NEW file \in Seq(Records), latest = {}, \A i \in DOMAIN file : file[i].lsn > 0,
           NEW cmd \in Handled, \E i \in DOMAIN file : file[i].entry = cmd
    PROVE  cmd \in Range(Replayed(file))
  <1>1. DOMAIN file = 1..Len(file) /\ Len(file) \in Nat
    OBVIOUS
  <1>2. Found(file, file)
    BY DEF Found
  <1> QED
    BY <1>2, ReplayedHolds

LEMMA RecoverLasting ==
    ASSUME EngineTypes, EngineTypes', LastingInv, Recover
    PROVE  /\ LastingInv' /\ book' = Run(<<>>, applied')
           /\ readable' => answered \ unlogged \subseteq Range(applied')
  <1>1. /\ ~up /\ up' = TRUE
        /\ UNCHANGED <<appender, log, synced, cmdCh, cancelCh, calls, client, latest, answered,
                       unlogged>>
    BY DEF Recover, Reopen, storeVars
  <1>2. log \in Seq(Records) /\ synced \in 0..Len(log) /\ Len(log) \in Nat
    BY DEF EngineTypes, LogTypes
  <1>3. latest = {} /\ \A i \in DOMAIN log : log[i].lsn > 0
    BY DEF LastingInv, LogInv
  <1>4. Base.covers = <<>> /\ Base.book = <<>>
    BY <1>3 DEF Base
  <1>5. PICK opens \in BOOLEAN :
          \E reading \in IF opens THEN Readings(log) ELSE {<<>>} :
            /\ created' = (created \/ (Named /\ opens))
            /\ book' = IF Named THEN RecoveredBook(reading) ELSE <<>>
            /\ applied' = IF Named THEN Base.covers \o Replayed(reading) ELSE <<>>
            /\ readable' = (opens /\ reading = log /\ (Named \/ (~created /\ latest = {})))
    BY DEF Recover
  <1>6. PICK reading \in IF opens THEN Readings(log) ELSE {<<>>} :
            /\ created' = (created \/ (Named /\ opens))
            /\ book' = IF Named THEN RecoveredBook(reading) ELSE <<>>
            /\ applied' = IF Named THEN Base.covers \o Replayed(reading) ELSE <<>>
            /\ readable' = (opens /\ reading = log /\ (Named \/ (~created /\ latest = {})))
    BY <1>5
  <1>7. reading \in Seq(Records) /\ Found(reading, log)
    <2>1. CASE opens
      BY <1>2, <1>6, <2>1, ReadingsAre
    <2>2. CASE ~opens
      BY <1>6, <2>2 DEF Found
    <2> QED
      BY <2>1, <2>2
  <1>8. Replayed(reading) \in Seq(Handled)
    BY <1>7, ReplayedTypes
  <1>9. /\ applied' \in {Replayed(reading), <<>>} /\ (Named => applied' = Replayed(reading))
        /\ book' = Run(<<>>, applied')
    <2>1. CASE Named
      BY <1>4, <1>6, <1>8, <2>1 DEF RecoveredBook
    <2>2. CASE ~Named
      BY <1>6, <2>2, RunNothing
    <2> QED
      BY <2>1, <2>2
  <1>10. /\ \A j \in DOMAIN Replayed(reading) :
                \E i \in DOMAIN log : Replayed(reading)[j] = log[i].entry
         /\ IsInjective(Replayed(reading))
    BY <1>2, <1>3, <1>7, ReplayedHolds DEF LastingInv, LogInv
  <1>11. ASSUME NEW j \in DOMAIN Replayed(reading)
         PROVE  Replayed(reading)[j].no <= calls
    <2>1. PICK i \in DOMAIN log : Replayed(reading)[j] = log[i].entry
      BY <1>10
    <2>2. Replayed(reading)[j] \in Handled
      BY <1>8, Elements
    <2> QED
      BY <2>1, <2>2 DEF LastingInv, LogInv
  <1>12. \A c \in Clients : client[c].pc = "idle" /\ appender[c].pc = "idle"
    BY <1>1 DEF LastingInv, CallerInv
  <1>13. cmdCh = <<>> /\ cancelCh = <<>>
    BY <1>1 DEF LastingInv, QueueInv
  <1>14. QueueInv'
    <2>1. DOMAIN cmdCh' = {} /\ DOMAIN cancelCh' = {}
      BY <1>1, <1>13
    <2>2. IsInjective(applied') /\ \A i \in DOMAIN applied' : applied'[i].no <= calls'
      <3>1. CASE applied' = Replayed(reading)
        BY <1>1, <1>10, <1>11, <3>1
      <3>2. CASE applied' = <<>>
        BY <3>2 DEF IsInjective
      <3> QED
        BY <1>9, <3>1, <3>2
    <2> QED
      BY <1>1, <2>1, <2>2 DEF QueueInv
  <1>15. \A c \in Clients : CallerInv(c)'
    BY <1>1, <1>12 DEF CallerInv
  <1>16. LogInv' /\ Apart' /\ AnswerInv'
    BY <1>1, <1>6 DEF LastingInv, LogInv, Apart, AnswerInv, Survives
  <1>17. ASSUME readable', NEW cmd \in answered \ unlogged
         PROVE  cmd \in Range(applied')
    <2>1. cmd \in Handled /\ Survives(log, synced, cmd)
      BY <1>17 DEF LastingInv, AnswerInv
    <2>2. \E i \in DOMAIN log : log[i].entry = cmd
      BY <1>2, <2>1 DEF Survives
    <2>3. created
      BY <2>2 DEF LastingInv, LogInv
    <2>4. Named /\ reading = log
      BY <1>6, <1>17, <2>3
    <2> QED
      BY <1>2, <1>3, <1>9, <2>1, <2>2, <2>4, AnsweredIsReplayed
  <1> QED
    BY <1>9, <1>14, <1>15, <1>16, <1>17 DEF LastingInv

LEMMA LastingInit == Init => LastingInv
  <1> SUFFICES ASSUME Init PROVE LastingInv
    OBVIOUS
  <1>1. /\ latest = {} /\ log = <<>> /\ cmdCh = <<>> /\ cancelCh = <<>> /\ applied = <<>>
        /\ up = TRUE /\ answered = {} /\ DOMAIN log = {} /\ DOMAIN cmdCh = {}
        /\ DOMAIN cancelCh = {} /\ DOMAIN applied = {}
    BY DEF Init, WALInit
  <1>2. /\ \A a \in Appenders : appender[a].pc = "idle"
        /\ \A c \in Clients : client[c].pc = "idle"
    BY DEF Init, WALInit, NoAppend, NoCall
  <1>3. LogInv
    BY <1>1, <1>2, EngineAssumption DEF LogInv
  <1>4. \A c \in Clients : CallerInv(c)
    BY <1>2, EngineAssumption DEF CallerInv
  <1>5. Apart /\ AnswerInv
    BY <1>1, <1>2 DEF Apart, AnswerInv
  <1>6. QueueInv
    BY <1>1 DEF QueueInv, IsInjective
  <1> QED
    BY <1>3, <1>4, <1>5, <1>6 DEF LastingInv

LEMMA LastingStays ==
    ASSUME LastingInv, UNCHANGED <<log, synced, appender, latest, client, cmdCh, cancelCh,
                                   applied, up, calls, answered, unlogged, created>>
    PROVE  LastingInv'
  <1>1. LogInv' /\ Apart' /\ QueueInv' /\ AnswerInv'
    BY DEF LastingInv, LogInv, Apart, QueueInv, AnswerInv, Survives
  <1>2. \A c \in Clients : CallerInv(c)'
    BY DEF LastingInv, CallerInv, Survives, Logs, Holds
  <1> QED
    BY <1>1, <1>2 DEF LastingInv

LEMMA LastingNext ==
    ASSUME EngineTypes, EngineTypes', LastingInv, Lasting, [Next]_vars
    PROVE  LastingInv'
  <1>1. ASSUME NEW c \in Clients, NEW op \in {"rest", "take"}, SubmitOrder(c, op)
        PROVE  LastingInv'
    <2> DEFINE cmd == Command(op, calls + 1, calls + 1)
    <2>1. up /\ Call(c, cmd) /\ calls < MaxCalls
      BY <1>1 DEF SubmitOrder
    <2>2. cmd.no = calls + 1
      BY DEF Command
    <2>3. cmd \in Handled
      <3>1. calls + 1 \in 1..MaxCalls
        BY <2>1, Numbers
      <3> QED
        BY <3>1 DEF Command, Handled, CommandSet
    <2> HIDE DEF cmd
    <2> QED
      BY <2>1, <2>2, <2>3, CallLasting
  <1>2. ASSUME NEW c \in Clients, NEW order \in 1..calls, CancelOrder(c, order)
        PROVE  LastingInv'
    <2> DEFINE cmd == Command("cancel", calls + 1, order)
    <2>1. up /\ Call(c, cmd) /\ calls < MaxCalls
      BY <1>2 DEF CancelOrder
    <2>2. cmd.no = calls + 1
      BY DEF Command
    <2>3. cmd \in Handled
      <3>1. calls + 1 \in 1..MaxCalls /\ order \in 1..MaxCalls
        BY <2>1, Numbers
      <3> QED
        BY <3>1 DEF Command, Handled, CommandSet
    <2> HIDE DEF cmd
    <2> QED
      BY <2>1, <2>2, <2>3, CallLasting
  <1>3. ASSUME NEW c \in Clients, ClientRuns(c) \/ GiveUp(c)
        PROVE  LastingInv'
    BY <1>3, ClientAppendLasting, ClientAppendFailsLasting, SendLasting, AnswerLasting,
       GiveUpLasting DEF ClientRuns
  <1>4. CASE CheckTrigger \/ MonitorTrigger \/ UNCHANGED vars
    BY <1>4, LastingStays DEF CheckTrigger, MonitorTrigger, vars, walVars, storeVars, actorVars,
                              boundVars, logVars, ghostVars
  <1>5. ASSUME NEW t \in Snapshots
        PROVE  FALSE
    BY DEF Lasting
  <1> QED
    BY <1>1, <1>2, <1>3, <1>4, <1>5, HandleLasting, PersistLasting, NotifierAppendLasting,
       CrashLasting, RecoverLasting DEF Next, NotifierRuns

LEMMA LastingSafe == EngineTypes /\ LastingInv => AnsweredIsDurable
  <1> SUFFICES ASSUME EngineTypes, LastingInv, Clean(Durable) = Durable,
                      Separator \in {"/", "none"},
                      NEW reading \in Readings(Durable), NEW cmd \in answered \ unlogged
               PROVE  cmd \in Recovered(reading)
    BY DEF AnsweredIsDurable
  <1>1. log \in Seq(Records) /\ synced \in 0..Len(log) /\ Len(log) \in Nat
    BY DEF EngineTypes, LogTypes
  <1> DEFINE n == IF PowerLoss THEN synced ELSE Len(log)
             kept == SubSeq(log, 1, n)
  <1>2. n \in 0..Len(log) /\ Durable = kept
    <2>1. log = SubSeq(log, 1, Len(log))
      BY <1>1
    <2> QED
      BY <1>1, <2>1 DEF Durable
  <1>3. cmd \in Handled /\ \E i \in 1..n : log[i].entry = cmd
    BY DEF LastingInv, AnswerInv, Survives
  <1> HIDE DEF n
  <1>4. /\ kept \in Seq(Records) /\ DOMAIN kept = 1..n /\ 1..n \subseteq DOMAIN log
        /\ \A i \in 1..n : kept[i] = log[i]
    BY <1>1, <1>2
  <1> HIDE DEF kept
  <1>5. reading = kept
    BY <1>2, <1>4, ReadingsAre
  <1>6. latest = {} /\ \A i \in DOMAIN kept : kept[i].lsn > 0
    BY <1>4 DEF LastingInv, LogInv
  <1>7. \E i \in DOMAIN kept : kept[i].entry = cmd
    BY <1>3, <1>4
  <1>8. cmd \in Range(Replayed(kept))
    BY <1>3, <1>4, <1>6, <1>7, AnsweredIsReplayed
  <1>9. Named
    <2>1. log # <<>>
      BY <1>1, <1>3, <1>4
    <2>2. created
      BY <2>1 DEF LastingInv, LogInv
    <2> QED
      BY <2>2 DEF Named
  <1> QED
    BY <1>5, <1>8, <1>9 DEF Recovered

\* For any callers, queue, sync threshold and buffer, with crashes as often as they
\* come and operations on files that fail: where no snapshot cuts the log, a command
\* that its caller has logged and been answered is one that recovery replays, unless
\* the log is longer than the reader's buffer or has a record that was cut short.  A
\* power failure is covered if the log is synced before each answer and the fsync does
\* not fail silently; a crash of the process alone is covered in every sync mode.
THEOREM AnswersAreDurable ==
    ASSUME Snapshots = {}, PowerLoss => SyncMode = "always" /\ ~SyncMayFail
    PROVE  Spec => []AnsweredIsDurable
  <1>1. Lasting
    BY DEF Lasting
  <1>2. EngineTypes /\ EngineTypes' /\ LastingInv /\ [Next]_vars => LastingInv'
    BY <1>1, LastingNext
  <1>3. EngineTypes /\ LastingInv => AnsweredIsDurable
    BY LastingSafe
  <1> QED
    BY <1>2, <1>3, LastingInit, EngineTypeCorrect, PTL DEF Spec

LEMMA SameBook ==
    /\ \A b, cmd : Promise!Apply(b, cmd) = Apply(b, cmd)
    /\ \A b, cmds : Promise!Run(b, cmds) = Run(b, cmds)
    /\ \A f : Promise!Range(f) = Range(f)
    /\ \A f : Promise!IsInjective(f) <=> IsInjective(f)
BY DEF Promise!Apply, Apply, Promise!Run, Run, Promise!Kept, Kept, Promise!Range, Range,
       Promise!IsInjective, IsInjective

\* The promise speaks of these variables only.
PromiseStays == UNCHANGED <<up, applied, book, answered \ unlogged, readable>>

LEMMA Promised ==
    ASSUME EngineTypes, EngineTypes', LastingInv, Lasting, [Next]_vars
    PROVE  [Promise!Next]_(Promise!durableVars)
  <1>0. PromiseStays => UNCHANGED Promise!durableVars
    BY DEF PromiseStays, Promise!durableVars
  <1>1. ASSUME ActorRuns
        PROVE  Promise!Next
    <2> DEFINE ch == IF HandleCommand THEN cmdCh ELSE cancelCh
               cmd == Head(ch).cmd
    <2>1. /\ ch # <<>> /\ ch \in {cmdCh, cancelCh}
          /\ applied' = Append(applied, cmd) /\ book' = Apply(book, cmd)
          /\ UNCHANGED <<up, answered, unlogged, readable>>
      BY <1>1 DEF ActorRuns, HandleCommand, HandleCancel, Handle, boundVars, ghostVars
    <2> HIDE DEF ch
    <2>2. 1 \in DOMAIN ch /\ Head(ch) = ch[1]
      <3>1. ch \in Seq([client : Clients, cmd : Handled])
        BY <2>1 DEF EngineTypes, CallTypes, Queue
      <3> QED
        BY <2>1, <3>1
    <2>3. cmd \in Handled
      BY <2>1, <2>2, Queues
    <2>4. cmd \notin Range(applied) /\ up
      BY <2>1, <2>2 DEF LastingInv, QueueInv, EngineTypes, CallTypes
    <2> HIDE DEF cmd
    <2>5. cmd \in CommandSet \ Promise!Range(applied)
      BY <2>3, <2>4, SameBook DEF Handled
    <2>6. Promise!Execute
      BY <2>1, <2>4, <2>5, SameBook DEF Promise!Execute
    <2> QED
      BY <2>6 DEF Promise!Next
  <1>2. ASSUME NEW c \in Clients, Answer(c)
        PROVE  Promise!Next \/ PromiseStays
    <2>1. /\ client[c].pc = "reply" /\ answered' = answered \cup {client[c].cmd}
          /\ UNCHANGED <<up, applied, book, unlogged, readable>>
      BY <1>2 DEF Answer, actorVars, boundVars
    <2>2. up /\ client[c].cmd \in Promise!Range(applied)
      BY <2>1, SameBook DEF LastingInv, CallerInv
    <2>3. CASE client[c].cmd \in unlogged
      BY <2>1, <2>3 DEF PromiseStays
    <2>4. CASE client[c].cmd \notin unlogged
      <3>1. answered' \ unlogged' = (answered \ unlogged) \cup {client[c].cmd}
        BY <2>1, <2>4
      <3>2. Promise!Answer
        BY <2>1, <2>2, <3>1 DEF Promise!Answer
      <3> QED
        BY <3>2 DEF Promise!Next
    <2> QED
      BY <2>3, <2>4
  <1>3. ASSUME Crash
        PROVE  Promise!Next
    <2>1. up /\ up' = FALSE /\ UNCHANGED <<applied, book, answered, unlogged, readable>>
      BY <1>3 DEF Crash, ghostVars
    <2> QED
      BY <2>1 DEF Promise!Fail, Promise!Next
  <1>4. ASSUME Recover
        PROVE  Promise!Next
    <2>1. /\ LastingInv' /\ book' = Run(<<>>, applied')
          /\ readable' => answered \ unlogged \subseteq Range(applied')
      BY <1>4, RecoverLasting
    <2>2. ~up /\ up' = TRUE /\ UNCHANGED <<answered, unlogged>> /\ readable' \in BOOLEAN
      BY <1>4 DEF Recover
    <2>3. applied' \in Seq(CommandSet)
      <3>1. applied' \in Seq(Handled) /\ Handled \subseteq CommandSet
        BY DEF EngineTypes, BookTypes, Handled
      <3> QED
        BY <3>1
    <2>4. Promise!IsInjective(applied')
      BY <2>1, SameBook DEF LastingInv, QueueInv
    <2>5. /\ readable' => answered \ unlogged \subseteq Promise!Range(applied')
          /\ book' = Promise!Run(<<>>, applied')
      BY <2>1, SameBook
    <2>6. Promise!Restart
      BY <2>2, <2>3, <2>4, <2>5 DEF Promise!Restart
    <2> QED
      BY <2>6 DEF Promise!Next
  <1>5. ASSUME NEW c \in Clients, NEW cmd, Call(c, cmd), cmd.no = calls + 1
        PROVE  PromiseStays
    <2>1. /\ unlogged' \in {unlogged, unlogged \cup {cmd}}
          /\ UNCHANGED <<up, applied, book, answered, readable>>
      BY <1>5 DEF Call, actorVars
    <2>2. cmd \notin answered
      <3>1. \A x \in answered : x.no \in Nat /\ x.no <= calls /\ calls \in Nat
        BY Numbers DEF LastingInv, AnswerInv, Handled
      <3> QED
        BY <1>5, <3>1
    <2>3. answered' \ unlogged' = answered \ unlogged
      BY <2>1, <2>2
    <2> QED
      BY <2>1, <2>3 DEF PromiseStays
  <1>6. ASSUME NEW c \in Clients, \/ \E op \in {"rest", "take"} : SubmitOrder(c, op)
                                  \/ \E order \in 1..calls : CancelOrder(c, order)
        PROVE  PromiseStays
    <2>1. \A op, order : Command(op, calls + 1, order).no = calls + 1
      BY DEF Command
    <2> QED
      BY <1>5, <1>6, <2>1 DEF SubmitOrder, CancelOrder
  <1>7. ASSUME NEW c \in Clients,
               ClientAppends(c) \/ ClientAppendFails(c) \/ Send(c) \/ GiveUp(c)
        PROVE  PromiseStays
    BY <1>7 DEF ClientAppends, ClientAppendFails, Send, GiveUp, actorVars, boundVars, ghostVars,
                PromiseStays
  <1>8. ASSUME NotifierRuns \/ MonitorTrigger \/ UNCHANGED vars
        PROVE  PromiseStays
    BY <1>8 DEF NotifierRuns, PersistTrade, NotifierAppends, CheckTrigger, MonitorTrigger, vars,
                actorVars, boundVars, ghostVars, PromiseStays
  <1>9. ASSUME NEW t \in Snapshots
        PROVE  FALSE
    BY DEF Lasting
  <1> QED
    BY <1>0, <1>1, <1>2, <1>3, <1>4, <1>6, <1>7, <1>8, <1>9 DEF Next, ClientRuns

\* Under the same conditions callers, log, channels, actor, crashes and replays amount to
\* the engine that DurableMatching promises: commands run once each, one after the other,
\* and a restart that can read the log may reorder them or add to them but drops none
\* that was logged and answered.
THEOREM KeepsThePromise ==
    ASSUME Snapshots = {}, PowerLoss => SyncMode = "always" /\ ~SyncMayFail
    PROVE  Spec => ImplementsDurableMatching
  <1>1. Lasting
    BY DEF Lasting
  <1>2. EngineTypes /\ EngineTypes' /\ LastingInv /\ [Next]_vars => LastingInv'
    BY <1>1, LastingNext
  <1>3. EngineTypes /\ EngineTypes' /\ LastingInv /\ [Next]_vars
            => [Promise!Next]_(Promise!durableVars)
    BY <1>1, Promised
  <1>4. Init => Promise!Init
    BY DEF Init, Promise!Init
  <1> QED
    BY <1>2, <1>3, <1>4, LastingInit, EngineTypeCorrect, PTL
       DEF Spec, ImplementsDurableMatching, Promise!Spec
=============================================================================
