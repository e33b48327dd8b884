---------------------------- MODULE OrderSagaProofs ----------------------------
(***************************************************************************)
(* Theorems about OrderSaga, for any workers, requests, keys and troubles. *)
(***************************************************************************)
EXTENDS OrderSaga, SubsequenceProofs, SequenceTheorems, FiniteSetTheorems

OutboxRow == [saga : Sagas, action : Actions, status : Statuses, retries : Nat,
              backoff : BOOLEAN, stale : BOOLEAN]

Places == {"idle", "recover", "take", "deliver", "count", "delay", "requeue",
           "bury", "mark", "callback", "next", "retry", "down"}

\* What a worker has read of a row.
Reading == [id : Nat, retries : Nat]

WorkerType(v) ==
    /\ v \in [pc : Places, batch : Seq(Reading)]
    /\ v.batch = << >> => v.pc \in {"idle", "recover", "down"}

\* A batch holds rows that exist.
WorkersRead(rows) ==
    \A w \in Workers :
        /\ WorkerType(worker[w])
        /\ \A j \in DOMAIN worker[w].batch : worker[w].batch[j].id \in DOMAIN rows

SagaTypes ==
    /\ outbox \in Seq(OutboxRow)
    /\ DOMAIN worker = Workers /\ worker = [w \in Workers |-> worker[w]]
    /\ WorkersRead(outbox)
    /\ order \in [Sagas -> {NoOrder, "created", "frozen", "submitted"}]
    /\ request \in [Requests -> {"new", "answered"} \cup Sagas]
    /\ effects \in [Sagas -> [Actions -> Nat]]
    /\ troubles \in 0..MaxTroubles

-----------------------------------------------------------------------------
(* The rows and the batches *)

\* A query gives rows that were asked for, each once, in the order of their IDs.
LEMMA RowsRead ==
    ASSUME outbox \in Seq(OutboxRow), NEW ids
    PROVE  /\ Rows(ids) \in Seq(Reading)
           /\ \A j \in DOMAIN Rows(ids) :
                /\ Rows(ids)[j].id \in DOMAIN outbox /\ Rows(ids)[j].id \in ids
                /\ Rows(ids)[j].retries = outbox[Rows(ids)[j].id].retries
           /\ \A j, k \in DOMAIN Rows(ids) : j < k => Rows(ids)[j].id < Rows(ids)[k].id
  <1> DEFINE s == [i \in DOMAIN outbox |-> i]
             found == Kept(s, ids)
  <1>1. s \in Seq(DOMAIN outbox) /\ Len(s) = Len(outbox) /\ DOMAIN outbox = 1..Len(outbox)
    OBVIOUS
  <1>2. found \in Seq((DOMAIN outbox) \cap ids) /\ IsPart(found, s, Len(s), ids)
    BY <1>1, KeptIsPart
  <1>3. Rows(ids) = [j \in DOMAIN found |->
                        [id |-> found[j], retries |-> outbox[found[j]].retries]]
    BY DEF Rows
  <1>4. \A i \in 1..Len(s) : s[i] = i
    BY <1>1
  <1> HIDE DEF s, found
  <1>5. ASSUME NEW j \in DOMAIN found, NEW k \in DOMAIN found, j < k
        PROVE  found[j] < found[k]
    <2>1. PICK i, l \in 1..Len(s) : i < l /\ found[j] = s[i] /\ found[k] = s[l]
      BY <1>2, <1>5 DEF IsPart
    <2> QED
      BY <2>1, <1>4
  <1>6. ASSUME NEW j \in DOMAIN found
        PROVE  /\ found[j] \in DOMAIN outbox /\ found[j] \in ids /\ found[j] \in Nat
               /\ outbox[found[j]].retries \in Nat
    <2>1. found[j] \in DOMAIN outbox /\ found[j] \in ids
      BY <1>2
    <2>2. outbox[found[j]] \in OutboxRow
      BY <2>1
    <2>3. \A row \in OutboxRow : row.retries \in Nat
      BY DEF OutboxRow
    <2>4. found[j] \in Nat
      BY <2>1, <1>1
    <2> QED
      BY <2>1, <2>2, <2>3, <2>4
  <1>7. DOMAIN found = 1..Len(found) /\ Len(found) \in Nat
    BY <1>2
  <1>8. Rows(ids) \in Seq(Reading)
    BY <1>3, <1>6, <1>7 DEF Reading
  <1> QED
    BY <1>3, <1>5, <1>6, <1>8
\* Rows keep what they are for; more may come.
RowsPersist ==
    /\ outbox' \in Seq(OutboxRow)
    /\ DOMAIN outbox \subseteq DOMAIN outbox'
    /\ \A i \in DOMAIN outbox :
        outbox'[i].saga = outbox[i].saga /\ outbox'[i].action = outbox[i].action

\* A row changes.
LEMMA RowChanges ==
    ASSUME outbox \in Seq(OutboxRow), NEW i \in DOMAIN outbox,
           \/ \E status \in Statuses : outbox' = [outbox EXCEPT ![i].status = status]
           \/ outbox' = [outbox EXCEPT ![i].retries = @ + 1]
           \/ \E b \in BOOLEAN : outbox' = [outbox EXCEPT ![i].backoff = b]
           \/ outbox' = [outbox EXCEPT ![i].stale = TRUE]
           \/ outbox' = outbox
    PROVE  RowsPersist /\ DOMAIN outbox' = DOMAIN outbox
  <1>1. outbox[i] \in OutboxRow
    OBVIOUS
  <1>2. ASSUME NEW r \in OutboxRow, outbox' = [outbox EXCEPT ![i] = r],
               r.saga = outbox[i].saga, r.action = outbox[i].action
        PROVE  RowsPersist /\ DOMAIN outbox' = DOMAIN outbox
    BY <1>2 DEF RowsPersist
  <1>3. ASSUME NEW status \in Statuses, outbox' = [outbox EXCEPT ![i].status = status]
        PROVE  RowsPersist /\ DOMAIN outbox' = DOMAIN outbox
    <2>1. [outbox[i] EXCEPT !.status = status] \in OutboxRow
      BY <1>1 DEF OutboxRow
    <2> QED
      BY <2>1, <1>2, <1>1, <1>3 DEF OutboxRow
  <1>4. CASE outbox' = [outbox EXCEPT ![i].retries = @ + 1]
    <2> DEFINE r == [outbox[i] EXCEPT !.retries = @ + 1]
    <2>0. outbox[i].retries + 1 \in Nat
      BY <1>1 DEF OutboxRow
    <2>1. r \in OutboxRow /\ r.saga = outbox[i].saga /\ r.action = outbox[i].action
      BY <1>1, <2>0 DEF OutboxRow
    <2>2. outbox' = [outbox EXCEPT ![i] = r]
      BY <1>4
    <2> HIDE DEF r
    <2> QED
      BY <2>1, <2>2, <1>2
  <1>5. ASSUME NEW b \in BOOLEAN, outbox' = [outbox EXCEPT ![i].backoff = b]
        PROVE  RowsPersist /\ DOMAIN outbox' = DOMAIN outbox
    <2>1. [outbox[i] EXCEPT !.backoff = b] \in OutboxRow
      BY <1>1 DEF OutboxRow
    <2> QED
      BY <2>1, <1>2, <1>1, <1>5 DEF OutboxRow
  <1>6. CASE outbox' = [outbox EXCEPT ![i].stale = TRUE]
    <2>1. [outbox[i] EXCEPT !.stale = TRUE] \in OutboxRow
      BY <1>1 DEF OutboxRow
    <2> QED
      BY <2>1, <1>2, <1>1, <1>6 DEF OutboxRow
  <1>7. CASE outbox' = outbox
    BY <1>7 DEF RowsPersist
  <1> QED
    BY <1>3, <1>4, <1>5, <1>6, <1>7

\* A row is added at the end.
LEMMA RowAdded ==
    ASSUME outbox \in Seq(OutboxRow), NEW k \in Sagas, NEW a \in Actions,
           outbox' = Append(outbox, NewEntry(k, a))
    PROVE  /\ RowsPersist
           /\ \A i \in DOMAIN outbox' : i \notin DOMAIN outbox =>
                    outbox'[i] = NewEntry(k, a)
           /\ \A i \in DOMAIN outbox : outbox'[i] = outbox[i]
  <1>1. NewEntry(k, a) \in OutboxRow
    BY DEF NewEntry, OutboxRow, Statuses
  <1>2. /\ outbox' \in Seq(OutboxRow)
        /\ DOMAIN outbox = 1..Len(outbox) /\ DOMAIN outbox' = 1..(Len(outbox) + 1)
        /\ \A i \in DOMAIN outbox : outbox'[i] = outbox[i]
        /\ outbox'[Len(outbox) + 1] = NewEntry(k, a)
        /\ Len(outbox) \in Nat
    BY <1>1
  <1> QED
    BY <1>2 DEF RowsPersist

\* After these the entry's handler has returned without error.
AfterDelivery == {"mark", "callback", "next", "retry"}

\* The worker moves to v, a place with a batch that it may have there.
Turns(w, v) ==
    /\ worker' = [worker EXCEPT ![w] = v]
    /\ WorkerType(v)
    /\ \A j \in DOMAIN v.batch : v.batch[j].id \in DOMAIN outbox
    /\ v.pc \in AfterDelivery => v.batch = worker[w].batch

\* A worker's entry is a row.
LEMMA EntryIsRow ==
    ASSUME SagaTypes, NEW w \in Workers, worker[w].batch # << >>
    PROVE  /\ Entry(w) \in OutboxRow /\ Head(worker[w].batch).id \in DOMAIN outbox
           /\ Head(worker[w].batch) = worker[w].batch[1]
           /\ 1 \in DOMAIN worker[w].batch
           /\ Head(worker[w].batch).retries \in Nat
  <1>1. worker[w].batch \in Seq(Reading)
    BY DEF SagaTypes, WorkersRead, WorkerType
  <1>2. 1 \in DOMAIN worker[w].batch /\ Head(worker[w].batch) = worker[w].batch[1]
    BY <1>1
  <1>3. worker[w].batch[1] \in Reading
    BY <1>1, <1>2
  <1>4. worker[w].batch[1].id \in DOMAIN outbox
    BY <1>2 DEF SagaTypes, WorkersRead
  <1> QED
    BY <1>2, <1>3, <1>4 DEF SagaTypes, Entry, Reading

\* On to another place with the same entry.
LEMMA GoToTurns ==
    ASSUME SagaTypes, NEW w \in Workers, worker[w].batch # << >>,
           NEW pc \in Places, GoTo(w, pc)
    PROVE  \E v : Turns(w, v) /\ v.pc = pc /\ v.batch = worker[w].batch
  <1> DEFINE v == [worker[w] EXCEPT !.pc = pc]
  <1>1. worker[w] \in [pc : Places, batch : Seq(Reading)]
    BY DEF SagaTypes, WorkersRead, WorkerType
  <1>2. v.pc = pc /\ v.batch = worker[w].batch /\ WorkerType(v)
    BY <1>1 DEF WorkerType
  <1>3. worker' = [worker EXCEPT ![w] = v]
    BY DEF GoTo
  <1> HIDE DEF v
  <1>4. Turns(w, v)
    BY <1>2, <1>3 DEF Turns, SagaTypes, WorkersRead
  <1> QED
    BY <1>2, <1>4

\* On to the next entry, or to the end of the batch.
LEMMA EndEntryTurns ==
    ASSUME SagaTypes, NEW w \in Workers, worker[w].batch # << >>, EndEntry(w)
    PROVE  \E v : Turns(w, v) /\ v.pc \in {"idle", "take"}
  <1> DEFINE b == worker[w].batch
  <1>1. b \in Seq(Reading) /\ b # << >>
    BY DEF SagaTypes, WorkersRead, WorkerType
  <1>2. \A j \in DOMAIN b : b[j].id \in DOMAIN outbox
    BY DEF SagaTypes, WorkersRead
  <1>3. worker' = [worker EXCEPT ![w] =
            IF Len(b) = 1 THEN Idle ELSE [pc |-> "take", batch |-> Tail(b)]]
    BY DEF EndEntry
  <1> HIDE DEF b
  <1>4. CASE Len(b) = 1
    <2>1. Turns(w, Idle) /\ Idle.pc = "idle"
      BY <1>3, <1>4 DEF Turns, Idle, WorkerType, Places, AfterDelivery
    <2> QED
      BY <2>1
  <1>5. CASE Len(b) # 1
    <2> DEFINE v == [pc |-> "take", batch |-> Tail(b)]
    <2>0. Tail(b) \in Seq(Reading) /\ Len(Tail(b)) = Len(b) - 1 /\ Len(b) \in Nat \ {0, 1}
      BY <1>1, <1>5
    <2>1. /\ Tail(b) \in Seq(Reading) /\ Tail(b) # << >>
          /\ \A j \in DOMAIN Tail(b) : j + 1 \in DOMAIN b /\ Tail(b)[j] = b[j + 1]
      <3>1. Tail(b) # << >>
        <4>1. Len(Tail(b)) # 0 /\ Len(<<>>) = 0
          BY <2>0
        <4> QED
          BY ONLY <4>1
      <3>2. DOMAIN Tail(b) = 1..(Len(b) - 1) /\ DOMAIN b = 1..Len(b)
        BY <1>1, <2>0
      <3>3. \A j \in 1..(Len(b) - 1) : Tail(b)[j] = b[j + 1]
        BY <1>1, <2>0, HeadTailProperties
      <3>4. ASSUME NEW j \in DOMAIN Tail(b)
            PROVE  j + 1 \in DOMAIN b /\ Tail(b)[j] = b[j + 1]
        BY <3>2, <3>3, <2>0
      <3> QED
        BY <2>0, <3>1, <3>4
    <2>2. v.pc = "take" /\ v.batch = Tail(b)
      OBVIOUS
    <2>3. v \in [pc : Places, batch : Seq(Reading)]
      BY <2>1 DEF Places
    <2>4. worker' = [worker EXCEPT ![w] = v]
      BY <1>3, <1>5
    <2> HIDE DEF v
    <2>5. Turns(w, v)
      BY <1>2, <2>1, <2>2, <2>3, <2>4 DEF Turns, WorkerType, AfterDelivery
    <2> QED
      BY <2>2, <2>5
  <1> QED
    BY <1>4, <1>5
-----------------------------------------------------------------------------
(* What has happened *)

\* Behind its delivery an entry's service has done its part, and only a freeze
\* has a next step.
DeliveryHappened ==
    \A w \in Workers : worker[w].pc \in AfterDelivery =>
        /\ effects[Entry(w).saga][Entry(w).action] > 0
        /\ worker[w].pc = "next" => Entry(w).action = Freeze

\* Who asks for the engine has frozen the money.
FreezeBeforeSubmit ==
    \A i \in DOMAIN outbox :
        outbox[i].action = Submit => effects[outbox[i].saga][Freeze] > 0

SagaInv == SagaTypes /\ DeliveryHappened /\ FreezeBeforeSubmit /\ StatusTellsTruth

\* What a step may do to the rows, the services and the orders: what happened
\* stays, an entry for the engine comes after the freeze, and a status is set
\* to what has happened.
StepTellsTruth ==
    /\ RowsPersist
    /\ order' \in [Sagas -> {NoOrder, "created", "frozen", "submitted"}]
    /\ request' \in [Requests -> {"new", "answered"} \cup Sagas]
    /\ effects' \in [Sagas -> [Actions -> Nat]]
    /\ troubles' \in 0..MaxTroubles
    /\ \A k \in Sagas, a \in Actions : effects'[k][a] >= effects[k][a]
    /\ \A i \in DOMAIN outbox' : i \notin DOMAIN outbox =>
            (outbox'[i].action = Submit => effects[outbox'[i].saga][Freeze] > 0)
    /\ \A k \in Sagas :
        /\ effects'[k][Submit] > 0 => effects[k][Submit] > 0 \/ effects[k][Freeze] > 0
        /\ \/ order'[k] = order[k]
           \/ order'[k] = "created"
           \/ order'[k] = "frozen" /\ effects[k][Freeze] > 0
           \/ order'[k] = "submitted" /\ effects[k][Submit] > 0

\* What a worker may do: it is behind a delivery only if it was, with the same
\* entry, or if the service has just done its part.
TurnTellsTruth(w, v) ==
    /\ Turns(w, v)
    /\ v.pc \in AfterDelivery =>
        /\ worker[w].batch # << >>
        /\ \/ worker[w].pc \in AfterDelivery
           \/ effects'[Entry(w).saga][Entry(w).action] > 0
        /\ v.pc = "next" => Entry(w).action = Freeze

StepOfWorker(w) == StepTellsTruth /\ \E v : TurnTellsTruth(w, v)

\* Such steps keep the rows, the orders and the services true to each other.
LEMMA TruthKept ==
    ASSUME SagaInv, StepTellsTruth
    PROVE  StatusTellsTruth' /\ FreezeBeforeSubmit'
  <1>1. Freeze \in Actions /\ Submit \in Actions
    BY SagaAssumption
  <1>2. \A k \in Sagas, a \in Actions :
            effects[k][a] \in Nat /\ effects'[k][a] \in Nat /\ effects'[k][a] >= effects[k][a]
    BY DEF SagaInv, SagaTypes, StepTellsTruth
  <1>3. StatusTellsTruth'
    <2>1. SUFFICES ASSUME NEW k \in Sagas
                   PROVE  /\ order'[k] \in {"frozen", "submitted"} => effects'[k][Freeze] > 0
                          /\ order'[k] = "submitted" => effects'[k][Submit] > 0
                          /\ effects'[k][Submit] > 0 => effects'[k][Freeze] > 0
      BY DEF StatusTellsTruth
    <2>2. /\ order[k] \in {"frozen", "submitted"} => effects[k][Freeze] > 0
          /\ order[k] = "submitted" => effects[k][Submit] > 0
          /\ effects[k][Submit] > 0 => effects[k][Freeze] > 0
      BY DEF SagaInv, StatusTellsTruth
    <2>3. /\ effects'[k][Submit] > 0 => effects[k][Submit] > 0 \/ effects[k][Freeze] > 0
          /\ \/ order'[k] = order[k]
             \/ order'[k] = "created"
             \/ order'[k] = "frozen" /\ effects[k][Freeze] > 0
             \/ order'[k] = "submitted" /\ effects[k][Submit] > 0
      BY DEF StepTellsTruth
    <2> QED
      BY <1>1, <1>2, <2>2, <2>3
  <1>4. FreezeBeforeSubmit'
    <2>1. SUFFICES ASSUME NEW i \in DOMAIN outbox', outbox'[i].action = Submit
                   PROVE  effects'[outbox'[i].saga][Freeze] > 0
      BY DEF FreezeBeforeSubmit
    <2>2. outbox'[i].saga \in Sagas
      <3>1. outbox'[i] \in OutboxRow
        BY <2>1 DEF StepTellsTruth, RowsPersist
      <3> QED
        BY <3>1 DEF OutboxRow
    <2>3. effects[outbox'[i].saga][Freeze] > 0
      <3>1. CASE i \in DOMAIN outbox
        BY <3>1, <2>1 DEF SagaInv, FreezeBeforeSubmit, StepTellsTruth, RowsPersist
      <3>2. CASE i \notin DOMAIN outbox
        BY <3>2, <2>1 DEF StepTellsTruth
      <3> QED
        BY <3>1, <3>2
    <2> QED
      BY <2>2, <2>3, <1>1, <1>2
  <1> QED
    BY <1>3, <1>4

\* A worker that does not move keeps its entry and what happened to it.
LEMMA OthersKept ==
    ASSUME SagaInv, StepTellsTruth, NEW u \in Workers, worker'[u] = worker[u]
    PROVE  /\ WorkerType(worker'[u])
           /\ \A j \in DOMAIN worker'[u].batch : worker'[u].batch[j].id \in DOMAIN outbox'
           /\ worker'[u].pc \in AfterDelivery =>
                /\ effects'[Entry(u)'.saga][Entry(u)'.action] > 0
                /\ worker'[u].pc = "next" => Entry(u)'.action = Freeze
  <1>1. WorkerType(worker'[u])
    BY DEF SagaInv, SagaTypes, WorkersRead
  <1>2. \A j \in DOMAIN worker'[u].batch : worker'[u].batch[j].id \in DOMAIN outbox'
    BY DEF SagaInv, SagaTypes, WorkersRead, StepTellsTruth, RowsPersist
  <1>3. ASSUME worker'[u].pc \in AfterDelivery
        PROVE  /\ effects'[Entry(u)'.saga][Entry(u)'.action] > 0
               /\ worker'[u].pc = "next" => Entry(u)'.action = Freeze
    <2>1. worker[u].batch # << >>
      BY <1>3, <1>1 DEF WorkerType, AfterDelivery
    <2>2. Entry(u) \in OutboxRow /\ Head(worker[u].batch).id \in DOMAIN outbox
      BY <2>1, EntryIsRow DEF SagaInv
    <2>3. Entry(u)'.saga = Entry(u).saga /\ Entry(u)'.action = Entry(u).action
      BY <2>2 DEF Entry, StepTellsTruth, RowsPersist
    <2>4. Entry(u).saga \in Sagas /\ Entry(u).action \in Actions
      BY <2>2 DEF OutboxRow
    <2>5. /\ effects[Entry(u).saga][Entry(u).action] > 0
          /\ worker[u].pc = "next" => Entry(u).action = Freeze
      BY <1>3 DEF SagaInv, DeliveryHappened
    <2>6. /\ effects[Entry(u).saga][Entry(u).action] \in Nat
          /\ effects'[Entry(u).saga][Entry(u).action] \in Nat
          /\ effects'[Entry(u).saga][Entry(u).action]
                >= effects[Entry(u).saga][Entry(u).action]
      BY <2>4 DEF SagaInv, SagaTypes, StepTellsTruth
    <2> QED
      BY <2>3, <2>5, <2>6
  <1> QED
    BY <1>1, <1>2, <1>3
\* A step that moves no worker keeps the invariant.
LEMMA StillKept ==
    ASSUME SagaInv, StepTellsTruth, UNCHANGED worker
    PROVE  SagaInv'
  <1>1. \A u \in Workers :
            /\ WorkerType(worker'[u])
            /\ \A j \in DOMAIN worker'[u].batch : worker'[u].batch[j].id \in DOMAIN outbox'
            /\ worker'[u].pc \in AfterDelivery =>
                /\ effects'[Entry(u)'.saga][Entry(u)'.action] > 0
                /\ worker'[u].pc = "next" => Entry(u)'.action = Freeze
    BY OthersKept
  <1>2. StatusTellsTruth' /\ FreezeBeforeSubmit'
    BY TruthKept
  <1>3. SagaTypes'
    BY <1>1 DEF SagaInv, SagaTypes, WorkersRead, StepTellsTruth, RowsPersist
  <1>4. DeliveryHappened'
    BY <1>1 DEF DeliveryHappened
  <1> QED
    BY <1>2, <1>3, <1>4 DEF SagaInv

\* A step of a worker keeps the invariant.
LEMMA TurnKept ==
    ASSUME SagaInv, NEW w \in Workers, StepOfWorker(w)
    PROVE  SagaInv'
  <1>1. PICK v : TurnTellsTruth(w, v)
    BY DEF StepOfWorker
  <1>2. StepTellsTruth
    BY DEF StepOfWorker
  <1>3. DOMAIN worker = Workers /\ worker' = [worker EXCEPT ![w] = v]
    BY <1>1 DEF TurnTellsTruth, Turns, SagaInv, SagaTypes
  <1>4. worker'[w] = v /\ \A u \in Workers : u # w => worker'[u] = worker[u]
    BY <1>3
  <1>5. /\ WorkerType(worker'[w])
        /\ \A j \in DOMAIN worker'[w].batch : worker'[w].batch[j].id \in DOMAIN outbox'
    BY <1>1, <1>2, <1>4 DEF TurnTellsTruth, Turns, StepTellsTruth, RowsPersist
  <1>6. ASSUME worker'[w].pc \in AfterDelivery
        PROVE  /\ effects'[Entry(w)'.saga][Entry(w)'.action] > 0
               /\ worker'[w].pc = "next" => Entry(w)'.action = Freeze
    <2>1. worker[w].batch # << >> /\ worker'[w].batch = worker[w].batch
      BY <1>6, <1>4, <1>1 DEF TurnTellsTruth, Turns
    <2>2. Entry(w) \in OutboxRow /\ Head(worker[w].batch).id \in DOMAIN outbox
      BY <2>1, EntryIsRow DEF SagaInv
    <2>3. Entry(w)'.saga = Entry(w).saga /\ Entry(w)'.action = Entry(w).action
      BY <2>1, <2>2, <1>2 DEF Entry, StepTellsTruth, RowsPersist
    <2>4. Entry(w).saga \in Sagas /\ Entry(w).action \in Actions
      BY <2>2 DEF OutboxRow
    <2>5. /\ effects[Entry(w).saga][Entry(w).action] \in Nat
          /\ effects'[Entry(w).saga][Entry(w).action] \in Nat
          /\ effects'[Entry(w).saga][Entry(w).action]
                >= effects[Entry(w).saga][Entry(w).action]
      BY <2>4, <1>2 DEF SagaInv, SagaTypes, StepTellsTruth
    <2>6. \/ effects[Entry(w).saga][Entry(w).action] > 0
          \/ effects'[Entry(w).saga][Entry(w).action] > 0
      BY <1>1, <1>4, <1>6 DEF TurnTellsTruth, SagaInv, DeliveryHappened
    <2>7. worker'[w].pc = "next" => Entry(w).action = Freeze
      BY <1>1, <1>4, <1>6 DEF TurnTellsTruth
    <2> QED
      BY <2>3, <2>5, <2>6, <2>7
  <1>7. \A u \in Workers :
            /\ WorkerType(worker'[u])
            /\ \A j \in DOMAIN worker'[u].batch : worker'[u].batch[j].id \in DOMAIN outbox'
            /\ worker'[u].pc \in AfterDelivery =>
                /\ effects'[Entry(u)'.saga][Entry(u)'.action] > 0
                /\ worker'[u].pc = "next" => Entry(u)'.action = Freeze
    <2>1. TAKE u \in Workers
    <2>2. CASE u = w
      BY <2>2, <1>5, <1>6
    <2>3. CASE u # w
      BY <2>3, <1>2, <1>4, OthersKept
    <2> QED
      BY <2>2, <2>3
  <1>8. StatusTellsTruth' /\ FreezeBeforeSubmit'
    BY <1>2, TruthKept
  <1>9. SagaTypes'
    <2>1. DOMAIN worker' = Workers /\ worker' = [u \in Workers |-> worker'[u]]
      BY <1>3
    <2> QED
      BY <1>2, <1>7, <2>1 DEF SagaTypes, WorkersRead, StepTellsTruth, RowsPersist
  <1>10. DeliveryHappened'
    BY <1>7 DEF DeliveryHappened
  <1> QED
    BY <1>8, <1>9, <1>10 DEF SagaInv

-----------------------------------------------------------------------------
(* The steps *)

\* A step that changes rows at most.
LEMMA RowsOnly ==
    ASSUME SagaInv, RowsPersist, DOMAIN outbox' = DOMAIN outbox,
           UNCHANGED <<order, request, effects>>, troubles' \in 0..MaxTroubles
    PROVE  StepTellsTruth
BY DEF StepTellsTruth, SagaInv, SagaTypes

LEMMA TroubleCounts ==
    ASSUME SagaInv, NEW outcome \in Outcomes, Access(outcome)
    PROVE  troubles' \in 0..MaxTroubles
BY SagaAssumption DEF SagaInv, SagaTypes, Access, Trouble

\* The worker's own accesses to the table.
LEMMA WorkerAccessTrue ==
    ASSUME SagaInv, NEW w \in Workers, NEW outcome \in Outcomes, WorkerAccess(w, outcome)
    PROVE  StepOfWorker(w)
  <1>1. SagaTypes /\ outbox \in Seq(OutboxRow) /\ WorkerType(worker[w])
    BY DEF SagaInv, SagaTypes, WorkersRead
  <1>2. UNCHANGED <<order, request, effects>> /\ troubles' \in 0..MaxTroubles
    BY TroubleCounts DEF WorkerAccess
  <1>3. ASSUME worker[w].pc \notin {"idle", "recover", "down"}
        PROVE  worker[w].batch # << >>
    BY <1>1, <1>3 DEF WorkerType
  <1>4. ASSUME worker[w].batch # << >>,
               RowsPersist, DOMAIN outbox' = DOMAIN outbox,
               \/ EndEntry(w)
               \/ \E pc \in Places \ {"next"} : GoTo(w, pc) /\
                    (pc \in AfterDelivery => worker[w].pc \in AfterDelivery)
        PROVE  StepOfWorker(w)
    <2>1. StepTellsTruth
      BY <1>2, <1>4, RowsOnly
    <2>2. CASE EndEntry(w)
      <3>1. PICK v : Turns(w, v) /\ v.pc \in {"idle", "take"}
        BY <1>1, <1>4, <2>2, EndEntryTurns
      <3>2. TurnTellsTruth(w, v)
        BY <3>1 DEF TurnTellsTruth, AfterDelivery
      <3> QED
        BY <2>1, <3>2 DEF StepOfWorker
    <2>3. ASSUME NEW pc \in Places \ {"next"}, GoTo(w, pc),
                 pc \in AfterDelivery => worker[w].pc \in AfterDelivery
          PROVE  StepOfWorker(w)
      <3>1. PICK v : Turns(w, v) /\ v.pc = pc
        BY <1>1, <1>4, <2>3, GoToTurns
      <3>2. TurnTellsTruth(w, v)
        BY <3>1, <1>4, <2>3 DEF TurnTellsTruth
      <3> QED
        BY <2>1, <3>2 DEF StepOfWorker
    <2> QED
      BY <1>4, <2>2, <2>3
  <1>5. ASSUME worker[w].batch # << >>
        PROVE  Head(worker[w].batch).id \in DOMAIN outbox
    BY <1>1, <1>5, EntryIsRow
  <1>6. ASSUME NEW status \in Statuses, worker[w].batch # << >>, SetStatus(w, status, outcome)
        PROVE  RowsPersist /\ DOMAIN outbox' = DOMAIN outbox
    BY <1>1, <1>5, <1>6, RowChanges DEF SetStatus
  <1>7. {"pending", "processing", "done", "dead_letter"} = Statuses
    BY DEF Statuses
  <1>8. CASE Take(w, outcome)
    <2>1. worker[w].batch # << >>
      BY <1>3, <1>8 DEF Take
    <2>2. RowsPersist /\ DOMAIN outbox' = DOMAIN outbox
      BY <1>6, <1>7, <1>8, <2>1 DEF Take
    <2>3. EndEntry(w) \/ GoTo(w, "deliver")
      BY <1>8 DEF Take
    <2> QED
      BY <1>4, <2>1, <2>2, <2>3 DEF Places, AfterDelivery
  <1>9. CASE MarkDone(w, outcome)
    <2>1. worker[w].batch # << >>
      BY <1>3, <1>9 DEF MarkDone
    <2>2. RowsPersist /\ DOMAIN outbox' = DOMAIN outbox
      BY <1>6, <1>7, <1>9, <2>1 DEF MarkDone
    <2>3. EndEntry(w) \/ (GoTo(w, "callback") /\ worker[w].pc = "mark")
      BY <1>9 DEF MarkDone
    <2> QED
      BY <1>4, <2>1, <2>2, <2>3 DEF Places, AfterDelivery
  <1>10. CASE Requeue(w, outcome) \/ Bury(w, outcome)
    <2>1. worker[w].batch # << >> /\ EndEntry(w)
      BY <1>3, <1>10 DEF Requeue, Bury
    <2>2. RowsPersist /\ DOMAIN outbox' = DOMAIN outbox
      BY <1>6, <1>7, <1>10, <2>1 DEF Requeue, Bury
    <2> QED
      BY <1>4, <2>1, <2>2
  <1>11. CASE CountRetry(w, outcome)
    <2>1. worker[w].batch # << >> /\ (GoTo(w, "bury") \/ GoTo(w, "delay"))
      BY <1>3, <1>11 DEF CountRetry
    <2>2. RowsPersist /\ DOMAIN outbox' = DOMAIN outbox
      BY <1>1, <1>5, <1>11, <2>1, RowChanges DEF CountRetry
    <2> QED
      BY <1>4, <2>1, <2>2 DEF Places, AfterDelivery
  <1>12. CASE Delay(w, outcome)
    <2>1. worker[w].batch # << >> /\ GoTo(w, "requeue")
      BY <1>3, <1>12 DEF Delay
    <2>2. RowsPersist /\ DOMAIN outbox' = DOMAIN outbox
      BY <1>1, <1>5, <1>12, <2>1, RowChanges DEF Delay
    <2> QED
      BY <1>4, <2>1, <2>2 DEF Places, AfterDelivery
  <1>13. CASE RetryCallback(w, outcome)
    <2>1. worker[w].batch # << >> /\ EndEntry(w)
      BY <1>3, <1>13 DEF RetryCallback
    <2>2. Entry(w) \in OutboxRow /\ Head(worker[w].batch).id \in DOMAIN outbox
      BY <1>1, <2>1, EntryIsRow
    <2>3. Entry(w).action = Submit => effects[Entry(w).saga][Freeze] > 0
      BY <2>2 DEF SagaInv, FreezeBeforeSubmit, Entry
    <2>4. StepTellsTruth
      <3>1. CASE outbox' = outbox
        BY <3>1, <1>1, <1>2, <2>2, RowChanges, RowsOnly
      <3>2. CASE outbox' = Append(outbox, NewEntry(Entry(w).saga, Entry(w).action))
        <4>1. /\ RowsPersist
              /\ \A i \in DOMAIN outbox' : i \notin DOMAIN outbox =>
                    outbox'[i] = NewEntry(Entry(w).saga, Entry(w).action)
          BY <3>2, <1>1, <2>2, RowAdded DEF OutboxRow
        <4>2. \A i \in DOMAIN outbox' : i \notin DOMAIN outbox =>
                outbox'[i].saga = Entry(w).saga /\ outbox'[i].action = Entry(w).action
          BY <4>1 DEF NewEntry
        <4> QED
          BY <4>1, <4>2, <2>3, <1>2 DEF StepTellsTruth, SagaInv, SagaTypes
      <3> QED
        BY <3>1, <3>2, <1>13 DEF RetryCallback
    <2>5. PICK v : Turns(w, v) /\ v.pc \in {"idle", "take"}
      BY <1>1, <2>1, EndEntryTurns
    <2>6. TurnTellsTruth(w, v)
      BY <2>5 DEF TurnTellsTruth, AfterDelivery
    <2> QED
      BY <2>4, <2>6 DEF StepOfWorker  <1>14. RowsPersist /\ DOMAIN outbox' = DOMAIN outbox
          => StepTellsTruth
    BY <1>2, RowsOnly
  <1>15. ASSUME UNCHANGED outbox
         PROVE  RowsPersist /\ DOMAIN outbox' = DOMAIN outbox
    BY <1>1, <1>15 DEF RowsPersist
  <1>16. ASSUME NEW v, worker' = [worker EXCEPT ![w] = v], WorkerType(v),
                \A j \in DOMAIN v.batch : v.batch[j].id \in DOMAIN outbox,
                v.pc \in {"idle", "recover", "take"}, StepTellsTruth
         PROVE  StepOfWorker(w)
    <2>1. TurnTellsTruth(w, v)
      BY <1>16 DEF TurnTellsTruth, Turns, AfterDelivery
    <2> QED
      BY <1>16, <2>1 DEF StepOfWorker
  <1>17. /\ WorkerType(Idle) /\ Idle.pc = "idle" /\ DOMAIN Idle.batch = {}
         /\ WorkerType([pc |-> "recover", batch |-> << >>])
    BY DEF WorkerType, Idle, Places
  <1>18. ASSUME NEW ids, NEW pc \in {"recover", "take"}, Rows(ids) # << >> \/ pc = "recover"
         PROVE  /\ WorkerType([pc |-> pc, batch |-> Rows(ids)])
                /\ \A j \in DOMAIN Rows(ids) : Rows(ids)[j].id \in DOMAIN outbox
    <2>1. Rows(ids) \in Seq(Reading)
      BY <1>1, RowsRead
    <2>2. \A j \in DOMAIN Rows(ids) : Rows(ids)[j].id \in DOMAIN outbox
      BY <1>1, RowsRead
    <2> QED
      BY <1>18, <2>1, <2>2 DEF WorkerType, Places
  <1>19. CASE Poll(w, outcome)
    <2>1. StepTellsTruth
      BY <1>14, <1>15, <1>19 DEF Poll
    <2> DEFINE v == [pc |-> "recover", batch |-> IF Reported(outcome) THEN StaleRows ELSE << >>]
    <2>2. /\ WorkerType(v)
          /\ \A j \in DOMAIN v.batch : v.batch[j].id \in DOMAIN outbox
      <3>1. CASE Reported(outcome)
        BY <3>1, <1>18 DEF StaleRows
      <3>2. CASE ~Reported(outcome)
        BY <3>2, <1>17
      <3> QED
        BY <3>1, <3>2
    <2>3. worker' = [worker EXCEPT ![w] = v] /\ v.pc = "recover"
      BY <1>19 DEF Poll
    <2> HIDE DEF v
    <2> QED
      BY <1>16, <2>1, <2>2, <2>3
  <1>20. CASE Fetch(w, outcome)
    <2>1. StepTellsTruth
      BY <1>14, <1>15, <1>20 DEF Fetch
    <2>2. CASE Reported(outcome) /\ ReadyRows # << >>
      <3> DEFINE v == [pc |-> "take", batch |-> ReadyRows]
      <3>1. /\ WorkerType(v)
            /\ \A j \in DOMAIN v.batch : v.batch[j].id \in DOMAIN outbox
        BY <2>2, <1>18 DEF ReadyRows
      <3>2. worker' = [worker EXCEPT ![w] = v] /\ v.pc = "take"
        BY <1>20, <2>2 DEF Fetch
      <3> HIDE DEF v
      <3> QED
        BY <1>16, <2>1, <3>1, <3>2
    <2>3. CASE ~(Reported(outcome) /\ ReadyRows # << >>)
      <3>1. worker' = [worker EXCEPT ![w] = Idle]
        BY <1>20, <2>3 DEF Fetch
      <3> QED
        BY <1>16, <1>17, <2>1, <3>1
    <2> QED
      BY <2>2, <2>3
  <1>21. CASE RecoverStale(w, outcome)
    <2> DEFINE b == worker[w].batch
    <2>1. b # << >> /\ worker[w].pc = "recover"
      BY <1>21 DEF RecoverStale
    <2>2. StepTellsTruth
      BY <1>6, <1>7, <1>14, <1>21, <2>1 DEF RecoverStale
    <2>3. b \in Seq(Reading) /\ \A j \in DOMAIN b : b[j].id \in DOMAIN outbox
      BY <1>1 DEF SagaTypes, WorkersRead, WorkerType
    <2>4. worker' = [worker EXCEPT ![w] = [pc |-> "recover", batch |-> Tail(b)]]
      BY <1>21, <2>1 DEF RecoverStale, NextEntry
    <2> HIDE DEF b
    <2>5. /\ Tail(b) \in Seq(Reading) /\ Len(Tail(b)) = Len(b) - 1
          /\ \A j \in 1..Len(Tail(b)) : Tail(b)[j] = b[j + 1]
      BY <2>1, <2>3, HeadTailProperties
    <2>6. DOMAIN b = 1..Len(b) /\ DOMAIN Tail(b) = 1..Len(Tail(b)) /\ Len(b) \in Nat
      BY <2>3, <2>5
    <2>7. \A j \in DOMAIN Tail(b) : Tail(b)[j].id \in DOMAIN outbox
      BY <2>3, <2>5, <2>6
    <2> DEFINE v == [pc |-> "recover", batch |-> Tail(b)]
    <2>8. WorkerType(v) /\ v.pc = "recover" /\ v.batch = Tail(b)
      BY <2>5 DEF WorkerType, Places
    <2> HIDE DEF v
    <2>9. worker' = [worker EXCEPT ![w] = v]
      BY <2>4 DEF v
    <2> QED
      BY <1>16, <2>2, <2>7, <2>8, <2>9
  <1> QED
    BY <1>8, <1>9, <1>10, <1>11, <1>12, <1>13, <1>19, <1>20, <1>21 DEF WorkerAccess

\* A delivery: the service does its part, or refuses, and is heard or not.
LEMMA DeliverTrue ==
    ASSUME SagaInv, NEW w \in Workers, NEW answer \in {"accepted", "refused", "unheard"},
           Deliver(w, answer)
    PROVE  StepOfWorker(w)
  <1>1. SagaTypes /\ outbox \in Seq(OutboxRow) /\ WorkerType(worker[w])
    BY DEF SagaInv, SagaTypes, WorkersRead
  <1>2. worker[w].batch # << >>
    BY <1>1 DEF Deliver, Delivered, WorkerType
  <1>3. Entry(w) \in OutboxRow /\ Head(worker[w].batch).id \in DOMAIN outbox
    BY <1>1, <1>2, EntryIsRow
  <1> DEFINE k == Entry(w).saga
             a == Entry(w).action
  <1>4. k \in Sagas /\ a \in Actions /\ Freeze \in Actions /\ Submit \in Actions
        /\ a \in {Freeze, Submit} /\ Freeze # Submit
    BY <1>3, SagaAssumption DEF OutboxRow, Freeze, Submit
  <1>5. Serve(k, a, answer) /\ UNCHANGED <<outbox, order, request>>
    BY <1>4 DEF Deliver, FreezeAmount, SubmitOrder, Delivered
  <1> HIDE DEF k, a
  <1>6. effects \in [Sagas -> [Actions -> Nat]] /\ troubles \in 0..MaxTroubles
    BY <1>1 DEF SagaTypes
  <1>7. troubles' \in 0..MaxTroubles
    BY <1>5, <1>6, SagaAssumption DEF Serve, Trouble
  <1>8. /\ effects' \in [Sagas -> [Actions -> Nat]]
        /\ \A l \in Sagas, b \in Actions :
                effects'[l][b] = IF l = k /\ b = a /\ answer # "refused"
                                 THEN effects[l][b] + 1 ELSE effects[l][b]
    BY <1>4, <1>5, <1>6 DEF Serve
  <1>9. a = Submit => effects[k][Freeze] > 0
    BY <1>3 DEF SagaInv, FreezeBeforeSubmit, Entry, k, a
  <1>10. \A l \in Sagas, b \in Actions : effects[l][b] \in Nat
    BY <1>6
  <1>11. \A l \in Sagas, b \in Actions : effects'[l][b] >= effects[l][b]
    BY <1>8, <1>10
  <1>12. \A l \in Sagas : effects'[l][Submit] > 0
            => effects[l][Submit] > 0 \/ effects[l][Freeze] > 0
    BY <1>4, <1>8, <1>9
  <1>13. RowsPersist
    BY <1>1, <1>5 DEF RowsPersist
  <1>14. StepTellsTruth
    BY <1>1, <1>5, <1>7, <1>8, <1>11, <1>12, <1>13 DEF StepTellsTruth, SagaTypes
  <1>15. CASE answer = "accepted"
    <2>1. PICK v : Turns(w, v) /\ v.pc = "mark"
      BY <1>1, <1>2, <1>15, GoToTurns DEF Deliver, Delivered, Places
    <2>2. effects'[k][a] > 0
      BY <1>4, <1>8, <1>10, <1>15
    <2>3. TurnTellsTruth(w, v)
      BY <1>2, <2>1, <2>2 DEF TurnTellsTruth, k, a
    <2> QED
      BY <1>14, <2>3 DEF StepOfWorker
  <1>16. CASE answer # "accepted"
    <2>1. PICK v : Turns(w, v) /\ v.pc = "count"
      BY <1>1, <1>2, <1>16, GoToTurns DEF Deliver, Delivered, Places
    <2>2. TurnTellsTruth(w, v)
      BY <2>1 DEF TurnTellsTruth, AfterDelivery
    <2> QED
      BY <1>14, <2>2 DEF StepOfWorker
  <1> QED
    BY <1>15, <1>16
\* A success callback: the order's new status, or the entry of the next step.
LEMMA CallbackTrue ==
    ASSUME SagaInv, NEW w \in Workers, NEW outcome \in Outcomes, Callback(w, outcome)
    PROVE  StepOfWorker(w)
  <1>1. SagaTypes /\ outbox \in Seq(OutboxRow) /\ WorkerType(worker[w])
    BY DEF SagaInv, SagaTypes, WorkersRead
  <1>2. worker[w].batch # << >> /\ worker[w].pc \in AfterDelivery
    BY <1>1 DEF Callback, FreezeSucceeded, CreateSubmitEntry, SubmitSucceeded,
                WorkerType, AfterDelivery
  <1>3. Entry(w) \in OutboxRow /\ Entry(w).saga \in Sagas /\ Entry(w).action \in Actions
    BY <1>1, <1>2, EntryIsRow DEF OutboxRow
  <1>4. effects[Entry(w).saga][Entry(w).action] > 0
    BY <1>2 DEF SagaInv, DeliveryHappened
  <1>5. troubles' \in 0..MaxTroubles /\ UNCHANGED <<request, effects>>
    BY TroubleCounts DEF Callback, FreezeSucceeded, CreateSubmitEntry, SubmitSucceeded
  <1>6. effects \in [Sagas -> [Actions -> Nat]]
    BY <1>1 DEF SagaTypes
  <1>7. /\ effects' \in [Sagas -> [Actions -> Nat]]
        /\ \A k \in Sagas, a \in Actions : effects'[k][a] >= effects[k][a]
        /\ \A k \in Sagas : effects'[k][Submit] > 0 => effects[k][Submit] > 0
    BY <1>5, <1>6
  <1>8. ASSUME StepTellsTruth,
               \/ EndEntry(w)
               \/ GoTo(w, "retry")
               \/ GoTo(w, "next") /\ Entry(w).action = Freeze
        PROVE  StepOfWorker(w)
    <2>1. CASE EndEntry(w)
      <3>1. PICK v : Turns(w, v) /\ v.pc \in {"idle", "take"}
        BY <1>1, <1>2, <2>1, EndEntryTurns
      <3>2. TurnTellsTruth(w, v)
        BY <3>1 DEF TurnTellsTruth, AfterDelivery
      <3> QED
        BY <1>8, <3>2 DEF StepOfWorker
    <2>2. ASSUME NEW pc \in {"retry", "next"}, GoTo(w, pc),
                 pc = "next" => Entry(w).action = Freeze
          PROVE  StepOfWorker(w)
      <3>1. PICK v : Turns(w, v) /\ v.pc = pc
        BY <1>1, <1>2, <2>2, GoToTurns DEF Places
      <3>2. TurnTellsTruth(w, v)
        BY <3>1, <1>2, <2>2 DEF TurnTellsTruth
      <3> QED
        BY <1>8, <3>2 DEF StepOfWorker
    <2> QED
      BY <1>8, <2>1, <2>2
  <1>9. ASSUME NEW status \in {"frozen", "submitted"}, SetOrder(Entry(w).saga, status, outcome),
               UNCHANGED outbox, status = "frozen" <=> Entry(w).action = Freeze,
               status = "submitted" <=> Entry(w).action = Submit
        PROVE  StepTellsTruth
    <2>1. order \in [Sagas -> {NoOrder, "created", "frozen", "submitted"}]
      BY <1>1 DEF SagaTypes
    <2>2. /\ order' \in [Sagas -> {NoOrder, "created", "frozen", "submitted"}]
          /\ \A k \in Sagas : order'[k] = order[k] \/ (k = Entry(w).saga /\ order'[k] = status)
      BY <1>3, <1>9, <2>1 DEF SetOrder
    <2>3. RowsPersist
      BY <1>1, <1>9 DEF RowsPersist
    <2> QED
      BY <1>1, <1>4, <1>5, <1>7, <1>9, <2>2, <2>3 DEF StepTellsTruth, SagaTypes
  <1>10. CASE FreezeSucceeded(w, outcome)
    <2>1. StepTellsTruth
      BY <1>9, <1>10 DEF FreezeSucceeded, Freeze, Submit
    <2> QED
      BY <1>8, <1>10, <2>1 DEF FreezeSucceeded
  <1>11. CASE SubmitSucceeded(w, outcome)
    <2>1. StepTellsTruth
      BY <1>9, <1>11 DEF SubmitSucceeded, Freeze, Submit
    <2> QED
      BY <1>8, <1>11, <2>1 DEF SubmitSucceeded
  <1>12. CASE CreateSubmitEntry(w, outcome)
    <2>1. Entry(w).action = Freeze
      BY <1>2, <1>12 DEF CreateSubmitEntry, SagaInv, DeliveryHappened
    <2>2. UNCHANGED order /\ Submit \in Actions
      BY <1>12, SagaAssumption DEF CreateSubmitEntry
    <2>3. StepTellsTruth
      <3>1. CASE outbox' = outbox
        <4>1. RowsPersist
          BY <3>1, <1>1 DEF RowsPersist
        <4> QED
          BY <1>1, <1>5, <1>7, <2>2, <3>1, <4>1 DEF StepTellsTruth, SagaTypes
      <3>2. CASE outbox' = Append(outbox, NewEntry(Entry(w).saga, Submit))
        <4>1. /\ RowsPersist
              /\ \A i \in DOMAIN outbox' : i \notin DOMAIN outbox =>
                    outbox'[i] = NewEntry(Entry(w).saga, Submit)
          BY <3>2, <1>1, <1>3, <2>2, RowAdded
        <4>2. \A i \in DOMAIN outbox' : i \notin DOMAIN outbox =>
                outbox'[i].saga = Entry(w).saga
          BY <4>1 DEF NewEntry
        <4> QED
          BY <1>1, <1>4, <1>5, <1>7, <2>1, <2>2, <4>1, <4>2 DEF StepTellsTruth, SagaTypes
      <3> QED
        BY <3>1, <3>2, <1>12 DEF CreateSubmitEntry
    <2> QED
      BY <1>8, <1>12, <2>3 DEF CreateSubmitEntry
  <1> QED
    BY <1>10, <1>11, <1>12 DEF Callback

\* The process dies, and comes back.
LEMMA CrashTrue ==
    ASSUME SagaInv, NEW w \in Workers, Crash(w) \/ Restart(w)
    PROVE  StepOfWorker(w)
  <1>1. SagaTypes /\ outbox \in Seq(OutboxRow)
    BY DEF SagaInv, SagaTypes
  <1>2. /\ WorkerType(Down) /\ DOMAIN Down.batch = {} /\ Down.pc = "down"
        /\ WorkerType(Idle) /\ DOMAIN Idle.batch = {} /\ Idle.pc = "idle"
    BY DEF WorkerType, Down, Idle, Places
  <1>3. effects \in [Sagas -> [Actions -> Nat]]
    BY <1>1 DEF SagaTypes
  <1>4. \A k \in Sagas, a \in Actions : effects[k][a] >= effects[k][a]
    BY <1>3
  <1>5. CASE Crash(w)
    <2>1. RowsPersist /\ UNCHANGED <<order, effects>>
      BY <1>1, <1>5 DEF Crash, WorkerCrash, RowsPersist
    <2>2. request' \in [Requests -> {"new", "answered"} \cup Sagas]
      BY <1>1, <1>5 DEF Crash, SagaTypes
    <2>3. troubles' \in 0..MaxTroubles
      BY <1>1, <1>5, SagaAssumption DEF Crash, Trouble, SagaTypes
    <2>4. UNCHANGED outbox
      BY <1>5 DEF Crash, WorkerCrash
    <2>5. StepTellsTruth
      BY <1>1, <1>4, <2>1, <2>2, <2>3, <2>4 DEF StepTellsTruth, SagaTypes
    <2>6. TurnTellsTruth(w, Down)
      BY <1>2, <1>5 DEF TurnTellsTruth, Turns, Crash, WorkerCrash, AfterDelivery
    <2> QED
      BY <2>5, <2>6 DEF StepOfWorker
  <1>6. CASE Restart(w)
    <2>1. PICK outcome \in Unreported : RecoverStaleEntries(w, outcome) /\ Access(outcome)
      BY <1>6 DEF Restart
    <2>2. outcome \in Outcomes
      BY DEF Unreported, Outcomes
    <2>3. UNCHANGED <<order, request, effects>> /\ troubles' \in 0..MaxTroubles
      BY <1>6, <2>1, <2>2, TroubleCounts DEF Restart
    <2>4. RowsPersist /\ DOMAIN outbox' = DOMAIN outbox
      <3> DEFINE row(i) == IF Written(outcome) /\ Unfinished(i) /\ outbox[i].stale
                           THEN [outbox[i] EXCEPT !.status = "pending"] ELSE outbox[i]
      <3>1. outbox' = [i \in DOMAIN outbox |-> row(i)]
        BY <2>1 DEF RecoverStaleEntries
      <3>2. ASSUME NEW i \in DOMAIN outbox
            PROVE  /\ row(i) \in OutboxRow
                   /\ row(i).saga = outbox[i].saga /\ row(i).action = outbox[i].action
        <4>1. outbox[i] \in OutboxRow
          BY <1>1
        <4>2. /\ [outbox[i] EXCEPT !.status = "pending"] \in OutboxRow
              /\ [outbox[i] EXCEPT !.status = "pending"].saga = outbox[i].saga
              /\ [outbox[i] EXCEPT !.status = "pending"].action = outbox[i].action
          BY <4>1 DEF OutboxRow, Statuses
        <4> QED
          BY <4>1, <4>2
      <3> HIDE DEF row
      <3>3. DOMAIN outbox = 1..Len(outbox) /\ Len(outbox) \in Nat
        BY <1>1
      <3>4. outbox' \in Seq(OutboxRow)
        BY <3>1, <3>2, <3>3
      <3> QED
        BY <3>1, <3>2, <3>4 DEF RowsPersist
    <2>5. StepTellsTruth
      BY <2>3, <2>4, RowsOnly
    <2>6. TurnTellsTruth(w, Idle)
      BY <1>2, <2>1 DEF TurnTellsTruth, Turns, RecoverStaleEntries, AfterDelivery
    <2> QED
      BY <2>5, <2>6 DEF StepOfWorker
  <1> QED
    BY <1>5, <1>6

\* A request, or the passing of time.
LEMMA OutsideTrue ==
    ASSUME SagaInv, TimePasses \/ \E r \in Requests : Create(r)
    PROVE  StepTellsTruth /\ UNCHANGED worker
  <1>1. SagaTypes /\ outbox \in Seq(OutboxRow)
    BY DEF SagaInv, SagaTypes
  <1>2. effects \in [Sagas -> [Actions -> Nat]]
    BY <1>1 DEF SagaTypes
  <1>3. \A k \in Sagas, a \in Actions : effects[k][a] >= effects[k][a]
    BY <1>2
  <1>4. CASE TimePasses
    <2>1. PICK i \in DOMAIN outbox : Ages(i) \/ BackoffEnds(i)
      BY <1>4 DEF TimePasses
    <2>2. RowsPersist /\ DOMAIN outbox' = DOMAIN outbox
      BY <1>1, <2>1, RowChanges DEF Ages, BackoffEnds
    <2>3. UNCHANGED <<order, request, effects, troubles, worker>>
      BY <1>4, <2>1 DEF TimePasses, Ages, BackoffEnds
    <2>4. troubles' \in 0..MaxTroubles
      BY <1>1, <2>3 DEF SagaTypes
    <2> QED
      BY <2>2, <2>3, <2>4, RowsOnly
  <1>5. ASSUME NEW r \in Requests, NEW outcome \in Unreported, NEW k \in Sagas,
               CheckIdempotency(r, k, outcome)
        PROVE  StepTellsTruth /\ UNCHANGED worker
    <2>1. outcome \in Outcomes
      BY DEF Unreported, Outcomes
    <2>2. troubles' \in 0..MaxTroubles /\ UNCHANGED <<outbox, worker, order, effects>>
      BY <1>5, <2>1, TroubleCounts DEF CheckIdempotency, outboxVars
    <2>3. request' \in [Requests -> {"new", "answered"} \cup Sagas]
      <3>1. \E f \in BOOLEAN :
                request' = [request EXCEPT ![r] = IF f THEN "answered" ELSE k]
        BY <1>5 DEF CheckIdempotency
      <3>2. request \in [Requests -> {"new", "answered"} \cup Sagas]
        BY <1>1 DEF SagaTypes
      <3> QED
        BY <3>1, <3>2
    <2>4. RowsPersist
      BY <1>1, <2>2 DEF RowsPersist
    <2> QED
      BY <1>1, <1>3, <2>2, <2>3, <2>4 DEF StepTellsTruth, SagaTypes
  <1>6. ASSUME NEW r \in Requests, NEW outcome \in Unreported, StoreOrder(r, outcome)
        PROVE  StepTellsTruth /\ UNCHANGED worker
    <2>1. outcome \in Outcomes
      BY DEF Unreported, Outcomes
    <2>2. troubles' \in 0..MaxTroubles /\ UNCHANGED <<worker, effects>>
      BY <1>6, <2>1, TroubleCounts DEF StoreOrder
    <2>3. request[r] \in Sagas /\ request' \in [Requests -> {"new", "answered"} \cup Sagas]
      BY <1>1, <1>6 DEF StoreOrder, SagaTypes
    <2>4. CASE UNCHANGED <<order, outbox>>
      <3>1. RowsPersist
        BY <1>1, <2>4 DEF RowsPersist
      <3> QED
        BY <1>1, <1>3, <2>2, <2>3, <2>4, <3>1 DEF StepTellsTruth, SagaTypes
    <2>5. CASE /\ order' = [order EXCEPT ![request[r]] = "created"]
               /\ outbox' = Append(outbox, NewEntry(request[r], Freeze))
      <3>1. Freeze \in Actions /\ Freeze # Submit
        BY SagaAssumption DEF Freeze, Submit
      <3>2. /\ RowsPersist
            /\ \A i \in DOMAIN outbox' : i \notin DOMAIN outbox =>
                    outbox'[i] = NewEntry(request[r], Freeze)
        BY <1>1, <2>3, <2>5, <3>1, RowAdded
      <3>3. \A i \in DOMAIN outbox' : i \notin DOMAIN outbox => outbox'[i].action # Submit
        BY <3>1, <3>2 DEF NewEntry
      <3>4. order \in [Sagas -> {NoOrder, "created", "frozen", "submitted"}]
        BY <1>1 DEF SagaTypes
      <3>5. /\ order' \in [Sagas -> {NoOrder, "created", "frozen", "submitted"}]
            /\ \A k \in Sagas : order'[k] = order[k] \/ order'[k] = "created"
        BY <2>3, <2>5, <3>4
      <3> QED
        BY <1>3, <2>2, <2>3, <3>2, <3>3, <3>5 DEF StepTellsTruth, SagaInv, SagaTypes
    <2> QED
      BY <1>6, <2>4, <2>5 DEF StoreOrder
  <1> QED
    BY <1>4, <1>5, <1>6 DEF Create

-----------------------------------------------------------------------------
LEMMA SagaInit == Init => SagaInv
  <1> SUFFICES ASSUME Init PROVE SagaInv
    OBVIOUS
  <1>1. outbox = << >> /\ worker = [w \in Workers |-> Idle]
    BY DEF Init, OutboxInit
  <1>2. Idle.pc = "idle" /\ DOMAIN Idle.batch = {} /\ WorkerType(Idle)
    BY DEF Idle, WorkerType, Places
  <1>3. Freeze \in Actions /\ Submit \in Actions
    BY SagaAssumption
  <1>4. SagaTypes
    BY <1>1, <1>2, SagaAssumption DEF Init, SagaTypes, WorkersRead
  <1>5. DeliveryHappened
    BY <1>1, <1>2 DEF DeliveryHappened, AfterDelivery
  <1>6. FreezeBeforeSubmit
    BY <1>1 DEF FreezeBeforeSubmit
  <1>7. StatusTellsTruth
    <2>1. ASSUME NEW k \in Sagas
          PROVE  order[k] = NoOrder /\ effects[k][Submit] = 0 /\ effects[k][Freeze] = 0
      BY <1>3 DEF Init
    <2> QED
      BY <2>1, SagaAssumption DEF StatusTellsTruth
  <1> QED
    BY <1>4, <1>5, <1>6, <1>7 DEF SagaInv

LEMMA SagaNext == SagaInv /\ [Next]_vars => SagaInv'
  <1> SUFFICES ASSUME SagaInv, [Next]_vars PROVE SagaInv'
    OBVIOUS
  <1>1. ASSUME NEW w \in Workers, Work(w) \/ Crash(w) \/ Restart(w)
        PROVE  SagaInv'
    <2>1. StepOfWorker(w)
      BY <1>1, WorkerAccessTrue, DeliverTrue, CallbackTrue, CrashTrue DEF Work
    <2> QED
      BY <2>1, TurnKept
  <1>2. ASSUME TimePasses \/ \E r \in Requests : Create(r)
        PROVE  SagaInv'
    <2>1. StepTellsTruth /\ UNCHANGED worker
      BY <1>2, OutsideTrue
    <2> QED
      BY <2>1, StillKept
  <1>3. CASE UNCHANGED vars
    BY <1>3 DEF vars, outboxVars, SagaInv, SagaTypes, WorkersRead, DeliveryHappened,
                FreezeBeforeSubmit, StatusTellsTruth, Entry
  <1> QED
    BY <1>1, <1>2, <1>3 DEF Next

LEMMA SagaInvariant == Spec => []SagaInv
  <1>1. Init => SagaInv
    BY SagaInit
  <1>2. SagaInv /\ [Next]_vars => SagaInv'
    BY SagaNext
  <1> QED
    BY <1>1, <1>2, PTL DEF Spec

\* For any number of gateways, requests, keys and troubles a state is well typed:
\* a batch holds readings of rows that exist, and is empty only between entries.
THEOREM SagaTypeCorrect == Spec => []SagaTypes
  <1>1. SagaInv => SagaTypes
    BY DEF SagaInv
  <1> QED
    BY <1>1, SagaInvariant, PTL

\* For any number of gateways, requests, keys and troubles: what an order's status
\* claims has happened.  SetOrder and the outbox entry that follow a delivery are
\* behind its success, and no crash, retry or recovery changes what an entry is for.
THEOREM StatusIsTrue == Spec => []StatusTellsTruth
  <1>1. SagaInv => StatusTellsTruth
    BY DEF SagaInv
  <1> QED
    BY <1>1, SagaInvariant, PTL
-----------------------------------------------------------------------------
(* One worker: what it has read stays as it read it, and each part that a   *)
(* service does twice has a cause                                           *)

\* Entries that may be delivered once more.
Live(k, a) ==
    {i \in DOMAIN outbox : outbox[i].saga = k /\ outbox[i].action = a /\ Unfinished(i)}
LiveCount(k, a) == Cardinality(Live(k, a))

Settling == {"callback", "next", "retry"}

\* The rows of the batch are different ones, and unfinished but for an entry that
\* is being settled.
BatchLive(w) ==
    /\ \A i, j \in DOMAIN worker[w].batch :
            i # j => worker[w].batch[i].id # worker[w].batch[j].id
    /\ \A j \in DOMAIN worker[w].batch :
            j > 1 \/ worker[w].pc \notin Settling => Unfinished(worker[w].batch[j].id)

\* Is the worker at one of these places with an entry for this?
At(w, places, k, a) ==
    IF worker[w].pc \in places /\ Entry(w).saga = k /\ Entry(w).action = a THEN 1 ELSE 0

Unordered(k) == IF order[k] = NoOrder THEN 1 ELSE 0

\* What was done and what may still be done, an order not yet stored and a
\* callback to be retried included, is one more than what went wrong at most; for
\* the engine a freeze counts that may still lead to an entry.
CausedFor(w, k) ==
    /\ effects[k][Freeze] + LiveCount(k, Freeze) + At(w, {"retry"}, k, Freeze)
            + Unordered(k)
        <= 1 + troubles + At(w, {"mark"}, k, Freeze)
    /\ effects[k][Submit] + LiveCount(k, Submit) + At(w, {"retry"}, k, Submit)
            + LiveCount(k, Freeze) + At(w, Settling, k, Freeze) + Unordered(k)
        <= 1 + troubles + At(w, {"mark"}, k, Submit)

Caused(w) == \A k \in Sagas : CausedFor(w, k)

OneWorkerInv(w) == SagaInv /\ BatchLive(w) /\ Caused(w)

\* The live entries are finitely many.
LEMMA LiveFinite ==
    ASSUME outbox \in Seq(OutboxRow), NEW k, NEW a
    PROVE  IsFiniteSet(Live(k, a)) /\ LiveCount(k, a) \in Nat
  <1>1. DOMAIN outbox = 1..Len(outbox) /\ Len(outbox) \in Nat
    OBVIOUS
  <1>2. IsFiniteSet(1..Len(outbox))
    BY <1>1, FS_Interval
  <1>3. Live(k, a) \subseteq 1..Len(outbox)
    BY <1>1 DEF Live
  <1>4. IsFiniteSet(Live(k, a))
    BY <1>2, <1>3, FS_Subset
  <1> QED
    BY <1>4, FS_CardinalityType DEF LiveCount

\* No row is settled or brought back.
RowsSteady ==
    /\ DOMAIN outbox' = DOMAIN outbox
    /\ \A i \in DOMAIN outbox :
        outbox'[i].status \in {"pending", "processing"} <=> Unfinished(i)

LEMMA LiveSteady ==
    ASSUME RowsPersist, RowsSteady, NEW k, NEW a
    PROVE  LiveCount(k, a)' = LiveCount(k, a)
  <1>1. Live(k, a)' = Live(k, a)
    BY DEF Live, RowsPersist, RowsSteady, Unfinished
  <1> QED
    BY <1>1 DEF LiveCount

\* One row is settled.
RowSettles(h) ==
    /\ DOMAIN outbox' = DOMAIN outbox
    /\ Unfinished(h) /\ outbox'[h].status \notin {"pending", "processing"}
    /\ \A i \in DOMAIN outbox \ {h} : outbox'[i] = outbox[i]

LEMMA LiveSettles ==
    ASSUME outbox \in Seq(OutboxRow), RowsPersist, NEW h \in DOMAIN outbox, RowSettles(h),
           NEW k, NEW a
    PROVE  /\ LiveCount(k, a) \in Nat
           /\ LiveCount(k, a)' =
                IF outbox[h].saga = k /\ outbox[h].action = a
                THEN LiveCount(k, a) - 1 ELSE LiveCount(k, a)
  <1>1. Live(k, a)' = Live(k, a) \ {h}
    BY DEF Live, RowsPersist, RowSettles, Unfinished
  <1>2. h \in Live(k, a) <=> outbox[h].saga = k /\ outbox[h].action = a
    BY DEF Live, RowSettles
  <1>3. IsFiniteSet(Live(k, a)) /\ LiveCount(k, a) \in Nat
    BY LiveFinite
  <1>4. CASE h \in Live(k, a)
    BY <1>1, <1>2, <1>3, <1>4, FS_RemoveElement DEF LiveCount
  <1>5. CASE h \notin Live(k, a)
    <2>1. Live(k, a)' = Live(k, a)
      BY <1>1, <1>5
    <2> QED
      BY <2>1, <1>2, <1>3, <1>5 DEF LiveCount
  <1> QED
    BY <1>4, <1>5

\* One row is added.
LEMMA LiveAdded ==
    ASSUME outbox \in Seq(OutboxRow), NEW l \in Sagas, NEW b \in Actions,
           outbox' = Append(outbox, NewEntry(l, b)), NEW k, NEW a
    PROVE  /\ LiveCount(k, a) \in Nat
           /\ LiveCount(k, a)' =
                IF k = l /\ a = b THEN LiveCount(k, a) + 1 ELSE LiveCount(k, a)
  <1> DEFINE n == Len(outbox) + 1
  <1>1. /\ RowsPersist
        /\ \A i \in DOMAIN outbox' : i \notin DOMAIN outbox => outbox'[i] = NewEntry(l, b)
        /\ \A i \in DOMAIN outbox : outbox'[i] = outbox[i]
    BY RowAdded
  <1>2. DOMAIN outbox = 1..Len(outbox) /\ Len(outbox) \in Nat
    OBVIOUS
  <1>3. NewEntry(l, b) \in OutboxRow
    BY DEF NewEntry, OutboxRow, Statuses
  <1>4. DOMAIN outbox' = 1..n
    BY <1>2, <1>3
  <1>5. DOMAIN outbox' = DOMAIN outbox \cup {n} /\ n \notin DOMAIN outbox
    BY <1>2, <1>4
  <1>6. outbox'[n].saga = l /\ outbox'[n].action = b /\ outbox'[n].status = "pending"
    BY <1>1, <1>5 DEF NewEntry
  <1> HIDE DEF n
  <1>7. IsFiniteSet(Live(k, a)) /\ LiveCount(k, a) \in Nat
    BY LiveFinite
  <1>8. CASE k = l /\ a = b
    <2>1. Live(k, a)' = Live(k, a) \cup {n} /\ n \notin Live(k, a)
      BY <1>1, <1>5, <1>6, <1>8 DEF Live, Unfinished
    <2> QED
      BY <1>7, <1>8, <2>1, FS_AddElement DEF LiveCount
  <1>9. CASE ~(k = l /\ a = b)
    <2>1. Live(k, a)' = Live(k, a)
      BY <1>1, <1>5, <1>6, <1>9 DEF Live, Unfinished
    <2> QED
      BY <1>7, <1>9, <2>1 DEF LiveCount
  <1> QED
    BY <1>8, <1>9
\* What a step leaves alone beside its own row.
OthersStay(h) ==
    \A i \in DOMAIN outbox : Unfinished(i) /\ i # h =>
        outbox'[i].status \in {"pending", "processing"}

\* A status is set to a row that is not finished.
LEMMA SetStatusRows ==
    ASSUME SagaTypes, NEW w \in Workers, worker[w].batch # << >>,
           NEW h, h = Head(worker[w].batch).id, Unfinished(h),
           NEW status \in Statuses, NEW outcome, SetStatus(w, status, outcome)
    PROVE  /\ RowsPersist /\ OthersStay(h) /\ h \in DOMAIN outbox
           /\ RowsSteady \/ RowSettles(h)
           /\ status \in {"pending", "processing"} \/ ~Written(outcome) => RowsSteady
           /\ status \notin {"pending", "processing"} /\ Written(outcome) => RowSettles(h)
  <1>1. h \in DOMAIN outbox /\ outbox \in Seq(OutboxRow)
    BY EntryIsRow DEF SagaTypes
  <1>2. outbox[h] \in OutboxRow
    BY <1>1
  <1>3. CASE ~Written(outcome)
    <2>1. outbox' = outbox
      BY <1>3 DEF SetStatus
    <2> QED
      BY <1>1, <1>3, <2>1 DEF RowsPersist, OthersStay, RowsSteady, Unfinished
  <1>4. CASE Written(outcome)
    <2>1. outbox' = [outbox EXCEPT ![h].status = status]
      BY <1>4 DEF SetStatus
    <2>2. RowsPersist /\ DOMAIN outbox' = DOMAIN outbox
      BY <1>1, <2>1, RowChanges
    <2>3. outbox'[h].status = status /\ \A i \in DOMAIN outbox \ {h} : outbox'[i] = outbox[i]
      BY <1>1, <1>2, <2>1 DEF OutboxRow
    <2> QED
      BY <1>1, <1>4, <2>2, <2>3 DEF OthersStay, RowsSteady, RowSettles, Unfinished
  <1> QED
    BY <1>3, <1>4

\* What is left of a batch is still what was read.
LEMMA BatchStaysLive ==
    ASSUME SagaTypes, NEW w \in Workers, worker[w].batch # << >>, BatchLive(w),
           NEW h, h = Head(worker[w].batch).id, OthersStay(h),
           \/ /\ worker'[w].batch = worker[w].batch
              /\ worker'[w].pc \notin Settling =>
                    outbox'[h].status \in {"pending", "processing"}
           \/ worker'[w].batch = Tail(worker[w].batch)
           \/ worker'[w].batch = << >>
    PROVE  BatchLive(w)'
  <1> DEFINE b == worker[w].batch
             c == worker'[w].batch
             Stays(i) == outbox'[i].status \in {"pending", "processing"}
  <1>1. /\ b \in Seq(Reading) /\ b # << >> /\ \A j \in DOMAIN b : b[j].id \in DOMAIN outbox
        /\ h = b[1].id /\ 1 \in DOMAIN b
    BY EntryIsRow DEF SagaTypes, WorkersRead, WorkerType
  <1>2. /\ \A i, j \in DOMAIN b : i # j => b[i].id # b[j].id
        /\ \A j \in DOMAIN b : j > 1 => Unfinished(b[j].id)
    BY DEF BatchLive
  <1>3. \A j \in DOMAIN b : j > 1 => Stays(b[j].id)
    BY <1>1, <1>2 DEF OthersStay
  <1>4. DOMAIN b = 1..Len(b) /\ Len(b) \in Nat
    BY <1>1
  <1>5. BatchLive(w)' <=>
            /\ \A i, j \in DOMAIN c : i # j => c[i].id # c[j].id
            /\ \A j \in DOMAIN c : j > 1 \/ worker'[w].pc \notin Settling => Stays(c[j].id)
    BY DEF BatchLive, Unfinished
  <1> HIDE DEF b, c, Stays
  <1>6. CASE c = << >>
    BY <1>5, <1>6
  <1>7. CASE c = Tail(b)
    <2>1. /\ Tail(b) \in Seq(Reading) /\ Len(Tail(b)) = Len(b) - 1
          /\ \A j \in 1..Len(Tail(b)) : Tail(b)[j] = b[j + 1]
      BY <1>1, HeadTailProperties
    <2>2. DOMAIN c = 1..(Len(b) - 1)
      BY <1>7, <2>1
    <2>3. \A j \in DOMAIN c : j + 1 \in DOMAIN b /\ c[j] = b[j + 1] /\ j + 1 > 1 /\ j \in Nat
      BY <1>4, <1>7, <2>1, <2>2
    <2>4. ASSUME NEW i \in DOMAIN c, NEW j \in DOMAIN c, i # j
          PROVE  c[i].id # c[j].id
      <3>1. i + 1 # j + 1
        BY <2>3, <2>4
      <3> QED
        BY <1>2, <2>3, <3>1
    <2> QED
      BY <1>3, <1>5, <2>3, <2>4
  <1>8. CASE c = b /\ (worker'[w].pc \notin Settling => Stays(h))
    <2>1. \A j \in DOMAIN b : j > 1 \/ j = 1
      BY <1>4
    <2> QED
      BY <1>1, <1>2, <1>3, <1>5, <1>8, <2>1
  <1> QED
    BY <1>6, <1>7, <1>8 DEF b, c, Stays

\* The rows of a query that looks for unfinished ones.
LEMMA QueryIsLive ==
    ASSUME outbox \in Seq(OutboxRow), NEW w \in Workers, NEW ids,
           \A i \in ids \cap DOMAIN outbox : Unfinished(i),
           UNCHANGED outbox, worker'[w].batch \in {Rows(ids), << >>}
    PROVE  BatchLive(w)'
  <1>1. CASE worker'[w].batch = << >>
    BY <1>1 DEF BatchLive
  <1>2. CASE worker'[w].batch = Rows(ids)
    <2> DEFINE c == Rows(ids)
    <2>1. /\ c \in Seq(Reading)
          /\ \A j \in DOMAIN c : c[j].id \in ids \cap DOMAIN outbox
          /\ \A i, j \in DOMAIN c : i < j => c[i].id < c[j].id
      BY RowsRead
    <2> HIDE DEF c
    <2>2. ASSUME NEW i \in DOMAIN c, NEW j \in DOMAIN c, i # j
          PROVE  c[i].id # c[j].id
      <3>1. DOMAIN c = 1..Len(c) /\ c[i] \in Reading /\ c[j] \in Reading
        BY <2>1
      <3>2. i < j \/ j < i
        BY <2>2, <3>1
      <3>3. c[i].id \in Nat /\ c[j].id \in Nat
        BY <3>1 DEF Reading
      <3>4. c[i].id < c[j].id \/ c[j].id < c[i].id
        BY <2>1, <3>2
      <3> QED
        BY <3>3, <3>4
    <2>3. \A j \in DOMAIN c : outbox'[c[j].id].status \in {"pending", "processing"}
      BY <2>1 DEF Unfinished
    <2>4. worker'[w].batch = c
      BY <1>2 DEF c
    <2> QED
      BY <2>2, <2>3, <2>4 DEF BatchLive, Unfinished
  <1> QED
    BY <1>1, <1>2

\* Where a worker's entry is after a step.
LEMMA AtAfter ==
    ASSUME SagaTypes, RowsPersist, NEW w \in Workers, NEW places, NEW k, NEW a
    PROVE  /\ At(w, places, k, a) \in {0, 1} /\ At(w, places, k, a)' \in {0, 1}
           /\ worker[w].pc \notin places => At(w, places, k, a) = 0
           /\ worker'[w].pc \notin places => At(w, places, k, a)' = 0
           /\ worker'[w].batch = worker[w].batch /\ worker[w].batch # << >> =>
                At(w, places, k, a)' =
                    IF /\ worker'[w].pc \in places
                       /\ Entry(w).saga = k /\ Entry(w).action = a THEN 1 ELSE 0
  <1>1. ASSUME worker'[w].batch = worker[w].batch, worker[w].batch # << >>
        PROVE  Entry(w)'.saga = Entry(w).saga /\ Entry(w)'.action = Entry(w).action
    <2>1. Head(worker[w].batch).id \in DOMAIN outbox
      BY <1>1, EntryIsRow
    <2> QED
      BY <1>1, <2>1 DEF Entry, RowsPersist
  <1> QED
    BY <1>1 DEF At
\* Where a worker is after the two ways to go on.
LEMMA PlaceAfter ==
    ASSUME SagaTypes, NEW w \in Workers
    PROVE  /\ \A pc : GoTo(w, pc) =>
                worker'[w].pc = pc /\ worker'[w].batch = worker[w].batch
           /\ EndEntry(w) => /\ worker'[w].pc \in {"idle", "take"}
                             /\ \/ worker'[w].batch = Tail(worker[w].batch)
                                \/ worker'[w].batch = << >>
  <1>1. DOMAIN worker = Workers /\ worker[w] \in [pc : Places, batch : Seq(Reading)]
    BY DEF SagaTypes, WorkersRead, WorkerType
  <1>2. ASSUME NEW pc, GoTo(w, pc)
        PROVE  worker'[w].pc = pc /\ worker'[w].batch = worker[w].batch
    <2>1. worker'[w] = [worker[w] EXCEPT !.pc = pc]
      BY <1>1, <1>2 DEF GoTo
    <2> QED
      BY <1>1, <2>1
  <1>3. ASSUME EndEntry(w)
        PROVE  /\ worker'[w].pc \in {"idle", "take"}
               /\ \/ worker'[w].batch = Tail(worker[w].batch)
                  \/ worker'[w].batch = << >>
    <2>1. worker'[w] = IF Len(worker[w].batch) = 1 THEN Idle
                       ELSE [pc |-> "take", batch |-> Tail(worker[w].batch)]
      BY <1>1, <1>3 DEF EndEntry
    <2> QED
      BY <2>1 DEF Idle
  <1> QED
    BY <1>2, <1>3

\* The numbers that Caused is about.
LEMMA CausedNumbers ==
    ASSUME SagaInv, NEW k \in Sagas
    PROVE  /\ \A a \in {Freeze, Submit} :
                effects[k][a] \in Nat /\ LiveCount(k, a) \in Nat
           /\ troubles \in Nat /\ Unordered(k) \in {0, 1}
           /\ Freeze \in Actions /\ Submit \in Actions /\ Freeze # Submit
           /\ Actions = {Freeze, Submit}
  <1>1. Actions = {Freeze, Submit} /\ MaxTroubles \in Nat
    BY SagaAssumption
  <1>2. \A a \in {Freeze, Submit} : LiveCount(k, a) \in Nat
    BY LiveFinite DEF SagaInv, SagaTypes
  <1> QED
    BY <1>1, <1>2 DEF SagaInv, SagaTypes, Unordered, Freeze, Submit

\* Rows are settled at most, and no entry comes to or leaves a delivery.
LEMMA QuietCaused ==
    ASSUME SagaInv, NEW w \in Workers, Caused(w), RowsPersist,
           RowsSteady \/ \E h \in DOMAIN outbox : RowSettles(h),
           UNCHANGED <<order, effects>>, troubles' \in Nat, troubles' >= troubles,
           worker[w].pc \notin AfterDelivery, worker'[w].pc \notin AfterDelivery
    PROVE  Caused(w)'
  <1>1. SUFFICES ASSUME NEW k \in Sagas PROVE CausedFor(w, k)'
    BY DEF Caused
  <1>2. SagaTypes /\ outbox \in Seq(OutboxRow)
    BY DEF SagaInv, SagaTypes
  <1>3. \A a : LiveCount(k, a) \in Nat /\ LiveCount(k, a)' \in {LiveCount(k, a), LiveCount(k, a) - 1}
    BY <1>2, LiveSteady, LiveSettles, LiveFinite
  <1>4. \A a : \A places \in {{"retry"}, {"mark"}, Settling} :
            At(w, places, k, a) = 0 /\ At(w, places, k, a)' = 0
    <2>1. \A places \in {{"retry"}, {"mark"}, Settling} : places \subseteq AfterDelivery
      BY DEF Settling, AfterDelivery
    <2> QED
      BY <1>2, <2>1, AtAfter
  <1>5. Unordered(k)' = Unordered(k)
    BY DEF Unordered
  <1>6. CausedFor(w, k)
    BY DEF Caused
  <1>7. /\ effects[k][Freeze] \in Nat /\ effects[k][Submit] \in Nat
        /\ troubles \in Nat /\ Unordered(k) \in {0, 1}
    BY CausedNumbers
  <1>8. effects'[k][Freeze] = effects[k][Freeze] /\ effects'[k][Submit] = effects[k][Submit]
    OBVIOUS
  <1> QED
    BY <1>3, <1>4, <1>5, <1>6, <1>7, <1>8 DEF CausedFor
\* The entry of a worker that is behind a delivery, and the places it counts at.
LEMMA EntryAt ==
    ASSUME SagaInv, NEW w \in Workers, worker[w].pc \in AfterDelivery
    PROVE  /\ worker[w].batch # << >> /\ Entry(w) \in OutboxRow
           /\ Entry(w).saga \in Sagas /\ Entry(w).action \in {Freeze, Submit}
           /\ Head(worker[w].batch).id \in DOMAIN outbox
           /\ Entry(w) = outbox[Head(worker[w].batch).id]
           /\ \A places, k, a :
                At(w, places, k, a) =
                    IF /\ worker[w].pc \in places
                       /\ Entry(w).saga = k /\ Entry(w).action = a THEN 1 ELSE 0
  <1>1. worker[w].batch # << >>
    BY DEF SagaInv, SagaTypes, WorkersRead, WorkerType, AfterDelivery
  <1> QED
    BY <1>1, EntryIsRow, SagaAssumption DEF SagaInv, OutboxRow, At, Entry

\* The entry is marked as done.
LEMMA MarkCaused ==
    ASSUME SagaInv, NEW w \in Workers, BatchLive(w), Caused(w),
           NEW outcome \in Outcomes, MarkDone(w, outcome), Access(outcome),
           UNCHANGED <<order, effects>>
    PROVE  BatchLive(w)' /\ Caused(w)'
  <1> DEFINE h == Head(worker[w].batch).id
             k0 == Entry(w).saga
             a0 == Entry(w).action
  <1>1. worker[w].pc = "mark" /\ worker[w].pc \in AfterDelivery
    BY DEF MarkDone, AfterDelivery
  <1>2. /\ worker[w].batch # << >> /\ h \in DOMAIN outbox
        /\ k0 \in Sagas /\ a0 \in {Freeze, Submit}
        /\ outbox[h].saga = k0 /\ outbox[h].action = a0
    BY <1>1, EntryAt
  <1>3. SagaTypes /\ outbox \in Seq(OutboxRow)
    BY DEF SagaInv, SagaTypes
  <1>4. Unfinished(h)
    <2>1. 1 \in DOMAIN worker[w].batch /\ h = worker[w].batch[1].id
      BY <1>2, <1>3, EntryIsRow
    <2> QED
      BY <1>1, <2>1 DEF BatchLive, Settling
  <1>5. /\ RowsPersist /\ OthersStay(h)
        /\ RowsSteady \/ RowSettles(h)
        /\ Written(outcome) => RowSettles(h)
    BY <1>2, <1>3, <1>4, SetStatusRows DEF MarkDone, Statuses
  <1>6. \/ /\ Reported(outcome)
           /\ worker'[w].pc = "callback" /\ worker'[w].batch = worker[w].batch
        \/ /\ ~Reported(outcome) /\ worker'[w].pc \in {"idle", "take"}
           /\ \/ worker'[w].batch = Tail(worker[w].batch)
              \/ worker'[w].batch = << >>
    BY <1>3, PlaceAfter DEF MarkDone
  <1>7. BatchLive(w)'
    <2>1. h = Head(worker[w].batch).id
      OBVIOUS
    <2> HIDE DEF h
    <2> QED
      BY <1>2, <1>3, <1>5, <1>6, <2>1, BatchStaysLive DEF Settling
  <1>8. ASSUME NEW k \in Sagas
        PROVE  CausedFor(w, k)'
    <2> DEFINE own(a) == IF k0 = k /\ a0 = a THEN 1 ELSE 0
    <2>1. /\ \A a \in {Freeze, Submit} : effects[k][a] \in Nat /\ LiveCount(k, a) \in Nat
          /\ troubles \in Nat /\ Unordered(k) \in {0, 1} /\ Freeze # Submit
      BY CausedNumbers
    <2>2. \A a : /\ At(w, {"mark"}, k, a) = own(a)
                 /\ At(w, {"retry"}, k, a) = 0 /\ At(w, Settling, k, a) = 0
      BY <1>1, EntryAt DEF Settling
    <2>3. \A a : /\ At(w, {"mark"}, k, a)' = 0 /\ At(w, {"retry"}, k, a)' = 0
                 /\ At(w, Settling, k, a)' \in {0, own(a)}
                 /\ ~Reported(outcome) => At(w, Settling, k, a)' = 0
      BY <1>2, <1>3, <1>5, <1>6, AtAfter DEF Settling
    <2>4. \A a : /\ LiveCount(k, a)' \in {LiveCount(k, a), LiveCount(k, a) - own(a)}
                 /\ Reported(outcome) => LiveCount(k, a)' = LiveCount(k, a) - own(a)
      <3>1. Reported(outcome) => RowSettles(h)
        BY <1>5 DEF Reported, Written
      <3>2. ASSUME NEW a
            PROVE  /\ RowsSteady => LiveCount(k, a)' = LiveCount(k, a)
                   /\ RowSettles(h) => LiveCount(k, a)' = LiveCount(k, a) - own(a)
        <4>1. RowSettles(h) => LiveCount(k, a)' = LiveCount(k, a) - own(a)
          BY <1>2, <1>3, <1>5, LiveSettles
        <4> QED
          BY <1>5, <4>1, LiveSteady
      <3> QED
        BY <1>5, <3>1, <3>2
    <2>5. troubles' = troubles + (IF Reported(outcome) THEN 0 ELSE 1)
      BY <2>1 DEF Access, Reported, Trouble
    <2>6. Unordered(k)' = Unordered(k) /\ \A a : effects'[k][a] = effects[k][a]
      BY DEF Unordered
    <2>7. CausedFor(w, k)
      BY DEF Caused
    <2>8. \A a : own(a) \in {0, 1}
      OBVIOUS
    <2> HIDE DEF own
    <2> QED
      BY <2>1, <2>2, <2>3, <2>4, <2>5, <2>6, <2>7, <2>8 DEF CausedFor
  <1> QED
    BY <1>7, <1>8 DEF Caused
\* Sums stay bounded when their changes add up to no more than the bound's.
LEMMA FreezeSum ==
    ASSUME NEW e \in Int, NEW l \in Int, NEW x \in Int, NEW u \in Int, NEW v \in Int,
           NEW n \in Int, NEW y \in Int, NEW t \in Int, NEW m \in Int,
           e + l + x + u <= 1 + t, v <= u, y + n <= x + m
    PROVE  e + (l + n) + y + v <= 1 + (t + m)
OBVIOUS

LEMMA SubmitSum ==
    ASSUME NEW e \in Int, NEW l \in Int, NEW x \in Int, NEW u \in Int, NEW v \in Int,
           NEW n \in Int, NEW y \in Int, NEW t \in Int, NEW m \in Int,
           NEW lf \in Int, NEW nf \in Int, NEW o \in Int, NEW z \in Int,
           e + l + x + lf + o + u <= 1 + t, v <= u, y + z + n + nf <= x + o + m
    PROVE  e + (l + n) + y + (lf + nf) + z + v <= 1 + (t + m)
OBVIOUS

\* A callback's step: rows are added at most, the worker keeps its entry or goes
\* on, and whoever comes to retry has met with trouble.
LEMMA SettlingCaused ==
    ASSUME SagaInv, NEW w \in Workers, BatchLive(w), Caused(w),
           worker[w].pc \in Settling, UNCHANGED effects,
           NEW k0, k0 = Entry(w).saga, NEW a0, a0 = Entry(w).action,
           NEW b \in {Freeze, Submit},
           \A k \in Sagas : order'[k] = order[k] \/ order'[k] # NoOrder,
           outbox' = outbox \/ outbox' = Append(outbox, NewEntry(k0, b)),
           NEW more \in {0, 1}, troubles' = troubles + more,
           \/ /\ worker'[w].batch = worker[w].batch
              /\ worker'[w].pc = "next"
              /\ worker[w].pc = "callback" /\ a0 = Freeze /\ outbox' = outbox
           \/ /\ worker'[w].batch = worker[w].batch
              /\ worker'[w].pc = "retry" /\ worker[w].pc # "retry" /\ more = 1
              /\ outbox' # outbox => a0 = Freeze /\ b = Submit
           \/ /\ worker'[w].pc \in {"idle", "take"}
              /\ \/ worker'[w].batch = Tail(worker[w].batch)
                 \/ worker'[w].batch = << >>
              /\ outbox' # outbox =>
                    \/ worker[w].pc = "retry" /\ b = a0
                    \/ a0 = Freeze /\ b = Submit
    PROVE  BatchLive(w)' /\ Caused(w)'
  <1>1. worker[w].pc \in AfterDelivery /\ worker[w].pc # "mark"
    BY DEF Settling, AfterDelivery
  <1>2. /\ worker[w].batch # << >> /\ Head(worker[w].batch).id \in DOMAIN outbox
        /\ k0 \in Sagas /\ a0 \in {Freeze, Submit}
    BY <1>1, EntryAt
  <1>3. SagaTypes /\ outbox \in Seq(OutboxRow) /\ b \in Actions
    BY SagaAssumption DEF SagaInv, SagaTypes
  <1>4. RowsPersist /\ \A i \in DOMAIN outbox : outbox'[i] = outbox[i]
    <2>1. CASE outbox' = outbox
      BY <1>3, <2>1 DEF RowsPersist
    <2>2. CASE outbox' = Append(outbox, NewEntry(k0, b))
      BY <1>2, <1>3, <2>2, RowAdded
    <2> QED
      BY <2>1, <2>2
  <1>5. BatchLive(w)'
    <2> DEFINE h == Head(worker[w].batch).id
    <2>1. OthersStay(h)
      BY <1>4 DEF OthersStay, Unfinished
    <2>2. h = Head(worker[w].batch).id
      OBVIOUS
    <2> HIDE DEF h
    <2> QED
      BY <1>2, <1>3, <2>1, <2>2, BatchStaysLive DEF Settling
  <1>6. ASSUME NEW k \in Sagas
        PROVE  CausedFor(w, k)'
    <2> DEFINE own(a) == IF k0 = k /\ a0 = a THEN 1 ELSE 0
               new(a) == IF outbox' # outbox /\ k0 = k /\ b = a THEN 1 ELSE 0
    <2>1. /\ \A a \in {Freeze, Submit} : effects[k][a] \in Nat /\ LiveCount(k, a) \in Nat
          /\ troubles \in Nat /\ Unordered(k) \in {0, 1} /\ Freeze # Submit
      BY CausedNumbers
    <2> DEFINE was(a) == IF worker[w].pc = "retry" THEN own(a) ELSE 0
               is(a) == IF worker'[w].pc = "retry" THEN own(a) ELSE 0
               still(a) == IF worker'[w].pc \in {"next", "retry"} THEN own(a) ELSE 0
    <2>2. \A a : /\ At(w, {"mark"}, k, a) = 0
                 /\ At(w, {"retry"}, k, a) = was(a)
                 /\ At(w, Settling, k, a) = own(a)
      BY <1>1, EntryAt
    <2>3. \A a : /\ At(w, {"mark"}, k, a)' = 0
                 /\ At(w, {"retry"}, k, a)' = is(a)
                 /\ At(w, Settling, k, a)' = still(a)
      BY <1>2, <1>3, <1>4, AtAfter DEF Settling
    <2>4. \A a : LiveCount(k, a)' = LiveCount(k, a) + new(a)
      <3>1. TAKE a
      <3>2. LiveCount(k, a) \in Nat
        BY <1>3, LiveFinite
      <3>3. CASE outbox' = outbox
        <4>1. RowsSteady
          BY <3>3 DEF RowsSteady, Unfinished
        <4>2. new(a) = 0
          BY <3>3
        <4> HIDE DEF new
        <4> QED
          BY <1>4, <3>2, <4>1, <4>2, LiveSteady
      <3>4. CASE outbox' # outbox
        BY <1>2, <1>3, <3>2, <3>4, LiveAdded
      <3> QED
        BY <3>3, <3>4
    <2>5. Unordered(k)' <= Unordered(k) /\ Unordered(k)' \in {0, 1}
      BY DEF Unordered
    <2>6. \A a : effects'[k][a] = effects[k][a]
      OBVIOUS
    <2>7. CausedFor(w, k)
      BY DEF Caused
    <2>8. /\ own(Freeze) \in 0..1 /\ own(Submit) \in 0..1 /\ own(Freeze) + own(Submit) <= 1
          /\ new(Freeze) \in 0..1 /\ new(Submit) \in 0..1
          /\ was(Freeze) \in 0..1 /\ was(Submit) \in 0..1
      BY <2>1
    <2>9. /\ is(Freeze) + new(Freeze) <= was(Freeze) + more
          /\ is(Submit) + still(Freeze) + new(Submit) + new(Freeze)
                <= was(Submit) + own(Freeze) + more
          /\ is(Freeze) \in 0..1 /\ is(Submit) \in 0..1 /\ still(Freeze) \in 0..1
      <3>1. CASE worker'[w].pc = "next"
        <4>1. is(Freeze) = 0 /\ is(Submit) = 0 /\ still(Freeze) = own(Freeze)
              /\ new(Freeze) = 0 /\ new(Submit) = 0
          BY <3>1
        <4> HIDE DEF own, new, was, is, still
        <4> QED
          BY <2>8, <4>1
      <3>2. CASE worker'[w].pc = "retry"
        <4>1. /\ is(Freeze) = own(Freeze) /\ is(Submit) = own(Submit)
              /\ still(Freeze) = own(Freeze)
              /\ new(Freeze) = 0 /\ new(Submit) <= own(Freeze) /\ more = 1
          BY <2>1, <3>2
        <4> HIDE DEF own, new, was, is, still
        <4> QED
          BY <2>8, <4>1
      <3>3. CASE worker'[w].pc \in {"idle", "take"}
        <4>1. is(Freeze) = 0 /\ is(Submit) = 0 /\ still(Freeze) = 0
          BY <3>3
        <4>2. \/ new(Freeze) = 0 /\ new(Submit) <= own(Freeze)
              \/ /\ was(Freeze) = own(Freeze) /\ was(Submit) = own(Submit)
                 /\ new(Freeze) <= own(Freeze) /\ new(Submit) <= own(Submit)
                 /\ new(Freeze) + new(Submit) <= 1
          BY <2>1, <3>3
        <4> HIDE DEF own, new, was, is, still
        <4> QED
          BY <2>8, <4>1, <4>2
      <3> QED
        BY <3>1, <3>2, <3>3
    <2> HIDE DEF own, new, was, is, still
    <2>10. /\ effects[k][Freeze] + LiveCount(k, Freeze) + was(Freeze) + Unordered(k)
              <= 1 + troubles
           /\ effects[k][Submit] + LiveCount(k, Submit) + was(Submit)
                + LiveCount(k, Freeze) + own(Freeze) + Unordered(k) <= 1 + troubles
      BY <2>1, <2>2, <2>7 DEF CausedFor
    <2>11. /\ effects[k][Freeze] \in Nat /\ effects[k][Submit] \in Nat
           /\ LiveCount(k, Freeze) \in Nat /\ LiveCount(k, Submit) \in Nat
      BY <2>1
    <2>12. /\ effects[k][Freeze] + (LiveCount(k, Freeze) + new(Freeze)) + is(Freeze)
                + Unordered(k)' <= 1 + (troubles + more)
           /\ effects[k][Submit] + (LiveCount(k, Submit) + new(Submit)) + is(Submit)
                + (LiveCount(k, Freeze) + new(Freeze)) + still(Freeze) + Unordered(k)'
              <= 1 + (troubles + more)
      <3>1. Unordered(k) \in Int /\ Unordered(k)' \in Int /\ Unordered(k)' <= Unordered(k)
        BY <2>1, <2>5
      <3>2. troubles \in Int /\ more \in Int
        BY <2>1
      <3>3. /\ own(Freeze) \in Int /\ new(Freeze) \in Int /\ new(Submit) \in Int
            /\ was(Freeze) \in Int /\ was(Submit) \in Int
            /\ is(Freeze) \in Int /\ is(Submit) \in Int /\ still(Freeze) \in Int
            /\ effects[k][Freeze] \in Int /\ effects[k][Submit] \in Int
            /\ LiveCount(k, Freeze) \in Int /\ LiveCount(k, Submit) \in Int
        BY <2>8, <2>9, <2>11
      <3>4. effects[k][Freeze] + (LiveCount(k, Freeze) + new(Freeze)) + is(Freeze)
                + Unordered(k)' <= 1 + (troubles + more)
        BY <2>9, <2>10, <3>1, <3>2, <3>3, FreezeSum
      <3>5. effects[k][Submit] + (LiveCount(k, Submit) + new(Submit)) + is(Submit)
                + (LiveCount(k, Freeze) + new(Freeze)) + still(Freeze) + Unordered(k)'
              <= 1 + (troubles + more)
        BY <2>9, <2>10, <3>1, <3>2, <3>3, SubmitSum, ZenonT(60)
      <3> QED
        BY <3>4, <3>5
    <2> QED
      BY <2>3, <2>4, <2>6, <2>12 DEF CausedFor
  <1> QED
    BY <1>5, <1>6 DEF Caused
\* A delivery: what was done was still to be done, or was not heard of.
LEMMA DeliverCaused ==
    ASSUME SagaInv, NEW w \in Workers, BatchLive(w), Caused(w),
           NEW answer \in {"accepted", "refused", "unheard"}, Deliver(w, answer)
    PROVE  BatchLive(w)' /\ Caused(w)'
  <1> DEFINE k0 == Entry(w).saga
             a0 == Entry(w).action
             h == Head(worker[w].batch).id
             more == IF answer = "unheard" THEN 1 ELSE 0
  <1>1. SagaTypes /\ outbox \in Seq(OutboxRow)
    BY DEF SagaInv, SagaTypes
  <1>2. worker[w].pc = "deliver" /\ worker[w].batch # << >>
    BY DEF Deliver, Delivered, SagaInv, SagaTypes, WorkersRead, WorkerType
  <1>3. Entry(w) \in OutboxRow /\ h \in DOMAIN outbox
        /\ h = worker[w].batch[1].id /\ 1 \in DOMAIN worker[w].batch
    BY <1>1, <1>2, EntryIsRow
  <1>4. k0 \in Sagas /\ a0 \in Actions /\ Actions = {Freeze, Submit} /\ Freeze # Submit
    BY <1>3, SagaAssumption DEF OutboxRow, Freeze, Submit
  <1>5. Serve(k0, a0, answer) /\ UNCHANGED <<outbox, order>>
    BY <1>4 DEF Deliver, FreezeAmount, SubmitOrder, Delivered
  <1>6. /\ worker'[w].pc = IF answer = "accepted" THEN "mark" ELSE "count"
        /\ worker'[w].batch = worker[w].batch
    BY <1>1, PlaceAfter DEF Deliver, Delivered
  <1>7. RowsPersist /\ RowsSteady /\ OthersStay(h)
    BY <1>1, <1>5 DEF RowsPersist, RowsSteady, OthersStay, Unfinished
  <1>8. Unfinished(h)
    BY <1>2, <1>3 DEF BatchLive, Settling
  <1>9. BatchLive(w)'
    <2>1. h = Head(worker[w].batch).id /\ outbox'[h].status \in {"pending", "processing"}
      BY <1>5, <1>8 DEF Unfinished
    <2> HIDE DEF h
    <2> QED
      BY <1>1, <1>2, <1>6, <1>7, <2>1, BatchStaysLive
  <1>10. ASSUME NEW k \in Sagas
         PROVE  CausedFor(w, k)'
    <2> DEFINE own(a) == IF k0 = k /\ a0 = a THEN 1 ELSE 0
               did(a) == IF answer = "refused" THEN 0 ELSE own(a)
               marked(a) == IF answer = "accepted" THEN own(a) ELSE 0
    <2>1. /\ \A a \in {Freeze, Submit} : effects[k][a] \in Nat /\ LiveCount(k, a) \in Nat
          /\ troubles \in Nat /\ Unordered(k) \in {0, 1}
      BY CausedNumbers
    <2>2. \A a : /\ At(w, {"mark"}, k, a) = 0 /\ At(w, {"retry"}, k, a) = 0
                 /\ At(w, Settling, k, a) = 0
      BY <1>1, <1>2, <1>7, AtAfter DEF Settling
    <2>3. \A a : /\ At(w, {"mark"}, k, a)' = marked(a) /\ At(w, {"retry"}, k, a)' = 0
                 /\ At(w, Settling, k, a)' = 0
      BY <1>1, <1>2, <1>6, <1>7, AtAfter DEF Settling
    <2>4. \A a : LiveCount(k, a)' = LiveCount(k, a)
      BY <1>7, LiveSteady
    <2>5. troubles' = troubles + more
      BY <1>5, <2>1 DEF Serve, Trouble
    <2>6. Unordered(k)' = Unordered(k)
      BY <1>5 DEF Unordered
    <2>7. \A a \in {Freeze, Submit} : effects'[k][a] = effects[k][a] + did(a)
      <3>1. effects \in [Sagas -> [Actions -> Nat]]
        BY <1>1 DEF SagaTypes
      <3> QED
        BY <1>4, <1>5, <3>1 DEF Serve
    <2>8. CausedFor(w, k)
      BY DEF Caused
    <2>9. \A a : did(a) <= more + marked(a) /\ did(a) \in 0..1 /\ marked(a) \in 0..1 /\ more \in 0..1
      OBVIOUS
    <2> HIDE DEF own, did, marked, more
    <2> QED
      BY <2>1, <2>2, <2>3, <2>4, <2>5, <2>6, <2>7, <2>8, <2>9 DEF CausedFor
  <1> QED
    BY <1>9, <1>10 DEF Caused

\* The worker's own accesses to the table.
LEMMA AccessCaused ==
    ASSUME SagaInv, NEW w \in Workers, BatchLive(w), Caused(w),
           NEW outcome \in Outcomes, WorkerAccess(w, outcome)
    PROVE  BatchLive(w)' /\ Caused(w)'
  <1> DEFINE h == Head(worker[w].batch).id
  <1>1. SagaTypes /\ outbox \in Seq(OutboxRow) /\ WorkerType(worker[w])
    BY DEF SagaInv, SagaTypes, WorkersRead
  <1>2. UNCHANGED <<order, effects>> /\ Access(outcome)
    BY DEF WorkerAccess
  <1>3. troubles \in Nat /\ troubles' \in Nat /\ troubles' >= troubles
    BY <1>1, <1>2, SagaAssumption DEF Access, Trouble, SagaTypes
  <1>4. CASE MarkDone(w, outcome)
    BY <1>2, <1>4, MarkCaused
  <1>5. CASE RetryCallback(w, outcome)
    <2> DEFINE k0 == Entry(w).saga
               a0 == Entry(w).action
               more == IF outcome = "ok" THEN 0 ELSE 1
    <2>1. worker[w].pc = "retry" /\ worker[w].pc \in Settling /\ worker[w].pc \in AfterDelivery
      BY <1>5 DEF RetryCallback, Settling, AfterDelivery
    <2>2. a0 \in {Freeze, Submit}
      BY <2>1, EntryAt
    <2>3. outbox' = outbox \/ outbox' = Append(outbox, NewEntry(k0, a0))
      BY <1>5 DEF RetryCallback
    <2>4. /\ worker'[w].pc \in {"idle", "take"}
          /\ \/ worker'[w].batch = Tail(worker[w].batch)
             \/ worker'[w].batch = << >>
      BY <1>1, <1>5, PlaceAfter DEF RetryCallback
    <2>5. more \in {0, 1} /\ troubles' = troubles + more
      BY <1>2, <1>3 DEF Access, Trouble
    <2>6. k0 = Entry(w).saga /\ a0 = Entry(w).action
      OBVIOUS
    <2> HIDE DEF k0, a0, more
    <2> QED
      BY <1>2, <2>1, <2>2, <2>3, <2>4, <2>5, <2>6, SettlingCaused
  <1>6. ASSUME worker[w].pc \notin {"idle", "recover", "down"} \/ worker[w].batch # << >>,
               worker[w].pc \notin AfterDelivery
        PROVE  /\ worker[w].batch # << >> /\ h \in DOMAIN outbox /\ Unfinished(h)
               /\ outbox[h] \in OutboxRow
    <2>1. worker[w].batch # << >>
      BY <1>1, <1>6 DEF WorkerType
    <2>2. 1 \in DOMAIN worker[w].batch /\ h = worker[w].batch[1].id /\ h \in DOMAIN outbox
      BY <1>1, <2>1, EntryIsRow
    <2> QED
      BY <1>1, <1>6, <2>1, <2>2 DEF BatchLive, Settling, AfterDelivery
  <1>7. ASSUME worker[w].batch # << >>, worker[w].pc \notin AfterDelivery,
               worker'[w].pc \notin AfterDelivery,
               RowsPersist, RowsSteady \/ RowSettles(h), OthersStay(h), h \in DOMAIN outbox,
               \/ /\ worker'[w].batch = worker[w].batch
                  /\ RowsSteady /\ Unfinished(h)
               \/ worker'[w].batch = Tail(worker[w].batch)
               \/ worker'[w].batch = << >>
        PROVE  BatchLive(w)' /\ Caused(w)'
    <2>1. Caused(w)'
      BY <1>2, <1>3, <1>7, QuietCaused
    <2>2. RowsSteady /\ Unfinished(h) => outbox'[h].status \in {"pending", "processing"}
      BY <1>7 DEF RowsSteady
    <2>3. h = Head(worker[w].batch).id
      OBVIOUS
    <2> HIDE DEF h
    <2>4. BatchLive(w)'
      BY <1>1, <1>7, <2>2, <2>3, BatchStaysLive
    <2> QED
      BY <2>1, <2>4
  <1>8. ASSUME NEW status \in Statuses, worker[w].pc \notin AfterDelivery,
               worker[w].pc \notin {"idle", "recover", "down"} \/ worker[w].batch # << >>,
               SetStatus(w, status, outcome)
        PROVE  /\ RowsPersist /\ OthersStay(h)
               /\ RowsSteady \/ RowSettles(h)
               /\ status \in {"pending", "processing"} => RowsSteady
    <2>1. worker[w].batch # << >> /\ h \in DOMAIN outbox /\ Unfinished(h)
      BY <1>6, <1>8
    <2>2. h = Head(worker[w].batch).id
      OBVIOUS
    <2> HIDE DEF h
    <2> QED
      BY <1>1, <1>8, <2>1, <2>2, SetStatusRows
  <1>9. CASE Take(w, outcome)
    <2>1. worker[w].pc = "take" /\ worker[w].pc \notin AfterDelivery
      BY <1>9 DEF Take, AfterDelivery
    <2>2. worker[w].batch # << >> /\ h \in DOMAIN outbox /\ Unfinished(h)
      BY <1>6, <2>1
    <2>3. RowsPersist /\ OthersStay(h) /\ RowsSteady
      BY <1>8, <1>9, <2>1 DEF Take, Statuses
    <2>4. \/ worker'[w].pc = "deliver" /\ worker'[w].batch = worker[w].batch
          \/ /\ worker'[w].pc \in {"idle", "take"}
             /\ \/ worker'[w].batch = Tail(worker[w].batch)
                \/ worker'[w].batch = << >>
      BY <1>1, <1>9, PlaceAfter DEF Take
    <2>5. worker'[w].pc \notin AfterDelivery
      BY <2>4 DEF AfterDelivery
    <2> HIDE DEF h
    <2> QED
      BY <1>7, <2>1, <2>2, <2>3, <2>4, <2>5
  <1>10. CASE Requeue(w, outcome) \/ Bury(w, outcome)
    <2>1. worker[w].pc \in {"requeue", "bury"} /\ worker[w].pc \notin AfterDelivery
      BY <1>10 DEF Requeue, Bury, AfterDelivery
    <2>2. worker[w].batch # << >> /\ h \in DOMAIN outbox
      BY <1>6, <2>1
    <2>3. RowsPersist /\ OthersStay(h) /\ (RowsSteady \/ RowSettles(h))
      BY <1>8, <1>10, <2>1 DEF Requeue, Bury, Statuses
    <2>4. /\ worker'[w].pc \in {"idle", "take"}
          /\ \/ worker'[w].batch = Tail(worker[w].batch)
             \/ worker'[w].batch = << >>
      BY <1>1, <1>10, PlaceAfter DEF Requeue, Bury
    <2>5. worker'[w].pc \notin AfterDelivery
      BY <2>4 DEF AfterDelivery
    <2> HIDE DEF h
    <2> QED
      BY <1>7, <2>1, <2>2, <2>3, <2>4, <2>5
  <1>11. CASE CountRetry(w, outcome) \/ Delay(w, outcome)
    <2>1. worker[w].pc \in {"count", "delay"} /\ worker[w].pc \notin AfterDelivery
      BY <1>11 DEF CountRetry, Delay, AfterDelivery
    <2>2. /\ worker[w].batch # << >> /\ h \in DOMAIN outbox /\ Unfinished(h)
          /\ outbox[h] \in OutboxRow
      BY <1>6, <2>1
    <2>3. \/ outbox' = outbox
          \/ outbox' = [outbox EXCEPT ![h].retries = @ + 1]
          \/ outbox' = [outbox EXCEPT ![h].backoff = TRUE]
      BY <1>11 DEF CountRetry, Delay
    <2>4. RowsPersist /\ DOMAIN outbox' = DOMAIN outbox
      BY <1>1, <2>2, <2>3, RowChanges
    <2>5. \A i \in DOMAIN outbox : outbox'[i].status = outbox[i].status
      BY <2>2, <2>3 DEF OutboxRow
    <2>6. RowsSteady /\ OthersStay(h)
      BY <2>4, <2>5 DEF RowsSteady, OthersStay, Unfinished
    <2>7. worker'[w].pc \in {"bury", "delay", "requeue"} /\ worker'[w].batch = worker[w].batch
      BY <1>1, <1>11, PlaceAfter DEF CountRetry, Delay
    <2>8. worker'[w].pc \notin AfterDelivery
      BY <2>7 DEF AfterDelivery
    <2> HIDE DEF h
    <2> QED
      BY <1>7, <2>1, <2>2, <2>4, <2>6, <2>7, <2>8
  <1>12. CASE RecoverStale(w, outcome)
    <2>1. worker[w].pc = "recover" /\ worker[w].pc \notin AfterDelivery /\ worker[w].batch # << >>
      BY <1>12 DEF RecoverStale, AfterDelivery
    <2>2. h \in DOMAIN outbox
      BY <1>6, <2>1
    <2>3. RowsPersist /\ OthersStay(h) /\ RowsSteady
      BY <1>8, <1>12, <2>1 DEF RecoverStale, Statuses
    <2>4. worker'[w].pc = "recover" /\ worker'[w].batch = Tail(worker[w].batch)
      BY <1>1, <1>12, <2>1 DEF RecoverStale, NextEntry, SagaTypes
    <2>5. worker'[w].pc \notin AfterDelivery
      BY <2>4 DEF AfterDelivery
    <2> HIDE DEF h
    <2> QED
      BY <1>7, <2>1, <2>2, <2>3, <2>4, <2>5
  <1>13. CASE Poll(w, outcome) \/ Fetch(w, outcome)
    <2>1. UNCHANGED outbox /\ worker[w].pc \in {"idle", "recover"}
      BY <1>13 DEF Poll, Fetch
    <2>2. /\ worker'[w].pc \in {"recover", "take", "idle"}
          /\ worker'[w].batch \in {StaleRows, << >>} \/ worker'[w].batch \in {ReadyRows, << >>}
      BY <1>1, <1>13 DEF Poll, Fetch, Idle, SagaTypes
    <2>3. RowsPersist /\ RowsSteady
      BY <1>1, <2>1 DEF RowsPersist, RowsSteady, Unfinished
    <2>4. worker[w].pc \notin AfterDelivery /\ worker'[w].pc \notin AfterDelivery
      BY <2>1, <2>2 DEF AfterDelivery
    <2>5. Caused(w)'
      BY <1>2, <1>3, <2>3, <2>4, QuietCaused
    <2>6. BatchLive(w)'
      <3>1. CASE worker'[w].batch \in {StaleRows, << >>}
        BY <1>1, <2>1, <3>1, QueryIsLive DEF StaleRows
      <3>2. CASE worker'[w].batch \in {ReadyRows, << >>}
        BY <1>1, <2>1, <3>2, QueryIsLive DEF ReadyRows, Ready, Unfinished
      <3> QED
        BY <2>2, <3>1, <3>2
    <2> QED
      BY <2>5, <2>6
  <1> QED
    BY <1>4, <1>5, <1>9, <1>10, <1>11, <1>12, <1>13 DEF WorkerAccess

\* A success callback and what it is retried by.
LEMMA CallbackCaused ==
    ASSUME SagaInv, NEW w \in Workers, BatchLive(w), Caused(w),
           NEW outcome \in Outcomes, Callback(w, outcome)
    PROVE  BatchLive(w)' /\ Caused(w)'
  <1> DEFINE k0 == Entry(w).saga
             a0 == Entry(w).action
             more == IF outcome = "ok" THEN 0 ELSE 1
  <1>1. worker[w].pc \in Settling /\ worker[w].pc \in AfterDelivery
    BY DEF Callback, FreezeSucceeded, CreateSubmitEntry, SubmitSucceeded, Settling, AfterDelivery
  <1>2. k0 \in Sagas /\ a0 \in {Freeze, Submit}
    BY <1>1, EntryAt
  <1>3. Access(outcome) /\ UNCHANGED effects
    BY DEF Callback, FreezeSucceeded, CreateSubmitEntry, SubmitSucceeded
  <1>4. SagaTypes /\ troubles \in 0..MaxTroubles /\ MaxTroubles \in Nat
    BY SagaAssumption DEF SagaInv, SagaTypes
  <1>5. more \in {0, 1} /\ troubles' = troubles + more
    BY <1>3, <1>4 DEF Access, Trouble
  <1>6. ~Reported(outcome) => more = 1
    BY DEF Reported
  <1>7. order \in [Sagas -> {NoOrder, "created", "frozen", "submitted"}]
    BY <1>4 DEF SagaTypes
  <1>8. ASSUME NEW status \in {"frozen", "submitted"}, SetOrder(k0, status, outcome)
        PROVE  \A k \in Sagas : order'[k] = order[k] \/ order'[k] # NoOrder
    BY <1>7, <1>8, SagaAssumption DEF SetOrder
  <1>9. k0 = Entry(w).saga /\ a0 = Entry(w).action
    OBVIOUS
  <1>10. Freeze \in {Freeze, Submit} /\ Submit \in {Freeze, Submit}
    OBVIOUS
  <1>11. CASE FreezeSucceeded(w, outcome)
    <2>1. /\ worker[w].pc = "callback" /\ a0 = Freeze /\ outbox' = outbox
          /\ SetOrder(k0, "frozen", outcome)
      BY <1>11 DEF FreezeSucceeded
    <2>2. /\ worker'[w].batch = worker[w].batch
          /\ \/ worker'[w].pc = "next"
             \/ worker'[w].pc = "retry" /\ more = 1
      BY <1>4, <1>6, <1>11, PlaceAfter DEF FreezeSucceeded
    <2>3. \A k \in Sagas : order'[k] = order[k] \/ order'[k] # NoOrder
      BY <1>8, <2>1
    <2>4. worker[w].pc # "retry"
      BY <2>1
    <2> HIDE DEF k0, a0, more
    <2> QED
      BY <1>1, <1>3, <1>5, <1>9, <1>10, <2>1, <2>2, <2>3, <2>4, SettlingCaused
  <1>12. CASE SubmitSucceeded(w, outcome)
    <2>1. /\ worker[w].pc = "callback" /\ outbox' = outbox
          /\ SetOrder(k0, "submitted", outcome)
      BY <1>12 DEF SubmitSucceeded
    <2>2. \/ /\ worker'[w].pc \in {"idle", "take"}
             /\ \/ worker'[w].batch = Tail(worker[w].batch)
                \/ worker'[w].batch = << >>
          \/ worker'[w].batch = worker[w].batch /\ worker'[w].pc = "retry" /\ more = 1
      BY <1>4, <1>6, <1>12, PlaceAfter DEF SubmitSucceeded
    <2>3. \A k \in Sagas : order'[k] = order[k] \/ order'[k] # NoOrder
      BY <1>8, <2>1
    <2>4. worker[w].pc # "retry"
      BY <2>1
    <2> HIDE DEF k0, a0, more
    <2> QED
      BY <1>1, <1>3, <1>5, <1>9, <1>10, <2>1, <2>2, <2>3, <2>4, SettlingCaused
  <1>13. CASE CreateSubmitEntry(w, outcome)
    <2>1. worker[w].pc = "next" /\ UNCHANGED order
      BY <1>13 DEF CreateSubmitEntry
    <2>2. a0 = Freeze
      BY <1>1, <2>1 DEF SagaInv, DeliveryHappened
    <2>3. outbox' = outbox \/ outbox' = Append(outbox, NewEntry(k0, Submit))
      BY <1>13 DEF CreateSubmitEntry
    <2>4. \/ /\ worker'[w].pc \in {"idle", "take"}
             /\ \/ worker'[w].batch = Tail(worker[w].batch)
                \/ worker'[w].batch = << >>
          \/ worker'[w].batch = worker[w].batch /\ worker'[w].pc = "retry" /\ more = 1
      BY <1>4, <1>6, <1>13, PlaceAfter DEF CreateSubmitEntry
    <2>5. worker[w].pc # "retry" /\ \A k \in Sagas : order'[k] = order[k]
      BY <2>1
    <2> HIDE DEF k0, a0, more
    <2> QED
      BY <1>1, <1>3, <1>5, <1>9, <1>10, <2>2, <2>3, <2>4, <2>5, SettlingCaused
  <1> QED
    BY <1>11, <1>12, <1>13 DEF Callback

\* The process dies with its batch, or comes back without one.
LEMMA CrashCaused ==
    ASSUME SagaInv, NEW w \in Workers, BatchLive(w), Caused(w), Crash(w) \/ Restart(w)
    PROVE  BatchLive(w)' /\ Caused(w)'
  <1>1. SagaTypes /\ outbox \in Seq(OutboxRow)
    BY DEF SagaInv, SagaTypes
  <1>2. StepTellsTruth
    BY CrashTrue DEF StepOfWorker
  <1>3. RowsPersist
    BY <1>2 DEF StepTellsTruth
  <1>4. worker' = [worker EXCEPT ![w] = Down] \/ worker' = [worker EXCEPT ![w] = Idle]
    BY DEF Crash, WorkerCrash, Restart, RecoverStaleEntries
  <1>5. worker'[w].batch = << >> /\ worker'[w].pc \in {"down", "idle"}
    BY <1>1, <1>4 DEF SagaTypes, Down, Idle
  <1>6. BatchLive(w)'
    BY <1>5 DEF BatchLive
  <1>7. RowsSteady
    <2>1. CASE Crash(w)
      BY <2>1 DEF Crash, WorkerCrash, RowsSteady, Unfinished
    <2>2. CASE Restart(w)
      <3>1. PICK outcome \in Unreported : RecoverStaleEntries(w, outcome)
        BY <2>2 DEF Restart
      <3>2. DOMAIN outbox' = DOMAIN outbox
        BY <3>1 DEF RecoverStaleEntries
      <3>3. ASSUME NEW i \in DOMAIN outbox
            PROVE  outbox'[i].status \in {"pending", "processing"} <=> Unfinished(i)
        <4>1. outbox[i] \in OutboxRow
          BY <1>1
        <4>2. outbox'[i] = IF Written(outcome) /\ Unfinished(i) /\ outbox[i].stale
                           THEN [outbox[i] EXCEPT !.status = "pending"] ELSE outbox[i]
          BY <3>1 DEF RecoverStaleEntries
        <4>3. [outbox[i] EXCEPT !.status = "pending"].status = "pending"
          BY <4>1 DEF OutboxRow
        <4> QED
          BY <4>2, <4>3 DEF Unfinished
      <3> QED
        BY <3>2, <3>3 DEF RowsSteady
    <2> QED
      BY <2>1, <2>2
  <1>8. UNCHANGED <<order, effects>>
    BY DEF Crash, Restart
  <1>9. /\ troubles \in Nat /\ troubles' \in Nat /\ troubles' >= troubles
        /\ Crash(w) => troubles' = troubles + 1
    BY <1>1, SagaAssumption DEF Crash, Restart, Access, Trouble, SagaTypes
  <1>10. ASSUME NEW k \in Sagas
         PROVE  CausedFor(w, k)'
    <2>1. /\ \A a \in {Freeze, Submit} : effects[k][a] \in Nat /\ LiveCount(k, a) \in Nat
          /\ troubles \in Nat /\ Unordered(k) \in {0, 1} /\ Freeze # Submit
      BY CausedNumbers
    <2>2. \A a : LiveCount(k, a)' = LiveCount(k, a)
      BY <1>3, <1>7, LiveSteady
    <2>3. Unordered(k)' = Unordered(k) /\ \A a : effects'[k][a] = effects[k][a]
      BY <1>8 DEF Unordered
    <2>4. \A a : \A places \in {{"retry"}, {"mark"}, Settling} :
                At(w, places, k, a)' = 0
      <3>1. \A places \in {{"retry"}, {"mark"}, Settling} : worker'[w].pc \notin places
        BY <1>5 DEF Settling
      <3> QED
        BY <1>1, <1>3, <3>1, AtAfter
    <2>5. \A a : /\ At(w, {"retry"}, k, a) \in {0, 1} /\ At(w, {"mark"}, k, a) \in {0, 1}
                 /\ At(w, Settling, k, a) \in {0, 1}
                 /\ Restart(w) => At(w, {"mark"}, k, a) = 0
      <3>1. Restart(w) => worker[w].pc = "down"
        BY DEF Restart, RecoverStaleEntries
      <3> QED
        BY <1>1, <1>3, <3>1, AtAfter
    <2>6. CausedFor(w, k)
      BY DEF Caused
    <2>7. Crash(w) \/ (Restart(w) /\ \A a : At(w, {"mark"}, k, a) = 0)
      BY <2>5
    <2> QED
      BY <1>9, <2>1, <2>2, <2>3, <2>4, <2>5, <2>6, <2>7 DEF CausedFor
  <1> QED
    BY <1>6, <1>10 DEF Caused

\* A request, or the passing of time: an order that is stored was still to be stored.
LEMMA OutsideCaused ==
    ASSUME SagaInv, NEW w \in Workers, BatchLive(w), Caused(w),
           TimePasses \/ \E r \in Requests : Create(r)
    PROVE  BatchLive(w)' /\ Caused(w)'
  <1>1. SagaTypes /\ outbox \in Seq(OutboxRow)
    BY DEF SagaInv, SagaTypes
  <1>2. RowsPersist /\ UNCHANGED worker
    BY OutsideTrue DEF StepTellsTruth
  <1>3. /\ WorkerType(worker[w])
        /\ \A j \in DOMAIN worker[w].batch : worker[w].batch[j].id \in DOMAIN outbox
    BY <1>1 DEF SagaTypes, WorkersRead
  <1>4. \A places, k, a : places \subseteq AfterDelivery =>
            /\ At(w, places, k, a) \in {0, 1}
            /\ At(w, places, k, a)' = At(w, places, k, a)
    <2>1. TAKE places, k, a
    <2>2. HAVE places \subseteq AfterDelivery
    <2>3. CASE worker[w].pc \in places
      <3>1. worker[w].batch # << >>
        BY <1>3, <2>2, <2>3 DEF WorkerType, AfterDelivery
      <3>2. Entry(w)'.saga = Entry(w).saga /\ Entry(w)'.action = Entry(w).action
        <4>1. Head(worker[w].batch).id \in DOMAIN outbox
          BY <1>1, <3>1, EntryIsRow
        <4> QED
          BY <1>2, <4>1 DEF Entry, RowsPersist
      <3> QED
        BY <1>2, <3>2 DEF At
    <2>4. CASE worker[w].pc \notin places
      BY <1>2, <2>4 DEF At
    <2> QED
      BY <2>3, <2>4
  <1>5. {"retry"} \subseteq AfterDelivery /\ {"mark"} \subseteq AfterDelivery
        /\ Settling \subseteq AfterDelivery
    BY DEF AfterDelivery, Settling
  <1>6. ASSUME \A i \in DOMAIN outbox : outbox'[i].status = outbox[i].status
        PROVE  BatchLive(w)'
    BY <1>2, <1>3, <1>6 DEF BatchLive, Unfinished
  <1>7. ASSUME \A i \in DOMAIN outbox : outbox'[i].status = outbox[i].status,
               DOMAIN outbox' = DOMAIN outbox, UNCHANGED <<order, effects>>,
               troubles' \in Nat, troubles' >= troubles
        PROVE  BatchLive(w)' /\ Caused(w)'
    <2>1. ASSUME NEW k \in Sagas
          PROVE  CausedFor(w, k)'
      <3>1. /\ \A a \in {Freeze, Submit} : effects[k][a] \in Nat /\ LiveCount(k, a) \in Nat
            /\ troubles \in Nat /\ Unordered(k) \in {0, 1}
        BY CausedNumbers
      <3>2. RowsSteady
        BY <1>7 DEF RowsSteady, Unfinished
      <3>3. \A a : LiveCount(k, a)' = LiveCount(k, a)
        BY <1>2, <3>2, LiveSteady
      <3>4. Unordered(k)' = Unordered(k) /\ \A a : effects'[k][a] = effects[k][a]
        BY <1>7 DEF Unordered
      <3>5. CausedFor(w, k)
        BY DEF Caused
      <3> QED
        BY <1>4, <1>5, <1>7, <3>1, <3>3, <3>4, <3>5 DEF CausedFor
    <2> QED
      BY <1>6, <1>7, <2>1 DEF Caused
  <1>8. CASE TimePasses
    <2>1. PICK i \in DOMAIN outbox : Ages(i) \/ BackoffEnds(i)
      BY <1>8 DEF TimePasses
    <2>2. outbox[i] \in OutboxRow
      BY <1>1
    <2>3. /\ \A j \in DOMAIN outbox : outbox'[j].status = outbox[j].status
          /\ DOMAIN outbox' = DOMAIN outbox
      BY <2>1, <2>2 DEF Ages, BackoffEnds, OutboxRow
    <2>4. UNCHANGED <<order, effects, troubles>> /\ troubles \in Nat
      BY <1>1, <1>8, SagaAssumption DEF TimePasses, SagaTypes
    <2> QED
      BY <1>7, <2>3, <2>4
  <1>9. ASSUME NEW r \in Requests, NEW outcome \in Unreported, NEW k \in Sagas,
               CheckIdempotency(r, k, outcome)
        PROVE  BatchLive(w)' /\ Caused(w)'
    <2>1. UNCHANGED <<outbox, order, effects>>
      BY <1>9 DEF CheckIdempotency, outboxVars
    <2>2. troubles' \in Nat /\ troubles' >= troubles
      BY <1>1, <1>9, SagaAssumption DEF CheckIdempotency, Access, Trouble, SagaTypes
    <2> QED
      BY <1>7, <2>1, <2>2
  <1>10. ASSUME NEW r \in Requests, NEW outcome \in Unreported, StoreOrder(r, outcome)
         PROVE  BatchLive(w)' /\ Caused(w)'
    <2> DEFINE l == request[r]
    <2>1. l \in Sagas /\ UNCHANGED effects
      BY <1>10 DEF StoreOrder
    <2>2. troubles \in Nat /\ troubles' \in Nat /\ troubles' >= troubles
      BY <1>1, <1>10, SagaAssumption DEF StoreOrder, Access, Trouble, SagaTypes
    <2>3. CASE UNCHANGED <<order, outbox>>
      BY <1>7, <2>1, <2>2, <2>3
    <2>4. CASE /\ order[l] = NoOrder
               /\ order' = [order EXCEPT ![l] = "created"]
               /\ outbox' = Append(outbox, NewEntry(l, Freeze))
      <3>1. Freeze \in Actions /\ Submit \in Actions /\ Freeze # Submit
        BY SagaAssumption DEF Freeze, Submit
      <3>2. \A i \in DOMAIN outbox : outbox'[i].status = outbox[i].status
        BY <1>1, <2>1, <2>4, <3>1, RowAdded
      <3>3. \A k \in Sagas : Unordered(k)' = IF k = l THEN 0 ELSE Unordered(k)
        <4>1. order \in [Sagas -> {NoOrder, "created", "frozen", "submitted"}]
          BY <1>1 DEF SagaTypes
        <4> QED
          BY <2>1, <2>4, <4>1, SagaAssumption DEF Unordered
      <3>4. Unordered(l) = 1
        BY <2>4 DEF Unordered
      <3>5. ASSUME NEW k \in Sagas
            PROVE  CausedFor(w, k)'
        <4> DEFINE new == IF k = l THEN 1 ELSE 0
        <4>1. /\ \A a \in {Freeze, Submit} : effects[k][a] \in Nat /\ LiveCount(k, a) \in Nat
              /\ Unordered(k) \in {0, 1}
          BY CausedNumbers
        <4>2. /\ LiveCount(k, Freeze)' = LiveCount(k, Freeze) + new
              /\ LiveCount(k, Submit)' = LiveCount(k, Submit)
          BY <1>1, <2>1, <2>4, <3>1, <4>1, LiveAdded
        <4>3. Unordered(k)' = Unordered(k) - new /\ new \in {0, 1}
          <5>1. CASE k = l
            BY <3>3, <3>4, <5>1
          <5>2. CASE k # l
            BY <3>3, <4>1, <5>2
          <5> QED
            BY <5>1, <5>2
        <4>4. \A a : effects'[k][a] = effects[k][a]
          BY <2>1
        <4>5. CausedFor(w, k)
          BY DEF Caused
        <4> HIDE DEF new
        <4> QED
          BY <1>4, <1>5, <2>2, <4>1, <4>2, <4>3, <4>4, <4>5 DEF CausedFor
      <3> QED
        BY <1>6, <3>2, <3>5 DEF Caused
    <2> QED
      BY <1>10, <2>3, <2>4 DEF StoreOrder
  <1> QED
    BY <1>8, <1>9, <1>10 DEF Create

LEMMA OneWorkerInit == ASSUME NEW w \in Workers PROVE Init => OneWorkerInv(w)
  <1> SUFFICES ASSUME Init PROVE BatchLive(w) /\ Caused(w)
    BY SagaInit DEF OneWorkerInv
  <1>1. outbox = << >> /\ worker[w].pc = "idle" /\ worker[w].batch = << >> /\ troubles = 0
    BY DEF Init, OutboxInit, Idle
  <1>2. \A k, a : LiveCount(k, a) = 0
    <2>1. \A k, a : Live(k, a) = {}
      BY <1>1 DEF Live
    <2> QED
      BY <2>1, FS_EmptySet DEF LiveCount
  <1>3. \A places, k, a : "idle" \notin places => At(w, places, k, a) = 0
    BY <1>1 DEF At
  <1>4. \A k \in Sagas : effects[k][Freeze] = 0 /\ effects[k][Submit] = 0 /\ Unordered(k) = 1
    BY SagaAssumption DEF Init, Unordered
  <1>5. BatchLive(w)
    BY <1>1 DEF BatchLive
  <1>6. Caused(w)
    <2>1. "idle" \notin {"retry"} /\ "idle" \notin {"mark"} /\ "idle" \notin Settling
      BY DEF Settling
    <2> QED
      BY <1>1, <1>2, <1>3, <1>4, <2>1 DEF Caused, CausedFor
  <1> QED
    BY <1>5, <1>6

LEMMA OneWorkerNext ==
    ASSUME NEW w, Workers = {w}
    PROVE  OneWorkerInv(w) /\ [Next]_vars => OneWorkerInv(w)'
  <1> SUFFICES ASSUME OneWorkerInv(w), [Next]_vars PROVE OneWorkerInv(w)'
    OBVIOUS
  <1>1. SagaInv /\ SagaInv' /\ BatchLive(w) /\ Caused(w) /\ w \in Workers
    BY SagaNext DEF OneWorkerInv
  <1>2. BatchLive(w)' /\ Caused(w)'
    <2>1. ASSUME NEW g \in Workers, Work(g) \/ Crash(g) \/ Restart(g)
          PROVE  BatchLive(w)' /\ Caused(w)'
      <3>1. g = w
        OBVIOUS
      <3> QED
        BY <1>1, <2>1, <3>1, AccessCaused, DeliverCaused, CallbackCaused, CrashCaused DEF Work
    <2>2. CASE TimePasses \/ \E r \in Requests : Create(r)
      BY <1>1, <2>2, OutsideCaused
    <2>3. CASE UNCHANGED vars
      <3>1. UNCHANGED <<outbox, worker, order, effects, troubles>>
        BY <2>3 DEF vars, outboxVars
      <3>2. /\ \A k, a : LiveCount(k, a)' = LiveCount(k, a)
            /\ \A places, k, a : At(w, places, k, a)' = At(w, places, k, a)
            /\ \A k : Unordered(k)' = Unordered(k)
        BY <3>1 DEF LiveCount, Live, Unfinished, At, Entry, Unordered
      <3>3. BatchLive(w)'
        BY <1>1, <3>1 DEF BatchLive, Unfinished
      <3>4. ASSUME NEW k \in Sagas PROVE CausedFor(w, k)'
        <4>1. CausedFor(w, k)
          BY <1>1 DEF Caused
        <4> QED
          BY <3>1, <3>2, <4>1 DEF CausedFor
      <3> QED
        BY <3>3, <3>4 DEF Caused
    <2> QED
      BY <2>1, <2>2, <2>3 DEF Next
  <1> QED
    BY <1>1, <1>2 DEF OneWorkerInv

LEMMA OneWorkerInvariant ==
    ASSUME NEW w, Workers = {w}
    PROVE  Spec => []OneWorkerInv(w)
  <1>1. Init => OneWorkerInv(w)
    BY OneWorkerInit
  <1>2. OneWorkerInv(w) /\ [Next]_vars => OneWorkerInv(w)'
    BY OneWorkerNext
  <1> QED
    BY <1>1, <1>2, PTL DEF Spec

\* With one gateway, and any number of requests, keys, retries and troubles: what a
\* service did for an order beyond the first time was caused each time by a crash, a
\* failed access or an answer that was not heard.  An entry that is marked is still
\* unfinished, so that the delivery it was counted with is not counted twice.
THEOREM RepeatsAreCaused ==
    ASSUME NEW w, Workers = {w}
    PROVE  Spec => []RepeatsHaveACause
  <1>1. OneWorkerInv(w) => RepeatsHaveACause
    <2> SUFFICES ASSUME OneWorkerInv(w), NEW k \in Sagas, NEW a \in Actions
                 PROVE  effects[k][a] <= 1 + troubles
      BY DEF RepeatsHaveACause
    <2>1. SagaInv /\ BatchLive(w) /\ CausedFor(w, k) /\ w \in Workers
      BY DEF OneWorkerInv, Caused
    <2>2. /\ \A b \in {Freeze, Submit} : effects[k][b] \in Nat /\ LiveCount(k, b) \in Nat
          /\ troubles \in Nat /\ Unordered(k) \in {0, 1} /\ Actions = {Freeze, Submit}
      BY <2>1, CausedNumbers
    <2>3. \A places, b : At(w, places, k, b) \in {0, 1}
      BY DEF At
    <2>4. \A b \in {Freeze, Submit} : At(w, {"mark"}, k, b) <= LiveCount(k, b)
      <3>1. TAKE b \in {Freeze, Submit}
      <3>2. CASE At(w, {"mark"}, k, b) = 0
        BY <2>2, <3>2
      <3>3. CASE At(w, {"mark"}, k, b) = 1
        <4> DEFINE h == Head(worker[w].batch).id
        <4>1. worker[w].pc = "mark" /\ Entry(w).saga = k /\ Entry(w).action = b
          BY <3>3 DEF At
        <4>2. worker[w].pc \in AfterDelivery
          BY <4>1 DEF AfterDelivery
        <4>3. /\ worker[w].batch # << >> /\ h \in DOMAIN outbox
              /\ outbox[h].saga = k /\ outbox[h].action = b
          BY <2>1, <4>1, <4>2, EntryAt
        <4>4. 1 \in DOMAIN worker[w].batch /\ h = worker[w].batch[1].id
          BY <2>1, <4>3, EntryIsRow DEF SagaInv
        <4>5. Unfinished(h)
          BY <2>1, <4>1, <4>4 DEF BatchLive, Settling
        <4>6. h \in Live(k, b)
          BY <4>3, <4>5 DEF Live
        <4>7. IsFiniteSet(Live(k, b)) /\ LiveCount(k, b) \in Nat
          BY <2>1, LiveFinite DEF SagaInv, SagaTypes
        <4>8. LiveCount(k, b) # 0
          BY <4>6, <4>7, FS_EmptySet DEF LiveCount
        <4> QED
          BY <3>3, <4>7, <4>8
      <3> QED
        BY <2>3, <3>2, <3>3
    <2> QED
      BY <2>1, <2>2, <2>3, <2>4 DEF CausedFor
  <1> QED
    BY <1>1, OneWorkerInvariant, PTL

\* What is done or given up keeps its status in a step.
SettledStay ==
    \A i \in DOMAIN outbox : ~Unfinished(i) => outbox'[i].status = outbox[i].status

LEMMA WorkSettled ==
    ASSUME SagaInv, NEW w \in Workers, BatchLive(w), Work(w)
    PROVE  SettledStay
  <1> DEFINE h == Head(worker[w].batch).id
  <1>1. SagaTypes /\ outbox \in Seq(OutboxRow) /\ WorkerType(worker[w])
    BY DEF SagaInv, SagaTypes, WorkersRead
  <1>2. CASE outbox' = outbox
    BY <1>2 DEF SettledStay
  <1>3. ASSUME NEW a \in Actions, Entry(w).saga \in Sagas,
               outbox' = Append(outbox, NewEntry(Entry(w).saga, a))
        PROVE  SettledStay
    BY <1>1, <1>3, RowAdded DEF SettledStay
  <1>4. ASSUME worker[w].batch # << >>, worker[w].pc \notin Settling
        PROVE  h \in DOMAIN outbox /\ Unfinished(h)
    <2>1. 1 \in DOMAIN worker[w].batch /\ h = worker[w].batch[1].id /\ h \in DOMAIN outbox
      BY <1>1, <1>4, EntryIsRow
    <2> QED
      BY <1>4, <2>1 DEF BatchLive
  <1>5. ASSUME NEW status, NEW outcome, worker[w].batch # << >>, worker[w].pc \notin Settling,
               SetStatus(w, status, outcome)
        PROVE  SettledStay
    <2>1. h \in DOMAIN outbox /\ Unfinished(h)
      BY <1>4, <1>5
    <2>2. outbox' = outbox \/ outbox' = [outbox EXCEPT ![h].status = status]
      BY <1>5 DEF SetStatus
    <2> HIDE DEF h
    <2> QED
      BY <2>1, <2>2 DEF SettledStay
  <1>6. ASSUME NEW answer, Deliver(w, answer)
        PROVE  SettledStay
    BY <1>2, <1>6 DEF Deliver, Delivered
  <1>7. ASSUME NEW outcome, Callback(w, outcome)
        PROVE  SettledStay
    <2>1. worker[w].pc \in AfterDelivery
      BY <1>7 DEF Callback, FreezeSucceeded, CreateSubmitEntry, SubmitSucceeded, AfterDelivery
    <2>2. Entry(w).saga \in Sagas /\ Submit \in Actions
      BY <2>1, EntryAt, SagaAssumption
    <2>3. outbox' = outbox \/ outbox' = Append(outbox, NewEntry(Entry(w).saga, Submit))
      BY <1>7 DEF Callback, FreezeSucceeded, CreateSubmitEntry, SubmitSucceeded
    <2> QED
      BY <1>2, <1>3, <2>2, <2>3
  <1>8. ASSUME NEW outcome, WorkerAccess(w, outcome)
        PROVE  SettledStay
    <2>1. CASE Take(w, outcome) \/ MarkDone(w, outcome) \/ RecoverStale(w, outcome)
               \/ Requeue(w, outcome) \/ Bury(w, outcome)
      <3>1. worker[w].batch # << >> /\ worker[w].pc \notin Settling
        BY <1>1, <2>1 DEF Take, MarkDone, RecoverStale, Requeue, Bury, WorkerType, Settling
      <3>2. \E status : SetStatus(w, status, outcome)
        BY <2>1 DEF Take, MarkDone, RecoverStale, Requeue, Bury
      <3> QED
        BY <1>5, <3>1, <3>2
    <2>2. CASE CountRetry(w, outcome) \/ Delay(w, outcome)
      <3>1. worker[w].batch # << >>
        BY <1>1, <2>2 DEF CountRetry, Delay, WorkerType
      <3>2. h \in DOMAIN outbox
        BY <1>1, <3>1, EntryIsRow
      <3>3. outbox[h] \in OutboxRow
        BY <1>1, <3>2
      <3>4. \/ outbox' = outbox
            \/ outbox' = [outbox EXCEPT ![h].retries = @ + 1]
            \/ outbox' = [outbox EXCEPT ![h].backoff = TRUE]
        BY <2>2 DEF CountRetry, Delay
      <3> HIDE DEF h
      <3> QED
        BY <3>2, <3>3, <3>4 DEF SettledStay, OutboxRow
    <2>3. CASE RetryCallback(w, outcome)
      <3>1. worker[w].pc \in AfterDelivery
        BY <2>3 DEF RetryCallback, AfterDelivery
      <3>2. Entry(w).saga \in Sagas /\ Entry(w).action \in Actions
        BY <3>1, EntryAt, SagaAssumption
      <3> QED
        BY <1>2, <1>3, <2>3, <3>2 DEF RetryCallback
    <2>4. CASE Poll(w, outcome) \/ Fetch(w, outcome)
      BY <1>2, <2>4 DEF Poll, Fetch
    <2> QED
      BY <1>8, <2>1, <2>2, <2>3, <2>4 DEF WorkerAccess
  <1> QED
    BY <1>6, <1>7, <1>8 DEF Work

\* A crash, a restart, a request or the passing of time; whoever the workers are.
LEMMA RestSettled ==
    ASSUME SagaInv,
           \/ \E w \in Workers : Crash(w) \/ Restart(w)
           \/ TimePasses
           \/ \E r \in Requests : Create(r)
    PROVE  SettledStay
  <1>1. SagaTypes /\ outbox \in Seq(OutboxRow) /\ Freeze \in Actions
    BY SagaAssumption DEF SagaInv, SagaTypes
  <1>2. CASE outbox' = outbox
    BY <1>2 DEF SettledStay
  <1>3. ASSUME NEW w \in Workers, Crash(w) \/ Restart(w)
        PROVE  SettledStay
    <2>1. CASE Crash(w)
      BY <1>2, <2>1 DEF Crash, WorkerCrash
    <2>2. CASE Restart(w)
      BY <2>2 DEF Restart, RecoverStaleEntries, SettledStay
    <2> QED
      BY <1>3, <2>1, <2>2
  <1>4. CASE TimePasses
    <2>1. PICK i \in DOMAIN outbox : Ages(i) \/ BackoffEnds(i)
      BY <1>4 DEF TimePasses
    <2>2. outbox[i] \in OutboxRow
      BY <1>1
    <2> QED
      BY <2>1, <2>2 DEF Ages, BackoffEnds, OutboxRow, SettledStay
  <1>5. ASSUME NEW r \in Requests, Create(r)
        PROVE  SettledStay
    <2>1. \/ outbox' = outbox
          \/ request[r] \in Sagas /\ outbox' = Append(outbox, NewEntry(request[r], Freeze))
      BY <1>5 DEF Create, CheckIdempotency, StoreOrder, outboxVars
    <2>2. CASE request[r] \in Sagas /\ outbox' = Append(outbox, NewEntry(request[r], Freeze))
      BY <1>1, <2>2, RowAdded DEF SettledStay
    <2> QED
      BY <1>2, <2>1, <2>2
  <1> QED
    BY <1>3, <1>4, <1>5

\* With one gateway, and any number of requests, keys, retries and troubles: what is
\* done or given up stays so.  The worker sets a status only to an entry that was
\* unfinished when its batch was read, and nobody else finishes one meanwhile.
THEOREM SettledStaysSettled ==
    ASSUME NEW w, Workers = {w}
    PROVE  Spec => SettledIsFinal
  <1>1. OneWorkerInv(w) /\ [Next]_vars => [SettledStay]_vars
    <2> SUFFICES ASSUME OneWorkerInv(w), Next PROVE SettledStay
      BY DEF vars
    <2>1. SagaInv /\ BatchLive(w) /\ w \in Workers
      BY DEF OneWorkerInv
    <2>2. CASE \E g \in Workers : Work(g)
      <3>1. Work(w)
        BY <2>2
      <3> QED
        BY <2>1, <3>1, WorkSettled
    <2>3. CASE ~\E g \in Workers : Work(g)
      BY <2>1, <2>3, RestSettled DEF Next
    <2> QED
      BY <2>2, <2>3
  <1> QED
    BY <1>1, OneWorkerInvariant, PTL DEF Spec, SettledIsFinal, SettledStay
=============================================================================
