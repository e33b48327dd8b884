--------------------------- MODULE OrderBookProofs ---------------------------
(***************************************************************************)
(* Theorems about OrderBook, for any prices, quantities, IDs and bounds.   *)
(***************************************************************************)
EXTENDS OrderBookRefinement, SubsequenceProofs, SequenceTheorems, TLAPS

(* Extrema *)

LEMMA GreatestNumber ==
    ASSUME NEW S \in SUBSET Nat, S # {}, NEW b \in Nat, \A n \in S : n <= b
    PROVE  \E m \in S : \A n \in S : m >= n
  <1> DEFINE T == {b - n : n \in S}
  <1>1. T \in SUBSET Nat /\ T # {}
    <2>1. \A n \in S : b - n \in Nat
      OBVIOUS
    <2> QED
      BY <2>1
  <1>2. PICK t \in T : \A u \in T : t <= u
    BY <1>1, LeastNumber
  <1>3. PICK m \in S : t = b - m
    BY <1>2
  <1>4. \A n \in S : b - m <= b - n
    BY <1>2, <1>3
  <1> QED
    BY <1>3, <1>4

LEMMA EarliestIsLeast ==
    ASSUME NEW S \in SUBSET Nat, S # {}
    PROVE  Earliest(S) \in S /\ \A n \in S : Earliest(S) <= n
  BY LeastNumber DEF Earliest

\* The cursor moves to a price of the opposite side that lies ahead, and
\* skips none; it leaves the list only when nothing lies ahead.
LEMMA SeekFindsNext ==
    ASSUME NEW side \in Sides, NEW after \in Nat,
           bids \subseteq Prices, asks \subseteq Prices
    PROVE  LET there == IF side = "buy" THEN asks ELSE bids
               ahead(p) == IF side = "buy" THEN p > after
                           ELSE after = NoNode \/ p < after
           IN  \/ /\ Seek(side, after) = NoNode
                  /\ \A p \in there : ~ahead(p)
               \/ /\ Seek(side, after) \in there
                  /\ ahead(Seek(side, after))
                  /\ \A p \in there : ahead(p) =>
                        IF side = "buy" THEN Seek(side, after) <= p
                        ELSE Seek(side, after) >= p
  <1> DEFINE A == {p \in asks : p > after}
             B == {p \in bids : after = NoNode \/ p < after}
  <1>1. Prices \subseteq Nat /\ NoNode \notin Prices
    BY PricesAssumption DEF NoNode
  <1>2. CASE side = "buy" /\ A = {}
    BY <1>2 DEF Seek, PricesAhead, Nearer
  <1>3. CASE side = "buy" /\ A # {}
    <2>1. \E m \in A : \A n \in A : m <= n
      BY <1>1, <1>3, LeastNumber
    <2>2. Seek(side, after) = CHOOSE m \in A : \A n \in A : m <= n
      BY <1>3 DEF Seek, PricesAhead, Nearer
    <2> QED
      BY <1>3, <2>1, <2>2
  <1>4. CASE side # "buy" /\ B = {}
    BY <1>4 DEF Seek, PricesAhead, Nearer
  <1>5. CASE side # "buy" /\ B # {}
    <2>1. \E m \in B : \A n \in B : m >= n
      <3>1. \A n \in B : n <= MaxPrice
        BY PricesAssumption
      <3> QED
        BY <1>1, <1>5, <3>1, GreatestNumber, PricesAssumption
    <2>2. Seek(side, after) = CHOOSE m \in B : \A n \in B : m >= n
      BY <1>5 DEF Seek, PricesAhead, Nearer
    <2> QED
      BY <1>5, <2>1, <2>2
  <1> QED
    BY <1>2, <1>3, <1>4, <1>5

\* A fill that is within what remains keeps an order sound, and leaves it
\* inactive exactly when it takes everything.
LEMMA FillIsSound ==
    ASSUME NEW o \in Order, Sound(o), IsActive(o),
           NEW q \in Nat, q <= o.remaining
    PROVE  /\ Fill(o, q) \in Order
           /\ Sound(Fill(o, q))
           /\ SameRequest(Fill(o, q), o)
           /\ Fill(o, q).remaining = o.remaining - q
           /\ IsActive(Fill(o, q)) <=> q # o.remaining
  <1> USE DEF Order, Fill
  <1>1. Fill(o, q) \in Order
    <2> DEFINE s == IF o.remaining = q THEN "filled" ELSE "partial_filled"
    <2>1. /\ o.filled + q \in Nat /\ o.remaining - q \in Nat
          /\ s \in Statuses
      BY DEF Statuses
    <2> QED
      BY <2>1
  <1>2. SameRequest(Fill(o, q), o) /\ Fill(o, q).remaining = o.remaining - q
    BY DEF SameRequest
  <1>3. IsActive(Fill(o, q)) <=> q # o.remaining
    BY DEF IsActive
  <1>4. Sound(Fill(o, q))
    BY <1>3 DEF Sound
  <1> QED
    BY <1>1, <1>2, <1>3, <1>4

(* The inductive invariant for any use of order IDs *)

\* Apart from AddOrder's own, no order's request ever changes.
KeepsRequests ==
    /\ Pointers' = Pointers
    /\ \A k \in Pointers : SameRequest(orders'[k], orders[k])

LEMMA BaseInit == Init => BaseInv
  <1> SUFFICES ASSUME Init PROVE BaseInv
    OBVIOUS
  <1> USE DEF Init
  <1>1. TypeOK
    BY BoundAssumption DEF TypeOK, Pointers, NoOrder, NoNode
  <1>2. OrdersSound /\ LevelsHoldLimits /\ LogSound /\ ListsSound
    BY DEF OrdersSound, LevelsHoldLimits, LogSound, ListsSound, Pointers,
           Resting
  <1> QED
    BY <1>1, <1>2 DEF BaseInv

LEMMA BaseAddOrder ==
    ASSUME BaseInv, NEW r \in Requests, AddOrder(r)
    PROVE  BaseInv'
  <1> DEFINE me == Len(orders) + 1
  <1> USE DEF AddOrder, EmptyLog
  <1>1. NewOrderInBook(r) \in Order /\ Sound(NewOrderInBook(r))
        /\ IsActive(NewOrderInBook(r))
    <2>1. /\ r.id \in OrderIDs /\ r.side \in Sides /\ r.qty \in Quantities
          /\ r.type \in OrderTypes /\ r.price \in Prices \cup {0}
          /\ r.type # "market" => r.price \in Prices
      BY DEF Requests, OrderTypes
    <2>2. r.qty \in Nat /\ r.qty > 0
      BY <2>1, QuantitiesAssumption
    <2> QED
      BY <2>1, <2>2 DEF NewOrderInBook, Order, Statuses, Sound, IsActive
  <1>2. /\ orders' \in Seq(Order) /\ Len(orders') = me
        /\ \A k \in Pointers : orders'[k] = orders[k]
        /\ orders'[me] = NewOrderInBook(r)
        /\ me \in Nat \ {0} /\ Pointers' = Pointers \cup {me}
        /\ me \notin Pointers
    BY <1>1, AppendProperties DEF BaseInv, TypeOK, Pointers
  <1>3. Seek(r.side, NoNode) \in Prices \cup {NoNode}
    BY SeekFindsNext DEF BaseInv, TypeOK, Requests, NoNode
  <1>4. TypeOK'
    BY <1>2, <1>3 DEF BaseInv, TypeOK, NoOrder
  <1>5. OrdersSound'
    BY <1>1, <1>2 DEF BaseInv, OrdersSound
  <1>6. LevelsHoldLimits'
    <2>1. \A p \in DOMAIN priceLevels : priceLevels[p] \subseteq Pointers
      BY DEF BaseInv, TypeOK
    <2>2. priceLevels' = priceLevels /\ taker' = me
      OBVIOUS
    <2>3. \A p \in DOMAIN priceLevels : \A k \in priceLevels[p] :
            orders'[k] = orders[k] /\ k # me
      BY <1>2, <2>1
    <2>4. LevelsHoldLimits
      BY DEF BaseInv
    <2> HIDE DEF AddOrder, me
    <2> QED
      BY <2>2, <2>3, <2>4 DEF LevelsHoldLimits
  <1>7. LogSound'
    BY DEF LogSound
  <1>8. ListsSound'
    <2>1. /\ UNCHANGED <<buyOrders, sellOrders>> /\ Resting' = Resting
          /\ taker' = me /\ pc = "idle" /\ pc' = "match"
      BY DEF Resting
    <2>2. Resting \subseteq Pointers
      BY DEF BaseInv, TypeOK, Resting
    <2>3. ListsSound
      BY DEF BaseInv
    <2>4. \A k \in Resting : orders'[k] = orders[k] /\ k # me
      BY <1>2, <2>2
    <2>5. IsActive(orders'[me])
      BY <1>1, <1>2
    <2> HIDE DEF AddOrder, me
    <2> QED
      BY <2>1, <2>3, <2>4, <2>5 DEF ListsSound, Resting
  <1> QED
    BY <1>4, <1>5, <1>6, <1>7, <1>8 DEF BaseInv

LEMMA LevelsPointToOrders ==
    ASSUME BaseInv
    PROVE  \A p : LevelAt(p) \subseteq Pointers /\ LevelAt(p) \subseteq Nat
  BY DEF BaseInv, TypeOK, LevelAt, Pointers

\* The trade of an iteration of the loop.
TradeWith(opp, q) ==
    [buy   |-> IF orders[taker].side = "buy" THEN taker ELSE opp,
     sell  |-> IF orders[taker].side = "buy" THEN opp ELSE taker,
     price |-> orders[opp].price,
     qty   |-> q]

Recorded(opp, q) ==
    /\ TradeWith(opp, q) \in TradeRecord
    /\ tradesList' = Append(tradesList, TradeWith(opp, q))

\* What an iteration of the loop does to the orders: the taker and the
\* earliest active order left in the level fill by the lesser of what each
\* has left.
MatchedWith(opp, q) ==
    /\ opp \in Unvisited /\ \A k \in Unvisited : opp <= k
    /\ opp \in Pointers \ {taker} /\ taker \in Pointers
    /\ q \in Nat \ {0}
    /\ q <= orders[taker].remaining /\ q <= orders[opp].remaining
    /\ q = orders[taker].remaining \/ q = orders[opp].remaining
    /\ CanMatch(orders[taker], orders[opp].price)
    /\ orders' \in Seq(Order) /\ Len(orders') = Len(orders)
    /\ orders'[taker] = Fill(orders[taker], q)
    /\ orders'[opp] = Fill(orders[opp], q)
    /\ \A k \in Pointers \ {taker, opp} : orders'[k] = orders[k]
    /\ visited' = opp
    /\ DOMAIN restored' = DOMAIN restored \cup {opp}
    /\ restored' \in [DOMAIN restored' -> Order]
    /\ restored'[opp] = orders[opp]
    /\ \A k \in DOMAIN restored \ {opp} : restored'[k] = restored[k]
    /\ tradesList' \in Seq(TradeRecord) /\ Recorded(opp, q)
    /\ InFlight' = InFlight \cup {opp}
    /\ pc' = IF q = orders[taker].remaining THEN "cleanBuys" ELSE "match"

LEMMA MatchNextTrades ==
    ASSUME BaseInv, MatchNext
    PROVE  \E opp, q : MatchedWith(opp, q)
  <1> DEFINE opp == Earliest(Unvisited)
             o == orders[taker]
             m == orders[opp]
             q == Lesser(o.remaining, m.remaining)
  <1>1. /\ opp \in Unvisited /\ \A k \in Unvisited : opp <= k
        /\ opp \in Pointers
    <2>1. Unvisited \in SUBSET Nat /\ Unvisited # {}
          /\ Unvisited \subseteq Pointers
      BY LevelsPointToOrders DEF MatchNext, Unvisited
    <2> QED
      BY <2>1, EarliestIsLeast
  <1>2. opp # taker /\ IsActive(m) /\ m.type = "limit"
    <2>1. node \in DOMAIN priceLevels /\ opp \in priceLevels[node]
          /\ IsActive(m)
      BY <1>1 DEF Unvisited, LevelAt
    <2> QED
      BY <2>1 DEF BaseInv, LevelsHoldLimits, MatchNext
  <1>3. /\ taker \in Pointers /\ o \in Order /\ m \in Order
        /\ IsActive(o) /\ Sound(o) /\ Sound(m)
        /\ orders \in Seq(Order)
    BY <1>1 DEF BaseInv, TypeOK, OrdersSound, ListsSound, MatchNext, Pointers,
        NoOrder
  <1>4. /\ q \in Nat \ {0} /\ q <= o.remaining /\ q <= m.remaining
        /\ q = o.remaining \/ q = m.remaining
    <2>1. /\ o.remaining \in Nat /\ o.remaining > 0
          /\ m.remaining \in Nat /\ m.remaining > 0
      BY <1>2, <1>3 DEF Sound, Order
    <2> HIDE DEF o, m
    <2> QED
      BY <2>1 DEF Lesser
  <1>5. Fill(o, q) \in Order /\ Fill(m, q) \in Order
    BY <1>2, <1>3, <1>4, FillIsSound
  <1>6. Trade(opp)
    BY DEF MatchNext
  <1>7. /\ orders' \in Seq(Order) /\ Len(orders') = Len(orders)
        /\ orders'[taker] = Fill(o, q) /\ orders'[opp] = Fill(m, q)
        /\ \A k \in Pointers \ {taker, opp} : orders'[k] = orders[k]
    <2>1. orders' = [orders EXCEPT ![taker] = Fill(o, q), ![opp] = Fill(m, q)]
      BY <1>6 DEF Trade
    <2>2. DOMAIN orders = Pointers
      BY <1>3, LenProperties DEF Pointers
    <2> HIDE DEF o, m, q, opp
    <2> QED
      BY <1>1, <1>2, <1>3, <1>5, <2>1, <2>2, ExceptSeq
  <1>8. /\ DOMAIN restored' = DOMAIN restored \cup {opp}
        /\ restored'[opp] = m
        /\ \A k \in DOMAIN restored \ {opp} : restored'[k] = restored[k]
        /\ visited' = opp
        /\ pc' = IF q = o.remaining THEN "cleanBuys" ELSE "match"
    BY <1>6 DEF Trade
  <1>8a. restored' \in [DOMAIN restored' -> Order]
    BY <1>3, <1>6 DEF Trade, BaseInv, TypeOK
  <1>9. /\ tradesList' \in Seq(TradeRecord) /\ InFlight' = InFlight \cup {opp}
        /\ Recorded(opp, q)
    <2> DEFINE t == TradeWith(opp, q)
    <2>1. m.price \in Prices
      BY <1>2, <1>3 DEF Sound
    <2>2. t \in TradeRecord
      BY <1>1, <1>3, <1>4, <2>1 DEF TradeRecord, Pointers, TradeWith
    <2>3. {t.buy, t.sell} = {taker, opp}
      BY DEF TradeWith
    <2>4. tradesList' = Append(tradesList, t) /\ taker' = taker
      BY <1>6 DEF Trade, TradeWith
    <2>5. tradesList \in Seq(TradeRecord)
      BY DEF BaseInv, TypeOK
    <2> HIDE DEF t, opp, o, m, q
    <2>6. /\ tradesList' \in Seq(TradeRecord)
          /\ DOMAIN tradesList' = DOMAIN tradesList \cup {Len(tradesList) + 1}
          /\ \A i \in DOMAIN tradesList : tradesList'[i] = tradesList[i]
          /\ tradesList'[Len(tradesList) + 1] = t
      BY <2>2, <2>4, <2>5, AppendProperties, LenProperties
    <2>7. Pointers' = Pointers
      BY <1>7 DEF Pointers
    <2> DEFINE Traded(x) == \E i \in DOMAIN tradesList :
                                x \in {tradesList[i].buy, tradesList[i].sell}
               TradedNow(x) == \E i \in DOMAIN tradesList' :
                                x \in {tradesList'[i].buy, tradesList'[i].sell}
    <2>8. \A x : TradedNow(x) <=> Traded(x) \/ x \in {t.buy, t.sell}
      BY <2>6
    <2>9. InFlight = {x \in Pointers : x = taker \/ Traded(x)}
      BY DEF InFlight
    <2>10. InFlight' = {x \in Pointers : x = taker \/ TradedNow(x)}
      BY <2>4, <2>7 DEF InFlight
    <2> HIDE DEF Traded, TradedNow
    <2>11. Recorded(opp, q)
      BY <2>2, <2>4 DEF Recorded, t
    <2> QED
      BY <1>1, <2>3, <2>6, <2>8, <2>9, <2>10, <2>11
  <1>10. CanMatch(o, m.price)
    BY DEF MatchNext
  <1> HIDE DEF o, m, q, opp
  <1>11. MatchedWith(opp, q)
    BY <1>1, <1>2, <1>3, <1>4, <1>7, <1>8, <1>8a, <1>9, <1>10
    DEF MatchedWith, o, m
  <1> QED
    BY <1>11

LEMMA BaseMatchNext ==
    ASSUME BaseInv, MatchNext PROVE BaseInv' /\ KeepsRequests
  <1>1. PICK opp, q : MatchedWith(opp, q)
    BY MatchNextTrades
  <1>2. /\ UNCHANGED <<buyOrders, sellOrders, bids, asks, priceLevels, taker,
                       node, tape>>
        /\ pc = "match"
    BY DEF MatchNext, Trade
  <1>3. Pointers' = Pointers /\ Len(orders') = Len(orders)
    BY <1>1 DEF MatchedWith, Pointers
  <1>4. \A k \in Pointers : orders[k] \in Order /\ Sound(orders[k])
    BY DEF BaseInv, TypeOK, OrdersSound, Pointers
  <1>5. IsActive(orders[taker]) /\ IsActive(orders[opp])
    BY <1>1, <1>2 DEF BaseInv, ListsSound, MatchedWith, Unvisited
  <1>6. \A k \in {taker, opp} :
            /\ orders'[k] = Fill(orders[k], q)
            /\ Sound(Fill(orders[k], q))
            /\ SameRequest(Fill(orders[k], q), orders[k])
            /\ IsActive(Fill(orders[k], q)) <=> q # orders[k].remaining
    BY <1>1, <1>4, <1>5, FillIsSound DEF MatchedWith
  <1>7. \A k \in Pointers : SameRequest(orders'[k], orders[k])
    BY <1>1, <1>6 DEF MatchedWith, SameRequest
  <1>8. TypeOK'
    BY <1>1, <1>2, <1>3 DEF BaseInv, TypeOK, MatchedWith, Pointers
  <1>9. OrdersSound'
    BY <1>1, <1>3, <1>4, <1>6 DEF MatchedWith, OrdersSound
  <1>10. LevelsHoldLimits'
    <2>1. \A p \in DOMAIN priceLevels : priceLevels[p] \subseteq Pointers
      BY DEF BaseInv, TypeOK
    <2>2. LevelsHoldLimits
      BY DEF BaseInv
    <2> QED
      BY <1>2, <1>7, <2>1, <2>2 DEF LevelsHoldLimits, SameRequest
  <1>11. LogSound'
    <2> SUFFICES ASSUME pc' = "match", NEW k \in DOMAIN restored'
                 PROVE  /\ k \in InFlight' \ {taker}
                        /\ SameRequest(restored'[k], orders'[k])
                        /\ Sound(restored'[k]) /\ IsActive(restored'[k])
      BY <1>2 DEF LogSound
    <2>1. CASE k = opp
      BY <1>1, <1>4, <1>5, <1>7, <2>1 DEF MatchedWith, SameRequest
    <2>2. CASE k # opp
      <3>1. /\ k \in InFlight \ {taker} /\ SameRequest(restored[k], orders[k])
            /\ Sound(restored[k]) /\ IsActive(restored[k])
            /\ restored'[k] = restored[k]
        BY <1>1, <1>2, <2>2 DEF BaseInv, LogSound, MatchedWith
      <3>2. k \in Pointers
        BY <3>1 DEF InFlight
      <3> QED
        BY <1>1, <1>7, <3>1, <3>2 DEF MatchedWith, SameRequest
    <2> QED
      BY <2>1, <2>2
  <1>12. ListsSound'
    <2>1. \A k \in Resting :
            /\ k \in Pointers /\ k # taker /\ orders[k].type = "limit"
            /\ IsActive(orders[k]) \/ k \in DOMAIN restored
      BY <1>2 DEF BaseInv, TypeOK, ListsSound, Resting
    <2>2. Resting' = Resting
      BY <1>2 DEF Resting
    <2>3. \A k \in Resting :
            /\ orders'[k].type = "limit"
            /\ pc' = "match" \/ pc' = "cleanBuys"
            /\ IsActive(orders'[k]) \/ k \in DOMAIN restored'
      BY <1>1, <1>7, <2>1 DEF MatchedWith, SameRequest
    <2>4. pc' = "match" => IsActive(orders'[taker])
      BY <1>1, <1>6 DEF MatchedWith
    <2>5. /\ \A k \in buyOrders : orders'[k].side = "buy"
          /\ \A k \in sellOrders : orders'[k].side = "sell"
      BY <1>7 DEF BaseInv, TypeOK, ListsSound, SameRequest
    <2> QED
      BY <1>2, <2>1, <2>2, <2>3, <2>4, <2>5 DEF ListsSound
  <1> QED
    BY <1>3, <1>7, <1>8, <1>9, <1>10, <1>11, <1>12
    DEF BaseInv, KeepsRequests

LEMMA BaseNextLevel == ASSUME BaseInv, NextLevel PROVE BaseInv'
  <1>1. /\ UNCHANGED <<bookVars, pc, taker, restored, tradesList, tape>>
        /\ visited' = NoOrder
    BY DEF NextLevel
  <1>2. node' \in Prices \cup {NoNode}
    <2>1. node \in Nat
      BY PricesAssumption DEF BaseInv, TypeOK, NoNode
    <2>2. orders[taker] \in Order
      BY DEF BaseInv, TypeOK, NextLevel, NoOrder
    <2>3. orders[taker].side \in Sides
      BY <2>2 DEF Order
    <2> QED
      BY <2>1, <2>3, SeekFindsNext DEF NextLevel, BaseInv, TypeOK, NoNode
  <1>3. TypeOK'
    BY <1>1, <1>2 DEF BaseInv, TypeOK, bookVars, NoOrder, Pointers
  <1>4. (OrdersSound /\ LevelsHoldLimits /\ LogSound /\ ListsSound)'
    BY <1>1
    DEF BaseInv, bookVars, OrdersSound, LevelsHoldLimits, LogSound, ListsSound,
        Pointers, InFlight, Resting
  <1> QED
    BY <1>3, <1>4 DEF BaseInv

LEMMA BaseEndMatch == ASSUME BaseInv, EndMatch PROVE BaseInv'
  <1>1. /\ UNCHANGED <<bookVars, taker, node, visited, restored, tradesList,
                       tape>>
        /\ pc = "match" /\ pc' = "cleanBuys"
    BY DEF EndMatch
  <1>2. TypeOK'
    BY <1>1 DEF BaseInv, TypeOK, bookVars, Pointers
  <1>3. (OrdersSound /\ LevelsHoldLimits /\ LogSound /\ ListsSound)'
    BY <1>1
    DEF BaseInv, bookVars, OrdersSound, LevelsHoldLimits, LogSound, ListsSound,
        Pointers, Resting
  <1> QED
    BY <1>2, <1>3 DEF BaseInv

LEMMA BaseRollback ==
    ASSUME BaseInv, Rollback PROVE BaseInv' /\ KeepsRequests
  <1>1. /\ UNCHANGED <<buyOrders, sellOrders, bids, asks, priceLevels, taker,
                       node, visited, restored, tradesList, tape>>
        /\ pc = "match" /\ pc' = "idle"
        /\ orders[taker].type = "fok"
    BY DEF Rollback
  <1>2. \A k \in Pointers : orders[k] \in Order /\ Sound(orders[k])
    BY DEF BaseInv, TypeOK, OrdersSound, Pointers
  <1>3. \A k \in Pointers \cap DOMAIN restored :
            /\ restored[k] \in Order /\ Sound(restored[k])
            /\ IsActive(restored[k]) /\ SameRequest(restored[k], orders[k])
            /\ k # taker
    BY <1>1 DEF BaseInv, TypeOK, LogSound
  <1>4. \A k \in Pointers \ {taker} :
            /\ orders'[k] \in Order /\ Sound(orders'[k])
            /\ SameRequest(orders'[k], orders[k])
            /\ IsActive(orders[k]) \/ k \in DOMAIN restored
                    => IsActive(orders'[k])
    <2> SUFFICES ASSUME NEW k \in Pointers \ {taker}
                 PROVE  /\ orders'[k] \in Order /\ Sound(orders'[k])
                        /\ SameRequest(orders'[k], orders[k])
                        /\ IsActive(orders[k]) \/ k \in DOMAIN restored
                                => IsActive(orders'[k])
      OBVIOUS
    <2>1. CASE k \in DOMAIN restored
      <3>1. orders'[k] = [orders[k] EXCEPT !.filled = restored[k].filled,
                                           !.remaining = restored[k].remaining,
                                           !.status = restored[k].status]
        BY <2>1 DEF Rollback, Undone
      <3>2. /\ orders[k] \in Order /\ restored[k] \in Order
            /\ Sound(restored[k]) /\ IsActive(restored[k])
            /\ SameRequest(restored[k], orders[k])
        BY <1>2, <1>3, <2>1
      <3>3. orders'[k] \in Order
        BY <3>1, <3>2 DEF Order
      <3>4. /\ SameRequest(orders'[k], orders[k])
            /\ orders'[k].filled = restored[k].filled
            /\ orders'[k].remaining = restored[k].remaining
            /\ orders'[k].status = restored[k].status
        BY <3>1, <3>2 DEF Order, SameRequest
      <3> QED
        BY <3>2, <3>3, <3>4 DEF Sound, SameRequest, IsActive
    <2>2. CASE k \notin DOMAIN restored
      <3>1. orders'[k] = orders[k]
        BY <2>2 DEF Rollback
      <3> QED
        BY <1>2, <2>2, <3>1 DEF SameRequest
    <2> QED
      BY <2>1, <2>2
  <1>5. taker \in Pointers
    BY <1>1 DEF BaseInv, TypeOK, Pointers, NoOrder
  <1>6. /\ orders'[taker] \in Order /\ Sound(orders'[taker])
        /\ SameRequest(orders'[taker], orders[taker])
    <2>1. orders'[taker] =
            [orders[taker] EXCEPT !.unfilled = orders[taker].remaining,
                                  !.status = "rejected"]
      BY <1>5 DEF Rollback
    <2> QED
      BY <1>1, <1>2, <1>5, <2>1
      DEF Order, Statuses, Sound, SameRequest, IsActive
  <1>7. orders' \in Seq(Order) /\ Len(orders') = Len(orders)
        /\ Pointers' = Pointers
    <2>1. orders' = [k \in 1..Len(orders) |-> orders'[k]]
      BY DEF Rollback, Pointers
    <2>2. \A k \in 1..Len(orders) : orders'[k] \in Order
      BY <1>4, <1>6 DEF Pointers
    <2>3. Len(orders) \in Nat
      BY LenProperties DEF BaseInv, TypeOK
    <2>4. orders' \in [1..Len(orders) -> Order]
      BY <2>1, <2>2
    <2>5. orders' \in Seq(Order)
      BY <2>3, <2>4, SeqDef
    <2>6. Len(orders') = Len(orders)
      BY <2>3, <2>4, <2>5, LenProperties
    <2> QED
      BY <2>5, <2>6 DEF Pointers
  <1>8. TypeOK'
    BY <1>1, <1>7 DEF BaseInv, TypeOK
  <1>9. OrdersSound'
    BY <1>4, <1>6, <1>7 DEF OrdersSound
  <1>10. LevelsHoldLimits'
    <2>1. \A p \in DOMAIN priceLevels : priceLevels[p] \subseteq Pointers
      BY DEF BaseInv, TypeOK
    <2>2. LevelsHoldLimits
      BY DEF BaseInv
    <2> QED
      BY <1>1, <1>4, <1>6, <2>1, <2>2 DEF LevelsHoldLimits, SameRequest
  <1>11. LogSound'
    BY <1>1 DEF LogSound
  <1>12. ListsSound'
    BY <1>1, <1>4
    DEF BaseInv, TypeOK, ListsSound, Resting, SameRequest
  <1> QED
    BY <1>4, <1>6, <1>7, <1>8, <1>9, <1>10, <1>11, <1>12
    DEF BaseInv, KeepsRequests

\* Taking orders out only makes levels smaller or drops them.
LEMMA LevelsOnlyShrink ==
    ASSUME BaseInv, NEW gone, priceLevels' = LevelsWithout(gone)
    PROVE  /\ DOMAIN priceLevels' \subseteq DOMAIN priceLevels
           /\ DOMAIN priceLevels' \subseteq Prices
           /\ \A p \in DOMAIN priceLevels' :
                priceLevels'[p] \subseteq priceLevels[p]
           /\ priceLevels' \in [DOMAIN priceLevels' -> SUBSET Pointers]
  BY DEF BaseInv, TypeOK, LevelsWithout, LevelWithout

LEMMA BaseCleanupBuys == ASSUME BaseInv, CleanupBuys PROVE BaseInv'
  <1> DEFINE gone == {k \in buyOrders : ~IsActive(orders[k])}
  <1>1. /\ UNCHANGED <<orders, sellOrders, asks, taker, node, visited,
                       restored, tradesList, tape>>
        /\ pc = "cleanBuys" /\ pc' = "cleanSells"
        /\ buyOrders' = {k \in buyOrders : IsActive(orders[k])}
        /\ bids' \subseteq bids
        /\ priceLevels' = LevelsWithout(gone)
        /\ Pointers' = Pointers
    BY DEF CleanupBuys, Pointers
  <1>2. /\ DOMAIN priceLevels' \subseteq DOMAIN priceLevels
        /\ DOMAIN priceLevels' \subseteq Prices
        /\ \A p \in DOMAIN priceLevels' :
                priceLevels'[p] \subseteq priceLevels[p]
        /\ priceLevels' \in [DOMAIN priceLevels' -> SUBSET Pointers]
    BY <1>1, LevelsOnlyShrink
  <1>3. TypeOK'
    BY <1>1, <1>2 DEF BaseInv, TypeOK
  <1>4. (OrdersSound /\ LogSound)'
    BY <1>1 DEF BaseInv, OrdersSound, LogSound
  <1>5. LevelsHoldLimits'
    BY <1>1, <1>2 DEF BaseInv, LevelsHoldLimits
  <1>6. ListsSound'
    BY <1>1 DEF BaseInv, ListsSound, Resting
  <1> QED
    BY <1>3, <1>4, <1>5, <1>6 DEF BaseInv

LEMMA BaseCleanupSells == ASSUME BaseInv, CleanupSells PROVE BaseInv'
  <1> DEFINE gone == {k \in sellOrders : ~IsActive(orders[k])}
  <1>1. /\ UNCHANGED <<orders, buyOrders, bids, taker, node, visited,
                       restored, tradesList, tape>>
        /\ pc = "cleanSells" /\ pc' = "finish"
        /\ sellOrders' = {k \in sellOrders : IsActive(orders[k])}
        /\ asks' \subseteq asks
        /\ priceLevels' = LevelsWithout(gone)
        /\ Pointers' = Pointers
    BY DEF CleanupSells, Pointers
  <1>2. /\ DOMAIN priceLevels' \subseteq DOMAIN priceLevels
        /\ DOMAIN priceLevels' \subseteq Prices
        /\ \A p \in DOMAIN priceLevels' :
                priceLevels'[p] \subseteq priceLevels[p]
        /\ priceLevels' \in [DOMAIN priceLevels' -> SUBSET Pointers]
    BY <1>1, LevelsOnlyShrink
  <1>3. TypeOK'
    BY <1>1, <1>2 DEF BaseInv, TypeOK
  <1>4. (OrdersSound /\ LogSound)'
    BY <1>1 DEF BaseInv, OrdersSound, LogSound
  <1>5. LevelsHoldLimits'
    BY <1>1, <1>2 DEF BaseInv, LevelsHoldLimits
  <1>6. ListsSound'
    BY <1>1 DEF BaseInv, ListsSound, Resting
  <1> QED
    BY <1>3, <1>4, <1>5, <1>6 DEF BaseInv

\* The call returns its trades: they join the tape.
LEMMA TapeGrows ==
    ASSUME BaseInv, tape' = tape \o tradesList
    PROVE  tape' \in Seq(TradeRecord)
  BY ConcatProperties DEF BaseInv, TypeOK

\* Outside the loop an order may change its status alone, as a closing order
\* does; the rest of the invariant does not look at it.
LEMMA CloseIsSound ==
    ASSUME BaseInv, NEW k \in Pointers, NEW u \in Nat,
           NEW s \in {"filled", "cancelled"},
           s = "filled" => orders[k].type # "limit",
           orders' = [orders EXCEPT ![k] =
                        [orders[k] EXCEPT !.unfilled = u, !.status = s]]
    PROVE  /\ orders' \in Seq(Order) /\ Len(orders') = Len(orders)
           /\ Pointers' = Pointers /\ OrdersSound'
           /\ \A j \in Pointers : SameRequest(orders'[j], orders[j])
           /\ \A j \in Pointers \ {k} : orders'[j] = orders[j]
  <1> DEFINE c == [orders[k] EXCEPT !.unfilled = u, !.status = s]
  <1>1. /\ orders[k] \in Order /\ Sound(orders[k])
        /\ orders \in Seq(Order)
    BY DEF BaseInv, TypeOK, OrdersSound, Pointers
  <1>2. c \in Order
    BY <1>1 DEF Order, Statuses
  <1>3. Sound(c) /\ SameRequest(c, orders[k])
    BY <1>1, <1>2 DEF Order, Sound, SameRequest, IsActive
  <1> HIDE DEF c
  <1>4. orders' = [orders EXCEPT ![k] = c]
    BY DEF c
  <1>5. /\ orders' \in Seq(Order) /\ Len(orders') = Len(orders)
        /\ \A j \in Pointers :
                orders'[j] = IF j = k THEN c ELSE orders[j]
    BY <1>1, <1>2, <1>4, ExceptSeq DEF Pointers
  <1>6. Pointers' = Pointers
    BY <1>5 DEF Pointers
  <1>7. OrdersSound'
    BY <1>3, <1>5, <1>6 DEF BaseInv, OrdersSound
  <1> QED
    BY <1>3, <1>5, <1>6, <1>7 DEF SameRequest

LEMMA BaseFinishImmediate ==
    ASSUME BaseInv, FinishImmediate PROVE BaseInv' /\ KeepsRequests
  <1>1. /\ UNCHANGED <<buyOrders, sellOrders, bids, asks, priceLevels, taker,
                       node, visited, restored, tradesList>>
        /\ pc = "finish" /\ pc' = "idle"
        /\ tape' = tape \o tradesList
        /\ orders[taker].type # "limit"
    BY DEF FinishImmediate
  <1>2. taker \in Pointers /\ orders[taker] \in Order
    BY <1>1 DEF BaseInv, TypeOK, Pointers, NoOrder
  <1>3. orders[taker].remaining \in Nat
    BY <1>2 DEF Order
  <1>4. orders' = [orders EXCEPT ![taker] =
                    [orders[taker] EXCEPT !.unfilled = orders[taker].remaining,
                                          !.status = "filled"]]
    BY <1>2 DEF FinishImmediate, BaseInv, TypeOK, Pointers
  <1>5. /\ orders' \in Seq(Order) /\ Len(orders') = Len(orders)
        /\ Pointers' = Pointers /\ OrdersSound'
        /\ \A j \in Pointers : SameRequest(orders'[j], orders[j])
        /\ \A j \in Pointers \ {taker} : orders'[j] = orders[j]
    BY <1>1, <1>2, <1>3, <1>4, CloseIsSound
  <1>6. TypeOK'
    BY <1>1, <1>5, TapeGrows DEF BaseInv, TypeOK
  <1>7. LevelsHoldLimits'
    <2>1. \A p \in DOMAIN priceLevels : priceLevels[p] \subseteq Pointers
      BY DEF BaseInv, TypeOK
    <2>2. LevelsHoldLimits
      BY DEF BaseInv
    <2> QED
      BY <1>1, <1>5, <2>1, <2>2 DEF LevelsHoldLimits, SameRequest
  <1>8. (LogSound /\ ListsSound)'
    BY <1>1, <1>5 DEF BaseInv, TypeOK, LogSound, ListsSound, Resting
  <1> QED
    BY <1>5, <1>6, <1>7, <1>8 DEF BaseInv, KeepsRequests

LEMMA BaseFinishFilled == ASSUME BaseInv, FinishFilled PROVE BaseInv'
  <1>1. /\ UNCHANGED <<bookVars, taker, node, visited, restored, tradesList>>
        /\ pc = "finish" /\ pc' = "idle"
        /\ tape' = tape \o tradesList
    BY DEF FinishFilled
  <1>2. TypeOK'
    BY <1>1, TapeGrows DEF BaseInv, TypeOK, bookVars, Pointers
  <1>3. (OrdersSound /\ LevelsHoldLimits /\ LogSound /\ ListsSound)'
    BY <1>1
    DEF BaseInv, bookVars, OrdersSound, LevelsHoldLimits, LogSound, ListsSound,
        Pointers, Resting
  <1> QED
    BY <1>2, <1>3 DEF BaseInv

LEMMA BaseFinishPanics == ASSUME BaseInv, FinishPanics PROVE BaseInv'
  <1>1. /\ UNCHANGED <<bookVars, taker, node, visited, restored, tradesList,
                       tape>>
        /\ pc = "finish" /\ pc' = "idle"
    BY DEF FinishPanics
  <1>2. TypeOK'
    BY <1>1 DEF BaseInv, TypeOK, bookVars, Pointers
  <1>3. (OrdersSound /\ LevelsHoldLimits /\ LogSound /\ ListsSound)'
    BY <1>1
    DEF BaseInv, bookVars, OrdersSound, LevelsHoldLimits, LogSound, ListsSound,
        Pointers, Resting
  <1> QED
    BY <1>2, <1>3 DEF BaseInv

LEMMA BaseFinishRest == ASSUME BaseInv, FinishRest PROVE BaseInv'
  <1> DEFINE p == orders[taker].price
  <1>1. /\ UNCHANGED <<orders, taker, node, visited, restored, tradesList>>
        /\ pc = "finish" /\ pc' = "idle"
        /\ tape' = tape \o tradesList
        /\ orders[taker].type = "limit" /\ IsActive(orders[taker])
        /\ p \in OwnPrices => p \in DOMAIN priceLevels
        /\ RestAt(p)
        /\ Pointers' = Pointers
    BY DEF FinishRest, Pointers
  <1>2. taker \in Pointers /\ p \in Prices
    BY <1>1 DEF BaseInv, TypeOK, Pointers, NoOrder, OrdersSound, Sound
  <1> HIDE DEF p
  <1>3. /\ buyOrders' \cup sellOrders' = Resting \cup {taker}
        /\ buyOrders' \subseteq Pointers /\ sellOrders' \subseteq Pointers
        /\ bids' \subseteq Prices /\ asks' \subseteq Prices
    BY <1>1, <1>2 DEF RestAt, Resting, BaseInv, TypeOK
  <1>4. /\ DOMAIN priceLevels' = DOMAIN priceLevels \cup {p}
        /\ \A q \in DOMAIN priceLevels \ {p} :
                priceLevels'[q] = priceLevels[q]
        /\ priceLevels'[p] = IF p \in OwnPrices
                             THEN priceLevels[p] \cup {taker} ELSE {taker}
    BY <1>1 DEF RestAt
  <1>5. priceLevels' \in [DOMAIN priceLevels' -> SUBSET Pointers]
    <2>1. \A q \in DOMAIN priceLevels' : priceLevels'[q] \subseteq Pointers
      BY <1>1, <1>2, <1>4 DEF BaseInv, TypeOK
    <2>2. priceLevels' = [q \in DOMAIN priceLevels' |-> priceLevels'[q]]
      BY <1>1 DEF RestAt
    <2> QED
      BY <2>1, <2>2
  <1>6. TypeOK'
    BY <1>1, <1>2, <1>3, <1>4, <1>5, TapeGrows DEF BaseInv, TypeOK
  <1>7. LevelsHoldLimits'
    <2>1. \A q \in DOMAIN priceLevels : \A k \in priceLevels[q] :
            orders[k].type = "limit" /\ orders[k].price = q
      BY DEF BaseInv, LevelsHoldLimits
    <2>2. \A q \in DOMAIN priceLevels' : \A k \in priceLevels'[q] :
            orders[k].type = "limit" /\ orders[k].price = q
      BY <1>1, <1>4, <2>1 DEF p
    <2> QED
      BY <1>1, <2>2 DEF LevelsHoldLimits
  <1>8. (OrdersSound /\ LogSound)'
    BY <1>1 DEF BaseInv, OrdersSound, LogSound
  <1>9. ListsSound'
    <2>1. orders[taker].side \in Sides
      <3>1. orders[taker] \in Order
        BY <1>2 DEF BaseInv, TypeOK, Pointers
      <3> QED
        BY <3>1 DEF Order
    <2>2. /\ \A k \in buyOrders' : orders[k].side = "buy"
          /\ \A k \in sellOrders' : orders[k].side = "sell"
      BY <1>1, <2>1 DEF BaseInv, ListsSound, RestAt, Sides
    <2>3. \A k \in Resting' :
            orders[k].type = "limit" /\ IsActive(orders[k])
      BY <1>1, <1>3 DEF BaseInv, ListsSound, Resting
    <2> QED
      BY <1>1, <2>2, <2>3 DEF ListsSound
  <1> QED
    BY <1>6, <1>7, <1>8, <1>9 DEF BaseInv

\* The order CancelOrder finds is a listed one with the ID asked for: the
\* list it scans has a first such order.
LEMMA FoundIsListed ==
    ASSUME BaseInv, NEW id, \E k \in Resting : orders[k].id = id
    PROVE  Found(id) \in Resting /\ orders[Found(id)].id = id
  <1> DEFINE inBuys == {k \in buyOrders : orders[k].id = id}
             inSells == {k \in sellOrders : orders[k].id = id}
             S == IF inBuys # {} THEN inBuys ELSE inSells
             P == {orders[k].price : k \in S}
  <1>1. /\ S # {} /\ S \subseteq Resting /\ S \subseteq Pointers
        /\ \A k \in S : orders[k].id = id
    BY DEF Resting, BaseInv, TypeOK
  <1>2. \/ \A k \in S : orders[k].side = "buy"
        \/ \A k \in S : orders[k].side = "sell"
    BY DEF BaseInv, ListsSound
  <1>3. \A k \in S : orders[k].price \in Prices
    BY <1>1 DEF BaseInv, ListsSound, OrdersSound, Sound
  <1> HIDE DEF S
  <1>4. /\ P \in SUBSET Nat /\ P # {}
        /\ MaxPrice \in Nat /\ \A p \in P : p <= MaxPrice
    <2>1. \A k \in S : orders[k].price \in 1..MaxPrice
      BY <1>3, PricesAssumption
    <2> QED
      BY <1>1, <2>1, PricesAssumption
  <1> HIDE DEF P
  <1>5. PICK p \in P : \A q \in P :
            \/ p = q
            \/ (\A k \in S : orders[k].side = "buy") /\ p > q
            \/ (\A k \in S : orders[k].side = "sell") /\ p < q
    <2>1. CASE \A k \in S : orders[k].side = "buy"
      <3>1. PICK p \in P : \A q \in P : p >= q
        BY <1>4, GreatestNumber
      <3>2. \A q \in P : p = q \/ p > q
        BY <1>4, <3>1
      <3> QED
        BY <2>1, <3>2
    <2>2. CASE \A k \in S : orders[k].side = "sell"
      <3>1. PICK p \in P : \A q \in P : p <= q
        BY <1>4, LeastNumber
      <3>2. \A q \in P : p = q \/ p < q
        BY <1>4, <3>1
      <3> QED
        BY <2>2, <3>2
    <2> QED
      BY <1>2, <2>1, <2>2
  <1> DEFINE T == {k \in S : orders[k].price = p}
  <1>6. T \in SUBSET Nat /\ T # {}
    <2>1. S \subseteq Nat
      BY <1>1 DEF Pointers
    <2> QED
      BY <1>5, <2>1 DEF P
  <1>7. PICK e \in T : \A k \in T : e <= k
    BY <1>6, LeastNumber
  <1>8. \A j \in S : j = e \/ Ahead(e, j)
    <2> SUFFICES ASSUME NEW j \in S, j # e PROVE Ahead(e, j)
      OBVIOUS
    <2>1. CASE j \in T
      <3>1. e < j
        BY <1>6, <1>7, <2>1
      <3> QED
        BY <1>7, <2>1, <3>1 DEF Ahead
    <2>2. CASE j \notin T
      <3>1. orders[j].price \in P /\ orders[j].price # p
        BY <2>2 DEF P
      <3> QED
        BY <1>5, <1>7, <3>1 DEF Ahead
    <2> QED
      BY <2>1, <2>2
  <1>9. Found(id) = CHOOSE k \in S : \A j \in S : j = k \/ Ahead(k, j)
    BY DEF Found, S
  <1>10. Found(id) \in S
    BY <1>7, <1>8, <1>9
  <1> QED
    BY <1>1, <1>10

LEMMA BaseCancelOrder ==
    ASSUME BaseInv, NEW id, CancelOrder(id)
    PROVE  BaseInv' /\ KeepsRequests
  <1> DEFINE k == Found(id)
  <1>1. /\ UNCHANGED <<loopVars, tape>>
        /\ pc = "idle"
        /\ orders' = [orders EXCEPT ![k].status = "cancelled"]
        /\ buyOrders' = buyOrders \ {k} /\ sellOrders' = sellOrders \ {k}
        /\ priceLevels' = LevelsWithout({k})
        /\ bids' \subseteq bids /\ asks' \subseteq asks
    BY DEF CancelOrder, Delist
  <1>2. k \in Pointers
    <2>1. \E j \in Resting : orders[j].id = id
      BY DEF CancelOrder, Resting
    <2>2. k \in Resting
      BY <2>1, FoundIsListed
    <2> QED
      BY <2>2 DEF BaseInv, TypeOK, Resting
  <1> HIDE DEF k
  <1>3. orders[k] \in Order /\ orders[k].unfilled \in Nat
    <2>1. orders[k] \in Order
      BY <1>2 DEF BaseInv, TypeOK, Pointers
    <2> QED
      BY <2>1 DEF Order
  <1>4. orders' = [orders EXCEPT ![k] =
                    [orders[k] EXCEPT !.unfilled = orders[k].unfilled,
                                      !.status = "cancelled"]]
    <2>1. [orders[k] EXCEPT !.status = "cancelled"] =
            [orders[k] EXCEPT !.unfilled = orders[k].unfilled,
                              !.status = "cancelled"]
      BY <1>3 DEF Order
    <2> QED
      BY <1>1, <2>1
  <1>5. /\ orders' \in Seq(Order) /\ Len(orders') = Len(orders)
        /\ Pointers' = Pointers /\ OrdersSound'
        /\ \A j \in Pointers : SameRequest(orders'[j], orders[j])
        /\ \A j \in Pointers \ {k} : orders'[j] = orders[j]
    BY <1>2, <1>3, <1>4, CloseIsSound
  <1>6. /\ DOMAIN priceLevels' \subseteq DOMAIN priceLevels
        /\ DOMAIN priceLevels' \subseteq Prices
        /\ \A p \in DOMAIN priceLevels' :
                priceLevels'[p] \subseteq priceLevels[p]
        /\ priceLevels' \in [DOMAIN priceLevels' -> SUBSET Pointers]
    BY <1>1, LevelsOnlyShrink
  <1>7. TypeOK'
    BY <1>1, <1>5, <1>6 DEF BaseInv, TypeOK, loopVars
  <1>8. LevelsHoldLimits'
    <2>1. \A p \in DOMAIN priceLevels : \A j \in priceLevels[p] :
            j \in Pointers /\ orders[j].type = "limit" /\ orders[j].price = p
      BY DEF BaseInv, TypeOK, LevelsHoldLimits
    <2>2. \A p \in DOMAIN priceLevels' : \A j \in priceLevels'[p] :
            orders'[j].type = "limit" /\ orders'[j].price = p
      BY <1>5, <1>6, <2>1 DEF SameRequest
    <2>3. pc' = "idle"
      BY <1>1 DEF loopVars
    <2> QED
      BY <2>2, <2>3 DEF LevelsHoldLimits
  <1>9. (LogSound /\ ListsSound)'
    BY <1>1, <1>5
    DEF BaseInv, TypeOK, LogSound, ListsSound, Resting, SameRequest, loopVars
  <1> QED
    BY <1>5, <1>7, <1>8, <1>9 DEF BaseInv, KeepsRequests

LEMMA BaseNext == ASSUME BaseInv, [Next]_vars PROVE BaseInv'
  <1>1. ASSUME NEW r \in Requests, AddOrder(r) PROVE BaseInv'
    BY <1>1, BaseAddOrder
  <1>2. CASE MatchNext \/ NextLevel \/ EndMatch \/ Rollback
    BY <1>2, BaseMatchNext, BaseNextLevel, BaseEndMatch, BaseRollback
  <1>3. CASE CleanupBuys \/ CleanupSells
    BY <1>3, BaseCleanupBuys, BaseCleanupSells
  <1>4. CASE FinishImmediate \/ FinishFilled \/ FinishRest \/ FinishPanics
    BY <1>4, BaseFinishImmediate, BaseFinishFilled, BaseFinishRest,
       BaseFinishPanics
  <1>5. ASSUME NEW id \in CancelIDs, CancelOrder(id) PROVE BaseInv'
    BY <1>5, BaseCancelOrder
  <1>6. CASE UNCHANGED vars
    <2>1. TypeOK'
      BY <1>6 DEF BaseInv, TypeOK, vars, bookVars, loopVars, Pointers
    <2>2. (OrdersSound /\ LevelsHoldLimits /\ LogSound /\ ListsSound)'
      BY <1>6
      DEF BaseInv, vars, bookVars, loopVars, OrdersSound, LevelsHoldLimits,
          LogSound, ListsSound, Pointers, InFlight, Resting
    <2> QED
      BY <2>1, <2>2 DEF BaseInv
  <1> QED
    BY <1>1, <1>2, <1>3, <1>4, <1>5, <1>6 DEF Next

LEMMA BaseAlways == Spec => []BaseInv
  <1>1. Init => BaseInv
    BY BaseInit
  <1>2. BaseInv /\ [Next]_vars => BaseInv'
    BY BaseNext
  <1> QED
    BY <1>1, <1>2, PTL DEF Spec

\* However orders share IDs, the book stays well typed: every list, level and
\* log entry points to an order that exists.
THEOREM TypeCorrect == Spec => []TypeOK
  <1>1. BaseInv => TypeOK
    BY DEF BaseInv
  <1> QED
    BY <1>1, BaseAlways, PTL

\* However orders share IDs, matching, rolling back and closing never lose or
\* invent quantity on an order.
THEOREM FillsAlwaysAddUp == Spec => []FillsAddUp
  <1>1. BaseInv => FillsAddUp
    BY DEF BaseInv, OrdersSound, Sound, FillsAddUp
  <1> QED
    BY <1>1, BaseAlways, PTL

(* With unique IDs the book is never crossed *)

\* Steps that leave the book's structures alone leave them in agreement.
LEMMA StructuresUntouched ==
    ASSUME BaseInv, BookInv,
           Pointers \subseteq Pointers',
           \A k \in Pointers : SameRequest(orders'[k], orders[k]),
           UNCHANGED <<buyOrders, sellOrders, bids, asks, priceLevels>>
    PROVE  StructuresAgree' /\ NeverCrossed'
  <1>1. Resting \subseteq Pointers /\ Resting' = Resting
        /\ buyOrders \subseteq Pointers /\ sellOrders \subseteq Pointers
    BY DEF BaseInv, TypeOK, Resting
  <1>2. \A k \in Resting : orders'[k].price = orders[k].price
    BY <1>1 DEF SameRequest
  <1>3. /\ {orders'[k].price : k \in buyOrders} = bids
        /\ {orders'[k].price : k \in sellOrders} = asks
    BY <1>1, <1>2 DEF BookInv, StructuresAgree, Resting
  <1>4. \A p : {k \in Resting : orders'[k].price = p} =
               {k \in Resting : orders[k].price = p}
    BY <1>2
  <1>5. StructuresAgree'
    BY <1>1, <1>3, <1>4 DEF BookInv, StructuresAgree
  <1> QED
    BY <1>5 DEF BookInv, NeverCrossed

LEMMA IDsStayDifferent ==
    ASSUME IDsDiffer, KeepsRequests PROVE IDsDiffer'
  BY DEF IDsDiffer, KeepsRequests, SameRequest

\* A price has a bid level or an ask level, never both.
LEMMA SidesApart ==
    ASSUME BaseInv, BookInv
    PROVE  bids \cap asks = {}
  <1>1. bids \subseteq Nat
    BY PricesAssumption DEF BaseInv, TypeOK
  <1>2. \A p \in bids \cap asks : p < p
    BY DEF BookInv, NeverCrossed
  <1>3. \A p \in Nat : ~(p < p)
    OBVIOUS
  <1> QED
    BY <1>1, <1>2, <1>3

\* Taking orders out by ID takes out exactly those orders.
LEMMA LevelsLoseExactly ==
    ASSUME BaseInv, BookInv, NEW gone \in SUBSET Resting
    PROVE  \A p \in DOMAIN priceLevels :
            LevelWithout(p, gone) =
                {k \in Resting \ gone : orders[k].price = p}
  <1>1. Resting \subseteq Pointers
    BY DEF BaseInv, TypeOK, Resting
  <1>2. \A p \in DOMAIN priceLevels :
            priceLevels[p] = {k \in Resting : orders[k].price = p}
    BY DEF BookInv, StructuresAgree
  <1>3. \A j, k \in Resting : orders[j].id = orders[k].id => j = k
    BY <1>1 DEF BookInv, IDsDiffer
  <1> QED
    BY <1>2, <1>3 DEF LevelWithout

LEMMA RemoveBuys ==
    ASSUME BaseInv, BookInv, KeepsRequests, NEW gone \in SUBSET buyOrders,
           buyOrders' = buyOrders \ gone, sellOrders' = sellOrders,
           bids' = bids \ Emptied(gone), asks' = asks,
           priceLevels' = LevelsWithout(gone)
    PROVE  StructuresAgree' /\ NeverCrossed'
  <1>1. /\ Resting \subseteq Pointers /\ gone \subseteq Resting
        /\ gone \cap sellOrders = {}
    BY DEF BaseInv, TypeOK, Resting, ListsSound
  <1>2. Resting' = Resting \ gone
    BY <1>1 DEF Resting
  <1>3. \A k \in Resting : orders'[k].price = orders[k].price
    BY <1>1 DEF KeepsRequests, SameRequest
  <1>4. \A p \in DOMAIN priceLevels :
            LevelWithout(p, gone) =
                {k \in Resting \ gone : orders[k].price = p}
    BY <1>1, LevelsLoseExactly
  <1>5. /\ bids = {orders[k].price : k \in buyOrders}
        /\ asks = {orders[k].price : k \in sellOrders}
        /\ DOMAIN priceLevels = bids \cup asks
        /\ bids \cap asks = {}
    BY SidesApart DEF BookInv, StructuresAgree
  <1>6. \A p \in bids : p \in Emptied(gone) <=>
            \A k \in buyOrders : orders[k].price = p => k \in gone
    <2> SUFFICES ASSUME NEW p \in bids
                 PROVE  p \in Emptied(gone) <=>
                    \A k \in buyOrders : orders[k].price = p => k \in gone
      OBVIOUS
    <2>1. p \in DOMAIN priceLevels /\ p \notin asks
      BY <1>5
    <2>2. PICK j \in buyOrders : orders[j].price = p
      BY <1>5
    <2>3. \A k \in sellOrders : orders[k].price # p
      BY <1>5, <2>1
    <2>4. LevelWithout(p, gone) =
            {k \in buyOrders \ gone : orders[k].price = p}
      BY <1>4, <2>1, <2>3 DEF Resting
    <2> QED
      BY <2>1, <2>2, <2>4 DEF Emptied
  <1>7. Emptied(gone) \cap asks = {}
    BY <1>5 DEF Emptied
  <1>8. bids' = {orders[k].price : k \in buyOrders \ gone}
    BY <1>5, <1>6
  <1>9. DOMAIN priceLevels' = bids' \cup asks'
    BY <1>5, <1>7 DEF LevelsWithout
  <1>10. \A p \in DOMAIN priceLevels' :
            priceLevels'[p] = {k \in Resting' : orders'[k].price = p}
    <2>1. \A p \in DOMAIN priceLevels' :
            p \in DOMAIN priceLevels /\ priceLevels'[p] = LevelWithout(p, gone)
      BY DEF LevelsWithout
    <2>2. \A p : {k \in Resting \ gone : orders'[k].price = p} =
                 {k \in Resting \ gone : orders[k].price = p}
      BY <1>3
    <2> QED
      BY <1>2, <1>4, <2>1, <2>2
  <1>11. /\ bids' = {orders'[k].price : k \in buyOrders'}
         /\ asks' = {orders'[k].price : k \in sellOrders'}
    BY <1>3, <1>5, <1>8 DEF Resting
  <1>12. NeverCrossed'
    BY DEF BookInv, NeverCrossed
  <1> QED
    BY <1>9, <1>10, <1>11, <1>12 DEF StructuresAgree

LEMMA RemoveSells ==
    ASSUME BaseInv, BookInv, KeepsRequests, NEW gone \in SUBSET sellOrders,
           sellOrders' = sellOrders \ gone, buyOrders' = buyOrders,
           asks' = asks \ Emptied(gone), bids' = bids,
           priceLevels' = LevelsWithout(gone)
    PROVE  StructuresAgree' /\ NeverCrossed'
  <1>1. /\ Resting \subseteq Pointers /\ gone \subseteq Resting
        /\ gone \cap buyOrders = {}
    BY DEF BaseInv, TypeOK, Resting, ListsSound
  <1>2. Resting' = Resting \ gone
    BY <1>1 DEF Resting
  <1>3. \A k \in Resting : orders'[k].price = orders[k].price
    BY <1>1 DEF KeepsRequests, SameRequest
  <1>4. \A p \in DOMAIN priceLevels :
            LevelWithout(p, gone) =
                {k \in Resting \ gone : orders[k].price = p}
    BY <1>1, LevelsLoseExactly
  <1>5. /\ bids = {orders[k].price : k \in buyOrders}
        /\ asks = {orders[k].price : k \in sellOrders}
        /\ DOMAIN priceLevels = bids \cup asks
        /\ bids \cap asks = {}
    BY SidesApart DEF BookInv, StructuresAgree
  <1>6. \A p \in asks : p \in Emptied(gone) <=>
            \A k \in sellOrders : orders[k].price = p => k \in gone
    <2> SUFFICES ASSUME NEW p \in asks
                 PROVE  p \in Emptied(gone) <=>
                    \A k \in sellOrders : orders[k].price = p => k \in gone
      OBVIOUS
    <2>1. p \in DOMAIN priceLevels /\ p \notin bids
      BY <1>5
    <2>2. PICK j \in sellOrders : orders[j].price = p
      BY <1>5
    <2>3. \A k \in buyOrders : orders[k].price # p
      BY <1>5, <2>1
    <2>4. LevelWithout(p, gone) =
            {k \in sellOrders \ gone : orders[k].price = p}
      BY <1>4, <2>1, <2>3 DEF Resting
    <2> QED
      BY <2>1, <2>2, <2>4 DEF Emptied
  <1>7. Emptied(gone) \cap bids = {}
    BY <1>5 DEF Emptied
  <1>8. asks' = {orders[k].price : k \in sellOrders \ gone}
    BY <1>5, <1>6
  <1>9. DOMAIN priceLevels' = bids' \cup asks'
    BY <1>5, <1>7 DEF LevelsWithout
  <1>10. \A p \in DOMAIN priceLevels' :
            priceLevels'[p] = {k \in Resting' : orders'[k].price = p}
    <2>1. \A p \in DOMAIN priceLevels' :
            p \in DOMAIN priceLevels /\ priceLevels'[p] = LevelWithout(p, gone)
      BY DEF LevelsWithout
    <2>2. \A p : {k \in Resting \ gone : orders'[k].price = p} =
                 {k \in Resting \ gone : orders[k].price = p}
      BY <1>3
    <2> QED
      BY <1>2, <1>4, <2>1, <2>2
  <1>11. /\ bids' = {orders'[k].price : k \in buyOrders'}
         /\ asks' = {orders'[k].price : k \in sellOrders'}
    BY <1>3, <1>5, <1>8 DEF Resting
  <1>12. NeverCrossed'
    BY DEF BookInv, NeverCrossed
  <1> QED
    BY <1>9, <1>10, <1>11, <1>12 DEF StructuresAgree

LEMMA BookAddOrder ==
    ASSUME UniqueIDs, BaseInv, BookInv, NEW r \in Requests, AddOrder(r)
    PROVE  BookInv'
  <1> DEFINE me == Len(orders) + 1
  <1>1. /\ UNCHANGED <<buyOrders, sellOrders, bids, asks, priceLevels, tape>>
        /\ pc' = "match" /\ taker' = me /\ node' = Seek(r.side, NoNode)
        /\ visited' = NoOrder
        /\ \A k \in Pointers : orders[k].id # r.id
    BY DEF AddOrder
  <1>2. /\ Pointers' = Pointers \cup {me} /\ me \notin Pointers
        /\ \A k \in Pointers : orders'[k] = orders[k]
        /\ orders'[me] = NewOrderInBook(r)
    <2>1. /\ orders \in Seq(Order) /\ Len(orders) \in Nat
          /\ orders' = Append(orders, NewOrderInBook(r))
      BY LenProperties DEF BaseInv, TypeOK, AddOrder
    <2> QED
      BY <2>1 DEF Pointers
  <1>3. /\ orders'[me].id = r.id /\ orders'[me].side = r.side
        /\ r.side \in Sides
    BY <1>2 DEF NewOrderInBook, Requests
  <1> HIDE DEF me
  <1>4. IDsDiffer'
    BY <1>1, <1>2, <1>3 DEF BookInv, IDsDiffer
  <1>5. StructuresAgree' /\ NeverCrossed'
    <2>1. \A k \in Pointers : SameRequest(orders'[k], orders[k])
      BY <1>2 DEF SameRequest
    <2> QED
      BY <1>1, <1>2, <2>1, StructuresUntouched
  <1>6. ScanComplete'
    <2>1. /\ bids \subseteq Prices /\ asks \subseteq Prices
          /\ Prices \subseteq Nat \ {0}
      BY PricesAssumption DEF BaseInv, TypeOK
    <2>2. CASE r.side = "buy"
      <3>1. \/ node' = NoNode /\ asks = {}
            \/ node' \in asks /\ \A p \in asks : node' <= p
        BY <1>1, <1>3, <2>1, <2>2, SeekFindsNext DEF NoNode
      <3>2. \A k \in sellOrders : orders'[k].price \in asks /\ k \in Nat \ {0}
        BY <1>1, <1>5 DEF StructuresAgree, BaseInv, TypeOK, Pointers
      <3>3. \A k \in sellOrders :
                ~(orders'[k].price < node') /\ ~(k <= visited')
                    /\ node' # NoNode
        <4> SUFFICES ASSUME NEW k \in sellOrders
                     PROVE  ~(orders'[k].price < node') /\ ~(k <= visited')
                                /\ node' # NoNode
          OBVIOUS
        <4> DEFINE p == orders'[k].price
        <4>1. p \in Nat /\ k \in Nat \ {0} /\ node' \in Nat \ {0}
          BY <2>1, <3>1, <3>2
        <4>2. node' <= p
          BY <3>1, <3>2
        <4> HIDE DEF p
        <4>3. ~(p < node')
          BY <4>1, <4>2
        <4>4. ~(k <= 0)
          BY <4>1
        <4> QED
          BY <1>1, <4>1, <4>3, <4>4 DEF NoOrder, NoNode, p
      <3> QED
        BY <1>1, <1>3, <2>2, <3>1, <3>3
        DEF ScanComplete, Opposing, OppositePrices, Passed
    <2>3. CASE r.side = "sell"
      <3>1. \/ node' = NoNode /\ bids = {}
            \/ node' \in bids /\ \A p \in bids : node' >= p
        BY <1>1, <1>3, <2>1, <2>3, SeekFindsNext DEF NoNode
      <3>2. \A k \in buyOrders : orders'[k].price \in bids /\ k \in Nat \ {0}
        BY <1>1, <1>5 DEF StructuresAgree, BaseInv, TypeOK, Pointers
      <3>3. \A k \in buyOrders :
                ~(orders'[k].price > node') /\ ~(k <= visited')
                    /\ node' # NoNode
        <4> SUFFICES ASSUME NEW k \in buyOrders
                     PROVE  ~(orders'[k].price > node') /\ ~(k <= visited')
                                /\ node' # NoNode
          OBVIOUS
        <4> DEFINE p == orders'[k].price
        <4>1. p \in Nat /\ k \in Nat \ {0} /\ node' \in Nat \ {0}
          BY <2>1, <3>1, <3>2
        <4>2. node' >= p
          BY <3>1, <3>2
        <4> HIDE DEF p
        <4>3. ~(p > node')
          BY <4>1, <4>2
        <4>4. ~(k <= 0)
          BY <4>1
        <4> QED
          BY <1>1, <4>1, <4>3, <4>4 DEF NoOrder, NoNode, p
      <3> QED
        BY <1>1, <1>3, <2>3, <3>1, <3>3
        DEF ScanComplete, Opposing, OppositePrices, Passed
    <2> QED
      BY <1>3, <2>2, <2>3 DEF Sides
  <1> QED
    BY <1>4, <1>5, <1>6 DEF BookInv

\* While the loop runs, the level under the cursor is one of the other side.
LEMMA LevelIsOpposing ==
    ASSUME BaseInv, BookInv, pc = "match", node # NoNode
    PROVE  LevelAt(node) = {k \in Opposing : orders[k].price = node}
  <1>1. node \in OppositePrices
    BY DEF BookInv, ScanComplete
  <1>2. bids \cap asks = {}
    BY SidesApart
  <1> QED
    BY <1>1, <1>2
    DEF BookInv, StructuresAgree, LevelAt, OppositePrices, Opposing, Resting

LEMMA BookMatchNext ==
    ASSUME BaseInv, BookInv, MatchNext PROVE BookInv'
  <1>1. PICK opp, q : MatchedWith(opp, q)
    BY MatchNextTrades
  <1>2. BaseInv' /\ KeepsRequests
    BY BaseMatchNext
  <1>3. /\ UNCHANGED <<buyOrders, sellOrders, bids, asks, priceLevels, taker,
                       node, tape>>
        /\ pc = "match" /\ node # NoNode
    BY DEF MatchNext, Trade
  <1>4. StructuresAgree' /\ NeverCrossed'
    BY <1>2, <1>3, StructuresUntouched DEF KeepsRequests
  <1>5. ScanComplete'
    <2>1. /\ Opposing \subseteq Pointers /\ taker \in Pointers
          /\ Opposing \subseteq Nat /\ visited \in Nat
      BY <1>1 DEF BaseInv, TypeOK, Opposing, MatchedWith, Pointers
    <2>2. /\ Opposing' = Opposing /\ OppositePrices' = OppositePrices
          /\ \A k \in Opposing : orders'[k].price = orders[k].price
          /\ \A p : Passed(p)' <=> Passed(p)
          /\ \A p : CanMatch(orders'[taker], p) <=> CanMatch(orders[taker], p)
      BY <1>2, <1>3, <2>1
      DEF KeepsRequests, SameRequest, Opposing, OppositePrices, Passed,
          CanMatch
    <2>3. /\ orders[taker] \in Order /\ orders[opp] \in Order
          /\ Sound(orders[taker]) /\ Sound(orders[opp])
          /\ IsActive(orders[taker]) /\ IsActive(orders[opp])
      BY <1>1, <1>3, <2>1
      DEF BaseInv, TypeOK, OrdersSound, ListsSound, MatchedWith, Unvisited,
          Pointers
    <2>4. /\ orders'[taker].remaining = orders[taker].remaining - q
          /\ orders[taker].remaining \in Nat /\ q \in Nat
          /\ IsActive(orders'[opp]) <=> q # orders[opp].remaining
      <3>1. /\ q \in Nat /\ q <= orders[taker].remaining
            /\ q <= orders[opp].remaining
            /\ orders'[taker] = Fill(orders[taker], q)
            /\ orders'[opp] = Fill(orders[opp], q)
        BY <1>1 DEF MatchedWith
      <3>2. orders[taker].remaining \in Nat
        BY <2>3 DEF Order
      <3> QED
        BY <2>3, <3>1, <3>2, FillIsSound
    <2>5. CASE pc' = "match"
      <3>1. ~IsActive(orders'[opp])
        BY <1>1, <2>4, <2>5 DEF MatchedWith
      <3>2. \A k \in Opposing \ {opp} : orders'[k] = orders[k]
        BY <1>1, <1>3, <2>1 DEF MatchedWith, BaseInv, ListsSound, Opposing,
           Resting
      <3>3. \A k \in Opposing : orders[k].price = node /\ k > visited
                /\ IsActive(orders[k]) => opp <= k
        BY <1>1, <1>3, LevelIsOpposing DEF MatchedWith, Unvisited
      <3>4. \A k \in Opposing :
                Passed(orders[k].price)
                    \/ (orders[k].price = node /\ k <= opp)
                => k = opp \/ OutOfReach(k)
        <4> SUFFICES ASSUME NEW k \in Opposing, k # opp,
                            ~Passed(orders[k].price),
                            orders[k].price = node, k <= opp
                     PROVE  OutOfReach(k)
          BY <1>3 DEF BookInv, ScanComplete
        <4>1. opp \in Nat
          BY <1>1 DEF MatchedWith, Pointers
        <4>2. CASE k <= visited
          BY <1>3, <4>2 DEF BookInv, ScanComplete
        <4>3. CASE k > visited
          BY <2>1, <3>3, <4>1, <4>3 DEF OutOfReach
        <4> QED
          BY <2>1, <4>2, <4>3
      <3>5. \A k \in Opposing : k = opp \/ OutOfReach(k) => OutOfReach(k)'
        BY <1>3, <2>1, <2>2, <3>1, <3>2 DEF OutOfReach
      <3>6. node = NoNode \/ node \in OppositePrices
        BY <1>3 DEF BookInv, ScanComplete
      <3> QED
        BY <1>1, <1>3, <2>2, <2>5, <3>4, <3>5, <3>6
        DEF ScanComplete, MatchedWith
    <2>6. CASE pc' # "match"
      <3>1. q = orders[taker].remaining /\ pc' = "cleanBuys"
        BY <1>1, <2>6 DEF MatchedWith
      <3> QED
        BY <1>3, <2>4, <3>1 DEF ScanComplete, IsFilled
    <2> QED
      BY <2>5, <2>6
  <1>6. IDsDiffer'
    BY <1>2, IDsStayDifferent DEF BookInv
  <1> QED
    BY <1>4, <1>5, <1>6 DEF BookInv

LEMMA BookNextLevel ==
    ASSUME BaseInv, BookInv, NextLevel PROVE BookInv'
  <1>1. /\ UNCHANGED <<bookVars, pc, taker, restored, tradesList, tape>>
        /\ visited' = NoOrder /\ pc = "match" /\ node # NoNode
        /\ node' = Seek(orders[taker].side, node)
    BY DEF NextLevel
  <1>2. KeepsRequests
    BY <1>1 DEF KeepsRequests, SameRequest, bookVars, Pointers
  <1>3. StructuresAgree' /\ NeverCrossed' /\ IDsDiffer'
    <2>1. UNCHANGED <<buyOrders, sellOrders, bids, asks, priceLevels>>
      BY <1>1 DEF bookVars
    <2> QED
      BY <1>2, <2>1, StructuresUntouched, IDsStayDifferent
      DEF KeepsRequests, BookInv
  <1>4. /\ orders[taker].side \in Sides /\ node \in Nat
        /\ bids \subseteq Nat \ {0} /\ asks \subseteq Nat \ {0}
        /\ Opposing \subseteq Nat \ {0} /\ visited \in Nat
    <2>1. orders[taker] \in Order
      BY <1>1 DEF BaseInv, TypeOK, NoOrder
    <2>2. orders[taker].side \in Sides
      BY <2>1 DEF Order
    <2>3. /\ node \in Nat
          /\ bids \subseteq Nat \ {0} /\ asks \subseteq Nat \ {0}
      BY PricesAssumption DEF BaseInv, TypeOK, NoNode
    <2>4. Opposing \subseteq Nat \ {0} /\ visited \in Nat
      BY DEF BaseInv, TypeOK, Opposing, Pointers
    <2> QED
      BY <2>2, <2>3, <2>4
  <1>5. \A k \in Opposing : orders[k].price \in OppositePrices
    BY DEF BookInv, StructuresAgree, Opposing, OppositePrices
  \* The level just left holds nothing more for the taker.
  <1>6. \A k \in Opposing : orders[k].price = node => OutOfReach(k)
    <2> SUFFICES ASSUME NEW k \in Opposing, orders[k].price = node
                 PROVE  OutOfReach(k)
      OBVIOUS
    <2>1. CASE k <= visited
      BY <1>1, <2>1 DEF BookInv, ScanComplete
    <2>2. CASE ~IsActive(orders[k])
      BY <2>2 DEF OutOfReach
    <2>3. CASE k > visited /\ IsActive(orders[k])
      <3>1. k \in Unvisited
        BY <1>1, <2>3, LevelIsOpposing DEF Unvisited
      <3>2. Earliest(Unvisited) \in Unvisited
        <4>1. Unvisited \in SUBSET Nat
          BY LevelsPointToOrders DEF Unvisited
        <4> QED
          BY <3>1, <4>1, EarliestIsLeast
      <3>3. orders[Earliest(Unvisited)].price = node
        BY <1>1, <3>2, LevelIsOpposing DEF Unvisited
      <3> QED
        BY <3>1, <3>3 DEF NextLevel, OutOfReach
    <2> QED
      BY <1>4, <2>1, <2>2, <2>3
  <1>7. \/ node' = NoNode
        \/ node' \in OppositePrices
    BY <1>1, <1>4, SeekFindsNext DEF OppositePrices, BaseInv, TypeOK, NoNode
  <1>8. \A k \in Opposing :
            node' = NoNode \/ Passed(orders[k].price)'
            => OutOfReach(k)
    <2> SUFFICES ASSUME NEW k \in Opposing,
                        node' = NoNode \/ Passed(orders[k].price)'
                 PROVE  OutOfReach(k)
      OBVIOUS
    <2> DEFINE p == orders[k].price
    <2>1. p \in OppositePrices /\ p \in Nat
      BY <1>4, <1>5 DEF OppositePrices
    <2>2. orders' = orders /\ taker' = taker
      BY <1>1 DEF bookVars
    <2>3. CASE orders[taker].side = "buy"
      <3>1. \/ node' = NoNode /\ ~(p > node)
            \/ node' \in Nat \ {0} /\ (p > node => node' <= p)
        BY <1>1, <1>4, <2>1, <2>3, SeekFindsNext
        DEF OppositePrices, BaseInv, TypeOK, NoNode
      <3>2. node' = NoNode \/ p < node'
        BY <2>2, <2>3 DEF Passed
      <3> HIDE DEF p
      <3>3. p < node \/ p = node
        BY <1>4, <2>1, <3>1, <3>2 DEF NoNode
      <3> QED
        BY <1>1, <1>6, <2>3, <3>3 DEF BookInv, ScanComplete, Passed, p
    <2>4. CASE orders[taker].side = "sell"
      <3>1. \/ node' = NoNode /\ ~(p < node)
            \/ node' \in Nat \ {0} /\ (p < node => node' >= p)
        BY <1>1, <1>4, <2>1, <2>4, SeekFindsNext
        DEF OppositePrices, BaseInv, TypeOK, NoNode
      <3>2. node' = NoNode \/ p > node'
        BY <2>2, <2>4 DEF Passed
      <3> HIDE DEF p
      <3>3. p > node \/ p = node
        BY <1>4, <2>1, <3>1, <3>2 DEF NoNode
      <3> QED
        BY <1>1, <1>6, <2>4, <3>3 DEF BookInv, ScanComplete, Passed, p
    <2> QED
      BY <1>4, <2>3, <2>4 DEF Sides
  <1>9. ScanComplete'
    <2>1. /\ Opposing' = Opposing /\ OppositePrices' = OppositePrices
          /\ orders' = orders /\ taker' = taker /\ pc' = "match"
          /\ \A k : OutOfReach(k)' <=> OutOfReach(k)
      BY <1>1 DEF bookVars, Opposing, OppositePrices, OutOfReach
    <2>2. \A k \in Opposing : ~(k <= visited')
      <3>1. \A k \in Nat \ {0} : ~(k <= 0)
        OBVIOUS
      <3> QED
        BY <1>1, <1>4, <3>1 DEF NoOrder
    <2>3. \A k \in Opposing : Passed(orders[k].price)' => OutOfReach(k)
      BY <1>8
    <2> QED
      BY <1>7, <2>1, <2>2, <2>3 DEF ScanComplete
  <1> QED
    BY <1>3, <1>9 DEF BookInv

LEMMA BookEndMatch ==
    ASSUME BaseInv, BookInv, EndMatch PROVE BookInv'
  <1>1. /\ UNCHANGED <<bookVars, taker, node>>
        /\ pc = "match" /\ pc' = "cleanBuys" /\ node = NoNode
    BY DEF EndMatch
  <1>2. KeepsRequests
    BY <1>1 DEF KeepsRequests, SameRequest, bookVars, Pointers
  <1>3. StructuresAgree' /\ NeverCrossed' /\ IDsDiffer'
    <2>1. UNCHANGED <<buyOrders, sellOrders, bids, asks, priceLevels>>
      BY <1>1 DEF bookVars
    <2> QED
      BY <1>2, <2>1, StructuresUntouched, IDsStayDifferent
      DEF KeepsRequests, BookInv
  <1>4. \A k \in Opposing : OutOfReach(k)
    BY <1>1 DEF BookInv, ScanComplete, Passed
  <1>5. ScanComplete'
    BY <1>1, <1>4 DEF ScanComplete, bookVars, Opposing, OutOfReach
  <1> QED
    BY <1>3, <1>5 DEF BookInv

\* Steps that give the actor back with the structures as they were.
LEMMA BookGivenBack ==
    ASSUME BaseInv, BookInv, KeepsRequests, pc' = "idle",
           UNCHANGED <<buyOrders, sellOrders, bids, asks, priceLevels>>
    PROVE  BookInv'
  <1>1. StructuresAgree' /\ NeverCrossed' /\ IDsDiffer'
    BY StructuresUntouched, IDsStayDifferent DEF KeepsRequests, BookInv
  <1>2. ScanComplete'
    BY DEF ScanComplete
  <1> QED
    BY <1>1, <1>2 DEF BookInv

LEMMA BookCleanup ==
    ASSUME BaseInv, BookInv, CleanupBuys \/ CleanupSells PROVE BookInv'
  <1>1. /\ UNCHANGED <<orders, taker>>
        /\ pc \in {"cleanBuys", "cleanSells"}
        /\ pc' \in {"cleanSells", "finish"}
        /\ buyOrders' \subseteq buyOrders /\ sellOrders' \subseteq sellOrders
    BY DEF CleanupBuys, CleanupSells
  <1>2. KeepsRequests
    BY <1>1 DEF KeepsRequests, SameRequest, Pointers
  <1>3. StructuresAgree' /\ NeverCrossed'
    <2>1. CASE CleanupBuys
      <3> DEFINE gone == {k \in buyOrders : ~IsActive(orders[k])}
      <3>1. /\ gone \in SUBSET buyOrders
            /\ buyOrders' = buyOrders \ gone /\ sellOrders' = sellOrders
            /\ bids' = bids \ Emptied(gone) /\ asks' = asks
            /\ priceLevels' = LevelsWithout(gone)
        BY <2>1 DEF CleanupBuys
      <3> HIDE DEF gone
      <3> QED
        BY <1>2, <3>1, RemoveBuys
    <2>2. CASE CleanupSells
      <3> DEFINE gone == {k \in sellOrders : ~IsActive(orders[k])}
      <3>1. /\ gone \in SUBSET sellOrders
            /\ sellOrders' = sellOrders \ gone /\ buyOrders' = buyOrders
            /\ asks' = asks \ Emptied(gone) /\ bids' = bids
            /\ priceLevels' = LevelsWithout(gone)
        BY <2>2 DEF CleanupSells
      <3> HIDE DEF gone
      <3> QED
        BY <1>2, <3>1, RemoveSells
    <2> QED
      BY <2>1, <2>2
  <1>4. ScanComplete'
    BY <1>1 DEF BookInv, ScanComplete, Opposing, OutOfReach, IsFilled
  <1>5. IDsDiffer'
    BY <1>2, IDsStayDifferent DEF BookInv
  <1> QED
    BY <1>3, <1>4, <1>5 DEF BookInv

\* A resting taker's price is on neither index of the other side, and on the
\* right side of every price there.
LEMMA RestingDoesNotCross ==
    ASSUME BaseInv, BookInv, FinishRest
    PROVE  /\ orders[taker].price \in Nat
           /\ \A p \in OppositePrices :
                /\ orders[taker].side = "buy" => orders[taker].price < p
                /\ orders[taker].side = "sell" => orders[taker].price > p
  <1>1. /\ pc = "finish" /\ ~IsFilled(orders[taker])
        /\ orders[taker].type = "limit"
    BY DEF FinishRest
  <1>2. \A k \in Opposing : ~CanMatch(orders[taker], orders[k].price)
    <2>1. \A k \in Opposing : OutOfReach(k)
      BY <1>1 DEF BookInv, ScanComplete
    <2>2. \A k \in Opposing : IsActive(orders[k])
      BY <1>1 DEF BaseInv, ListsSound, Opposing, Resting
    <2> QED
      BY <2>1, <2>2 DEF OutOfReach
  <1>3. /\ orders[taker].price \in Nat
        /\ bids \subseteq Nat /\ asks \subseteq Nat
    <2>1. taker \in Pointers
      BY <1>1 DEF BaseInv, TypeOK, Pointers, NoOrder
    <2>2. orders[taker].price \in Prices
      BY <1>1, <2>1 DEF BaseInv, OrdersSound, Sound
    <2> QED
      BY <2>2, PricesAssumption DEF BaseInv, TypeOK
  <1>4. \A p \in OppositePrices : \E k \in Opposing : orders[k].price = p
    BY DEF BookInv, StructuresAgree, Opposing, OppositePrices
  <1>5. \A p \in OppositePrices : ~CanMatch(orders[taker], p)
    BY <1>2, <1>4
  <1>6. ASSUME NEW p \in OppositePrices
        PROVE  /\ orders[taker].side = "buy" => orders[taker].price < p
               /\ orders[taker].side = "sell" => orders[taker].price > p
    <2>1. p \in Nat
      BY <1>3, <1>6 DEF OppositePrices
    <2>2. ~CanMatch(orders[taker], p)
      BY <1>5, <1>6
    <2> QED
      BY <1>3, <2>1, <2>2 DEF CanMatch
  <1> QED
    BY <1>3, <1>6

LEMMA BookFinishRest ==
    ASSUME BaseInv, BookInv, FinishRest PROVE BookInv'
  <1> DEFINE p == orders[taker].price
  <1>1. /\ UNCHANGED <<orders, taker>> /\ pc = "finish" /\ pc' = "idle"
        /\ RestAt(p) /\ taker \notin Resting
    BY DEF FinishRest, BaseInv, ListsSound
  <1>2. KeepsRequests
    BY <1>1 DEF KeepsRequests, SameRequest, Pointers
  <1>3. /\ orders[taker].side = "buy" => \A a \in asks : p < a
        /\ orders[taker].side = "sell" => \A b \in bids : b < p
        /\ p \notin OppositePrices
        /\ orders[taker].side \in Sides
    <2>1. p \in Nat /\ bids \subseteq Nat /\ asks \subseteq Nat
      BY PricesAssumption, RestingDoesNotCross DEF BaseInv, TypeOK
    <2>2. orders[taker].side \in Sides
      <3>1. orders[taker] \in Order
        BY <1>1 DEF BaseInv, TypeOK, NoOrder
      <3> QED
        BY <3>1 DEF Order
    <2>3. /\ orders[taker].side = "buy" => \A a \in asks : p < a
          /\ orders[taker].side = "sell" => \A b \in bids : p > b
      BY RestingDoesNotCross DEF OppositePrices
    <2> HIDE DEF p
    <2>4. ~(p < p) /\ \A b \in bids : p > b => b < p
      BY <2>1
    <2>5. p \notin OppositePrices
      BY <2>2, <2>3, <2>4 DEF OppositePrices, Sides
    <2> QED
      BY <2>2, <2>3, <2>4, <2>5
  <1>4. NeverCrossed'
    BY <1>1, <1>3 DEF BookInv, NeverCrossed, RestAt, Sides
  <1>5. StructuresAgree'
    <2>1. /\ bids = {orders[k].price : k \in buyOrders}
          /\ asks = {orders[k].price : k \in sellOrders}
          /\ DOMAIN priceLevels = bids \cup asks
          /\ \A q \in DOMAIN priceLevels :
                priceLevels[q] = {k \in Resting : orders[k].price = q}
      BY DEF BookInv, StructuresAgree
    <2>2. Resting' = Resting \cup {taker}
      BY <1>1 DEF RestAt, Resting
    <2>3. /\ DOMAIN priceLevels' = DOMAIN priceLevels \cup {p}
          /\ \A q \in DOMAIN priceLevels \ {p} :
                priceLevels'[q] = priceLevels[q]
          /\ priceLevels'[p] = IF p \in OwnPrices
                               THEN priceLevels[p] \cup {taker} ELSE {taker}
      BY <1>1 DEF RestAt
    <2>4. \A q : {k \in Resting' : orders[k].price = q} =
                    IF q = p THEN {k \in Resting : orders[k].price = q}
                                    \cup {taker}
                    ELSE {k \in Resting : orders[k].price = q}
      BY <2>2
    <2>5. p \in OwnPrices => p \in DOMAIN priceLevels
      BY <2>1 DEF OwnPrices
    <2>6. p \notin OwnPrices => {k \in Resting : orders[k].price = p} = {}
      BY <1>3, <2>1 DEF OwnPrices, OppositePrices, Resting
    <2>7. \A q \in DOMAIN priceLevels' :
            priceLevels'[q] = {k \in Resting' : orders[k].price = q}
      <3> HIDE DEF p
      <3> QED
        BY <2>1, <2>3, <2>4, <2>5, <2>6
    <2>8. /\ bids' = {orders[k].price : k \in buyOrders'}
          /\ asks' = {orders[k].price : k \in sellOrders'}
          /\ bids' \cup asks' = bids \cup asks \cup {p}
      BY <1>1, <2>1 DEF RestAt
    <2> QED
      BY <1>1, <2>1, <2>3, <2>7, <2>8 DEF StructuresAgree
  <1>6. ScanComplete' /\ IDsDiffer'
    BY <1>1, <1>2, IDsStayDifferent DEF BookInv, ScanComplete
  <1> QED
    BY <1>4, <1>5, <1>6 DEF BookInv

LEMMA BookCancelOrder ==
    ASSUME BaseInv, BookInv, NEW id, CancelOrder(id) PROVE BookInv'
  <1> DEFINE k == Found(id)
  <1>1. KeepsRequests
    BY BaseCancelOrder
  <1>2. k \in Resting
    <2>1. \E j \in Resting : orders[j].id = id
      BY DEF CancelOrder, Resting
    <2> QED
      BY <2>1, FoundIsListed
  <1>3. /\ pc' = "idle"
        /\ buyOrders' = buyOrders \ {k} /\ sellOrders' = sellOrders \ {k}
        /\ priceLevels' = LevelsWithout({k})
        /\ bids' = IF orders[k].side = "buy" THEN bids \ Emptied({k}) ELSE bids
        /\ asks' = IF orders[k].side = "sell" THEN asks \ Emptied({k}) ELSE asks
    BY DEF CancelOrder, Delist, loopVars
  <1> HIDE DEF k
  <1>4. CASE k \in buyOrders
    <2>1. k \notin sellOrders /\ orders[k].side = "buy"
      BY <1>4 DEF BaseInv, ListsSound
    <2>2. /\ {k} \in SUBSET buyOrders /\ sellOrders' = sellOrders
          /\ bids' = bids \ Emptied({k}) /\ asks' = asks
      BY <1>3, <1>4, <2>1
    <2>3. StructuresAgree' /\ NeverCrossed'
      BY <1>1, <1>3, <2>2, RemoveBuys
    <2> QED
      BY <1>1, <1>3, <2>3, IDsStayDifferent DEF BookInv, ScanComplete
  <1>5. CASE k \in sellOrders
    <2>1. k \notin buyOrders /\ orders[k].side = "sell"
      BY <1>5 DEF BaseInv, ListsSound
    <2>2. /\ {k} \in SUBSET sellOrders /\ buyOrders' = buyOrders
          /\ asks' = asks \ Emptied({k}) /\ bids' = bids
      BY <1>3, <1>5, <2>1
    <2>3. StructuresAgree' /\ NeverCrossed'
      BY <1>1, <1>3, <2>2, RemoveSells
    <2> QED
      BY <1>1, <1>3, <2>3, IDsStayDifferent DEF BookInv, ScanComplete
  <1> QED
    BY <1>2, <1>4, <1>5 DEF Resting

LEMMA BookNext ==
    ASSUME UniqueIDs, BaseInv, BookInv, [Next]_vars PROVE BookInv'
  <1>1. ASSUME NEW r \in Requests, AddOrder(r) PROVE BookInv'
    BY <1>1, BookAddOrder
  <1>2. CASE MatchNext \/ NextLevel \/ EndMatch \/ CleanupBuys \/ CleanupSells
             \/ FinishRest
    BY <1>2, BookMatchNext, BookNextLevel, BookEndMatch, BookCleanup,
       BookFinishRest
  <1>3. CASE Rollback
    <2>1. /\ pc' = "idle"
          /\ UNCHANGED <<buyOrders, sellOrders, bids, asks, priceLevels>>
      BY <1>3 DEF Rollback
    <2> QED
      BY <1>3, <2>1, BaseRollback, BookGivenBack
  <1>4. CASE FinishImmediate
    <2>1. /\ pc' = "idle"
          /\ UNCHANGED <<buyOrders, sellOrders, bids, asks, priceLevels>>
      BY <1>4 DEF FinishImmediate
    <2> QED
      BY <1>4, <2>1, BaseFinishImmediate, BookGivenBack
  <1>5. CASE FinishFilled \/ FinishPanics
    <2>1. /\ pc' = "idle" /\ orders' = orders
          /\ UNCHANGED <<buyOrders, sellOrders, bids, asks, priceLevels>>
      BY <1>5 DEF FinishFilled, FinishPanics, bookVars
    <2>2. KeepsRequests
      BY <2>1 DEF KeepsRequests, SameRequest, Pointers
    <2> QED
      BY <2>1, <2>2, BookGivenBack
  <1>6. ASSUME NEW id \in CancelIDs, CancelOrder(id) PROVE BookInv'
    BY <1>6, BookCancelOrder
  <1>7. CASE UNCHANGED vars
    BY <1>7
    DEF vars, bookVars, loopVars, BookInv, IDsDiffer, StructuresAgree,
        NeverCrossed, ScanComplete, Resting, Pointers, Opposing,
        OppositePrices, Passed, OutOfReach
  <1> QED
    BY <1>1, <1>2, <1>3, <1>4, <1>5, <1>6, <1>7 DEF Next

LEMMA BookInit == Init => BookInv
  <1> SUFFICES ASSUME Init PROVE BookInv
    OBVIOUS
  <1> QED
    BY DEF Init, BookInv, IDsDiffer, StructuresAgree, NeverCrossed,
       ScanComplete, Resting, Pointers

LEMMA BookAlways == ASSUME UniqueIDs PROVE Spec => []BookInv
  <1>1. Init => BookInv
    BY BookInit
  <1>2. BaseInv /\ BookInv /\ [Next]_vars => BookInv'
    BY BookNext
  <1> QED
    BY <1>1, <1>2, BaseAlways, PTL DEF Spec

\* When no two orders share an ID, the best bid stays below the best ask in
\* every state a reader can see, whatever orders, fills, rollbacks and
\* cancellations come.
THEOREM BookNeverCrosses == ASSUME UniqueIDs PROVE Spec => []NeverCrossed
  <1>1. BookInv => NeverCrossed
    BY DEF BookInv
  <1> QED
    BY <1>1, BookAlways, PTL

\* When no two orders share an ID, lists, index and levels agree and hold
\* only active limit orders whenever the actor is between commands.
THEOREM BookStaysConsistent == ASSUME UniqueIDs PROVE Spec => []BookConsistent
  <1>1. BaseInv /\ BookInv => BookConsistent
    <2> SUFFICES ASSUME BaseInv, BookInv, pc = "idle" PROVE BookConsistent
      BY DEF BookConsistent
    <2>1. \A k \in Resting :
            /\ IsActive(orders[k]) /\ orders[k].type = "limit"
            /\ k \in Pointers
      BY DEF BaseInv, TypeOK, ListsSound, Resting
    <2>2. \A k \in Resting : ~IsFilled(orders[k])
      BY <2>1 DEF BaseInv, OrdersSound, Sound, IsFilled
    <2> QED
      BY <2>1, <2>2 DEF BookConsistent, BookInv, StructuresAgree
  <1> QED
    BY <1>1, BaseAlways, BookAlways, PTL

\* When no two orders share an ID, AddOrder never appends to a nil level: the
\* panic the actor would swallow together with the caller's reply cannot occur.
THEOREM NeverPanics ==
    ASSUME UniqueIDs PROVE Spec => [][~FinishPanics]_vars
  <1>1. BaseInv /\ BookInv => ~FinishPanics
    BY DEF BookInv, StructuresAgree, FinishPanics, OwnPrices
  <1>2. BaseInv /\ BookInv /\ [Next]_vars => [~FinishPanics]_vars
    BY <1>1
  <1> QED
    BY <1>2, BaseAlways, BookAlways, PTL DEF Spec

(* A market order leaves nothing of the other side *)

\* When an AddOrder finishes, everything still listed opposite a taker with
\* something left is out of its reach; nothing is, for a market order.
LEMMA ExhaustedAtFinish ==
    ASSUME BaseInv, BookInv, pc = "finish",
           orders[taker].type = "market", ~IsFilled(orders[taker])
    PROVE  {k \in Resting : orders[k].side # orders[taker].side} = {}
  <1>1. \A k \in Opposing : ~IsActive(orders[k])
    BY DEF BookInv, ScanComplete, OutOfReach, CanMatch
  <1>2. \A k \in Resting : IsActive(orders[k])
    BY DEF BaseInv, ListsSound
  <1>3. orders[taker].side \in Sides
    <2>1. taker \in DOMAIN orders
      BY DEF BaseInv, TypeOK, NoOrder
    <2>2. orders[taker] \in Order
      BY <2>1 DEF BaseInv, TypeOK
    <2> QED
      BY <2>2 DEF Order
  <1>4. \A k \in Resting :
            orders[k].side # orders[taker].side => k \in Opposing
    BY <1>3 DEF BaseInv, ListsSound, Resting, Opposing, Sides
  <1> QED
    BY <1>1, <1>2, <1>4 DEF Opposing, Resting

\* Outside AddOrder the last taker is not touched by what is cancelled, and
\* the lists only lose orders.
LEMMA MarketCancelOrder ==
    ASSUME BaseInv, MarketExhaustsBook, NEW id, CancelOrder(id)
    PROVE  MarketExhaustsBook'
  <1> SUFFICES ASSUME taker # NoOrder, orders'[taker].type = "market",
                      orders'[taker].unfilled > 0
               PROVE  {k \in Resting' :
                            orders'[k].side # orders'[taker].side} = {}
    BY DEF MarketExhaustsBook, CancelOrder, loopVars
  <1>1. /\ pc = "idle"
        /\ orders' = [orders EXCEPT ![Found(id)].status = "cancelled"]
        /\ Resting' \subseteq Resting
    BY DEF CancelOrder, Delist, Resting
  <1>2. taker \in DOMAIN orders /\ Resting \subseteq DOMAIN orders
    BY DEF BaseInv, TypeOK, NoOrder, Resting, Pointers
  <1>3. \A k \in DOMAIN orders : /\ orders'[k].side = orders[k].side
                                 /\ orders'[k].type = orders[k].type
                                 /\ orders'[k].unfilled = orders[k].unfilled
    <2> TAKE k \in DOMAIN orders
    <2>1. orders[k] \in Order
      BY DEF BaseInv, TypeOK
    <2> QED
      BY <1>1, <2>1 DEF Order
  <1> QED
    BY <1>1, <1>2, <1>3 DEF MarketExhaustsBook

LEMMA MarketNext ==
    ASSUME BaseInv, BookInv, MarketExhaustsBook, [Next]_vars
    PROVE  MarketExhaustsBook'
  <1>1. ASSUME NEW r \in Requests, AddOrder(r) PROVE MarketExhaustsBook'
    BY <1>1 DEF AddOrder, MarketExhaustsBook
  <1>2. CASE MatchNext
    BY <1>2 DEF MatchNext, Trade, MarketExhaustsBook
  <1>3. CASE NextLevel \/ EndMatch \/ CleanupBuys \/ CleanupSells
    BY <1>3
    DEF NextLevel, EndMatch, CleanupBuys, CleanupSells, MarketExhaustsBook
  <1>4. CASE Rollback
    <2>1. taker \in Pointers /\ orders[taker].type = "fok"
      <3>1. pc = "match" /\ orders[taker].type = "fok"
        BY <1>4 DEF Rollback
      <3>2. taker \in Pointers
        BY <3>1 DEF BaseInv, TypeOK, NoOrder, Pointers
      <3> QED
        BY <3>1, <3>2
    <2>2. taker' = taker /\ orders'[taker].type = "fok"
      <3>1. orders[taker] \in Order
        BY <2>1 DEF BaseInv, TypeOK, Pointers
      <3> QED
        BY <1>4, <2>1, <3>1 DEF Rollback, Order
    <2> QED
      BY <2>2 DEF MarketExhaustsBook
  <1>5. CASE FinishImmediate
    <2>1. /\ taker \in DOMAIN orders /\ orders[taker] \in Order
          /\ Resting \subseteq DOMAIN orders
      BY <1>5
      DEF FinishImmediate, BaseInv, TypeOK, NoOrder, Resting, Pointers
    <2>2. \A k \in DOMAIN orders : orders[k] \in Order
      BY DEF BaseInv, TypeOK
    <2>3. /\ \A k \in DOMAIN orders : /\ orders'[k].side = orders[k].side
                                      /\ orders'[k].type = orders[k].type
          /\ orders'[taker].unfilled = orders[taker].remaining
          /\ taker' = taker /\ Resting' = Resting
      BY <1>5, <2>1, <2>2 DEF FinishImmediate, Order, Resting
    <2>4. orders'[taker].unfilled > 0 => ~IsFilled(orders[taker])
      BY <2>3 DEF IsFilled
    <2> QED
      BY <1>5, <2>1, <2>3, <2>4, ExhaustedAtFinish
      DEF FinishImmediate, MarketExhaustsBook
  <1>6. CASE FinishFilled \/ FinishRest \/ FinishPanics
    <2>1. /\ orders' = orders /\ taker' = taker
          /\ orders[taker].type # "market"
      BY <1>6 DEF FinishFilled, FinishRest, FinishPanics, bookVars
    <2> QED
      BY <2>1 DEF MarketExhaustsBook
  <1>7. ASSUME NEW id \in CancelIDs, CancelOrder(id)
        PROVE  MarketExhaustsBook'
    BY <1>7, MarketCancelOrder
  <1>8. CASE UNCHANGED vars
    BY <1>8 DEF vars, bookVars, loopVars, MarketExhaustsBook, Resting
  <1> QED
    BY <1>1, <1>2, <1>3, <1>4, <1>5, <1>6, <1>7, <1>8 DEF Next

\* When no two orders share an ID, a market order that leaves something
\* unfilled leaves no order on the other side: the scan skipped none.
THEOREM MarketTakesAll ==
    ASSUME UniqueIDs PROVE Spec => []MarketExhaustsBook
  <1>1. Init => MarketExhaustsBook
    BY DEF Init, MarketExhaustsBook
  <1>2. BaseInv /\ BookInv /\ MarketExhaustsBook /\ [Next]_vars
            => MarketExhaustsBook'
    BY MarketNext
  <1> QED
    BY <1>1, <1>2, BaseAlways, BookAlways, PTL DEF Spec

(* What is closed stays closed *)

LEMMA ClosedStaysClosed ==
    ASSUME BaseInv, Next, NEW k \in Pointers, Final(k)
    PROVE  orders'[k] = orders[k]
  <1>1. /\ ~IsActive(orders[k])
        /\ pc # "idle" => k # taker /\ k \notin InFlight
    BY DEF Final, InFlight
  <1>2. ASSUME NEW r \in Requests, AddOrder(r) PROVE orders'[k] = orders[k]
    <2>1. /\ orders \in Seq(Order) /\ Len(orders) \in Nat
          /\ orders' = Append(orders, NewOrderInBook(r))
      BY <1>2, LenProperties DEF BaseInv, TypeOK, AddOrder
    <2> QED
      BY <2>1 DEF Pointers
  <1>3. CASE MatchNext
    <2>1. PICK opp, q : MatchedWith(opp, q)
      BY <1>3, MatchNextTrades
    <2>2. k # opp /\ k # taker
      BY <1>1, <1>3, <2>1 DEF MatchedWith, Unvisited, MatchNext
    <2> QED
      BY <2>1, <2>2 DEF MatchedWith
  <1>4. CASE Rollback
    <2>1. pc = "match" /\ k # taker /\ k \notin DOMAIN restored
      BY <1>1, <1>4 DEF Rollback, BaseInv, LogSound
    <2> QED
      BY <1>4, <2>1 DEF Rollback
  <1>5. CASE FinishImmediate
    <2>1. k # taker
      BY <1>1, <1>5 DEF FinishImmediate
    <2>2. /\ orders \in Seq(Order) /\ k \in DOMAIN orders
          /\ orders' = [orders EXCEPT
                            ![taker].unfilled = orders[taker].remaining,
                            ![taker].status = "filled"]
      BY <1>5 DEF FinishImmediate, BaseInv, TypeOK, Pointers
    <2> QED
      BY <2>1, <2>2
  <1>6. CASE NextLevel \/ EndMatch \/ CleanupBuys \/ CleanupSells
             \/ FinishFilled \/ FinishRest \/ FinishPanics
    BY <1>6
    DEF NextLevel, EndMatch, CleanupBuys, CleanupSells, FinishFilled,
        FinishRest, FinishPanics, bookVars
  <1>7. ASSUME NEW id \in CancelIDs, CancelOrder(id)
        PROVE  orders'[k] = orders[k]
    <2>1. Found(id) \in Resting
      <3>1. \E j \in Resting : orders[j].id = id
        BY <1>7 DEF CancelOrder, Resting
      <3> QED
        BY <3>1, FoundIsListed
    <2>2. IsActive(orders[Found(id)])
      BY <1>7, <2>1 DEF CancelOrder, BaseInv, ListsSound
    <2>3. k # Found(id)
      BY <1>1, <2>2
    <2> QED
      BY <1>7, <2>3 DEF CancelOrder
  <1> QED
    BY <1>2, <1>3, <1>4, <1>5, <1>6, <1>7 DEF Next

\* However orders share IDs, a filled, cancelled or rejected order is never
\* touched again: not by a later match, not by a later FOK rollback.
THEOREM ClosedForGood == Spec => FinalIsForever
  <1>1. BaseInv /\ [Next]_vars =>
            [\A k \in Pointers : Final(k) => orders'[k] = orders[k]]_vars
    BY ClosedStaysClosed
  <1> QED
    BY <1>1, BaseAlways, PTL DEF Spec, FinalIsForever

(* The tape accounts for every fill *)

\* What the beginnings of s take from the order at k.
Sums(k, s, f) ==
    f = [n \in 0..Len(s) |-> IF n = 0 THEN 0 ELSE f[n - 1] + Share(k, s[n])]

\* The recursion of Dealt defines a function.
LEMMA SumsExist ==
    ASSUME NEW k, NEW s \in Seq(TradeRecord)
    PROVE  \E f : Sums(k, s, f)
  <1> DEFINE Upto(m, g) ==
                g = [n \in 0..m |-> IF n = 0 THEN 0 ELSE g[n - 1] + Share(k, s[n])]
             Fine == {m \in 0..Len(s) : \E g : Upto(m, g)}
  <1>1. 0 \in Fine
    <2> DEFINE g == [n \in 0..0 |-> 0]
    <2>1. Upto(0, g)
      OBVIOUS
    <2>2. \E f : Upto(0, f)
      BY <2>1
    <2> QED
      BY <2>2
  <1>2. ASSUME NEW m \in 1..Len(s), m - 1 \in Fine
        PROVE  m \in Fine
    <2>1. PICK g : Upto(m - 1, g)
      BY <1>2
    <2> DEFINE new == g[m - 1] + Share(k, s[m])
               h == [n \in 0..m |-> IF n = m THEN new ELSE g[n]]
    <2>2. \A n \in 0..(m - 1) : h[n] = g[n]
      OBVIOUS
    <2>3. h[m] = h[m - 1] + Share(k, s[m])
      BY <2>2
    <2>4. ASSUME NEW n \in 1..(m - 1)
          PROVE  h[n] = h[n - 1] + Share(k, s[n])
      <3>1. n \in 0..(m - 1) /\ n - 1 \in 0..(m - 1) /\ n # 0
        OBVIOUS
      <3>2. g[n] = g[n - 1] + Share(k, s[n])
        BY <2>1, <3>1
      <3> QED
        BY <2>2, <3>1, <3>2
    <2>5. h[0] = 0
      BY <2>1
    <2>6. h = [n \in 0..m |-> h[n]]
      OBVIOUS
    <2> HIDE DEF h
    <2>7. \A n \in 0..m : h[n] = IF n = 0 THEN 0 ELSE h[n - 1] + Share(k, s[n])
      BY <2>3, <2>4, <2>5
    <2>8. Upto(m, h)
      BY <2>6, <2>7
    <2>9. \E f : Upto(m, f)
      BY <2>8
    <2> QED
      BY <2>9
  <1>3. Len(s) \in Nat /\ Len(s) \in 0..Len(s)
    OBVIOUS
  <1> HIDE DEF Fine
  <1>4. Len(s) \in Fine
    BY <1>1, <1>2, <1>3, AllNumbers
  <1> QED
    BY <1>4 DEF Sums, Fine

LEMMA ShareIsNumber ==
    ASSUME NEW k, NEW t \in TradeRecord PROVE Share(k, t) \in Nat
  BY DEF Share, TradeRecord

\* Dealt is the last of these sums, which are numbers.
LEMMA DealtIsLast ==
    ASSUME NEW k, NEW s \in Seq(TradeRecord)
    PROVE  \E f : /\ Sums(k, s, f) /\ Dealt(k, s) = f[Len(s)]
                  /\ \A n \in 0..Len(s) : f[n] \in Nat
  <1> DEFINE f == CHOOSE g : Sums(k, s, g)
  <1>1. Sums(k, s, f)
    BY SumsExist
  <1>2. Dealt(k, s) = f[Len(s)]
    BY DEF Dealt, Sums
  <1> HIDE DEF f
  <1> DEFINE Fine == {n \in 0..Len(s) : f[n] \in Nat}
  <1>3. 0 \in Fine
    BY <1>1 DEF Sums
  <1>4. ASSUME NEW n \in 1..Len(s), n - 1 \in Fine
        PROVE  n \in Fine
    <2>1. n \in 0..Len(s) /\ n # 0 /\ f[n - 1] \in Nat
      BY <1>4
    <2>2. f[n] = f[n - 1] + Share(k, s[n])
      BY <1>1, <2>1 DEF Sums
    <2>3. Share(k, s[n]) \in Nat
      <3>1. s[n] \in TradeRecord
        OBVIOUS
      <3> QED
        BY <3>1, ShareIsNumber
    <2> QED
      BY <2>1, <2>2, <2>3
  <1>5. Len(s) \in Nat
    OBVIOUS
  <1> HIDE DEF Fine
  <1>6. \A n \in 0..Len(s) : n \in Fine
    BY <1>3, <1>4, <1>5, AllNumbers
  <1>7. \A n \in 0..Len(s) : f[n] \in Nat
    BY <1>6 DEF Fine
  <1> QED
    BY <1>1, <1>2, <1>7

Alike(s, t, m) ==
    m \in Nat /\ m <= Len(s) /\ m <= Len(t) /\ \A i \in 1..m : s[i] = t[i]

\* Two lists of trades that begin alike have the same sums so far.
LEMMA SumsAgree ==
    ASSUME NEW k, NEW s \in Seq(TradeRecord), NEW t \in Seq(TradeRecord),
           NEW f, NEW g, Sums(k, s, f), Sums(k, t, g), NEW m, Alike(s, t, m)
    PROVE  f[m] = g[m]
  <1> USE DEF Alike
  <1> DEFINE Fine == {n \in 0..m : f[n] = g[n]}
  <1>1. 0 \in Fine
    BY DEF Sums
  <1>2. ASSUME NEW n \in 1..m, n - 1 \in Fine
        PROVE  n \in Fine
    <2>1. n \in 0..Len(s) /\ n \in 0..Len(t) /\ n # 0 /\ n \in 0..m
      OBVIOUS
    <2>2. f[n] = f[n - 1] + Share(k, s[n]) /\ g[n] = g[n - 1] + Share(k, t[n])
      BY <2>1 DEF Sums
    <2> QED
      BY <1>2, <2>1, <2>2
  <1> HIDE DEF Fine
  <1>3. \A n \in 0..m : n \in Fine
    BY <1>1, <1>2, AllNumbers
  <1>4. m \in Fine
    BY <1>3
  <1> QED
    BY <1>4 DEF Fine

LEMMA DealtEmpty == ASSUME NEW k PROVE Dealt(k, <<>>) = 0
  <1>1. <<>> \in Seq(TradeRecord) /\ Len(<<>>) = 0
    OBVIOUS
  <1>2. PICK f : Sums(k, <<>>, f) /\ Dealt(k, <<>>) = f[0]
    BY <1>1, DealtIsLast
  <1> QED
    BY <1>1, <1>2 DEF Sums

\* What a list of trades takes is a number, the sum of what its parts take.
LEMMA DealtConcat ==
    ASSUME NEW k, NEW s \in Seq(TradeRecord), NEW t \in Seq(TradeRecord)
    PROVE  /\ Dealt(k, s) \in Nat /\ Dealt(k, t) \in Nat
           /\ Dealt(k, s \o t) = Dealt(k, s) + Dealt(k, t)
  <1> DEFINE u == s \o t
  <1>1. /\ u \in Seq(TradeRecord) /\ Len(u) = Len(s) + Len(t)
        /\ \A i \in 1..Len(s) : u[i] = s[i]
        /\ \A i \in 1..Len(t) : u[Len(s) + i] = t[i]
        /\ Len(s) \in Nat /\ Len(t) \in Nat
    BY ConcatProperties, LenProperties
  <1> HIDE DEF u
  <1>2. PICK f : /\ Sums(k, s, f) /\ Dealt(k, s) = f[Len(s)]
                 /\ \A n \in 0..Len(s) : f[n] \in Nat
    BY DealtIsLast
  <1>3. PICK g : /\ Sums(k, t, g) /\ Dealt(k, t) = g[Len(t)]
                 /\ \A n \in 0..Len(t) : g[n] \in Nat
    BY DealtIsLast
  <1>4. PICK h : Sums(k, u, h) /\ Dealt(k, u) = h[Len(u)]
    BY <1>1, DealtIsLast
  <1>5. h[Len(s)] = f[Len(s)]
    <2>1. Alike(s, u, Len(s))
      BY <1>1 DEF Alike
    <2>2. f[Len(s)] = h[Len(s)]
      BY <1>1, <1>2, <1>4, <2>1, SumsAgree
    <2> QED
      BY <2>2
  <1> DEFINE Fine == {n \in 0..Len(t) : h[Len(s) + n] = f[Len(s)] + g[n]}
  <1>6. 0 \in Fine
    <2>1. g[0] = 0 /\ f[Len(s)] \in Nat /\ 0 \in 0..Len(t)
      <3>1. 0 \in 0..Len(t) /\ Len(s) \in 0..Len(s)
        BY <1>1
      <3>2. g[0] = 0
        BY ONLY <3>1, <1>3 DEF Sums
      <3> QED
        BY ONLY <3>1, <3>2, <1>2
    <2>2. Len(s) + 0 = Len(s) /\ f[Len(s)] + 0 = f[Len(s)]
      BY <1>1, <2>1
    <2> QED
      BY ONLY <1>5, <2>1, <2>2
  <1>7. ASSUME NEW n \in 1..Len(t), n - 1 \in Fine
        PROVE  n \in Fine
    <2>1. /\ n \in 0..Len(t) /\ n # 0 /\ Len(s) + n \in 0..Len(u)
          /\ Len(s) + n # 0 /\ (Len(s) + n) - 1 = Len(s) + (n - 1)
          /\ n - 1 \in 0..Len(t)
      BY <1>1
    <2>2. h[Len(s) + n] = h[(Len(s) + n) - 1] + Share(k, u[Len(s) + n])
      BY <1>4, <2>1 DEF Sums
    <2>3. g[n] = g[n - 1] + Share(k, t[n]) /\ u[Len(s) + n] = t[n]
      BY <1>1, <1>3, <2>1 DEF Sums
    <2>4. h[Len(s) + (n - 1)] = f[Len(s)] + g[n - 1]
      BY <1>7
    <2>5. Share(k, t[n]) \in Nat /\ f[Len(s)] \in Nat /\ g[n - 1] \in Nat
      <3>1. t[n] \in TradeRecord
        OBVIOUS
      <3> QED
        BY <3>1, <1>1, <1>2, <1>3, <2>1, ShareIsNumber
    <2> QED
      BY <2>1, <2>2, <2>3, <2>4, <2>5
  <1> HIDE DEF Fine
  <1>8. Len(t) \in Fine
    <2>1. \A n \in 0..Len(t) : n \in Fine
      BY <1>1, <1>6, <1>7, AllNumbers
    <2> QED
      BY <1>1, <2>1
  <1>9. h[Len(s) + Len(t)] = f[Len(s)] + g[Len(t)]
    BY <1>8 DEF Fine
  <1>10. f[Len(s)] \in Nat /\ g[Len(t)] \in Nat
    BY <1>1, <1>2, <1>3
  <1> QED
    BY <1>1, <1>2, <1>3, <1>4, <1>9, <1>10 DEF u

\* One more trade takes its share.
LEMMA DealtAppend ==
    ASSUME NEW k, NEW s \in Seq(TradeRecord), NEW t \in TradeRecord
    PROVE  /\ Dealt(k, s) \in Nat
           /\ Dealt(k, Append(s, t)) = Dealt(k, s) + Share(k, t)
  <1>1. /\ <<t>> \in Seq(TradeRecord) /\ Len(<<t>>) = 1 /\ <<t>>[1] = t
        /\ Append(s, t) = s \o <<t>>
    OBVIOUS
  <1>2. PICK f : Sums(k, <<t>>, f) /\ Dealt(k, <<t>>) = f[1]
    BY <1>1, DealtIsLast
  <1>3. f[1] = f[0] + Share(k, t) /\ f[0] = 0
    BY <1>1, <1>2 DEF Sums
  <1>4. Share(k, t) \in Nat
    BY ShareIsNumber
  <1>5. Dealt(k, <<t>>) = Share(k, t)
    BY <1>2, <1>3, <1>4
  <1>6. /\ Dealt(k, s) \in Nat
        /\ Dealt(k, s \o <<t>>) = Dealt(k, s) + Dealt(k, <<t>>)
    BY <1>1, DealtConcat
  <1> QED
    BY <1>1, <1>5, <1>6

\* Trades that do not name an order take nothing from it.
LEMMA DealtNone ==
    ASSUME NEW k, NEW s \in Seq(TradeRecord),
           \A i \in DOMAIN s : k \notin {s[i].buy, s[i].sell}
    PROVE  Dealt(k, s) = 0
  <1>1. PICK f : Sums(k, s, f) /\ Dealt(k, s) = f[Len(s)]
    BY DealtIsLast
  <1> DEFINE Fine == {n \in 0..Len(s) : f[n] = 0}
  <1>2. 0 \in Fine
    BY <1>1 DEF Sums
  <1>3. ASSUME NEW n \in 1..Len(s), n - 1 \in Fine
        PROVE  n \in Fine
    <2>1. n \in 0..Len(s) /\ n # 0 /\ f[n - 1] = 0 /\ n \in DOMAIN s
      BY <1>3
    <2>2. f[n] = f[n - 1] + Share(k, s[n])
      BY <1>1, <2>1 DEF Sums
    <2>3. Share(k, s[n]) = 0
      BY <2>1 DEF Share
    <2> QED
      BY <2>1, <2>2, <2>3
  <1>4. Len(s) \in Nat /\ Len(s) \in 0..Len(s)
    OBVIOUS
  <1> HIDE DEF Fine
  <1>5. Len(s) \in Fine
    BY <1>2, <1>3, <1>4, AllNumbers
  <1> QED
    BY <1>1, <1>5 DEF Fine

LEMMA TapeInit == Init => TapeInv
  <1> SUFFICES ASSUME Init PROVE TapeInv
    OBVIOUS
  <1> QED
    BY DEF Init, TapeInv, Unpublished, Pointers

\* What the lists of trades are, and that they are numbers what they take.
LEMMA TapeFacts ==
    ASSUME BaseInv
    PROVE  /\ tape \in Seq(TradeRecord) /\ tradesList \in Seq(TradeRecord)
           /\ Unpublished \in Seq(TradeRecord)
           /\ \A k : Dealt(k, tape) \in Nat /\ Dealt(k, Unpublished) \in Nat
           /\ \A k \in Pointers : orders[k] \in Order /\ orders[k].filled \in Nat
  <1>1. /\ tape \in Seq(TradeRecord) /\ tradesList \in Seq(TradeRecord)
        /\ \A k \in Pointers : orders[k] \in Order
    BY DEF BaseInv, TypeOK, Pointers
  <1>2. Unpublished \in Seq(TradeRecord)
    BY <1>1 DEF Unpublished
  <1>3. \A k : Dealt(k, tape) \in Nat /\ Dealt(k, Unpublished) \in Nat
    BY <1>1, <1>2, DealtConcat
  <1>4. \A o \in Order : o.filled \in Nat
    BY DEF Order
  <1> QED
    BY <1>1, <1>2, <1>3, <1>4

LEMMA TapeAddOrder ==
    ASSUME BaseInv, TapeInv, NEW r \in Requests, AddOrder(r)
    PROVE  TapeInv'
  <1> DEFINE new == Len(orders) + 1
             o == NewOrderInBook(r)
  <1>1. /\ pc = "idle" /\ pc' = "match" /\ tape' = tape /\ tradesList' = <<>>
        /\ orders' = Append(orders, o) /\ taker' = new
        /\ restored' = EmptyLog
    BY DEF AddOrder
  <1>2. o.filled = 0
    BY DEF NewOrderInBook
  <1> HIDE DEF o
  <1>3. orders \in Seq(Order) /\ Len(orders) \in Nat
    BY DEF BaseInv, TypeOK
  <1>4. /\ Pointers' = Pointers \cup {new} /\ new \notin Pointers
        /\ \A k \in Pointers : orders'[k] = orders[k]
        /\ orders'[new] = o
    BY <1>1, <1>3 DEF Pointers
  <1> HIDE DEF new
  <1>5. Unpublished = <<>> /\ Unpublished' = <<>>
    BY <1>1 DEF Unpublished
  <1>6. \A k : Dealt(k, <<>>) = 0
    BY DealtEmpty
  <1>7. \A k : Dealt(k, tape) \in Nat
    BY TapeFacts
  <1>8. Dealt(new, tape) = 0
    <2>1. \A i \in DOMAIN tape : new \notin {tape[i].buy, tape[i].sell}
      BY <1>4 DEF TapeInv
    <2> QED
      BY <2>1, DealtNone, TapeFacts
  <1>9. ASSUME NEW k \in Pointers', Counts(k)'
        PROVE  orders'[k].filled = Dealt(k, tape) + Dealt(k, Unpublished')
    <2>1. CASE k = new
      BY <2>1, <1>2, <1>4, <1>5, <1>6, <1>8
    <2>2. CASE k \in Pointers
      <3>1. k # taker' /\ Counts(k)
        BY <2>2, <1>1, <1>4, <1>9 DEF Counts
      <3>2. orders[k].filled = Dealt(k, tape) + Dealt(k, Unpublished)
        BY <2>2, <3>1 DEF TapeInv
      <3> QED
        BY <3>2, <2>2, <1>4, <1>5
    <2> QED
      BY <2>1, <2>2, <1>4
  <1>10. DOMAIN restored' = {}
    BY <1>1 DEF EmptyLog
  <1>11. \A i \in DOMAIN tape' :
            {tape'[i].buy, tape'[i].sell} \subseteq Pointers'
    BY <1>1, <1>4 DEF TapeInv
  <1>12. /\ \A i \in DOMAIN Unpublished' : FALSE
         /\ \A k : Dealt(k, Unpublished') = 0
    BY <1>5, <1>6
  <1> QED
    BY <1>1, <1>9, <1>10, <1>11, <1>12 DEF TapeInv

LEMMA TapeMatchNext ==
    ASSUME BaseInv, TapeInv, MatchNext
    PROVE  TapeInv'
  <1>1. PICK opp, q : MatchedWith(opp, q)
    BY MatchNextTrades
  <1>2. PICK t \in TradeRecord :
            /\ tradesList' = Append(tradesList, t)
            /\ {t.buy, t.sell} = {taker, opp} /\ t.qty = q
    <2>1. LET t == TradeWith(opp, q) IN
            {t.buy, t.sell} = {taker, opp} /\ t.qty = q
      BY DEF TradeWith
    <2> QED
      BY <1>1, <2>1 DEF MatchedWith, Recorded
  <1>3. /\ pc = "match" /\ pc' # "idle" /\ tape' = tape /\ taker' = taker
        /\ Pointers' = Pointers
        /\ opp \in Pointers \ {taker} /\ taker \in Pointers
        /\ q \in Nat \ {0}
    BY <1>1 DEF MatchNext, Trade, MatchedWith, Pointers
  <1>4. Unpublished = tradesList /\ Unpublished' = tradesList'
    BY <1>3 DEF Unpublished
  <1>5. /\ tradesList \in Seq(TradeRecord) /\ tape \in Seq(TradeRecord)
        /\ \A k : Dealt(k, tape) \in Nat /\ Dealt(k, tradesList) \in Nat
        /\ \A k \in Pointers : orders[k] \in Order /\ orders[k].filled \in Nat
    BY <1>4, TapeFacts
  <1>6. /\ \A k : k \notin {taker, opp} =>
                    Dealt(k, tradesList') = Dealt(k, tradesList)
        /\ \A k \in {taker, opp} :
                    Dealt(k, tradesList') = Dealt(k, tradesList) + q
    <2>1. \A k : Dealt(k, tradesList') = Dealt(k, tradesList) + Share(k, t)
      BY <1>2, <1>5, DealtAppend
    <2>2. \A k : Share(k, t) = IF k \in {taker, opp} THEN q ELSE 0
      BY <1>2 DEF Share
    <2> QED
      BY <2>1, <2>2, <1>5
  <1>7. IsActive(orders[taker]) /\ IsActive(orders[opp])
    BY <1>1, <1>3 DEF BaseInv, ListsSound, MatchedWith, Unvisited
  <1>8. /\ \A k \in {taker, opp} :
            /\ orders'[k] = Fill(orders[k], q)
            /\ Fill(orders[k], q).filled = orders[k].filled + q
            /\ q = orders[k].remaining => ~IsActive(Fill(orders[k], q))
            /\ Counts(k)
        /\ \A k \in Pointers \ {taker, opp} : orders'[k] = orders[k]
    <2>1. ASSUME NEW o \in Order
          PROVE  /\ Fill(o, q).filled = o.filled + q
                 /\ q = o.remaining => ~IsActive(Fill(o, q))
      BY DEF Fill, Order, IsActive
    <2>2. Counts(taker) /\ Counts(opp)
      BY <1>7 DEF Counts, IsActive
    <2> QED
      BY <2>1, <2>2, <1>1, <1>3, <1>5 DEF MatchedWith
  <1>9. ASSUME NEW k \in Pointers, Counts(k)'
        PROVE  orders'[k].filled = Dealt(k, tape) + Dealt(k, tradesList')
    <2>1. Counts(k) => orders[k].filled = Dealt(k, tape) + Dealt(k, tradesList)
      BY <1>4 DEF TapeInv
    <2>2. CASE k \in {taker, opp}
      <3> DEFINE told == Dealt(k, tape)
                 made == Dealt(k, tradesList)
      <3>1. orders'[k].filled = orders[k].filled + q
        BY <2>2, <1>8
      <3>2. Counts(k)
        BY <2>2, <1>8
      <3>3. orders[k].filled = told + made /\ Dealt(k, tradesList') = made + q
        BY <2>1, <2>2, <3>2, <1>6
      <3>4. told \in Nat /\ made \in Nat /\ q \in Nat
        BY <1>3, <1>5
      <3> HIDE DEF told, made
      <3>5. (told + made) + q = told + (made + q)
        BY <3>4
      <3> QED
        BY <3>1, <3>3, <3>5 DEF told
    <2>3. CASE k \notin {taker, opp}
      <3>1. orders'[k] = orders[k]
        BY <2>3, <1>8
      <3>2. Counts(k)
        BY <3>1, <2>3, <1>3, <1>9 DEF Counts
      <3> QED
        BY <2>1, <3>1, <3>2, <2>3, <1>6
    <2> QED
      BY <2>2, <2>3
  <1>10. ASSUME pc' = "match", NEW k \in Pointers \ {taker}
         PROVE  IF k \in DOMAIN restored'
                THEN ~IsActive(orders'[k]) /\ restored'[k].filled = Dealt(k, tape)
                ELSE Dealt(k, tradesList') = 0
    <2>1. /\ DOMAIN restored' = DOMAIN restored \cup {opp}
          /\ restored'[opp] = orders[opp]
          /\ \A j \in DOMAIN restored \ {opp} : restored'[j] = restored[j]
          /\ q = orders[opp].remaining
      BY <1>1, <1>10 DEF MatchedWith
    <2>2. /\ opp \notin DOMAIN restored /\ Dealt(opp, tradesList) = 0
      BY <1>3, <1>4, <1>7 DEF TapeInv
    <2>3. CASE k = opp
      <3>1. orders[opp].filled = Dealt(opp, tape) + Dealt(opp, tradesList)
        BY <1>3, <1>4, <1>8 DEF TapeInv
      <3>2. orders[opp].filled = Dealt(opp, tape)
        BY <3>1, <2>2, <1>5
      <3> QED
        BY <3>2, <2>1, <2>3, <1>8
    <2>4. CASE k # opp
      <3>1. orders'[k] = orders[k] /\ Dealt(k, tradesList') = Dealt(k, tradesList)
        BY <2>4, <1>6, <1>8
      <3>2. IF k \in DOMAIN restored
            THEN ~IsActive(orders[k]) /\ restored[k].filled = Dealt(k, tape)
            ELSE Dealt(k, tradesList) = 0
        BY <1>3, <1>4 DEF TapeInv
      <3> QED
        BY <3>1, <3>2, <2>1, <2>4
    <2> QED
      BY <2>3, <2>4
  <1>11. \A i \in DOMAIN tradesList' :
            {tradesList'[i].buy, tradesList'[i].sell} \subseteq Pointers
    <2>1. /\ DOMAIN tradesList' = DOMAIN tradesList \cup {Len(tradesList) + 1}
          /\ \A i \in DOMAIN tradesList : tradesList'[i] = tradesList[i]
          /\ tradesList'[Len(tradesList) + 1] = t
      BY <1>2, <1>5, AppendProperties, LenProperties
    <2>2. \A i \in DOMAIN tradesList :
            {tradesList[i].buy, tradesList[i].sell} \subseteq Pointers
      BY <1>4 DEF TapeInv
    <2> QED
      BY <2>1, <2>2, <1>2, <1>3
  <1>12. \A i \in DOMAIN tape : {tape[i].buy, tape[i].sell} \subseteq Pointers
    BY DEF TapeInv
  <1> QED
    BY <1>3, <1>4, <1>9, <1>10, <1>11, <1>12 DEF TapeInv

\* Between the trades and the return, and in the loop from level to level, no
\* order's numbers move.
LEMMA TapeRunning ==
    ASSUME BaseInv, TapeInv,
           NextLevel \/ EndMatch \/ CleanupBuys \/ CleanupSells
    PROVE  TapeInv'
  <1>1. /\ UNCHANGED <<orders, taker, restored, tradesList, tape>>
        /\ pc # "idle" /\ pc' # "idle" /\ (pc' = "match" => pc = "match")
    BY DEF NextLevel, EndMatch, CleanupBuys, CleanupSells, bookVars
  <1>2. Unpublished' = Unpublished /\ Pointers' = Pointers
    BY <1>1 DEF Unpublished, Pointers
  <1>3. \A k : Counts(k)' <=> Counts(k)
    BY <1>1 DEF Counts
  <1> QED
    BY <1>1, <1>2, <1>3 DEF TapeInv

\* A killed FOK puts back what the orders it met had filled before, which is
\* what the tape it does not touch says.
LEMMA TapeRollback ==
    ASSUME BaseInv, TapeInv, Rollback
    PROVE  TapeInv'
  <1>1. /\ pc = "match" /\ pc' = "idle" /\ tape' = tape /\ taker' = taker
        /\ taker \in Pointers /\ Pointers' = Pointers
    <2>1. Pointers' = Pointers
      BY BaseRollback DEF KeepsRequests
    <2>2. pc = "match" /\ pc' = "idle" /\ tape' = tape /\ taker' = taker
      BY DEF Rollback
    <2>3. taker \in Pointers
      BY <2>2 DEF BaseInv, TypeOK, NoOrder, Pointers
    <2> QED
      BY <2>1, <2>2, <2>3
  <1>2. Unpublished' = <<>> /\ \A k : Dealt(k, <<>>) = 0
    BY <1>1, DealtEmpty DEF Unpublished
  <1>3. \A k : Dealt(k, tape) \in Nat
    BY TapeFacts
  <1>4. ASSUME NEW k \in Pointers, Counts(k)'
        PROVE  orders'[k].filled = Dealt(k, tape)
    <2>1. k # taker
      <3>1. orders[taker] \in Order
        BY <1>1, TapeFacts
      <3>2. orders'[taker].status = "rejected"
        BY <3>1, <1>1 DEF Rollback, Order
      <3> QED
        BY <3>2, <1>1, <1>4 DEF Counts
    <2>2. CASE k \in DOMAIN restored
      <3>1. orders[k] \in Order /\ orders'[k] = Undone(orders[k], restored[k])
        BY <2>1, <2>2, TapeFacts DEF Rollback
      <3>2. orders'[k].filled = restored[k].filled
        BY <3>1 DEF Undone, Order
      <3> QED
        BY <3>2, <2>1, <2>2, <1>1 DEF TapeInv
    <2>3. CASE k \notin DOMAIN restored
      <3>1. orders'[k] = orders[k]
        BY <2>1, <2>3 DEF Rollback
      <3>2. Counts(k)
        BY <3>1, <1>1, <1>4 DEF Counts
      <3>3. Dealt(k, Unpublished) = 0
        BY <2>1, <2>3, <1>1 DEF TapeInv
      <3>4. orders[k].filled = Dealt(k, tape) + Dealt(k, Unpublished)
        BY <3>2 DEF TapeInv
      <3> QED
        BY <3>1, <3>3, <3>4, <1>3
    <2> QED
      BY <2>2, <2>3
  <1>5. \A k \in Pointers : Counts(k)' =>
            orders'[k].filled = Dealt(k, tape) + Dealt(k, Unpublished')
    BY <1>2, <1>3, <1>4
  <1>6. \A i \in DOMAIN tape : {tape[i].buy, tape[i].sell} \subseteq Pointers
    BY DEF TapeInv
  <1> QED
    BY <1>1, <1>2, <1>5, <1>6 DEF TapeInv

\* The call returns: what it traded is published, and no number moves.
LEMMA TapePublished ==
    ASSUME BaseInv, TapeInv, pc # "idle", pc' = "idle",
           tape' = tape \o tradesList, Pointers' = Pointers,
           \A k \in Pointers : /\ orders'[k].filled = orders[k].filled
                               /\ Counts(k)' => Counts(k)
    PROVE  TapeInv'
  <1>1. Unpublished = tradesList /\ Unpublished' = <<>>
    BY DEF Unpublished
  <1>2. /\ tape \in Seq(TradeRecord) /\ tradesList \in Seq(TradeRecord)
        /\ \A k : Dealt(k, tape) \in Nat /\ Dealt(k, tradesList) \in Nat
    BY <1>1, TapeFacts
  <1>3. \A k : /\ Dealt(k, tape') = Dealt(k, tape) + Dealt(k, tradesList)
               /\ Dealt(k, <<>>) = 0
    BY <1>2, DealtConcat, DealtEmpty
  <1>4. \A k \in Pointers : Counts(k)' =>
            orders'[k].filled = Dealt(k, tape') + Dealt(k, Unpublished')
    <2> TAKE k \in Pointers
    <2>1. Counts(k) => orders[k].filled = Dealt(k, tape) + Dealt(k, tradesList)
      BY <1>1 DEF TapeInv
    <2>2. Dealt(k, tape) + Dealt(k, tradesList) =
            (Dealt(k, tape) + Dealt(k, tradesList)) + 0
      BY <1>2
    <2> QED
      BY <2>1, <2>2, <1>1, <1>3
  <1>5. \A i \in DOMAIN tape' :
            {tape'[i].buy, tape'[i].sell} \subseteq Pointers
    <2>1. /\ \A i \in DOMAIN tape :
                {tape[i].buy, tape[i].sell} \subseteq Pointers
          /\ \A i \in DOMAIN tradesList :
                {tradesList[i].buy, tradesList[i].sell} \subseteq Pointers
      BY <1>1 DEF TapeInv
    <2> TAKE i \in DOMAIN tape'
    <2>2. \/ i \in DOMAIN tape /\ tape'[i] = tape[i]
          \/ /\ i - Len(tape) \in DOMAIN tradesList
             /\ tape'[i] = tradesList[i - Len(tape)]
      BY <1>2
    <2> QED
      BY <2>1, <2>2
  <1> QED
    BY <1>1, <1>4, <1>5 DEF TapeInv

LEMMA TapeFinish ==
    ASSUME BaseInv, TapeInv, FinishImmediate \/ FinishFilled \/ FinishRest
    PROVE  TapeInv'
  <1>1. /\ pc # "idle" /\ pc' = "idle" /\ tape' = tape \o tradesList
        /\ taker' = taker
    BY DEF FinishImmediate, FinishFilled, FinishRest
  <1>2. CASE FinishImmediate
    <2>1. Pointers' = Pointers
      BY <1>2, BaseFinishImmediate DEF KeepsRequests
    <2>2. taker \in Pointers
      BY <1>1 DEF BaseInv, TypeOK, NoOrder, Pointers
    <2>3. ASSUME NEW k \in Pointers
          PROVE  /\ orders'[k].filled = orders[k].filled
                 /\ k # taker => orders'[k] = orders[k]
      <3>1. orders[k] \in Order /\ k \in DOMAIN orders
        BY TapeFacts DEF BaseInv, TypeOK, Pointers
      <3> QED
        BY <3>1, <1>2, <2>2 DEF FinishImmediate, Order
    <2>4. \A k \in Pointers : Counts(k)' => Counts(k)
      BY <1>1, <2>3 DEF Counts
    <2> QED
      BY <1>1, <2>1, <2>3, <2>4, TapePublished
  <1>3. CASE FinishFilled \/ FinishRest
    <2>1. orders' = orders
      BY <1>3 DEF FinishFilled, FinishRest, bookVars
    <2>2. Pointers' = Pointers /\ \A k \in Pointers : Counts(k)' => Counts(k)
      BY <1>1, <2>1 DEF Pointers, Counts
    <2> QED
      BY <1>1, <2>1, <2>2, TapePublished
  <1> QED
    BY <1>2, <1>3

LEMMA TapeCancelOrder ==
    ASSUME BaseInv, TapeInv, NEW id, CancelOrder(id)
    PROVE  TapeInv'
  <1> DEFINE f == Found(id)
  <1>1. /\ pc = "idle" /\ pc' = "idle" /\ tape' = tape
        /\ orders' = [orders EXCEPT ![f].status = "cancelled"]
    BY DEF CancelOrder, loopVars
  <1>2. f \in Pointers /\ IsActive(orders[f])
    <2>1. f \in Resting
      BY FoundIsListed DEF CancelOrder, Resting
    <2> QED
      BY <2>1, <1>1 DEF BaseInv, TypeOK, ListsSound, Resting
  <1> HIDE DEF f
  <1>3. Pointers' = Pointers
    BY BaseCancelOrder DEF KeepsRequests
  <1>4. ASSUME NEW k \in Pointers
        PROVE  /\ orders'[k].filled = orders[k].filled
               /\ k # f => orders'[k] = orders[k]
    <2>1. orders[k] \in Order /\ k \in DOMAIN orders
      BY TapeFacts DEF BaseInv, TypeOK, Pointers
    <2> QED
      BY <2>1, <1>1 DEF Order
  <1>5. \A k \in Pointers : Counts(k)' => Counts(k)
    BY <1>1, <1>2, <1>4 DEF Counts, IsActive
  <1>6. Unpublished' = <<>> /\ Unpublished = <<>>
    BY <1>1 DEF Unpublished
  <1> QED
    BY <1>1, <1>3, <1>4, <1>5, <1>6 DEF TapeInv

LEMMA TapeNext ==
    ASSUME UniqueIDs, BaseInv, BookInv, TapeInv, [Next]_vars
    PROVE  TapeInv'
  <1>1. ASSUME NEW r \in Requests, AddOrder(r) PROVE TapeInv'
    BY <1>1, TapeAddOrder
  <1>2. CASE MatchNext \/ Rollback
    BY <1>2, TapeMatchNext, TapeRollback
  <1>3. CASE NextLevel \/ EndMatch \/ CleanupBuys \/ CleanupSells
    BY <1>3, TapeRunning
  <1>4. CASE FinishImmediate \/ FinishFilled \/ FinishRest
    BY <1>4, TapeFinish
  <1>5. CASE FinishPanics
    BY <1>5 DEF BookInv, StructuresAgree, FinishPanics, OwnPrices
  <1>6. ASSUME NEW id \in CancelIDs, CancelOrder(id) PROVE TapeInv'
    BY <1>6, TapeCancelOrder
  <1>7. CASE UNCHANGED vars
    <2>1. UNCHANGED <<orders, taker, restored, tradesList, tape, pc>>
      BY <1>7 DEF vars, bookVars, loopVars
    <2>2. Unpublished' = Unpublished /\ Pointers' = Pointers
      BY <2>1 DEF Unpublished, Pointers
    <2>3. \A k : Counts(k)' <=> Counts(k)
      BY <2>1 DEF Counts
    <2> QED
      BY <2>1, <2>2, <2>3 DEF TapeInv
  <1> QED
    BY <1>1, <1>2, <1>3, <1>4, <1>5, <1>6, <1>7 DEF Next

\* What an order filled is what its published trades say, whatever rolled back
\* in between: no fill goes untold and no trade is told that did not happen, as
\* long as no two orders share an ID.
THEOREM TapeIsTrue == ASSUME UniqueIDs PROVE Spec => []TapeAccountsForFills
  <1>1. BaseInv /\ TapeInv => TapeAccountsForFills
    <2> SUFFICES ASSUME BaseInv, TapeInv, pc = "idle", NEW k \in Pointers,
                        orders[k].status # "rejected"
                 PROVE  orders[k].filled = Dealt(k, tape)
      BY DEF TapeAccountsForFills
    <2>1. orders[k].filled = Dealt(k, tape) + Dealt(k, Unpublished)
      BY DEF TapeInv, Counts
    <2>2. Dealt(k, Unpublished) = 0 /\ Dealt(k, tape) \in Nat
      BY DealtEmpty, TapeFacts DEF Unpublished
    <2> QED
      BY <2>1, <2>2
  <1>2. Init => TapeInv
    BY TapeInit
  <1>3. BaseInv /\ BookInv /\ TapeInv /\ [Next]_vars => TapeInv'
    BY TapeNext
  <1> QED
    BY <1>1, <1>2, <1>3, BaseAlways, BookAlways, PTL DEF Spec

(* The book implements the promise *)

\* The sums of f over the members of S up to each number.
Totals(f, S, n, g) ==
    g = [j \in 0..n |-> IF j = 0 THEN 0
                        ELSE g[j - 1] + (IF j \in S THEN f[j] ELSE 0)]

LEMMA TotalsExist ==
    ASSUME NEW f, NEW S, NEW n \in Nat
    PROVE  \E g : Totals(f, S, n, g)
  <1> DEFINE Fine == {m \in 0..n : \E g : Totals(f, S, m, g)}
  <1>1. 0 \in Fine
    <2> DEFINE g == [j \in 0..0 |-> 0]
    <2>1. Totals(f, S, 0, g)
      BY DEF Totals
    <2>2. \E h : Totals(f, S, 0, h)
      BY <2>1
    <2> QED
      BY <2>2
  <1>2. ASSUME NEW m \in 1..n, m - 1 \in Fine
        PROVE  m \in Fine
    <2>1. PICK g : Totals(f, S, m - 1, g)
      BY <1>2
    <2> DEFINE new == g[m - 1] + (IF m \in S THEN f[m] ELSE 0)
               h == [j \in 0..m |-> IF j = m THEN new ELSE g[j]]
    <2>2. \A j \in 0..(m - 1) : h[j] = g[j]
      OBVIOUS
    <2>3. h[m] = h[m - 1] + (IF m \in S THEN f[m] ELSE 0)
      BY <2>2
    <2>4. ASSUME NEW j \in 1..(m - 1)
          PROVE  h[j] = h[j - 1] + (IF j \in S THEN f[j] ELSE 0)
      <3>1. j \in 0..(m - 1) /\ j - 1 \in 0..(m - 1) /\ j # 0
        OBVIOUS
      <3>2. g[j] = g[j - 1] + (IF j \in S THEN f[j] ELSE 0)
        BY <2>1, <3>1 DEF Totals
      <3> QED
        BY <2>2, <3>1, <3>2
    <2>5. h[0] = 0
      BY <2>1 DEF Totals
    <2>6. h = [j \in 0..m |-> h[j]]
      OBVIOUS
    <2> HIDE DEF h
    <2>7. \A j \in 0..m : h[j] = IF j = 0 THEN 0
                                 ELSE h[j - 1] + (IF j \in S THEN f[j] ELSE 0)
      BY <2>3, <2>4, <2>5
    <2>8. Totals(f, S, m, h)
      BY <2>6, <2>7 DEF Totals
    <2>9. \E g1 : Totals(f, S, m, g1)
      BY <2>8
    <2> QED
      BY <2>9
  <1> HIDE DEF Fine
  <1>3. \A m \in 0..n : m \in Fine
    BY <1>1, <1>2, AllNumbers
  <1>4. n \in Fine
    BY <1>3
  <1> QED
    BY <1>4 DEF Fine

LEMMA SumIsTotal ==
    ASSUME NEW f, NEW S, NEW n \in Nat
    PROVE  \E g : Totals(f, S, n, g) /\ Promise!Sum(f, S, n) = g[n]
  <1> DEFINE g == CHOOSE h : Totals(f, S, n, h)
  <1>1. Totals(f, S, n, g)
    BY TotalsExist
  <1>2. Promise!Sum(f, S, n) = g[n]
    BY DEF Promise!Sum, Totals
  <1> QED
    BY <1>1, <1>2

\* A sum and the sum of one number less.
LEMMA SumStep ==
    ASSUME NEW f, NEW S, NEW n \in Nat \ {0}
    PROVE  Promise!Sum(f, S, n) =
                Promise!Sum(f, S, n - 1) + (IF n \in S THEN f[n] ELSE 0)
  <1>0. n - 1 \in Nat /\ n \in 0..n /\ n - 1 \in 0..n /\ n - 1 \in 0..(n - 1)
    OBVIOUS
  <1>1. PICK g : Totals(f, S, n, g) /\ Promise!Sum(f, S, n) = g[n]
    BY SumIsTotal
  <1>2. PICK h : Totals(f, S, n - 1, h) /\ Promise!Sum(f, S, n - 1) = h[n - 1]
    BY <1>0, SumIsTotal
  <1> DEFINE Fine == {m \in 0..(n - 1) : g[m] = h[m]}
  <1>3. 0 \in Fine
    BY <1>1, <1>2 DEF Totals
  <1>4. ASSUME NEW m \in 1..(n - 1), m - 1 \in Fine
        PROVE  m \in Fine
    <2>1. m \in 0..n /\ m \in 0..(n - 1) /\ m # 0
      OBVIOUS
    <2>2. /\ g[m] = g[m - 1] + (IF m \in S THEN f[m] ELSE 0)
          /\ h[m] = h[m - 1] + (IF m \in S THEN f[m] ELSE 0)
      BY <2>1, <1>1, <1>2 DEF Totals
    <2> QED
      BY <2>1, <2>2, <1>4
  <1> HIDE DEF Fine
  <1>5. \A m \in 0..(n - 1) : m \in Fine
    BY <1>0, <1>3, <1>4, AllNumbers
  <1>6. g[n - 1] = h[n - 1]
    BY <1>0, <1>5 DEF Fine
  <1>7. g[n] = g[n - 1] + (IF n \in S THEN f[n] ELSE 0)
    BY <1>0, <1>1 DEF Totals
  <1> QED
    BY <1>1, <1>2, <1>6, <1>7

LEMMA SumZero == ASSUME NEW f, NEW S PROVE Promise!Sum(f, S, 0) = 0
  <1>1. PICK g : Totals(f, S, 0, g) /\ Promise!Sum(f, S, 0) = g[0]
    BY SumIsTotal
  <1> QED
    BY <1>1 DEF Totals

\* f gives a number for each member of S that counts.
Numbers(f, S, n) == \A j \in 1..n : j \in S => f[j] \in Nat

\* A smaller set has no greater sum, and the sum is a number.
LEMMA SumGrows ==
    ASSUME NEW f, NEW S, NEW T, S \subseteq T, NEW N \in Nat, Numbers(f, T, N)
    PROVE  /\ Promise!Sum(f, S, N) \in Nat /\ Promise!Sum(f, T, N) \in Nat
           /\ Promise!Sum(f, S, N) <= Promise!Sum(f, T, N)
  <1> DEFINE s(n) == Promise!Sum(f, S, n)
             t(n) == Promise!Sum(f, T, n)
             Fine == {n \in 0..N : s(n) \in Nat /\ t(n) \in Nat /\ s(n) <= t(n)}
  <1>1. 0 \in Fine
    BY SumZero
  <1>2. ASSUME NEW n \in 1..N, n - 1 \in Fine
        PROVE  n \in Fine
    <2>1. n \in Nat \ {0} /\ n \in 0..N
      OBVIOUS
    <2>2. /\ s(n) = s(n - 1) + (IF n \in S THEN f[n] ELSE 0)
          /\ t(n) = t(n - 1) + (IF n \in T THEN f[n] ELSE 0)
      BY <2>1, SumStep
    <2>3. n \in T => f[n] \in Nat
      BY DEF Numbers
    <2>4. s(n - 1) \in Nat /\ t(n - 1) \in Nat /\ s(n - 1) <= t(n - 1)
      BY <1>2
    <2> HIDE DEF s, t
    <2> QED
      BY <2>1, <2>2, <2>3, <2>4
  <1> HIDE DEF Fine
  <1>3. \A n \in 0..N : n \in Fine
    BY <1>1, <1>2, AllNumbers
  <1>4. N \in Fine
    BY <1>3
  <1> QED
    BY <1>4 DEF Fine

\* One more member adds what it has.
LEMMA SumAdds ==
    ASSUME NEW f, NEW S, NEW N \in Nat, NEW x \in 1..N, x \notin S,
           Numbers(f, S \cup {x}, N)
    PROVE  Promise!Sum(f, S \cup {x}, N) = Promise!Sum(f, S, N) + f[x]
  <1> DEFINE T == S \cup {x}
             s(n) == Promise!Sum(f, S, n)
             t(n) == Promise!Sum(f, T, n)
             Fine == {n \in 0..N : /\ s(n) \in Nat
                                   /\ t(n) = s(n) + (IF x <= n THEN f[x] ELSE 0)}
  <1>0. f[x] \in Nat
    BY DEF Numbers
  <1>1. 0 \in Fine
    BY SumZero
  <1>2. ASSUME NEW n \in 1..N, n - 1 \in Fine
        PROVE  n \in Fine
    <2>1. n \in Nat \ {0} /\ n \in 0..N
      OBVIOUS
    <2>2. /\ s(n) = s(n - 1) + (IF n \in S THEN f[n] ELSE 0)
          /\ t(n) = t(n - 1) + (IF n \in T THEN f[n] ELSE 0)
      BY <2>1, SumStep
    <2>3. n \in T => f[n] \in Nat
      BY DEF Numbers
    <2>4. s(n - 1) \in Nat /\ t(n - 1) = s(n - 1) + (IF x <= n - 1 THEN f[x] ELSE 0)
      BY <1>2
    <2>5. n \in T <=> n \in S \/ n = x
      OBVIOUS
    <2> HIDE DEF s, t, T
    <2>6. s(n) \in Nat
      BY <2>2, <2>3, <2>4, <2>5
    <2>7. CASE n = x
      BY <2>1, <2>2, <2>4, <2>5, <2>6, <2>7, <1>0
    <2>8. CASE n # x /\ n \in S
      BY <2>1, <2>2, <2>3, <2>4, <2>5, <2>6, <2>8, <1>0
    <2>9. CASE n # x /\ n \notin S
      BY <2>1, <2>2, <2>4, <2>5, <2>6, <2>9, <1>0
    <2> QED
      BY <2>7, <2>8, <2>9
  <1> HIDE DEF Fine
  <1>3. \A n \in 0..N : n \in Fine
    BY <1>1, <1>2, AllNumbers
  <1>4. N \in Fine /\ x <= N
    BY <1>3
  <1> QED
    BY <1>4 DEF Fine

\* Nobody has nothing.
LEMMA SumOfNone ==
    ASSUME NEW f, NEW N \in Nat PROVE Promise!Sum(f, {}, N) = 0
  <1> DEFINE Fine == {n \in 0..N : Promise!Sum(f, {}, n) = 0}
  <1>1. 0 \in Fine
    BY SumZero
  <1>2. ASSUME NEW n \in 1..N, n - 1 \in Fine
        PROVE  n \in Fine
    <2>1. n \in Nat \ {0} /\ n \in 0..N
      OBVIOUS
    <2>2. Promise!Sum(f, {}, n) = Promise!Sum(f, {}, n - 1) + 0
      BY <2>1, SumStep
    <2> QED
      BY <1>2, <2>1, <2>2
  <1> HIDE DEF Fine
  <1>3. \A n \in 0..N : n \in Fine
    BY <1>1, <1>2, AllNumbers
  <1>4. N \in Fine
    BY <1>3
  <1> QED
    BY <1>4 DEF Fine

\* The abstract arrivals are the requests of the orders, but the running one.
LEMMA ArrivedFacts ==
    ASSUME BaseInv
    PROVE  /\ Arrived \in Seq(Promise!Request)
           /\ pc = "idle" => Len(Arrived) = Len(orders)
           /\ pc # "idle" => /\ Len(Arrived) = taker - 1
                             /\ taker = Len(orders) /\ taker \in Pointers
                             /\ Asked \in Promise!Request
                             /\ Asked.qty \in Nat
           /\ \A k \in 1..Len(Arrived) :
                k \in Pointers /\ Arrived[k] = RequestOf(orders[k])
  <1> DEFINE n == IF pc = "idle" THEN Len(orders) ELSE taker - 1
  <1>1. /\ Len(orders) \in Nat /\ orders \in Seq(Order)
        /\ pc # "idle" => taker = Len(orders) /\ taker # 0
    BY DEF BaseInv, TypeOK, NoOrder
  <1>2. n \in 0..Len(orders)
    BY <1>1
  <1>3. \A k \in Pointers : RequestOf(orders[k]) \in Promise!Request
    <2> TAKE k \in Pointers
    <2>1. orders[k] \in Order /\ Sound(orders[k])
      BY DEF BaseInv, TypeOK, OrdersSound, Pointers
    <2> QED
      BY <2>1 DEF Order, RequestOf, Promise!Request, Sides, OrderTypes
  <1>4. Arrived = [k \in 1..n |-> RequestOf(orders[k])]
    BY DEF Arrived
  <1> HIDE DEF n
  <1>5. \A k \in 1..n : k \in Pointers
    BY <1>1, <1>2 DEF Pointers
  <1>6. Arrived \in Seq(Promise!Request) /\ Len(Arrived) = n
    <2>1. n \in Nat /\ Arrived \in [1..n -> Promise!Request]
      BY <1>2, <1>3, <1>4, <1>5
    <2> HIDE DEF Promise!Request
    <2>2. Arrived \in Seq(Promise!Request)
      BY <2>1, SeqDef
    <2> QED
      BY <2>1, <2>2, LenProperties
  <1>7. pc # "idle" => taker \in Pointers /\ Asked \in Promise!Request
    BY <1>1, <1>3 DEF Pointers, Asked
  <1>8. \A r \in Promise!Request : r.qty \in Nat
    BY QuantitiesAssumption DEF Promise!Request
  <1>9. \A k \in 1..n : Arrived[k] = RequestOf(orders[k])
    BY <1>4
  <1>10. /\ pc = "idle" => n = Len(orders)
         /\ pc # "idle" => n = taker - 1
    BY DEF n
  <1> QED
    BY <1>1, <1>5, <1>6, <1>7, <1>8, <1>9, <1>10

LEMMA SameRequestOf ==
    ASSUME KeepsRequests
    PROVE  \A k \in Pointers : RequestOf(orders'[k]) = RequestOf(orders[k])
  BY DEF KeepsRequests, SameRequest, RequestOf

\* While AddOrder runs, nothing has arrived.
LEMMA ArrivedRunning ==
    ASSUME BaseInv, KeepsRequests, pc # "idle", pc' # "idle", taker' = taker
    PROVE  Arrived' = Arrived /\ Asked' = Asked
  <1>1. /\ Arrived = [k \in 1..(taker - 1) |-> RequestOf(orders[k])]
        /\ Arrived' = [k \in 1..(taker - 1) |-> RequestOf(orders'[k])]
    BY DEF Arrived
  <1>2. \A k \in 1..(taker - 1) : k \in Pointers
    BY DEF BaseInv, TypeOK, Pointers
  <1>3. taker \in Pointers
    BY ArrivedFacts
  <1> QED
    BY <1>1, <1>2, <1>3, SameRequestOf DEF Asked

\* When it returns, its order has.
LEMMA ArrivedReturning ==
    ASSUME BaseInv, BaseInv', KeepsRequests, pc # "idle", pc' = "idle"
    PROVE  Arrived' = Append(Arrived, Asked)
  <1>1. /\ Arrived \in Seq(Promise!Request) /\ Asked \in Promise!Request
        /\ Len(Arrived) = taker - 1 /\ taker = Len(orders) /\ taker \in Nat
        /\ \A k \in 1..Len(Arrived) : Arrived[k] = RequestOf(orders[k])
    BY ArrivedFacts DEF Pointers
  <1>2. Arrived' = [k \in 1..Len(orders') |-> RequestOf(orders'[k])]
    BY DEF Arrived
  <1>3. Len(orders') = taker
    <2>1. Len(orders) \in Nat /\ Len(orders') \in Nat
      BY DEF BaseInv, TypeOK
    <2> QED
      BY <2>1, <1>1 DEF KeepsRequests, Pointers
  <1>4. \A k \in 1..taker : RequestOf(orders'[k]) = RequestOf(orders[k])
    BY <1>1, SameRequestOf DEF Pointers
  <1> DEFINE s == Append(Arrived, Asked)
  <1> HIDE DEF Promise!Request
  <1>5. /\ s \in Seq(Promise!Request) /\ Len(s) = taker
        /\ \A k \in 1..(taker - 1) : s[k] = Arrived[k]
        /\ s[taker] = Asked
    BY <1>1, AppendProperties
  <1>5a. s = [k \in 1..taker |-> s[k]]
    <2> HIDE DEF s
    <2> QED
      BY <1>5
  <1>6. \A k \in 1..taker : s[k] = RequestOf(orders'[k])
    <2> TAKE k \in 1..taker
    <2>1. CASE k = taker
      BY <2>1, <1>4, <1>5 DEF Asked
    <2>2. CASE k \in 1..(taker - 1)
      BY <2>2, <1>1, <1>4, <1>5
    <2> QED
      BY <2>1, <2>2, <1>1
  <1> HIDE DEF s
  <1>7. Arrived' = s
    BY <1>2, <1>3, <1>5a, <1>6
  <1> QED
    BY <1>7 DEF s

\* Its call is not its arrival.
LEMMA ArrivedCalled ==
    ASSUME BaseInv, NEW r \in Requests, AddOrder(r)
    PROVE  Arrived' = Arrived
  <1>1. /\ pc = "idle" /\ pc' = "match" /\ taker' = Len(orders) + 1
        /\ orders' = Append(orders, NewOrderInBook(r))
    BY DEF AddOrder
  <1>2. orders \in Seq(Order) /\ Len(orders) \in Nat
    BY DEF BaseInv, TypeOK
  <1>3. \A k \in 1..Len(orders) : orders'[k] = orders[k]
    BY <1>1, <1>2
  <1>4. /\ Arrived = [k \in 1..Len(orders) |-> RequestOf(orders[k])]
        /\ Arrived' = [k \in 1..Len(orders) |-> RequestOf(orders'[k])]
    BY <1>1, <1>2 DEF Arrived
  <1> QED
    BY <1>3, <1>4

LEMMA ArrivedIdle ==
    ASSUME BaseInv, KeepsRequests, pc = "idle", pc' = "idle"
    PROVE  Arrived' = Arrived
  <1>1. Len(orders') = Len(orders) => Arrived' = Arrived
    BY SameRequestOf DEF Arrived, Pointers
  <1> QED
    BY <1>1 DEF Arrived, KeepsRequests, Pointers, BaseInv, TypeOK

\* The abstract book between the calls is what rests, with what is left of it;
\* during one it is the book the call started from.
LEMMA UntradedFacts ==
    ASSUME BaseInv, PromiseInv
    PROVE  /\ pc = "idle" => /\ DOMAIN Untraded = Resting
                             /\ \A k \in Resting : Untraded[k] = orders[k].remaining
           /\ pc # "idle" =>
                /\ DOMAIN Untraded = Resting \cup Served
                /\ \A k \in Served : Untraded[k] = restored[k].remaining
                /\ \A k \in Resting \ Served : Untraded[k] = orders[k].remaining
           /\ \A k \in DOMAIN Untraded :
                k \in Pointers /\ k \in 1..Len(Arrived) /\ Untraded[k] \in Nat
  <1>1. /\ \A k \in Resting : k \in Pointers
        /\ \A k \in Served : k \in Pointers /\ restored[k] \in Order
        /\ \A k \in Pointers : orders[k] \in Order
        /\ \A k \in Resting : pc # "idle" => k # taker
    BY DEF BaseInv, TypeOK, Resting, Served, Pointers, ListsSound
  <1>2. \A o \in Order : o.remaining \in Nat
    BY DEF Order
  <1>3. pc # "idle" => \A k \in Served : k < taker
    BY DEF PromiseInv, ServedRightly
  <1>4. CASE pc = "idle"
    <2>1. Untraded = [k \in Resting |-> orders[k].remaining]
      BY <1>4 DEF Untraded
    <2>2. Len(Arrived) = Len(orders)
      BY <1>4, ArrivedFacts
    <2> QED
      BY <1>1, <1>2, <1>4, <2>1, <2>2 DEF Pointers
  <1>5. CASE pc # "idle"
    <2>1. Untraded = [k \in Resting \cup Served |->
                        IF k \in Served THEN restored[k].remaining
                        ELSE orders[k].remaining]
      BY <1>5 DEF Untraded, Served
    <2>2. Len(Arrived) = taker - 1 /\ taker = Len(orders) /\ taker \in Nat
      BY <1>5, ArrivedFacts DEF Pointers
    <2>3. \A k \in Resting \cup Served : k \in 1..Len(Arrived)
      BY <1>1, <1>3, <1>5, <2>2 DEF Pointers
    <2> QED
      BY <1>1, <1>2, <1>5, <2>1, <2>3
  <1> QED
    BY <1>4, <1>5

\* Whom the promise would serve first.
Earlier(k) == {j \in Promise!Willings(Asked) : Promise!Before(j, k)}

\* The promise's questions, asked of the book.
LEMMA PromiseAsks ==
    ASSUME BaseInv, PromiseInv, pc # "idle"
    PROVE  /\ \A k : k \in Promise!Willings(Asked) <=>
                /\ k \in DOMAIN Untraded
                /\ orders[k].side # orders[taker].side
                /\ CanMatch(orders[taker], orders[k].price)
           /\ \A j, k \in DOMAIN Untraded : Promise!Before(j, k) <=> Ahead(j, k)
           /\ \A k \in DOMAIN Untraded :
                Promise!Take(Asked, k) =
                    LET left == Asked.qty - Promise!Total(Earlier(k)) IN
                    IF left <= 0 THEN 0
                    ELSE IF left < Untraded[k] THEN left ELSE Untraded[k]
           /\ \A S : Promise!Total(S) = Promise!Sum(Untraded, S, Len(Arrived))
  <1>1. \A k \in DOMAIN Untraded :
            k \in 1..Len(Arrived) /\ Arrived[k] = RequestOf(orders[k])
    BY UntradedFacts, ArrivedFacts
  <1>2. /\ Asked.side = orders[taker].side /\ Asked.type = orders[taker].type
        /\ Asked.price = orders[taker].price
    BY DEF Asked, RequestOf
  <1>3. \A k \in DOMAIN Untraded : /\ Arrived[k].side = orders[k].side
                                   /\ Arrived[k].price = orders[k].price
    <2>1. \A o : RequestOf(o).side = o.side /\ RequestOf(o).price = o.price
      BY DEF RequestOf
    <2> QED
      BY <1>1, <2>1
  <1>4. \A k : k \in Promise!Willings(Asked) <=>
                /\ k \in DOMAIN Untraded
                /\ orders[k].side # orders[taker].side
                /\ CanMatch(orders[taker], orders[k].price)
    <2>1. \A k \in DOMAIN Untraded : orders[k].price \in Nat
      <3>1. \A k \in DOMAIN Untraded : orders[k] \in Order
        BY UntradedFacts DEF BaseInv, TypeOK, Pointers
      <3>2. \A o \in Order : o.price \in Prices \cup {0}
        BY DEF Order
      <3>3. Prices \cup {0} \subseteq Nat
        BY PricesAssumption
      <3> QED
        BY <3>1, <3>2, <3>3
    <2>2. orders[taker].price \in Nat
      <3>1. orders[taker] \in Order
        BY ArrivedFacts DEF BaseInv, TypeOK, Pointers
      <3>2. orders[taker].price \in Prices \cup {0}
        BY <3>1 DEF Order
      <3>3. Prices \cup {0} \subseteq Nat
        BY PricesAssumption
      <3> QED
        BY <3>2, <3>3
    <2>3. \A k \in DOMAIN Untraded :
            (orders[k].price <= orders[taker].price
                <=> orders[taker].price >= orders[k].price)
            /\ (orders[k].price >= orders[taker].price
                <=> orders[taker].price <= orders[k].price)
      BY <2>1, <2>2
    <2>4. \A k \in DOMAIN Untraded : Promise!Willing(Asked, k) <=>
            /\ orders[k].side # orders[taker].side
            /\ CanMatch(orders[taker], orders[k].price)
      BY <1>2, <1>3, <2>3 DEF Promise!Willing, CanMatch
    <2> QED
      BY <2>4 DEF Promise!Willings
  <1>5. \A j, k \in DOMAIN Untraded : Promise!Before(j, k) <=> Ahead(j, k)
    BY <1>3 DEF Promise!Before, Ahead
  <1>6. \A k : Promise!Take(Asked, k) =
                    LET left == Asked.qty - Promise!Total(Earlier(k)) IN
                    IF left <= 0 THEN 0
                    ELSE IF left < Untraded[k] THEN left ELSE Untraded[k]
    BY DEF Promise!Take, Earlier
  <1>7. \A S : Promise!Total(S) = Promise!Sum(Untraded, S, Len(Arrived))
    BY DEF Promise!Total
  <1> QED
    BY <1>4, <1>5, <1>6, <1>7

\* What the promise computes depends on the abstract book and request alone.
LEMMA PromiseFrozen ==
    ASSUME UNCHANGED <<Arrived, Untraded, Asked>>
    PROVE  /\ Promise!Willings(Asked)' = Promise!Willings(Asked)
           /\ \A j, k : Promise!Before(j, k)' <=> Promise!Before(j, k)
           /\ \A S : Promise!Total(S)' = Promise!Total(S)
           /\ \A k : Promise!Take(Asked, k)' = Promise!Take(Asked, k)
           /\ \A k : Promise!TradeOf(Asked, k)' = Promise!TradeOf(Asked, k)
  <1>1. /\ Promise!Willings(Asked)' = Promise!Willings(Asked)
        /\ \A j, k : Promise!Before(j, k)' <=> Promise!Before(j, k)
    BY DEF Promise!Willings, Promise!Willing, Promise!Before
  <1>2. \A S : Promise!Total(S)' = Promise!Total(S)
    BY DEF Promise!Total
  <1>3. \A k : Earlier(k)' = Earlier(k)
    BY <1>1 DEF Earlier
  <1>4. \A k : Promise!Take(Asked, k)' = Promise!Take(Asked, k)
    <2>1. \A k : Promise!Total(Earlier(k))' = Promise!Total(Earlier(k))
      BY <1>2, <1>3 DEF Promise!Total
    <2> QED
      BY <2>1 DEF Promise!Take, Earlier
  <1>5. \A k : Promise!TradeOf(Asked, k)' = Promise!TradeOf(Asked, k)
    BY <1>4 DEF Promise!TradeOf
  <1> QED
    BY <1>1, <1>2, <1>4, <1>5

\* Everyone has a side, and the orders opposite the taker are the resting
\* orders of the other one.
LEMMA OpposingIs ==
    ASSUME BaseInv
    PROVE  /\ \A k \in Pointers : orders[k].side \in Sides
           /\ pc # "idle" => \A k \in Resting :
                k \in Opposing <=> orders[k].side # orders[taker].side
           /\ Opposing \subseteq Resting /\ Resting \subseteq Pointers
  <1>1. \A k \in Pointers : orders[k].side \in Sides
    <2>1. \A k \in Pointers : orders[k] \in Order
      BY DEF BaseInv, TypeOK, Pointers
    <2> QED
      BY <2>1 DEF Order
  <1>2. Opposing \subseteq Resting /\ Resting \subseteq Pointers
    BY DEF BaseInv, TypeOK, Resting, Opposing
  <1>3. ASSUME pc # "idle", NEW k \in Resting
        PROVE  k \in Opposing <=> orders[k].side # orders[taker].side
    <2>1. taker \in Pointers
      BY <1>3, ArrivedFacts
    <2>2. orders[taker].side \in {"buy", "sell"}
      BY <1>1, <2>1 DEF Sides
    <2>3. /\ k \in buyOrders => orders[k].side = "buy"
          /\ k \in sellOrders => orders[k].side = "sell"
          /\ k \in buyOrders \/ k \in sellOrders
      BY DEF BaseInv, ListsSound, Resting
    <2> QED
      BY <2>2, <2>3 DEF Opposing
  <1> QED
    BY <1>1, <1>2, <1>3

\* What is left of the orders of the abstract book are numbers.
LEMMA TotalFacts ==
    ASSUME BaseInv, PromiseInv, pc # "idle",
           NEW S \in SUBSET (DOMAIN Untraded), NEW T \in SUBSET (DOMAIN Untraded)
    PROVE  /\ Promise!Total(S) \in Nat
           /\ S \subseteq T => Promise!Total(S) <= Promise!Total(T)
           /\ \A x \in DOMAIN Untraded \ S :
                Promise!Total(S \cup {x}) = Promise!Total(S) + Untraded[x]
  <1>1. Len(Arrived) \in Nat
    BY ArrivedFacts
  <1>2. \A U \in SUBSET (DOMAIN Untraded) : Numbers(Untraded, U, Len(Arrived))
    BY UntradedFacts DEF Numbers
  <1>3. \A U : Promise!Total(U) = Promise!Sum(Untraded, U, Len(Arrived))
    BY DEF Promise!Total
  <1>4. Promise!Total(S) \in Nat
    BY <1>1, <1>2, <1>3, SumGrows
  <1>5. S \subseteq T => Promise!Total(S) <= Promise!Total(T)
    BY <1>1, <1>2, <1>3, SumGrows
  <1>6. ASSUME NEW x \in DOMAIN Untraded \ S
        PROVE  Promise!Total(S \cup {x}) = Promise!Total(S) + Untraded[x]
    <2>1. x \in 1..Len(Arrived) /\ x \notin S
      BY UntradedFacts
    <2>2. Numbers(Untraded, S \cup {x}, Len(Arrived))
      BY <1>2
    <2> QED
      BY <1>1, <1>3, <2>1, <2>2, SumAdds
  <1> QED
    BY <1>4, <1>5, <1>6

\* The order the loop trades with is the one whose turn it is: the orders that
\* come before it are those already served, and it gets what is left.
LEMMA NextInTurn ==
    ASSUME BaseInv, BookInv, PromiseInv, pc = "match", node # NoNode,
           NEW opp, NEW q, MatchedWith(opp, q)
    PROVE  /\ opp \in Promise!Willings(Asked) /\ opp \in Resting
           /\ opp \notin Served /\ opp \in DOMAIN Untraded
           /\ orders[opp].price = node /\ opp > visited
           /\ Untraded[opp] = orders[opp].remaining
           /\ Earlier(opp) = Served
           /\ Promise!Take(Asked, opp) = q
  <1>1. /\ opp \in Unvisited /\ opp \in Pointers /\ taker \in Pointers
        /\ \A k \in Unvisited : opp <= k
        /\ CanMatch(orders[taker], orders[opp].price)
    BY DEF MatchedWith
  <1>2. LevelAt(node) = {k \in Opposing : orders[k].price = node}
    BY LevelIsOpposing
  <1>3. /\ opp \in Opposing /\ orders[opp].price = node /\ opp > visited
        /\ IsActive(orders[opp]) /\ opp \in Resting
        /\ orders[opp].side # orders[taker].side
    <2>1. opp \in LevelAt(node) /\ opp > visited /\ IsActive(orders[opp])
      BY <1>1 DEF Unvisited
    <2> QED
      BY <1>2, <2>1, OpposingIs
  <1>4. opp \notin Served
    <2>1. orders[opp].remaining > 0
      BY <1>1, <1>3 DEF BaseInv, OrdersSound, Sound
    <2>2. \A k \in Served : orders[k].remaining = 0
      BY DEF PromiseInv, ServedRightly
    <2> QED
      BY <2>1, <2>2
  <1>5. /\ opp \in DOMAIN Untraded /\ Untraded[opp] = orders[opp].remaining
        /\ opp \in Promise!Willings(Asked)
    <2>1. opp \in DOMAIN Untraded /\ Untraded[opp] = orders[opp].remaining
      BY <1>3, <1>4, UntradedFacts
    <2> QED
      BY <1>1, <1>3, <2>1, PromiseAsks
  <1>6. \A k \in DOMAIN Untraded :
            /\ Promise!Before(k, opp) <=> Ahead(k, opp)
            /\ k \in Pointers /\ k \in Nat /\ orders[k].side \in Sides
            /\ orders[k].price \in Nat
    <2>1. \A k \in DOMAIN Untraded : Promise!Before(k, opp) <=> Ahead(k, opp)
      BY <1>5, PromiseAsks
    <2>2. \A k \in DOMAIN Untraded : k \in Pointers /\ k \in Nat
      BY UntradedFacts DEF Pointers
    <2>3. \A k \in Pointers : orders[k].price \in Nat
      <3>1. \A k \in Pointers : orders[k] \in Order
        BY DEF BaseInv, TypeOK, Pointers
      <3>2. \A o \in Order : o.price \in Prices \cup {0}
        BY DEF Order
      <3>3. Prices \cup {0} \subseteq Nat
        BY PricesAssumption
      <3> QED
        BY <3>1, <3>2, <3>3
    <2> QED
      BY <2>1, <2>2, <2>3, OpposingIs
  <1>7. orders[taker].side \in Sides /\ visited \in Nat /\ opp \in Nat
    BY <1>1, OpposingIs DEF BaseInv, TypeOK, Pointers
  <1>8. ASSUME NEW k \in Earlier(opp) PROVE k \in Served
    <2>1. /\ k \in DOMAIN Untraded /\ orders[k].side # orders[taker].side
          /\ CanMatch(orders[taker], orders[k].price) /\ Ahead(k, opp)
      <3>1. k \in Promise!Willings(Asked) /\ Promise!Before(k, opp)
        BY <1>8 DEF Earlier
      <3>2. /\ k \in DOMAIN Untraded /\ orders[k].side # orders[taker].side
            /\ CanMatch(orders[taker], orders[k].price)
        BY <3>1, PromiseAsks
      <3> QED
        BY <1>6, <3>1, <3>2
    <2>2. SUFFICES ASSUME k \notin Served PROVE FALSE
      OBVIOUS
    <2>3. k \in Resting
      BY <2>1, <2>2, UntradedFacts
    <2>4. k \in Opposing /\ IsActive(orders[k])
      BY <2>1, <2>2, <2>3, OpposingIs DEF PromiseInv, ServedRightly
    <2>5. /\ ~Passed(orders[k].price)
          /\ ~(orders[k].price = node /\ k <= visited)
      BY <2>1, <2>4 DEF BookInv, ScanComplete, OutOfReach
    <2>6. CASE orders[k].price = node /\ k < opp
      <3>1. k > visited
        BY <1>6, <1>7, <2>1, <2>5, <2>6
      <3>2. k \in Unvisited
        BY <1>2, <2>4, <2>6, <3>1 DEF Unvisited
      <3> QED
        BY <1>1, <1>6, <1>7, <2>1, <2>6, <3>2
    <2>7. CASE orders[k].side = "buy" /\ orders[k].price > node
      BY <1>7, <2>1, <2>5, <2>7 DEF Passed, Sides
    <2>8. CASE orders[k].side = "sell" /\ orders[k].price < node
      BY <1>7, <2>1, <2>5, <2>8 DEF Passed, Sides
    <2> QED
      BY <1>3, <2>1, <2>6, <2>7, <2>8 DEF Ahead
  <1>9. ASSUME NEW k \in Served PROVE k \in Earlier(opp)
    <2>1. /\ k \in Promise!Willings(Asked)
          /\ Passed(orders[k].price) \/ (orders[k].price = node /\ k <= visited)
      BY DEF PromiseInv, ServedInTurn
    <2>2. k \in DOMAIN Untraded /\ orders[k].side # orders[taker].side
      BY <2>1, PromiseAsks
    <2>3. CASE orders[k].price = node /\ k <= visited
      <3>1. k < opp
        BY <1>3, <1>6, <1>7, <2>2, <2>3
      <3> QED
        BY <1>3, <1>6, <2>1, <2>2, <2>3, <3>1 DEF Ahead, Earlier
    <2>4. CASE Passed(orders[k].price)
      <3>1. \/ orders[k].side = "sell" /\ orders[k].price < node
            \/ orders[k].side = "buy" /\ orders[k].price > node
        BY <1>6, <1>7, <2>2, <2>4 DEF Passed, Sides
      <3>2. Ahead(k, opp)
        BY <1>3, <3>1 DEF Ahead
      <3> QED
        BY <1>6, <2>1, <2>2, <3>2 DEF Earlier
    <2> QED
      BY <2>1, <2>3, <2>4
  <1>10. Earlier(opp) = Served
    BY <1>8, <1>9
  <1>11. Promise!Take(Asked, opp) = q
    <2> DEFINE got == Promise!Total(Served)
    <2>1. Served \in SUBSET (DOMAIN Untraded)
      BY UntradedFacts
    <2>2. got \in Nat
      BY <2>1, TotalFacts
    <2>3. orders[taker].remaining + got = Asked.qty
      BY DEF PromiseInv, TakerServed
    <2>4. /\ q \in Nat \ {0}
          /\ q <= orders[taker].remaining /\ q <= orders[opp].remaining
          /\ q = orders[taker].remaining \/ q = orders[opp].remaining
      BY DEF MatchedWith
    <2>5. orders[taker].remaining \in Nat /\ orders[opp].remaining \in Nat
      <3>1. orders[taker] \in Order /\ orders[opp] \in Order
        BY <1>1 DEF BaseInv, TypeOK, Pointers
      <3> QED
        BY <3>1 DEF Order
    <2>6. Promise!Take(Asked, opp) =
            LET left == Asked.qty - got IN
            IF left <= 0 THEN 0
            ELSE IF left < Untraded[opp] THEN left ELSE Untraded[opp]
      BY <1>5, <1>10, PromiseAsks
    <2> HIDE DEF got
    <2>7. Asked.qty - got = orders[taker].remaining
      BY <2>2, <2>3, <2>5
    <2> QED
      BY <1>5, <2>4, <2>5, <2>6, <2>7
  <1> QED
    BY <1>3, <1>4, <1>5, <1>10, <1>11

\* A trade is not an event for the promise: the log keeps what the order that
\* loses by it had before.
LEMMA MatchNextIsSilent ==
    ASSUME BaseInv, BookInv, PromiseInv, MatchNext,
           NEW opp, NEW q, MatchedWith(opp, q)
    PROVE  /\ UNCHANGED <<Arrived, Untraded, Asked, tape, Resting, taker, node>>
           /\ Served' = Served \cup {opp}
           /\ pc' # "idle" /\ pc = "match" /\ node # NoNode
  <1>1. /\ UNCHANGED <<buyOrders, sellOrders, taker, node, tape>>
        /\ pc = "match" /\ pc' # "idle" /\ node # NoNode
    BY DEF MatchNext, Trade
  <1>2. Arrived' = Arrived /\ Asked' = Asked
    BY <1>1, BaseMatchNext, ArrivedRunning
  <1>3. /\ opp \in Resting /\ opp \notin Served
        /\ Untraded[opp] = orders[opp].remaining
    BY <1>1, NextInTurn
  <1>4. Resting' = Resting
    BY <1>1 DEF Resting
  <1>5. Served' = Served \cup {opp}
    BY DEF MatchedWith, Served
  <1>6. Untraded' = Untraded
    <2>1. /\ Untraded = [k \in Resting \cup Served |->
                            IF k \in Served THEN restored[k].remaining
                            ELSE orders[k].remaining]
          /\ Untraded' = [k \in Resting \cup Served' |->
                            IF k \in Served' THEN restored'[k].remaining
                            ELSE orders'[k].remaining]
      BY <1>1, <1>4 DEF Untraded, Served
    <2>2. /\ restored'[opp] = orders[opp]
          /\ \A k \in Served : restored'[k] = restored[k]
      BY <1>3 DEF MatchedWith, Served
    <2>3. \A k \in Resting \ Served' : orders'[k] = orders[k]
      <3>1. \A k \in Resting : k \in Pointers /\ k # taker
        BY <1>1 DEF BaseInv, ListsSound, TypeOK, Resting
      <3> QED
        BY <1>5, <3>1 DEF MatchedWith
    <2>4. Resting \cup Served' = Resting \cup Served
      BY <1>3, <1>5
    <2> DEFINE now(k) == IF k \in Served' THEN restored'[k].remaining
                         ELSE orders'[k].remaining
               was(k) == IF k \in Served THEN restored[k].remaining
                         ELSE orders[k].remaining
    <2>5. ASSUME NEW k \in Resting \cup Served PROVE now(k) = was(k)
      <3>1. CASE k = opp
        BY <3>1, <1>3, <1>5, <2>2
      <3>2. CASE k \in Served
        BY <3>2, <1>5, <2>2
      <3>3. CASE k # opp /\ k \notin Served
        BY <3>3, <1>5, <2>3
      <3> QED
        BY <3>1, <3>2, <3>3
    <2> QED
      BY <2>1, <2>4, <2>5
  <1> QED
    BY <1>1, <1>2, <1>4, <1>5, <1>6

LEMMA PromiseMatchNext ==
    ASSUME BaseInv, BookInv, PromiseInv, MatchNext
    PROVE  PromiseInv' /\ UNCHANGED <<Arrived, Untraded, tape>>
  <1>1. PICK opp, q : MatchedWith(opp, q)
    BY MatchNextTrades
  <1>2. /\ UNCHANGED <<Arrived, Untraded, Asked, tape, Resting, taker, node>>
        /\ Served' = Served \cup {opp}
        /\ pc' # "idle" /\ pc = "match" /\ node # NoNode
    BY <1>1, MatchNextIsSilent
  <1>3. /\ opp \in Promise!Willings(Asked) /\ opp \in Resting
        /\ opp \notin Served /\ opp \in DOMAIN Untraded
        /\ orders[opp].price = node /\ opp > visited
        /\ Untraded[opp] = orders[opp].remaining
        /\ Earlier(opp) = Served
        /\ Promise!Take(Asked, opp) = q
    BY <1>1, <1>2, NextInTurn
  <1>4. /\ Promise!Willings(Asked)' = Promise!Willings(Asked)
        /\ \A j, k : Promise!Before(j, k)' <=> Promise!Before(j, k)
        /\ \A S : Promise!Total(S)' = Promise!Total(S)
        /\ \A k : Promise!Take(Asked, k)' = Promise!Take(Asked, k)
        /\ \A k : Promise!TradeOf(Asked, k)' = Promise!TradeOf(Asked, k)
    BY <1>2, PromiseFrozen
  <1>5. /\ opp \in Pointers \ {taker} /\ taker \in Pointers
        /\ q \in Nat \ {0}
        /\ q <= orders[taker].remaining /\ q <= orders[opp].remaining
        /\ q = orders[taker].remaining \/ q = orders[opp].remaining
        /\ orders'[taker] = Fill(orders[taker], q)
        /\ orders'[opp] = Fill(orders[opp], q)
        /\ \A k \in Pointers \ {taker, opp} : orders'[k] = orders[k]
        /\ visited' = opp
        /\ restored'[opp] = orders[opp]
        /\ \A k \in Served : restored'[k] = restored[k]
        /\ pc' = IF q = orders[taker].remaining THEN "cleanBuys" ELSE "match"
    BY <1>1, <1>3 DEF MatchedWith, Served
  <1>6. \A k \in {taker, opp} :
            /\ orders[k].remaining \in Nat
            /\ orders'[k].remaining = orders[k].remaining - q
            /\ orders'[k].price = orders[k].price
            /\ IsActive(orders'[k]) <=> q # orders[k].remaining
    <2>1. \A k \in {taker, opp} : /\ orders[k] \in Order /\ Sound(orders[k])
                                  /\ IsActive(orders[k])
      BY <1>1, <1>2, <1>5
      DEF BaseInv, TypeOK, OrdersSound, ListsSound, MatchedWith, Unvisited,
          Pointers
    <2>2. \A o \in Order : o.remaining \in Nat
      BY DEF Order
    <2>3. \A k \in {taker, opp} :
            /\ SameRequest(Fill(orders[k], q), orders[k])
            /\ Fill(orders[k], q).remaining = orders[k].remaining - q
            /\ IsActive(Fill(orders[k], q)) <=> q # orders[k].remaining
      BY <2>1, <1>5, FillIsSound
    <2> QED
      BY <2>1, <2>2, <2>3, <1>5 DEF SameRequest
  <1>7. Served \subseteq Pointers \ {taker} /\ taker \in Nat
        /\ \A k \in Served : orders'[k] = orders[k] /\ k # opp
    <2>1. \A k \in Served : k \in Pointers /\ k < taker
      BY <1>2 DEF PromiseInv, ServedRightly, Served, BaseInv, TypeOK
    <2>2. taker \in Nat /\ \A k \in Pointers : k \in Nat
      BY <1>5 DEF Pointers
    <2>3. \A k \in Served : k # taker
      BY <2>1, <2>2
    <2> QED
      BY <1>3, <1>5, <2>1, <2>2, <2>3
  <1>8. ServedInTurn'
    <2>1. Served' \subseteq Promise!Willings(Asked)
      BY <1>2, <1>3 DEF PromiseInv, ServedInTurn
    <2>2. \A j \in Served', k \in Promise!Willings(Asked) :
            Promise!Before(k, j) => k \in Served'
      <3>1. \A k \in Promise!Willings(Asked) :
                Promise!Before(k, opp) => k \in Served
        BY <1>3 DEF Earlier
      <3>2. \A j \in Served, k \in Promise!Willings(Asked) :
                Promise!Before(k, j) => k \in Served
        BY <1>2 DEF PromiseInv, ServedInTurn
      <3> QED
        BY <1>2, <3>1, <3>2
    <2>3. \A k \in Served' :
            Passed(orders[k].price)' \/ (orders'[k].price = node /\ k <= opp)
      <3>1. \A k \in Served : Passed(orders[k].price)
                                  \/ (orders[k].price = node /\ k <= visited)
        BY <1>2 DEF PromiseInv, ServedInTurn
      <3>2. orders'[taker].side = orders[taker].side
        BY <1>2, BaseMatchNext, <1>5 DEF KeepsRequests, SameRequest
      <3>3. \A k \in Served : Passed(orders[k].price)' <=> Passed(orders[k].price)
        BY <1>2, <1>7, <3>2 DEF Passed
      <3>4. visited \in Nat /\ opp \in Nat /\ \A k \in Served : k \in Nat
        BY <1>5, <1>7 DEF BaseInv, TypeOK, Pointers
      <3>5. \A k \in Served : k <= visited => k <= opp
        BY <1>3, <3>4
      <3> QED
        BY <1>2, <1>3, <1>5, <1>6, <1>7, <3>1, <3>3, <3>4, <3>5
    <2>4. Promise!InTurn(Asked, Served, tradesList)'
      <3> DEFINE t == TradeWith(opp, q)
                 P(u) == Promise!Partner(Asked, u)
      <3>1. /\ tradesList \in Seq(TradeRecord) /\ t \in TradeRecord
            /\ tradesList' = Append(tradesList, t)
        BY <1>1 DEF BaseInv, TypeOK, MatchedWith, Recorded
      <3>2. t = Promise!TradeOf(Asked, opp) /\ P(t) = opp
        <4>1. /\ Len(Arrived) = taker - 1 /\ taker \in Nat
              /\ Arrived[opp] = RequestOf(orders[opp])
          BY <1>2, <1>3, <1>7, UntradedFacts, ArrivedFacts
        <4>2. Len(Arrived) + 1 = taker
          BY <4>1
        <4>3. Arrived[opp].price = orders[opp].price
          BY <4>1 DEF RequestOf
        <4>4. Asked.side = orders[taker].side
          BY DEF Asked, RequestOf
        <4>5. t = Promise!TradeOf(Asked, opp)
          BY <1>3, <4>2, <4>3, <4>4 DEF TradeWith, Promise!TradeOf
        <4>6. P(t) = opp
          BY <4>4 DEF TradeWith, Promise!Partner
        <4> QED
          BY <4>5, <4>6
      <3>3. /\ {P(tradesList[i]) : i \in DOMAIN tradesList} = Served
            /\ \A i \in DOMAIN tradesList :
                tradesList[i] = Promise!TradeOf(Asked, P(tradesList[i]))
            /\ \A i, j \in DOMAIN tradesList : i < j =>
                Promise!Before(P(tradesList[i]), P(tradesList[j]))
        BY <1>2 DEF PromiseInv, ServedInTurn, Promise!InTurn
      <3> HIDE DEF t, P
      <3>4. /\ DOMAIN tradesList' = DOMAIN tradesList \cup {Len(tradesList) + 1}
            /\ DOMAIN tradesList = 1..Len(tradesList)
            /\ Len(tradesList) \in Nat
            /\ \A i \in DOMAIN tradesList : tradesList'[i] = tradesList[i]
            /\ tradesList'[Len(tradesList) + 1] = t
        BY <3>1, AppendProperties, LenProperties
      <3>5. {P(tradesList'[i]) : i \in DOMAIN tradesList'} = Served'
        BY <1>2, <3>2, <3>3, <3>4
      <3>6. \A i \in DOMAIN tradesList' :
                tradesList'[i] = Promise!TradeOf(Asked, P(tradesList'[i]))
        BY <3>2, <3>3, <3>4
      <3>7. ASSUME NEW i \in DOMAIN tradesList', NEW j \in DOMAIN tradesList', i < j
            PROVE  Promise!Before(P(tradesList'[i]), P(tradesList'[j]))
        <4>1. i \in DOMAIN tradesList
          BY <3>4, <3>7
        <4>2. CASE j \in DOMAIN tradesList
          BY <4>1, <4>2, <3>3, <3>4, <3>7
        <4>3. CASE j = Len(tradesList) + 1
          <5>1. P(tradesList[i]) \in Served
            BY <4>1, <3>3
          <5>2. Promise!Before(P(tradesList[i]), opp)
            BY <5>1, <1>3 DEF Earlier
          <5> QED
            BY <4>1, <4>3, <5>2, <3>2, <3>4
        <4> QED
          BY <4>2, <4>3, <3>4
      <3> QED
        BY <1>2, <1>4, <3>5, <3>6, <3>7 DEF Promise!InTurn, P
    <2> QED
      BY <1>2, <1>4, <1>5, <2>1, <2>2, <2>3, <2>4 DEF ServedInTurn
  <1>9. ServedRightly'
    <2>1. ASSUME NEW k \in Served'
          PROVE  /\ k < taker
                 /\ Promise!Take(Asked, k) > 0
                 /\ restored'[k].remaining =
                        orders'[k].remaining + Promise!Take(Asked, k)
                 /\ \/ orders'[k].remaining = 0
                    \/ pc' # "match" /\ IsActive(orders'[k])
                 /\ k \in Resting
      <3>1. CASE k \in Served
        BY <3>1, <1>2, <1>5, <1>7 DEF PromiseInv, ServedRightly
      <3>2. CASE k = opp
        <4>1. opp < taker
          <5>1. taker = Len(orders) /\ Len(orders) \in Nat
            BY <1>2 DEF BaseInv, TypeOK
          <5> QED
            BY <5>1, <1>5 DEF Pointers
        <4>2. restored'[opp].remaining = orders'[opp].remaining + q
          BY <1>5, <1>6
        <4>3. \/ orders'[opp].remaining = 0
              \/ pc' # "match" /\ IsActive(orders'[opp])
          BY <1>5, <1>6
        <4> QED
          BY <3>2, <4>1, <4>2, <4>3, <1>3, <1>5
      <3> QED
        BY <3>1, <3>2, <1>2
    <2>2. ASSUME NEW k \in Resting PROVE IsActive(orders'[k]) \/ k \in Served'
      <3>1. IsActive(orders[k]) \/ k \in Served
        BY <1>2 DEF PromiseInv, ServedRightly
      <3>2. k \in Pointers /\ k # taker
        BY <1>2 DEF BaseInv, ListsSound, TypeOK, Resting
      <3> QED
        BY <3>1, <3>2, <1>2, <1>5
    <2> QED
      BY <1>2, <1>4, <2>1, <2>2 DEF ServedRightly
  <1>10. TakerServed'
    <2> DEFINE got == Promise!Total(Served)
               gets == Promise!Total(Served \cup {opp})
    <2>1. Served \in SUBSET (DOMAIN Untraded)
      BY <1>2, UntradedFacts
    <2>2. got \in Nat /\ gets = got + orders[opp].remaining
      BY <1>2, <1>3, <2>1, TotalFacts
    <2>3. orders[taker].remaining + got = Asked.qty
      BY <1>2 DEF PromiseInv, TakerServed
    <2>4. Promise!Total(Served)' = gets
      <3>1. Promise!Total(Served)' = Promise!Sum(Untraded', Served', Len(Arrived'))
        BY DEF Promise!Total
      <3>2. gets = Promise!Sum(Untraded, Served \cup {opp}, Len(Arrived))
        BY DEF Promise!Total
      <3> QED
        BY <3>1, <3>2, <1>2
    <2> HIDE DEF got, gets
    <2>5. pc' = "match" => orders'[taker].remaining + gets = Asked.qty
      BY <1>5, <1>6, <2>2, <2>3
    <2>6. pc' # "match" => orders'[taker].remaining = 0 /\ gets >= Asked.qty
      BY <1>5, <1>6, <2>2, <2>3
    <2> QED
      BY <1>2, <2>4, <2>5, <2>6 DEF TakerServed
  <1> QED
    BY <1>2, <1>8, <1>9, <1>10 DEF PromiseInv

\* A call that starts, and nobody served.
LEMMA PromiseAddOrder ==
    ASSUME BaseInv, NEW r \in Requests, AddOrder(r)
    PROVE  PromiseInv' /\ UNCHANGED <<Arrived, Untraded, tape>>
  <1>1. /\ pc = "idle" /\ pc' = "match" /\ tape' = tape
        /\ tradesList' = <<>> /\ restored' = EmptyLog
        /\ UNCHANGED <<buyOrders, sellOrders>>
        /\ orders' = Append(orders, NewOrderInBook(r))
        /\ taker' = Len(orders) + 1
    BY DEF AddOrder
  <1>2. Arrived' = Arrived
    BY ArrivedCalled
  <1>3. Served' = {} /\ Resting' = Resting
    BY <1>1 DEF Served, EmptyLog, Resting
  <1>4. /\ \A k \in Resting : orders'[k] = orders[k] /\ IsActive(orders[k])
        /\ orders'[taker'] = NewOrderInBook(r)
    <2>1. orders \in Seq(Order) /\ Resting \subseteq Pointers
      BY DEF BaseInv, TypeOK, Resting
    <2>2. \A k \in Resting : IsActive(orders[k])
      BY <1>1 DEF BaseInv, ListsSound
    <2> QED
      BY <1>1, <2>1, <2>2 DEF Pointers
  <1>5. Untraded' = Untraded
    <2>1. Untraded = [k \in Resting |-> orders[k].remaining]
      BY <1>1 DEF Untraded
    <2>2. Untraded' = [k \in Resting' \cup Served' |->
                        IF k \in Served' THEN restored'[k].remaining
                        ELSE orders'[k].remaining]
      BY <1>1 DEF Untraded, Served
    <2> QED
      BY <1>3, <1>4, <2>1, <2>2
  <1>6. ServedInTurn'
    <2>1. Promise!InTurn(Asked, Served, tradesList)'
      BY <1>1, <1>3 DEF Promise!InTurn
    <2> QED
      BY <1>3, <2>1 DEF ServedInTurn
  <1>7. ServedRightly'
    BY <1>3, <1>4 DEF ServedRightly
  <1>8. TakerServed'
    <2>1. Asked'.qty = r.qty /\ orders'[taker'].remaining = r.qty /\ r.qty \in Nat
      <3>1. Asked' = RequestOf(NewOrderInBook(r))
        BY <1>4 DEF Asked
      <3>2. r.qty \in Nat
        BY QuantitiesAssumption DEF Requests
      <3> QED
        BY <3>1, <3>2, <1>4 DEF RequestOf, NewOrderInBook
    <2>2. Promise!Total(Served)' = 0
      <3>1. Promise!Total(Served)' = Promise!Sum(Untraded', {}, Len(Arrived))
        BY <1>2, <1>3 DEF Promise!Total
      <3>2. Len(Arrived) \in Nat
        BY ArrivedFacts
      <3> QED
        BY <3>1, <3>2, SumOfNone
    <2> QED
      BY <1>1, <2>1, <2>2 DEF TakerServed
  <1> QED
    BY <1>1, <1>2, <1>5, <1>6, <1>7, <1>8 DEF PromiseInv

\* The cursor leaves the orders it served behind.
LEMMA PromiseNextLevel ==
    ASSUME BaseInv, PromiseInv, NextLevel
    PROVE  PromiseInv' /\ UNCHANGED <<Arrived, Untraded, tape>>
  <1>1. /\ UNCHANGED <<bookVars, pc, taker, restored, tradesList, tape>>
        /\ pc = "match" /\ node # NoNode
        /\ node' = Seek(orders[taker].side, node)
    BY DEF NextLevel
  <1>2. /\ UNCHANGED <<orders, Resting, Served, Arrived, Asked, Untraded>>
        /\ UNCHANGED <<pc, taker, restored, tradesList, tape>>
    BY <1>1 DEF bookVars, Resting, Served, Arrived, Asked, Untraded
  <1>3. /\ Promise!Willings(Asked)' = Promise!Willings(Asked)
        /\ \A j, k : Promise!Before(j, k)' <=> Promise!Before(j, k)
        /\ \A S : Promise!Total(S)' = Promise!Total(S)
        /\ \A k : Promise!Take(Asked, k)' = Promise!Take(Asked, k)
        /\ \A k : Promise!TradeOf(Asked, k)' = Promise!TradeOf(Asked, k)
    BY <1>2, PromiseFrozen
  <1>4. Promise!Total(Served)' = Promise!Total(Served)
    BY <1>2 DEF Promise!Total
  <1>5. Promise!InTurn(Asked, Served, tradesList)'
    BY <1>1, <1>2, <1>3 DEF PromiseInv, ServedInTurn, Promise!InTurn
  <1>6. ASSUME NEW k \in Served PROVE Passed(orders[k].price)'
    <2>1. Passed(orders[k].price) \/ orders[k].price = node
      BY <1>1 DEF PromiseInv, ServedInTurn
    <2>2. k \in Pointers /\ taker \in Pointers
      BY <1>1, ArrivedFacts DEF Served, BaseInv, TypeOK
    <2>3. orders[k].price \in Nat /\ node \in Nat
      <3>1. orders[k] \in Order
        BY <2>2 DEF BaseInv, TypeOK, Pointers
      <3>2. orders[k].price \in Prices \cup {0} /\ node \in Prices \cup {0}
        BY <3>1 DEF Order, BaseInv, TypeOK, NoNode
      <3>3. Prices \cup {0} \subseteq Nat
        BY PricesAssumption
      <3> QED
        BY <3>2, <3>3
    <2>4. orders[taker].side \in Sides
      BY <2>2, OpposingIs
    <2>5. \/ node' = NoNode
          \/ /\ node' \in Nat
             /\ orders[taker].side = "buy" => node' > node
             /\ orders[taker].side # "buy" => node' < node
      <3>1. bids \subseteq Prices /\ asks \subseteq Prices /\ Prices \subseteq Nat
        BY PricesAssumption DEF BaseInv, TypeOK
      <3> QED
        BY <1>1, <2>3, <2>4, <3>1, SeekFindsNext
    <2>6. Passed(orders[k].price)' <=>
            \/ node' = NoNode
            \/ orders[taker].side = "buy" /\ orders[k].price < node'
            \/ orders[taker].side = "sell" /\ orders[k].price > node'
      BY <1>2 DEF Passed
    <2>7. \/ orders[taker].side = "buy" /\ orders[k].price <= node
          \/ orders[taker].side = "sell" /\ orders[k].price >= node
      BY <1>1, <2>1, <2>3, <2>4 DEF Passed, Sides
    <2> QED
      BY <2>3, <2>5, <2>6, <2>7
  <1>7. ServedInTurn'
    <2>1. /\ Served' \subseteq Promise!Willings(Asked)'
          /\ \A j \in Served', k \in Promise!Willings(Asked)' :
                Promise!Before(k, j)' => k \in Served'
      BY <1>1, <1>2, <1>3 DEF PromiseInv, ServedInTurn
    <2>2. \A k \in Served' : Passed(orders[k].price)'
      BY <1>2, <1>6
    <2> QED
      BY <1>5, <2>1, <2>2 DEF ServedInTurn
  <1>8. ServedRightly'
    BY <1>1, <1>2, <1>3 DEF PromiseInv, ServedRightly
  <1>9. TakerServed'
    BY <1>1, <1>2, <1>3, <1>4 DEF PromiseInv, TakerServed
  <1> QED
    BY <1>1, <1>2, <1>7, <1>8, <1>9 DEF PromiseInv

\* At the end of the book everyone who is willing has been served.
LEMMA AllServed ==
    ASSUME BaseInv, BookInv, PromiseInv, pc = "match", node = NoNode
    PROVE  Served = Promise!Willings(Asked)
  <1>1. Served \subseteq Promise!Willings(Asked)
    BY DEF PromiseInv, ServedInTurn
  <1>2. ASSUME NEW k \in Promise!Willings(Asked) PROVE k \in Served
    <2>1. /\ k \in DOMAIN Untraded /\ orders[k].side # orders[taker].side
          /\ CanMatch(orders[taker], orders[k].price)
      BY PromiseAsks
    <2>2. SUFFICES ASSUME k \notin Served PROVE FALSE
      OBVIOUS
    <2>3. k \in Resting
      BY <2>1, <2>2, UntradedFacts
    <2>4. k \in Opposing /\ IsActive(orders[k])
      BY <2>1, <2>2, <2>3, OpposingIs DEF PromiseInv, ServedRightly
    <2> QED
      BY <2>1, <2>4 DEF BookInv, ScanComplete, OutOfReach, Passed
  <1> QED
    BY <1>1, <1>2

LEMMA PromiseEndMatch ==
    ASSUME BaseInv, BookInv, PromiseInv, EndMatch
    PROVE  PromiseInv' /\ UNCHANGED <<Arrived, Untraded, tape>>
  <1>1. /\ UNCHANGED <<bookVars, taker, node, visited, restored, tradesList, tape>>
        /\ pc = "match" /\ pc' = "cleanBuys" /\ node = NoNode
    BY DEF EndMatch
  <1>2. /\ UNCHANGED <<orders, Resting, Served, Arrived, Asked, Untraded>>
        /\ UNCHANGED <<taker, restored, tradesList, tape>>
    BY <1>1 DEF bookVars, Resting, Served, Arrived, Asked, Untraded
  <1>3. /\ Promise!Willings(Asked)' = Promise!Willings(Asked)
        /\ \A j, k : Promise!Before(j, k)' <=> Promise!Before(j, k)
        /\ \A S : Promise!Total(S)' = Promise!Total(S)
        /\ \A k : Promise!Take(Asked, k)' = Promise!Take(Asked, k)
        /\ \A k : Promise!TradeOf(Asked, k)' = Promise!TradeOf(Asked, k)
    BY <1>2, PromiseFrozen
  <1>4. Promise!Total(Served)' = Promise!Total(Served)
    BY <1>2 DEF Promise!Total
  <1>5. Promise!InTurn(Asked, Served, tradesList)'
    BY <1>1, <1>2, <1>3 DEF PromiseInv, ServedInTurn, Promise!InTurn
  <1>6. Served = Promise!Willings(Asked)
    BY <1>1, AllServed
  <1>7. ServedInTurn'
    BY <1>1, <1>2, <1>3, <1>5 DEF PromiseInv, ServedInTurn
  <1>8. ServedRightly'
    BY <1>1, <1>2, <1>3 DEF PromiseInv, ServedRightly
  <1>9. TakerServed'
    BY <1>1, <1>2, <1>3, <1>4, <1>6 DEF PromiseInv, TakerServed
  <1> QED
    BY <1>1, <1>2, <1>7, <1>8, <1>9 DEF PromiseInv

\* Clean-up drops orders that the log still holds.
LEMMA PromiseCleanup ==
    ASSUME BaseInv, PromiseInv, CleanupBuys \/ CleanupSells
    PROVE  PromiseInv' /\ UNCHANGED <<Arrived, Untraded, tape>>
  <1>1. /\ UNCHANGED <<orders, taker, restored, tradesList, tape>>
        /\ pc # "idle" /\ pc # "match" /\ pc' # "idle" /\ pc' # "match"
        /\ Resting' \subseteq Resting
        /\ \A k \in Resting \ Resting' : ~IsActive(orders[k])
    BY DEF CleanupBuys, CleanupSells, Resting
  <1>2. UNCHANGED <<Served, Arrived, Asked>>
    BY <1>1 DEF Served, Arrived, Asked
  <1>3. Untraded' = Untraded
    <2>1. \A k \in Resting \ Resting' : k \in Served
      BY <1>1 DEF PromiseInv, ServedRightly
    <2>2. Resting' \cup Served = Resting \cup Served
      BY <1>1, <2>1
    <2>3. /\ Untraded = [k \in Resting \cup Served |->
                            IF k \in Served THEN restored[k].remaining
                            ELSE orders[k].remaining]
          /\ Untraded' = [k \in Resting' \cup Served |->
                            IF k \in Served THEN restored[k].remaining
                            ELSE orders[k].remaining]
      BY <1>1, <1>2 DEF Untraded, Served
    <2> QED
      BY <2>2, <2>3
  <1>4. /\ Promise!Willings(Asked)' = Promise!Willings(Asked)
        /\ \A j, k : Promise!Before(j, k)' <=> Promise!Before(j, k)
        /\ \A S : Promise!Total(S)' = Promise!Total(S)
        /\ \A k : Promise!Take(Asked, k)' = Promise!Take(Asked, k)
        /\ \A k : Promise!TradeOf(Asked, k)' = Promise!TradeOf(Asked, k)
    BY <1>2, <1>3, PromiseFrozen
  <1>5. Promise!Total(Served)' = Promise!Total(Served)
    BY <1>2, <1>3 DEF Promise!Total
  <1>6. Promise!InTurn(Asked, Served, tradesList)'
    BY <1>1, <1>2, <1>4 DEF PromiseInv, ServedInTurn, Promise!InTurn
  <1>7. ServedInTurn'
    BY <1>1, <1>2, <1>4, <1>6 DEF PromiseInv, ServedInTurn
  <1>8. ServedRightly'
    BY <1>1, <1>2, <1>4 DEF PromiseInv, ServedRightly
  <1>9. TakerServed'
    BY <1>1, <1>2, <1>4, <1>5 DEF PromiseInv, TakerServed
  <1> QED
    BY <1>1, <1>2, <1>3, <1>7, <1>8, <1>9 DEF PromiseInv

(* How a call ends *)

\* What the promise takes at once is what the loop has taken: whoever is left
\* out comes after the orders that were enough.
LEMMA TakenAreServed ==
    ASSUME BaseInv, PromiseInv, pc # "idle", pc # "match"
    PROVE  Promise!Taken(Asked) = Served
  <1>1. /\ Served \subseteq Promise!Willings(Asked)
        /\ \A k \in Served : Promise!Take(Asked, k) > 0
        /\ \A j \in Served, k \in Promise!Willings(Asked) :
                Promise!Before(k, j) => k \in Served
    BY DEF PromiseInv, ServedInTurn, ServedRightly
  <1>2. ASSUME NEW k \in Promise!Willings(Asked), k \notin Served
        PROVE  ~(Promise!Take(Asked, k) > 0)
    <2>1. /\ \A j \in Promise!Willings(Asked) :
                j \in DOMAIN Untraded /\ j \in Pointers
          /\ \A j \in DOMAIN Untraded :
                Promise!Before(j, k) <=> Ahead(j, k)
          /\ \A j \in DOMAIN Untraded :
                Promise!Before(k, j) <=> Ahead(k, j)
      BY PromiseAsks, UntradedFacts
    <2>2. \A j \in Pointers : orders[j].side \in Sides /\ orders[j].price \in Nat
      <3> TAKE j \in Pointers
      <3>1. orders[j] \in Order
        BY DEF BaseInv, TypeOK, Pointers
      <3>2. Prices \cup {0} \subseteq Nat
        BY PricesAssumption
      <3> QED
        BY <3>1, <3>2 DEF Order
    <2>3. taker \in Pointers
      BY ArrivedFacts
    <2>4. Served \subseteq Earlier(k)
      <3> SUFFICES ASSUME NEW j \in Served PROVE j \in Earlier(k)
        OBVIOUS
      <3>1. /\ j \in Pointers /\ k \in Pointers /\ j # k
            /\ j \in DOMAIN Untraded /\ k \in DOMAIN Untraded
            /\ j \in Promise!Willings(Asked)
        BY <1>1, <1>2, <2>1
      <3>2. orders[j].side = orders[k].side
        <4>1. /\ orders[j].side # orders[taker].side
              /\ orders[k].side # orders[taker].side
          BY <3>1, <1>2, PromiseAsks
        <4> QED
          BY <4>1, <3>1, <2>2, <2>3 DEF Sides
      <3>3. ~Ahead(k, j)
        BY <1>1, <1>2, <2>1, <3>1
      <3>4. Ahead(j, k)
        <4>1. j \in Nat /\ k \in Nat
          BY <3>1 DEF Pointers
        <4> QED
          BY <3>1, <3>2, <3>3, <2>2, <4>1 DEF Ahead, Sides
      <3> QED
        BY <3>1, <3>4, <2>1 DEF Earlier
    <2>5. Promise!Total(Served) <= Promise!Total(Earlier(k))
      <3>1. /\ Served \in SUBSET (DOMAIN Untraded)
            /\ Earlier(k) \in SUBSET (DOMAIN Untraded)
        BY <1>1, <2>1 DEF Earlier
      <3> QED
        BY <2>4, <3>1, TotalFacts
    <2>6. Promise!Total(Served) >= Asked.qty
      BY <1>2 DEF PromiseInv, TakerServed
    <2>7. /\ Promise!Total(Served) \in Nat /\ Promise!Total(Earlier(k)) \in Nat
          /\ Asked.qty \in Nat
      <3>1. /\ Served \in SUBSET (DOMAIN Untraded)
            /\ Earlier(k) \in SUBSET (DOMAIN Untraded)
        BY <1>1, <2>1 DEF Earlier
      <3> QED
        BY <3>1, TotalFacts, ArrivedFacts
    <2>8. Promise!Take(Asked, k) = 0
      <3>1. k \in DOMAIN Untraded
        BY <1>2, <2>1
      <3>2. Asked.qty - Promise!Total(Earlier(k)) <= 0
        BY <2>5, <2>6, <2>7
      <3> QED
        BY <3>1, <3>2, PromiseAsks
    <2> QED
      BY <2>8
  <1> QED
    BY <1>1, <1>2 DEF Promise!Taken

\* What the promise leaves is what the taker still wants.
LEMMA RestIsWanted ==
    ASSUME BaseInv, PromiseInv, pc # "idle", pc # "match"
    PROVE  Promise!Rest(Asked) = orders[taker].remaining
  <1>1. \/ /\ orders[taker].remaining = 0
           /\ Promise!Total(Served) >= Asked.qty
        \/ /\ orders[taker].remaining + Promise!Total(Served) = Asked.qty
           /\ Served = Promise!Willings(Asked)
    BY DEF PromiseInv, TakerServed
  <1>2. /\ Promise!Total(Served) \in Nat
        /\ Promise!Total(Promise!Willings(Asked)) \in Nat
        /\ Promise!Total(Served) <= Promise!Total(Promise!Willings(Asked))
    <2>1. /\ Served \in SUBSET (DOMAIN Untraded)
          /\ Promise!Willings(Asked) \in SUBSET (DOMAIN Untraded)
          /\ Served \subseteq Promise!Willings(Asked)
      BY UntradedFacts, PromiseAsks DEF PromiseInv, ServedInTurn
    <2> QED
      BY <2>1, TotalFacts
  <1>3. Asked.qty \in Nat /\ orders[taker].remaining \in Nat
    <2>1. taker \in Pointers /\ Asked.qty \in Nat
      BY ArrivedFacts
    <2>2. orders[taker] \in Order
      BY <2>1 DEF BaseInv, TypeOK, Pointers
    <2> QED
      BY <2>1, <2>2 DEF Order
  <1>4. Promise!Rest(Asked) =
            IF Promise!Total(Promise!Willings(Asked)) >= Asked.qty THEN 0
            ELSE Asked.qty - Promise!Total(Promise!Willings(Asked))
    BY DEF Promise!Rest
  <1> QED
    BY <1>1, <1>2, <1>3, <1>4

\* An order the taker emptied has left the lists, and only such an order.
LEMMA EmptiedAreGone ==
    ASSUME BaseInv, PromiseInv, pc = "finish"
    PROVE  /\ \A k \in Served :
                /\ Untraded[k] - Promise!Take(Asked, k) = orders[k].remaining
                /\ Promise!Take(Asked, k) = Untraded[k] <=> k \notin Resting
           /\ taker \notin Resting \cup Served
  <1>1. ASSUME NEW k \in Served
        PROVE  /\ Untraded[k] - Promise!Take(Asked, k) = orders[k].remaining
               /\ Promise!Take(Asked, k) = Untraded[k] <=> k \notin Resting
    <2>1. /\ Untraded[k] = restored[k].remaining
          /\ k \in DOMAIN Untraded /\ k \in Pointers
      BY UntradedFacts
    <2>2. /\ restored[k].remaining =
                orders[k].remaining + Promise!Take(Asked, k)
          /\ orders[k].remaining = 0 \/ IsActive(orders[k])
          /\ k \in Resting \/ ~IsActive(orders[k])
      BY DEF PromiseInv, ServedRightly
    <2>3. orders[k].remaining \in Nat
      <3>1. orders[k] \in Order
        BY <2>1 DEF BaseInv, TypeOK, Pointers
      <3> QED
        BY <3>1 DEF Order
    <2>4. k \in Resting => IsActive(orders[k])
      BY DEF BaseInv, ListsSound
    <2>5. IsActive(orders[k]) => orders[k].remaining > 0
      BY <2>1 DEF BaseInv, OrdersSound, Sound
    <2>6. Promise!Take(Asked, k) \in Int
      <3>1. /\ Untraded[k] \in Nat
            /\ Asked.qty \in Nat
        BY <2>1, UntradedFacts, ArrivedFacts
      <3>2. Promise!Total(Earlier(k)) \in Nat
        <4>1. Earlier(k) \in SUBSET (DOMAIN Untraded)
          BY PromiseAsks DEF Earlier
        <4> QED
          BY <4>1, TotalFacts
      <3> QED
        BY <2>1, <3>1, <3>2, PromiseAsks
    <2> QED
      BY <2>1, <2>2, <2>3, <2>4, <2>5, <2>6
  <1>2. taker \notin Resting
    BY DEF BaseInv, ListsSound
  <1>3. taker \notin Served
    <2>1. taker \in Nat
      BY ArrivedFacts DEF Pointers
    <2> QED
      BY <2>1 DEF PromiseInv, ServedRightly
  <1> QED
    BY <1>1, <1>2, <1>3

\* What was appended to a list can be read off its end.
LEMMA NewOnes ==
    ASSUME NEW S, NEW s \in Seq(S), NEW t \in Seq(S), NEW u, u = s \o t
    PROVE  SubSeq(u, Len(s) + 1, Len(u)) = t
  <1>1. /\ u \in Seq(S) /\ Len(u) = Len(s) + Len(t)
        /\ \A i \in 1..(Len(s) + Len(t)) :
                u[i] = IF i <= Len(s) THEN s[i] ELSE t[i - Len(s)]
    BY ConcatProperties
  <1>2. Len(s) \in Nat /\ Len(t) \in Nat
    OBVIOUS
  <1> DEFINE v == SubSeq(u, Len(s) + 1, Len(u))
             m == Len(s) + 1
             n == Len(u)
  <1>3. /\ v \in Seq(S)
        /\ Len(v) = IF m <= n THEN n - m + 1 ELSE 0
        /\ \A i \in 1..(n - m + 1) : v[i] = u[m + i - 1]
    <2>1. m \in Int /\ n \in Int
      BY <1>1, <1>2
    <2>2. \A i \in m..n : u[i] \in S
      BY <1>1, <1>2
    <2> HIDE DEF m, n
    <2>3. /\ SubSeq(u, m, n) \in Seq(S)
          /\ Len(SubSeq(u, m, n)) = IF m <= n THEN n - m + 1 ELSE 0
          /\ \A i \in 1..(n - m + 1) : SubSeq(u, m, n)[i] = u[m + i - 1]
      BY ONLY <2>1, <2>2, SubSeqProperties
    <2> QED
      BY <2>3 DEF m, n
  <1> HIDE DEF v
  <1>4. Len(v) = Len(t)
    BY <1>1, <1>2, <1>3
  <1>5. \A i \in 1..Len(t) : v[i] = t[i]
    <2> TAKE i \in 1..Len(t)
    <2>1. v[i] = u[Len(s) + i]
      <3>1. i \in 1..(Len(u) - (Len(s) + 1) + 1)
        BY <1>1, <1>2
      <3>2. Len(s) + 1 + i - 1 = Len(s) + i
        BY <1>2
      <3> QED
        BY <1>3, <3>1, <3>2
    <2>2. u[Len(s) + i] = t[(Len(s) + i) - Len(s)]
      BY <1>1, <1>2
    <2>3. (Len(s) + i) - Len(s) = i
      BY <1>2
    <2> QED
      BY <2>1, <2>2, <2>3
  <1>6. v = t
    BY ONLY <1>3, <1>4, <1>5, t \in Seq(S), SeqEqual
  <1> QED
    BY <1>6 DEF v

\* A call that returns has done to the abstract book what the promise says.
LEMMA PromiseReturns ==
    ASSUME BaseInv, BaseInv', PromiseInv, KeepsRequests,
           pc = "finish", pc' = "idle", tape' = tape \o tradesList,
           \A k \in Pointers : orders'[k].remaining = orders[k].remaining,
           orders[taker].type = "fok" => IsFilled(orders[taker]),
           Resting' = Resting \cup
                (IF orders[taker].type = "limit" /\ ~IsFilled(orders[taker])
                 THEN {taker} ELSE {})
    PROVE  Promise!Next
  <1> DEFINE me == Len(Arrived) + 1
             gone == {j \in Promise!Taken(Asked) :
                        Promise!Take(Asked, j) = Untraded[j]}
             new == SubSeq(tape', Len(tape) + 1, Len(tape'))
             rests == IF Asked.type = "limit" /\ Promise!Rest(Asked) > 0
                      THEN {me} ELSE {}
  <1>1. Promise!Taken(Asked) = Served
    BY TakenAreServed
  <1>2. Promise!Rest(Asked) = orders[taker].remaining
    BY RestIsWanted
  <1>3. /\ me = taker /\ taker \in Pointers /\ Asked \in Promise!Request
        /\ Asked.type = orders[taker].type
        /\ orders[taker].remaining \in Nat
    <2>1. /\ Len(Arrived) = taker - 1 /\ taker \in Pointers
          /\ Asked \in Promise!Request
      BY ArrivedFacts
    <2>2. orders[taker] \in Order
      BY <2>1 DEF BaseInv, TypeOK, Pointers
    <2>3. taker \in Nat
      BY <2>1 DEF Pointers
    <2> QED
      BY <2>1, <2>2, <2>3 DEF Order, Asked, RequestOf
  <1>4. Arrived' = Append(Arrived, Asked)
    BY ArrivedReturning
  <1>5. tape' = tape \o new /\ new = tradesList
    <2>1. tape \in Seq(TradeRecord) /\ tradesList \in Seq(TradeRecord)
      BY DEF BaseInv, TypeOK
    <2> HIDE DEF TradeRecord
    <2>2. SubSeq(tape', Len(tape) + 1, Len(tape')) = tradesList
      BY <2>1, NewOnes
    <2> QED
      BY <2>2
  <1>6. rests = IF orders[taker].type = "limit" /\ ~IsFilled(orders[taker])
                THEN {taker} ELSE {}
    <2>1. Promise!Rest(Asked) > 0 <=> ~IsFilled(orders[taker])
      BY <1>2, <1>3 DEF IsFilled
    <2> QED
      BY <1>3, <2>1
  <1>7. gone = Served \ Resting
    BY <1>1, EmptiedAreGone
  <1>8. /\ DOMAIN Untraded = Resting \cup Served
        /\ \A k \in Resting \ Served : Untraded[k] = orders[k].remaining
    BY UntradedFacts
  <1> HIDE DEF gone, rests, me, new
  <1>9. (DOMAIN Untraded \ gone) \cup rests = Resting'
    BY <1>6, <1>7, <1>8
  <1>10. Untraded' = [k \in Resting' |-> orders'[k].remaining]
    BY DEF Untraded
  <1>11. \A k \in Resting' : orders'[k].remaining =
                IF k = me THEN Promise!Rest(Asked)
                ELSE IF k \in Promise!Taken(Asked)
                     THEN Untraded[k] - Promise!Take(Asked, k)
                ELSE Untraded[k]
    <2> TAKE k \in Resting'
    <2>1. k \in Resting \/ k = taker
      OBVIOUS
    <2>2. Resting \subseteq Pointers
      BY OpposingIs
    <2>3. orders'[k].remaining = orders[k].remaining
      BY <1>3, <2>1, <2>2
    <2> QED
      BY <1>1, <1>2, <1>3, <1>8, <2>1, <2>3, EmptiedAreGone
  <1>12. Untraded' = [k \in (DOMAIN Untraded \ gone) \cup rests |->
                IF k = me THEN Promise!Rest(Asked)
                ELSE IF k \in Promise!Taken(Asked)
                     THEN Untraded[k] - Promise!Take(Asked, k)
                ELSE Untraded[k]]
    BY <1>9, <1>10, <1>11
  <1>13. Promise!InTurn(Asked, Promise!Taken(Asked), new)
    BY <1>1, <1>5 DEF PromiseInv, ServedInTurn
  <1>14. Asked.type = "fok" => Promise!Rest(Asked) = 0
    BY <1>2, <1>3 DEF IsFilled
  <1>15. Promise!Match(Asked)
    BY <1>4, <1>5, <1>12, <1>13, <1>14
    DEF Promise!Match, me, gone, new, rests
  <1> QED
    BY <1>3, <1>15 DEF Promise!Next

LEMMA PromiseFinish ==
    ASSUME BaseInv, BaseInv', PromiseInv,
           FinishImmediate \/ FinishFilled \/ FinishRest
    PROVE  Promise!Next
  <1>1. /\ pc = "finish" /\ pc' = "idle" /\ tape' = tape \o tradesList
    BY DEF FinishImmediate, FinishFilled, FinishRest
  <1>2. taker \in Pointers /\ orders \in Seq(Order)
    BY <1>1, ArrivedFacts DEF BaseInv, TypeOK
  <1>3. CASE FinishImmediate
    <2>1. KeepsRequests
      BY <1>3, BaseFinishImmediate
    <2>2. \A k \in Pointers : orders'[k].remaining = orders[k].remaining
      <3> TAKE k \in Pointers
      <3>1. orders[k] \in Order /\ k \in DOMAIN orders
        BY <1>2 DEF Pointers
      <3> QED
        BY <3>1, <1>2, <1>3 DEF FinishImmediate, Order
    <2>3. Resting' = Resting /\ orders[taker].type \in {"market", "ioc"}
      BY <1>3 DEF FinishImmediate, Resting
    <2> QED
      BY <1>1, <2>1, <2>2, <2>3, PromiseReturns
  <1>4. CASE FinishFilled
    <2>1. orders' = orders /\ Resting' = Resting /\ IsFilled(orders[taker])
      BY <1>4 DEF FinishFilled, bookVars, Resting
    <2>2. KeepsRequests
      BY <2>1 DEF KeepsRequests, SameRequest, Pointers
    <2> QED
      BY <1>1, <2>1, <2>2, PromiseReturns
  <1>5. CASE FinishRest
    <2>1. /\ orders' = orders /\ Resting' = Resting \cup {taker}
          /\ orders[taker].type = "limit" /\ ~IsFilled(orders[taker])
      BY <1>5 DEF FinishRest, RestAt, Resting
    <2>2. KeepsRequests
      BY <2>1 DEF KeepsRequests, SameRequest, Pointers
    <2> QED
      BY <1>1, <2>1, <2>2, PromiseReturns
  <1> QED
    BY <1>3, <1>4, <1>5

\* A killed FOK met everyone who was willing, wanted more, and puts back what
\* it took.
LEMMA PromiseRollback ==
    ASSUME BaseInv, BaseInv', BookInv, PromiseInv, Rollback
    PROVE  Promise!Next
  <1>1. /\ pc = "match" /\ pc' = "idle" /\ node = NoNode
        /\ orders[taker].type = "fok"
        /\ tape' = tape /\ Resting' = Resting
        /\ orders' = [k \in Pointers |->
            IF k = taker
            THEN [orders[k] EXCEPT !.unfilled = orders[k].remaining,
                                   !.status = "rejected"]
            ELSE IF k \in Served
            THEN Undone(orders[k], restored[k])
            ELSE orders[k]]
    BY DEF Rollback, Resting, Served
  <1>2. taker \in Pointers /\ Asked \in Promise!Request /\ Asked.qty \in Nat
    BY <1>1, ArrivedFacts
  <1>3. Asked.type = "fok"
    BY <1>1 DEF Asked, RequestOf
  <1>4. Promise!Rest(Asked) > 0
    <2>1. Served = Promise!Willings(Asked)
      BY <1>1, AllServed
    <2>2. orders[taker].remaining + Promise!Total(Served) = Asked.qty
      BY <1>1 DEF PromiseInv, TakerServed
    <2>3. orders[taker] \in Order /\ orders[taker].remaining > 0
      <3>1. orders[taker] \in Order /\ Sound(orders[taker])
        BY <1>2 DEF BaseInv, TypeOK, OrdersSound, Pointers
      <3>2. IsActive(orders[taker])
        BY <1>1 DEF BaseInv, ListsSound
      <3> QED
        BY <3>1, <3>2 DEF Sound
    <2>4. orders[taker].remaining \in Nat
      BY <2>3 DEF Order
    <2>5. Promise!Total(Served) \in Nat
      <3>1. Served \in SUBSET (DOMAIN Untraded)
        BY <1>1, UntradedFacts
      <3> QED
        BY <1>1, <3>1, TotalFacts
    <2>6. Promise!Rest(Asked) =
            IF Promise!Total(Served) >= Asked.qty THEN 0
            ELSE Asked.qty - Promise!Total(Served)
      BY <2>1 DEF Promise!Rest
    <2> QED
      BY <1>2, <2>2, <2>3, <2>4, <2>5, <2>6
  <1>5. Arrived' = Append(Arrived, Asked)
    BY <1>1, BaseRollback, ArrivedReturning
  <1>6. Untraded' = Untraded
    <2>1. Untraded' = [k \in Resting |-> orders'[k].remaining]
      BY <1>1 DEF Untraded
    <2>2. Untraded = [k \in Resting \cup Served |->
                        IF k \in Served THEN restored[k].remaining
                        ELSE orders[k].remaining]
      BY <1>1 DEF Untraded, Served
    <2>3. Served \subseteq Resting
      BY <1>1 DEF PromiseInv, ServedRightly
    <2>4. ASSUME NEW k \in Resting
          PROVE  orders'[k].remaining =
                    IF k \in Served THEN restored[k].remaining
                    ELSE orders[k].remaining
      <3>1. k \in Pointers /\ k # taker
        BY <1>1, OpposingIs DEF BaseInv, ListsSound
      <3>2. orders[k] \in Order
        BY <3>1 DEF BaseInv, TypeOK, Pointers
      <3> QED
        BY <1>1, <3>1, <3>2 DEF Undone, Order
    <2>5. Resting \cup Served = Resting
      BY <2>3
    <2> QED
      BY <2>1, <2>2, <2>4, <2>5
  <1>7. Promise!Kill(Asked)
    BY <1>1, <1>3, <1>4, <1>5, <1>6 DEF Promise!Kill
  <1> QED
    BY <1>2, <1>7 DEF Promise!Next

LEMMA PromiseCancelOrder ==
    ASSUME BaseInv, PromiseInv, NEW id, CancelOrder(id)
    PROVE  Promise!Next
  <1> DEFINE f == Found(id)
  <1>1. /\ pc = "idle" /\ pc' = "idle" /\ tape' = tape
        /\ orders' = [orders EXCEPT ![f].status = "cancelled"]
        /\ Resting' = Resting \ {f}
    BY DEF CancelOrder, loopVars, Delist, Resting
  <1>2. f \in Resting
    BY FoundIsListed DEF CancelOrder, Resting
  <1> HIDE DEF f
  <1>3. Arrived' = Arrived
    BY <1>1, BaseCancelOrder, ArrivedIdle
  <1>4. Untraded = [k \in Resting |-> orders[k].remaining]
    BY <1>1 DEF Untraded
  <1>5. Untraded' = [k \in Resting \ {f} |-> orders'[k].remaining]
    BY <1>1 DEF Untraded
  <1>6. ASSUME NEW k \in Resting PROVE orders'[k].remaining = orders[k].remaining
    <2>1. orders[k] \in Order /\ k \in DOMAIN orders
      BY OpposingIs DEF BaseInv, TypeOK, Pointers
    <2> QED
      BY <1>1, <2>1 DEF Order
  <1>7. Promise!Withdraw(f)
    BY <1>1, <1>3, <1>4, <1>5, <1>6 DEF Promise!Withdraw
  <1>8. f \in DOMAIN Untraded
    BY <1>2, <1>4
  <1> QED
    BY <1>7, <1>8 DEF Promise!Next

LEMMA PromiseStutters ==
    ASSUME PromiseInv, UNCHANGED vars
    PROVE  PromiseInv' /\ UNCHANGED <<Arrived, Untraded, tape>>
  <1>1. /\ UNCHANGED <<orders, Resting, Served, Arrived, Asked, Untraded>>
        /\ UNCHANGED <<pc, taker, node, visited, restored, tradesList, tape>>
    BY DEF vars, bookVars, loopVars, Resting, Served, Arrived, Asked, Untraded
  <1>2. /\ Promise!Willings(Asked)' = Promise!Willings(Asked)
        /\ \A j, k : Promise!Before(j, k)' <=> Promise!Before(j, k)
        /\ \A S : Promise!Total(S)' = Promise!Total(S)
        /\ \A k : Promise!Take(Asked, k)' = Promise!Take(Asked, k)
        /\ \A k : Promise!TradeOf(Asked, k)' = Promise!TradeOf(Asked, k)
    BY <1>1, PromiseFrozen
  <1>3. Promise!Total(Served)' = Promise!Total(Served)
    BY <1>1 DEF Promise!Total
  <1>4. CASE pc # "idle"
    <2>1. Promise!InTurn(Asked, Served, tradesList)'
      BY <1>1, <1>2, <1>4 DEF PromiseInv, ServedInTurn, Promise!InTurn
    <2>2. \A p : Passed(p) <=>
            \/ node = NoNode
            \/ orders[taker].side = "buy" /\ p < node
            \/ orders[taker].side = "sell" /\ p > node
      BY DEF Passed
    <2>3. \A p : Passed(p)' <=>
            \/ node' = NoNode
            \/ orders'[taker'].side = "buy" /\ p < node'
            \/ orders'[taker'].side = "sell" /\ p > node'
      BY DEF Passed
    <2>4. ServedInTurn'
      BY <1>1, <1>2, <1>4, <2>1, <2>2, <2>3 DEF PromiseInv, ServedInTurn
    <2>5. ServedRightly'
      BY <1>1, <1>2, <1>4 DEF PromiseInv, ServedRightly
    <2>6. TakerServed'
      BY <1>1, <1>2, <1>3, <1>4 DEF PromiseInv, TakerServed
    <2> QED
      BY <1>1, <2>4, <2>5, <2>6 DEF PromiseInv
  <1>5. CASE pc = "idle"
    BY <1>1, <1>5 DEF PromiseInv
  <1> QED
    BY <1>1, <1>4, <1>5

LEMMA PromiseNext ==
    ASSUME BaseInv, BaseInv', BookInv, PromiseInv, [Next]_vars
    PROVE  /\ PromiseInv'
           /\ Promise!Next \/ UNCHANGED <<Arrived, Untraded, tape>>
  <1>1. ASSUME NEW r \in Requests, AddOrder(r)
        PROVE  PromiseInv' /\ UNCHANGED <<Arrived, Untraded, tape>>
    BY <1>1, PromiseAddOrder
  <1>2. CASE MatchNext \/ NextLevel \/ EndMatch \/ CleanupBuys \/ CleanupSells
    BY <1>2, PromiseMatchNext, PromiseNextLevel, PromiseEndMatch, PromiseCleanup
  <1>3. CASE Rollback \/ FinishImmediate \/ FinishFilled \/ FinishRest
    <2>1. pc' = "idle"
      BY <1>3 DEF Rollback, FinishImmediate, FinishFilled, FinishRest
    <2>2. PromiseInv'
      BY <2>1 DEF PromiseInv
    <2> QED
      BY <1>3, <2>2, PromiseRollback, PromiseFinish
  <1>4. CASE FinishPanics
    BY <1>4 DEF BookInv, StructuresAgree, FinishPanics, OwnPrices
  <1>5. ASSUME NEW id \in CancelIDs, CancelOrder(id)
        PROVE  PromiseInv' /\ Promise!Next
    <2>1. pc' = "idle"
      BY <1>5 DEF CancelOrder, loopVars
    <2> QED
      BY <1>5, <2>1, PromiseCancelOrder DEF PromiseInv
  <1>6. CASE UNCHANGED vars
    BY <1>6, PromiseStutters
  <1> QED
    BY <1>1, <1>2, <1>3, <1>4, <1>5, <1>6 DEF Next

\* When no two orders share an ID, every AddOrder takes effect at once, as
\* price-time priority, the limit and the order type say, and every CancelOrder
\* takes one order off the book: the loop over levels and orders, the undo log
\* and the two clean-ups add nothing to that and leave nothing out.
THEOREM BookImplementsPromise == ASSUME UniqueIDs PROVE Spec => ImplementsPromise
  <1>1. Init => Promise!Init /\ PromiseInv
    <2> SUFFICES ASSUME Init PROVE Promise!Init /\ PromiseInv
      OBVIOUS
    <2>1. pc = "idle" /\ orders = <<>> /\ Resting = {} /\ tape = <<>>
      BY DEF Init, Resting
    <2>2. Arrived = <<>>
      BY <2>1 DEF Arrived
    <2>3. Untraded = [j \in {} |-> 0]
      BY <2>1 DEF Untraded
    <2> QED
      BY <2>1, <2>2, <2>3 DEF Promise!Init, PromiseInv
  <1>2. BaseInv /\ BaseInv' /\ BookInv /\ PromiseInv /\ [Next]_vars
            => PromiseInv' /\ [Promise!Next]_(Promise!promiseVars)
    BY PromiseNext DEF Promise!promiseVars
  <1>3. Spec => []PromiseInv
    BY <1>1, <1>2, BaseAlways, BookAlways, PTL DEF Spec
  <1> QED
    BY <1>1, <1>2, <1>3, BaseAlways, BookAlways, PTL
    DEF Spec, ImplementsPromise, Promise!Spec
=============================================================================
