------------------------------ MODULE OrderBook ------------------------------
(***************************************************************************)
(* One symbol's limit order book, internal/matching/book/orderbook.go.     *)
(*                                                                         *)
(* AddOrder is a loop, and it takes no lock while the depth, best-price    *)
(* and lookup methods read the book from other goroutines, so the model    *)
(* takes one step per iteration of that loop (enter a level, trade with    *)
(* one resting order) and one per stage after it (roll back or clean up    *)
(* each side, then post-process).  Every intermediate state is one that an *)
(* unlocked reader can see.                                                *)
(*                                                                         *)
(* Data abstractions.  A pointer to an OrderInBook is its arrival number,  *)
(* which also stands for CreatedAt: the actor stamps an order when it      *)
(* takes it from its channel, so both grow together.  A level's Orders are *)
(* a set, because the matching loop sorts them by CreatedAt whenever it    *)
(* enters the level.  buyOrders and sellOrders are sets, because the       *)
(* insertion loop keeps the slices in (price, arrival) order: what reads   *)
(* them in order goes through Ahead.  A skip list is the set of its keys.  *)
(*                                                                         *)
(* An operator whose comment begins with "Variant" is a plausible mistake  *)
(* in the operator that follows it; no action uses it.  It is there to see *)
(* which property notices (PROJECT.json, "mutants").                       *)
(***************************************************************************)
EXTENDS Integers, Sequences, FiniteSets, Functions

CONSTANTS
    OrderIDs,       \* order IDs a caller may pass in
    CancelIDs,      \* order IDs a caller may cancel
    Prices,         \* limit prices
    MaxPrice,       \* the greatest price: prices are machine floats
    Quantities,     \* order quantities
    MaxOrders,      \* bound: orders submitted in a behaviour
    UniqueIDs       \* TRUE: no two submitted orders carry the same order ID

ASSUME PricesAssumption == MaxPrice \in Nat /\ Prices \subseteq 1..MaxPrice
ASSUME QuantitiesAssumption == Quantities \subseteq Nat \ {0}
ASSUME BoundAssumption == MaxOrders \in Nat /\ UniqueIDs \in BOOLEAN
ASSUME CancelAssumption == CancelIDs \subseteq OrderIDs

Sides == {"buy", "sell"}
OrderTypes == {"limit", "market", "ioc", "fok"}
Statuses == {"pending", "partial_filled", "filled", "cancelled", "rejected"}

NoNode == 0         \* a nil skip-list node; no price is 0
NoOrder == 0        \* a nil order pointer

VARIABLES
    orders,         \* every OrderInBook created so far, by arrival number
    buyOrders,      \* ob.buyOrders
    sellOrders,     \* ob.sellOrders
    bids,           \* ob.bids: prices with a bid level
    asks,           \* ob.asks: prices with an ask level
    priceLevels,    \* ob.priceLevels, one map for both sides
    pc,             \* where the running AddOrder is, "idle" if none runs
    taker,          \* its argument
    node,           \* its skip-list cursor
    visited,        \* arrival number of the last order tried at this level
    restored,       \* its undo log for FOK
    tradesList,     \* trades it has made
    tape            \* trades returned by the AddOrders that have finished

bookVars == <<orders, buyOrders, sellOrders, bids, asks, priceLevels>>
loopVars == <<pc, taker, node, visited, restored, tradesList>>
vars == <<bookVars, loopVars, tape>>

-----------------------------------------------------------------------------
(* Orders *)

Requests ==
    [id : OrderIDs, side : Sides, type : {"limit", "ioc", "fok"},
     price : Prices, qty : Quantities]
        \cup
    [id : OrderIDs, side : Sides, type : {"market"}, price : {0},
     qty : Quantities]

NewOrderInBook(r) ==
    [id |-> r.id, side |-> r.side, type |-> r.type, price |-> r.price,
     qty |-> r.qty, filled |-> 0, remaining |-> r.qty, unfilled |-> 0,
     status |-> "pending"]

Order == [id : OrderIDs, side : Sides, type : OrderTypes,
          price : Prices \cup {0}, qty : Quantities, filled : Nat,
          remaining : Nat, unfilled : Nat, status : Statuses]

IsActive(o) == o.status \in {"pending", "partial_filled"}
IsFilled(o) == o.remaining = 0

Fill(o, q) ==
    [o EXCEPT !.filled = @ + q,
              !.remaining = @ - q,
              !.status = IF o.remaining = q THEN "filled" ELSE "partial_filled"]

\* Variant: equal prices do not match.
CanMatchStrict(o, price) ==
    \/ o.type = "market"
    \/ o.side = "buy" /\ o.price > price
    \/ o.side = "sell" /\ o.price < price

\* Variant: market orders are held to their (zero) price.
CanMatchAtLimit(o, price) ==
    \/ o.side = "buy" /\ o.price >= price
    \/ o.side = "sell" /\ o.price <= price

\* The loop's canMatch: a market order takes any price.
CanMatch(o, price) ==
    \/ o.type = "market"
    \/ o.side = "buy" /\ o.price >= price
    \/ o.side = "sell" /\ o.price <= price

Lesser(a, b) == IF a <= b THEN a ELSE b

\* A pointer into the heap of orders.
Pointers == 1..Len(orders)

-----------------------------------------------------------------------------
(* The skip-list cursor: SeekFirst/Next over the asks, SeekLast/Prev over  *)
(* the bids.  Prev of the first node is the header, whose key 0 has no     *)
(* level and no predecessor, so the scan ends there.                       *)

\* Variant: the node the cursor is on lies ahead too.
PricesFrom(side, after) ==
    IF side = "buy" THEN {p \in asks : p >= after}
    ELSE {p \in bids : after = NoNode \/ p <= after}

PricesAhead(side, after) ==
    IF side = "buy" THEN {p \in asks : p > after}
    ELSE {p \in bids : after = NoNode \/ p < after}

Nearer(side, p, q) == IF side = "buy" THEN p <= q ELSE p >= q

Seek(side, after) ==
    LET ahead == PricesAhead(side, after) IN
    IF ahead = {} THEN NoNode
    ELSE CHOOSE p \in ahead : \A q \in ahead : Nearer(side, p, q)

LevelAt(p) == IF p \in DOMAIN priceLevels THEN priceLevels[p] ELSE {}

\* The orders of the current level the loop has not reached yet.
Unvisited == {k \in LevelAt(node) : k > visited /\ IsActive(orders[k])}

\* Variant: last come, first served.
Latest(S) == CHOOSE k \in S : \A j \in S : k >= j

Earliest(S) == CHOOSE k \in S : \A j \in S : k <= j

-----------------------------------------------------------------------------
Init ==
    /\ orders = <<>>
    /\ buyOrders = {} /\ sellOrders = {}
    /\ bids = {} /\ asks = {}
    /\ priceLevels = [p \in {} |-> {}]
    /\ pc = "idle" /\ taker = NoOrder /\ node = NoNode /\ visited = NoOrder
    /\ restored = [k \in {} |-> NoOrder]
    /\ tradesList = <<>>
    /\ tape = <<>>

\* Variant: the undo log of the last call is kept.
KeptLog == restored

EmptyLog == [k \in {} |-> NoOrder]

\* AddOrder is called: the loop starts at the best opposite level.
AddOrder(r) ==
    /\ pc = "idle"
    /\ Len(orders) < MaxOrders
    /\ UniqueIDs => \A k \in Pointers : orders[k].id # r.id
    /\ orders' = Append(orders, NewOrderInBook(r))
    /\ taker' = Len(orders) + 1
    /\ node' = Seek(r.side, NoNode)
    /\ visited' = NoOrder
    /\ restored' = EmptyLog
    /\ tradesList' = <<>>
    /\ pc' = "match"
    /\ UNCHANGED <<buyOrders, sellOrders, bids, asks, priceLevels, tape>>

\* One iteration of the inner loop: trade with the level's next order.
Trade(opp) ==
    LET o == orders[taker]
        m == orders[opp]
        q == Lesser(o.remaining, m.remaining)
    IN
    /\ restored' = [k \in DOMAIN restored \cup {opp} |->
                        IF k = opp THEN m ELSE restored[k]]
    /\ tradesList' = Append(tradesList,
            [buy   |-> IF o.side = "buy" THEN taker ELSE opp,
             sell  |-> IF o.side = "buy" THEN opp ELSE taker,
             price |-> m.price, qty |-> q])
    /\ orders' = [orders EXCEPT ![taker] = Fill(o, q), ![opp] = Fill(m, q)]
    /\ visited' = opp
    /\ pc' = IF o.remaining = q THEN "cleanBuys" ELSE "match"
    /\ UNCHANGED <<buyOrders, sellOrders, bids, asks, priceLevels, taker,
                   node, tape>>

MatchNext ==
    /\ pc = "match" /\ node # NoNode
    /\ Unvisited # {}
    /\ CanMatch(orders[taker], orders[Earliest(Unvisited)].price)
    /\ Trade(Earliest(Unvisited))

\* The level is exhausted, or its price is past the limit: go on to the next.
NextLevel ==
    /\ pc = "match" /\ node # NoNode
    /\ Unvisited # {}
            => ~CanMatch(orders[taker], orders[Earliest(Unvisited)].price)
    /\ node' = Seek(orders[taker].side, node)
    /\ visited' = NoOrder
    /\ UNCHANGED <<bookVars, pc, taker, restored, tradesList, tape>>

\* The book is exhausted.
EndMatch ==
    /\ pc = "match" /\ node = NoNode
    /\ orders[taker].type # "fok"
    /\ pc' = "cleanBuys"
    /\ UNCHANGED <<bookVars, taker, node, visited, restored, tradesList, tape>>

\* Variant: what remained is not restored.
UndoneButRemaining(o, r) == [o EXCEPT !.filled = r.filled, !.status = r.status]

\* Variant: only the status is restored.
UndoneStatus(o, r) == [o EXCEPT !.status = r.status]

Undone(o, r) ==
    [o EXCEPT !.filled = r.filled, !.remaining = r.remaining,
              !.status = r.status]

\* A FOK order that is not fully filled undoes its trades and is rejected.
Rollback ==
    /\ pc = "match" /\ node = NoNode
    /\ orders[taker].type = "fok"
    /\ orders' = [k \in Pointers |->
            IF k = taker
            THEN [orders[k] EXCEPT !.unfilled = orders[k].remaining,
                                   !.status = "rejected"]
            ELSE IF k \in DOMAIN restored
            THEN Undone(orders[k], restored[k])
            ELSE orders[k]]
    /\ pc' = "idle"
    /\ UNCHANGED <<buyOrders, sellOrders, bids, asks, priceLevels, taker,
                   node, visited, restored, tradesList, tape>>

-----------------------------------------------------------------------------
(* Leaving the book *)

\* What is left of the level at price p once the orders in gone are removed
\* from it: by order ID, not by pointer.
LevelWithout(p, gone) ==
    {j \in priceLevels[p] :
        \A k \in gone : orders[k].price = p => orders[j].id # orders[k].id}

\* The levels that removing the orders in gone leaves empty.
Emptied(gone) ==
    {p \in DOMAIN priceLevels :
        /\ \E k \in gone : orders[k].price = p
        /\ LevelWithout(p, gone) = {}}

\* Variant: an emptied level stays in the map.
LevelsWithoutKeepsEmpty(gone) ==
    [p \in DOMAIN priceLevels |-> LevelWithout(p, gone)]

LevelsWithout(gone) ==
    [p \in DOMAIN priceLevels \ Emptied(gone) |-> LevelWithout(p, gone)]

\* cleanupOrdersInternal, buy side.
CleanupBuys ==
    LET gone == {k \in buyOrders : ~IsActive(orders[k])} IN
    /\ pc = "cleanBuys"
    /\ buyOrders' = buyOrders \ gone
    /\ priceLevels' = LevelsWithout(gone)
    /\ bids' = bids \ Emptied(gone)
    /\ pc' = "cleanSells"
    /\ UNCHANGED <<orders, sellOrders, asks, taker, node, visited, restored,
                   tradesList, tape>>

\* cleanupOrdersInternal, sell side.
CleanupSells ==
    LET gone == {k \in sellOrders : ~IsActive(orders[k])} IN
    /\ pc = "cleanSells"
    /\ sellOrders' = sellOrders \ gone
    /\ priceLevels' = LevelsWithout(gone)
    /\ asks' = asks \ Emptied(gone)
    /\ pc' = "finish"
    /\ UNCHANGED <<orders, buyOrders, bids, taker, node, visited, restored,
                   tradesList, tape>>

-----------------------------------------------------------------------------
(* The order-type switch at the end of AddOrder *)

\* Market and IOC orders never rest, whatever they filled.
FinishImmediate ==
    /\ pc = "finish"
    /\ orders[taker].type \in {"market", "ioc"}
    /\ orders' = [orders EXCEPT ![taker].unfilled = orders[taker].remaining,
                                ![taker].status = "filled"]
    /\ tape' = tape \o tradesList
    /\ pc' = "idle"
    /\ UNCHANGED <<buyOrders, sellOrders, bids, asks, priceLevels, taker,
                   node, visited, restored, tradesList>>

\* A FOK order that was filled, or a limit order with nothing left to rest.
FinishFilled ==
    /\ pc = "finish"
    /\ orders[taker].type \in {"limit", "fok"}
    /\ IsFilled(orders[taker])
    /\ tape' = tape \o tradesList
    /\ pc' = "idle"
    /\ UNCHANGED <<bookVars, taker, node, visited, restored, tradesList>>

\* The price index of the taker's own side.
OwnPrices == IF orders[taker].side = "buy" THEN bids ELSE asks

\* addToBookInternal: join the level, or replace whatever the shared map
\* holds at that price by a new level.
RestAt(p) ==
    /\ priceLevels' = [q \in DOMAIN priceLevels \cup {p} |->
            IF q # p THEN priceLevels[q]
            ELSE IF p \in OwnPrices THEN priceLevels[p] \cup {taker}
            ELSE {taker}]
    /\ IF orders[taker].side = "buy"
       THEN /\ bids' = bids \cup {p}
            /\ buyOrders' = buyOrders \cup {taker}
            /\ UNCHANGED <<asks, sellOrders>>
       ELSE /\ asks' = asks \cup {p}
            /\ sellOrders' = sellOrders \cup {taker}
            /\ UNCHANGED <<bids, buyOrders>>

FinishRest ==
    LET o == orders[taker] IN
    /\ pc = "finish"
    /\ o.type = "limit" /\ ~IsFilled(o) /\ IsActive(o)
    /\ o.price \in OwnPrices => o.price \in DOMAIN priceLevels
    /\ RestAt(o.price)
    /\ tape' = tape \o tradesList
    /\ pc' = "idle"
    /\ UNCHANGED <<orders, taker, node, visited, restored, tradesList>>

\* The index holds the price but the map has no level: appending to the nil
\* level panics.  The actor recovers, drops the result and goes on.
FinishPanics ==
    LET o == orders[taker] IN
    /\ pc = "finish"
    /\ o.type = "limit" /\ ~IsFilled(o) /\ IsActive(o)
    /\ o.price \in OwnPrices /\ o.price \notin DOMAIN priceLevels
    /\ pc' = "idle"
    /\ UNCHANGED <<bookVars, taker, node, visited, restored, tradesList, tape>>

-----------------------------------------------------------------------------
(* Cancellation and reading *)

\* The slices' order: best price first, then arrival.
Ahead(j, k) ==
    LET p == orders[j].price  q == orders[k].price IN
    \/ p = q /\ j < k
    \/ orders[j].side = "buy" /\ p > q
    \/ orders[j].side = "sell" /\ p < q

\* The order CancelOrder finds: it scans the bids first.
Found(id) ==
    LET inBuys  == {k \in buyOrders : orders[k].id = id}
        inSells == {k \in sellOrders : orders[k].id = id}
        S == IF inBuys # {} THEN inBuys ELSE inSells
    IN  CHOOSE k \in S : \A j \in S : j = k \/ Ahead(k, j)

Delist(k) == buyOrders' = buyOrders \ {k} /\ sellOrders' = sellOrders \ {k}

CancelOrder(id) ==
    /\ pc = "idle"
    /\ \E k \in buyOrders \cup sellOrders : orders[k].id = id
    /\ LET k == Found(id) IN
       /\ orders' = [orders EXCEPT ![k].status = "cancelled"]
       /\ Delist(k)
       /\ priceLevels' = LevelsWithout({k})
       /\ bids' = IF orders[k].side = "buy" THEN bids \ Emptied({k}) ELSE bids
       /\ asks' = IF orders[k].side = "sell" THEN asks \ Emptied({k}) ELSE asks
    /\ UNCHANGED <<loopVars, tape>>

-----------------------------------------------------------------------------
Next ==
    \/ \E r \in Requests : AddOrder(r)
    \/ MatchNext \/ NextLevel \/ EndMatch \/ Rollback
    \/ CleanupBuys \/ CleanupSells
    \/ FinishImmediate \/ FinishFilled \/ FinishRest \/ FinishPanics
    \/ \E id \in CancelIDs : CancelOrder(id)

\* The steps of a running AddOrder: the actor goroutine runs it to its end.
Running ==
    \/ MatchNext \/ NextLevel \/ EndMatch \/ Rollback
    \/ CleanupBuys \/ CleanupSells
    \/ FinishImmediate \/ FinishFilled \/ FinishRest \/ FinishPanics

Spec == Init /\ [][Next]_vars

FairSpec == Spec /\ WF_vars(Running)
-----------------------------------------------------------------------------
(* What the book must guarantee *)

TradeRecord == [buy : Nat, sell : Nat, price : Prices, qty : Nat]

Resting == buyOrders \cup sellOrders

\* The orders the running AddOrder has traded with: its effect on them may
\* still be undone.
InFlight ==
    {k \in Pointers :
        \/ k = taker
        \/ \E i \in DOMAIN tradesList :
                k \in {tradesList[i].buy, tradesList[i].sell}}

\* Every variable holds a value of its kind: lists, levels and undo log point
\* to orders that exist, index and map hold limit prices only.
TypeOK ==
    /\ orders \in Seq(Order)
    /\ buyOrders \subseteq Pointers /\ sellOrders \subseteq Pointers
    /\ bids \subseteq Prices /\ asks \subseteq Prices
    /\ DOMAIN priceLevels \subseteq Prices
    /\ priceLevels \in [DOMAIN priceLevels -> SUBSET Pointers]
    /\ pc \in {"idle", "match", "cleanBuys", "cleanSells", "finish"}
    /\ taker \in 0..Len(orders)
    /\ pc # "idle" => taker = Len(orders) /\ taker # NoOrder
    /\ node \in Prices \cup {NoNode}
    /\ visited \in 0..Len(orders)
    /\ DOMAIN restored \subseteq Pointers
    /\ restored \in [DOMAIN restored -> Order]
    /\ tradesList \in Seq(TradeRecord)
    /\ tape \in Seq(TradeRecord)

\* No reader ever sees a crossed book: the best bid stays below the best ask
\* in every state, the ones inside AddOrder included.
NeverCrossed == \A b \in bids, a \in asks : b < a

\* The four structures addToBookInternal, cleanupOrdersInternal and
\* CancelOrder maintain by hand agree whenever no AddOrder runs: the index
\* holds the prices of the listed orders, each level the listed orders of its
\* price, and every listed order is an active limit order with something left.
BookConsistent ==
    pc = "idle" =>
        /\ bids = {orders[k].price : k \in buyOrders}
        /\ asks = {orders[k].price : k \in sellOrders}
        /\ DOMAIN priceLevels = bids \cup asks
        /\ \A p \in DOMAIN priceLevels :
                priceLevels[p] = {k \in Resting : orders[k].price = p}
        /\ \A k \in Resting :
                /\ IsActive(orders[k]) /\ ~IsFilled(orders[k])
                /\ orders[k].type = "limit"

\* A market order leaves something unfilled only if the opposite side is
\* exhausted: no resting order is out of the matching loop's reach.
MarketExhaustsBook ==
    pc = "idle" /\ taker # NoOrder =>
        (orders[taker].type = "market" /\ orders[taker].unfilled > 0 =>
            {k \in Resting : orders[k].side # orders[taker].side} = {})

\* No fill is lost or invented on an order: what it filled and what remains
\* are its quantity, and nothing is overfilled, rolled-back orders included.
FillsAddUp ==
    \A k \in Pointers :
        /\ orders[k].filled + orders[k].remaining = orders[k].qty
        /\ orders[k].status = "filled" /\ orders[k].type = "limit"
                => orders[k].remaining = 0

\* What a trade takes from the order at k, and what all of a list's trades do.
Share(k, t) == IF k \in {t.buy, t.sell} THEN t.qty ELSE 0

Dealt(k, trades) ==
    LET sum[n \in 0..Len(trades)] ==
            IF n = 0 THEN 0 ELSE sum[n - 1] + Share(k, trades[n])
    IN  sum[Len(trades)]

\* The tape and the orders tell the same story: what a settled order filled
\* is the sum of its published trades.
TapeAccountsForFills ==
    pc = "idle" =>
        \A k \in Pointers :
            orders[k].status # "rejected" => orders[k].filled = Dealt(k, tape)

\* An order that is filled, cancelled or rejected never changes again: no
\* later AddOrder trades with it and no FOK rollback brings it back to life.
Final(k) == ~IsActive(orders[k]) /\ (pc = "idle" \/ k \notin InFlight)

FinalIsForever ==
    [][\A k \in Pointers : Final(k) => orders'[k] = orders[k]]_vars

\* The loop ends: each AddOrder the actor starts gives back the actor.
MatchingTerminates == (pc # "idle") ~> (pc = "idle")

-----------------------------------------------------------------------------
(* Why it holds.  BaseInv is inductive for any use of order IDs; BookInv is *)
(* inductive on top of it when no two orders share an ID.                   *)

\* An order's own numbers agree with its status.
Sound(o) ==
    /\ o.filled + o.remaining = o.qty
    /\ IsActive(o) => o.remaining > 0
    /\ o.status = "filled" /\ o.type = "limit" => o.remaining = 0
    /\ o.type # "market" => o.price \in Prices

OrdersSound == \A k \in Pointers : Sound(orders[k])

\* Only limit orders reach a level, that of their price, and never the taker.
LevelsHoldLimits ==
    \A p \in DOMAIN priceLevels : \A k \in priceLevels[p] :
        /\ orders[k].type = "limit" /\ orders[k].price = p
        /\ pc # "idle" => k # taker

SameRequest(o, r) ==
    o.id = r.id /\ o.side = r.side /\ o.type = r.type
        /\ o.price = r.price /\ o.qty = r.qty

\* The undo log holds what its orders were before this AddOrder: active.
LogSound ==
    pc = "match" =>
        \A k \in DOMAIN restored :
            /\ k \in InFlight \ {taker}
            /\ SameRequest(restored[k], orders[k])
            /\ Sound(restored[k]) /\ IsActive(restored[k])

\* A listed order is active, unless this AddOrder has just filled it and the
\* stage that drops it is still to come; the taker is not listed, and trades
\* on while it has something left.
ListsSound ==
    /\ \A k \in buyOrders : orders[k].side = "buy"
    /\ \A k \in sellOrders : orders[k].side = "sell"
    /\ \A k \in Resting :
        /\ orders[k].type = "limit"
        /\ pc # "idle" => k # taker
        /\ \/ IsActive(orders[k])
           \/ pc = "match" /\ k \in DOMAIN restored
           \/ pc = "cleanBuys"
           \/ pc = "cleanSells" /\ k \notin buyOrders
    /\ pc = "match" => IsActive(orders[taker])

BaseInv ==
    TypeOK /\ OrdersSound /\ LevelsHoldLimits /\ LogSound /\ ListsSound

IDsDiffer ==
    \A j, k \in Pointers : orders[j].id = orders[k].id => j = k

\* Lists, index and levels agree in every state, not only between calls.
StructuresAgree ==
    /\ bids = {orders[k].price : k \in buyOrders}
    /\ asks = {orders[k].price : k \in sellOrders}
    /\ DOMAIN priceLevels = bids \cup asks
    /\ \A p \in DOMAIN priceLevels :
            priceLevels[p] = {k \in Resting : orders[k].price = p}

Opposing == IF orders[taker].side = "buy" THEN sellOrders ELSE buyOrders

OppositePrices == IF orders[taker].side = "buy" THEN asks ELSE bids

\* The scan has gone past the orders at price p.
Passed(p) ==
    \/ node = NoNode
    \/ orders[taker].side = "buy" /\ p < node
    \/ orders[taker].side = "sell" /\ p > node

\* Nothing the scan has gone past could still trade with the taker.
OutOfReach(k) ==
    ~IsActive(orders[k]) \/ ~CanMatch(orders[taker], orders[k].price)

ScanComplete ==
    /\ pc = "match" =>
        /\ node = NoNode \/ node \in OppositePrices
        /\ \A k \in Opposing :
            \/ Passed(orders[k].price)
            \/ orders[k].price = node /\ k <= visited
            => OutOfReach(k)
    /\ pc \in {"cleanBuys", "cleanSells", "finish"}
            /\ ~IsFilled(orders[taker]) =>
        \A k \in Opposing : OutOfReach(k)

BookInv == IDsDiffer /\ StructuresAgree /\ NeverCrossed /\ ScanComplete

\* The trades made and not yet published.
Unpublished == IF pc = "idle" THEN <<>> ELSE tradesList

\* A killed FOK keeps the numbers it reached, though its trades are dropped.
Counts(k) == orders[k].status # "rejected" \/ (pc # "idle" /\ k = taker)

\* Trades name orders there are, and each order filled what they say.  An order
\* in the undo log is spent, and had filled what the tape says when this
\* AddOrder began; one that is not in it has made no trade since.
TapeInv ==
    /\ \A i \in DOMAIN tape : {tape[i].buy, tape[i].sell} \subseteq Pointers
    /\ \A i \in DOMAIN Unpublished :
            {Unpublished[i].buy, Unpublished[i].sell} \subseteq Pointers
    /\ \A k \in Pointers : Counts(k) =>
            orders[k].filled = Dealt(k, tape) + Dealt(k, Unpublished)
    /\ pc = "match" => \A k \in Pointers \ {taker} :
            IF k \in DOMAIN restored
            THEN ~IsActive(orders[k]) /\ restored[k].filled = Dealt(k, tape)
            ELSE Dealt(k, Unpublished) = 0
=============================================================================
