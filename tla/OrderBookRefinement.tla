------------------------ MODULE OrderBookRefinement ------------------------
(***************************************************************************)
(* The order book implements MatchingPromise.  A running AddOrder takes    *)
(* effect when it returns: until then the abstract book is the one it      *)
(* started from, which the lists and the undo log still hold between them. *)
(***************************************************************************)
EXTENDS OrderBook

RequestOf(o) ==
    [id |-> o.id, side |-> o.side, type |-> o.type, price |-> o.price,
     qty |-> o.qty]

Arrived ==
    [k \in 1..(IF pc = "idle" THEN Len(orders) ELSE taker - 1) |->
        RequestOf(orders[k])]

\* An undo entry outlives the lists: clean-up drops the orders it names.
Untraded ==
    IF pc = "idle"
    THEN [k \in Resting |-> orders[k].remaining]
    ELSE [k \in Resting \cup DOMAIN restored |->
            IF k \in DOMAIN restored THEN restored[k].remaining
            ELSE orders[k].remaining]

Promise == INSTANCE MatchingPromise
           WITH arrived <- Arrived, resting <- Untraded, tape <- tape

\* Every AddOrder and CancelOrder has the effect price-time priority, the
\* limit and the order type promise, whatever levels and orders the loop
\* meets and however it is left: none trades twice, none jumps the queue, a
\* killed FOK leaves no trace on the book.
ImplementsPromise == Promise!Spec

-----------------------------------------------------------------------------
(* Why it holds: what a running AddOrder has done so far is a beginning of   *)
(* what the promise lets it do at once.                                      *)

Asked == RequestOf(orders[taker])

Served == DOMAIN restored

\* The orders served are willing, and none is served before its turn.
ServedInTurn ==
    /\ Served \subseteq Promise!Willings(Asked)
    /\ Promise!InTurn(Asked, Served, tradesList)
    /\ \A j \in Served, k \in Promise!Willings(Asked) :
            Promise!Before(k, j) => k \in Served
    /\ pc = "match" => \A k \in Served :
            Passed(orders[k].price) \/ (orders[k].price = node /\ k <= visited)

\* Each has lost what the promise takes from it: all it had, unless it is the
\* last.  Only served orders become inactive, and only inactive ones are dropped.
ServedRightly ==
    /\ \A k \in Served :
        /\ k < taker
        /\ Promise!Take(Asked, k) > 0
        /\ restored[k].remaining =
                orders[k].remaining + Promise!Take(Asked, k)
        /\ orders[k].remaining = 0 \/ (pc # "match" /\ IsActive(orders[k]))
        /\ k \in Resting \/ (pc # "match" /\ ~IsActive(orders[k]))
    /\ \A k \in Resting : IsActive(orders[k]) \/ k \in Served

\* The taker got what they had; it stops when it has enough or nobody is left.
TakerServed ==
    LET got == Promise!Total(Served)
        wants == orders[taker].remaining
    IN
    /\ pc = "match" => wants + got = Asked.qty
    /\ pc # "match" =>
        \/ wants = 0 /\ got >= Asked.qty
        \/ wants + got = Asked.qty /\ Served = Promise!Willings(Asked)

PromiseInv == pc # "idle" => ServedInTurn /\ ServedRightly /\ TakerServed
=============================================================================
