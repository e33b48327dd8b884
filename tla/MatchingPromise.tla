--------------------------- MODULE MatchingPromise ---------------------------
(***************************************************************************)
(* What a symbol's order book promises, with neither levels nor loops: an  *)
(* order that arrives takes from the resting orders of the other side in   *)
(* price-time priority, all at once, up to its limit; a limit order rests  *)
(* with what is left, a fill-or-kill order does all or nothing, the others *)
(* drop the rest.                                                          *)
(***************************************************************************)
EXTENDS Integers, Sequences

CONSTANTS OrderIDs, Prices, Quantities

VARIABLES
    arrived,        \* requests, in the order they arrived
    resting,        \* quantity left of each order on the book
    tape            \* all trades

promiseVars == <<arrived, resting, tape>>

Request == [id : OrderIDs, side : {"buy", "sell"},
            type : {"limit", "market", "ioc", "fok"},
            price : Prices \cup {0}, qty : Quantities]

\* Is resting order j willing to trade with request r?
Willing(r, j) ==
    /\ arrived[j].side # r.side
    /\ \/ r.type = "market"
       \/ r.side = "buy" /\ arrived[j].price <= r.price
       \/ r.side = "sell" /\ arrived[j].price >= r.price

Willings(r) == {j \in DOMAIN resting : Willing(r, j)}

\* j is served before k: a better price, or the same price and earlier.
Before(j, k) ==
    LET p == arrived[j].price  q == arrived[k].price IN
    \/ p = q /\ j < k
    \/ arrived[j].side = "buy" /\ p > q
    \/ arrived[j].side = "sell" /\ p < q

\* The sum of f over the numbers in S up to n.
Sum(f, S, n) ==
    LET sum[j \in 0..n] ==
            IF j = 0 THEN 0 ELSE sum[j - 1] + (IF j \in S THEN f[j] ELSE 0)
    IN  sum[n]

\* What is left of the orders in S.
Total(S) == Sum(resting, S, Len(arrived))

\* What r takes from j: whatever the orders served before j leave of it.
Take(r, j) ==
    LET left == r.qty - Total({k \in Willings(r) : Before(k, j)})
    IN  IF left <= 0 THEN 0
        ELSE IF left < resting[j] THEN left ELSE resting[j]

Taken(r) == {j \in Willings(r) : Take(r, j) > 0}

\* What r finds no taker for.
Rest(r) == LET t == Total(Willings(r)) IN IF t >= r.qty THEN 0 ELSE r.qty - t

TradeOf(r, j) ==
    LET me == Len(arrived) + 1 IN
    [buy   |-> IF r.side = "buy" THEN me ELSE j,
     sell  |-> IF r.side = "buy" THEN j ELSE me,
     price |-> arrived[j].price,
     qty   |-> Take(r, j)]

Partner(r, t) == IF r.side = "buy" THEN t.sell ELSE t.buy

\* These are the trades of r with the orders in S, each in its turn.
InTurn(r, S, trades) ==
    /\ {Partner(r, trades[i]) : i \in DOMAIN trades} = S
    /\ \A i \in DOMAIN trades : trades[i] = TradeOf(r, Partner(r, trades[i]))
    /\ \A i, j \in DOMAIN trades :
            i < j => Before(Partner(r, trades[i]), Partner(r, trades[j]))

Init == arrived = <<>> /\ resting = [j \in {} |-> 0] /\ tape = <<>>

Kill(r) ==
    /\ r.type = "fok" /\ Rest(r) > 0
    /\ arrived' = Append(arrived, r)
    /\ UNCHANGED <<resting, tape>>

Match(r) ==
    LET me == Len(arrived) + 1
        gone == {j \in Taken(r) : Take(r, j) = resting[j]}
        new == SubSeq(tape', Len(tape) + 1, Len(tape'))
        rests == IF r.type = "limit" /\ Rest(r) > 0 THEN {me} ELSE {}
    IN
    /\ r.type = "fok" => Rest(r) = 0
    /\ arrived' = Append(arrived, r)
    /\ resting' = [j \in (DOMAIN resting \ gone) \cup rests |->
                    IF j = me THEN Rest(r)
                    ELSE IF j \in Taken(r) THEN resting[j] - Take(r, j)
                    ELSE resting[j]]
    /\ tape' = tape \o new
    /\ InTurn(r, Taken(r), new)

Withdraw(j) ==
    /\ resting' = [k \in DOMAIN resting \ {j} |-> resting[k]]
    /\ UNCHANGED <<arrived, tape>>

Next ==
    \/ \E r \in Request : Kill(r) \/ Match(r)
    \/ \E j \in DOMAIN resting : Withdraw(j)

Spec == Init /\ [][Next]_promiseVars
=============================================================================
