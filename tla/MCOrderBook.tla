----------------------------- MODULE MCOrderBook -----------------------------
(* Values for OrderBook's constants, and the symmetry of its order IDs. *)
EXTENDS OrderBookRefinement, TLC

CONSTANTS a, b, c

\* As many IDs as orders: no request is refused for want of an ID.
IDs == {a, b, c}

\* The saga submits every order with the empty ID.
SameID == {a}

\* IDs are only compared for equality.
IDSymmetry == Permutations(IDs)
=============================================================================
