---------------------------- MODULE MCOrderService ----------------------------
(* Values for OrderService's constants. *)
EXTENDS OrderService, TLC

CONSTANTS c1, c2, c3

TwoCallers == {c1, c2}
ThreeCallers == {c1, c2, c3}
CallersAlike == Permutations(Callers)

\* A part of the order, and all of it.
ReportedFills == {1, 2}
=============================================================================
