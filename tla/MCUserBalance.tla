---------------------------- MODULE MCUserBalance ----------------------------
(* Values for UserBalance's constants. *)
EXTENDS UserBalance, TLC

CONSTANTS p1, p2, p3

ThreeCallers == {p1, p2, p3}
SomeAmounts == {-1, 1, 2}
CallersAlike == Permutations(ThreeCallers)
=============================================================================
