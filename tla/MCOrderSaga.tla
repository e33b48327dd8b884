----------------------------- MODULE MCOrderSaga -----------------------------
(* Values for OrderSaga's constants. *)
EXTENDS OrderSaga

CONSTANTS g1, k1, k2, r1, r2

OneGateway == {g1}
OneSaga == {k1}
TwoSagas == {k1, k2}
OneRequest == {r1}
TwoRequests == {r1, r2}
SagaActions == {Freeze, Submit}

Anything == {"crash", "database", "answer"}
CrashOnly == {"crash"}
=============================================================================
