------------------------------ MODULE MCCheckout ------------------------------
(***************************************************************************)
(* TLC instances of Checkout.                                              *)
(***************************************************************************)
EXTENDS Checkout

CONSTANTS o1, w1, m1, m2

OneOrder == {o1}
OneWorker == {w1}
TwoMailers == {m1, m2}

\* The definition the orchestrator runs.
Definition == INSTANCE OrderFulfillment
OrderFulfillmentSteps == Definition!orderFulfillmentSaga
=============================================================================
