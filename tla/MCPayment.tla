------------------------------ MODULE MCPayment ------------------------------
(***************************************************************************)
(* TLC instances of Payment.                                               *)
(***************************************************************************)
EXTENDS Payment

CONSTANTS o1, o2, w1, w2

OneOrder == {o1}
TwoOrders == {o1, o2}
TwoWorkers == {w1, w2}
=============================================================================
