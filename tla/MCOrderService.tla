---------------------------- MODULE MCOrderService ----------------------------
(***************************************************************************)
(* TLC instances of OrderService.                                          *)
(***************************************************************************)
EXTENDS OrderService

CONSTANTS o1, o2, w1, w2, r1, r2

OneOrder == {o1}
TwoOrders == {o1, o2}
TwoWorkers == {w1, w2}
TwoRelays == {r1, r2}
=============================================================================
