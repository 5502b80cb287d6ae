-------------------------- MODULE OrderFulfillment --------------------------
(***************************************************************************)
(* The one saga definition of the repository:                              *)
(* apps/saga-orchestrator/src/orchestrator/order-fulfillment.saga-definition.ts *)
(***************************************************************************)
EXTENDS Sequences

orderFulfillmentSaga ==
    << [name         |-> "RESERVE_INVENTORY",
        command      |-> "ReserveStock",
        success      |-> "InventoryReserved",
        failure      |-> "InventoryReservationFailed",
        compensation |-> "no compensation"],
       [name         |-> "AUTHORIZE_PAYMENT",
        command      |-> "AuthorizePayment",
        success      |-> "PaymentAuthorized",
        failure      |-> "PaymentDeclined",
        compensation |-> "ReleaseInventory"] >>
=============================================================================
