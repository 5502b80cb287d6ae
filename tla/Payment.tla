-------------------------------- MODULE Payment --------------------------------
(***************************************************************************)
(* payment-service: AuthorizePaymentHandler and RefundPaymentHandler over  *)
(* the payment gateway and the service's tables, run by the replicas of    *)
(* the deployment (Workers).                                               *)
(*                                                                         *)
(* A call of the gateway cannot be rolled back, and the record of it is    *)
(* written by a later transaction: between the two the handler may fail,   *)
(* die or lose its partition, and the command is handled again.  What      *)
(* keeps the customer from paying twice is the idempotency key, which is   *)
(* made of the order's id and nothing else.                                *)
(*                                                                         *)
(* An order has at most one payment (UNIQUE "orderId" in the projection),  *)
(* so payments are named by their order and stream[o] is the payment's     *)
(* event_store rows, with the outbox rows and the projection, which are    *)
(* written in the same transaction.                                        *)
(***************************************************************************)
EXTENDS Integers, Sequences

CONSTANTS
    Orders,
    Workers,      \* replicas of payment-service
    MaxFaults,    \* bound on GatewayError, Abandon and Revoke steps
    MaxCommands   \* bound on the commands published per order

ASSUME BoundsAssumption == MaxFaults \in Nat /\ MaxCommands \in Nat

Events == {"AUTHORIZED", "DECLINED", "REFUNDED"}
Commands == {"AuthorizePayment", "RefundPayment"}

VARIABLES
    stream,    \* event_store: the events of the order's payment
    gateway,   \* the gateway: its answer to the order's idempotency key
    charges,   \* the gateway: how often the customer was charged
    refunds,   \* the gateway: how often the payment was refunded
    inbox,     \* saga.commands: the commands of an order not yet committed
    handler,   \* what each worker is doing
    requests,  \* commands published so far, per order and type
    faults     \* how much of MaxFaults is used

vars == <<stream, gateway, charges, refunds, inbox, handler, requests, faults>>
money == <<gateway, charges, refunds>>
external == <<requests, faults>>

Idle == [pc |-> "idle"]

\* "charge" and "refund" are before the call of the gateway, "save" before the
\* transaction that records event, "commit" before commitOffsets.  event is
\* "none" while there is nothing to record; version is the aggregate's.
Handler == [pc : {"charge", "refund", "save", "commit"}, order : Orders, owner : BOOLEAN,
            event : Events \cup {"none"}, version : Nat]

TypeOK ==
    /\ stream \in [Orders -> Seq(Events)]
    /\ gateway \in [Orders -> {"none", "success", "decline"}]
    /\ charges \in [Orders -> Nat]
    /\ refunds \in [Orders -> Nat]
    /\ inbox \in [Orders -> Seq(Commands)]
    /\ handler \in [Workers -> Handler \cup {Idle}]
    /\ requests \in [Orders -> [Commands -> Nat]]
    /\ faults \in Nat

Init ==
    /\ stream = [o \in Orders |-> <<>>]
    /\ gateway = [o \in Orders |-> "none"]
    /\ charges = [o \in Orders |-> 0]
    /\ refunds = [o \in Orders |-> 0]
    /\ inbox = [o \in Orders |-> <<>>]
    /\ handler = [w \in Workers |-> Idle]
    /\ requests = [o \in Orders |-> [c \in Commands |-> 0]]
    /\ faults = 0
-----------------------------------------------------------------------------
(***************************************************************************)
(* eachMessage: the worker takes the oldest command of a partition.        *)
(***************************************************************************)
Owner(w) == handler[w] # Idle /\ handler[w].owner

Job(pc, o, event, version) ==
    [pc |-> pc, order |-> o, owner |-> TRUE, event |-> event, version |-> version]

\* The projection has a row of the order, which came with the payment's first event.
Known(o) == stream[o] # <<>>

\* loadAggregate: the version is the number of events.
Version(o) == Len(stream[o])

\* AuthorizePaymentHandler up to the call: an order that has a projection row
\* is skipped.
StartAuthorize(o) == Job(IF Known(o) THEN "commit" ELSE "charge", o, "none", 0)

\* Only an authorized payment has a pspReference, which it keeps.
HasReference(o) == Known(o) /\ stream[o][1] = "AUTHORIZED"

\* RefundPaymentHandler up to the call.  event is what aggregate.refund() will
\* add: nothing (PaymentAlreadyFinalizedError) if the payment is refunded.
StartRefund(o) ==
    Job("refund", o, IF Version(o) = 1 THEN "REFUNDED" ELSE "none", Version(o))

\* A refund of an unknown payment or of one without reference throws before
\* anything happens: the command stays.
Take(w, o) ==
    /\ handler[w] = Idle
    /\ inbox[o] # <<>>
    /\ \A v \in Workers : ~(Owner(v) /\ handler[v].order = o)
    /\ \/ /\ Head(inbox[o]) = "AuthorizePayment"
          /\ handler' = [handler EXCEPT ![w] = StartAuthorize(o)]
       \/ /\ Head(inbox[o]) = "RefundPayment"
          /\ HasReference(o)
          /\ handler' = [handler EXCEPT ![w] = StartRefund(o)]
    /\ UNCHANGED <<stream, money, inbox, external>>
-----------------------------------------------------------------------------
(***************************************************************************)
(* The gateway.                                                            *)
(***************************************************************************)

\* Mutant: the key is made of the paymentId, which is random.
Authorize_FreshKey(o, outcome) ==
    /\ gateway' = [gateway EXCEPT ![o] = outcome]
    /\ charges' = [charges EXCEPT ![o] = IF outcome = "success" THEN @ + 1 ELSE @]
    /\ UNCHANGED refunds

\* gateway.authorize with idempotencyKey "authorize:<orderId>": a key that was
\* used gets the answer it got.
Authorize(o, outcome) ==
    \/ /\ gateway[o] = "none"
       /\ gateway' = [gateway EXCEPT ![o] = outcome]
       /\ charges' = [charges EXCEPT ![o] = IF outcome = "success" THEN @ + 1 ELSE @]
       /\ UNCHANGED refunds
    \/ /\ gateway[o] = outcome
       /\ UNCHANGED money

Recorded(outcome) == IF outcome = "success" THEN "AUTHORIZED" ELSE "DECLINED"

Charge(w) ==
    LET h == handler[w]
    IN  /\ h.pc = "charge"
        /\ \E outcome \in {"success", "decline"} :
              /\ Authorize(h.order, outcome)
              /\ handler' = [handler EXCEPT ![w] =
                    [h EXCEPT !.pc = "save", !.event = Recorded(outcome)]]
        /\ UNCHANGED <<stream, inbox, external>>

\* Mutant: the catch block takes every error for a declined card.
GatewayError_Declined(w) ==
    LET h == handler[w]
    IN  /\ h.pc = "charge"
        /\ faults < MaxFaults
        /\ faults' = faults + 1
        /\ \/ UNCHANGED money
           \/ \E outcome \in {"success", "decline"} : Authorize(h.order, outcome)
        /\ handler' = [handler EXCEPT ![w] = [h EXCEPT !.pc = "save", !.event = "DECLINED"]]
        /\ UNCHANGED <<stream, inbox, requests>>

\* A connection, rate-limit or server error of the gateway is rethrown; the
\* charge may have been made all the same.
GatewayError(w) ==
    /\ handler[w].pc = "charge"
    /\ faults < MaxFaults
    /\ faults' = faults + 1
    /\ \/ UNCHANGED money
       \/ \E outcome \in {"success", "decline"} : Authorize(handler[w].order, outcome)
    /\ handler' = [handler EXCEPT ![w] = Idle]
    /\ UNCHANGED <<stream, inbox, requests>>

\* gateway.refund, which has no idempotency key: the gateway may accept a second
\* refund (the mock accepts all) or refuse it.
PayBack(o) == refunds' = [refunds EXCEPT ![o] = @ + 1]
RefusesRefund(o) == refunds[o] > 0 /\ UNCHANGED refunds

\* gateway.refund, which may throw, and then aggregate.refund(), whose
\* PaymentAlreadyFinalizedError is swallowed.
Refund(w) ==
    LET h == handler[w]
    IN  /\ h.pc = "refund"
        /\ \/ /\ PayBack(h.order)
              /\ handler' = [handler EXCEPT ![w].pc = IF h.event = "none" THEN "commit" ELSE "save"]
           \/ /\ RefusesRefund(h.order)
              /\ handler' = [handler EXCEPT ![w] = Idle]
        /\ UNCHANGED <<stream, gateway, charges, inbox, external>>
-----------------------------------------------------------------------------
(***************************************************************************)
(* The record, and the end of the message.                                 *)
(***************************************************************************)

\* UNIQUE (aggregateId, sequence) holds for the handler's event.  The index on
\* the projection's orderId refuses the first event of a second payment alike.
InSequence(h) == Len(stream[h.order]) = h.version

\* Mutant: no unique index on the projection's orderId nor on the sequence.
Save_NoUnique(w) ==
    LET h == handler[w]
    IN  /\ h.pc = "save"
        /\ stream' = [stream EXCEPT ![h.order] = Append(@, h.event)]
        /\ handler' = [handler EXCEPT ![w].pc = "commit"]
        /\ UNCHANGED <<money, inbox, external>>

\* PaymentEventStoreRepository.save.  A second payment of the order violates
\* the index on orderId, a second event of the same number that on sequence:
\* ConcurrencyError, and the message is redelivered.
Save(w) ==
    LET h == handler[w]
    IN  /\ h.pc = "save"
        /\ \/ /\ InSequence(h)
              /\ stream' = [stream EXCEPT ![h.order] = Append(@, h.event)]
              /\ handler' = [handler EXCEPT ![w].pc = "commit"]
           \/ /\ ~InSequence(h)
              /\ handler' = [handler EXCEPT ![w] = Idle]
              /\ UNCHANGED stream
        /\ UNCHANGED <<money, inbox, external>>

\* commitOffsets, refused to a worker that lost the partition.
CommitOffset(w) ==
    LET h == handler[w]
    IN  /\ h.pc = "commit"
        /\ inbox' = IF h.owner THEN [inbox EXCEPT ![h.order] = Tail(@)] ELSE inbox
        /\ handler' = [handler EXCEPT ![w] = Idle]
        /\ UNCHANGED <<stream, money, external>>

\* Mutant: the consumer commits the offset of a message it failed to process.
Abandon_Committed(w) ==
    /\ handler[w] # Idle
    /\ faults < MaxFaults
    /\ faults' = faults + 1
    /\ inbox' = IF Owner(w) THEN [inbox EXCEPT ![handler[w].order] = Tail(@)] ELSE inbox
    /\ handler' = [handler EXCEPT ![w] = Idle]
    /\ UNCHANGED <<stream, money, requests>>

\* A query fails or the process dies; the offset is not committed.
Abandon(w) ==
    /\ handler[w] # Idle
    /\ faults < MaxFaults
    /\ faults' = faults + 1
    /\ handler' = [handler EXCEPT ![w] = Idle]
    /\ UNCHANGED <<stream, money, inbox, requests>>

\* A rebalance takes the partition away from a handler that is still running.
Revoke(w) ==
    /\ Owner(w)
    /\ faults < MaxFaults
    /\ faults' = faults + 1
    /\ handler' = [handler EXCEPT ![w].owner = FALSE]
    /\ UNCHANGED <<stream, money, inbox, requests>>
-----------------------------------------------------------------------------
(***************************************************************************)
(* Whoever publishes commands: the orchestrator, which may repeat itself,  *)
(* and for refunds also operators, of payments that were authorized.       *)
(***************************************************************************)
Request(o, c) ==
    /\ requests[o]["AuthorizePayment"] + requests[o]["RefundPayment"] < MaxCommands
    /\ c = "RefundPayment" => HasReference(o)
    /\ requests' = [requests EXCEPT ![o][c] = @ + 1]
    /\ inbox' = [inbox EXCEPT ![o] = Append(@, c)]
    /\ UNCHANGED <<stream, money, handler, faults>>
-----------------------------------------------------------------------------
Worker(w) ==
    \/ \E o \in Orders : Take(w, o)
    \/ Charge(w)
    \/ Refund(w)
    \/ Save(w)
    \/ CommitOffset(w)

Next ==
    \/ \E w \in Workers : Worker(w) \/ GatewayError(w) \/ Abandon(w) \/ Revoke(w)
    \/ \E o \in Orders, c \in Commands : Request(o, c)

Spec == Init /\ [][Next]_vars

\* Consumers poll and run their handlers.
Fairness == \A w \in Workers : WF_vars(Worker(w))

FairSpec == Spec /\ Fairness
-----------------------------------------------------------------------------
(***************************************************************************)
(* Properties.                                                             *)
(***************************************************************************)

\* The customer is charged at most once for an order, whatever is repeated,
\* lost or raced ("Stripe's own idempotencyKey prevents a duplicate CHARGE").
ChargedAtMostOnce == \A o \in Orders : charges[o] <= 1

\* The record says what the gateway did: no payment is recorded as declined
\* whose charge went through, none as authorized without it, and a refund is
\* recorded only after the money was sent back (StripeAdapter.authorize,
\* RefundPaymentHandler.execute).
RecordTrue ==
    \A o \in Orders :
        /\ stream[o] # <<>> => stream[o][1] = Recorded(gateway[o]) /\ gateway[o] # "none"
        /\ Len(stream[o]) > 1 => refunds[o] > 0

\* What the payment's stream says to the orchestrator.
Says(s) ==
    IF s = <<>> THEN "none"
    ELSE IF s[Len(s)] = "AUTHORIZED" THEN "success"
    ELSE IF s[Len(s)] = "DECLINED" THEN "failure"
    ELSE "undone"

P == INSTANCE Participant WITH
        asked <- {o \in Orders : requests[o]["AuthorizePayment"] > 0},
        undoAsked <- {o \in Orders : requests[o]["RefundPayment"] > 0},
        answer <- [o \in Orders |-> Says(stream[o])]

\* payment-service answers AuthorizePayment once and refunds at most once on
\* record, as the orchestrator's step AUTHORIZE_PAYMENT needs it.
ImplementsParticipant == P!Spec

Pending(o, c) == \E i \in DOMAIN inbox[o] : inbox[o][i] = c

\* The offset of a command is committed only when its effect is there: an
\* authorization that is asked for and not recorded is still in the partition,
\* a customer who was charged without a record included, and so is a refund
\* that is asked for and not paid out, whoever failed or lost the partition
\* between the call of the gateway, the record and the commit.
NoCommandLost ==
    \A o \in Orders :
        /\ requests[o]["AuthorizePayment"] > 0 /\ stream[o] = <<>> => Pending(o, "AuthorizePayment")
        /\ requests[o]["RefundPayment"] > 0 /\ refunds[o] = 0 => Pending(o, "RefundPayment")


\* "Every handler this dispatches to is safe to re-run on redelivery"
\* (payment-consumer.controller.ts), and the retry "will never re-attempt the
\* Stripe call" (refund-payment.handler.ts): one payment is refunded once.
RefundedAtMostOnce == \A o \in Orders : refunds[o] <= 1
-----------------------------------------------------------------------------
(***************************************************************************)
(* The inductive invariant.                                                *)
(***************************************************************************)
\* The command a partition's owner works on is uncommitted, and it works alone.
OwnersTrue ==
    \A w \in Workers : Owner(w) =>
        /\ inbox[handler[w].order] # <<>>
        /\ \A v \in Workers \ {w} : ~(Owner(v) /\ handler[v].order = handler[w].order)

\* Commands come from requests, and a refund from an authorized payment.
CommandsTrue ==
    \A o \in Orders :
        /\ \A i \in DOMAIN inbox[o] : requests[o][inbox[o][i]] > 0
        /\ requests[o]["RefundPayment"] > 0 => HasReference(o)

\* The customer was charged once if the gateway's answer was success, else not.
GatewayTrue == \A o \in Orders : charges[o] = IF gateway[o] = "success" THEN 1 ELSE 0

Histories == {<<>>, <<"AUTHORIZED">>, <<"DECLINED">>, <<"AUTHORIZED", "REFUNDED">>}
StreamsTrue == \A o \in Orders : stream[o] \in Histories

\* What a handler is about to record is true already.
HandlerTrue(h) ==
    /\ h.pc = "charge" => h.version = 0 /\ requests[h.order]["AuthorizePayment"] > 0
    /\ h.pc = "refund" => h.event = "none" \/ (h.event = "REFUNDED" /\ h.version = 1)
    /\ h.pc = "refund" => requests[h.order]["RefundPayment"] > 0
    /\ h.pc = "save" =>
          \/ /\ gateway[h.order] # "none"
             /\ h.event = Recorded(gateway[h.order])
             /\ h.version = 0
             /\ requests[h.order]["AuthorizePayment"] > 0
          \/ /\ h.event = "REFUNDED"
             /\ h.version = 1
             /\ refunds[h.order] > 0
             /\ requests[h.order]["RefundPayment"] > 0

HandlersTrue == \A w \in Workers : handler[w] # Idle => HandlerTrue(handler[w])

\* An owner works on the first command of its partition; the handlers of the two
\* commands differ in the version they start from.  The effect comes before
\* the commit.
CommandTrue(h) ==
    /\ h.owner =>
          inbox[h.order][1] = IF h.version = 0 THEN "AuthorizePayment" ELSE "RefundPayment"
    /\ h.pc = "refund" => h.version > 0
    /\ h.pc = "commit" => IF h.version = 0 THEN stream[h.order] # <<>> ELSE refunds[h.order] > 0

IInv ==
    /\ TypeOK
    /\ OwnersTrue
    /\ CommandsTrue
    /\ GatewayTrue
    /\ StreamsTrue
    /\ RecordTrue
    /\ HandlersTrue
    /\ NoCommandLost
    /\ \A w \in Workers : handler[w] # Idle => CommandTrue(handler[w])
=============================================================================
