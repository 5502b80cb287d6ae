--------------------------------- MODULE Order ---------------------------------
(***************************************************************************)
(* order-service: CreateOrderHandler, ConfirmOrderHandler and              *)
(* CancelOrderHandler over the event store, run by the replicas of the     *)
(* deployment (Workers).                                                   *)
(*                                                                         *)
(* A command is handled in two parts: the aggregate is loaded and decides, *)
(* then a transaction saves what it decided.  The event store's UNIQUE     *)
(* (aggregateId, sequence) is all that holds the two together.             *)
(*                                                                         *)
(* stream[o] is the order's event_store rows, with the outbox rows and the *)
(* projection, which are written in the same transaction.                  *)
(***************************************************************************)
EXTENDS Integers, Sequences

CONSTANTS
    Orders,
    Workers,      \* replicas of order-service
    MaxFaults,    \* bound on Abandon and Revoke steps
    MaxCommands   \* bound on the commands published per order

ASSUME OrderBounds == MaxFaults \in Nat /\ MaxCommands \in Nat

Commands == {"CreateOrder", "ConfirmOrder", "CancelOrder"}
Statuses == {"CREATED", "CONFIRMED", "CANCELLED"}

VARIABLES
    stream,    \* event_store: the events of each order, named by the status they lead to
    inbox,     \* saga.commands: the commands of an order not yet committed
    handler,   \* what each worker is doing
    requests,  \* commands published so far, per order and type
    faults     \* how much of MaxFaults is used

vars == <<stream, inbox, handler, requests, faults>>
external == <<requests, faults>>

Idle == [pc |-> "idle"]

\* "save" is before the transaction, "commit" before commitOffsets.  event is
\* the uncommitted event of the aggregate, version its expectedVersion.
Handler == [pc : {"save", "commit"}, order : Orders, owner : BOOLEAN,
            event : Statuses, version : Nat]

TypeOK ==
    /\ stream \in [Orders -> Seq(Statuses)]
    /\ inbox \in [Orders -> Seq(Commands)]
    /\ handler \in [Workers -> Handler \cup {Idle}]
    /\ requests \in [Orders -> [Commands -> Nat]]
    /\ faults \in Nat

Init ==
    /\ stream = [o \in Orders |-> <<>>]
    /\ inbox = [o \in Orders |-> <<>>]
    /\ handler = [w \in Workers |-> Idle]
    /\ requests = [o \in Orders |-> [c \in Commands |-> 0]]
    /\ faults = 0
-----------------------------------------------------------------------------
(***************************************************************************)
(* eachMessage: the worker takes the oldest command of a partition, loads  *)
(* the aggregate and lets it decide.                                       *)
(***************************************************************************)
Owner(w) == handler[w] # Idle /\ handler[w].owner

Job(pc, o, event, version) ==
    [pc |-> pc, order |-> o, owner |-> TRUE, event |-> event, version |-> version]

\* The aggregate's status: its events are applied in order, the last one wins.
Status(s) == IF s = <<>> THEN "UNINITIALIZED" ELSE s[Len(s)]

Leads(c) ==
    IF c = "CreateOrder" THEN "CREATED" ELSE IF c = "ConfirmOrder" THEN "CONFIRMED" ELSE "CANCELLED"

\* Mutant: confirm() refuses only what is confirmed already.
Refused_Loose(c, status) ==
    \/ c = "ConfirmOrder" /\ status = "CONFIRMED"
    \/ c = "CancelOrder" /\ status \in {"CANCELLED", "CONFIRMED"}

\* OrderAlreadyFinalizedError: what confirm() and cancel() refuse.
Refused(c, status) ==
    \/ c = "ConfirmOrder" /\ status # "CREATED"
    \/ c = "CancelOrder" /\ status \in {"CANCELLED", "CONFIRMED"}

\* loadAggregate finds events of the order.
Known(o) == stream[o] # <<>>

\* CreateOrder starts from a blank aggregate, whatever is stored.  A verdict
\* loads the order: an unknown one throws and the command stays, a finalized
\* one is a duplicate delivery, of which nothing is saved.
Take(w, o) ==
    /\ handler[w] = Idle
    /\ inbox[o] # <<>>
    /\ \A v \in Workers : ~(Owner(v) /\ handler[v].order = o)
    /\ LET c == Head(inbox[o])
       IN  \/ /\ c = "CreateOrder"
              /\ handler' = [handler EXCEPT ![w] = Job("save", o, "CREATED", 0)]
           \/ /\ c # "CreateOrder"
              /\ Known(o)
              /\ handler' = [handler EXCEPT ![w] =
                    Job(IF Refused(c, Status(stream[o])) THEN "commit" ELSE "save",
                        o, Leads(c), Len(stream[o]))]
    /\ UNCHANGED <<stream, inbox, external>>
-----------------------------------------------------------------------------
(***************************************************************************)
(* OrderEventStoreRepository.save and the end of the message.              *)
(***************************************************************************)

\* UNIQUE (aggregateId, sequence): the handler's event is the stream's next one.
InSequence(h) == Len(stream[h.order]) = h.version

\* Mutant: the event store has no unique constraint.
Save_NoUnique(w) ==
    LET h == handler[w]
    IN  /\ h.pc = "save"
        /\ stream' = [stream EXCEPT ![h.order] = Append(@, h.event)]
        /\ handler' = [handler EXCEPT ![w].pc = "commit"]
        /\ UNCHANGED <<inbox, external>>

\* Mutant: CreateOrderHandler rethrows the ConcurrencyError too.
Save_Rethrown(w) ==
    LET h == handler[w]
    IN  /\ h.pc = "save"
        /\ \/ /\ InSequence(h)
              /\ stream' = [stream EXCEPT ![h.order] = Append(@, h.event)]
              /\ handler' = [handler EXCEPT ![w].pc = "commit"]
           \/ /\ ~InSequence(h)
              /\ handler' = [handler EXCEPT ![w] = Idle]
              /\ UNCHANGED stream
        /\ UNCHANGED <<inbox, external>>

\* An event that is not the next one of the stream violates the constraint:
\* ConcurrencyError, which CreateOrderHandler takes for a duplicate delivery
\* and the others rethrow, so that the command is redelivered.
Save(w) ==
    LET h == handler[w]
    IN  /\ h.pc = "save"
        /\ \/ /\ InSequence(h)
              /\ stream' = [stream EXCEPT ![h.order] = Append(@, h.event)]
              /\ handler' = [handler EXCEPT ![w].pc = "commit"]
           \/ /\ ~InSequence(h)
              /\ handler' = IF h.event = "CREATED"
                            THEN [handler EXCEPT ![w].pc = "commit"]
                            ELSE [handler EXCEPT ![w] = Idle]
              /\ UNCHANGED stream
        /\ UNCHANGED <<inbox, external>>

\* commitOffsets, refused to a worker that lost the partition.
CommitOffset(w) ==
    LET h == handler[w]
    IN  /\ h.pc = "commit"
        /\ inbox' = IF h.owner THEN [inbox EXCEPT ![h.order] = Tail(@)] ELSE inbox
        /\ handler' = [handler EXCEPT ![w] = Idle]
        /\ UNCHANGED <<stream, external>>

\* A query fails or the process dies; the offset is not committed.
Abandon(w) ==
    /\ handler[w] # Idle
    /\ faults < MaxFaults
    /\ faults' = faults + 1
    /\ handler' = [handler EXCEPT ![w] = Idle]
    /\ UNCHANGED <<stream, inbox, requests>>

\* A rebalance takes the partition away from a handler that is still running.
Revoke(w) ==
    /\ Owner(w)
    /\ faults < MaxFaults
    /\ faults' = faults + 1
    /\ handler' = [handler EXCEPT ![w].owner = FALSE]
    /\ UNCHANGED <<stream, inbox, requests>>

\* The gateway publishes CreateOrder, the orchestrator the verdicts, of orders
\* that exist.  After a race or a crash the orchestrator may publish a verdict
\* twice or both verdicts.
Request(o, c) ==
    /\ requests[o]["CreateOrder"] + requests[o]["ConfirmOrder"] + requests[o]["CancelOrder"]
          < MaxCommands
    /\ c # "CreateOrder" => Known(o)
    /\ requests' = [requests EXCEPT ![o][c] = @ + 1]
    /\ inbox' = [inbox EXCEPT ![o] = Append(@, c)]
    /\ UNCHANGED <<stream, handler, faults>>
-----------------------------------------------------------------------------
Worker(w) ==
    \/ \E o \in Orders : Take(w, o)
    \/ Save(w)
    \/ CommitOffset(w)

Fault(w) == Abandon(w) \/ Revoke(w)

Next ==
    \/ \E w \in Workers : Worker(w) \/ Fault(w)
    \/ \E o \in Orders, c \in Commands : Request(o, c)

Spec == Init /\ [][Next]_vars
-----------------------------------------------------------------------------
(***************************************************************************)
(* Properties.                                                             *)
(***************************************************************************)
\* The projection's status, upserted in the transaction of the event.
projection == [o \in Orders |-> Status(stream[o])]

L == INSTANCE OrderLifecycle WITH
        asked <- [o \in Orders |-> {c \in Commands : requests[o][c] > 0}],
        status <- projection

\* However commands are repeated, contradict each other, race or are cut off,
\* an order is created once and gets one verdict, one that was asked for
\* (OrderEventStoreRepository.save, OrderAggregate.confirm and cancel).
ImplementsLifecycle == L!Spec

Pending(o, c) == \E i \in DOMAIN inbox[o] : inbox[o][i] = c

Answered(o, c) == IF c = "CreateOrder" THEN stream[o] # <<>> ELSE Len(stream[o]) = 2

\* The offset of a command is committed only when there is nothing left to do:
\* what is asked for and not answered by an event is still in the partition,
\* the ConcurrencyError that CreateOrderHandler swallows and the verdict that
\* confirm() and cancel() refuse included.
NoCommandLost ==
    \A o \in Orders, c \in Commands : requests[o][c] > 0 /\ ~Answered(o, c) => Pending(o, c)
-----------------------------------------------------------------------------
(***************************************************************************)
(* The inductive invariant.                                                *)
(***************************************************************************)
\* The command a partition's owner works on is uncommitted, and it works alone.
OwnersTrue ==
    \A w \in Workers : Owner(w) =>
        /\ inbox[handler[w].order] # <<>>
        /\ \A v \in Workers \ {w} : ~(Owner(v) /\ handler[v].order = handler[w].order)

\* Commands come from requests.
CommandsTrue ==
    \A o \in Orders : \A i \in DOMAIN inbox[o] : requests[o][inbox[o][i]] > 0

\* The streams an order can have.
Histories ==
    {<<>>, <<"CREATED">>, <<"CREATED", "CONFIRMED">>, <<"CREATED", "CANCELLED">>}
StreamsTrue == \A o \in Orders : stream[o] \in Histories

\* An aggregate in memory holds what the stream held when it was loaded: an
\* order to be created, or a created one and the verdict that was asked for.
HandlerTrue(h) ==
    h.pc = "save" =>
        \/ /\ h.event = "CREATED"
           /\ h.version = 0
           /\ requests[h.order]["CreateOrder"] > 0
        \/ /\ h.version = 1
           /\ \/ h.event = "CONFIRMED" /\ requests[h.order]["ConfirmOrder"] > 0
              \/ h.event = "CANCELLED" /\ requests[h.order]["CancelOrder"] > 0

HandlersTrue == \A w \in Workers : handler[w] # Idle => HandlerTrue(handler[w])

\* An owner works on the first command of its partition; a blank aggregate is
\* CreateOrder's.  The event comes before the commit.
CommandTrue(h) ==
    /\ h.owner => (inbox[h.order][1] = "CreateOrder" <=> h.version = 0)
    /\ h.pc = "commit" => IF h.version = 0 THEN stream[h.order] # <<>> ELSE Len(stream[h.order]) = 2

IInv ==
    /\ TypeOK
    /\ OwnersTrue
    /\ CommandsTrue
    /\ StreamsTrue
    /\ HandlersTrue
    /\ NoCommandLost
    /\ \A w \in Workers : handler[w] # Idle => CommandTrue(handler[w])
=============================================================================
