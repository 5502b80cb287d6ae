----------------------------- MODULE OrderService -----------------------------
(***************************************************************************)
(* order-service as a whole: the command handlers of Order, whose          *)
(* transactions insert the rows that the relays of Outbox publish to       *)
(* order.events.  Row i of order o is o's next event.  The orchestrator    *)
(* knows an order from its OrderCreated message, and so publishes a        *)
(* verdict only after that.                                                *)
(***************************************************************************)
EXTENDS Order, Outbox

\* An order's id is the key of its messages.
ASSUME OrdersAreKeys == Orders \subseteq Aggregates

ServiceVars == <<vars, OutboxVars>>

ServiceInit == Init /\ OutboxInit

\* Each event that is appended has its outbox row, in one transaction.
WithRows(o) ==
    IF stream'[o] # stream[o] THEN Insert(o) ELSE UNCHANGED OutboxVars

HandlerStep(w) ==
    \/ /\ \/ \E o \in Orders : Take(w, o)
          \/ CommitOffset(w)
          \/ Fault(w)
       /\ UNCHANGED OutboxVars
    \/ /\ Save(w)
       /\ WithRows(handler[w].order)

\* Mutant: the saga is started by the gateway's command, not by OrderCreated.
Announced_Commanded(o, c) == TRUE

\* The orchestrator has seen the order.
Announced(o, c) == c = "CreateOrder" \/ topic[o] # <<>>

Command(o, c) == Request(o, c) /\ Announced(o, c) /\ UNCHANGED OutboxVars

RelayStep(r) == (Relay(r) \/ Failure(r)) /\ UNCHANGED vars

ServiceNext ==
    \/ \E w \in Workers : HandlerStep(w)
    \/ \E o \in Orders, c \in Commands : Command(o, c)
    \/ \E r \in Relays : RelayStep(r)

\* Consumers poll and run their handlers; the timer ticks and a tick ends.
ServiceFairness ==
    /\ \A w \in Workers : WF_ServiceVars(Worker(w) /\ HandlerStep(w))
    /\ \A r \in Relays : WF_ServiceVars(Relay(r) /\ UNCHANGED vars)

ServiceSpec == ServiceInit /\ [][ServiceNext]_ServiceVars

FairServiceSpec == ServiceSpec /\ ServiceFairness
-----------------------------------------------------------------------------
(***************************************************************************)
(* Properties.                                                             *)
(***************************************************************************)
\* The order's last event is on the topic, and its row will not be sent again.
Tells(o) == \E k \in DOMAIN topic[o] : topic[o][k] \in published /\
    Cardinality({i \in DOMAIN rows : rows[i] = o /\ i <= topic[o][k]}) = Len(stream[o])

\* Row i is an event of order o that is on the topic or will be.
Underway(o, i) == rows[i] = o /\ (i \notin published \/ \E k \in DOMAIN topic[o] : topic[o][k] = i)

\* At every moment a command that was published is in the partition, in an
\* unpublished row or on order.events: between the consumer's offset, the
\* event store's transaction, the relay's stamps and the topic nothing can
\* fall through (OrderKafkaConsumer, OrderEventStoreRepository.save,
\* OutboxRelayScheduler).
NothingUntold ==
    \A o \in Orders :
        /\ requests[o]["CreateOrder"] > 0 =>
              Pending(o, "CreateOrder") \/ \E i \in DOMAIN rows : Underway(o, i)
        /\ \A c \in Commands \ {"CreateOrder"} : requests[o][c] > 0 =>
              \/ Pending(o, c)
              \/ \E i, j \in DOMAIN rows : i < j /\ Underway(o, i) /\ Underway(o, j)

\* A command that is not lost is eventually answered on order.events: after
\* CreateOrder consumers learn that the order exists, after a verdict that it
\* is decided, whatever fails between the command, the stream, the outbox and
\* the topic (OrderKafkaConsumer, OutboxRelayScheduler).
CommandsAnswered ==
    \A o \in Orders :
        /\ requests[o]["CreateOrder"] > 0 ~> stream[o] # <<>> /\ Tells(o)
        /\ (\E c \in Commands \ {"CreateOrder"} : requests[o][c] > 0)
              ~> Len(stream[o]) = 2 /\ Tells(o)
=============================================================================
