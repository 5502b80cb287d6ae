-------------------------- MODULE OrderService_proofs --------------------------
(***************************************************************************)
(* The composition implements its parts: a step of the service is a step   *)
(* of the handlers of Order or leaves their variables alone, and a step of *)
(* the outbox of Outbox or leaves its variables alone.  So what is proved  *)
(* of each part by itself holds of the two together, for any orders,       *)
(* replicas and relays.  EventsInOrder holds of neither part alone: the    *)
(* outbox may reorder, but no verdict is in it before OrderCreated is out. *)
(* Nor does NothingFallsThrough: a command that the handlers do not lose   *)
(* has its row, and a row that the relays do not drop reaches the topic.   *)
(***************************************************************************)
EXTENDS OrderService, Order_proofs, Outbox_proofs

\* A handler's turn, with the row that it may insert.
LEMMA HandlerParts ==
    ASSUME NEW w \in Workers, HandlerStep(w), TypeOK
    PROVE  /\ Worker(w) \/ Fault(w)
           /\ OutboxNext \/ UNCHANGED OutboxVars
<1>1. Worker(w) \/ Fault(w)
  BY DEF HandlerStep, Worker
<1>2. CASE Save(w) /\ WithRows(handler[w].order)
  <2>1. handler[w].pc = "save"
    BY <1>2 DEF Save
  <2>2. handler[w] # Idle
    BY <2>1 DEF Idle
  <2>3. handler[w].order \in Aggregates
    BY <2>2, NotIdle, OrdersAreKeys DEF Handler
  <2> QED
    BY <1>1, <1>2, <2>3 DEF WithRows, OutboxNext
<1>3. CASE UNCHANGED OutboxVars
  BY <1>1, <1>3
<1> QED
  BY <1>1, <1>2, <1>3 DEF HandlerStep

\* The command handlers run in the service as they do by themselves: the
\* relays never touch the event store or the commands.
THEOREM Handlers == ServiceSpec => Spec
<1>1. ServiceInit => Init
  BY DEF ServiceInit
<1>2. [ServiceNext]_ServiceVars => [Next]_vars
  <2>1. ASSUME ServiceNext PROVE Next \/ UNCHANGED vars
    <3>1. CASE \E w \in Workers : HandlerStep(w)
      BY <3>1 DEF HandlerStep, Worker, Next
    <3>2. CASE \E o \in Orders, c \in Commands : Command(o, c)
      BY <3>2 DEF Command, Next
    <3>3. CASE \E r \in Relays : RelayStep(r)
      BY <3>3 DEF RelayStep
    <3> QED
      BY <2>1, <3>1, <3>2, <3>3 DEF ServiceNext
  <2>2. UNCHANGED ServiceVars => UNCHANGED vars
    BY DEF ServiceVars
  <2> QED
    BY <2>1, <2>2
<1> QED
  BY <1>1, <1>2, PTL DEF ServiceSpec, Spec

\* The relays run in the service as they do by themselves: a handler does no
\* more to the outbox than to insert the row of its own order.
THEOREM Relaying == ServiceSpec => OutboxSpec
<1>1. ServiceInit => OutboxInit
  BY DEF ServiceInit
<1>2. IInv /\ [ServiceNext]_ServiceVars => [OutboxNext]_OutboxVars
  <2>1. ASSUME IInv, ServiceNext PROVE OutboxNext \/ UNCHANGED OutboxVars
    <3>1. CASE \E w \in Workers : HandlerStep(w)
      BY <2>1, <3>1, HandlerParts DEF IInv
    <3>2. CASE \E o \in Orders, c \in Commands : Command(o, c)
      BY <3>2 DEF Command
    <3>3. CASE \E r \in Relays : RelayStep(r)
      BY <3>3 DEF RelayStep, OutboxNext
    <3> QED
      BY <2>1, <3>1, <3>2, <3>3 DEF ServiceNext
  <2>2. UNCHANGED ServiceVars => UNCHANGED OutboxVars
    BY DEF ServiceVars
  <2> QED
    BY <2>1, <2>2
<1>3. ServiceSpec => []IInv
  BY Handlers, Invariant, PTL
<1> QED
  BY <1>1, <1>2, <1>3, PTL DEF ServiceSpec, OutboxSpec

\* In order-service too an order is created once and gets one verdict, one
\* that was asked for (CreateOrder-, ConfirmOrder- and CancelOrderHandler).
THEOREM ServiceLifecycle == ServiceSpec => ImplementsLifecycle
BY Handlers, Lifecycle, PTL

\* In order-service too no event is stamped as published that is not on
\* order.events (OutboxRelayScheduler).
THEOREM ServiceDropsNothing == ServiceSpec => []StampedWasSent
BY Relaying, NothingDropped, PTL

\* In order-service too an event is repeated on order.events only after a
\* failure, once for each (OutboxRelayScheduler).
THEOREM ServiceSendsOnce == ServiceSpec => []SentOncePerFailure
BY Relaying, SentOnce, PTL

-----------------------------------------------------------------------------
(***************************************************************************)
(* The order of an order's events on the topic.  A relay may send any row  *)
(* before any other; what keeps them apart is causality.  The second event *)
(* is a verdict, which nobody asks for before the first was on the topic.  *)
(***************************************************************************)

\* An order has at most two rows, and the second comes when the first is sent.
RowsTrue ==
    \A i \in DOMAIN rows :
        /\ rows[i] \in Orders
        /\ stream[rows[i]] # <<>>
        /\ \A j \in DOMAIN rows : i < j /\ rows[j] = rows[i] =>
              /\ stream[rows[i]] # <<"CREATED">>
              /\ topic[rows[i]] # <<>>
              /\ topic[rows[i]][1] = i

TopicTrue == \A a \in Aggregates : \A k \in DOMAIN topic[a] : rows[topic[a][k]] = a

VerdictsCaused ==
    \A o \in Orders, c \in Commands \ {"CreateOrder"} : requests[o][c] > 0 => topic[o] # <<>>

Causality == RowsTrue /\ TopicTrue /\ VerdictsCaused

LEMMA CausalityOrders ==
    ASSUME OutboxTypeOK, RowsTrue, TopicTrue
    PROVE  FirstSentInOrder
<1> SUFFICES ASSUME NEW a \in Aggregates, NEW k \in DOMAIN topic[a],
                    NEW i \in 1 .. topic[a][k] - 1, rows[i] = a
             PROVE  \E m \in 1 .. k - 1 : topic[a][m] = i
  BY DEF FirstSentInOrder
<1> DEFINE j == topic[a][k]
<1>1. /\ rows \in Seq(Aggregates) /\ topic[a] \in Seq(DOMAIN rows)
      /\ k \in 1 .. Len(topic[a]) /\ Len(topic[a]) \in Nat
  <2>1. rows \in Seq(Aggregates) /\ topic[a] \in Seq(DOMAIN rows)
    BY DEF OutboxTypeOK
  <2> QED BY <2>1
<1>2. j \in DOMAIN rows /\ rows[j] = a
  BY <1>1, ElementOfSeq DEF TopicTrue
<1>3. i \in DOMAIN rows /\ i < j
  <2> HIDE DEF j
  <2>1. DOMAIN rows = 1 .. Len(rows) /\ Len(rows) \in Nat
    BY <1>1
  <2>2. i \in 1 .. j - 1
    BY DEF j
  <2> QED BY <1>2, <2>1, <2>2
<1>4. topic[a][1] = i
  BY <1>2, <1>3 DEF RowsTrue
<1>5. k # 1
  BY <1>3, <1>4
<1> QED
  BY <1>1, <1>4, <1>5

\* What is on the topic stays, and a message is about its own key.
LEMMA SendCaused ==
    ASSUME OutboxTypeOK, Causality, NEW i \in DOMAIN rows, Send(i),
           rows' = rows, stream' = stream, requests' = requests
    PROVE  Causality'
<1> DEFINE a == rows[i]
           s == topic[a]
           n == Append(s, i)
<1>1. a \in Aggregates /\ s \in Seq(DOMAIN rows)
  BY ElementOfSeq DEF OutboxTypeOK
<1>2. topic'[a] = n /\ \A b \in Aggregates \ {a} : topic'[b] = topic[b]
  BY <1>1 DEF OutboxTypeOK, Send
<1>3. /\ n # <<>> /\ (s # <<>> => n[1] = s[1])
      /\ \A k \in DOMAIN n : (k \in DOMAIN s /\ n[k] = s[k]) \/ n[k] = i
  <2>1. /\ Len(s) \in Nat /\ Len(n) = Len(s) + 1 /\ n \in Seq(DOMAIN rows)
        /\ DOMAIN n = 1 .. Len(n) /\ DOMAIN s = 1 .. Len(s)
        /\ \A k \in 1 .. Len(s) : n[k] = s[k]
        /\ n[Len(s) + 1] = i
        /\ s # <<>> => Len(s) > 0
    BY <1>1
  <2>2. Len(<<>>) = 0
    OBVIOUS
  <2> HIDE DEF n, s
  <2> QED BY <2>1, <2>2
<1>4. \A b \in Aggregates : topic[b] # <<>> => topic'[b] # <<>> /\ topic'[b][1] = topic[b][1]
  <2> HIDE DEF n
  <2> QED BY <1>2, <1>3
<1>5. RowsTrue'
  <2>1. ASSUME NEW x \in DOMAIN rows PROVE rows[x] \in Aggregates
    BY <2>1, ElementOfSeq DEF OutboxTypeOK
  <2> HIDE DEF a
  <2> QED BY <1>4, <2>1 DEF Causality, RowsTrue
<1>6. TopicTrue'
  <2> HIDE DEF n
  <2> QED BY <1>2, <1>3 DEF Causality, TopicTrue
<1>7. VerdictsCaused'
  BY <1>4, OrdersAreKeys DEF Causality, VerdictsCaused
<1> QED
  BY <1>5, <1>6, <1>7 DEF Causality

\* The row of an order's first event, or of its verdict.
LEMMA InsertCaused ==
    ASSUME OutboxTypeOK, Causality, NEW o \in Orders, Insert(o),
           requests' = requests, \A x \in Orders \ {o} : stream'[x] = stream[x],
           \/ stream[o] = <<>> /\ stream'[o] # <<>>
           \/ /\ stream[o] = <<"CREATED">>
              /\ stream'[o] # <<>> /\ stream'[o] # <<"CREATED">>
              /\ \E c \in Commands \ {"CreateOrder"} : requests[o][c] > 0
    PROVE  Causality'
<1> DEFINE l == Len(rows) + 1
<1>1. /\ rows \in Seq(Aggregates) /\ Len(rows) \in Nat /\ o \in Aggregates
      /\ topic \in [Aggregates -> Seq(DOMAIN rows)]
  BY OrdersAreKeys DEF OutboxTypeOK
<1>2. /\ DOMAIN rows' = DOMAIN rows \cup {l} /\ rows'[l] = o
      /\ \A i \in DOMAIN rows : rows'[i] = rows[i] /\ i < l
      /\ topic' = topic
  BY <1>1 DEF Insert
<1>3. ASSUME NEW i \in DOMAIN rows, rows[i] = o
      PROVE  topic[o] # <<>> /\ topic[o][1] = i
  <2>1. stream[o] = <<"CREATED">> /\ \E c \in Commands \ {"CreateOrder"} : requests[o][c] > 0
    BY <1>3 DEF Causality, RowsTrue
  <2>2. topic[o] # <<>>
    BY <2>1 DEF Causality, VerdictsCaused
  <2> DEFINE t == topic[o][1]
  <2>3. 1 \in DOMAIN topic[o]
    BY <1>1, <2>2
  <2>4. t \in DOMAIN rows /\ rows[t] = o
    BY <1>1, <2>3, ElementOfSeq DEF Causality, TopicTrue
  <2>5. ~(i < t) /\ ~(t < i)
    BY <1>3, <2>1, <2>4 DEF Causality, RowsTrue
  <2> QED BY <1>1, <2>2, <2>4, <2>5
<1>4. ASSUME NEW i \in DOMAIN rows'
      PROVE  rows'[i] \in Orders /\ stream'[rows'[i]] # <<>>
  <2>1. CASE i = l
    BY <1>2, <2>1
  <2>2. CASE i \in DOMAIN rows
    BY <1>2, <2>2 DEF Causality, RowsTrue
  <2> QED BY <1>2, <2>1, <2>2
<1>5. ASSUME NEW i \in DOMAIN rows', NEW j \in DOMAIN rows', i < j, rows'[j] = rows'[i]
      PROVE  /\ stream'[rows'[i]] # <<"CREATED">>
             /\ topic'[rows'[i]] # <<>> /\ topic'[rows'[i]][1] = i
  <2>1. i \in DOMAIN rows /\ rows'[i] = rows[i]
    BY <1>1, <1>2, <1>5
  <2>2. CASE j = l
    <3>1. rows[i] = o
      BY <1>2, <1>5, <2>1, <2>2
    <3>2. stream[o] # <<>>
      BY <2>1, <3>1 DEF Causality, RowsTrue
    <3> QED BY <1>2, <1>3, <2>1, <3>1, <3>2
  <2>3. CASE j \in DOMAIN rows
    <3>1. /\ rows[j] = rows[i] /\ rows[i] \in Orders
          /\ stream[rows[i]] # <<>> /\ stream[rows[i]] # <<"CREATED">>
          /\ topic[rows[i]] # <<>> /\ topic[rows[i]][1] = i
      BY <1>2, <1>5, <2>1, <2>3 DEF Causality, RowsTrue
    <3> QED BY <1>2, <2>1, <3>1
  <2> QED BY <1>2, <2>2, <2>3
<1>6. RowsTrue'
  BY <1>4, <1>5 DEF RowsTrue
<1>7. TopicTrue'
  <2> SUFFICES ASSUME NEW a \in Aggregates, NEW k \in DOMAIN topic[a]
               PROVE  rows'[topic[a][k]] = a
    BY <1>2 DEF TopicTrue
  <2>1. topic[a][k] \in DOMAIN rows
    BY <1>1, ElementOfSeq
  <2> QED BY <1>2, <2>1 DEF Causality, TopicTrue
<1>8. VerdictsCaused'
  BY <1>2 DEF Causality, VerdictsCaused
<1> QED
  BY <1>6, <1>7, <1>8 DEF Causality

\* The event that a handler saves comes with its row.
LEMMA SavedRow ==
    ASSUME IInv, NEW w \in Workers, Save(w), WithRows(handler[w].order), stream' # stream
    PROVE  \E o \in Orders :
              /\ Insert(o)
              /\ \A x \in Orders \ {o} : stream'[x] = stream[x]
              /\ \/ /\ stream[o] = <<>>
                    /\ stream'[o] # <<>> /\ Len(stream'[o]) # 2
                 \/ /\ stream[o] = <<"CREATED">>
                    /\ stream'[o] # <<>> /\ stream'[o] # <<"CREATED">>
                    /\ \E c \in Commands \ {"CreateOrder"} : requests[o][c] > 0
<1>1. PICK o \in Orders :
         /\ \A x \in Orders \ {o} : stream'[x] = stream[x]
         /\ \/ stream[o] = <<>> /\ stream'[o] = <<"CREATED">>
            \/ /\ stream[o] = <<"CREATED">>
               /\ \/ stream'[o] = <<"CREATED", "CONFIRMED">>
                  \/ stream'[o] = <<"CREATED", "CANCELLED">>
               /\ \E c \in Commands \ {"CreateOrder"} : requests[o][c] > 0
  BY SaveStep DEF IInv, Commands
<1>2. /\ <<>> # <<"CREATED">> /\ <<"CREATED">> # <<"CREATED", "CONFIRMED">>
      /\ <<"CREATED">> # <<"CREATED", "CANCELLED">>
      /\ <<>> # <<"CREATED", "CONFIRMED">> /\ <<>> # <<"CREATED", "CANCELLED">>
      /\ Len(<<"CREATED">>) # 2
  OBVIOUS
<1>3. handler[w].order = o
  <2>1. stream' = [stream EXCEPT ![handler[w].order] = Append(@, handler[w].event)]
    BY DEF Save
  <2> QED BY <1>1, <1>2, <2>1 DEF IInv, TypeOK
<1>4. Insert(o)
  BY <1>1, <1>2, <1>3 DEF WithRows
<1> QED
  BY <1>1, <1>2, <1>4

LEMMA CausalityStep ==
    ASSUME IInv, OutboxTypeOK, Causality, [ServiceNext]_ServiceVars
    PROVE  Causality'
<1>1. CASE stream' = stream /\ UNCHANGED OutboxVars /\ requests' = requests
  BY <1>1 DEF OutboxVars, Causality, RowsTrue, TopicTrue, VerdictsCaused
<1>2. ASSUME NEW w \in Workers, Save(w), WithRows(handler[w].order), stream' # stream
      PROVE  Causality'
  <2>1. PICK o \in Orders :
           /\ Insert(o)
           /\ \A x \in Orders \ {o} : stream'[x] = stream[x]
           /\ \/ stream[o] = <<>> /\ stream'[o] # <<>>
              \/ /\ stream[o] = <<"CREATED">>
                 /\ stream'[o] # <<>> /\ stream'[o] # <<"CREATED">>
                 /\ \E c \in Commands \ {"CreateOrder"} : requests[o][c] > 0
    BY <1>2, SavedRow
  <2>2. requests' = requests
    BY <1>2 DEF Save, external
  <2> QED BY <2>1, <2>2, InsertCaused
<1>3. ASSUME NEW o \in Orders, NEW c \in Commands, Command(o, c)
      PROVE  Causality'
  <2>1. /\ UNCHANGED <<stream, rows, topic>> /\ Announced(o, c)
        /\ requests' = [requests EXCEPT ![o][c] = @ + 1]
    BY <1>3 DEF Command, Request, OutboxVars
  <2>2. VerdictsCaused'
    <3> SUFFICES ASSUME NEW x \in Orders, NEW d \in Commands \ {"CreateOrder"}, requests'[x][d] > 0
                 PROVE  topic[x] # <<>>
      BY <2>1 DEF VerdictsCaused
    <3>1. CASE x = o /\ d = c
      BY <2>1, <3>1 DEF Announced
    <3>2. CASE x # o \/ d # c
      <4>1. requests'[x][d] = requests[x][d]
        BY <2>1, <3>2 DEF IInv, TypeOK
      <4> QED BY <4>1 DEF Causality, VerdictsCaused
    <3> QED BY <3>1, <3>2
  <2> QED BY <2>1, <2>2 DEF Causality, RowsTrue, TopicTrue
<1>4. ASSUME NEW r \in Relays, RelayStep(r)
      PROVE  Causality'
  <2>1. UNCHANGED <<stream, requests, rows>>
    BY <1>4 DEF RelayStep, vars, Relay, Failure, Select, PublishRow, PublishUnlocked,
       CommitBatch, PublishFails, Crash, LoseConnection
  <2>2. CASE topic' = topic
    BY <2>1, <2>2 DEF Causality, RowsTrue, TopicTrue, VerdictsCaused
  <2>3. CASE \E i \in relay[r].todo : Send(i)
    BY <2>1, <2>3, SendCaused, RelayFields
  <2> QED
    BY <1>4, <2>2, <2>3 DEF RelayStep, Relay, Failure, Select, PublishRow, PublishUnlocked,
       CommitBatch, PublishFails, Crash, LoseConnection
<1>5. ASSUME NEW w \in Workers, HandlerStep(w)
      PROVE  Causality'
  <2>1. CASE UNCHANGED OutboxVars /\ stream' = stream /\ requests' = requests
    BY <1>1, <2>1
  <2>2. CASE Save(w) /\ WithRows(handler[w].order) /\ stream' = stream
    BY <1>1, <2>2 DEF Save, external, WithRows
  <2>3. CASE Save(w) /\ WithRows(handler[w].order) /\ stream' # stream
    BY <1>2, <2>3
  <2> QED
    BY <1>5, <2>1, <2>2, <2>3 DEF HandlerStep, Take, CommitOffset, Fault, Abandon, Revoke, external
<1>6. CASE UNCHANGED ServiceVars
  BY <1>1, <1>6 DEF ServiceVars, vars
<1> QED
  BY <1>3, <1>4, <1>5, <1>6 DEF ServiceNext

LEMMA ServiceCausality == ServiceSpec => []TopicTrue /\ []FirstSentInOrder
<1>1. ServiceInit => Causality
  <2> SUFFICES ASSUME ServiceInit PROVE Causality
    OBVIOUS
  <2>1. rows = <<>> /\ \A a \in Aggregates : topic[a] = <<>>
    BY DEF ServiceInit, OutboxInit
  <2>2. DOMAIN <<>> = {}
    OBVIOUS
  <2>3. \A o \in Orders, c \in Commands : ~(requests[o][c] > 0)
    BY DEF ServiceInit, Init
  <2> QED BY <2>1, <2>2, <2>3 DEF Causality, RowsTrue, TopicTrue, VerdictsCaused
<1>2. IInv /\ OutboxIInv /\ Causality /\ [ServiceNext]_ServiceVars => Causality'
  BY CausalityStep DEF OutboxIInv
<1>3. OutboxIInv /\ Causality => TopicTrue /\ FirstSentInOrder
  BY CausalityOrders DEF OutboxIInv, Causality
<1>4. ServiceSpec => []IInv /\ []OutboxIInv
  BY Handlers, Invariant, Relaying, OutboxInvariant, PTL
<1> QED
  BY <1>1, <1>2, <1>3, <1>4, PTL DEF ServiceSpec

\* Events of an order appear on order.events in the order of the stream, skipped
\* rows, two relays and repeated publications notwithstanding.
THEOREM EventsInOrder == ServiceSpec => []FirstSentInOrder
BY ServiceCausality, PTL

-----------------------------------------------------------------------------
(***************************************************************************)
(* From the command to the topic.                                          *)
(***************************************************************************)

\* Every event of a stream has a row of its own.
RowsComplete ==
    \A o \in Orders :
        /\ stream[o] # <<>> => \E i \in DOMAIN rows : rows[i] = o
        /\ Len(stream[o]) = 2 => \E i, j \in DOMAIN rows : i < j /\ rows[i] = o /\ rows[j] = o

LEMMA RowsCompleteStep ==
    ASSUME IInv, OutboxTypeOK, RowsComplete, [ServiceNext]_ServiceVars
    PROVE  RowsComplete'
<1>1. CASE stream' = stream /\ rows' = rows
  BY <1>1 DEF RowsComplete
<1>2. ASSUME NEW w \in Workers, Save(w), WithRows(handler[w].order), stream' # stream
      PROVE  RowsComplete'
  <2>1. PICK o \in Orders :
           /\ Insert(o)
           /\ \A x \in Orders \ {o} : stream'[x] = stream[x]
           /\ Len(stream'[o]) # 2 \/ stream[o] = <<"CREATED">>
    BY <1>2, SavedRow
  <2> DEFINE l == Len(rows) + 1
  <2>2. /\ DOMAIN rows' = DOMAIN rows \cup {l} /\ rows'[l] = o
        /\ \A i \in DOMAIN rows : rows'[i] = rows[i] /\ i < l
    <3>1. rows \in Seq(Aggregates) /\ o \in Aggregates
      BY OrdersAreKeys DEF OutboxTypeOK
    <3> QED
      BY <2>1, <3>1 DEF Insert
  <2>3. ASSUME NEW x \in Orders, x # o
        PROVE  /\ stream'[x] # <<>> => \E i \in DOMAIN rows' : rows'[i] = x
               /\ Len(stream'[x]) = 2 =>
                     \E i, j \in DOMAIN rows' : i < j /\ rows'[i] = x /\ rows'[j] = x
    BY <2>1, <2>2, <2>3 DEF RowsComplete
  <2>4. CASE stream[o] = <<"CREATED">>
    <3>1. stream[o] # <<>>
      BY <2>4
    <3>2. PICK i \in DOMAIN rows : rows[i] = o
      BY <3>1 DEF RowsComplete
    <3> QED
      BY <2>2, <2>3, <3>2 DEF RowsComplete
  <2>5. CASE Len(stream'[o]) # 2
    BY <2>2, <2>3, <2>5 DEF RowsComplete
  <2> QED
    BY <2>1, <2>4, <2>5
<1>3. ASSUME NEW r \in Relays, RelayStep(r) PROVE stream' = stream /\ rows' = rows
  BY <1>3 DEF RelayStep, vars, Relay, Failure, Select, PublishRow, PublishUnlocked,
     CommitBatch, PublishFails, Crash, LoseConnection
<1>4. ASSUME NEW w \in Workers, HandlerStep(w)
      PROVE  RowsComplete'
  <2>1. CASE UNCHANGED OutboxVars /\ stream' = stream
    BY <1>1, <2>1 DEF OutboxVars
  <2>2. CASE Save(w) /\ WithRows(handler[w].order) /\ stream' = stream
    BY <1>1, <2>2 DEF WithRows, OutboxVars
  <2>3. CASE Save(w) /\ WithRows(handler[w].order) /\ stream' # stream
    BY <1>2, <2>3
  <2> QED
    BY <1>4, <2>1, <2>2, <2>3 DEF HandlerStep, Take, CommitOffset, Fault, Abandon, Revoke
<1>5. ASSUME NEW o \in Orders, NEW c \in Commands, Command(o, c) PROVE stream' = stream /\ rows' = rows
  BY <1>5 DEF Command, Request, OutboxVars
<1>6. CASE UNCHANGED ServiceVars
  BY <1>1, <1>6 DEF ServiceVars, vars, OutboxVars
<1> QED
  BY <1>1, <1>3, <1>4, <1>5, <1>6 DEF ServiceNext

\* A row that is stamped is on the topic of its own order.
LEMMA RowsUnderway ==
    ASSUME TopicTrue, StampedWasSent, NEW i \in DOMAIN rows
    PROVE  Underway(rows[i], i)
<1> SUFFICES ASSUME i \in published PROVE \E k \in DOMAIN topic[rows[i]] : topic[rows[i]][k] = i
  BY DEF Underway
<1>1. PICK a \in Aggregates : \E k \in DOMAIN topic[a] : topic[a][k] = i
  BY DEF StampedWasSent, Sent
<1> QED
  BY <1>1 DEF TopicTrue

\* At every moment a command that was published is in the partition, in an
\* unpublished row or on order.events (OrderKafkaConsumer, the command
\* handlers, OrderEventStoreRepository.save and OutboxRelayScheduler).
THEOREM NothingFallsThrough == ServiceSpec => []NothingUntold
<1>1. ServiceInit => RowsComplete
  <2> SUFFICES ASSUME ServiceInit, NEW o \in Orders PROVE stream[o] = <<>>
    <3>1. Len(<<>>) # 2
      OBVIOUS
    <3> QED
      BY <3>1 DEF RowsComplete
  <2> QED
    BY DEF ServiceInit, Init
<1>2. IInv /\ OutboxIInv /\ RowsComplete /\ [ServiceNext]_ServiceVars => RowsComplete'
  BY RowsCompleteStep DEF OutboxIInv
<1>3. ServiceSpec => []IInv /\ []OutboxIInv
  BY Handlers, Invariant, Relaying, OutboxInvariant, PTL
<1>4. ServiceSpec => []RowsComplete
  BY <1>1, <1>2, <1>3, PTL DEF ServiceSpec
<1>5. NoCommandLost /\ RowsComplete /\ TopicTrue /\ StampedWasSent => NothingUntold
  <2> SUFFICES ASSUME NoCommandLost, RowsComplete, TopicTrue, StampedWasSent, NEW o \in Orders
               PROVE  /\ requests[o]["CreateOrder"] > 0 =>
                            Pending(o, "CreateOrder") \/ \E i \in DOMAIN rows : Underway(o, i)
                      /\ \A c \in Commands \ {"CreateOrder"} : requests[o][c] > 0 =>
                            \/ Pending(o, c)
                            \/ \E i, j \in DOMAIN rows : i < j /\ Underway(o, i) /\ Underway(o, j)
    BY DEF NothingUntold
  <2>1. \A i \in DOMAIN rows : rows[i] = o => Underway(o, i)
    BY RowsUnderway
  <2>2. \A c \in Commands : requests[o][c] > 0 =>
           Pending(o, c) \/ (IF c = "CreateOrder" THEN stream[o] # <<>> ELSE Len(stream[o]) = 2)
    BY DEF NoCommandLost, Answered
  <2>3. "CreateOrder" \in Commands
    BY DEF Commands
  <2> QED
    BY <2>1, <2>2, <2>3 DEF RowsComplete
<1>6. ServiceSpec => []NoCommandLost
  BY Handlers, NothingForgotten, PTL
<1> QED
  BY <1>3, <1>4, <1>5, <1>6, ServiceCausality, ServiceDropsNothing, PTL
=============================================================================
