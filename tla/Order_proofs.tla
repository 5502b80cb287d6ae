----------------------------- MODULE Order_proofs -----------------------------
(***************************************************************************)
(* For any orders, replicas, faults and repeated or contradictory          *)
(* commands: order-service implements OrderLifecycle.  It rests on IInv:   *)
(* an aggregate in memory that is to be saved at sequence 2 was loaded     *)
(* from a created order, and the event store accepts it only while that    *)
(* sequence number is free (HandlersTrue, StreamsTrue).  And no command is *)
(* lost: a handler at its commit holds one that was answered (CommandTrue).*)
(***************************************************************************)
EXTENDS Order, SequenceTheorems, TLAPS

-----------------------------------------------------------------------------
(***************************************************************************)
(* Types.                                                                  *)
(***************************************************************************)

\* A handler record is a Handler exactly when it is not idle.
LEMMA BusyHandler ==
    ASSUME TypeOK, NEW w \in Workers, handler[w].pc # "idle"
    PROVE  handler[w] \in Handler /\ handler[w] # Idle
BY DEF TypeOK, Idle

LEMMA NotIdle ==
    ASSUME TypeOK, NEW w \in Workers, handler[w] # Idle
    PROVE  handler[w] \in Handler /\ handler[w].pc # "idle"
BY DEF TypeOK, Handler

LEMMA TakenType ==
    ASSUME NEW pc \in {"save", "commit"}, NEW o \in Orders,
           NEW event \in Statuses, NEW version \in Nat
    PROVE  Job(pc, o, event, version) \in Handler
BY DEF Job, Handler

\* The length of a stream tells which of the Histories it is, up to the verdict.
LEMMA StreamLength ==
    ASSUME StreamsTrue, NEW o \in Orders
    PROVE  /\ Len(stream[o]) \in Nat
           /\ Len(stream[o]) = 0 => stream[o] = <<>>
           /\ Len(stream[o]) = 1 => stream[o] = <<"CREATED">>
<1>1. stream[o] \in Histories
  BY DEF StreamsTrue
<1>2. CASE stream[o] = <<>>
  BY <1>2
<1>3. CASE stream[o] = <<"CREATED">>
  BY <1>3
<1>4. CASE stream[o] = <<"CREATED", "CONFIRMED">>
  BY <1>4
<1>5. CASE stream[o] = <<"CREATED", "CANCELLED">>
  BY <1>5
<1> QED
  BY <1>1, <1>2, <1>3, <1>4, <1>5 DEF Histories

\* What the streams that occur say.
LEMMA StatusWhat ==
    /\ Status(<<>>) = "UNINITIALIZED"
    /\ Status(<<"CREATED">>) = "CREATED"
    /\ Status(<<"CREATED", "CONFIRMED">>) = "CONFIRMED"
    /\ Status(<<"CREATED", "CANCELLED">>) = "CANCELLED"
BY DEF Status

\* A verdict is accepted of a created order only.
LEMMA Accepted ==
    ASSUME StreamsTrue, NEW o \in Orders, stream[o] # <<>>,
           NEW c \in Commands \ {"CreateOrder"}, ~Refused(c, Status(stream[o]))
    PROVE  stream[o] = <<"CREATED">>
<1>1. stream[o] \in Histories
  BY DEF StreamsTrue
<1>2. c = "ConfirmOrder" \/ c = "CancelOrder"
  BY DEF Commands
<1> QED
  BY <1>1, <1>2, StatusWhat DEF Histories, Refused

\* What a step of a handler does to the other handlers.
Turn(w) == Worker(w) \/ Fault(w)

LEMMA Others ==
    ASSUME TypeOK, NEW w \in Workers, Turn(w)
    PROVE  \A v \in Workers \ {w} : handler'[v] = handler[v]
BY DEF Turn, Worker, Fault, Take, Save, InSequence, CommitOffset, Abandon, Revoke, TypeOK

\* A step of a running handler ends it, or moves it on with what it holds.
LEMMA KeepsOn ==
    ASSUME TypeOK, NEW w \in Workers, Save(w) \/ Revoke(w)
    PROVE  /\ handler[w] \in Handler /\ handler[w] # Idle
           /\ inbox' = inbox /\ requests' = requests
           /\ handler' \in [Workers -> Handler \cup {Idle}]
           /\ \/ handler'[w] = Idle
              \/ /\ handler'[w] \in Handler
                 /\ handler'[w].order = handler[w].order
                 /\ handler'[w].event = handler[w].event
                 /\ handler'[w].version = handler[w].version
                 /\ handler'[w].owner => handler[w].owner
                 /\ handler'[w].pc = handler[w].pc \/ handler'[w].pc = "commit"
<1> DEFINE h == handler[w]
           g == handler'[w]
<1>1. h \in Handler /\ h # Idle /\ inbox' = inbox /\ requests' = requests
  BY BusyHandler, NotIdle DEF Save, InSequence, Revoke, Owner, external
<1>2. \/ handler' = [handler EXCEPT ![w] = Idle]
      \/ handler' = [handler EXCEPT ![w] = [h EXCEPT !.pc = "commit"]]
      \/ handler' = [handler EXCEPT ![w] = [h EXCEPT !.owner = FALSE]]
  BY DEF Save, InSequence, Revoke
<1>3. CASE handler' = [handler EXCEPT ![w] = Idle]
  BY <1>1, <1>3 DEF TypeOK
<1>4. CASE \/ handler' = [handler EXCEPT ![w] = [h EXCEPT !.pc = "commit"]]
           \/ handler' = [handler EXCEPT ![w] = [h EXCEPT !.owner = FALSE]]
  <2>1. g = [h EXCEPT !.pc = "commit"] \/ g = [h EXCEPT !.owner = FALSE]
    BY <1>4 DEF TypeOK
  <2>2. g \in Handler => handler' \in [Workers -> Handler \cup {Idle}]
    BY <1>4, <2>1 DEF TypeOK
  <2>3. /\ g \in Handler /\ g.order = h.order /\ g.event = h.event /\ g.version = h.version
        /\ g.owner => h.owner
        /\ g.pc = h.pc \/ g.pc = "commit"
    BY <1>1, <2>1 DEF Handler
  <2> QED
    BY <1>1, <2>2, <2>3
<1> QED
  BY <1>2, <1>3, <1>4

\* What a handler takes on.
LEMMA TakeStep ==
    ASSUME TypeOK, StreamsTrue, CommandsTrue, NEW w \in Workers, NEW o \in Orders, Take(w, o)
    PROVE  /\ handler' \in [Workers -> Handler \cup {Idle}]
           /\ handler'[w] \in Handler
           /\ handler'[w].order = o
           /\ inbox[o] # <<>>
           /\ UNCHANGED <<stream, inbox, requests, faults>>
           /\ HandlerTrue(handler[w])'
<1> DEFINE c == Head(inbox[o])
           g == handler'[w]
           s == stream[o]
<1>1. /\ c \in Commands /\ requests[o][c] > 0 /\ inbox[o] # <<>>
      /\ UNCHANGED <<stream, inbox, requests, faults>>
  <2>1. 1 \in DOMAIN inbox[o] /\ c = inbox[o][1] /\ inbox[o] \in Seq(Commands)
    BY DEF Take, TypeOK
  <2> QED
    BY <2>1, ElementOfSeq DEF Take, CommandsTrue, external
<1>2. CASE c = "CreateOrder"
  <2>1. handler' = [handler EXCEPT ![w] = Job("save", o, "CREATED", 0)]
    BY <1>2 DEF Take
  <2>2. g = Job("save", o, "CREATED", 0)
    BY <2>1 DEF TypeOK
  <2>3. Job("save", o, "CREATED", 0) \in Handler
    BY TakenType DEF Statuses
  <2>4. HandlerTrue(handler[w])'
    BY <1>1, <1>2, <2>2 DEF HandlerTrue, Job
  <2>5. handler' \in [Workers -> Handler \cup {Idle}]
    BY <2>1, <2>3 DEF TypeOK
  <2>6. g.order = o
    BY <2>2 DEF Job
  <2> QED
    BY <1>1, <2>2, <2>3, <2>4, <2>5, <2>6
<1>3. CASE c # "CreateOrder"
  <2> DEFINE pc == IF Refused(c, Status(s)) THEN "commit" ELSE "save"
  <2>1. s # <<>> /\ handler' = [handler EXCEPT ![w] = Job(pc, o, Leads(c), Len(s))]
    BY <1>3 DEF Take, Known
  <2>2. g = Job(pc, o, Leads(c), Len(s))
    BY <2>1 DEF TypeOK
  <2>3. pc \in {"save", "commit"} /\ Leads(c) \in Statuses /\ Len(s) \in Nat
    BY StreamLength DEF Leads, Statuses
  <2>4. g.pc = pc /\ g.order = o /\ g.event = Leads(c) /\ g.version = Len(s)
    BY <2>2 DEF Job
  <2>5. HandlerTrue(handler[w])'
    <3>1. SUFFICES ASSUME pc = "save" PROVE HandlerTrue(handler[w])'
      BY <2>4 DEF HandlerTrue
    <3>2. s = <<"CREATED">>
      BY <1>1, <1>3, <2>1, <3>1, Accepted
    <3>3. Len(s) = 1
      BY <3>2
    <3>4. c = "ConfirmOrder" \/ c = "CancelOrder"
      BY <1>1, <1>3 DEF Commands
    <3> HIDE DEF c, g, s, pc
    <3> QED
      BY <1>1, <2>4, <3>3, <3>4 DEF HandlerTrue, Leads, g
  <2>6. g \in Handler
    BY <2>2, <2>3, TakenType
  <2>7. handler' \in [Workers -> Handler \cup {Idle}]
    BY <2>1, <2>2, <2>6 DEF TypeOK
  <2> QED
    BY <1>1, <2>4, <2>5, <2>6, <2>7
<1> QED
  BY <1>2, <1>3

LEMMA TypeStep ==
    ASSUME TypeOK, OwnersTrue, CommandsTrue, StreamsTrue, HandlersTrue, Next
    PROVE  TypeOK'
<1> USE DEF external
<1>1. ASSUME NEW w \in Workers, NEW o \in Orders, Take(w, o) PROVE TypeOK'
  BY <1>1, TakeStep DEF TypeOK
<1>2. ASSUME NEW w \in Workers, Save(w) PROVE TypeOK'
  <2>1. handler[w] \in Handler /\ handler' \in [Workers -> Handler \cup {Idle}]
    BY <1>2, KeepsOn DEF TypeOK
  <2>2. stream' \in [Orders -> Seq(Statuses)]
    <3>1. CASE stream' = stream
      BY <3>1 DEF TypeOK
    <3>2. CASE stream' = [stream EXCEPT ![handler[w].order] = Append(@, handler[w].event)]
      BY <2>1, <3>2 DEF TypeOK, Handler
    <3> QED
      BY <1>2, <3>1, <3>2 DEF Save, InSequence
  <2> QED
    BY <1>2, <2>1, <2>2 DEF Save, InSequence, TypeOK
<1>3. ASSUME NEW w \in Workers, CommitOffset(w) PROVE TypeOK'
  <2> DEFINE o == handler[w].order
  <2>1. handler[w] \in Handler /\ o \in Orders
    BY <1>3, BusyHandler DEF CommitOffset, Handler
  <2>2. CASE handler[w].owner
    <3>1. inbox[o] # <<>> /\ inbox[o] \in Seq(Commands)
      <4>1. Owner(w)
        BY <1>3, <2>2, BusyHandler DEF CommitOffset, Owner
      <4> QED
        BY <2>1, <4>1 DEF OwnersTrue, TypeOK
    <3>2. Tail(inbox[o]) \in Seq(Commands)
      BY <3>1
    <3> QED
      BY <1>3, <2>2, <3>2 DEF CommitOffset, TypeOK
  <2>3. CASE ~handler[w].owner
    BY <1>3, <2>3 DEF CommitOffset, TypeOK
  <2> QED
    BY <2>2, <2>3
<1>4. ASSUME NEW w \in Workers, Abandon(w) PROVE TypeOK'
  BY <1>4 DEF Abandon, TypeOK
<1>5. ASSUME NEW w \in Workers, Revoke(w) PROVE TypeOK'
  <2>1. handler' \in [Workers -> Handler \cup {Idle}]
    BY <1>5, KeepsOn
  <2>2. UNCHANGED <<stream, inbox, requests>> /\ faults' = faults + 1
    BY <1>5 DEF Revoke
  <2> QED
    BY <2>1, <2>2 DEF TypeOK
<1>6. ASSUME NEW o \in Orders, NEW c \in Commands, Request(o, c) PROVE TypeOK'
  <2>1. inbox' \in [Orders -> Seq(Commands)]
    BY <1>6 DEF Request, TypeOK
  <2>2. requests' \in [Orders -> [Commands -> Nat]]
    <3>1. [requests[o] EXCEPT ![c] = @ + 1] \in [Commands -> Nat]
      BY DEF TypeOK
    <3> QED
      BY <1>6, <3>1 DEF Request, TypeOK
  <2> QED
    BY <1>6, <2>1, <2>2 DEF Request, TypeOK
<1> QED
  BY <1>1, <1>2, <1>3, <1>4, <1>5, <1>6 DEF Next, Worker, Fault

-----------------------------------------------------------------------------
(***************************************************************************)
(* The parts of the invariant.                                             *)
(***************************************************************************)

\* Requests are counted, never forgotten.
LEMMA RequestsGrow ==
    ASSUME TypeOK, Next, NEW o \in Orders, NEW c \in Commands, requests[o][c] > 0
    PROVE  requests'[o][c] > 0
<1>1. CASE requests' = requests
  BY <1>1
<1>2. ASSUME NEW x \in Orders, NEW d \in Commands, Request(x, d) PROVE requests'[o][c] > 0
  <2>1. requests' = [requests EXCEPT ![x] = [requests[x] EXCEPT ![d] = @ + 1]]
    BY <1>2 DEF Request
  <2>2. requests'[o] = IF o = x THEN [requests[x] EXCEPT ![d] = @ + 1] ELSE requests[o]
    BY <2>1 DEF TypeOK
  <2>3. requests[o] \in [Commands -> Nat] /\ requests[o][c] \in Nat
    BY DEF TypeOK
  <2>4. requests'[o][c] = requests[o][c] \/ requests'[o][c] = requests[o][c] + 1
    BY <2>2, <2>3
  <2> QED
    BY <2>3, <2>4
<1>3. ASSUME NEW w \in Workers, Turn(w) PROVE requests' = requests
  BY <1>3 DEF Turn, Worker, Fault, Take, Save, InSequence, CommitOffset, Abandon, Revoke, external
<1> QED
  BY <1>1, <1>2, <1>3 DEF Next, Turn

LEMMA OwnersStep ==
    ASSUME TypeOK, OwnersTrue, CommandsTrue, StreamsTrue, Next
    PROVE  OwnersTrue'
<1>1. ASSUME NEW w \in Workers, NEW o \in Orders, Take(w, o) PROVE OwnersTrue'
  <2>1. handler'[w].order = o /\ inbox[o] # <<>> /\ inbox' = inbox
    BY <1>1, TakeStep
  <2>2. \A v \in Workers \ {w} : handler'[v] = handler[v] /\ ~(Owner(v) /\ handler[v].order = o)
    BY <1>1, Others DEF Turn, Worker, Take
  <2> QED
    BY <2>1, <2>2 DEF OwnersTrue, Owner
<1>2. ASSUME NEW w \in Workers, Save(w) \/ Revoke(w) PROVE OwnersTrue'
  <2>1. \A v \in Workers \ {w} : handler'[v] = handler[v]
    BY <1>2, Others DEF Turn, Worker, Fault
  <2>2. CASE handler'[w] = Idle
    BY <1>2, <2>1, <2>2, KeepsOn DEF OwnersTrue, Owner
  <2>3. CASE handler'[w] # Idle
    BY <1>2, <2>1, <2>3, KeepsOn DEF OwnersTrue, Owner
  <2> QED
    BY <2>2, <2>3
<1>3. ASSUME NEW w \in Workers, CommitOffset(w) \/ Abandon(w) PROVE OwnersTrue'
  <2>1. handler'[w] = Idle /\ \A v \in Workers \ {w} : handler'[v] = handler[v]
    BY <1>3 DEF CommitOffset, Abandon, TypeOK
  <2>2. CASE inbox' = inbox
    BY <2>1, <2>2 DEF OwnersTrue, Owner
  <2>3. CASE inbox' # inbox
    <3>1. Owner(w) /\ \A x \in Orders : x # handler[w].order => inbox'[x] = inbox[x]
      BY <1>3, <2>3, BusyHandler DEF CommitOffset, Abandon, Owner, TypeOK
    <3>2. \A v \in Workers : Owner(v) => handler[v].order \in Orders
      BY NotIdle DEF Owner, Handler
    <3> QED
      BY <2>1, <3>1, <3>2 DEF OwnersTrue, Owner
  <2> QED
    BY <2>2, <2>3
<1>4. ASSUME NEW o \in Orders, NEW c \in Commands, Request(o, c) PROVE OwnersTrue'
  <2>1. handler' = handler
    BY <1>4 DEF Request
  <2>2. \A x \in Orders : inbox[x] # <<>> => inbox'[x] # <<>>
    <3>1. inbox' = [inbox EXCEPT ![o] = Append(inbox[o], c)] /\ inbox \in [Orders -> Seq(Commands)]
      BY <1>4 DEF Request, TypeOK
    <3>2. inbox[o] \in Seq(Commands)
      BY <3>1
    <3>3. Append(inbox[o], c) # <<>>
      BY <3>2
    <3> QED
      BY <3>1, <3>3
  <2>3. \A v \in Workers : Owner(v) => handler[v].order \in Orders
    BY NotIdle DEF Owner, Handler
  <2> QED
    BY <2>1, <2>2, <2>3 DEF OwnersTrue, Owner
<1> QED
  BY <1>1, <1>2, <1>3, <1>4 DEF Next, Worker, Fault

LEMMA CommandsStep ==
    ASSUME TypeOK, OwnersTrue, CommandsTrue, Next
    PROVE  CommandsTrue'
<1> SUFFICES ASSUME NEW o \in Orders, NEW i \in DOMAIN inbox'[o]
             PROVE  requests'[o][inbox'[o][i]] > 0
  BY DEF CommandsTrue
<1> DEFINE c == inbox'[o][i]
<1>1. inbox[o] \in Seq(Commands)
  BY DEF TypeOK
<1>2. SUFFICES (\E j \in DOMAIN inbox[o] : c = inbox[o][j]) \/ requests'[o][c] > 0
  BY <1>1, ElementOfSeq, RequestsGrow DEF CommandsTrue
<1>3. CASE inbox'[o] = inbox[o]
  BY <1>3
<1>4. ASSUME NEW w \in Workers, CommitOffset(w), inbox'[o] # inbox[o]
      PROVE  \E j \in DOMAIN inbox[o] : c = inbox[o][j]
  <2>1. Owner(w) /\ handler[w].order = o /\ inbox'[o] = Tail(inbox[o])
    BY <1>4, BusyHandler DEF CommitOffset, Owner, TypeOK
  <2>2. inbox[o] # <<>>
    BY <2>1 DEF OwnersTrue
  <2>3. i + 1 \in DOMAIN inbox[o] /\ inbox'[o][i] = inbox[o][i + 1]
    BY <1>1, <2>1, <2>2
  <2> QED
    BY <2>3
<1>5. ASSUME NEW x \in Orders, NEW d \in Commands, Request(x, d), inbox'[o] # inbox[o]
      PROVE  (\E j \in DOMAIN inbox[o] : c = inbox[o][j]) \/ requests'[o][c] > 0
  <2>1. inbox'[o] = Append(inbox[o], d) /\ requests'[o] = [requests[o] EXCEPT ![d] = @ + 1]
    BY <1>5 DEF Request, TypeOK
  <2>2. CASE i \in DOMAIN inbox[o]
    BY <1>1, <2>1, <2>2
  <2>3. CASE i \notin DOMAIN inbox[o]
    <3>1. c = d
      BY <1>1, <2>1, <2>3
    <3>2. requests[o] \in [Commands -> Nat]
      BY DEF TypeOK
    <3> QED
      BY <2>1, <3>1, <3>2
  <2> QED
    BY <2>2, <2>3
<1>6. ASSUME NEW w \in Workers, Turn(w), ~CommitOffset(w) PROVE inbox' = inbox
  BY <1>6 DEF Turn, Worker, Fault, Take, Save, InSequence, Abandon, Revoke
<1> QED
  BY <1>3, <1>4, <1>5, <1>6 DEF Next, Turn

LEMMA AppendVerdict ==
    ASSUME NEW v \in {"CONFIRMED", "CANCELLED"}
    PROVE  Append(<<"CREATED">>, v) = <<"CREATED", v>>
<1> DEFINE s == <<"CREATED">>
           t == <<"CREATED", v>>
<1>1. s \in Seq(Statuses) /\ t \in Seq(Statuses) /\ v \in Statuses
  BY DEF Statuses
<1>2. Len(s) = 1 /\ Len(t) = 2 /\ s[1] = t[1] /\ t[2] = v
  OBVIOUS
<1> HIDE DEF s, t
<1> DEFINE a == Append(s, v)
<1>3. /\ a \in Seq(Statuses) /\ Len(a) = Len(s) + 1
      /\ \A i \in 1 .. Len(s) : a[i] = s[i]
      /\ a[Len(s) + 1] = v
  BY <1>1
<1> HIDE DEF a
<1>4. Len(a) = 2 /\ \A i \in 1 .. 2 : a[i] = t[i]
  BY <1>2, <1>3
<1>5. a = t
  BY <1>1, <1>2, <1>3, <1>4, SeqEqual
<1> QED
  BY <1>5 DEF a, s, t

\* Save appends what the handler holds, if nothing was appended since.
LEMMA SaveStep ==
    ASSUME TypeOK, StreamsTrue, HandlersTrue, NEW w \in Workers, Save(w), stream' # stream
    PROVE  \E o \in Orders :
              /\ \A x \in Orders \ {o} : stream'[x] = stream[x]
              /\ \/ /\ stream[o] = <<>>
                    /\ stream'[o] = <<"CREATED">>
                    /\ requests[o]["CreateOrder"] > 0
                 \/ /\ stream[o] = <<"CREATED">>
                    /\ stream'[o] = <<"CREATED", "CONFIRMED">>
                    /\ requests[o]["ConfirmOrder"] > 0
                 \/ /\ stream[o] = <<"CREATED">>
                    /\ stream'[o] = <<"CREATED", "CANCELLED">>
                    /\ requests[o]["CancelOrder"] > 0
<1> DEFINE h == handler[w]
           o == h.order
<1>1. h \in Handler /\ h # Idle /\ HandlerTrue(h) /\ h.pc = "save"
  BY BusyHandler DEF Save, InSequence, HandlersTrue
<1>2. o \in Orders
  BY <1>1 DEF Handler
<1>3. Len(stream[o]) = h.version /\ stream' = [stream EXCEPT ![o] = Append(@, h.event)]
  BY DEF Save, InSequence
<1>4. stream'[o] = Append(stream[o], h.event) /\ \A x \in Orders \ {o} : stream'[x] = stream[x]
  BY <1>2, <1>3 DEF TypeOK
<1>5. CASE h.event = "CREATED" /\ h.version = 0 /\ requests[o]["CreateOrder"] > 0
  <2>1. stream[o] = <<>>
    BY <1>2, <1>3, <1>5, StreamLength
  <2>2. stream'[o] = <<"CREATED">>
    BY <1>4, <1>5, <2>1
  <2> QED
    BY <1>2, <1>4, <1>5, <2>1, <2>2
<1>6. CASE h.version = 1 /\ h.event \in {"CONFIRMED", "CANCELLED"}
  <2>1. stream[o] = <<"CREATED">>
    BY <1>2, <1>3, <1>6, StreamLength
  <2>2. stream'[o] = <<"CREATED", h.event>>
    BY <1>4, <1>6, <2>1, AppendVerdict
  <2>3. \/ h.event = "CONFIRMED" /\ requests[o]["ConfirmOrder"] > 0
        \/ h.event = "CANCELLED" /\ requests[o]["CancelOrder"] > 0
    BY <1>1, <1>6 DEF HandlerTrue
  <2> QED
    BY <1>2, <1>4, <2>1, <2>2, <2>3
<1> QED
  BY <1>1, <1>5, <1>6 DEF HandlerTrue

\* Only Save writes the streams.
LEMMA StreamStep ==
    ASSUME TypeOK, Next, stream' # stream
    PROVE  \E w \in Workers : Save(w)
<1>1. ASSUME NEW w \in Workers, Turn(w), ~Save(w) PROVE stream' = stream
  BY <1>1 DEF Turn, Worker, Fault, Take, CommitOffset, Abandon, Revoke
<1>2. ASSUME NEW o \in Orders, NEW c \in Commands, Request(o, c) PROVE stream' = stream
  BY <1>2 DEF Request
<1> QED
  BY <1>1, <1>2 DEF Next, Turn

LEMMA StreamsStep ==
    ASSUME TypeOK, StreamsTrue, HandlersTrue, Next
    PROVE  StreamsTrue'
<1>1. CASE stream' = stream
  BY <1>1 DEF StreamsTrue
<1>2. CASE stream' # stream
  <2>1. PICK o \in Orders :
              /\ \A x \in Orders \ {o} : stream'[x] = stream[x]
              /\ stream'[o] \in Histories
    BY <1>2, SaveStep, StreamStep DEF Histories
  <2> QED
    BY <2>1 DEF StreamsTrue
<1> QED
  BY <1>1, <1>2

\* A handler that holds what it held is still right about it.
LEMMA SameHandler ==
    ASSUME TypeOK, HandlersTrue, Next, NEW v \in Workers, handler[v] # Idle,
           handler'[v].pc = handler[v].pc \/ handler'[v].pc = "commit",
           handler'[v].order = handler[v].order,
           handler'[v].event = handler[v].event, handler'[v].version = handler[v].version
    PROVE  HandlerTrue(handler[v])'
<1>1. handler[v].order \in Orders /\ HandlerTrue(handler[v])
  BY NotIdle DEF HandlersTrue, Handler
<1> QED
  BY <1>1, RequestsGrow DEF HandlerTrue, Commands

LEMMA HandlersStep ==
    ASSUME TypeOK, CommandsTrue, StreamsTrue, HandlersTrue, Next
    PROVE  HandlersTrue'
<1>1. ASSUME NEW w \in Workers, Turn(w), handler'[w] # Idle PROVE HandlerTrue(handler[w])'
  <2>1. CASE \E o \in Orders : Take(w, o)
    BY <2>1, TakeStep
  <2>2. CASE Save(w) \/ Revoke(w)
    BY <1>1, <2>2, KeepsOn, SameHandler
  <2>3. CASE CommitOffset(w) \/ Abandon(w)
    BY <1>1, <2>3 DEF CommitOffset, Abandon, TypeOK
  <2> QED
    BY <1>1, <2>1, <2>2, <2>3 DEF Turn, Worker, Fault
<1>2. ASSUME NEW w \in Workers, Turn(w), NEW v \in Workers \ {w}, handler'[v] # Idle
      PROVE  HandlerTrue(handler[v])'
  <2>1. handler'[v] = handler[v]
    BY <1>2, Others
  <2> QED
    BY <1>2, <2>1, SameHandler
<1>3. ASSUME NEW o \in Orders, NEW c \in Commands, Request(o, c), NEW v \in Workers, handler'[v] # Idle
      PROVE  HandlerTrue(handler[v])'
  <2>1. handler'[v] = handler[v]
    BY <1>3 DEF Request
  <2> QED
    BY <1>3, <2>1, SameHandler
<1> QED
  BY <1>1, <1>2, <1>3 DEF Next, Turn, HandlersTrue

-----------------------------------------------------------------------------
(***************************************************************************)
(* No command is lost.                                                     *)
(***************************************************************************)
Work == \A w \in Workers : handler[w] # Idle => CommandTrue(handler[w])

\* An event that is stored stays, and an order that is decided stays so.
LEMMA AnswersStay ==
    ASSUME TypeOK, StreamsTrue, HandlersTrue, Next, NEW o \in Orders
    PROVE  /\ stream[o] # <<>> => stream'[o] # <<>>
           /\ Len(stream[o]) = 2 => Len(stream'[o]) = 2
<1>1. CASE stream' = stream
  BY <1>1
<1>2. CASE stream' # stream
  <2>1. PICK x \in Orders :
           /\ \A y \in Orders \ {x} : stream'[y] = stream[y]
           /\ stream[x] \in {<<>>, <<"CREATED">>}
           /\ stream'[x] \in {<<"CREATED">>, <<"CREATED", "CONFIRMED">>, <<"CREATED", "CANCELLED">>}
    BY <1>2, SaveStep, StreamStep
  <2>2. Len(stream[x]) # 2 /\ stream'[x] # <<>>
    <3>1. Len(<<>>) # 2 /\ Len(<<"CREATED">>) # 2
      OBVIOUS
    <3>2. /\ <<"CREATED">> # <<>> /\ <<"CREATED", "CONFIRMED">> # <<>>
          /\ <<"CREATED", "CANCELLED">> # <<>>
      OBVIOUS
    <3> QED
      BY <2>1, <3>1, <3>2
  <2> QED
    BY <2>1, <2>2
<1> QED
  BY <1>1, <1>2

\* The first command of a partition changes only when its owner commits it.
LEMMA FirstStays ==
    ASSUME TypeOK, OwnersTrue, Next, NEW v \in Workers, Owner(v), handler'[v] # Idle
    PROVE  inbox'[handler[v].order][1] = inbox[handler[v].order][1]
<1> DEFINE o == handler[v].order
<1>1. o \in Orders /\ inbox[o] # <<>> /\ inbox[o] \in Seq(Commands)
  BY NotIdle DEF Owner, OwnersTrue, Handler, TypeOK
<1>2. ASSUME NEW x \in Orders, NEW c \in Commands, Request(x, c) PROVE inbox'[o][1] = inbox[o][1]
  <2>1. inbox'[o] = inbox[o] \/ inbox'[o] = Append(inbox[o], c)
    BY <1>1, <1>2 DEF Request, TypeOK
  <2>2. Append(inbox[o], c)[1] = inbox[o][1]
    <3>1. Len(inbox[o]) >= 1
      BY <1>1, EmptySeq
    <3> QED
      BY <1>1, <3>1, AppendProperties
  <2> QED
    BY <2>1, <2>2
<1>3. ASSUME NEW w \in Workers, CommitOffset(w) PROVE inbox'[o][1] = inbox[o][1]
  <2>1. handler'[w] = Idle /\ handler[w] # Idle
    BY <1>3, BusyHandler DEF CommitOffset, TypeOK
  <2>2. w # v
    BY <2>1
  <2>3. Owner(w) => handler[w].order # o
    BY <2>2 DEF OwnersTrue
  <2>4. inbox'[o] = inbox[o]
    BY <1>1, <1>3, <2>1, <2>3 DEF CommitOffset, Owner, TypeOK
  <2> QED
    BY <2>4
<1>4. ASSUME NEW w \in Workers, Turn(w), ~CommitOffset(w) PROVE inbox' = inbox
  BY <1>4 DEF Turn, Worker, Fault, Take, Save, InSequence, Abandon, Revoke
<1> QED
  BY <1>2, <1>3, <1>4 DEF Next, Turn

\* A handler that did not move and kept its order has its command in its hands.
LEMMA SameWork ==
    ASSUME TypeOK, OwnersTrue, StreamsTrue, HandlersTrue, Work, Next,
           NEW v \in Workers, handler[v] # Idle, handler'[v] # Idle,
           handler'[v].pc = handler[v].pc, handler'[v].order = handler[v].order,
           handler'[v].version = handler[v].version, handler'[v].owner => handler[v].owner
    PROVE  CommandTrue(handler[v])'
<1>1. handler[v].order \in Orders /\ CommandTrue(handler[v])
  BY NotIdle DEF Handler, Work
<1>2. /\ stream[handler[v].order] # <<>> => stream'[handler[v].order] # <<>>
      /\ Len(stream[handler[v].order]) = 2 => Len(stream'[handler[v].order]) = 2
  BY <1>1, AnswersStay
<1>3. handler[v].owner => inbox'[handler[v].order][1] = inbox[handler[v].order][1]
  BY FirstStays DEF Owner
<1> QED
  BY <1>1, <1>2, <1>3 DEF CommandTrue

\* What a handler commits is answered: by the event it saved, or by one that
\* was there when CreateOrder found its sequence number taken.
LEMMA SavedWork ==
    ASSUME TypeOK, OwnersTrue, StreamsTrue, HandlersTrue, Work, Next,
           NEW w \in Workers, Save(w), handler'[w] # Idle
    PROVE  CommandTrue(handler[w])'
<1> DEFINE h == handler[w]
           g == handler'[w]
           o == h.order
<1>1. /\ h \in Handler /\ h # Idle /\ HandlerTrue(h) /\ CommandTrue(h) /\ h.pc = "save"
      /\ o \in Orders /\ inbox' = inbox
  BY BusyHandler DEF Save, InSequence, HandlersTrue, Work, Handler
<1>2. /\ g = [h EXCEPT !.pc = "commit"]
      /\ \/ InSequence(h) /\ stream' = [stream EXCEPT ![o] = Append(@, h.event)]
         \/ ~InSequence(h) /\ h.event = "CREATED" /\ stream' = stream
  BY DEF Save, TypeOK
<1>3. g.pc = "commit" /\ g.order = o /\ g.version = h.version /\ g.owner = h.owner
  BY <1>1, <1>2 DEF Handler
<1>4. Len(stream[o]) \in Nat /\ stream[o] \in Seq(Statuses)
  BY <1>1 DEF TypeOK
<1>5. IF h.version = 0 THEN stream'[o] # <<>> ELSE Len(stream'[o]) = 2
  <2>1. CASE InSequence(h) /\ stream' = [stream EXCEPT ![o] = Append(@, h.event)]
    <3>1. stream'[o] = Append(stream[o], h.event)
      BY <1>1, <2>1 DEF TypeOK
    <3>2. Len(stream'[o]) = Len(stream[o]) + 1 /\ Len(stream[o]) = h.version
      BY <1>1, <1>4, <2>1, <3>1 DEF InSequence, Handler
    <3>3. h.version = 0 \/ h.version = 1
      BY <1>1 DEF HandlerTrue
    <3>4. Len(stream'[o]) # 0 /\ (h.version = 1 => Len(stream'[o]) = 2)
      BY <1>4, <3>2
    <3>5. stream'[o] # <<>>
      BY <3>4
    <3> QED
      BY <3>3, <3>4, <3>5
  <2>2. CASE ~InSequence(h) /\ h.event = "CREATED" /\ stream' = stream
    <3>1. h.version = 0
      BY <1>1, <2>2 DEF HandlerTrue
    <3>2. stream[o] # <<>>
      BY <2>2, <3>1 DEF InSequence
    <3> QED
      BY <2>2, <3>1, <3>2
  <2> QED
    BY <1>2, <2>1, <2>2
<1> HIDE DEF h, g, o
<1> QED
  BY <1>1, <1>3, <1>5 DEF CommandTrue, h, g, o

\* A verdict that is refused is of an order that has one.
LEMMA TakenWork ==
    ASSUME TypeOK, StreamsTrue, CommandsTrue, NEW w \in Workers, NEW o \in Orders, Take(w, o)
    PROVE  CommandTrue(handler[w])'
<1> DEFINE c == Head(inbox[o])
           g == handler'[w]
           s == stream[o]
<1>1. inbox[o][1] = c /\ inbox' = inbox /\ stream' = stream /\ c \in Commands
  BY DEF Take, TypeOK
<1>2. CASE c = "CreateOrder"
  <2>1. g = Job("save", o, "CREATED", 0)
    BY <1>2 DEF Take, TypeOK
  <2> QED
    BY <1>1, <1>2, <2>1 DEF Job, CommandTrue
<1>3. CASE c # "CreateOrder"
  <2> DEFINE pc == IF Refused(c, Status(s)) THEN "commit" ELSE "save"
  <2>1. s # <<>> /\ g = Job(pc, o, Leads(c), Len(s))
    BY <1>3 DEF Take, Known, TypeOK
  <2>2. g.pc = pc /\ g.order = o /\ g.version = Len(s)
    BY <2>1 DEF Job
  <2>3. Len(s) # 0
    BY <2>1, StreamLength
  <2>4. pc = "commit" => Len(s) = 2
    <3>1. ~Refused(c, "CREATED")
      BY <1>1, <1>3 DEF Refused
    <3>2. pc = "commit" => s # <<"CREATED">>
      BY <3>1, StatusWhat
    <3>3. s # <<"CREATED">> => Len(s) = 2
      <4>1. s \in Histories
        BY DEF StreamsTrue
      <4>2. Len(<<"CREATED", "CONFIRMED">>) = 2 /\ Len(<<"CREATED", "CANCELLED">>) = 2
        OBVIOUS
      <4> HIDE DEF s
      <4> QED
        BY <2>1, <4>1, <4>2 DEF Histories
    <3> QED
      BY <3>2, <3>3
  <2> HIDE DEF c, g, s, pc
  <2> QED
    BY <1>1, <1>3, <2>2, <2>3, <2>4 DEF CommandTrue, c, g, s
<1> QED
  BY <1>2, <1>3

LEMMA WorkStep ==
    ASSUME TypeOK, OwnersTrue, CommandsTrue, StreamsTrue, HandlersTrue, Work, Next
    PROVE  Work'
<1>1. ASSUME NEW v \in Workers, handler'[v] # Idle, handler'[v] = handler[v]
      PROVE  CommandTrue(handler[v])'
  BY <1>1, SameWork
<1>2. ASSUME NEW w \in Workers, Turn(w), handler'[w] # Idle
      PROVE  CommandTrue(handler[w])'
  <2>1. CASE \E o \in Orders : Take(w, o)
    BY <2>1, TakenWork
  <2>2. CASE Save(w)
    BY <1>2, <2>2, SavedWork
  <2>3. CASE Revoke(w)
    <3>1. handler'[w] = [handler[w] EXCEPT !.owner = FALSE] /\ handler[w] \in Handler
      BY <2>3, NotIdle DEF Revoke, Owner, TypeOK
    <3>2. handler'[w].pc = handler[w].pc
      BY <3>1 DEF Handler
    <3> QED
      BY <1>2, <2>3, <3>2, KeepsOn, SameWork
  <2>4. CASE CommitOffset(w) \/ Abandon(w)
    BY <1>2, <2>4 DEF CommitOffset, Abandon, TypeOK
  <2> QED
    BY <1>2, <2>1, <2>2, <2>3, <2>4 DEF Turn, Worker, Fault
<1>3. ASSUME NEW w \in Workers, Turn(w), NEW v \in Workers, handler'[v] # Idle
      PROVE  CommandTrue(handler[v])'
  BY <1>1, <1>2, <1>3, Others
<1>4. ASSUME NEW o \in Orders, NEW c \in Commands, Request(o, c) PROVE handler' = handler
  BY <1>4 DEF Request
<1> QED
  BY <1>1, <1>3, <1>4 DEF Next, Turn, Work

\* A command leaves the partition only when it is answered.
LEMMA LostStep ==
    ASSUME TypeOK, OwnersTrue, StreamsTrue, HandlersTrue, Work, NoCommandLost, Next
    PROVE  NoCommandLost'
<1> DEFINE Pending2(o, c) == \E i \in DOMAIN inbox'[o] : inbox'[o][i] = c
<1> SUFFICES ASSUME NEW o \in Orders, NEW c \in Commands, requests'[o][c] > 0, ~Answered(o, c)'
             PROVE  Pending2(o, c)
  BY DEF NoCommandLost, Pending
<1>1. ~Answered(o, c)
  BY AnswersStay DEF Answered
<1>2. requests[o][c] > 0 => Pending(o, c)
  BY <1>1 DEF NoCommandLost
<1>3. inbox[o] \in Seq(Commands)
  BY DEF TypeOK
<1>4. CASE inbox'[o] = inbox[o] /\ requests'[o][c] = requests[o][c]
  BY <1>2, <1>4 DEF Pending
<1>5. ASSUME NEW x \in Orders, NEW d \in Commands, Request(x, d) PROVE Pending2(o, c)
  <2>1. CASE x # o
    BY <1>4, <1>5, <2>1 DEF Request, TypeOK
  <2>2. CASE x = o
    <3>1. inbox'[o] = Append(inbox[o], d) /\ requests'[o] = [requests[o] EXCEPT ![d] = @ + 1]
      BY <1>5, <2>2 DEF Request, TypeOK
    <3>2. /\ \A i \in DOMAIN inbox[o] : i \in DOMAIN inbox'[o] /\ inbox'[o][i] = inbox[o][i]
          /\ Len(inbox[o]) + 1 \in DOMAIN inbox'[o] /\ inbox'[o][Len(inbox[o]) + 1] = d
      BY <1>3, <3>1, AppendProperties
    <3>3. CASE c = d
      BY <3>2, <3>3
    <3>4. CASE c # d
      <4>1. requests[o] \in [Commands -> Nat]
        BY DEF TypeOK
      <4>2. requests[o][c] > 0
        BY <3>1, <3>4, <4>1
      <4> QED
        BY <1>2, <3>2, <4>2 DEF Pending
    <3> QED
      BY <3>3, <3>4
  <2> QED
    BY <2>1, <2>2
<1>6. ASSUME NEW w \in Workers, Turn(w) PROVE requests' = requests
  BY <1>6 DEF Turn, Worker, Fault, Take, Save, InSequence, CommitOffset, Abandon, Revoke, external
<1>7. ASSUME NEW w \in Workers, Turn(w), inbox'[o] # inbox[o] PROVE Pending2(o, c)
  <2> DEFINE h == handler[w]
  <2>1. CommitOffset(w)
    BY <1>7 DEF Turn, Worker, Fault, Take, Save, InSequence, Abandon, Revoke
  <2>2. Owner(w) /\ h.order = o /\ inbox'[o] = Tail(inbox[o])
    BY <1>7, <2>1, BusyHandler DEF CommitOffset, Owner, TypeOK
  <2>3. h # Idle /\ h.pc = "commit" /\ CommandTrue(h)
    BY <2>1, <2>2, BusyHandler DEF CommitOffset, Owner, Work
  <2>4. inbox[o][1] # c
    BY <1>1, <2>2, <2>3 DEF CommandTrue, Owner, Answered
  <2>5. PICK i \in DOMAIN inbox[o] : inbox[o][i] = c
    BY <1>2, <1>6, <1>7 DEF Pending
  <2>6. inbox[o] # <<>>
    BY <2>2 DEF OwnersTrue
  <2>7. i # 1 /\ i \in 1 .. Len(inbox[o])
    BY <1>3, <2>4, <2>5
  <2>8. i - 1 \in 1 .. Len(inbox[o]) - 1 /\ (i - 1) + 1 = i
    BY <1>3, <2>7
  <2>9. i - 1 \in DOMAIN inbox'[o] /\ inbox'[o][i - 1] = inbox[o][i]
    BY <1>3, <2>2, <2>6, <2>8, HeadTailProperties
  <2> QED
    BY <2>5, <2>9
<1>8. CASE \E w \in Workers : Turn(w)
  BY <1>4, <1>6, <1>7, <1>8
<1> QED
  BY <1>5, <1>8 DEF Next, Turn

-----------------------------------------------------------------------------
(***************************************************************************)
(* The theorems.                                                           *)
(***************************************************************************)

\* IInv holds in every reachable state: streams are Histories, and what the
\* Create-, Confirm- and CancelOrderHandler hold in memory was true when loaded.
THEOREM Invariant == Spec => []IInv
<1>1. Init => IInv
  <2> SUFFICES ASSUME Init PROVE IInv
    OBVIOUS
  <2>1. TypeOK
    BY DEF Init, TypeOK
  <2>2. OwnersTrue /\ HandlersTrue
    BY DEF Init, OwnersTrue, Owner, HandlersTrue
  <2>3. CommandsTrue
    <3>1. \A o \in Orders : inbox[o] = <<>>
      BY DEF Init
    <3>2. DOMAIN <<>> = {}
      OBVIOUS
    <3> QED
      BY <3>1, <3>2 DEF CommandsTrue
  <2>4. StreamsTrue
    BY DEF Init, StreamsTrue, Histories
  <2>5. NoCommandLost
    <3>1. \A o \in Orders, c \in Commands : requests[o][c] = 0
      BY DEF Init
    <3>2. ASSUME NEW o \in Orders, NEW c \in Commands PROVE ~(requests[o][c] > 0)
      BY <3>1
    <3> QED
      BY <3>2 DEF NoCommandLost
  <2>6. Work
    BY DEF Init, Work
  <2> QED
    BY <2>1, <2>2, <2>3, <2>4, <2>5, <2>6 DEF IInv, Work
<1>2. IInv /\ [Next]_vars => IInv'
  <2> SUFFICES ASSUME IInv, [Next]_vars PROVE IInv'
    OBVIOUS
  <2>1. CASE Next
    <3>1. TypeOK' /\ OwnersTrue' /\ CommandsTrue' /\ StreamsTrue' /\ HandlersTrue'
      BY <2>1, TypeStep, OwnersStep, CommandsStep, StreamsStep, HandlersStep DEF IInv
    <3>2. NoCommandLost' /\ Work'
      BY <2>1, LostStep, WorkStep DEF IInv, Work
    <3> QED
      BY <3>1, <3>2 DEF IInv, Work
  <2>2. CASE UNCHANGED vars
    <3>1. UNCHANGED <<stream, inbox, handler, requests, faults>>
      BY <2>2 DEF vars
    <3>2. TypeOK' /\ CommandsTrue' /\ StreamsTrue'
      BY <3>1 DEF IInv, TypeOK, CommandsTrue, StreamsTrue
    <3>3. OwnersTrue'
      BY <3>1 DEF IInv, OwnersTrue, Owner
    <3>4. HandlersTrue'
      BY <3>1 DEF IInv, HandlersTrue, HandlerTrue
    <3>5. NoCommandLost'
      BY <3>1 DEF IInv, NoCommandLost, Pending, Answered
    <3>6. Work'
      BY <3>1 DEF IInv, Work, CommandTrue
    <3> QED
      BY <3>2, <3>3, <3>4, <3>5, <3>6 DEF IInv, Work
  <2> QED
    BY <2>1, <2>2
<1> QED
  BY <1>1, <1>2, PTL DEF Spec

\* The offset of CreateOrder is committed only once the order exists, and that
\* of a verdict only once the order is decided, for any replicas, crashes and
\* rebalances: neither the ConcurrencyError that CreateOrderHandler swallows
\* nor a refused verdict drops a command that was still needed.
THEOREM NothingForgotten == Spec => []NoCommandLost
<1>1. IInv => NoCommandLost
  BY DEF IInv
<1> QED
  BY <1>1, Invariant, PTL

LEMMA LifecycleStep ==
    ASSUME IInv, Next
    PROVE  L!Next \/ UNCHANGED L!vars
<1> DEFINE asked == [o \in Orders |-> {c \in Commands : requests[o][c] > 0}]
           status == [o \in Orders |-> Status(stream[o])]
<1>1. ASSUME NEW o \in Orders, NEW c \in Commands, Request(o, c) PROVE L!Ask(o, c)
  <2>1. requests' = [requests EXCEPT ![o] = [requests[o] EXCEPT ![c] = @ + 1]] /\ stream' = stream
    BY <1>1 DEF Request
  <2>2. requests \in [Orders -> [Commands -> Nat]]
    BY DEF IInv, TypeOK
  <2>3. \A x \in Orders \ {o} : requests'[x] = requests[x]
    BY <2>1, <2>2
  <2>4. requests'[o] = [requests[o] EXCEPT ![c] = @ + 1]
    BY <2>1, <2>2
  <2>5. {d \in Commands : requests'[o][d] > 0} = {d \in Commands : requests[o][d] > 0} \cup {c}
    <3>1. requests[o] \in [Commands -> Nat]
      BY <2>2
    <3>2. requests'[o][c] > 0 /\ \A d \in Commands \ {c} : requests'[o][d] = requests[o][d]
      BY <2>4, <3>1
    <3> QED
      BY <3>2
  <2>6. asked' = [asked EXCEPT ![o] = @ \cup {c}] /\ status' = status
    BY <2>1, <2>3, <2>5
  <2> QED
    BY <2>6 DEF L!Ask, projection
<1>2. ASSUME NEW w \in Workers, Turn(w) PROVE asked' = asked
  BY <1>2 DEF Turn, Worker, Fault, Take, Save, InSequence, CommitOffset, Abandon, Revoke, external
<1>3. ASSUME NEW w \in Workers, Turn(w), stream' # stream PROVE L!Next
  <2>1. PICK o \in Orders :
              /\ \A x \in Orders \ {o} : stream'[x] = stream[x]
              /\ \/ /\ stream[o] = <<>>
                    /\ stream'[o] = <<"CREATED">>
                    /\ requests[o]["CreateOrder"] > 0
                 \/ /\ stream[o] = <<"CREATED">>
                    /\ stream'[o] = <<"CREATED", "CONFIRMED">>
                    /\ requests[o]["ConfirmOrder"] > 0
                 \/ /\ stream[o] = <<"CREATED">>
                    /\ stream'[o] = <<"CREATED", "CANCELLED">>
                    /\ requests[o]["CancelOrder"] > 0
    BY <1>3, SaveStep, StreamStep DEF IInv
  <2>2. status' = [status EXCEPT ![o] = Status(stream'[o])]
    BY <2>1
  <2>3. L!Create(o) \/ L!Confirm(o) \/ L!Cancel(o)
    BY <1>2, <1>3, <2>1, <2>2, StatusWhat DEF L!Create, L!Confirm, L!Cancel, L!Move, Commands, projection
  <2> QED
    BY <2>3 DEF L!Next
<1>4. ASSUME NEW w \in Workers, Turn(w), stream' = stream PROVE UNCHANGED L!vars
  BY <1>2, <1>4 DEF L!vars, projection
<1> QED
  BY <1>1, <1>3, <1>4 DEF Next, Turn, Commands, L!Next

\* order-service implements OrderLifecycle: an order is created once and gets
\* one verdict, one that was asked for, whatever is repeated, raced or cut off.
THEOREM Lifecycle == Spec => ImplementsLifecycle
<1>1. Init => L!Init
  <2> SUFFICES ASSUME Init PROVE L!Init
    OBVIOUS
  <2>1. \A o \in Orders : Status(stream[o]) = "UNINITIALIZED"
    BY StatusWhat DEF Init
  <2>2. \A o \in Orders : {c \in Commands : requests[o][c] > 0} = {}
    <3>1. \A o \in Orders, c \in Commands : requests[o][c] = 0
      BY DEF Init
    <3>2. \A o \in Orders, c \in Commands : ~(requests[o][c] > 0)
      BY <3>1
    <3> QED
      BY <3>2
  <2> QED
    BY <2>1, <2>2 DEF L!Init, projection
<1>2. IInv /\ [Next]_vars => [L!Next]_L!vars
  <2>1. CASE Next
    BY <2>1, LifecycleStep
  <2>2. CASE UNCHANGED vars
    BY <2>2 DEF vars, L!vars, projection
  <2> QED
    BY <2>1, <2>2
<1> QED
  BY <1>1, <1>2, Invariant, PTL DEF Spec, ImplementsLifecycle, L!Spec
=============================================================================
