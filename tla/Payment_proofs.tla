---------------------------- MODULE Payment_proofs ----------------------------
(***************************************************************************)
(* For any orders, replicas, faults and repeated commands: a customer is   *)
(* charged at most once for an order, the record says what the gateway     *)
(* did, and payment-service is a Participant.  All from IInv: what a       *)
(* handler is about to record is true already (HandlersTrue), and the      *)
(* sequence number it records it under is still free only if nothing was   *)
(* recorded since it read the stream.  No command is lost, because a       *)
(* handler comes to its commit only when the effect is there.              *)
(***************************************************************************)
EXTENDS Payment, SequenceTheorems, TLAPS

-----------------------------------------------------------------------------
(***************************************************************************)
(* Types.                                                                  *)
(***************************************************************************)

\* A handler record is a Handler exactly when it is not idle.
LEMMA BusyHandler ==
    ASSUME TypeOK, NEW w \in Workers, handler[w].pc # "idle"
    PROVE  handler[w] \in Handler /\ handler[w] # Idle
BY DEF TypeOK, Idle

LEMMA NotIdle ==
    ASSUME TypeOK, NEW w \in Workers, handler[w] # Idle
    PROVE  handler[w] \in Handler /\ handler[w].pc # "idle"
BY DEF TypeOK, Handler

LEMMA JobType ==
    ASSUME NEW pc \in {"charge", "refund", "save", "commit"}, NEW o \in Orders,
           NEW event \in Events \cup {"none"}, NEW version \in Nat
    PROVE  Job(pc, o, event, version) \in Handler
BY DEF Job, Handler

LEMMA StreamLength ==
    ASSUME StreamsTrue, NEW o \in Orders
    PROVE  /\ Len(stream[o]) \in Nat
           /\ Len(stream[o]) = 0 => stream[o] = <<>>
           /\ Len(stream[o]) = 1 => stream[o] = <<"AUTHORIZED">> \/ stream[o] = <<"DECLINED">>
           /\ Len(stream[o]) > 1 => stream[o] = <<"AUTHORIZED", "REFUNDED">>
<1>1. stream[o] \in Histories
  BY DEF StreamsTrue
<1>2. CASE stream[o] = <<>>
  BY <1>2
<1>3. CASE stream[o] = <<"AUTHORIZED">>
  BY <1>3
<1>4. CASE stream[o] = <<"DECLINED">>
  BY <1>4
<1>5. CASE stream[o] = <<"AUTHORIZED", "REFUNDED">>
  BY <1>5
<1> QED
  BY <1>1, <1>2, <1>3, <1>4, <1>5 DEF Histories

\* What a step of a handler does to the handlers.
HandlerStep(w) == Worker(w) \/ GatewayError(w) \/ Abandon(w) \/ Revoke(w)

LEMMA Others ==
    ASSUME TypeOK, NEW w \in Workers, HandlerStep(w)
    PROVE  \A v \in Workers \ {w} : handler'[v] = handler[v]
<1>1. CASE \E o \in Orders : Take(w, o)
  BY <1>1 DEF Take, TypeOK
<1>2. CASE Charge(w) \/ Refund(w) \/ Save(w) \/ CommitOffset(w)
  BY <1>2 DEF Charge, Refund, Save, InSequence, CommitOffset, TypeOK
<1>3. CASE GatewayError(w) \/ Abandon(w) \/ Revoke(w)
  BY <1>3 DEF GatewayError, Abandon, Revoke, TypeOK
<1> QED
  BY <1>1, <1>2, <1>3 DEF HandlerStep, Worker

\* A step of a running handler ends it or keeps its order and its version, and
\* does not make it an owner again.
LEMMA KeepsOrder ==
    ASSUME TypeOK, NEW w \in Workers, HandlerStep(w), \A o \in Orders : ~Take(w, o)
    PROVE  \/ handler'[w] = Idle
           \/ /\ handler[w] # Idle
              /\ handler'[w] \in Handler
              /\ handler'[w].order = handler[w].order
              /\ handler'[w].version = handler[w].version
              /\ handler'[w].owner => handler[w].owner
              /\ inbox' = inbox
<1> DEFINE h == handler[w]
           g == handler'[w]
<1>1. CASE Charge(w)
  <2>1. h \in Handler /\ h # Idle /\ inbox' = inbox
    BY <1>1, BusyHandler DEF Charge
  <2>2. PICK outcome \in {"success", "decline"} : g = [h EXCEPT !.pc = "save", !.event = Recorded(outcome)]
    BY <1>1 DEF Charge, TypeOK
  <2>3. Recorded(outcome) \in Events \cup {"none"}
    BY DEF Recorded, Events
  <2> QED
    BY <2>1, <2>2, <2>3 DEF Handler
<1>2. CASE Refund(w) \/ Save(w) \/ Revoke(w)
  <2>1. h \in Handler /\ h # Idle /\ inbox' = inbox
    BY <1>2, BusyHandler, NotIdle DEF Refund, Save, InSequence, Revoke, Owner
  <2>2. \/ g = Idle
        \/ g = [h EXCEPT !.pc = "save"] \/ g = [h EXCEPT !.pc = "commit"]
        \/ g = [h EXCEPT !.owner = FALSE]
    BY <1>2 DEF Refund, Save, InSequence, Revoke, TypeOK
  <2> QED
    BY <2>1, <2>2 DEF Handler
<1>3. CASE CommitOffset(w) \/ GatewayError(w) \/ Abandon(w)
  BY <1>3 DEF CommitOffset, GatewayError, Abandon, TypeOK
<1> QED
  BY <1>1, <1>2, <1>3 DEF HandlerStep, Worker

LEMMA AuthorizeType ==
    ASSUME TypeOK, NEW o \in Orders, NEW outcome \in {"success", "decline"}, Authorize(o, outcome)
    PROVE  /\ gateway' \in [Orders -> {"none", "success", "decline"}]
           /\ charges' \in [Orders -> Nat]
           /\ refunds' = refunds
<1>1. CASE UNCHANGED money
  BY <1>1 DEF money, TypeOK
<1>2. CASE ~UNCHANGED money
  <2>1. /\ gateway' = [gateway EXCEPT ![o] = outcome]
        /\ charges' = [charges EXCEPT ![o] = IF outcome = "success" THEN @ + 1 ELSE @]
        /\ refunds' = refunds
    BY <1>2 DEF Authorize
  <2>2. gateway' \in [Orders -> {"none", "success", "decline"}]
    BY <2>1 DEF TypeOK
  <2>3. charges' \in [Orders -> Nat]
    BY <2>1 DEF TypeOK
  <2> QED
    BY <2>1, <2>2, <2>3
<1> QED
  BY <1>1, <1>2

LEMMA RefundsGrow ==
    ASSUME TypeOK, NEW w \in Workers, Refund(w)
    PROVE  /\ refunds' \in [Orders -> Nat]
           /\ \A o \in Orders : refunds'[o] >= refunds[o]
<1> DEFINE o == handler[w].order
<1>1. o \in Orders
  BY BusyHandler DEF Refund, Handler
<1>2. CASE refunds' = refunds
  BY <1>2 DEF TypeOK
<1>3. CASE refunds' = [refunds EXCEPT ![o] = @ + 1]
  <2> DEFINE n == refunds[o] + 1
  <2>1. refunds \in [Orders -> Nat] /\ n \in Nat /\ n >= refunds[o]
    BY <1>1 DEF TypeOK
  <2>2. refunds' = [refunds EXCEPT ![o] = n]
    BY <1>3
  <2> HIDE DEF n, o
  <2>3. refunds' \in [Orders -> Nat]
    BY <1>1, <2>1, <2>2
  <2>4. ASSUME NEW x \in Orders PROVE refunds'[x] >= refunds[x]
    BY <2>1, <2>2
  <2> QED
    BY <2>3, <2>4
<1> QED
  BY <1>2, <1>3 DEF Refund, RefusesRefund, PayBack

LEMMA TypeStep ==
    ASSUME TypeOK, OwnersTrue, HandlersTrue, Next
    PROVE  TypeOK'
<1> USE DEF external, money
<1>1. ASSUME NEW w \in Workers, NEW o \in Orders, Take(w, o) PROVE TypeOK'
  <2>1. StartAuthorize(o) \in Handler
    BY JobType DEF StartAuthorize, Known
  <2>2. StartRefund(o) \in Handler
    <3>1. Len(stream[o]) \in Nat
      BY DEF TypeOK
    <3> QED
      BY <3>1, JobType DEF StartRefund, Version, Events
  <2> QED
    BY <1>1, <2>1, <2>2 DEF Take, TypeOK
<1>2. ASSUME NEW w \in Workers, HandlerStep(w), \A o \in Orders : ~Take(w, o)
      PROVE  handler' \in [Workers -> Handler \cup {Idle}]
  <2>1. handler'[w] \in Handler \cup {Idle}
    BY <1>2, KeepsOrder
  <2>2. \E x : handler' = [handler EXCEPT ![w] = x]
    <3>1. CASE Charge(w) \/ Refund(w) \/ Save(w) \/ CommitOffset(w)
      BY <3>1 DEF Charge, Refund, Save, InSequence, CommitOffset
    <3>2. CASE GatewayError(w) \/ Abandon(w) \/ Revoke(w)
      BY <3>2 DEF GatewayError, Abandon, Revoke
    <3> QED
      BY <1>2, <3>1, <3>2 DEF HandlerStep, Worker
  <2> QED
    BY <2>1, <2>2 DEF TypeOK
<1>3. ASSUME NEW w \in Workers, Charge(w) PROVE TypeOK'
  <2>1. handler[w] \in Handler
    BY <1>3, BusyHandler DEF Charge
  <2>2. PICK outcome \in {"success", "decline"} : Authorize(handler[w].order, outcome)
    BY <1>3 DEF Charge
  <2>3. handler[w].order \in Orders
    BY <2>1 DEF Handler
  <2>4. \A o \in Orders : ~Take(w, o)
    BY <1>3, BusyHandler DEF Charge, Take
  <2> QED
    BY <1>2, <1>3, <2>2, <2>3, <2>4, AuthorizeType DEF Charge, TypeOK, HandlerStep, Worker
<1>4. ASSUME NEW w \in Workers, GatewayError(w) PROVE TypeOK'
  <2>1. handler[w] \in Handler
    BY <1>4, BusyHandler DEF GatewayError
  <2>2. handler[w].order \in Orders
    BY <2>1 DEF Handler
  <2>3. /\ gateway' \in [Orders -> {"none", "success", "decline"}]
        /\ charges' \in [Orders -> Nat]
        /\ refunds' = refunds
    <3>1. CASE UNCHANGED money
      BY <3>1 DEF TypeOK
    <3>2. CASE \E outcome \in {"success", "decline"} : Authorize(handler[w].order, outcome)
      BY <2>2, <3>2, AuthorizeType
    <3> QED
      BY <1>4, <3>1, <3>2 DEF GatewayError
  <2>4. \A o \in Orders : ~Take(w, o)
    BY <1>4, BusyHandler DEF GatewayError, Take
  <2> QED
    BY <1>2, <1>4, <2>3, <2>4 DEF GatewayError, TypeOK, HandlerStep
<1>5. ASSUME NEW w \in Workers, Refund(w) PROVE TypeOK'
  <2>1. handler[w] \in Handler /\ \A o \in Orders : ~Take(w, o)
    BY <1>5, BusyHandler DEF Refund, Take
  <2>2. refunds' \in [Orders -> Nat]
    BY <1>5, RefundsGrow
  <2> QED
    BY <1>2, <1>5, <2>1, <2>2 DEF Refund, TypeOK, HandlerStep, Worker
<1>6. ASSUME NEW w \in Workers, Save(w) PROVE TypeOK'
  <2>1. handler[w] \in Handler /\ handler[w] # Idle /\ \A o \in Orders : ~Take(w, o)
    BY <1>6, BusyHandler DEF Save, InSequence, Take
  <2>2. handler[w].event \in Events
    BY <1>6, <2>1 DEF Save, InSequence, HandlersTrue, HandlerTrue, Recorded, Events
  <2>3. stream' \in [Orders -> Seq(Events)]
    <3>1. CASE stream' = stream
      BY <3>1 DEF TypeOK
    <3>2. CASE stream' = [stream EXCEPT ![handler[w].order] = Append(@, handler[w].event)]
      BY <2>1, <2>2, <3>2 DEF TypeOK, Handler
    <3> QED
      BY <1>6, <3>1, <3>2 DEF Save, InSequence
  <2> QED
    BY <1>2, <1>6, <2>1, <2>3 DEF Save, InSequence, TypeOK, HandlerStep, Worker
<1>7. ASSUME NEW w \in Workers, CommitOffset(w) PROVE TypeOK'
  <2>1. handler[w] \in Handler /\ \A o \in Orders : ~Take(w, o)
    BY <1>7, BusyHandler DEF CommitOffset, Take
  <2>2. inbox' \in [Orders -> Seq(Commands)]
    <3> DEFINE o == handler[w].order
    <3>1. o \in Orders
      BY <2>1 DEF Handler
    <3>2. CASE handler[w].owner
      <4>1. inbox[o] # <<>> /\ inbox[o] \in Seq(Commands)
        <5>1. Owner(w)
          BY <1>7, <3>2, BusyHandler DEF CommitOffset, Owner
        <5> QED
          BY <3>1, <5>1 DEF OwnersTrue, TypeOK
      <4>2. Tail(inbox[o]) \in Seq(Commands)
        BY <4>1
      <4> QED
        BY <1>7, <3>2, <4>2 DEF CommitOffset, TypeOK
    <3>3. CASE ~handler[w].owner
      BY <1>7, <3>3 DEF CommitOffset, TypeOK
    <3> QED BY <3>2, <3>3
  <2> QED
    BY <1>2, <1>7, <2>1, <2>2 DEF CommitOffset, TypeOK, HandlerStep, Worker
<1>8. ASSUME NEW w \in Workers, Abandon(w) \/ Revoke(w) PROVE TypeOK'
  <2>1. \A o \in Orders : ~Take(w, o)
    BY <1>8 DEF Abandon, Revoke, Owner, Take
  <2>2. handler' \in [Workers -> Handler \cup {Idle}]
    BY <1>2, <1>8, <2>1 DEF HandlerStep
  <2> QED
    BY <1>8, <2>2 DEF Abandon, Revoke, TypeOK
<1>9. ASSUME NEW o \in Orders, NEW c \in Commands, Request(o, c) PROVE TypeOK'
  <2>1. inbox' \in [Orders -> Seq(Commands)]
    BY <1>9 DEF Request, TypeOK
  <2>2. requests' \in [Orders -> [Commands -> Nat]]
    <3>1. [requests[o] EXCEPT ![c] = @ + 1] \in [Commands -> Nat]
      BY DEF TypeOK
    <3> QED
      BY <1>9, <3>1 DEF Request, TypeOK
  <2> QED
    BY <1>9, <2>1, <2>2 DEF Request, TypeOK
<1> QED
  BY <1>1, <1>3, <1>4, <1>5, <1>6, <1>7, <1>8, <1>9 DEF Next, Worker

-----------------------------------------------------------------------------
(***************************************************************************)
(* What a step does to the record, the gateway and the requests.           *)
(***************************************************************************)

LEMMA AppendRefunded == Append(<<"AUTHORIZED">>, "REFUNDED") = <<"AUTHORIZED", "REFUNDED">>
<1> DEFINE s == <<"AUTHORIZED">>
           t == <<"AUTHORIZED", "REFUNDED">>
<1>1. s \in Seq(Events) /\ t \in Seq(Events) /\ "REFUNDED" \in Events
  BY DEF Events
<1>2. Len(s) = 1 /\ Len(t) = 2 /\ s[1] = t[1] /\ t[2] = "REFUNDED"
  OBVIOUS
<1> HIDE DEF s, t
<1> DEFINE a == Append(s, "REFUNDED")
<1>3. /\ a \in Seq(Events) /\ Len(a) = Len(s) + 1
      /\ \A i \in 1 .. Len(s) : a[i] = s[i]
      /\ a[Len(s) + 1] = "REFUNDED"
  BY <1>1
<1> HIDE DEF a
<1>4. Len(a) = 2 /\ \A i \in 1 .. 2 : a[i] = t[i]
  BY <1>2, <1>3
<1>5. a = t
  BY <1>1, <1>2, <1>3, <1>4, SeqEqual
<1> QED
  BY <1>5 DEF a, s, t

\* Save appends what the handler holds, if nothing was appended since.
LEMMA SaveStep ==
    ASSUME TypeOK, CommandsTrue, StreamsTrue, HandlersTrue, NEW w \in Workers, Save(w)
    PROVE  \/ stream' = stream
           \/ \E o \in Orders :
                 /\ \A x \in Orders \ {o} : stream'[x] = stream[x]
                 /\ \/ /\ stream[o] = <<>>
                       /\ stream'[o] = <<Recorded(gateway[o])>>
                       /\ gateway[o] # "none"
                       /\ requests[o]["AuthorizePayment"] > 0
                    \/ /\ stream[o] = <<"AUTHORIZED">>
                       /\ stream'[o] = <<"AUTHORIZED", "REFUNDED">>
                       /\ refunds[o] > 0
                       /\ requests[o]["RefundPayment"] > 0
<1> DEFINE h == handler[w]
           o == h.order
<1>1. h \in Handler /\ h # Idle /\ HandlerTrue(h)
  BY BusyHandler DEF Save, InSequence, HandlersTrue
<1>2. o \in Orders
  BY <1>1 DEF Handler
<1>3. SUFFICES ASSUME stream' # stream PROVE
                 /\ \A x \in Orders \ {o} : stream'[x] = stream[x]
                 /\ \/ /\ stream[o] = <<>>
                       /\ stream'[o] = <<Recorded(gateway[o])>>
                       /\ gateway[o] # "none"
                       /\ requests[o]["AuthorizePayment"] > 0
                    \/ /\ stream[o] = <<"AUTHORIZED">>
                       /\ stream'[o] = <<"AUTHORIZED", "REFUNDED">>
                       /\ refunds[o] > 0
                       /\ requests[o]["RefundPayment"] > 0
  BY <1>2
<1>4. h.pc = "save" /\ Len(stream[o]) = h.version /\ stream' = [stream EXCEPT ![o] = Append(@, h.event)]
  BY <1>3 DEF Save, InSequence
<1>5. stream'[o] = Append(stream[o], h.event) /\ \A x \in Orders \ {o} : stream'[x] = stream[x]
  BY <1>2, <1>4 DEF TypeOK
<1>6. CASE h.event = "REFUNDED" /\ h.version = 1 /\ refunds[o] > 0 /\ requests[o]["RefundPayment"] > 0
  <2>1. HasReference(o)
    BY <1>2, <1>6 DEF CommandsTrue
  <2>2. stream[o] = <<"AUTHORIZED">>
    BY <1>2, <1>4, <1>6, <2>1, StreamLength DEF HasReference, Known
  <2>3. stream'[o] = <<"AUTHORIZED", "REFUNDED">>
    BY <1>5, <1>6, <2>2, AppendRefunded
  <2> QED
    BY <1>5, <1>6, <2>2, <2>3
<1>7. CASE /\ gateway[o] # "none" /\ h.event = Recorded(gateway[o])
           /\ h.version = 0 /\ requests[o]["AuthorizePayment"] > 0
  <2>1. stream[o] = <<>>
    BY <1>2, <1>4, <1>7, StreamLength
  <2>2. stream'[o] = <<Recorded(gateway[o])>>
    BY <1>5, <1>7, <2>1
  <2> QED
    BY <1>5, <1>7, <2>1, <2>2
<1> QED
  BY <1>1, <1>4, <1>6, <1>7 DEF HandlerTrue

\* Only Save writes the record.
LEMMA RecordStep ==
    ASSUME TypeOK, Next, stream' # stream
    PROVE  \E w \in Workers : Save(w)
<1>1. ASSUME NEW w \in Workers, HandlerStep(w), ~Save(w) PROVE stream' = stream
  BY <1>1 DEF HandlerStep, Worker, Take, Charge, Refund, CommitOffset, GatewayError, Abandon, Revoke
<1>2. ASSUME NEW o \in Orders, NEW c \in Commands, Request(o, c) PROVE stream' = stream
  BY <1>2 DEF Request
<1> QED
  BY <1>1, <1>2 DEF Next, HandlerStep

\* The gateway's answer to a key stays, refunds and requests only grow, and a
\* payment keeps its reference.
LEMMA AuthorizeStep ==
    ASSUME TypeOK, NEW o \in Orders, NEW outcome \in {"success", "decline"}, Authorize(o, outcome)
    PROVE  /\ gateway'[o] = outcome
           /\ \A x \in Orders : gateway[x] # "none" => gateway'[x] = gateway[x]
           /\ GatewayTrue => GatewayTrue'
<1>1. CASE gateway[o] = outcome /\ UNCHANGED money
  BY <1>1 DEF money, GatewayTrue
<1>2. CASE /\ gateway[o] = "none"
           /\ gateway' = [gateway EXCEPT ![o] = outcome]
           /\ charges' = [charges EXCEPT ![o] = IF outcome = "success" THEN @ + 1 ELSE @]
  <2>1. gateway'[o] = outcome /\ \A x \in Orders \ {o} : gateway'[x] = gateway[x]
    BY <1>2 DEF TypeOK
  <2>2. /\ charges'[o] = IF outcome = "success" THEN charges[o] + 1 ELSE charges[o]
        /\ \A x \in Orders \ {o} : charges'[x] = charges[x]
    BY <1>2 DEF TypeOK
  <2> QED
    BY <1>2, <2>1, <2>2 DEF GatewayTrue, TypeOK
<1> QED
  BY <1>1, <1>2 DEF Authorize

LEMMA Monotone ==
    ASSUME TypeOK, CommandsTrue, StreamsTrue, HandlersTrue, Next
    PROVE  /\ \A o \in Orders :
                 /\ gateway[o] # "none" => gateway'[o] = gateway[o]
                 /\ refunds'[o] \in Nat /\ refunds'[o] >= refunds[o]
                 /\ \A c \in Commands : requests'[o][c] \in Nat /\ requests'[o][c] >= requests[o][c]
                 /\ HasReference(o) => HasReference(o)'
           /\ GatewayTrue => GatewayTrue'
<1>1. ASSUME NEW o \in Orders, HasReference(o) PROVE HasReference(o)'
  <2>1. CASE stream' = stream
    BY <1>1, <2>1 DEF HasReference, Known
  <2>2. CASE \E x \in Orders :
                 /\ \A y \in Orders \ {x} : stream'[y] = stream[y]
                 /\ \/ stream[x] = <<>>
                    \/ stream'[x] = <<"AUTHORIZED", "REFUNDED">>
    BY <1>1, <2>2 DEF HasReference, Known
  <2> QED
    BY <2>1, <2>2, SaveStep, RecordStep
<1>2. ASSUME NEW w \in Workers, HandlerStep(w)
      PROVE  /\ \A o \in Orders : gateway[o] # "none" => gateway'[o] = gateway[o]
             /\ GatewayTrue => GatewayTrue'
  <2>1. CASE \E outcome \in {"success", "decline"} : Authorize(handler[w].order, outcome) /\ handler[w].pc = "charge"
    <3>1. handler[w].order \in Orders
      BY <2>1, BusyHandler DEF Handler
    <3> QED
      BY <2>1, <3>1, AuthorizeStep
  <2>2. CASE UNCHANGED <<gateway, charges>>
    BY <2>2 DEF GatewayTrue
  <2> QED
    BY <1>2, <2>1, <2>2 DEF HandlerStep, Worker, Take, Charge, Refund, Save, InSequence, CommitOffset,
                            GatewayError, Abandon, Revoke, money
<1>3. ASSUME NEW w \in Workers, HandlerStep(w)
      PROVE  \A o \in Orders : refunds'[o] \in Nat /\ refunds'[o] >= refunds[o]
  <2>1. CASE Refund(w)
    BY <2>1, RefundsGrow
  <2>2. CASE refunds' = refunds
    BY <2>2 DEF TypeOK
  <2> QED
    BY <1>3, <2>1, <2>2 DEF HandlerStep, Worker, Take, Charge, Save, InSequence, CommitOffset,
                            GatewayError, Abandon, Revoke, money, Authorize
<1>4. ASSUME NEW w \in Workers, HandlerStep(w) PROVE requests' = requests
  BY <1>4 DEF HandlerStep, Worker, Take, Charge, Refund, Save, InSequence, CommitOffset,
              GatewayError, Abandon, Revoke, external
<1>5. ASSUME NEW x \in Orders, NEW d \in Commands, Request(x, d)
      PROVE  /\ UNCHANGED <<gateway, charges, refunds>>
             /\ \A o \in Orders, c \in Commands :
                   requests'[o][c] \in Nat /\ requests'[o][c] >= requests[o][c]
  <2>1. requests' = [requests EXCEPT ![x] = [requests[x] EXCEPT ![d] = @ + 1]]
    BY <1>5 DEF Request
  <2>2. UNCHANGED <<gateway, charges, refunds>>
    BY <1>5 DEF Request, money
  <2>3. \A o \in Orders : requests'[o] = IF o = x THEN [requests[x] EXCEPT ![d] = @ + 1] ELSE requests[o]
    BY <2>1 DEF TypeOK
  <2>4. ASSUME NEW o \in Orders, NEW c \in Commands
        PROVE  requests'[o][c] \in Nat /\ requests'[o][c] >= requests[o][c]
    <3>1. requests[o] \in [Commands -> Nat] /\ requests[o][c] \in Nat
      BY DEF TypeOK
    <3>2. requests'[o][c] = requests[o][c] \/ requests'[o][c] = requests[o][c] + 1
      BY <2>3, <3>1
    <3> QED
      BY <3>1, <3>2
  <2> QED
    BY <2>2, <2>4
<1>6. CASE \E w \in Workers : HandlerStep(w)
  BY <1>1, <1>2, <1>3, <1>4, <1>6 DEF TypeOK
<1>7. CASE \E o \in Orders, c \in Commands : Request(o, c)
  BY <1>1, <1>5, <1>7 DEF TypeOK, GatewayTrue
<1> QED
  BY <1>6, <1>7 DEF Next, HandlerStep

-----------------------------------------------------------------------------
(***************************************************************************)
(* The other parts of the invariant.                                       *)
(***************************************************************************)
LEMMA OwnersStep ==
    ASSUME TypeOK, OwnersTrue, Next
    PROVE  OwnersTrue'
<1>1. ASSUME NEW w \in Workers, NEW o \in Orders, Take(w, o) PROVE OwnersTrue'
  <2>1. handler'[w].order = o /\ inbox[o] # <<>> /\ inbox' = inbox
    BY <1>1 DEF Take, StartAuthorize, Known, StartRefund, Version, Job, TypeOK
  <2>2. \A v \in Workers \ {w} : handler'[v] = handler[v] /\ ~(Owner(v) /\ handler[v].order = o)
    BY <1>1, Others DEF HandlerStep, Worker, Take
  <2> QED
    BY <2>1, <2>2 DEF OwnersTrue, Owner
<1>2. ASSUME NEW w \in Workers, HandlerStep(w), \A o \in Orders : ~Take(w, o) PROVE OwnersTrue'
  <2>1. \A v \in Workers \ {w} : handler'[v] = handler[v]
    BY <1>2, Others
  <2>2. CASE handler'[w] = Idle /\ inbox' = inbox
    BY <2>1, <2>2 DEF OwnersTrue, Owner
  <2>3. CASE handler'[w] # Idle
    BY <1>2, <2>1, <2>3, KeepsOrder DEF OwnersTrue, Owner
  <2>4. CASE inbox' # inbox
    <3>1. CommitOffset(w)
      BY <1>2, <2>4 DEF HandlerStep, Worker, Charge, Refund, Save, InSequence, GatewayError, Abandon, Revoke
    <3>2. handler'[w] = Idle
      BY <3>1 DEF CommitOffset, TypeOK
    <3>3. Owner(w) /\ \A x \in Orders : x # handler[w].order => inbox'[x] = inbox[x]
      BY <2>4, <3>1, BusyHandler DEF CommitOffset, Owner, TypeOK
    <3>4. \A v \in Workers : Owner(v) => handler[v].order \in Orders
      BY NotIdle DEF Owner, Handler
    <3> QED
      BY <2>1, <3>2, <3>3, <3>4 DEF OwnersTrue, Owner
  <2> QED
    BY <2>2, <2>3, <2>4
<1>3. ASSUME NEW o \in Orders, NEW c \in Commands, Request(o, c) PROVE OwnersTrue'
  <2>1. handler' = handler
    BY <1>3 DEF Request
  <2>2. \A x \in Orders : inbox[x] # <<>> => inbox'[x] # <<>>
    BY <1>3 DEF Request, TypeOK
  <2>3. \A v \in Workers : Owner(v) => handler[v].order \in Orders
    BY NotIdle DEF Owner, Handler
  <2> QED
    BY <2>1, <2>2, <2>3 DEF OwnersTrue, Owner
<1> QED
  BY <1>1, <1>2, <1>3 DEF Next, HandlerStep

LEMMA CommandsStep ==
    ASSUME TypeOK, OwnersTrue, CommandsTrue, StreamsTrue, HandlersTrue, Next
    PROVE  CommandsTrue'
<1> DEFINE Queued(o) == \A i \in DOMAIN inbox'[o] : requests'[o][inbox'[o][i]] > 0
<1>1. ASSUME NEW o \in Orders, inbox'[o] = inbox[o] PROVE Queued(o)
  <2> SUFFICES ASSUME NEW i \in DOMAIN inbox[o] PROVE requests'[o][inbox[o][i]] > 0
    BY <1>1
  <2>1. inbox[o][i] \in Commands
    BY ElementOfSeq DEF TypeOK
  <2>2. requests[o][inbox[o][i]] > 0 /\ requests[o][inbox[o][i]] \in Nat
    BY <2>1 DEF CommandsTrue, TypeOK
  <2> QED
    BY <2>1, <2>2, Monotone
<1>2. ASSUME NEW w \in Workers, CommitOffset(w), NEW o \in Orders PROVE Queued(o)
  <2>1. CASE inbox'[o] = inbox[o]
    BY <1>1, <2>1
  <2>2. CASE inbox'[o] # inbox[o]
    <3>1. Owner(w) /\ handler[w].order = o /\ inbox'[o] = Tail(inbox[o])
      BY <1>2, <2>2, BusyHandler DEF CommitOffset, Owner, TypeOK
    <3>2. inbox[o] # <<>> /\ inbox[o] \in Seq(Commands)
      BY <3>1 DEF OwnersTrue, TypeOK
    <3>3. \A i \in DOMAIN inbox'[o] : i + 1 \in DOMAIN inbox[o] /\ inbox'[o][i] = inbox[o][i + 1]
      BY <3>1, <3>2
    <3>4. requests' = requests
      BY <1>2 DEF CommitOffset, external
    <3> QED
      BY <3>3, <3>4 DEF CommandsTrue
  <2> QED
    BY <2>1, <2>2
<1>3. ASSUME NEW x \in Orders, NEW c \in Commands, Request(x, c), NEW o \in Orders
      PROVE  Queued(o) /\ (requests'[o]["RefundPayment"] > 0 => HasReference(o)')
  <2>1. stream' = stream
    BY <1>3 DEF Request
  <2>2. CASE o # x
    <3>1. inbox'[o] = inbox[o] /\ requests'[o] = requests[o]
      BY <1>3, <2>2 DEF Request, TypeOK
    <3> QED
      BY <1>1, <2>1, <3>1 DEF CommandsTrue, HasReference, Known
  <2>3. CASE o = x
    <3>1. inbox'[o] = Append(inbox[o], c) /\ requests'[o] = [requests[o] EXCEPT ![c] = @ + 1]
      BY <1>3, <2>3 DEF Request, TypeOK
    <3>2. inbox[o] \in Seq(Commands) /\ requests[o] \in [Commands -> Nat]
      BY DEF TypeOK
    <3>3. requests'[o][c] > 0
      BY <3>1, <3>2
    <3>4. ASSUME NEW i \in DOMAIN inbox'[o] PROVE requests'[o][inbox'[o][i]] > 0
      <4>1. CASE i \in DOMAIN inbox[o]
        <5>1. inbox'[o][i] = inbox[o][i] /\ inbox[o][i] \in Commands
          BY <3>1, <3>2, <4>1, ElementOfSeq
        <5>2. requests[o][inbox[o][i]] > 0 /\ requests[o][inbox[o][i]] \in Nat
          BY <3>2, <4>1, <5>1 DEF CommandsTrue
        <5> QED
          BY <5>1, <5>2, Monotone
      <4>2. CASE i \notin DOMAIN inbox[o]
        <5>1. inbox'[o][i] = c
          BY <3>1, <3>2, <3>4, <4>2
        <5> QED
          BY <3>3, <5>1
      <4> QED
        BY <4>1, <4>2
    <3>5. requests'[o]["RefundPayment"] > 0 => HasReference(o)
      <4>1. CASE c = "RefundPayment"
        BY <1>3, <2>3, <4>1 DEF Request
      <4>2. CASE c # "RefundPayment"
        BY <3>1, <3>2, <4>2 DEF CommandsTrue, Commands
      <4> QED
        BY <4>1, <4>2
    <3> QED
      BY <2>1, <3>4, <3>5 DEF HasReference, Known
  <2> QED
    BY <2>2, <2>3
<1>4. ASSUME NEW w \in Workers, HandlerStep(w), NEW o \in Orders
      PROVE  Queued(o) /\ (requests'[o]["RefundPayment"] > 0 => HasReference(o)')
  <2>1. Queued(o)
    <3>1. CASE CommitOffset(w)
      BY <1>2, <3>1
    <3>2. CASE ~CommitOffset(w)
      <4>1. inbox' = inbox
        BY <1>4, <3>2 DEF HandlerStep, Worker, Take, Charge, Refund, Save, InSequence, GatewayError, Abandon, Revoke
      <4> QED
        BY <1>1, <4>1
    <3> QED
      BY <3>1, <3>2
  <2>2. requests' = requests
    BY <1>4 DEF HandlerStep, Worker, Take, Charge, Refund, Save, InSequence, CommitOffset,
                GatewayError, Abandon, Revoke, external
  <2> HIDE DEF Queued
  <2> QED
    BY <2>1, <2>2, Monotone DEF CommandsTrue
<1> QED
  BY <1>3, <1>4 DEF Next, HandlerStep, CommandsTrue

LEMMA RecordsStep ==
    ASSUME TypeOK, CommandsTrue, StreamsTrue, RecordTrue, HandlersTrue, Next
    PROVE  StreamsTrue' /\ RecordTrue'
<1> SUFFICES ASSUME NEW o \in Orders
             PROVE  /\ stream'[o] \in Histories
                    /\ stream'[o] # <<>> => stream'[o][1] = Recorded(gateway'[o]) /\ gateway'[o] # "none"
                    /\ Len(stream'[o]) > 1 => refunds'[o] > 0
  BY DEF StreamsTrue, RecordTrue
<1>1. CASE stream'[o] = stream[o]
  <2>1. Len(stream[o]) > 1 => refunds'[o] > 0
    BY Monotone DEF RecordTrue, TypeOK
  <2> QED
    BY <1>1, <2>1, Monotone DEF StreamsTrue, RecordTrue
<1>2. CASE /\ stream'[o] = <<Recorded(gateway[o])>> /\ gateway[o] # "none"
  BY <1>2, Monotone DEF Recorded, Histories
<1>3. CASE /\ stream[o] = <<"AUTHORIZED">> /\ refunds[o] > 0
           /\ stream'[o] = <<"AUTHORIZED", "REFUNDED">>
  <2>1. Recorded(gateway[o]) = "AUTHORIZED" /\ gateway[o] # "none"
    <3>1. stream[o] # <<>> /\ stream[o][1] = "AUTHORIZED"
      BY <1>3
    <3> QED
      BY <3>1 DEF RecordTrue
  <2>2. refunds'[o] > 0
    BY <1>3, Monotone DEF TypeOK
  <2> QED
    BY <1>3, <2>1, <2>2, Monotone DEF Histories
<1> QED
  BY <1>1, <1>2, <1>3, SaveStep, RecordStep

\* What is true of the gateway and of the requests stays true.
LEMMA StaysTrue ==
    ASSUME TypeOK, CommandsTrue, StreamsTrue, HandlersTrue, Next, NEW o \in Orders
    PROVE  /\ gateway[o] # "none" => gateway'[o] = gateway[o]
           /\ refunds[o] > 0 => refunds'[o] > 0
           /\ \A c \in Commands : requests[o][c] > 0 => requests'[o][c] > 0
<1>1. refunds[o] \in Nat /\ \A c \in Commands : requests[o][c] \in Nat
  BY DEF TypeOK
<1> QED
  BY <1>1, Monotone

\* A handler that is where it was holds what it held.
LEMMA SameHandler ==
    ASSUME TypeOK, CommandsTrue, StreamsTrue, HandlersTrue, Next,
           NEW v \in Workers, handler[v] # Idle,
           handler'[v].pc = handler[v].pc, handler'[v].order = handler[v].order,
           handler'[v].event = handler[v].event, handler'[v].version = handler[v].version
    PROVE  HandlerTrue(handler[v])'
<1>1. handler[v] \in Handler /\ HandlerTrue(handler[v])
  BY NotIdle DEF HandlersTrue
<1>2. handler[v].order \in Orders
  BY <1>1 DEF Handler
<1> QED
  BY <1>1, <1>2, StaysTrue DEF HandlerTrue, Commands

LEMMA OwnHandler ==
    ASSUME TypeOK, CommandsTrue, StreamsTrue, HandlersTrue, Next,
           NEW w \in Workers, HandlerStep(w), handler'[w] # Idle
    PROVE  HandlerTrue(handler[w])'
<1> DEFINE h == handler[w]
           g == handler'[w]
<1>1. ASSUME NEW o \in Orders, Take(w, o) PROVE HandlerTrue(handler[w])'
  <2>1. requests[o][Head(inbox[o])] > 0 /\ requests' = requests
    <3>1. 1 \in DOMAIN inbox[o] /\ Head(inbox[o]) = inbox[o][1]
      BY <1>1 DEF Take, TypeOK
    <3> QED
      BY <1>1, <3>1 DEF Take, CommandsTrue, external
  <2>2. CASE g = StartAuthorize(o) /\ Head(inbox[o]) = "AuthorizePayment"
    BY <2>1, <2>2 DEF StartAuthorize, Known, Job, HandlerTrue
  <2>3. CASE g = StartRefund(o) /\ Head(inbox[o]) = "RefundPayment"
    BY <2>1, <2>3 DEF StartRefund, Version, Job, HandlerTrue
  <2> QED
    BY <1>1, <2>2, <2>3 DEF Take, TypeOK
<1>2. CASE Charge(w)
  <2>1. h \in Handler /\ HandlerTrue(h) /\ h.pc = "charge" /\ requests' = requests
    BY <1>2, BusyHandler DEF Charge, HandlersTrue, external
  <2>2. PICK outcome \in {"success", "decline"} :
           Authorize(h.order, outcome) /\ g = [h EXCEPT !.pc = "save", !.event = Recorded(outcome)]
    BY <1>2 DEF Charge, TypeOK
  <2>3. g.pc = "save" /\ g.event = Recorded(outcome) /\ g.order = h.order /\ g.version = h.version
    BY <2>1, <2>2 DEF Handler
  <2>4. gateway'[h.order] = outcome
    BY <2>1, <2>2, AuthorizeStep DEF Handler
  <2> QED
    BY <2>1, <2>3, <2>4 DEF HandlerTrue
<1>3. CASE Refund(w)
  <2>1. h \in Handler /\ HandlerTrue(h) /\ h.pc = "refund" /\ requests' = requests /\ h.order \in Orders
    BY <1>3, BusyHandler DEF Refund, HandlersTrue, external, Handler
  <2>2. g = [h EXCEPT !.pc = IF h.event = "none" THEN "commit" ELSE "save"]
    BY <1>3 DEF Refund, PayBack, TypeOK
  <2>3. refunds'[h.order] = refunds[h.order] + 1 /\ refunds[h.order] \in Nat
    BY <1>3, <2>1 DEF Refund, PayBack, TypeOK
  <2>4. /\ g.pc = IF h.event = "none" THEN "commit" ELSE "save"
        /\ g.event = h.event /\ g.order = h.order /\ g.version = h.version
    BY <2>1, <2>2 DEF Handler
  <2> QED
    BY <2>1, <2>3, <2>4 DEF HandlerTrue
<1>4. CASE Save(w)
  <2>1. h \in Handler /\ g = [h EXCEPT !.pc = "commit"]
    BY <1>4, BusyHandler DEF Save, InSequence, TypeOK
  <2>2. g.pc = "commit"
    BY <2>1 DEF Handler
  <2> QED
    BY <2>2 DEF HandlerTrue
<1>5. CASE Revoke(w)
  <2>1. h \in Handler /\ h # Idle
    BY <1>5, NotIdle DEF Revoke, Owner
  <2>2. g = [h EXCEPT !.owner = FALSE]
    BY <1>5 DEF Revoke, TypeOK
  <2>3. g.pc = h.pc /\ g.order = h.order /\ g.event = h.event /\ g.version = h.version
    BY <2>1, <2>2 DEF Handler
  <2> QED
    BY <2>1, <2>3, SameHandler
<1>6. CASE CommitOffset(w) \/ GatewayError(w) \/ Abandon(w)
  BY <1>6 DEF CommitOffset, GatewayError, Abandon, TypeOK
<1> QED
  BY <1>1, <1>2, <1>3, <1>4, <1>5, <1>6 DEF HandlerStep, Worker

LEMMA HandlersStep ==
    ASSUME TypeOK, CommandsTrue, StreamsTrue, HandlersTrue, Next
    PROVE  HandlersTrue'
<1>1. ASSUME NEW w \in Workers, HandlerStep(w), NEW v \in Workers, handler'[v] # Idle
      PROVE  HandlerTrue(handler[v])'
  <2>1. CASE v = w
    BY <1>1, <2>1, OwnHandler
  <2>2. CASE v # w
    <3>1. handler'[v] = handler[v]
      BY <1>1, <2>2, Others
    <3> QED
      BY <1>1, <3>1, SameHandler
  <2> QED
    BY <2>1, <2>2
<1>2. ASSUME NEW o \in Orders, NEW c \in Commands, Request(o, c), NEW v \in Workers, handler'[v] # Idle
      PROVE  HandlerTrue(handler[v])'
  <2>1. handler'[v] = handler[v]
    BY <1>2 DEF Request
  <2> QED
    BY <1>2, <2>1, SameHandler
<1> QED
  BY <1>1, <1>2 DEF Next, HandlerStep, HandlersTrue

-----------------------------------------------------------------------------
(***************************************************************************)
(* No command is lost.                                                     *)
(***************************************************************************)
Work == \A w \in Workers : handler[w] # Idle => CommandTrue(handler[w])

\* A payment that is known stays known, and money paid back is not forgotten.
LEMMA EffectsStay ==
    ASSUME TypeOK, CommandsTrue, StreamsTrue, HandlersTrue, Next, NEW o \in Orders
    PROVE  /\ stream[o] # <<>> => stream'[o] # <<>>
           /\ refunds[o] # 0 => refunds'[o] # 0
<1>1. stream[o] # <<>> => stream'[o] # <<>>
  <2>1. CASE stream' = stream
    BY <2>1
  <2>2. CASE stream' # stream
    BY <2>2, SaveStep, RecordStep
  <2> QED
    BY <2>1, <2>2
<1>2. refunds[o] \in Nat /\ refunds'[o] \in Nat /\ refunds'[o] >= refunds[o]
  BY Monotone DEF TypeOK
<1> QED
  BY <1>1, <1>2

\* The first command of a partition changes only when its owner commits it.
LEMMA FirstStays ==
    ASSUME TypeOK, OwnersTrue, Next, NEW v \in Workers, Owner(v), handler'[v] # Idle
    PROVE  inbox'[handler[v].order][1] = inbox[handler[v].order][1]
<1> DEFINE o == handler[v].order
<1>1. o \in Orders /\ inbox[o] # <<>> /\ inbox[o] \in Seq(Commands)
  BY NotIdle DEF Owner, OwnersTrue, Handler, TypeOK
<1>2. ASSUME NEW x \in Orders, NEW c \in Commands, Request(x, c) PROVE inbox'[o][1] = inbox[o][1]
  <2>1. inbox'[o] = inbox[o] \/ inbox'[o] = Append(inbox[o], c)
    BY <1>1, <1>2 DEF Request, TypeOK
  <2>2. Append(inbox[o], c)[1] = inbox[o][1]
    <3>1. Len(inbox[o]) >= 1
      BY <1>1, EmptySeq
    <3> QED
      BY <1>1, <3>1, AppendProperties
  <2> QED
    BY <2>1, <2>2
<1>3. ASSUME NEW w \in Workers, CommitOffset(w) PROVE inbox'[o][1] = inbox[o][1]
  <2>1. handler'[w] = Idle /\ handler[w] # Idle
    BY <1>3, BusyHandler DEF CommitOffset, TypeOK
  <2>2. w # v
    BY <2>1
  <2>3. Owner(w) => handler[w].order # o
    BY <2>2 DEF OwnersTrue
  <2>4. inbox'[o] = inbox[o]
    BY <1>1, <1>3, <2>1, <2>3 DEF CommitOffset, Owner, TypeOK
  <2> QED
    BY <2>4
<1>4. ASSUME NEW w \in Workers, HandlerStep(w), ~CommitOffset(w) PROVE inbox' = inbox
  BY <1>4 DEF HandlerStep, Worker, Take, Charge, Refund, Save, InSequence, GatewayError, Abandon, Revoke
<1> QED
  BY <1>2, <1>3, <1>4 DEF Next, HandlerStep

\* A handler that did not move and kept its order has its command in its hands.
LEMMA SameWork ==
    ASSUME TypeOK, OwnersTrue, CommandsTrue, StreamsTrue, HandlersTrue, Work, Next,
           NEW v \in Workers, handler[v] # Idle, handler'[v] # Idle,
           handler'[v].pc \in {handler[v].pc, "save"}, handler'[v].order = handler[v].order,
           handler'[v].version = handler[v].version, handler'[v].owner => handler[v].owner
    PROVE  CommandTrue(handler[v])'
<1>1. handler[v].order \in Orders /\ CommandTrue(handler[v])
  BY NotIdle DEF Handler, Work
<1>2. refunds[handler[v].order] \in Nat /\ refunds'[handler[v].order] \in Nat
  BY <1>1, Monotone DEF TypeOK
<1>3. /\ stream[handler[v].order] # <<>> => stream'[handler[v].order] # <<>>
      /\ refunds[handler[v].order] # 0 => refunds'[handler[v].order] # 0
  BY <1>1, EffectsStay
<1>4. handler[v].owner => inbox'[handler[v].order][1] = inbox[handler[v].order][1]
  BY FirstStays DEF Owner
<1> QED
  BY <1>1, <1>2, <1>3, <1>4 DEF CommandTrue

LEMMA OwnWork ==
    ASSUME TypeOK, OwnersTrue, CommandsTrue, StreamsTrue, HandlersTrue, Work, Next,
           NEW w \in Workers, HandlerStep(w), handler'[w] # Idle
    PROVE  CommandTrue(handler[w])'
<1> DEFINE h == handler[w]
           g == handler'[w]
<1>1. ASSUME NEW o \in Orders, Take(w, o) PROVE CommandTrue(handler[w])'
  <2>1. /\ inbox[o][1] = Head(inbox[o]) /\ inbox' = inbox /\ stream' = stream
    BY <1>1 DEF Take, TypeOK
  <2>2. CASE g = StartAuthorize(o) /\ Head(inbox[o]) = "AuthorizePayment"
    BY <2>1, <2>2 DEF StartAuthorize, Known, Job, CommandTrue
  <2>3. CASE g = StartRefund(o) /\ Head(inbox[o]) = "RefundPayment" /\ HasReference(o)
    <3>1. Len(stream[o]) > 0 /\ Len(stream[o]) # 0
      BY <2>3, StreamLength DEF HasReference, Known
    <3>2. /\ g.pc = "refund" /\ g.order = o /\ g.version = Len(stream[o])
      BY <2>3 DEF StartRefund, Version, Job
    <3> HIDE DEF g
    <3> QED
      BY <2>1, <2>3, <3>1, <3>2 DEF CommandTrue, g
  <2> QED
    BY <1>1, <2>2, <2>3 DEF Take, TypeOK
<1>2. ASSUME \A o \in Orders : ~Take(w, o)
      PROVE  h # Idle /\ g.order = h.order /\ g.version = h.version /\ (g.owner => h.owner)
  BY <1>2, KeepsOrder
<1>3. CASE Charge(w)
  <2>1. h \in Handler /\ \A o \in Orders : ~Take(w, o)
    BY <1>3, BusyHandler DEF Charge, Take
  <2>2. \E e : g = [h EXCEPT !.pc = "save", !.event = e]
    BY <1>3 DEF Charge, TypeOK
  <2>3. g.pc = "save"
    BY <2>1, <2>2 DEF Handler
  <2> QED
    BY <1>2, <2>1, <2>3, SameWork
<1>4. CASE Revoke(w)
  <2>1. h \in Handler /\ \A o \in Orders : ~Take(w, o)
    BY <1>4, NotIdle DEF Revoke, Owner, Take
  <2>2. g = [h EXCEPT !.owner = FALSE]
    BY <1>4 DEF Revoke, TypeOK
  <2>3. g.pc = h.pc
    BY <2>1, <2>2 DEF Handler
  <2> QED
    BY <1>2, <2>1, <2>3, SameWork
<1>5. CASE Refund(w)
  <2>1. /\ h \in Handler /\ h # Idle /\ h.pc = "refund" /\ h.order \in Orders
        /\ (\A o \in Orders : ~Take(w, o)) /\ inbox' = inbox /\ CommandTrue(h)
    BY <1>5, BusyHandler DEF Refund, Take, Handler, Work
  <2>2. PayBack(h.order) /\ g = [h EXCEPT !.pc = IF h.event = "none" THEN "commit" ELSE "save"]
    BY <1>5 DEF Refund, TypeOK
  <2>3. refunds'[h.order] > 0
    <3>1. refunds[h.order] \in Nat /\ refunds'[h.order] = refunds[h.order] + 1
      BY <2>1, <2>2 DEF PayBack, TypeOK
    <3> QED
      BY <3>1
  <2>4. g.pc \in {"commit", "save"} /\ h.version > 0 /\ h.version # 0
    <3>1. h.version > 0 /\ h.version \in Nat
      BY <2>1 DEF CommandTrue, Handler
    <3> QED
      BY <2>1, <2>2, <3>1 DEF Handler
  <2>5. g.order = h.order /\ g.version = h.version /\ (g.owner => h.owner)
    BY <1>2, <2>1
  <2> HIDE DEF h, g
  <2> QED
    BY <2>1, <2>3, <2>4, <2>5 DEF CommandTrue, g
<1>6. CASE Save(w)
  <2>1. /\ h \in Handler /\ h # Idle /\ h.pc = "save" /\ h.order \in Orders
        /\ (\A o \in Orders : ~Take(w, o)) /\ inbox' = inbox /\ CommandTrue(h) /\ HandlerTrue(h)
    BY <1>6, BusyHandler DEF Save, InSequence, Take, Handler, Work, HandlersTrue
  <2>2. /\ stream' = [stream EXCEPT ![h.order] = Append(@, h.event)]
        /\ g = [h EXCEPT !.pc = "commit"] /\ refunds' = refunds
    BY <1>6 DEF Save, InSequence, TypeOK, money
  <2>3. stream'[h.order] # <<>>
    <3>1. stream[h.order] \in Seq(Events) /\ stream'[h.order] = Append(stream[h.order], h.event)
      BY <2>1, <2>2 DEF TypeOK
    <3>2. Len(stream'[h.order]) = Len(stream[h.order]) + 1 /\ Len(stream[h.order]) \in Nat
      BY <3>1
    <3> QED
      BY <3>2
  <2>4. h.version = 0 \/ refunds'[h.order] > 0
    BY <2>1, <2>2 DEF HandlerTrue
  <2>5. g.pc = "commit"
    BY <2>1, <2>2 DEF Handler
  <2>6. g.order = h.order /\ g.version = h.version /\ (g.owner => h.owner)
    BY <1>2, <2>1
  <2> HIDE DEF h, g
  <2> QED
    BY <2>1, <2>3, <2>4, <2>5, <2>6 DEF CommandTrue, g
<1>7. CASE CommitOffset(w) \/ GatewayError(w) \/ Abandon(w)
  BY <1>7 DEF CommitOffset, GatewayError, Abandon, TypeOK
<1> QED
  BY <1>1, <1>3, <1>4, <1>5, <1>6, <1>7 DEF HandlerStep, Worker

LEMMA WorkStep ==
    ASSUME TypeOK, OwnersTrue, CommandsTrue, StreamsTrue, HandlersTrue, Work, Next
    PROVE  Work'
<1>1. ASSUME NEW v \in Workers, handler'[v] # Idle, handler'[v] = handler[v]
      PROVE  CommandTrue(handler[v])'
  BY <1>1, SameWork
<1>2. ASSUME NEW w \in Workers, HandlerStep(w), NEW v \in Workers, handler'[v] # Idle
      PROVE  CommandTrue(handler[v])'
  BY <1>1, <1>2, Others, OwnWork
<1>3. ASSUME NEW o \in Orders, NEW c \in Commands, Request(o, c) PROVE handler' = handler
  BY <1>3 DEF Request
<1> QED
  BY <1>1, <1>2, <1>3 DEF Next, HandlerStep, Work

\* A command leaves the partition only when its effect is there.
LEMMA LostStep ==
    ASSUME TypeOK, OwnersTrue, CommandsTrue, StreamsTrue, HandlersTrue, Work, NoCommandLost, Next
    PROVE  NoCommandLost'
<1> DEFINE Missing(o, c) == IF c = "AuthorizePayment" THEN stream[o] = <<>> ELSE refunds[o] = 0
           Missing2(o, c) == IF c = "AuthorizePayment" THEN stream'[o] = <<>> ELSE refunds'[o] = 0
           Pending2(o, c) == \E i \in DOMAIN inbox'[o] : inbox'[o][i] = c
<1> SUFFICES ASSUME NEW o \in Orders, NEW c \in Commands, requests'[o][c] > 0, Missing2(o, c)
             PROVE  Pending2(o, c)
  BY DEF NoCommandLost, Pending, Commands
<1>1. Missing(o, c)
  BY EffectsStay DEF Commands
<1>2. requests[o][c] > 0 => Pending(o, c)
  BY <1>1 DEF NoCommandLost, Commands
<1> HIDE DEF Missing, Missing2
<1>3. inbox[o] \in Seq(Commands)
  BY DEF TypeOK
<1>4. CASE inbox'[o] = inbox[o] /\ requests'[o][c] = requests[o][c]
  BY <1>2, <1>4 DEF Pending
<1>5. ASSUME NEW x \in Orders, NEW d \in Commands, Request(x, d) PROVE Pending2(o, c)
  <2>1. CASE x # o
    BY <1>4, <1>5, <2>1 DEF Request, TypeOK
  <2>2. CASE x = o
    <3>1. inbox'[o] = Append(inbox[o], d) /\ requests'[o] = [requests[o] EXCEPT ![d] = @ + 1]
      BY <1>5, <2>2 DEF Request, TypeOK
    <3>2. /\ \A i \in DOMAIN inbox[o] : i \in DOMAIN inbox'[o] /\ inbox'[o][i] = inbox[o][i]
          /\ Len(inbox[o]) + 1 \in DOMAIN inbox'[o] /\ inbox'[o][Len(inbox[o]) + 1] = d
      BY <1>3, <3>1, AppendProperties
    <3>3. CASE c = d
      BY <3>2, <3>3
    <3>4. CASE c # d
      <4>1. requests[o] \in [Commands -> Nat]
        BY DEF TypeOK
      <4>2. requests[o][c] > 0
        BY <3>1, <3>4, <4>1
      <4> QED
        BY <1>2, <3>2, <4>2 DEF Pending
    <3> QED
      BY <3>3, <3>4
  <2> QED
    BY <2>1, <2>2
<1>6. ASSUME NEW w \in Workers, HandlerStep(w) PROVE requests' = requests
  BY <1>6 DEF HandlerStep, Worker, Take, Charge, Refund, Save, InSequence, CommitOffset,
              GatewayError, Abandon, Revoke, external
<1>7. ASSUME NEW w \in Workers, HandlerStep(w), inbox'[o] # inbox[o] PROVE Pending2(o, c)
  <2> DEFINE h == handler[w]
  <2>1. CommitOffset(w)
    BY <1>7 DEF HandlerStep, Worker, Take, Charge, Refund, Save, InSequence, GatewayError, Abandon, Revoke
  <2>2. Owner(w) /\ h.order = o /\ inbox'[o] = Tail(inbox[o])
    BY <1>7, <2>1, BusyHandler DEF CommitOffset, Owner, TypeOK
  <2>3. h # Idle /\ h.pc = "commit" /\ CommandTrue(h) /\ h.version \in Nat
    BY <2>1, <2>2, BusyHandler DEF CommitOffset, Owner, Work, Handler
  <2>4. inbox[o][1] # c
    <3>1. CASE h.version = 0
      BY <1>1, <2>2, <2>3, <3>1 DEF CommandTrue, Owner, Missing
    <3>2. CASE h.version # 0
      BY <1>1, <2>2, <2>3, <3>2 DEF CommandTrue, Owner, Missing
    <3> QED
      BY <3>1, <3>2
  <2>5. PICK i \in DOMAIN inbox[o] : inbox[o][i] = c
    BY <1>2, <1>6, <1>7 DEF Pending
  <2>6. inbox[o] # <<>>
    BY <2>2 DEF OwnersTrue
  <2>7. i # 1 /\ i \in 1 .. Len(inbox[o])
    BY <1>3, <2>4, <2>5
  <2>8. i - 1 \in 1 .. Len(inbox[o]) - 1 /\ (i - 1) + 1 = i
    BY <1>3, <2>7
  <2>9. i - 1 \in DOMAIN inbox'[o] /\ inbox'[o][i - 1] = inbox[o][i]
    BY <1>3, <2>2, <2>6, <2>8, HeadTailProperties
  <2> QED
    BY <2>5, <2>9
<1>8. CASE \E w \in Workers : HandlerStep(w)
  BY <1>4, <1>6, <1>7, <1>8
<1> QED
  BY <1>5, <1>8 DEF Next, HandlerStep

-----------------------------------------------------------------------------
(***************************************************************************)
(* The theorems.                                                           *)
(***************************************************************************)

\* IInv holds in every reachable state: the invariant of AuthorizePayment- and
\* RefundPaymentHandler on which the other theorems rest.
THEOREM Invariant == Spec => []IInv
<1>1. Init => IInv
  <2> SUFFICES ASSUME Init PROVE IInv
    OBVIOUS
  <2>1. TypeOK
    BY DEF Init, TypeOK
  <2>2. OwnersTrue /\ HandlersTrue
    BY DEF Init, OwnersTrue, Owner, HandlersTrue
  <2>3. CommandsTrue
    <3>1. \A o \in Orders : inbox[o] = <<>> /\ requests[o] = [c \in Commands |-> 0]
      BY DEF Init
    <3>2. \A o \in Orders : requests[o]["RefundPayment"] = 0
      BY <3>1 DEF Commands
    <3>3. DOMAIN <<>> = {}
      OBVIOUS
    <3>4. ASSUME NEW o \in Orders PROVE ~(requests[o]["RefundPayment"] > 0)
      BY <3>2
    <3>5. ASSUME NEW o \in Orders, NEW i \in DOMAIN inbox[o] PROVE FALSE
      BY <3>1, <3>3
    <3> QED
      BY <3>4, <3>5 DEF CommandsTrue
  <2>4. GatewayTrue
    BY DEF Init, GatewayTrue
  <2>5. StreamsTrue /\ RecordTrue
    BY DEF Init, StreamsTrue, RecordTrue, Histories
  <2>6. NoCommandLost
    <3>1. \A o \in Orders, c \in Commands : requests[o][c] = 0
      BY DEF Init
    <3>2. ASSUME NEW o \in Orders, NEW c \in Commands PROVE ~(requests[o][c] > 0)
      BY <3>1
    <3> QED
      BY <3>2 DEF NoCommandLost, Commands
  <2>7. Work
    BY DEF Init, Work
  <2> QED
    BY <2>1, <2>2, <2>3, <2>4, <2>5, <2>6, <2>7 DEF IInv, Work
<1>2. IInv /\ [Next]_vars => IInv'
  <2> SUFFICES ASSUME IInv, [Next]_vars PROVE IInv'
    OBVIOUS
  <2>1. CASE Next
    <3>1. TypeOK' /\ OwnersTrue'
      BY <2>1, TypeStep, OwnersStep DEF IInv
    <3>2. CommandsTrue' /\ GatewayTrue'
      BY <2>1, CommandsStep, Monotone DEF IInv
    <3>3. StreamsTrue' /\ RecordTrue'
      BY <2>1, RecordsStep DEF IInv
    <3>4. HandlersTrue'
      BY <2>1, HandlersStep DEF IInv
    <3>5. NoCommandLost' /\ Work'
      BY <2>1, LostStep, WorkStep DEF IInv, Work
    <3> QED
      BY <3>1, <3>2, <3>3, <3>4, <3>5 DEF IInv, Work
  <2>2. CASE UNCHANGED vars
    <3>1. UNCHANGED <<stream, gateway, charges, refunds, inbox, handler, requests, faults>>
      BY <2>2 DEF vars
    <3>2. TypeOK'
      BY <3>1 DEF IInv, TypeOK
    <3>3. OwnersTrue'
      BY <3>1 DEF IInv, OwnersTrue, Owner
    <3>4. CommandsTrue'
      BY <3>1 DEF IInv, CommandsTrue, HasReference, Known
    <3>5. GatewayTrue'
      BY <3>1 DEF IInv, GatewayTrue
    <3>6. StreamsTrue' /\ RecordTrue'
      BY <3>1 DEF IInv, StreamsTrue, RecordTrue
    <3>7. HandlersTrue'
      BY <3>1 DEF IInv, HandlersTrue, HandlerTrue
    <3>8. NoCommandLost'
      BY <3>1 DEF IInv, NoCommandLost, Pending
    <3>9. Work'
      BY <3>1 DEF IInv, Work, CommandTrue
    <3> QED
      BY <3>2, <3>3, <3>4, <3>5, <3>6, <3>7, <3>8, <3>9 DEF IInv, Work
  <2> QED
    BY <2>1, <2>2
<1> QED
  BY <1>1, <1>2, PTL DEF Spec

\* The idempotency key "authorize:<orderId>" keeps a customer from being
\* charged twice for an order, however often AuthorizePayment is handled.
THEOREM ChargedOnce == Spec => []ChargedAtMostOnce
<1>1. IInv => ChargedAtMostOnce
  <2> SUFFICES ASSUME IInv, NEW o \in Orders PROVE charges[o] <= 1
    BY DEF ChargedAtMostOnce
  <2>1. charges[o] = 0 \/ charges[o] = 1
    BY DEF IInv, GatewayTrue
  <2> QED
    BY <2>1
<1> QED
  BY <1>1, Invariant, PTL

\* A recorded payment says what the gateway answered, and a recorded refund was
\* paid out before (the order of the calls in the two handlers).
THEOREM RecordIsTrue == Spec => []RecordTrue
<1>1. IInv => RecordTrue
  BY DEF IInv
<1> QED
  BY <1>1, Invariant, PTL

\* The offset of AuthorizePayment is committed only once the payment is recorded
\* and that of RefundPayment only once the money is sent back, for any replicas,
\* gateway errors, crashes and rebalances (the consumer's commitOffsets).
THEOREM NothingForgotten == Spec => []NoCommandLost
<1>1. IInv => NoCommandLost
  BY DEF IInv
<1> QED
  BY <1>1, Invariant, PTL

\* What the streams that occur say.
LEMMA SaysWhat ==
    /\ Says(<<>>) = "none"
    /\ Says(<<"AUTHORIZED">>) = "success"
    /\ Says(<<"DECLINED">>) = "failure"
    /\ Says(<<"AUTHORIZED", "REFUNDED">>) = "undone"
BY DEF Says

LEMMA ParticipantStep ==
    ASSUME IInv, Next
    PROVE  P!Next \/ UNCHANGED P!vars
<1> DEFINE asked == {o \in Orders : requests[o]["AuthorizePayment"] > 0}
           undoAsked == {o \in Orders : requests[o]["RefundPayment"] > 0}
           answer == [o \in Orders |-> Says(stream[o])]
<1>1. ASSUME NEW o \in Orders, Request(o, "AuthorizePayment") PROVE P!Ask(o)
  <2>1. requests' = [requests EXCEPT ![o]["AuthorizePayment"] = @ + 1] /\ stream' = stream
    BY <1>1 DEF Request
  <2>2. \A x \in Orders : /\ requests'[x]["AuthorizePayment"] =
                              IF x = o THEN requests[o]["AuthorizePayment"] + 1
                              ELSE requests[x]["AuthorizePayment"]
                          /\ requests'[x]["RefundPayment"] = requests[x]["RefundPayment"]
                          /\ requests[x]["AuthorizePayment"] \in Nat
    BY <2>1 DEF IInv, TypeOK, Commands
  <2>3. asked' = asked \cup {o} /\ undoAsked' = undoAsked /\ answer' = answer
    BY <2>1, <2>2
  <2> QED
    BY <2>3 DEF P!Ask
<1>2. ASSUME NEW o \in Orders, Request(o, "RefundPayment") PROVE P!AskUndo(o)
  <2>1. requests' = [requests EXCEPT ![o]["RefundPayment"] = @ + 1] /\ stream' = stream /\ HasReference(o)
    BY <1>2 DEF Request
  <2>2. \A x \in Orders : /\ requests'[x]["RefundPayment"] =
                              IF x = o THEN requests[o]["RefundPayment"] + 1
                              ELSE requests[x]["RefundPayment"]
                          /\ requests'[x]["AuthorizePayment"] = requests[x]["AuthorizePayment"]
                          /\ requests[x]["RefundPayment"] \in Nat
    BY <2>1 DEF IInv, TypeOK, Commands
  <2>3. asked' = asked /\ undoAsked' = undoAsked \cup {o} /\ answer' = answer
    BY <2>1, <2>2
  <2>4. stream[o] = <<"AUTHORIZED">> \/ stream[o] = <<"AUTHORIZED", "REFUNDED">>
    BY <2>1 DEF HasReference, Known, IInv, StreamsTrue, Histories
  <2>5. answer[o] \in {"success", "undone"}
    BY <2>4, SaysWhat
  <2> QED
    BY <2>3, <2>5 DEF P!AskUndo
<1>3. ASSUME NEW w \in Workers, HandlerStep(w), stream' # stream PROVE P!Next
  <2>1. requests' = requests
    BY <1>3 DEF HandlerStep, Worker, Take, Charge, Refund, Save, InSequence, CommitOffset,
                GatewayError, Abandon, Revoke, external
  <2>2. asked' = asked /\ undoAsked' = undoAsked
    BY <2>1
  <2>3. PICK o \in Orders :
                 /\ \A x \in Orders \ {o} : stream'[x] = stream[x]
                 /\ \/ /\ stream[o] = <<>>
                       /\ stream'[o] = <<Recorded(gateway[o])>>
                       /\ requests[o]["AuthorizePayment"] > 0
                    \/ /\ stream[o] = <<"AUTHORIZED">>
                       /\ stream'[o] = <<"AUTHORIZED", "REFUNDED">>
                       /\ requests[o]["RefundPayment"] > 0
    BY <1>3, SaveStep, RecordStep DEF IInv
  <2>4. answer' = [answer EXCEPT ![o] = Says(stream'[o])]
    BY <2>3
  <2>5. CASE stream[o] = <<>> /\ stream'[o] = <<Recorded(gateway[o])>> /\ requests[o]["AuthorizePayment"] > 0
    <3>1. answer[o] = "none" /\ o \in asked
      BY <2>5, SaysWhat
    <3>2. Says(stream'[o]) \in {"success", "failure"}
      BY <2>5, SaysWhat DEF Recorded
    <3>3. P!Answer(o, Says(stream'[o]))
      BY <2>2, <2>4, <3>1 DEF P!Answer
    <3> QED
      BY <3>2, <3>3 DEF P!Next
  <2>6. CASE /\ stream[o] = <<"AUTHORIZED">> /\ stream'[o] = <<"AUTHORIZED", "REFUNDED">>
             /\ requests[o]["RefundPayment"] > 0
    <3>1. answer[o] = "success" /\ o \in undoAsked /\ Says(stream'[o]) = "undone"
      BY <2>6, SaysWhat
    <3>2. P!Undo(o)
      BY <2>2, <2>4, <3>1 DEF P!Undo
    <3> QED
      BY <3>2 DEF P!Next
  <2> QED
    BY <2>3, <2>5, <2>6
<1>4. ASSUME NEW w \in Workers, HandlerStep(w), stream' = stream PROVE UNCHANGED P!vars
  <2>1. requests' = requests
    BY <1>4 DEF HandlerStep, Worker, Take, Charge, Refund, Save, InSequence, CommitOffset,
                GatewayError, Abandon, Revoke, external
  <2> QED
    BY <1>4, <2>1 DEF P!vars
<1> QED
  BY <1>1, <1>2, <1>3, <1>4 DEF Next, HandlerStep, Commands, P!Next

\* payment-service is a Participant: AuthorizePayment is answered once and the
\* answer is undone only on request and once, for any number of replicas,
\* faults and repeated commands.  SagaStateMachine assumes it of its steps.
THEOREM Implementation == Spec => ImplementsParticipant
<1>1. Init => P!Init
  BY SaysWhat DEF Init, P!Init, Commands
<1>2. IInv /\ [Next]_vars => [P!Next]_P!vars
  <2>1. CASE Next
    BY <2>1, ParticipantStep
  <2>2. CASE UNCHANGED vars
    BY <2>2 DEF vars, P!vars
  <2> QED
    BY <2>1, <2>2
<1> QED
  BY <1>1, <1>2, Invariant, PTL DEF Spec, ImplementsParticipant, P!Spec
=============================================================================
