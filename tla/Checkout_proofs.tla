---------------------------- MODULE Checkout_proofs ----------------------------
(***************************************************************************)
(* For every saga definition that ends with the payment, any orders, any   *)
(* number of replicas of the orchestrator and of the notification service, *)
(* and any number of faults, duplicates and mishaps: the checkout does to  *)
(* the saga what SagaStateMachine allows, and no mail contradicts it.      *)
(*                                                                         *)
(* A mail is sent long after the fact it is about, from a copy that may be *)
(* late, repeated or reordered; it is true because the facts stay: answers *)
(* and final statuses are never taken back (EmittedStays).  How often it   *)
(* is sent is a count of copies, mails in hand and mails gone astray, in   *)
(* which every extra mail is paid for by a failure (MailsPaid).            *)
(***************************************************************************)
EXTENDS Checkout, SagaStateMachine_proofs, FiniteSetTheorems

LEMMA NoticesAreEvents == Notices \subseteq EventTypes /\ Len(Steps) \in StepIndex
<1>1. Len(Steps) \in Nat /\ Len(Steps) > 0
  BY StepsAssumption
<1>2. Len(Steps) \in StepIndex
  BY <1>1 DEF StepIndex
<1>3. "PaymentDeclined" \in StepEvents
  BY <1>2, CheckoutAssumption DEF StepEvents
<1> QED
  BY <1>2, <1>3 DEF Notices, EventTypes, OrderEvents

\* A step of the checkout is a step of the saga or leaves it alone.
LEMMA SagaUnderneath == [CheckoutNext]_CheckoutVars => [Next]_vars
BY DEF CheckoutNext, CheckoutVars, SagaStep, MailStep

\* What was published stays true.
LEMMA EmittedStays ==
    ASSUME IInv, [Next]_vars, NEW o \in Orders, NEW e, Emitted(o, e)
    PROVE  Emitted(o, e)'
<1>1. /\ answer \in [Orders -> [StepIndex -> {"none", "success", "failure"}]]
      /\ order \in [Orders -> {"absent", "CREATED", "CONFIRMED", "CANCELLED"}]
  BY DEF IInv, TypeOK
<1>2. \A i \in StepIndex : answer[o][i] # "none" => answer'[o][i] = answer[o][i]
  <2>1. ASSUME NEW p \in Orders, NEW j \in StepIndex, AnswerStep(p, j)
        PROVE  \A i \in StepIndex : answer[o][i] # "none" => answer'[o][i] = answer[o][i]
    <3>1. PICK outcome \in {"success", "failure"} : Answer(p, j, outcome)
      BY <2>1 DEF AnswerStep
    <3> QED BY <1>1, <3>1 DEF Answer
  <2>2. answer' = answer \/ \E p \in Orders, j \in StepIndex : AnswerStep(p, j)
    BY DEF Next, vars, Worker, Participants, Deliver, Publish, Save, Announce, Commit,
       Abandon, Revoke, PlaceOrder, ConfirmOrder, CancelOrder, Finalize, Duplicate
  <2> QED BY <2>1, <2>2
<1>3. /\ order[o] # "absent" => order'[o] # "absent"
      /\ order[o] \in {"CONFIRMED", "CANCELLED"} => order'[o] = order[o]
  <2>1. ASSUME NEW p \in Orders, PlaceOrder(p) \/ ConfirmOrder(p) \/ CancelOrder(p)
        PROVE  /\ order[o] # "absent" => order'[o] # "absent"
               /\ order[o] \in {"CONFIRMED", "CANCELLED"} => order'[o] = order[o]
    BY <1>1, <2>1 DEF PlaceOrder, ConfirmOrder, CancelOrder, Finalize
  <2>2. \/ order' = order
        \/ \E p \in Orders : PlaceOrder(p) \/ ConfirmOrder(p) \/ CancelOrder(p)
    BY DEF Next, vars, Worker, Participants, Deliver, Publish, Save, Announce, Commit,
       Abandon, Revoke, AnswerStep, Answer, Duplicate
  <2> QED BY <2>1, <2>2
<1>4. \A i \in StepIndex : answer[o][i] \in {"none", "success", "failure"}
  BY <1>1
<1> QED
  BY <1>2, <1>3, <1>4 DEF Emitted

\* A notice goes out when, or after, what it is about has happened.
LEMMA PublishedTrue ==
    ASSUME IInv, Next, NEW k \in Orders, NEW n \in EventTypes, Published(k, n)
    PROVE  Emitted(k, n)'
<1>1. /\ pending \in [Orders -> [EventTypes -> Nat]]
      /\ answer \in [Orders -> [StepIndex -> {"none", "success", "failure"}]]
      /\ order \in [Orders -> {"absent", "CREATED", "CONFIRMED", "CANCELLED"}]
  BY DEF IInv, TypeOK
<1>2. pending' # pending
  BY <1>1 DEF Published
<1>3. ASSUME NEW o \in Orders, NEW e \in EventTypes, Emit(o, e)
      PROVE  o = k /\ e = n
  <2>1. ~(o = k /\ e = n) => pending'[k][n] = pending[k][n]
    BY <1>1, <1>3 DEF Emit
  <2>2. pending[k][n] \in Nat
    BY <1>1
  <2> QED BY <2>1, <2>2 DEF Published
<1>4. ASSUME NEW w \in Workers, Commit(w)
      PROVE  FALSE
  <2>1. handler[w].order \in Orders /\ handler[w].event \in EventTypes
    BY <1>4, BusyPc DEF Commit, Handler, IInv
  <2>2. pending' = [pending EXCEPT ![handler[w].order][handler[w].event] = @ - 1]
    BY <1>2, <1>4 DEF Commit
  <2>3. pending'[k][n] = pending[k][n] \/ pending'[k][n] = pending[k][n] - 1
    BY <1>1, <2>1, <2>2
  <2>4. pending[k][n] \in Nat
    BY <1>1
  <2> QED BY <2>3, <2>4 DEF Published
<1>5. ASSUME NEW o \in Orders, PlaceOrder(o)
      PROVE  Emitted(k, n)'
  <2>1. "OrderCreated" \in EventTypes
    BY DEF EventTypes, OrderEvents
  <2>2. o = k /\ n = "OrderCreated" /\ order'[o] = "CREATED"
    BY <1>1, <1>3, <1>5, <2>1 DEF PlaceOrder
  <2> QED BY <2>2 DEF Emitted
<1>6. ASSUME NEW o \in Orders, NEW i \in StepIndex, AnswerStep(o, i)
      PROVE  Emitted(k, n)'
  <2>1. PICK outcome \in {"success", "failure"} : Answer(o, i, outcome)
    BY <1>6 DEF AnswerStep
  <2>2. Steps[i].success \in EventTypes /\ Steps[i].failure \in EventTypes
    BY StepFields
  <2>3. o = k /\ n = IF outcome = "success" THEN Steps[i].success ELSE Steps[i].failure
    BY <1>3, <2>1, <2>2 DEF Answer
  <2>4. answer'[o][i] = outcome
    BY <1>1, <2>1 DEF Answer
  <2> QED BY <2>3, <2>4 DEF Emitted
<1>7. ASSUME NEW o \in Orders, ConfirmOrder(o) \/ CancelOrder(o)
      PROVE  Emitted(k, n)'
  <2>1. "OrderConfirmed" \in EventTypes /\ "OrderCancelled" \in EventTypes
    BY DEF EventTypes, OrderEvents
  <2>2. CASE ConfirmOrder(o)
    <3>1. o = k /\ n = "OrderConfirmed" /\ order'[o] = "CONFIRMED"
      BY <1>1, <1>3, <2>1, <2>2 DEF ConfirmOrder, Finalize
    <3> QED BY <3>1 DEF Emitted
  <2>3. CASE CancelOrder(o)
    <3>1. o = k /\ n = "OrderCancelled" /\ order'[o] = "CANCELLED"
      BY <1>1, <1>3, <2>1, <2>3 DEF CancelOrder, Finalize
    <3> QED BY <3>1 DEF Emitted
  <2> QED BY <1>7, <2>2, <2>3
<1>8. ASSUME NEW o \in Orders, NEW e \in EventTypes, Duplicate(o, e)
      PROVE  Emitted(k, n)'
  <2>1. o = k /\ e = n /\ Emitted(k, n)
    BY <1>3, <1>8 DEF Duplicate
  <2> QED BY <2>1, EmittedStays
<1>9. \/ \E w \in Workers : Commit(w)
      \/ \E o \in Orders : PlaceOrder(o) \/ ConfirmOrder(o) \/ CancelOrder(o)
      \/ \E o \in Orders, i \in StepIndex : AnswerStep(o, i)
      \/ \E o \in Orders, e \in EventTypes : Duplicate(o, e)
  BY <1>2 DEF Next, Worker, Participants, Deliver, Publish, Save, Announce, Abandon, Revoke
<1> QED
  BY <1>4, <1>5, <1>6, <1>7, <1>8, <1>9

-----------------------------------------------------------------------------
(***************************************************************************)
(* The mailers.                                                            *)
(***************************************************************************)

LEMMA BusyMailer ==
    ASSUME NotificationTypeOK, NEW m \in Mailers, mailer[m] # Waiting \/ mailer[m].pc # "waiting"
    PROVE  mailer[m] \in Dispatching /\ mailer[m] # Waiting
BY DEF NotificationTypeOK, Waiting

\* Counting one more mail in a tally.
LEMMA CountedType ==
    ASSUME NotificationTypeOK, NEW m \in Mailers, mailer[m] \in Dispatching,
           NEW tally \in [Keys -> [Notices -> Nat]]
    PROVE  /\ Counted(m, tally) \in [Keys -> [Notices -> Nat]]
           /\ \A k \in Keys, n \in Notices :
                 Counted(m, tally)[k][n] = IF k = mailer[m].key /\ n = mailer[m].notice
                                           THEN tally[k][n] + 1 ELSE tally[k][n]
BY DEF Dispatching, Counted

LEMMA MailingType ==
    ASSUME NotificationTypeOK, MailersTrue, NEW m \in Mailers, Mailing(m) \/ Mishap(m)
    PROVE  NotificationTypeOK'
<1> USE DEF NotificationTypeOK
<1>0. mishaps < MaxMishaps => mishaps + 1 \in 0 .. MaxMishaps
  BY MishapsAssumption
<1>1. ASSUME NEW k \in Keys, NEW n \in Notices, TakeNotice(m, k, n)
      PROVE  NotificationTypeOK'
  <2>1. [pc |-> "send", key |-> k, notice |-> n, owner |-> TRUE] \in Dispatching
    BY DEF Dispatching
  <2> QED BY <1>1, <2>1 DEF TakeNotice
<1>2. ASSUME mailer[m] \in Dispatching
      PROVE  /\ [mailer[m] EXCEPT !.pc = "commit"] \in Dispatching
             /\ [mailer[m] EXCEPT !.owner = FALSE] \in Dispatching
  BY <1>2 DEF Dispatching
<1>3. CASE SendMail(m)
  <2>1. mailer[m] \in Dispatching
    BY <1>3, BusyMailer DEF SendMail
  <2>2. mails' \in [Keys -> [Notices -> Nat]]
    BY <1>3, <2>1, CountedType DEF SendMail
  <2> QED BY <1>2, <1>3, <2>1, <2>2 DEF SendMail
<1>4. CASE SendFails(m)
  <2>1. mailer[m] \in Dispatching
    BY <1>4, BusyMailer DEF SendFails
  <2>2. mails' \in [Keys -> [Notices -> Nat]] /\ unsent' \in [Keys -> [Notices -> Nat]]
    BY <1>4, <2>1, CountedType DEF SendFails
  <2> QED BY <1>0, <1>2, <1>4, <2>1, <2>2 DEF SendFails
<1>5. CASE CommitNotice(m)
  <2>1. mailer[m] \in Dispatching /\ mailer[m] # Waiting
    BY <1>5, BusyMailer DEF CommitNotice
  <2>2. mailer[m].key \in Keys /\ mailer[m].notice \in Notices
    BY <2>1 DEF Dispatching
  <2>3. mailer[m].owner => unread[mailer[m].key][mailer[m].notice] > 0
    BY <2>1 DEF MailersTrue, OwnsPartition
  <2>4. unread' \in [Keys -> [Notices -> Nat]]
    BY <1>5, <2>2, <2>3 DEF CommitNotice
  <2> QED BY <1>5, <2>4 DEF CommitNotice
<1>6. CASE MailerFails(m)
  BY <1>0, <1>6 DEF MailerFails
<1>7. CASE MailerRevoked(m)
  <2>1. mailer[m] \in Dispatching
    BY <1>7, BusyMailer DEF MailerRevoked, OwnsPartition
  <2> QED BY <1>0, <1>2, <1>7, <2>1 DEF MailerRevoked
<1> QED
  BY <1>1, <1>3, <1>4, <1>5, <1>6, <1>7 DEF Mailing, Mishap

\* A mailer's step is its own.
LEMMA OneMailer ==
    ASSUME NotificationTypeOK, NEW m \in Mailers, Mailing(m) \/ Mishap(m)
    PROVE  \A q \in Mailers \ {m} : mailer'[q] = mailer[q]
<1>1. (\E k \in Keys, n \in Notices : TakeNotice(m, k, n)) =>
         \A q \in Mailers \ {m} : mailer'[q] = mailer[q]
  BY DEF TakeNotice, NotificationTypeOK
<1>2. SendMail(m) \/ CommitNotice(m) => \A q \in Mailers \ {m} : mailer'[q] = mailer[q]
  BY DEF SendMail, CommitNotice, NotificationTypeOK
<1>3. SendFails(m) => \A q \in Mailers \ {m} : mailer'[q] = mailer[q]
  BY DEF SendFails, NotificationTypeOK
<1>4. MailerFails(m) \/ MailerRevoked(m) => \A q \in Mailers \ {m} : mailer'[q] = mailer[q]
  BY DEF MailerFails, MailerRevoked, NotificationTypeOK
<1> QED
  BY <1>1, <1>2, <1>3, <1>4 DEF Mailing, Mishap

\* What the mailers own, they owned before, unless it is what mailer m has just
\* taken.
LEMMA MailingOwners ==
    ASSUME NotificationTypeOK, MailersTrue, NEW m \in Mailers, Mailing(m) \/ Mishap(m)
    PROVE  MailersTrue'
<1> DEFINE Own(q) == mailer'[q] # Waiting /\ mailer'[q].owner
<1>0. mailer \in [Mailers -> Dispatching \cup {Waiting}] /\ unread \in [Keys -> [Notices -> Nat]]
  BY DEF NotificationTypeOK
<1>1. \A q \in Mailers \ {m} : mailer'[q] = mailer[q]
  BY OneMailer
<1>2. ASSUME NEW k \in Keys, NEW n \in Notices, TakeNotice(m, k, n)
      PROVE  MailersTrue'
  <2>1. /\ mailer'[m].owner /\ mailer'[m].key = k /\ mailer'[m].notice = n
        /\ unread' = unread /\ unread[k][n] > 0
        /\ \A q \in Mailers :
              ~(OwnsPartition(q) /\ mailer[q].key = k /\ SameTopic(mailer[q].notice, n))
    BY <1>0, <1>2 DEF TakeNotice
  <2>2. \A a, b : SameTopic(a, b) <=> SameTopic(b, a)
    BY DEF SameTopic
  <2>3. ASSUME NEW q \in Mailers, Own(q)
        PROVE  /\ unread'[mailer'[q].key][mailer'[q].notice] > 0
               /\ \A r \in Mailers \ {q} :
                     ~(Own(r) /\ mailer'[r].key = mailer'[q].key
                              /\ SameTopic(mailer'[r].notice, mailer'[q].notice))
    <3>1. CASE q = m
      BY <1>1, <2>1, <3>1 DEF OwnsPartition
    <3>2. CASE q # m
      <4>1. mailer'[q] = mailer[q] /\ OwnsPartition(q)
        BY <1>1, <2>3, <3>2 DEF OwnsPartition
      <4>2. ASSUME NEW r \in Mailers \ {q}, Own(r), mailer'[r].key = mailer'[q].key,
                   SameTopic(mailer'[r].notice, mailer'[q].notice)
            PROVE  FALSE
        <5>1. CASE r = m
          BY <2>1, <2>2, <4>1, <4>2, <5>1
        <5>2. CASE r # m
          BY <1>1, <4>1, <4>2, <5>2 DEF MailersTrue, OwnsPartition
        <5> QED BY <5>1, <5>2
      <4> QED BY <2>1, <4>1, <4>2 DEF MailersTrue
    <3> QED BY <3>1, <3>2
  <2> HIDE DEF Own
  <2> QED BY <2>3 DEF MailersTrue, OwnsPartition, Own
<1>3. ASSUME SendMail(m) \/ SendFails(m) \/ MailerFails(m) \/ MailerRevoked(m)
      PROVE  MailersTrue'
  <2>1. unread' = unread
    BY <1>3 DEF SendMail, SendFails, MailerFails, MailerRevoked
  <2>2. Own(m) => /\ OwnsPartition(m)
                  /\ mailer'[m].key = mailer[m].key /\ mailer'[m].notice = mailer[m].notice
    <3>1. CASE MailerFails(m)
      BY <1>0, <3>1 DEF MailerFails
    <3>2. CASE ~MailerFails(m)
      <4>1. mailer[m] \in Dispatching /\ mailer[m] # Waiting
        BY <1>3, <3>2, BusyMailer DEF SendMail, SendFails, MailerRevoked, OwnsPartition
      <4>2. \/ mailer'[m] = [mailer[m] EXCEPT !.pc = "commit"]
            \/ mailer'[m] = [mailer[m] EXCEPT !.owner = FALSE]
        BY <1>0, <1>3, <3>2 DEF SendMail, SendFails, MailerRevoked
      <4> QED BY <4>1, <4>2 DEF Dispatching, OwnsPartition
    <3> QED BY <3>1, <3>2
  <2>3. \A q \in Mailers : Own(q) => /\ OwnsPartition(q)
                                     /\ mailer'[q].key = mailer[q].key
                                     /\ mailer'[q].notice = mailer[q].notice
    BY <1>1, <2>2 DEF OwnsPartition
  <2> HIDE DEF Own
  <2> QED BY <2>1, <2>3 DEF MailersTrue, OwnsPartition, Own
<1>4. ASSUME CommitNotice(m)
      PROVE  MailersTrue'
  <2>1. mailer[m] \in Dispatching /\ mailer[m] # Waiting
    BY <1>4, BusyMailer DEF CommitNotice
  <2>2. mailer'[m] = Waiting
    BY <1>0, <1>4 DEF CommitNotice
  <2>3. \A q \in Mailers : Own(q) => q # m /\ mailer'[q] = mailer[q] /\ OwnsPartition(q)
    BY <1>1, <2>2 DEF OwnsPartition
  <2>4. ASSUME NEW q \in Mailers, OwnsPartition(q), q # m
        PROVE  unread'[mailer[q].key][mailer[q].notice] > 0
    <3>1. unread[mailer[q].key][mailer[q].notice] > 0
      BY <2>4 DEF MailersTrue
    <3>2. CASE ~mailer[m].owner
      BY <1>4, <3>1, <3>2 DEF CommitNotice
    <3>3. CASE mailer[m].owner
      <4>1. ~(mailer[q].key = mailer[m].key /\ mailer[q].notice = mailer[m].notice)
        BY <2>1, <2>4, <3>3 DEF MailersTrue, OwnsPartition, SameTopic
      <4>2. unread' = [unread EXCEPT ![mailer[m].key][mailer[m].notice] = @ - 1]
        BY <1>4, <3>3 DEF CommitNotice
      <4>3. mailer[q] \in Dispatching
        BY <2>4, BusyMailer DEF OwnsPartition
      <4>4. /\ mailer[q].key \in Keys /\ mailer[q].notice \in Notices
            /\ mailer[m].key \in Keys /\ mailer[m].notice \in Notices
        BY <2>1, <4>3 DEF Dispatching
      <4> QED BY <1>0, <3>1, <4>1, <4>2, <4>4
    <3> QED BY <3>2, <3>3
  <2> HIDE DEF Own
  <2> QED BY <2>3, <2>4 DEF MailersTrue, OwnsPartition, Own
<1> QED
  BY <1>2, <1>3, <1>4 DEF Mailing, Mishap

\* Mails are sent from copies that are there, about what was true when they came.
LEMMA MailingTrue ==
    ASSUME NotificationTypeOK, NoticesTrue, NEW m \in Mailers, Mailing(m) \/ Mishap(m),
           UNCHANGED vars
    PROVE  NoticesTrue'
<1>1. \A k, n : Emitted(k, n)' <=> Emitted(k, n)
  BY DEF Emitted, vars
<1>2. /\ mailer \in [Mailers -> Dispatching \cup {Waiting}]
      /\ unread \in [Keys -> [Notices -> Nat]] /\ mails \in [Keys -> [Notices -> Nat]]
  BY DEF NotificationTypeOK
<1>3. ASSUME NEW q \in Mailers, mailer'[q] # Waiting
      PROVE  Emitted(mailer'[q].key, mailer'[q].notice)
  <2>1. CASE mailer'[q] = mailer[q]
    BY <1>3, <2>1 DEF NoticesTrue
  <2>2. CASE mailer'[q] # mailer[q]
    <3>1. q = m
      BY <2>2, OneMailer
    <3>2. CASE \E k \in Keys, n \in Notices : TakeNotice(m, k, n)
      <4>1. PICK k \in Keys, n \in Notices : TakeNotice(m, k, n)
        BY <3>2
      <4>2. mailer'[m].key = k /\ mailer'[m].notice = n /\ unread[k][n] > 0
        BY <1>2, <4>1 DEF TakeNotice
      <4>3. unread[k][n] + mails[k][n] > 0
        BY <1>2, <4>2
      <4> QED BY <3>1, <4>2, <4>3 DEF NoticesTrue
    <3>3. CASE SendMail(m) \/ SendFails(m) \/ MailerRevoked(m)
      <4>1. mailer[m] \in Dispatching /\ mailer[m] # Waiting
        BY <3>3, BusyMailer DEF SendMail, SendFails, MailerRevoked, OwnsPartition
      <4>2. \/ mailer'[m] = [mailer[m] EXCEPT !.pc = "commit"]
            \/ mailer'[m] = [mailer[m] EXCEPT !.owner = FALSE]
        BY <1>2, <3>3 DEF SendMail, SendFails, MailerRevoked
      <4>3. mailer'[m].key = mailer[m].key /\ mailer'[m].notice = mailer[m].notice
        BY <4>1, <4>2 DEF Dispatching
      <4> QED BY <3>1, <4>1, <4>3 DEF NoticesTrue
    <3>4. CASE CommitNotice(m) \/ MailerFails(m)
      BY <1>2, <1>3, <3>1, <3>4 DEF CommitNotice, MailerFails
    <3> QED BY <3>2, <3>3, <3>4 DEF Mailing, Mishap
  <2> QED BY <2>1, <2>2
<1>4. ASSUME NEW k \in Keys, NEW n \in Notices, unread'[k][n] + mails'[k][n] > 0
      PROVE  Emitted(k, n)
  <2>1. CASE unread' = unread /\ mails' = mails
    BY <1>4, <2>1 DEF NoticesTrue
  <2>2. CASE SendMail(m) \/ SendFails(m)
    <3>1. mailer[m] \in Dispatching /\ mailer[m] # Waiting /\ unread' = unread
      BY <2>2, BusyMailer DEF SendMail, SendFails
    <3>2. CASE k = mailer[m].key /\ n = mailer[m].notice
      BY <3>1, <3>2 DEF NoticesTrue
    <3>3. CASE ~(k = mailer[m].key /\ n = mailer[m].notice)
      <4>1. mails'[k][n] = mails[k][n]
        BY <1>2, <2>2, <3>1, <3>3, CountedType DEF SendMail, SendFails
      <4> QED BY <1>4, <3>1, <4>1 DEF NoticesTrue
    <3> QED BY <3>2, <3>3
  <2>3. CASE CommitNotice(m)
    <3>1. mailer[m] \in Dispatching
      BY <2>3, BusyMailer DEF CommitNotice
    <3>2. mailer[m].key \in Keys /\ mailer[m].notice \in Notices
      BY <3>1 DEF Dispatching
    <3>3. unread'[k][n] \in {unread[k][n], unread[k][n] - 1} /\ mails' = mails
      BY <1>2, <2>3, <3>2 DEF CommitNotice
    <3>4. unread[k][n] \in Nat /\ mails[k][n] \in Nat
      BY <1>2
    <3>5. unread[k][n] + mails[k][n] > 0
      BY <1>4, <3>3, <3>4
    <3> QED BY <3>5 DEF NoticesTrue
  <2> QED
    BY <2>1, <2>2, <2>3 DEF Mailing, Mishap, TakeNotice, MailerFails, MailerRevoked
<1> QED
  BY <1>1, <1>3, <1>4 DEF NoticesTrue

\* A step of the saga adds at most one copy, of a notice that is true.
LEMMA SagaStepNotices ==
    ASSUME CheckoutIInv, SagaStep
    PROVE  NotificationTypeOK' /\ MailersTrue' /\ NoticesTrue'
<1>1. [Next]_vars /\ IInv /\ Keys = Orders /\ Notices \subseteq EventTypes
  BY CheckoutAssumption, NoticesAreEvents DEF SagaStep, CheckoutIInv
<1>2. NotificationTypeOK /\ MailersTrue /\ NoticesTrue
  BY DEF CheckoutIInv
<1>3. /\ mailer \in [Mailers -> Dispatching \cup {Waiting}]
      /\ unread \in [Keys -> [Notices -> Nat]]
  BY <1>2 DEF NotificationTypeOK
<1>4. \A k \in Keys : \A n : Emitted(k, n) => Emitted(k, n)'
  BY <1>1, EmittedStays
<1>5. \A m \in Mailers : mailer[m] # Waiting => mailer[m].key \in Keys
  BY <1>3 DEF Dispatching
<1>6. CASE UNCHANGED NotificationVars
  <2>1. NotificationTypeOK' /\ MailersTrue'
    BY <1>2, <1>6 DEF NotificationVars, NotificationTypeOK, MailersTrue, OwnsPartition
  <2> QED BY <1>2, <1>4, <1>5, <1>6, <2>1 DEF NotificationVars, NoticesTrue
<1>7. ASSUME NEW k \in Keys, NEW n \in Notices, Published(k, n), Notify(k, n)
      PROVE  NotificationTypeOK' /\ MailersTrue' /\ NoticesTrue'
  <2>1. Next
    BY DEF SagaStep
  <2>2. Emitted(k, n)'
    BY <1>1, <1>7, <2>1, PublishedTrue
  <2>3. /\ unread' \in [Keys -> [Notices -> Nat]]
        /\ \A j \in Keys, q \in Notices :
              unread'[j][q] = IF j = k /\ q = n THEN unread[j][q] + 1 ELSE unread[j][q]
    BY <1>3, <1>7 DEF Notify
  <2>4. mailer' = mailer /\ mails' = mails /\ unsent' = unsent /\ mishaps' = mishaps
    BY <1>7 DEF Notify
  <2>5. NotificationTypeOK'
    BY <1>2, <2>3, <2>4 DEF NotificationTypeOK
  <2>6. MailersTrue'
    <3>1. ASSUME NEW m \in Mailers, OwnsPartition(m)
          PROVE  unread'[mailer[m].key][mailer[m].notice] > 0
      <4>1. mailer[m] \in Dispatching
        BY <1>2, <3>1, BusyMailer DEF OwnsPartition
      <4>2. mailer[m].key \in Keys /\ mailer[m].notice \in Notices
        BY <4>1 DEF Dispatching
      <4>3. /\ unread[mailer[m].key][mailer[m].notice] > 0
            /\ unread[mailer[m].key][mailer[m].notice] \in Nat
        BY <1>2, <1>3, <3>1, <4>2 DEF MailersTrue
      <4> QED BY <2>3, <4>2, <4>3
    <3> QED BY <1>2, <2>4, <3>1 DEF MailersTrue, OwnsPartition
  <2>7. NoticesTrue'
    <3>1. ASSUME NEW j \in Keys, NEW q \in Notices, unread'[j][q] + mails'[j][q] > 0
          PROVE  Emitted(j, q)'
      <4>1. CASE j = k /\ q = n
        BY <2>2, <4>1
      <4>2. CASE ~(j = k /\ q = n)
        BY <1>2, <1>4, <2>3, <2>4, <3>1, <4>2 DEF NoticesTrue
      <4> QED BY <4>1, <4>2
    <3>2. ASSUME NEW m \in Mailers, mailer[m] # Waiting
          PROVE  Emitted(mailer[m].key, mailer[m].notice)'
      <4>1. mailer[m].key \in Keys /\ Emitted(mailer[m].key, mailer[m].notice)
        BY <1>2, <1>5, <3>2 DEF NoticesTrue
      <4> DEFINE j == mailer[m].key
                 q == mailer[m].notice
      <4>2. j' = j /\ q' = q
        BY <2>4
      <4> HIDE DEF j, q
      <4>3. Emitted(j, q)'
        BY <1>4, <4>1, <4>2 DEF j, q
      <4> QED BY <4>3 DEF j, q
    <3> QED BY <2>4, <3>1, <3>2 DEF NoticesTrue
  <2> QED BY <2>5, <2>6, <2>7
<1> QED
  BY <1>6, <1>7 DEF SagaStep
-----------------------------------------------------------------------------
(***************************************************************************)
(* The theorems.                                                           *)
(***************************************************************************)

LEMMA CheckoutInitInvariant == CheckoutInit => CheckoutIInv
<1> SUFFICES ASSUME CheckoutInit PROVE CheckoutIInv
  OBVIOUS
<1>1. IInv
  BY InitInvariant DEF CheckoutInit
<1>2. NotificationTypeOK /\ MailersTrue /\ NoticesTrue
  BY MishapsAssumption DEF CheckoutInit, NotificationInit, NotificationTypeOK, MailersTrue,
     OwnsPartition, NoticesTrue
<1>3. AnswersAsked
  BY DEF CheckoutInit, Init, AnswersAsked
<1> QED
  BY <1>1, <1>2, <1>3 DEF CheckoutIInv

LEMMA CheckoutStep == CheckoutIInv /\ [CheckoutNext]_CheckoutVars => CheckoutIInv'
<1> SUFFICES ASSUME CheckoutIInv, [CheckoutNext]_CheckoutVars
             PROVE  CheckoutIInv'
  OBVIOUS
<1>1. IInv /\ AnswersAsked /\ [Next]_vars
  BY SagaUnderneath DEF CheckoutIInv
<1>2. IInv'
  BY <1>1, NextType, NextRows, NextHandlers, NextEvents, NextCommands, NextOwners DEF IInv
<1>3. AnswersAsked'
  BY <1>1, AnswersStayAsked
<1>4. NotificationTypeOK' /\ MailersTrue' /\ NoticesTrue'
  <2>1. CASE SagaStep
    BY <2>1, SagaStepNotices
  <2>2. ASSUME NEW m \in Mailers, MailStep(m)
        PROVE  NotificationTypeOK' /\ MailersTrue' /\ NoticesTrue'
    BY <2>2, MailingType, MailingOwners, MailingTrue DEF MailStep, CheckoutIInv
  <2>3. CASE UNCHANGED CheckoutVars
    <3>1. \A k, n : Emitted(k, n)' <=> Emitted(k, n)
      BY <2>3 DEF Emitted, vars, CheckoutVars
    <3> QED
      BY <2>3, <3>1 DEF CheckoutVars, NotificationVars, CheckoutIInv, NotificationTypeOK,
         MailersTrue, OwnsPartition, NoticesTrue
  <2> QED BY <2>1, <2>2, <2>3 DEF CheckoutNext
<1> QED
  BY <1>2, <1>3, <1>4 DEF CheckoutIInv

\* The partition owner's copy is uncommitted and its own, and copies and mails are
\* about what did happen, whatever the relays, the mailers and rebalances do.
THEOREM CheckoutInvariant == CheckoutSpec => []CheckoutIInv
BY CheckoutInitInvariant, CheckoutStep, PTL DEF CheckoutSpec

\* The mailers disturb nothing: the checkout behaves as the saga does, so what
\* SagaStateMachine_proofs shows of Spec holds of it.
THEOREM CheckoutIsSaga == CheckoutSpec => Spec
<1>1. CheckoutInit => Init
  BY DEF CheckoutInit
<1> QED
  BY <1>1, SagaUnderneath, PTL DEF CheckoutSpec, Spec

\* No commit of a mailer takes an offset back, also after a rebalance.
THEOREM NotificationTypeCorrect == CheckoutSpec => []NotificationTypeOK
<1>1. CheckoutIInv => NotificationTypeOK
  BY DEF CheckoutIInv
<1> QED
  BY CheckoutInvariant, <1>1, PTL

\* "Your order is confirmed" is said of paid and confirmed orders, "You have not
\* been charged" of orders that were not and will not be.
THEOREM MailsAreTrue == CheckoutSpec => []MailsTrue
<1>1. ASSUME CheckoutIInv, NEW k \in Keys
      PROVE  /\ mails[k]["OrderConfirmed"] > 0 =>
                   order[k] = "CONFIRMED" /\ \A i \in StepIndex : answer[k][i] = "success"
             /\ mails[k]["OrderCancelled"] + mails[k]["PaymentDeclined"] > 0 =>
                   order[k] # "CONFIRMED" /\ ~Charged(k) /\ \E i \in StepIndex : answer[k][i] = "failure"
  <2>1. k \in Orders /\ Len(Steps) \in StepIndex /\ Len(Steps) \in Nat
    BY CheckoutAssumption, NoticesAreEvents, StepsAssumption
  <2>2. ASSUME NEW n \in Notices, mails[k][n] > 0
        PROVE  Emitted(k, n)
    <3>1. unread[k][n] \in Nat /\ mails[k][n] \in Nat
      BY <1>1 DEF CheckoutIInv, NotificationTypeOK
    <3>2. unread[k][n] + mails[k][n] > 0
      BY <2>2, <3>1
    <3> QED BY <1>1, <3>2 DEF CheckoutIInv, NoticesTrue
  <2>3. order[k] = "CONFIRMED" => \A i \in StepIndex : answer[k][i] = "success"
    BY <1>1, <2>1 DEF CheckoutIInv, AnswersAsked, IInv, VerdictJustified
  <2>4. order[k] = "CANCELLED" => \E i \in StepIndex : answer[k][i] = "failure"
    BY <1>1, <2>1 DEF CheckoutIInv, AnswersAsked, IInv, VerdictJustified
  <2>5. ASSUME NEW i \in StepIndex, answer[k][i] = "failure"
        PROVE  order[k] # "CONFIRMED" /\ ~Charged(k)
    <3>1. order[k] # "CONFIRMED"
      BY <2>3, <2>5
    <3>2. CASE i = Len(Steps)
      BY <2>5, <3>1, <3>2 DEF Charged
    <3>3. CASE i # Len(Steps)
      <4>1. i \in 1 .. Len(Steps) - 1
        BY <2>1, <3>3 DEF StepIndex
      <4>2. Charged(k) => sent[k][Steps[Len(Steps)].command] > 0
        BY <1>1, <2>1 DEF Charged, CheckoutIInv, AnswersAsked
      <4>3. Charged(k) => answer[k][i] = "success"
        BY <1>1, <2>1, <4>1, <4>2 DEF CheckoutIInv, IInv, CommandsFollowAnswers
      <4> QED BY <2>5, <3>1, <4>3
    <3> QED BY <3>2, <3>3
  <2>6. ASSUME NEW n, n \in OrderEvents
        PROVE  \A i \in StepIndex : n # Steps[i].success /\ n # Steps[i].failure
    BY <2>6, StepsAssumption DEF OrderEvents, StepEvents
  <2>7. mails[k]["OrderConfirmed"] > 0 => order[k] = "CONFIRMED"
    BY <2>2, <2>6 DEF Notices, OrderEvents, Emitted
  <2>8. mails[k]["OrderCancelled"] > 0 => \E i \in StepIndex : answer[k][i] = "failure"
    BY <2>2, <2>4, <2>6 DEF Notices, OrderEvents, Emitted
  <2>9. mails[k]["PaymentDeclined"] > 0 => \E i \in StepIndex : answer[k][i] = "failure"
    <3>1. ASSUME mails[k]["PaymentDeclined"] > 0
          PROVE  \E i \in StepIndex : answer[k][i] = "failure"
      <4>1. Emitted(k, "PaymentDeclined")
        BY <2>2, <3>1 DEF Notices
      <4>2. \A i \in StepIndex : Steps[i].success # "PaymentDeclined"
        BY <2>1, CheckoutAssumption, StepsAssumption
      <4> QED BY <4>1, <4>2 DEF Emitted
    <3> QED BY <3>1
  <2>10. mails[k]["OrderCancelled"] \in Nat /\ mails[k]["PaymentDeclined"] \in Nat
    BY <1>1 DEF CheckoutIInv, NotificationTypeOK, Notices
  <2> QED
    BY <2>3, <2>5, <2>7, <2>8, <2>9, <2>10
<1>2. CheckoutIInv => MailsTrue
  BY <1>1 DEF MailsTrue
<1> QED
  BY CheckoutInvariant, <1>2, PTL
-----------------------------------------------------------------------------
(***************************************************************************)
(* How often a mail is sent.  A notice is published once, and once more    *)
(* per duplicate.  A copy is mailed and then committed; between the two it *)
(* is in hand, with one mailer, its owner.  Every other mail of the copy,  *)
(* also one that a mailer which lost the partition (Astray) has still to   *)
(* send, is paid for by a mishap.                                          *)
(***************************************************************************)

About(h, k, n) == h # Waiting /\ h.key = k /\ h.notice = n
IsAstray(h, k, n) == About(h, k, n) /\ h.pc = "send" /\ ~h.owner
IsInHand(h, k, n) == About(h, k, n) /\ h.pc = "commit" /\ h.owner

Astray(k, n) == {m \in Mailers : IsAstray(mailer[m], k, n)}
InHand(k, n) == IF \E m \in Mailers : IsInHand(mailer[m], k, n) THEN 1 ELSE 0
Said(k, n) == IF Emitted(k, n) THEN 1 ELSE 0

MailsPaid ==
    \A k \in Keys, n \in Notices :
        /\ IsFiniteSet(Astray(k, n))
        /\ mails[k][n] + unread[k][n] + Cardinality(Astray(k, n))
              <= duplicates + mishaps + InHand(k, n) + Said(k, n)

\* A notice that is published for the first time is news.
LEMMA PublishedNew ==
    ASSUME IInv, Next, NEW k \in Orders, NEW n \in Notices, Published(k, n)
    PROVE  duplicates' = duplicates + 1 \/ (duplicates' = duplicates /\ ~Emitted(k, n))
<1>1. /\ pending \in [Orders -> [EventTypes -> Nat]] /\ n \in EventTypes
      /\ n # "OrderCreated"
  BY NoticesAreEvents DEF IInv, TypeOK, Notices
<1>2. pending' # pending
  BY <1>1 DEF Published
<1>3. ASSUME NEW o \in Orders, NEW e \in EventTypes, Emit(o, e)
      PROVE  o = k /\ e = n
  <2>1. ~(o = k /\ e = n) => pending'[k][n] = pending[k][n]
    BY <1>1, <1>3 DEF Emit
  <2>2. pending[k][n] \in Nat
    BY <1>1
  <2> QED BY <2>1, <2>2 DEF Published
<1>4. ASSUME NEW w \in Workers, Commit(w)
      PROVE  FALSE
  <2>1. handler[w].order \in Orders /\ handler[w].event \in EventTypes
    BY <1>4, BusyPc DEF Commit, Handler, IInv
  <2>2. pending' = [pending EXCEPT ![handler[w].order][handler[w].event] = @ - 1]
    BY <1>2, <1>4 DEF Commit
  <2>3. pending'[k][n] = pending[k][n] \/ pending'[k][n] = pending[k][n] - 1
    BY <1>1, <2>1, <2>2
  <2>4. pending[k][n] \in Nat
    BY <1>1
  <2> QED BY <2>3, <2>4 DEF Published
<1>5. /\ "OrderCreated" \in EventTypes /\ "OrderConfirmed" \in EventTypes
      /\ "OrderCancelled" \in EventTypes
      /\ \A i \in StepIndex : Steps[i].success \in EventTypes /\ Steps[i].failure \in EventTypes
  BY StepFields DEF EventTypes, OrderEvents
<1>6. \A i \in StepIndex : /\ Steps[i].success \notin OrderEvents
                           /\ Steps[i].failure \notin OrderEvents
  BY StepsAssumption DEF OrderEvents, StepEvents
<1>7. ASSUME NEW o \in Orders, PlaceOrder(o)
      PROVE  FALSE
  BY <1>1, <1>3, <1>5, <1>7 DEF PlaceOrder
<1>8. ASSUME NEW o \in Orders, NEW i \in StepIndex, AnswerStep(o, i)
      PROVE  duplicates' = duplicates /\ ~Emitted(k, n)
  <2>1. PICK outcome \in {"success", "failure"} : Answer(o, i, outcome)
    BY <1>8 DEF AnswerStep
  <2>2. o = k /\ n = IF outcome = "success" THEN Steps[i].success ELSE Steps[i].failure
    BY <1>3, <1>5, <2>1 DEF Answer
  <2>3. answer[k][i] = "none" /\ duplicates' = duplicates
    BY <2>1, <2>2 DEF Answer
  <2>4. \A j \in StepIndex : n = Steps[j].success \/ n = Steps[j].failure => j = i
    BY <2>2, StepsAssumption
  <2>5. n \notin OrderEvents
    BY <1>6, <2>2
  <2> QED BY <2>3, <2>4, <2>5 DEF Emitted, OrderEvents
<1>9. ASSUME NEW o \in Orders, ConfirmOrder(o) \/ CancelOrder(o)
      PROVE  duplicates' = duplicates /\ ~Emitted(k, n)
  <2>1. /\ o = k /\ n \in OrderEvents /\ order[k] = "CREATED" /\ duplicates' = duplicates
    <3>1. CASE ConfirmOrder(o)
      <4>1. o = k /\ n = "OrderConfirmed"
        BY <1>3, <1>5, <3>1 DEF ConfirmOrder, Finalize
      <4> QED BY <3>1, <4>1 DEF ConfirmOrder, Finalize, OrderEvents
    <3>2. CASE CancelOrder(o)
      <4>1. o = k /\ n = "OrderCancelled"
        BY <1>3, <1>5, <3>2 DEF CancelOrder, Finalize
      <4> QED BY <3>2, <4>1 DEF CancelOrder, Finalize, OrderEvents
    <3> QED BY <1>9, <3>1, <3>2
  <2> QED BY <1>1, <1>6, <2>1 DEF Emitted
<1>10. ASSUME NEW o \in Orders, NEW e \in EventTypes, Duplicate(o, e)
       PROVE  duplicates' = duplicates + 1
  BY <1>10 DEF Duplicate
<1>11. \/ \E w \in Workers : Commit(w)
       \/ \E o \in Orders : PlaceOrder(o) \/ ConfirmOrder(o) \/ CancelOrder(o)
       \/ \E o \in Orders, i \in StepIndex : AnswerStep(o, i)
       \/ \E o \in Orders, e \in EventTypes : Duplicate(o, e)
  BY <1>2 DEF Next, Worker, Participants, Deliver, Publish, Save, Announce, Abandon, Revoke
<1> QED
  BY <1>4, <1>7, <1>8, <1>9, <1>10, <1>11

LEMMA SagaStepPaid ==
    ASSUME CheckoutIInv, MailsPaid, SagaStep
    PROVE  MailsPaid'
<1>1. IInv /\ Next /\ Keys = Orders
  BY CheckoutAssumption DEF CheckoutIInv, SagaStep
<1>2. /\ mailer' = mailer /\ mails' = mails /\ mishaps' = mishaps
      /\ unread \in [Keys -> [Notices -> Nat]]
      /\ mails \in [Keys -> [Notices -> Nat]] /\ mishaps \in Nat
      /\ duplicates \in Nat
  BY <1>1 DEF SagaStep, Notify, NotificationVars, CheckoutIInv, NotificationTypeOK, IInv, TypeOK
<1>3. duplicates' = duplicates \/ duplicates' = duplicates + 1
  BY <1>1 DEF Next, Worker, Participants, Deliver, Publish, Save, Announce, Commit, Abandon, Revoke,
     PlaceOrder, AnswerStep, Answer, ConfirmOrder, CancelOrder, Finalize, Duplicate
<1> SUFFICES ASSUME NEW k \in Keys, NEW n \in Notices
             PROVE  /\ IsFiniteSet(Astray(k, n)')
                    /\ mails'[k][n] + unread'[k][n] + Cardinality(Astray(k, n)')
                          <= duplicates' + mishaps' + InHand(k, n)' + Said(k, n)'
  BY DEF MailsPaid
<1>4. Astray(k, n)' = Astray(k, n) /\ InHand(k, n)' = InHand(k, n)
  BY <1>2 DEF Astray, InHand
<1>5. /\ Said(k, n) \in {0, 1} /\ Said(k, n)' \in {0, 1} /\ Said(k, n)' >= Said(k, n)
      /\ InHand(k, n) \in {0, 1}
  BY <1>1, EmittedStays DEF Said, InHand
<1>6. /\ IsFiniteSet(Astray(k, n)) /\ Cardinality(Astray(k, n)) \in Nat
      /\ mails[k][n] + unread[k][n] + Cardinality(Astray(k, n))
            <= duplicates + mishaps + InHand(k, n) + Said(k, n)
      /\ mails[k][n] \in Nat /\ unread[k][n] \in Nat
  BY <1>2, FS_CardinalityType DEF MailsPaid
<1>7. CASE unread'[k][n] = unread[k][n]
  BY <1>2, <1>3, <1>4, <1>5, <1>6, <1>7
<1>8. CASE unread'[k][n] # unread[k][n]
  <2>1. Published(k, n) /\ unread'[k][n] = unread[k][n] + 1
    <3>1. PICK j \in Keys, q \in Notices : Published(j, q) /\ Notify(j, q)
      BY <1>8 DEF SagaStep, NotificationVars
    <3>2. j = k /\ q = n
      BY <1>2, <1>8, <3>1 DEF Notify
    <3> QED BY <1>2, <3>1, <3>2 DEF Notify
  <2>2. duplicates' = duplicates + 1 \/ (duplicates' = duplicates /\ ~Emitted(k, n))
    BY <1>1, <2>1, PublishedNew
  <2>3. Emitted(k, n)'
    BY <1>1, <2>1, PublishedTrue, NoticesAreEvents
  <2>4. /\ Said(k, n)' = 1
        /\ ~Emitted(k, n) => Said(k, n) = 0
    BY <2>3 DEF Said
  <2> QED BY <1>2, <1>3, <1>4, <1>5, <1>6, <2>1, <2>2, <2>4
<1> QED
  BY <1>7, <1>8

\* A step of mailer m changes what is astray or in hand at m only.
LEMMA AstrayCounts ==
    ASSUME NotificationTypeOK, NEW m \in Mailers, Mailing(m) \/ Mishap(m),
           NEW k, NEW n, IsFiniteSet(Astray(k, n))
    PROVE  /\ IsFiniteSet(Astray(k, n)') /\ Cardinality(Astray(k, n)) \in Nat
           /\ Cardinality(Astray(k, n)') \in Nat
           /\ Cardinality(Astray(k, n)') <= Cardinality(Astray(k, n)) + 1
           /\ ~IsAstray(mailer'[m], k, n) => Cardinality(Astray(k, n)') <= Cardinality(Astray(k, n))
           /\ IsAstray(mailer[m], k, n) /\ ~IsAstray(mailer'[m], k, n) =>
                 Cardinality(Astray(k, n)') = Cardinality(Astray(k, n)) - 1
<1> DEFINE was == IsAstray(mailer[m], k, n)
           is == IsAstray(mailer'[m], k, n)
           A == Astray(k, n)
<1>1. \A q \in Mailers \ {m} : mailer'[q] = mailer[q]
  BY OneMailer
<1>2. Astray(k, n)' = {q \in Mailers : IsAstray(mailer'[q], k, n)}
  BY DEF Astray
<1>3. /\ is => Astray(k, n)' = A \cup {m}
      /\ ~is => Astray(k, n)' = A \ {m}
      /\ was <=> m \in A
  <2>1. \A q \in Mailers \ {m} : IsAstray(mailer'[q], k, n) <=> IsAstray(mailer[q], k, n)
    BY <1>1
  <2> QED BY <1>2, <2>1 DEF Astray
<1> HIDE DEF was, is, A
<1>4. IsFiniteSet(A) /\ Cardinality(A) \in Nat
  BY FS_CardinalityType DEF A
<1>5. /\ IsFiniteSet(A \cup {m})
      /\ Cardinality(A \cup {m}) = IF m \in A THEN Cardinality(A) ELSE Cardinality(A) + 1
  BY <1>4, FS_AddElement
<1>6. /\ IsFiniteSet(A \ {m})
      /\ Cardinality(A \ {m}) = IF m \in A THEN Cardinality(A) - 1 ELSE Cardinality(A)
  BY <1>4, FS_RemoveElement
<1>7. Cardinality(A \cup {m}) \in Nat /\ Cardinality(A \ {m}) \in Nat
  BY <1>5, <1>6, FS_CardinalityType
<1>8. /\ IsFiniteSet(Astray(k, n)') /\ Cardinality(A) \in Nat
      /\ Cardinality(Astray(k, n)') \in Nat
      /\ Cardinality(Astray(k, n)') <= Cardinality(A) + 1
      /\ ~is => Cardinality(Astray(k, n)') <= Cardinality(A)
      /\ was /\ ~is => Cardinality(Astray(k, n)') = Cardinality(A) - 1
  <2>1. CASE is
    <3>1. Cardinality(A \cup {m}) <= Cardinality(A) + 1
      BY <1>4, <1>5
    <3>2. Astray(k, n)' = A \cup {m}
      BY <1>3, <2>1
    <3> QED BY <1>4, <1>5, <1>7, <2>1, <3>1, <3>2
  <2>2. CASE ~is
    BY <1>3, <1>4, <1>6, <1>7, <2>2
  <2> QED BY <2>1, <2>2
<1> QED
  BY <1>8 DEF was, is, A

LEMMA HandCounts ==
    ASSUME NotificationTypeOK, NEW m \in Mailers, Mailing(m) \/ Mishap(m), NEW k, NEW n
    PROVE  /\ InHand(k, n) \in {0, 1} /\ InHand(k, n)' \in {0, 1}
           /\ IsInHand(mailer'[m], k, n) => InHand(k, n)' = 1
           /\ (IsInHand(mailer[m], k, n) => IsInHand(mailer'[m], k, n)) =>
                 InHand(k, n)' >= InHand(k, n)
<1> DEFINE H == \E q \in Mailers : IsInHand(mailer[q], k, n)
           G == \E q \in Mailers : IsInHand(mailer'[q], k, n)
<1>1. \A q \in Mailers \ {m} : mailer'[q] = mailer[q]
  BY OneMailer
<1>2. /\ IsInHand(mailer'[m], k, n) => G
      /\ H /\ (IsInHand(mailer[m], k, n) => IsInHand(mailer'[m], k, n)) => G
  BY <1>1
<1>3. InHand(k, n) = (IF H THEN 1 ELSE 0) /\ InHand(k, n)' = (IF G THEN 1 ELSE 0)
  BY DEF InHand
<1> HIDE DEF H, G
<1> QED
  BY <1>2, <1>3

\* A copy is in hand with one mailer at most.
LEMMA OneInHand ==
    ASSUME MailersTrue, NEW m \in Mailers, mailer[m].pc = "send", OwnsPartition(m),
           NEW k, NEW n, mailer[m].key = k, mailer[m].notice = n
    PROVE  InHand(k, n) = 0
<1>1. SUFFICES ASSUME NEW q \in Mailers, IsInHand(mailer[q], k, n)
               PROVE  FALSE
  BY DEF InHand
<1>2. mailer[q].pc = "commit" /\ OwnsPartition(q)
  BY <1>1 DEF IsInHand, About, OwnsPartition
<1>3. q # m
  BY <1>2
<1>4. mailer[q].key = mailer[m].key /\ SameTopic(mailer[q].notice, mailer[m].notice)
  BY <1>1 DEF IsInHand, About, SameTopic
<1> QED
  BY <1>2, <1>3, <1>4 DEF MailersTrue

LEMMA MailStepPaid ==
    ASSUME CheckoutIInv, MailsPaid, NEW m \in Mailers, MailStep(m)
    PROVE  MailsPaid'
<1>0. /\ NotificationTypeOK /\ MailersTrue /\ duplicates \in Nat /\ duplicates' = duplicates
      /\ Mailing(m) \/ Mishap(m)
  BY DEF CheckoutIInv, IInv, TypeOK, MailStep, vars
<1>1. /\ mailer \in [Mailers -> Dispatching \cup {Waiting}] /\ mishaps \in Nat
      /\ unread \in [Keys -> [Notices -> Nat]] /\ mails \in [Keys -> [Notices -> Nat]]
  BY <1>0 DEF NotificationTypeOK
<1> SUFFICES ASSUME NEW k \in Keys, NEW n \in Notices
             PROVE  /\ IsFiniteSet(Astray(k, n)')
                    /\ mails'[k][n] + unread'[k][n] + Cardinality(Astray(k, n)')
                          <= duplicates' + mishaps' + InHand(k, n)' + Said(k, n)'
  BY DEF MailsPaid
<1> DEFINE a == Cardinality(Astray(k, n))
           b == Cardinality(Astray(k, n)')
           c == InHand(k, n)
           d == InHand(k, n)'
           mine == mailer[m] # Waiting /\ mailer[m].key = k /\ mailer[m].notice = n
<1>2. Said(k, n)' = Said(k, n) /\ Said(k, n) \in Nat
  BY DEF Said, Emitted, MailStep, vars
<1>3. /\ IsFiniteSet(Astray(k, n))
      /\ mails[k][n] + unread[k][n] + a <= duplicates + mishaps + c + Said(k, n)
  BY DEF MailsPaid
<1>4. /\ IsFiniteSet(Astray(k, n)') /\ a \in Nat /\ b \in Nat /\ b <= a + 1
      /\ ~IsAstray(mailer'[m], k, n) => b <= a
      /\ IsAstray(mailer[m], k, n) /\ ~IsAstray(mailer'[m], k, n) => b = a - 1
  BY <1>0, <1>3, AstrayCounts
<1>5. /\ c \in {0, 1} /\ d \in {0, 1}
      /\ IsInHand(mailer'[m], k, n) => d = 1
      /\ (IsInHand(mailer[m], k, n) => IsInHand(mailer'[m], k, n)) => d >= c
  BY <1>0, HandCounts
<1>6. mailer[m].pc = "send" /\ mine /\ mailer[m].owner => c = 0
  BY <1>0, OneInHand DEF OwnsPartition
<1>7. mails[k][n] \in Nat /\ unread[k][n] \in Nat
  BY <1>1
<1> HIDE DEF a, b, c, d
<1>8. CASE \E j \in Keys, q \in Notices : TakeNotice(m, j, q)
  <2>1. PICK j \in Keys, q \in Notices : TakeNotice(m, j, q)
    BY <1>8
  <2>2. /\ mailer[m] = Waiting
        /\ mailer'[m] = [pc |-> "send", key |-> j, notice |-> q, owner |-> TRUE]
        /\ mails' = mails /\ unread' = unread /\ mishaps' = mishaps
    BY <1>1, <2>1 DEF TakeNotice
  <2>3. ~IsAstray(mailer'[m], k, n) /\ ~IsInHand(mailer[m], k, n)
    BY <2>2 DEF IsAstray, IsInHand, About
  <2> QED BY <1>0, <1>1, <1>2, <1>3, <1>4, <1>5, <1>7, <2>2, <2>3 DEF a, b, c, d
<1>9. ASSUME SendMail(m) \/ SendFails(m)
      PROVE  /\ mailer[m].pc = "send" /\ unread' = unread
             /\ ~IsAstray(mailer'[m], k, n) /\ ~IsInHand(mailer[m], k, n)
             /\ mine => IF mailer[m].owner THEN c = 0 /\ d = 1 ELSE b = a - 1 /\ d >= c
             /\ b <= a /\ d >= c
             /\ mails'[k][n] = IF mine /\ mails' # mails THEN mails[k][n] + 1 ELSE mails[k][n]
  <2>1. mailer[m].pc = "send" /\ unread' = unread
    BY <1>9 DEF SendMail, SendFails
  <2>2. mailer[m] \in Dispatching /\ mailer[m] # Waiting
    BY <1>0, <2>1, BusyMailer
  <2>3. mailer'[m] = [mailer[m] EXCEPT !.pc = "commit"]
    BY <1>1, <1>9 DEF SendMail, SendFails
  <2>4. /\ mailer'[m].pc = "commit" /\ mailer'[m].owner = mailer[m].owner
        /\ mailer'[m].key = mailer[m].key /\ mailer'[m].notice = mailer[m].notice
        /\ mailer'[m] # Waiting
    BY <2>2, <2>3 DEF Dispatching, Waiting
  <2>5. ~IsAstray(mailer'[m], k, n) /\ ~IsInHand(mailer[m], k, n)
    BY <2>1, <2>4 DEF IsAstray, IsInHand
  <2>6. mine /\ mailer[m].owner => c = 0 /\ d = 1
    BY <1>5, <1>6, <2>1, <2>4 DEF IsInHand, About
  <2>7. mine /\ ~mailer[m].owner => b = a - 1
    BY <1>4, <2>1, <2>5 DEF IsAstray, About
  <2>8. mails'[k][n] = IF mine /\ mails' # mails THEN mails[k][n] + 1 ELSE mails[k][n]
    <3>1. mails' = mails \/ mails' = Counted(m, mails)
      BY <1>9 DEF SendMail, SendFails
    <3>2. CASE mails' = Counted(m, mails) /\ mails' # mails
      BY <1>0, <1>1, <2>2, <3>2, CountedType
    <3> QED BY <3>1, <3>2
  <2>9. b <= a /\ d >= c
    BY <1>4, <1>5, <2>5
  <2> HIDE DEF mine
  <2> QED BY <2>1, <2>5, <2>6, <2>7, <2>8, <2>9
<1>10. CASE SendMail(m)
  <2>1. mishaps' = mishaps
    BY <1>10 DEF SendMail
  <2>2. unread'[k][n] = unread[k][n]
    BY <1>9, <1>10
  <2> HIDE DEF mine
  <2>3. \/ mails'[k][n] = mails[k][n] /\ b <= a /\ d >= c
        \/ mails'[k][n] = mails[k][n] + 1 /\ c = 0 /\ d = 1 /\ b <= a
        \/ mails'[k][n] = mails[k][n] + 1 /\ b = a - 1 /\ d >= c
    BY <1>9, <1>10
  <2>4. mails'[k][n] + unread'[k][n] + b <= duplicates' + mishaps' + d + Said(k, n)'
    BY <1>0, <1>1, <1>2, <1>3, <1>4, <1>5, <1>7, <2>1, <2>2, <2>3
  <2> QED BY <1>4, <2>4 DEF b, d
<1>11. CASE SendFails(m)
  <2>1. mishaps' = mishaps + 1
    BY <1>11 DEF SendFails
  <2> HIDE DEF mine
  <2>2. /\ unread'[k][n] = unread[k][n] /\ b <= a /\ d >= c
        /\ mails'[k][n] = mails[k][n] \/ mails'[k][n] = mails[k][n] + 1
    BY <1>9, <1>11
  <2>3. mails'[k][n] + unread'[k][n] + b <= duplicates' + mishaps' + d + Said(k, n)'
    BY <1>0, <1>1, <1>2, <1>3, <1>4, <1>5, <1>7, <2>1, <2>2
  <2> QED BY <1>4, <2>3 DEF b, d
<1>12. CASE CommitNotice(m)
  <2>1. /\ mailer[m].pc = "commit" /\ mailer'[m] = Waiting
        /\ mails' = mails /\ mishaps' = mishaps
    BY <1>1, <1>12 DEF CommitNotice
  <2>2. mailer[m] \in Dispatching /\ mailer[m] # Waiting
    BY <1>0, <2>1, BusyMailer
  <2>3. ~IsAstray(mailer'[m], k, n) /\ ~IsInHand(mailer'[m], k, n)
    BY <2>1 DEF IsAstray, IsInHand, About
  <2>4. mailer[m].key \in Keys /\ mailer[m].notice \in Notices
    BY <2>2 DEF Dispatching
  <2>5. unread'[k][n] = IF mine /\ mailer[m].owner THEN unread[k][n] - 1 ELSE unread[k][n]
    BY <1>1, <1>12, <2>2, <2>4 DEF CommitNotice
  <2>6. IsInHand(mailer[m], k, n) <=> mine /\ mailer[m].owner
    BY <2>1 DEF IsInHand, About
  <2>7. b <= a /\ (~(mine /\ mailer[m].owner) => d >= c)
    BY <1>4, <1>5, <2>3, <2>6
  <2> HIDE DEF mine
  <2>8. mails'[k][n] + unread'[k][n] + b <= duplicates' + mishaps' + d + Said(k, n)'
    BY <1>0, <1>1, <1>2, <1>3, <1>4, <1>5, <1>7, <2>1, <2>5, <2>7
  <2> QED BY <1>4, <2>8 DEF b, d
<1>13. CASE MailerFails(m)
  <2>1. /\ mailer'[m] = Waiting /\ mails' = mails /\ unread' = unread /\ mishaps' = mishaps + 1
    BY <1>1, <1>13 DEF MailerFails
  <2>2. ~IsAstray(mailer'[m], k, n)
    BY <2>1 DEF IsAstray, About
  <2>3. mails'[k][n] + unread'[k][n] + b <= duplicates' + mishaps' + d + Said(k, n)'
    BY <1>0, <1>1, <1>2, <1>3, <1>4, <1>5, <1>7, <2>1, <2>2
  <2> QED BY <1>4, <2>3 DEF b, d
<1>14. CASE MailerRevoked(m)
  <2>1. /\ mails' = mails /\ unread' = unread /\ mishaps' = mishaps + 1
        /\ mailer'[m] = [mailer[m] EXCEPT !.owner = FALSE] /\ mailer[m] # Waiting
    BY <1>1, <1>14 DEF MailerRevoked, OwnsPartition
  <2>2. mailer[m] \in Dispatching
    BY <1>0, <2>1, BusyMailer
  <2>3. mailer'[m].pc = mailer[m].pc /\ mailer[m].pc \in {"send", "commit"}
    BY <2>1, <2>2 DEF Dispatching
  <2>4. b <= a \/ (b <= a + 1 /\ d >= c)
    <3>1. CASE mailer[m].pc = "send"
      BY <1>4, <1>5, <3>1 DEF IsInHand
    <3>2. CASE mailer[m].pc = "commit"
      BY <1>4, <2>3, <3>2 DEF IsAstray
    <3> QED BY <2>3, <3>1, <3>2
  <2>5. mails'[k][n] + unread'[k][n] + b <= duplicates' + mishaps' + d + Said(k, n)'
    BY <1>0, <1>1, <1>2, <1>3, <1>4, <1>5, <1>7, <2>1, <2>4
  <2> QED BY <1>4, <2>5 DEF b, d
<1> QED
  BY <1>0, <1>8, <1>10, <1>11, <1>12, <1>13, <1>14 DEF Mailing, Mishap

LEMMA MailsPaidInit == CheckoutInit => MailsPaid
<1> SUFFICES ASSUME CheckoutInit, NEW k \in Keys, NEW n \in Notices
             PROVE  /\ IsFiniteSet(Astray(k, n))
                    /\ mails[k][n] + unread[k][n] + Cardinality(Astray(k, n))
                          <= duplicates + mishaps + InHand(k, n) + Said(k, n)
  BY DEF MailsPaid
<1>1. /\ mails[k][n] = 0 /\ unread[k][n] = 0 /\ duplicates = 0 /\ mishaps = 0
      /\ \A m \in Mailers : mailer[m] = Waiting
  BY DEF CheckoutInit, Init, NotificationInit
<1>2. Astray(k, n) = {}
  BY <1>1 DEF Astray, IsAstray, About
<1>3. IsFiniteSet(Astray(k, n)) /\ Cardinality(Astray(k, n)) = 0
  BY <1>2, FS_EmptySet
<1>4. InHand(k, n) \in {0, 1} /\ Said(k, n) \in {0, 1}
  BY DEF InHand, Said
<1> QED
  BY <1>1, <1>3, <1>4

\* A mail in hand has its copy to itself, so it is not one too many.
LEMMA PaidIsEnough == CheckoutIInv /\ MailsPaid => MailsRepeatedOnlyByMishaps
<1> SUFFICES ASSUME CheckoutIInv, MailsPaid, NEW k \in Keys, NEW n \in Notices
             PROVE  mails[k][n] <= 1 + duplicates + mishaps
  BY DEF MailsRepeatedOnlyByMishaps
<1>1. /\ unread[k][n] \in Nat /\ mails[k][n] \in Nat /\ mishaps \in Nat /\ duplicates \in Nat
  BY DEF CheckoutIInv, NotificationTypeOK, IInv, TypeOK
<1>2. /\ mails[k][n] + unread[k][n] + Cardinality(Astray(k, n))
            <= duplicates + mishaps + InHand(k, n) + Said(k, n)
      /\ Cardinality(Astray(k, n)) \in Nat
  BY FS_CardinalityType DEF MailsPaid
<1>3. InHand(k, n) \in {0, 1} /\ Said(k, n) \in {0, 1}
  BY DEF InHand, Said
<1>4. InHand(k, n) = 1 => unread[k][n] > 0
  <2>1. SUFFICES ASSUME NEW m \in Mailers, IsInHand(mailer[m], k, n)
                 PROVE  unread[k][n] > 0
    BY DEF InHand
  <2>2. OwnsPartition(m) /\ mailer[m].key = k /\ mailer[m].notice = n
    BY <2>1 DEF IsInHand, About, OwnsPartition
  <2> QED BY <2>2 DEF CheckoutIInv, MailersTrue
<1> QED
  BY <1>1, <1>2, <1>3, <1>4

\* A mail is repeated only after the relay or a mailer has failed, once per
\* failure, also when mailers lose their partition with a mail half sent.
THEOREM MailsRepeatRarely == CheckoutSpec => []MailsRepeatedOnlyByMishaps
<1>1. CheckoutIInv /\ MailsPaid /\ [CheckoutNext]_CheckoutVars => MailsPaid'
  <2>1. ASSUME CheckoutIInv, MailsPaid, UNCHANGED CheckoutVars
        PROVE  MailsPaid'
    BY <2>1 DEF CheckoutVars, vars, NotificationVars, MailsPaid, Astray, IsAstray, About,
       InHand, IsInHand, Said, Emitted
  <2> QED BY <2>1, SagaStepPaid, MailStepPaid DEF CheckoutNext
<1> QED
  BY <1>1, MailsPaidInit, PaidIsEnough, CheckoutInvariant, PTL DEF CheckoutSpec
=============================================================================
