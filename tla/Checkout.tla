------------------------------- MODULE Checkout -------------------------------
(***************************************************************************)
(* The checkout as the customer sees it: the saga of SagaStateMachine with *)
(* the mails of NotificationService.  The two are consumer groups of their *)
(* own over the same topics, and an event that is published reaches both.  *)
(***************************************************************************)
EXTENDS SagaStateMachine, NotificationService

\* Orders are the keys of the messages; the definition ends with the payment.
ASSUME CheckoutAssumption ==
    /\ Keys = Orders
    /\ Steps[Len(Steps)].failure = "PaymentDeclined"

CheckoutVars == <<vars, NotificationVars>>

CheckoutInit == Init /\ NotificationInit

Published(k, n) == pending'[k][n] > pending[k][n]

\* A step of the saga or of a service, and the notice it publishes if any.
SagaStep ==
    /\ Next
    /\ \/ \E k \in Keys, n \in Notices : Published(k, n) /\ Notify(k, n)
       \/ /\ \A k \in Keys, n \in Notices : ~Published(k, n)
          /\ UNCHANGED NotificationVars

MailStep(m) == (Mailing(m) \/ Mishap(m)) /\ UNCHANGED vars

CheckoutNext == SagaStep \/ \E m \in Mailers : MailStep(m)

CheckoutSpec == CheckoutInit /\ [][CheckoutNext]_CheckoutVars

\* Mailers keep polling, like the other consumers.
FairCheckoutSpec ==
    CheckoutSpec /\ Fairness /\ \A m \in Mailers : WF_NotificationVars(Mailing(m))
-----------------------------------------------------------------------------
\* The payment was authorized.
Charged(o) == answer[o][Len(Steps)] = "success"

\* The mails never contradict what happened.  One that says the order is
\* confirmed is about a confirmed order whose every step succeeded; one that
\* says "You have not been charged", after a cancellation or a decline, is about
\* an order that was not, and will not be: some step has failed before.
MailsTrue ==
    \A k \in Keys :
        /\ mails[k]["OrderConfirmed"] > 0 =>
              order[k] = "CONFIRMED" /\ \A i \in StepIndex : answer[k][i] = "success"
        /\ mails[k]["OrderCancelled"] + mails[k]["PaymentDeclined"] > 0 =>
              order[k] # "CONFIRMED" /\ ~Charged(k) /\ \E i \in StepIndex : answer[k][i] = "failure"

\* "a redelivered event can occasionally send a duplicate notification": a mail
\* is repeated only after the relay or a mailer has failed, once per failure.
MailsRepeatedOnlyByMishaps ==
    \A k \in Keys, n \in Notices : mails[k][n] <= 1 + duplicates + mishaps

\* Everything the customer is to be told has been sent, or sending it has failed.
Told(k) == \A n \in Notices : Emitted(k, n) => mails[k][n] + unsent[k][n] > 0

-----------------------------------------------------------------------------
(***************************************************************************)
(* The inductive invariant behind the theorems of Checkout_proofs.         *)
(***************************************************************************)

\* Copies, mails in hand and mails sent are about what did happen.
NoticesTrue ==
    /\ \A k \in Keys, n \in Notices : unread[k][n] + mails[k][n] > 0 => Emitted(k, n)
    /\ \A m \in Mailers : mailer[m] # Waiting => Emitted(mailer[m].key, mailer[m].notice)

\* The notice a partition's owner works on is uncommitted, and it works alone.
MailersTrue ==
    \A m \in Mailers : OwnsPartition(m) =>
        /\ unread[mailer[m].key][mailer[m].notice] > 0
        /\ \A q \in Mailers \ {m} :
              ~(OwnsPartition(q) /\ mailer[q].key = mailer[m].key
                                 /\ SameTopic(mailer[q].notice, mailer[m].notice))

CheckoutIInv == IInv /\ NotificationTypeOK /\ MailersTrue /\ NoticesTrue /\ AnswersAsked
=============================================================================
