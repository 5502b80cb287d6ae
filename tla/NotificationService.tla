-------------------------- MODULE NotificationService --------------------------
(***************************************************************************)
(* notification-service: NotificationKafkaConsumer mails the customer when *)
(* an order is confirmed or cancelled and when a payment is declined.  It  *)
(* has no table; unlike every other consumer it commits past a failure.    *)
(*                                                                         *)
(* dispatch returns at once for every other type of event, so only copies  *)
(* of Notices are kept track of.  Mailers are its replicas.  The SMS of a  *)
(* declined payment is left out: the resolver knows no phone number.  The  *)
(* mail itself is told by the notice it is about: the templates say the    *)
(* order is confirmed and paid, or cancelled and "not been charged".       *)
(***************************************************************************)
EXTENDS Naturals

CONSTANTS
    Keys,        \* the orders, the keys of the messages
    Mailers,
    MaxMishaps   \* bound on SendFails, MailerFails and MailerRevoked steps

ASSUME MishapsAssumption == MaxMishaps \in Nat

Notices == {"OrderConfirmed", "OrderCancelled", "PaymentDeclined"}

VARIABLES
    unread,   \* copies of each notice whose offset the group has not committed
    mailer,   \* what each replica is doing
    mails,    \* how often the customer was sent the mail about each notice
    unsent,   \* how often sending it failed, and was given up
    mishaps   \* how much of MaxMishaps is used

NotificationVars == <<unread, mailer, mails, unsent, mishaps>>

Waiting == [pc |-> "waiting"]

Dispatching == [pc : {"send", "commit"}, key : Keys, notice : Notices, owner : BOOLEAN]

\* In particular, no commit takes an offset back: unread never falls below 0.
NotificationTypeOK ==
    /\ unread \in [Keys -> [Notices -> Nat]]
    /\ mailer \in [Mailers -> Dispatching \cup {Waiting}]
    /\ mails \in [Keys -> [Notices -> Nat]]
    /\ unsent \in [Keys -> [Notices -> Nat]]
    /\ mishaps \in 0 .. MaxMishaps

NotificationInit ==
    /\ unread = [k \in Keys |-> [n \in Notices |-> 0]]
    /\ mailer = [m \in Mailers |-> Waiting]
    /\ mails = [k \in Keys |-> [n \in Notices |-> 0]]
    /\ unsent = [k \in Keys |-> [n \in Notices |-> 0]]
    /\ mishaps = 0
-----------------------------------------------------------------------------
\* The two topics; a notice of one does not wait for those of the other.
SameTopic(n, q) == (n = "PaymentDeclined") = (q = "PaymentDeclined")

OwnsPartition(m) == mailer[m] # Waiting /\ mailer[m].owner

\* eachMessage: one at a time per topic and order, unless an earlier owner of
\* the partition is still at it.
TakeNotice(m, k, n) ==
    /\ mailer[m] = Waiting
    /\ unread[k][n] > 0
    /\ \A q \in Mailers :
          ~(OwnsPartition(q) /\ mailer[q].key = k /\ SameTopic(mailer[q].notice, n))
    /\ mailer' = [mailer EXCEPT ![m] = [pc |-> "send", key |-> k, notice |-> n, owner |-> TRUE]]
    /\ UNCHANGED <<unread, mails, unsent, mishaps>>

\* One more of what mailer m has in hand.
Counted(m, tally) == [tally EXCEPT ![mailer[m].key][mailer[m].notice] = @ + 1]

SendMail(m) ==
    /\ mailer[m].pc = "send"
    /\ mails' = Counted(m, mails)
    /\ mailer' = [mailer EXCEPT ![m].pc = "commit"]
    /\ UNCHANGED <<unread, unsent, mishaps>>

\* send throws, before or after the provider took the mail: "Logged, NOT
\* rethrown".
SendFails(m) ==
    /\ mailer[m].pc = "send"
    /\ mishaps < MaxMishaps
    /\ mishaps' = mishaps + 1
    /\ \/ mails' = Counted(m, mails)
       \/ UNCHANGED mails
    /\ unsent' = Counted(m, unsent)
    /\ mailer' = [mailer EXCEPT ![m].pc = "commit"]
    /\ UNCHANGED unread

\* Mutant: the offset committed is the message's own, not the next one.
CommitNotice_SameOffset(m) ==
    /\ mailer[m].pc = "commit"
    /\ mailer' = [mailer EXCEPT ![m] = Waiting]
    /\ UNCHANGED <<unread, mails, unsent, mishaps>>

\* Mutant: the broker takes the commit of a mailer that lost the partition.
CommitNotice_Unfenced(m) ==
    /\ mailer[m].pc = "commit"
    /\ unread' = [unread EXCEPT ![mailer[m].key][mailer[m].notice] = @ - 1]
    /\ mailer' = [mailer EXCEPT ![m] = Waiting]
    /\ UNCHANGED <<mails, unsent, mishaps>>

\* commitOffsets, refused to a mailer that lost the partition.
CommitNotice(m) ==
    /\ mailer[m].pc = "commit"
    /\ unread' = IF mailer[m].owner
                 THEN [unread EXCEPT ![mailer[m].key][mailer[m].notice] = @ - 1] ELSE unread
    /\ mailer' = [mailer EXCEPT ![m] = Waiting]
    /\ UNCHANGED <<mails, unsent, mishaps>>


\* The process dies, or commitOffsets throws: the notice is delivered again.
MailerFails(m) ==
    /\ mailer[m] # Waiting
    /\ mishaps < MaxMishaps
    /\ mishaps' = mishaps + 1
    /\ mailer' = [mailer EXCEPT ![m] = Waiting]
    /\ UNCHANGED <<unread, mails, unsent>>

\* A rebalance under a running mailer.
MailerRevoked(m) ==
    /\ OwnsPartition(m)
    /\ mishaps < MaxMishaps
    /\ mishaps' = mishaps + 1
    /\ mailer' = [mailer EXCEPT ![m].owner = FALSE]
    /\ UNCHANGED <<unread, mails, unsent>>
-----------------------------------------------------------------------------
Mailing(m) ==
    \/ \E k \in Keys, n \in Notices : TakeNotice(m, k, n)
    \/ SendMail(m)
    \/ CommitNotice(m)

Mishap(m) == SendFails(m) \/ MailerFails(m) \/ MailerRevoked(m)

\* A service publishes a notice, or publishes it again.
Notify(k, n) ==
    /\ unread' = [unread EXCEPT ![k][n] = @ + 1]
    /\ UNCHANGED <<mailer, mails, unsent, mishaps>>
=============================================================================
