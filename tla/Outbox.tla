-------------------------------- MODULE Outbox --------------------------------
(***************************************************************************)
(* The transactional outbox of libs/database: OutboxAbstractRepository and *)
(* OutboxRelayScheduler, as every service instantiates them.               *)
(*                                                                         *)
(* A row is inserted by the transaction that appends its event.  Every     *)
(* interval each replica starts a relay transaction that locks a batch of  *)
(* unpublished rows, publishes them one by one and stamps them; ticks do   *)
(* not wait for each other, so a replica too may run several at a time:    *)
(* Relays are the ticks that can run at once.  What a transaction has      *)
(* stamped is undone if it does not commit, what it has published is not.  *)
(***************************************************************************)
EXTENDS Integers, Sequences, FiniteSets

CONSTANTS
    Aggregates,   \* the keys of the topic's messages
    Relays,
    BatchSize,
    MaxFailures   \* bound on PublishFails, Crash and LoseConnection steps

ASSUME OutboxBounds == BatchSize \in Nat \ {0} /\ MaxFailures \in Nat

VARIABLES
    rows,       \* the outbox table, in createdAt order: rows[i] is the aggregate of row i
    published,  \* the rows whose publishedAt is set, by committed transactions
    relay,      \* the transaction of each relay
    topic,      \* topic[a]: the messages of aggregate a in its partition, by row
    failures    \* how much of MaxFailures is used

OutboxVars == <<rows, published, relay, topic, failures>>

NoTransaction == [locked |-> {}, todo |-> {}, stamped |-> {}]

OutboxTypeOK ==
    /\ rows \in Seq(Aggregates)
    /\ published \subseteq DOMAIN rows
    /\ relay \in [Relays -> [locked : SUBSET DOMAIN rows, todo : SUBSET DOMAIN rows,
                             stamped : SUBSET DOMAIN rows]]
    /\ topic \in [Aggregates -> Seq(DOMAIN rows)]
    /\ failures \in Nat

OutboxInit ==
    /\ rows = <<>>
    /\ published = {}
    /\ relay = [r \in Relays |-> NoTransaction]
    /\ topic = [a \in Aggregates |-> <<>>]
    /\ failures = 0
-----------------------------------------------------------------------------
\* The service inserts the row of an event, in the event's own transaction.
Insert(a) ==
    /\ rows' = Append(rows, a)
    /\ UNCHANGED <<published, relay, topic, failures>>

Locked == UNION {relay[r].locked : r \in Relays}

\* Mutant: no SKIP LOCKED and no lock, just the unpublished rows.
Visible_Unlocked == DOMAIN rows \ published

\* publishedAt IS NULL ... FOR UPDATE SKIP LOCKED.
Visible == (DOMAIN rows \ published) \ Locked

\* The oldest rows, at most BatchSize of them.
Batches ==
    {b \in SUBSET Visible :
        /\ Cardinality(b) <= BatchSize
        /\ Cardinality(b) = BatchSize \/ b = Visible
        /\ \A i \in b, j \in Visible \ b : i < j}

\* A tick begins; without rows it ends at once.
Select(r) ==
    /\ relay[r] = NoTransaction
    /\ \E b \in Batches \ {{}} :
          relay' = [relay EXCEPT ![r] = [locked |-> b, todo |-> b, stamped |-> {}]]
    /\ UNCHANGED <<rows, published, topic, failures>>

Oldest(i, s) == i \in s /\ \A j \in s : i <= j

Send(i) == topic' = [topic EXCEPT ![rows[i]] = Append(@, i)]

\* What the transaction is after row i, with and without publishedAt set.
Stamp(t, i) == [t EXCEPT !.todo = t.todo \ {i}, !.stamped = t.stamped \cup {i}]
Skip(t, i) == [t EXCEPT !.todo = t.todo \ {i}]

\* Mutant: the row is stamped whether or not publish succeeded.
PublishFails_Stamped(r) ==
    /\ relay[r].locked # {}
    /\ failures < MaxFailures
    /\ failures' = failures + 1
    /\ \E i \in relay[r].todo :
          /\ Oldest(i, relay[r].todo)
          /\ relay' = [relay EXCEPT ![r] = Stamp(@, i)]
          /\ \/ UNCHANGED topic
             \/ Send(i)
    /\ UNCHANGED <<rows, published>>

\* producer.publish and the update of publishedAt.
PublishRow(r) ==
    /\ relay[r].locked # {}
    /\ \E i \in relay[r].todo :
          /\ Oldest(i, relay[r].todo)
          /\ Send(i)
          /\ relay' = [relay EXCEPT ![r] = Stamp(@, i)]
    /\ UNCHANGED <<rows, published, failures>>

\* publish throws, also if only its acknowledgement was lost.  The row counts
\* an attempt, stays unpublished, and the batch goes on.
PublishFails(r) ==
    /\ relay[r].locked # {}
    /\ failures < MaxFailures
    /\ failures' = failures + 1
    /\ \E i \in relay[r].todo :
          /\ Oldest(i, relay[r].todo)
          /\ relay' = [relay EXCEPT ![r] = Skip(@, i)]
          /\ \/ UNCHANGED topic
             \/ Send(i)
    /\ UNCHANGED <<rows, published>>

CommitBatch(r) ==
    /\ relay[r].locked # {}
    /\ relay[r].todo = {}
    /\ published' = published \cup relay[r].stamped
    /\ relay' = [relay EXCEPT ![r] = NoTransaction]
    /\ UNCHANGED <<rows, topic, failures>>

\* The process dies, or the commit fails: the transaction is rolled back.
Crash(r) ==
    /\ relay[r].locked # {}
    /\ failures < MaxFailures
    /\ failures' = failures + 1
    /\ relay' = [relay EXCEPT ![r] = NoTransaction]
    /\ UNCHANGED <<rows, published, topic>>

\* The database drops the transaction, and its locks, while the relay is about
\* to publish a row: it finds out when it stamps that row.
LoseConnection(r) ==
    /\ relay[r].locked # {}
    /\ failures < MaxFailures
    /\ failures' = failures + 1
    /\ \E i \in relay[r].todo :
          /\ Oldest(i, relay[r].todo)
          /\ relay' = [relay EXCEPT ![r] = [locked |-> {}, todo |-> {i}, stamped |-> {}]]
    /\ UNCHANGED <<rows, published, topic>>

PublishUnlocked(r) ==
    /\ relay[r].locked = {}
    /\ \E i \in relay[r].todo :
          /\ Send(i)
          /\ relay' = [relay EXCEPT ![r] = NoTransaction]
    /\ UNCHANGED <<rows, published, failures>>
-----------------------------------------------------------------------------
Relay(r) == Select(r) \/ PublishRow(r) \/ PublishUnlocked(r) \/ CommitBatch(r)

Failure(r) == PublishFails(r) \/ Crash(r) \/ LoseConnection(r)

OutboxNext ==
    \/ \E a \in Aggregates : Insert(a)
    \/ \E r \in Relays : Relay(r) \/ Failure(r)

OutboxSpec == OutboxInit /\ [][OutboxNext]_OutboxVars
-----------------------------------------------------------------------------
(***************************************************************************)
(* Properties.                                                             *)
(***************************************************************************)
Sent == UNION {{topic[a][k] : k \in DOMAIN topic[a]} : a \in Aggregates}

\* "stamps publishedAt only after a successful publish" (ADR 0003): no row is
\* taken for published that no consumer will see.
StampedWasSent == published \subseteq Sent

\* "safe for multiple running pod replicas to poll concurrently without
\* double-publishing the same row" (ADR 0003): a row is sent twice only if a
\* publish, a transaction or a process failed, and once more per failure.
SentOncePerFailure ==
    \A a \in Aggregates : \A i \in DOMAIN rows :
        Cardinality({k \in DOMAIN topic[a] : topic[a][k] = i}) <= 1 + failures

\* "use the aggregateId so all events for one order stay ordered"
\* (KafkaProducerService): no event of an aggregate reaches the topic before
\* an earlier event of the same aggregate.
FirstSentInOrder ==
    \A a \in Aggregates : \A k \in DOMAIN topic[a] :
        \A i \in 1 .. topic[a][k] - 1 :
            rows[i] = a => \E m \in 1 .. k - 1 : topic[a][m] = i

-----------------------------------------------------------------------------
(***************************************************************************)
(* The inductive invariant.                                                *)
(***************************************************************************)
\* Rows are locked by one transaction at a time, and only unpublished ones.
LocksExclusive ==
    \A r \in Relays :
        /\ relay[r].locked \cap published = {}
        /\ \A q \in Relays \ {r} : relay[r].locked \cap relay[q].locked = {}

\* A transaction works on the rows it has locked and stamps what it sent.
TransactionsTrue ==
    \A r \in Relays :
        /\ relay[r].locked # {} => relay[r].todo \subseteq relay[r].locked
        /\ relay[r].stamped \subseteq relay[r].locked \cap Sent

OutboxIInv == OutboxTypeOK /\ LocksExclusive /\ TransactionsTrue /\ StampedWasSent
=============================================================================
