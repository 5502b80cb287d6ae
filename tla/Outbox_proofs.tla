----------------------------- MODULE Outbox_proofs -----------------------------
(***************************************************************************)
(* For any aggregates, relays, batch size and failures: no row is stamped  *)
(* as published that is not on the topic, and no two relay transactions    *)
(* work on the same row.  The inductive invariant adds that a transaction  *)
(* stamps only rows that it holds locked and that were sent, so that what  *)
(* its commit publishes was sent and was nobody else's.  SentOnce counts   *)
(* the copies of a row against the failures of the relays.                 *)
(***************************************************************************)
EXTENDS Outbox, SequenceTheorems, FiniteSetTheorems, TLAPS

-----------------------------------------------------------------------------
(***************************************************************************)
(* The topic.                                                              *)
(***************************************************************************)

LEMMA NoTransactionType ==
    NoTransaction \in [locked : SUBSET DOMAIN rows, todo : SUBSET DOMAIN rows,
                       stamped : SUBSET DOMAIN rows]
BY DEF NoTransaction

LEMMA RelayFields ==
    ASSUME OutboxTypeOK, NEW r \in Relays
    PROVE  /\ relay[r] \in [locked : SUBSET DOMAIN rows, todo : SUBSET DOMAIN rows,
                            stamped : SUBSET DOMAIN rows]
           /\ relay[r].locked \subseteq DOMAIN rows
           /\ relay[r].todo \subseteq DOMAIN rows
           /\ relay[r].stamped \subseteq DOMAIN rows
BY DEF OutboxTypeOK

\* A message stays, and the row that is sent is there.
LEMMA SendStep ==
    ASSUME OutboxTypeOK, NEW i \in DOMAIN rows, Send(i), rows' = rows
    PROVE  /\ topic' \in [Aggregates -> Seq(DOMAIN rows)]
           /\ Sent \subseteq Sent'
           /\ i \in Sent'
<1> DEFINE a == rows[i]
           s == topic[a]
           n == Append(s, i)
<1>1. a \in Aggregates
  BY ElementOfSeq DEF OutboxTypeOK
<1>2. s \in Seq(DOMAIN rows)
  BY <1>1 DEF OutboxTypeOK
<1>3. topic' = [topic EXCEPT ![a] = Append(s, i)]
  BY DEF Send
<1>4. topic' \in [Aggregates -> Seq(DOMAIN rows)]
  <2>1. Append(s, i) \in Seq(DOMAIN rows)
    BY <1>2
  <2> HIDE DEF s, a
  <2> QED
    BY <1>3, <2>1 DEF OutboxTypeOK
<1>5. topic'[a] = n /\ \A b \in Aggregates \ {a} : topic'[b] = topic[b]
  BY <1>1, <1>3 DEF OutboxTypeOK
<1>6. /\ \A k \in DOMAIN s : k \in DOMAIN n /\ n[k] = s[k]
      /\ \E k \in DOMAIN n : n[k] = i
  <2>1. /\ n \in Seq(DOMAIN rows) /\ Len(n) = Len(s) + 1 /\ Len(s) \in Nat
        /\ \A k \in 1 .. Len(s) : n[k] = s[k]
        /\ n[Len(s) + 1] = i
        /\ DOMAIN n = 1 .. Len(n) /\ DOMAIN s = 1 .. Len(s)
    BY <1>2
  <2> HIDE DEF n, s
  <2> QED
    BY <2>1
<1>7. ASSUME NEW x \in Sent PROVE x \in Sent'
  <2>1. PICK b \in Aggregates : \E k \in DOMAIN topic[b] : x = topic[b][k]
    BY DEF Sent
  <2>2. \E k \in DOMAIN topic'[b] : topic'[b][k] = x
    BY <1>5, <1>6, <2>1
  <2> QED
    BY <2>2 DEF Sent
<1>8. i \in Sent'
  BY <1>1, <1>5, <1>6 DEF Sent
<1> QED
  BY <1>4, <1>7, <1>8

LEMMA SameTopic ==
    ASSUME topic' = topic
    PROVE  Sent' = Sent
BY DEF Sent

-----------------------------------------------------------------------------
(***************************************************************************)
(* Each step.                                                              *)
(***************************************************************************)

\* A step of relay r that ends up with transaction t keeps the invariant, if t
\* locks nothing new, stamps what it holds and was sent, and what becomes
\* published was stamped.
LEMMA RelayKeeps ==
    ASSUME OutboxIInv, NEW r \in Relays, NEW t,
           rows' = rows,
           relay' = [relay EXCEPT ![r] = t],
           t \in [locked : SUBSET DOMAIN rows, todo : SUBSET DOMAIN rows, stamped : SUBSET DOMAIN rows],
           t.locked \subseteq relay[r].locked,
           t.locked # {} => t.todo \subseteq t.locked,
           t.stamped \subseteq t.locked \cap Sent',
           topic' \in [Aggregates -> Seq(DOMAIN rows)],
           Sent \subseteq Sent',
           published' = published \/ (published' = published \cup relay[r].stamped /\ t.locked = {}),
           failures' \in Nat
    PROVE  OutboxIInv'
<1>1. relay'[r] = t /\ \A q \in Relays \ {r} : relay'[q] = relay[q]
  BY DEF OutboxIInv, OutboxTypeOK
<1>2. relay[r].stamped \subseteq DOMAIN rows \cap Sent /\ relay[r].stamped \subseteq relay[r].locked
  BY RelayFields DEF OutboxIInv, TransactionsTrue
<1>3. OutboxTypeOK'
  BY <1>2 DEF OutboxIInv, OutboxTypeOK
<1>4. ASSUME NEW q \in Relays PROVE relay'[q].locked \subseteq relay[q].locked
  BY <1>1
<1>5. ASSUME NEW q \in Relays PROVE relay'[q].locked \cap published' = {}
  <2>1. relay[q].locked \cap published = {}
    BY DEF OutboxIInv, LocksExclusive
  <2>2. CASE published' = published
    BY <1>4, <2>1, <2>2
  <2>3. CASE published' = published \cup relay[r].stamped /\ t.locked = {}
    <3>1. CASE q = r
      BY <1>1, <2>3, <3>1
    <3>2. CASE q # r
      <4>1. relay[q].locked \cap relay[r].locked = {}
        BY <3>2 DEF OutboxIInv, LocksExclusive
      <4> QED
        BY <1>2, <1>4, <2>1, <2>3, <4>1
    <3> QED
      BY <3>1, <3>2
  <2> QED
    BY <2>2, <2>3
<1>6. LocksExclusive'
  BY <1>4, <1>5 DEF OutboxIInv, LocksExclusive
<1>7. TransactionsTrue'
  BY <1>1 DEF OutboxIInv, TransactionsTrue
<1>8. StampedWasSent'
  BY <1>2 DEF OutboxIInv, StampedWasSent
<1> QED
  BY <1>3, <1>6, <1>7, <1>8 DEF OutboxIInv

LEMMA InsertKeeps ==
    ASSUME OutboxIInv, NEW a \in Aggregates, Insert(a)
    PROVE  OutboxIInv'
<1>1. rows' \in Seq(Aggregates) /\ DOMAIN rows \subseteq DOMAIN rows'
  BY DEF OutboxIInv, OutboxTypeOK, Insert
<1>2. Seq(DOMAIN rows) \subseteq Seq(DOMAIN rows')
  BY <1>1
<1>3. UNCHANGED <<published, relay, topic, failures>> /\ Sent' = Sent
  BY SameTopic DEF Insert
<1>4. OutboxTypeOK'
  <2>1. published' \subseteq DOMAIN rows' /\ failures' \in Nat
    BY <1>1, <1>3 DEF OutboxIInv, OutboxTypeOK
  <2>2. topic' \in [Aggregates -> Seq(DOMAIN rows')]
    BY <1>2, <1>3 DEF OutboxIInv, OutboxTypeOK
  <2>3. relay' \in [Relays -> [locked : SUBSET DOMAIN rows', todo : SUBSET DOMAIN rows',
                               stamped : SUBSET DOMAIN rows']]
    BY <1>1, <1>3 DEF OutboxIInv, OutboxTypeOK
  <2> QED
    BY <1>1, <2>1, <2>2, <2>3 DEF OutboxTypeOK
<1> QED
  BY <1>3, <1>4 DEF OutboxIInv, LocksExclusive, TransactionsTrue, StampedWasSent

\* SKIP LOCKED: what a new transaction locks is unpublished and not locked.
LEMMA SelectKeeps ==
    ASSUME OutboxIInv, NEW r \in Relays, Select(r)
    PROVE  OutboxIInv'
<1>1. PICK b \in SUBSET Visible : relay' = [relay EXCEPT ![r] = [locked |-> b, todo |-> b, stamped |-> {}]]
  BY DEF Select, Batches
<1>2. UNCHANGED <<rows, published, topic, failures>> /\ Sent' = Sent
  BY SameTopic DEF Select
<1>3. /\ relay'[r] = [locked |-> b, todo |-> b, stamped |-> {}]
      /\ \A q \in Relays \ {r} : relay'[q] = relay[q]
  BY <1>1 DEF OutboxIInv, OutboxTypeOK
<1>4. b \subseteq DOMAIN rows /\ b \cap published = {} /\ \A q \in Relays : b \cap relay[q].locked = {}
  BY DEF Visible, Locked
<1>5. OutboxTypeOK'
  BY <1>1, <1>2, <1>4 DEF OutboxIInv, OutboxTypeOK
<1>6. LocksExclusive'
  <2>1. ASSUME NEW q \in Relays PROVE relay'[q].locked \cap published' = {}
    BY <1>2, <1>3, <1>4 DEF OutboxIInv, LocksExclusive
  <2>2. ASSUME NEW q \in Relays, NEW p \in Relays \ {q}
        PROVE  relay'[q].locked \cap relay'[p].locked = {}
    <3>1. relay[q].locked \cap relay[p].locked = {}
      BY DEF OutboxIInv, LocksExclusive
    <3> QED
      BY <1>3, <1>4, <3>1
  <2> QED
    BY <2>1, <2>2 DEF LocksExclusive
<1>7. TransactionsTrue'
  BY <1>2, <1>3 DEF OutboxIInv, TransactionsTrue
<1>8. StampedWasSent'
  BY <1>2 DEF OutboxIInv, StampedWasSent
<1> QED
  BY <1>5, <1>6, <1>7, <1>8 DEF OutboxIInv

LEMMA PublishKeeps ==
    ASSUME OutboxIInv, NEW r \in Relays, PublishRow(r) \/ PublishFails(r)
    PROVE  OutboxIInv'
<1> DEFINE t == relay[r]
<1>1. /\ t \in [locked : SUBSET DOMAIN rows, todo : SUBSET DOMAIN rows, stamped : SUBSET DOMAIN rows]
      /\ t.locked # {} /\ t.todo \subseteq t.locked /\ t.stamped \subseteq t.locked \cap Sent
  BY RelayFields DEF OutboxIInv, TransactionsTrue, PublishRow, PublishFails
<1>2. PICK i \in t.todo :
         /\ \/ /\ relay' = [relay EXCEPT ![r] = Stamp(t, i)]
               /\ Send(i)
            \/ /\ relay' = [relay EXCEPT ![r] = Skip(t, i)]
               /\ Send(i) \/ topic' = topic
  <2>1. CASE PublishRow(r)
    BY <2>1 DEF PublishRow
  <2>2. CASE PublishFails(r)
    BY <2>2 DEF PublishFails
  <2> QED
    BY <2>1, <2>2
<1>3. UNCHANGED <<rows, published>> /\ failures' \in Nat
  <2>1. failures \in Nat
    BY DEF OutboxIInv, OutboxTypeOK
  <2>2. UNCHANGED <<rows, published>> /\ (failures' = failures \/ failures' = failures + 1)
    BY DEF PublishRow, PublishFails
  <2> QED
    BY <2>1, <2>2
<1>4. i \in DOMAIN rows /\ i \in t.locked
  BY <1>1
<1>5. /\ topic' \in [Aggregates -> Seq(DOMAIN rows)] /\ Sent \subseteq Sent'
      /\ Send(i) => i \in Sent'
  BY <1>2, <1>3, <1>4, SendStep, SameTopic DEF OutboxIInv, OutboxTypeOK
<1>6. CASE relay' = [relay EXCEPT ![r] = Stamp(t, i)]
           /\ Send(i)
  <2> DEFINE u == Stamp(t, i)
  <2>1. /\ u \in [locked : SUBSET DOMAIN rows, todo : SUBSET DOMAIN rows, stamped : SUBSET DOMAIN rows]
        /\ u.locked = t.locked /\ u.todo = t.todo \ {i} /\ u.stamped = t.stamped \cup {i}
    BY <1>1, <1>4 DEF Stamp
  <2>2. u.stamped \subseteq u.locked \cap Sent'
    BY <1>1, <1>4, <1>5, <1>6, <2>1
  <2>3. relay' = [relay EXCEPT ![r] = u]
    BY <1>6
  <2>4. u.locked \subseteq relay[r].locked /\ u.todo \subseteq u.locked
    BY <1>1, <2>1
  <2> HIDE DEF u
  <2> QED
    BY <1>3, <1>5, <2>1, <2>2, <2>3, <2>4, RelayKeeps
<1>7. CASE relay' = [relay EXCEPT ![r] = Skip(t, i)]
  <2> DEFINE u == Skip(t, i)
  <2>1. /\ u \in [locked : SUBSET DOMAIN rows, todo : SUBSET DOMAIN rows, stamped : SUBSET DOMAIN rows]
        /\ u.locked = t.locked /\ u.todo = t.todo \ {i} /\ u.stamped = t.stamped
    BY <1>1, <1>4 DEF Skip
  <2>2. u.stamped \subseteq u.locked \cap Sent'
    BY <1>1, <1>5, <2>1
  <2>3. relay' = [relay EXCEPT ![r] = u]
    BY <1>7
  <2>4. u.locked \subseteq relay[r].locked /\ u.todo \subseteq u.locked
    BY <1>1, <2>1
  <2> HIDE DEF u
  <2> QED
    BY <1>3, <1>5, <2>1, <2>2, <2>3, <2>4, RelayKeeps
<1> QED
  BY <1>2, <1>6, <1>7

\* A commit, a rollback and a publish after the locks are lost end the
\* transaction; a lost connection leaves one row to be published.
LEMMA EndKeeps ==
    ASSUME OutboxIInv, NEW r \in Relays,
           CommitBatch(r) \/ Crash(r) \/ LoseConnection(r) \/ PublishUnlocked(r)
    PROVE  OutboxIInv'
<1>1. rows' = rows /\ failures' \in Nat
  BY DEF CommitBatch, Crash, LoseConnection, PublishUnlocked, OutboxIInv, OutboxTypeOK
<1>2. topic' \in [Aggregates -> Seq(DOMAIN rows)] /\ Sent \subseteq Sent'
  <2>1. CASE topic' = topic
    BY <2>1, SameTopic DEF OutboxIInv, OutboxTypeOK
  <2>2. CASE \E i \in relay[r].todo : Send(i)
    BY <1>1, <2>2, SendStep, RelayFields DEF OutboxIInv
  <2> QED
    BY <2>1, <2>2 DEF CommitBatch, Crash, LoseConnection, PublishUnlocked
<1>3. published' = published \/ published' = published \cup relay[r].stamped
  BY DEF CommitBatch, Crash, LoseConnection, PublishUnlocked
<1>4. PICK t : /\ relay' = [relay EXCEPT ![r] = t]
               /\ t = NoTransaction
                  \/ \E i \in relay[r].todo : t = [locked |-> {}, todo |-> {i}, stamped |-> {}]
  BY DEF CommitBatch, Crash, LoseConnection, PublishUnlocked
<1>5. /\ t \in [locked : SUBSET DOMAIN rows, todo : SUBSET DOMAIN rows, stamped : SUBSET DOMAIN rows]
      /\ t.locked = {} /\ t.stamped = {}
  BY <1>4, RelayFields DEF OutboxIInv, NoTransaction
<1> QED
  BY <1>1, <1>2, <1>3, <1>4, <1>5, RelayKeeps

-----------------------------------------------------------------------------
(***************************************************************************)
(* The theorems.                                                           *)
(***************************************************************************)

\* OutboxIInv holds in every reachable state of the relays: FOR UPDATE SKIP
\* LOCKED gives each unpublished row to one transaction at a time.
THEOREM OutboxInvariant == OutboxSpec => []OutboxIInv
<1>1. OutboxInit => OutboxIInv
  <2> SUFFICES ASSUME OutboxInit PROVE OutboxIInv
    OBVIOUS
  <2>1. OutboxTypeOK
    BY NoTransactionType DEF OutboxInit, OutboxTypeOK
  <2>2. LocksExclusive /\ TransactionsTrue /\ StampedWasSent
    BY DEF OutboxInit, LocksExclusive, TransactionsTrue, StampedWasSent, NoTransaction
  <2> QED
    BY <2>1, <2>2 DEF OutboxIInv
<1>2. OutboxIInv /\ [OutboxNext]_OutboxVars => OutboxIInv'
  <2> SUFFICES ASSUME OutboxIInv, [OutboxNext]_OutboxVars PROVE OutboxIInv'
    OBVIOUS
  <2>1. CASE OutboxNext
    BY <2>1, InsertKeeps, SelectKeeps, PublishKeeps, EndKeeps DEF OutboxNext, Relay, Failure
  <2>2. CASE UNCHANGED OutboxVars
    <3>1. UNCHANGED <<rows, published, relay, topic, failures>> /\ Sent' = Sent
      BY <2>2, SameTopic DEF OutboxVars
    <3> QED
      BY <3>1 DEF OutboxIInv, OutboxTypeOK, LocksExclusive, TransactionsTrue, StampedWasSent
  <2> QED
    BY <2>1, <2>2
<1> QED
  BY <1>1, <1>2, PTL DEF OutboxSpec

\* publishedAt is stamped only after a successful publish: no event that the
\* relay has done with is missing from the topic.
THEOREM NothingDropped == OutboxSpec => []StampedWasSent
<1>1. OutboxIInv => StampedWasSent
  BY DEF OutboxIInv
<1> QED
  BY <1>1, OutboxInvariant, PTL

-----------------------------------------------------------------------------
(***************************************************************************)
(* How often a row is sent.  Every copy of a row on the topic beyond the   *)
(* first is paid for by a failure, and so is one still to come from a      *)
(* relay that has lost its locks (Blind).  The first is the one whose      *)
(* stamp is kept, by a committed transaction or by one that still may be.  *)
(***************************************************************************)

Copies(a, i) == {k \in DOMAIN topic[a] : topic[a][k] = i}
Blind(i) == {r \in Relays : relay[r].locked = {} /\ i \in relay[r].todo}
Stamped(i) == i \in published \/ \E r \in Relays : i \in relay[r].stamped
Kept(i) == IF Stamped(i) THEN 1 ELSE 0

CopiesPaid ==
    \A a \in Aggregates, i \in DOMAIN rows :
        /\ IsFiniteSet(Blind(i))
        /\ Cardinality(Copies(a, i)) + Cardinality(Blind(i)) <= failures + Kept(i)

\* What is still to be tried has no stamp yet.
Unstamped == \A r \in Relays : relay[r].todo \cap relay[r].stamped = {}

\* One element more or less.
LEMMA OneMore ==
    ASSUME NEW S, IsFiniteSet(S), NEW x
    PROVE  /\ IsFiniteSet(S \cup {x}) /\ Cardinality(S \cup {x}) \in Nat
           /\ Cardinality(S \cup {x}) <= Cardinality(S) + 1
<1>1. Cardinality(S) \in Nat
  BY FS_CardinalityType
<1>2. /\ IsFiniteSet(S \cup {x})
      /\ Cardinality(S \cup {x}) = IF x \in S THEN Cardinality(S) ELSE Cardinality(S) + 1
  BY FS_AddElement
<1> QED
  BY <1>1, <1>2

LEMMA OneLess ==
    ASSUME NEW S, IsFiniteSet(S), NEW x
    PROVE  /\ IsFiniteSet(S \ {x}) /\ Cardinality(S \ {x}) \in Nat
           /\ Cardinality(S \ {x}) <= Cardinality(S)
           /\ x \in S => Cardinality(S \ {x}) = Cardinality(S) - 1
<1>1. Cardinality(S) \in Nat
  BY FS_CardinalityType
<1>2. /\ IsFiniteSet(S \ {x})
      /\ Cardinality(S \ {x}) = IF x \in S THEN Cardinality(S) - 1 ELSE Cardinality(S)
  BY FS_RemoveElement
<1>3. Cardinality(S \ {x}) \in Nat
  BY <1>2, FS_CardinalityType
<1> QED
  BY <1>1, <1>2, <1>3

LEMMA CopiesFinite ==
    ASSUME OutboxTypeOK, NEW a \in Aggregates, NEW i
    PROVE  IsFiniteSet(Copies(a, i)) /\ Cardinality(Copies(a, i)) \in Nat
<1>1. topic[a] \in Seq(DOMAIN rows)
  BY DEF OutboxTypeOK
<1>2. Len(topic[a]) \in Nat /\ DOMAIN topic[a] = 1 .. Len(topic[a])
  BY <1>1
<1>3. IsFiniteSet(1 .. Len(topic[a]))
  BY <1>2, FS_Interval
<1>4. Copies(a, i) \in SUBSET (1 .. Len(topic[a]))
  BY <1>2 DEF Copies
<1> QED
  BY <1>3, <1>4, FS_Subset, FS_CardinalityType

\* Sending row j adds a copy of j and of no other row.
LEMMA SendCounts ==
    ASSUME OutboxTypeOK, NEW j \in DOMAIN rows, Send(j),
           NEW a \in Aggregates, NEW i \in DOMAIN rows
    PROVE  /\ Cardinality(Copies(a, i)') \in Nat
           /\ Cardinality(Copies(a, i)') <= Cardinality(Copies(a, i)) + 1
           /\ i # j => Cardinality(Copies(a, i)') = Cardinality(Copies(a, i))
<1> DEFINE s == topic[a]
           n == Append(s, j)
<1>1. s \in Seq(DOMAIN rows) /\ rows[j] \in Aggregates
  BY ElementOfSeq DEF OutboxTypeOK
<1>2. topic'[a] = IF a = rows[j] THEN n ELSE s
  BY <1>1 DEF OutboxTypeOK, Send
<1>3. /\ Len(s) \in Nat /\ Len(n) = Len(s) + 1
      /\ DOMAIN n = 1 .. Len(s) + 1 /\ DOMAIN s = 1 .. Len(s)
      /\ \A k \in 1 .. Len(s) : n[k] = s[k]
      /\ n[Len(s) + 1] = j
  BY <1>1
<1>4. \/ Copies(a, i)' = Copies(a, i)
      \/ i = j /\ Copies(a, i)' = Copies(a, i) \cup {Len(s) + 1}
  <2> HIDE DEF n, s
  <2>1. CASE a # rows[j]
    BY <1>2, <2>1 DEF Copies, s
  <2>2. CASE a = rows[j]
    <3>1. Copies(a, i)' = {k \in DOMAIN n : n[k] = i}
      BY <1>2, <2>2 DEF Copies
    <3>2. Copies(a, i) = {k \in DOMAIN s : s[k] = i}
      BY DEF Copies, s
    <3> QED BY <1>3, <3>1, <3>2
  <2> QED BY <2>1, <2>2
<1>5. IsFiniteSet(Copies(a, i)) /\ Cardinality(Copies(a, i)) \in Nat
  BY CopiesFinite
<1>6. ASSUME NEW x
      PROVE  /\ Cardinality(Copies(a, i) \cup {x}) \in Nat
             /\ Cardinality(Copies(a, i) \cup {x}) <= Cardinality(Copies(a, i)) + 1
  BY <1>5, OneMore
<1>7. CASE Copies(a, i)' = Copies(a, i)
  <2> DEFINE c == Copies(a, i)
             d == Copies(a, i)'
  <2>1. d = c /\ Cardinality(c) \in Nat
    BY <1>5, <1>7
  <2> HIDE DEF c, d
  <2>2. /\ Cardinality(d) \in Nat /\ Cardinality(d) <= Cardinality(c) + 1
        /\ Cardinality(d) = Cardinality(c)
    BY <2>1
  <2> QED BY <2>2 DEF c, d
<1>8. CASE i = j /\ Copies(a, i)' = Copies(a, i) \cup {Len(s) + 1}
  BY <1>6, <1>8
<1> QED
  BY <1>4, <1>7, <1>8

\* A step of relay r changes what is blind at r only.
LEMMA BlindCounts ==
    ASSUME OutboxTypeOK, NEW r \in Relays, NEW t, relay' = [relay EXCEPT ![r] = t],
           NEW i, IsFiniteSet(Blind(i))
    PROVE  /\ IsFiniteSet(Blind(i)') /\ Cardinality(Blind(i)) \in Nat
           /\ Cardinality(Blind(i)') \in Nat
           /\ Cardinality(Blind(i)') <= Cardinality(Blind(i)) + 1
           /\ t.locked # {} \/ i \notin t.todo => Cardinality(Blind(i)') <= Cardinality(Blind(i))
           /\ r \in Blind(i) /\ i \notin t.todo => Cardinality(Blind(i)') = Cardinality(Blind(i)) - 1
<1>1. relay'[r] = t /\ \A q \in Relays \ {r} : relay'[q] = relay[q]
  BY DEF OutboxTypeOK
<1>2. CASE t.locked = {} /\ i \in t.todo
  <2>1. Blind(i)' = Blind(i) \cup {r}
    BY <1>1, <1>2 DEF Blind
  <2>2. /\ IsFiniteSet(Blind(i) \cup {r}) /\ Cardinality(Blind(i)) \in Nat
        /\ Cardinality(Blind(i) \cup {r}) \in Nat
        /\ Cardinality(Blind(i) \cup {r}) <= Cardinality(Blind(i)) + 1
    BY OneMore, FS_CardinalityType
  <2> QED BY <1>2, <2>1, <2>2
<1>3. CASE t.locked # {} \/ i \notin t.todo
  <2>1. Blind(i)' = Blind(i) \ {r}
    BY <1>1, <1>3 DEF Blind
  <2>2. /\ IsFiniteSet(Blind(i) \ {r}) /\ Cardinality(Blind(i)) \in Nat
        /\ Cardinality(Blind(i) \ {r}) \in Nat
        /\ Cardinality(Blind(i) \ {r}) <= Cardinality(Blind(i))
        /\ r \in Blind(i) => Cardinality(Blind(i) \ {r}) = Cardinality(Blind(i)) - 1
    BY OneLess, FS_CardinalityType
  <2> QED BY <2>1, <2>2
<1> QED
  BY <1>2, <1>3

LEMMA InsertPaid ==
    ASSUME OutboxIInv, CopiesPaid, Unstamped, NEW b \in Aggregates, Insert(b)
    PROVE  CopiesPaid' /\ Unstamped'
<1>1. /\ rows \in Seq(Aggregates) /\ Len(rows) \in Nat
      /\ topic \in [Aggregates -> Seq(DOMAIN rows)] /\ failures \in Nat
  BY DEF OutboxIInv, OutboxTypeOK
<1>2. UNCHANGED <<published, relay, topic, failures>> /\ DOMAIN rows' = DOMAIN rows \cup {Len(rows) + 1}
      /\ Len(rows) + 1 \notin DOMAIN rows
  BY <1>1 DEF Insert
<1>3. \A a, i : Copies(a, i)' = Copies(a, i) /\ Blind(i)' = Blind(i) /\ Kept(i)' = Kept(i)
  BY <1>2 DEF Copies, Blind, Kept, Stamped
<1>4. ASSUME NEW a \in Aggregates, NEW i, i \notin DOMAIN rows
      PROVE  Copies(a, i) = {} /\ Blind(i) = {}
  <2>1. \A k \in DOMAIN topic[a] : topic[a][k] \in DOMAIN rows
    BY <1>1, ElementOfSeq
  <2>2. \A r \in Relays : i \notin relay[r].todo
    BY <1>4, RelayFields DEF OutboxIInv
  <2> QED BY <1>4, <2>1, <2>2 DEF Copies, Blind
<1>5. Kept(Len(rows) + 1) \in {0, 1}
  BY DEF Kept
<1>6. Unstamped'
  BY <1>2 DEF Unstamped
<1>7. ASSUME NEW a \in Aggregates, NEW i \in DOMAIN rows'
      PROVE  /\ IsFiniteSet(Blind(i))
             /\ Cardinality(Copies(a, i)) + Cardinality(Blind(i)) <= failures + Kept(i)
  <2>1. CASE i \in DOMAIN rows
    BY <2>1 DEF CopiesPaid
  <2>2. CASE i \notin DOMAIN rows
    <3>1. Copies(a, i) = {} /\ Blind(i) = {} /\ Kept(i) \in {0, 1}
      BY <1>4, <2>2 DEF Kept
    <3>2. IsFiniteSet({}) /\ Cardinality({}) = 0
      BY FS_EmptySet
    <3>3. Cardinality(Copies(a, i)) = 0 /\ Cardinality(Blind(i)) = 0 /\ IsFiniteSet(Blind(i))
      BY <3>1, <3>2
    <3> QED BY <1>1, <3>1, <3>3
  <2> QED BY <2>1, <2>2
<1> QED
  BY <1>2, <1>3, <1>6, <1>7 DEF CopiesPaid

\* What a step of relay r does to the stamps.
LEMMA KeptStep ==
    ASSUME OutboxTypeOK, NEW r \in Relays, NEW t, relay' = [relay EXCEPT ![r] = t],
           published \subseteq published', NEW i
    PROVE  /\ Kept(i) \in {0, 1} /\ Kept(i)' \in {0, 1}
           /\ i \in t.stamped => Kept(i)' = 1
           /\ (i \in relay[r].stamped => i \in t.stamped \/ i \in published') => Kept(i)' >= Kept(i)
<1>1. relay'[r] = t /\ \A q \in Relays \ {r} : relay'[q] = relay[q]
  BY DEF OutboxTypeOK
<1>2. i \in t.stamped => Stamped(i)'
  BY <1>1 DEF Stamped
<1>3. (i \in relay[r].stamped => i \in t.stamped \/ i \in published') /\ Stamped(i) => Stamped(i)'
  BY <1>1 DEF Stamped
<1> QED
  BY <1>2, <1>3 DEF Kept, Stamped

\* Nobody holds a stamp of a row that a transaction has still to try.
LEMMA TodoNotKept ==
    ASSUME OutboxIInv, Unstamped, NEW r \in Relays, relay[r].locked # {},
           NEW i \in relay[r].todo
    PROVE  Kept(i) = 0
<1>1. i \in relay[r].locked /\ i \notin relay[r].stamped
  BY DEF OutboxIInv, TransactionsTrue, Unstamped
<1>2. i \notin published
  BY <1>1 DEF OutboxIInv, LocksExclusive
<1>3. ASSUME NEW q \in Relays \ {r} PROVE i \notin relay[q].stamped
  <2>1. relay[q].locked \cap relay[r].locked = {} /\ relay[q].stamped \subseteq relay[q].locked
    BY DEF OutboxIInv, LocksExclusive, TransactionsTrue
  <2> QED BY <1>1, <2>1
<1> QED
  BY <1>1, <1>2, <1>3 DEF Kept, Stamped

\* The transactions between which a relay's steps move.
LEMMA RelayMoves ==
    ASSUME OutboxIInv, Unstamped, NEW r \in Relays, Relay(r) \/ Failure(r)
    PROVE  /\ rows' = rows /\ published \subseteq published'
           /\ failures' \in Nat
           /\ \E t : /\ relay' = [relay EXCEPT ![r] = t]
                     /\ t.todo \cap t.stamped = {}
<1>1. rows' = rows /\ published \subseteq published' /\ failures' \in Nat
  BY DEF Relay, Failure, Select, PublishRow, PublishUnlocked, CommitBatch, PublishFails,
     Crash, LoseConnection, OutboxIInv, OutboxTypeOK
<1>2. /\ NoTransaction.todo \cap NoTransaction.stamped = {}
      /\ \A b : [locked |-> b, todo |-> b, stamped |-> {}].todo
                   \cap [locked |-> b, todo |-> b, stamped |-> {}].stamped = {}
      /\ \A i : [locked |-> {}, todo |-> {i}, stamped |-> {}].todo
                   \cap [locked |-> {}, todo |-> {i}, stamped |-> {}].stamped = {}
  BY DEF NoTransaction
<1>3. ASSUME NEW i \in relay[r].todo
      PROVE  /\ Stamp(relay[r], i).todo \cap Stamp(relay[r], i).stamped = {}
             /\ Skip(relay[r], i).todo \cap Skip(relay[r], i).stamped = {}
  BY RelayFields DEF OutboxIInv, Unstamped, Stamp, Skip
<1>4. CASE Relay(r)
  BY <1>1, <1>2, <1>3, <1>4 DEF Relay, Select, PublishRow, PublishUnlocked, CommitBatch
<1>5. CASE Failure(r)
  BY <1>1, <1>2, <1>3, <1>5 DEF Failure, PublishFails, Crash, LoseConnection
<1> QED
  BY <1>1, <1>4, <1>5

\* Each step of a relay, for one row.
LEMMA RelayPaid ==
    ASSUME OutboxIInv, CopiesPaid, Unstamped, NEW r \in Relays, Relay(r) \/ Failure(r),
           NEW a \in Aggregates, NEW i \in DOMAIN rows
    PROVE  /\ IsFiniteSet(Blind(i)')
           /\ Cardinality(Copies(a, i)') + Cardinality(Blind(i)') <= failures' + Kept(i)'
<1> DEFINE h == relay[r]
           c == Cardinality(Copies(a, i))
           b == Cardinality(Blind(i))
<1>1. /\ OutboxTypeOK /\ IsFiniteSet(Blind(i)) /\ c + b <= failures + Kept(i)
      /\ c \in Nat /\ b \in Nat /\ failures \in Nat
  BY CopiesFinite, FS_CardinalityType DEF OutboxIInv, OutboxTypeOK, CopiesPaid
<1>2. /\ h \in [locked : SUBSET DOMAIN rows, todo : SUBSET DOMAIN rows, stamped : SUBSET DOMAIN rows]
      /\ h.stamped \subseteq h.locked
  BY <1>1, RelayFields DEF OutboxIInv, TransactionsTrue
<1>3. topic' = topic => Copies(a, i)' = Copies(a, i)
  BY DEF Copies
<1>4. ASSUME NEW j \in h.todo, Send(j)
      PROVE  /\ Cardinality(Copies(a, i)') \in Nat /\ Cardinality(Copies(a, i)') <= c + 1
             /\ i # j => Cardinality(Copies(a, i)') = c
  BY <1>1, <1>2, <1>4, SendCounts
<1>5. NoTransaction.locked = {} /\ NoTransaction.todo = {} /\ NoTransaction.stamped = {}
  BY DEF NoTransaction
<1>6. CASE Select(r)
  <2>1. PICK s : /\ relay' = [relay EXCEPT ![r] = [locked |-> s, todo |-> s, stamped |-> {}]]
                 /\ s # {}
    BY <1>6 DEF Select
  <2> DEFINE t == [locked |-> s, todo |-> s, stamped |-> {}]
  <2>2. /\ topic' = topic /\ failures' = failures /\ published' = published /\ h.stamped = {}
        /\ t.locked # {} /\ relay' = [relay EXCEPT ![r] = t]
    BY <1>5, <1>6, <2>1 DEF Select
  <2> HIDE DEF t
  <2>3. Kept(i)' >= Kept(i) /\ Kept(i) \in {0, 1} /\ Kept(i)' \in {0, 1}
    BY <1>1, <2>2, KeptStep
  <2>4. /\ IsFiniteSet(Blind(i)') /\ Cardinality(Blind(i)') \in Nat
        /\ Cardinality(Blind(i)') <= b
    BY <1>1, <2>2, BlindCounts
  <2> HIDE DEF b, c
  <2> QED BY <1>1, <1>3, <2>2, <2>3, <2>4 DEF c
<1>7. CASE PublishRow(r)
  <2>1. PICK j \in h.todo : Send(j) /\ relay' = [relay EXCEPT ![r] = Stamp(h, j)]
    BY <1>7 DEF PublishRow
  <2> DEFINE t == Stamp(h, j)
  <2>2. /\ failures' = failures /\ published' = published /\ h.locked # {}
        /\ t.locked = h.locked /\ t.stamped = h.stamped \cup {j}
    BY <1>2, <1>7 DEF PublishRow, Stamp
  <2>3. relay' = [relay EXCEPT ![r] = t]
    BY <2>1
  <2> HIDE DEF t
  <2>4. /\ Kept(i)' >= Kept(i) /\ Kept(i) \in {0, 1} /\ Kept(i)' \in {0, 1}
        /\ i = j => Kept(i)' = 1
    BY <1>1, <2>2, <2>3, KeptStep
  <2>5. i = j => Kept(i) = 0
    BY <2>1, <2>2, TodoNotKept
  <2>6. /\ IsFiniteSet(Blind(i)') /\ Cardinality(Blind(i)') \in Nat
        /\ Cardinality(Blind(i)') <= b
    BY <1>1, <2>2, <2>3, BlindCounts
  <2>7. /\ Cardinality(Copies(a, i)') \in Nat /\ Cardinality(Copies(a, i)') <= c + 1
        /\ i # j => Cardinality(Copies(a, i)') = c
    BY <1>4, <2>1
  <2> HIDE DEF b, c
  <2> QED BY <1>1, <2>2, <2>4, <2>5, <2>6, <2>7
<1>8. CASE PublishFails(r)
  <2>1. PICK j \in h.todo : /\ Send(j) \/ topic' = topic
                            /\ relay' = [relay EXCEPT ![r] = Skip(h, j)]
    BY <1>8 DEF PublishFails
  <2> DEFINE t == Skip(h, j)
  <2>2. /\ failures' = failures + 1 /\ published' = published /\ h.locked # {}
        /\ t.locked = h.locked /\ t.stamped = h.stamped
    BY <1>2, <1>8 DEF PublishFails, Skip
  <2>3. relay' = [relay EXCEPT ![r] = t]
    BY <2>1
  <2> HIDE DEF t
  <2>4. Kept(i)' >= Kept(i) /\ Kept(i) \in {0, 1} /\ Kept(i)' \in {0, 1}
    BY <1>1, <2>2, <2>3, KeptStep
  <2>5. /\ IsFiniteSet(Blind(i)') /\ Cardinality(Blind(i)') \in Nat
        /\ Cardinality(Blind(i)') <= b
    BY <1>1, <2>2, <2>3, BlindCounts
  <2>6. Cardinality(Copies(a, i)') \in Nat /\ Cardinality(Copies(a, i)') <= c + 1
    BY <1>1, <1>3, <1>4, <2>1
  <2> HIDE DEF b, c
  <2> QED BY <1>1, <2>2, <2>4, <2>5, <2>6
<1>9. CASE CommitBatch(r) \/ Crash(r)
  <2>1. /\ relay' = [relay EXCEPT ![r] = NoTransaction] /\ topic' = topic
        /\ published \subseteq published'
        /\ \/ failures' = failures /\ h.stamped \subseteq published'
           \/ failures' = failures + 1
    BY <1>9 DEF CommitBatch, Crash
  <2>2. /\ Kept(i) \in {0, 1} /\ Kept(i)' \in {0, 1}
        /\ h.stamped \subseteq published' => Kept(i)' >= Kept(i)
    BY <1>1, <2>1, KeptStep
  <2>3. /\ IsFiniteSet(Blind(i)') /\ Cardinality(Blind(i)') \in Nat
        /\ Cardinality(Blind(i)') <= b
    BY <1>1, <1>5, <2>1, BlindCounts
  <2> HIDE DEF b, c
  <2> QED BY <1>1, <1>3, <2>1, <2>2, <2>3 DEF c
<1>10. CASE LoseConnection(r)
  <2>1. PICK j \in h.todo :
           relay' = [relay EXCEPT ![r] = [locked |-> {}, todo |-> {j}, stamped |-> {}]]
    BY <1>10 DEF LoseConnection
  <2> DEFINE t == [locked |-> {}, todo |-> {j}, stamped |-> {}]
  <2>2. /\ topic' = topic /\ failures' = failures + 1 /\ published' = published
        /\ relay' = [relay EXCEPT ![r] = t] /\ t.todo = {j}
    BY <1>10, <2>1 DEF LoseConnection
  <2> HIDE DEF t
  <2>3. /\ Kept(i) \in {0, 1} /\ Kept(i)' \in {0, 1}
        /\ i \notin h.stamped => Kept(i)' >= Kept(i)
    BY <1>1, <2>2, KeptStep
  <2>4. i = j => i \notin h.stamped
    BY DEF Unstamped
  <2>5. /\ IsFiniteSet(Blind(i)') /\ Cardinality(Blind(i)') \in Nat
        /\ Cardinality(Blind(i)') <= b + 1
        /\ i # j => Cardinality(Blind(i)') <= b
    BY <1>1, <2>2, BlindCounts
  <2> HIDE DEF b, c
  <2> QED BY <1>1, <1>3, <2>2, <2>3, <2>4, <2>5 DEF c
<1>11. CASE PublishUnlocked(r)
  <2>1. PICK j \in h.todo : Send(j) /\ relay' = [relay EXCEPT ![r] = NoTransaction]
    BY <1>11 DEF PublishUnlocked
  <2>2. /\ failures' = failures /\ published' = published /\ h.locked = {} /\ h.stamped = {}
    BY <1>2, <1>11 DEF PublishUnlocked
  <2>3. Kept(i)' >= Kept(i) /\ Kept(i) \in {0, 1} /\ Kept(i)' \in {0, 1}
    BY <1>1, <2>1, <2>2, KeptStep
  <2>4. i = j => r \in Blind(i)
    BY <2>1, <2>2 DEF Blind
  <2>5. /\ IsFiniteSet(Blind(i)') /\ Cardinality(Blind(i)') \in Nat
        /\ Cardinality(Blind(i)') <= b
        /\ r \in Blind(i) => Cardinality(Blind(i)') = b - 1
    BY <1>1, <1>5, <2>1, BlindCounts
  <2>6. /\ Cardinality(Copies(a, i)') \in Nat /\ Cardinality(Copies(a, i)') <= c + 1
        /\ i # j => Cardinality(Copies(a, i)') = c
    BY <1>4, <2>1
  <2> HIDE DEF b, c
  <2> QED BY <1>1, <2>2, <2>3, <2>4, <2>5, <2>6
<1> QED
  BY <1>6, <1>7, <1>8, <1>9, <1>10, <1>11 DEF Relay, Failure

\* A row is sent twice only after a failure, and once more per failure: polling
\* replicas and overlapping ticks by themselves repeat nothing.
THEOREM SentOnce == OutboxSpec => []SentOncePerFailure
<1>1. OutboxInit => CopiesPaid /\ Unstamped
  <2> SUFFICES ASSUME OutboxInit PROVE CopiesPaid /\ Unstamped
    OBVIOUS
  <2>1. DOMAIN rows = {}
    BY DEF OutboxInit
  <2> QED BY <2>1 DEF OutboxInit, CopiesPaid, Unstamped, NoTransaction
<1>2. OutboxIInv /\ CopiesPaid /\ Unstamped /\ [OutboxNext]_OutboxVars => CopiesPaid' /\ Unstamped'
  <2> SUFFICES ASSUME OutboxIInv, CopiesPaid, Unstamped, [OutboxNext]_OutboxVars
               PROVE  CopiesPaid' /\ Unstamped'
    OBVIOUS
  <2>1. ASSUME NEW r \in Relays, Relay(r) \/ Failure(r) PROVE CopiesPaid' /\ Unstamped'
    <3>1. PICK t : /\ relay' = [relay EXCEPT ![r] = t]
                   /\ t.todo \cap t.stamped = {}
                   /\ rows' = rows
      BY <2>1, RelayMoves
    <3>2. Unstamped'
      BY <3>1 DEF Unstamped, OutboxIInv, OutboxTypeOK
    <3> QED BY <2>1, <3>1, <3>2, RelayPaid DEF CopiesPaid
  <2>2. CASE UNCHANGED OutboxVars
    <3>1. UNCHANGED <<rows, published, relay, topic, failures>>
      BY <2>2 DEF OutboxVars
    <3>2. \A a, i : Copies(a, i)' = Copies(a, i) /\ Blind(i)' = Blind(i) /\ Kept(i)' = Kept(i)
      BY <3>1 DEF Copies, Blind, Kept, Stamped
    <3> QED BY <3>1, <3>2 DEF CopiesPaid, Unstamped
  <2> QED
    BY <2>1, <2>2, InsertPaid DEF OutboxNext
<1>3. OutboxIInv /\ CopiesPaid => SentOncePerFailure
  <2> SUFFICES ASSUME OutboxIInv, CopiesPaid, NEW a \in Aggregates, NEW i \in DOMAIN rows
               PROVE  Cardinality(Copies(a, i)) <= 1 + failures
    BY DEF SentOncePerFailure, Copies
  <2>1. /\ Cardinality(Copies(a, i)) + Cardinality(Blind(i)) <= failures + Kept(i)
        /\ Cardinality(Copies(a, i)) \in Nat /\ Cardinality(Blind(i)) \in Nat
        /\ failures \in Nat
    BY CopiesFinite, FS_CardinalityType DEF OutboxIInv, OutboxTypeOK, CopiesPaid
  <2>2. Kept(i) \in {0, 1}
    BY DEF Kept
  <2> QED BY <2>1, <2>2
<1> QED
  BY <1>1, <1>2, <1>3, OutboxInvariant, PTL DEF OutboxSpec
=============================================================================
