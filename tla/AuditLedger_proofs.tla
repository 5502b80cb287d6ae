--------------------------- MODULE AuditLedger_proofs ---------------------------
(***************************************************************************)
(* Proofs about AuditLedger: a group that subscribes from the beginning    *)
(* loses nothing and keeps its trail in the order of the log, for any      *)
(* partitions, workers, messages and faults.  A group that reads from      *)
(* anywhere, with either loop, commits nothing that it has not handled     *)
(* once it has an offset to restart from (GroupInv, CommitsCoverWork).     *)
(***************************************************************************)
EXTENDS AuditLedger, SequenceTheorems, TLAPS

-----------------------------------------------------------------------------
(***************************************************************************)
(* The trail only grows, so what is recorded stays recorded.               *)
(***************************************************************************)

\* Every row names a partition and an offset.
LEMMA EffectsTyped ==
    ASSUME handled \in Seq(Effect), NEW i \in DOMAIN handled
    PROVE  handled[i].partition \in Partitions /\ handled[i].offset \in Nat
<1>1. handled[i] \in Effect BY ElementOfSeq, LenProperties
<1> QED BY <1>1 DEF Effect

\* A row of audit_log is never removed.
LEMMA DoneStays ==
    ASSUME TypeOK, NEW e \in Effect, handled' \in {handled, Append(handled, e)},
           NEW p, NEW n, Done(p, n)
    PROVE  Done(p, n)'
<1>1. PICK i \in DOMAIN handled : handled[i] = [partition |-> p, offset |-> n]
  BY DEF Done
<1>2. handled \in Seq(Effect) BY DEF TypeOK
<1>3. i \in 1 .. Len(handled) BY <1>1, <1>2
<1>4. i \in DOMAIN handled' /\ handled'[i] = handled[i]
  <2>1. CASE handled' = handled BY <1>1, <2>1
  <2>2. CASE handled' = Append(handled, e) BY <1>2, <1>3, <2>2, AppendProperties
  <2> QED BY <2>1, <2>2
<1> QED BY <1>1, <1>4 DEF Done

\* A prefix of the log that was recorded stays recorded.
LEMMA DoneBelowStays ==
    ASSUME TypeOK, NEW e \in Effect, handled' \in {handled, Append(handled, e)},
           log' = log, NEW p, NEW n, DoneBelow(p, n)
    PROVE  DoneBelow(p, n)'
<1> SUFFICES ASSUME NEW k \in 0 .. n - 1, MessageAt(p, k)' = "message" PROVE Done(p, k)'
  BY DEF DoneBelow
<1>1. MessageAt(p, k) = "message"
  BY DEF MessageAt
<1>2. Done(p, k)
  BY <1>1 DEF DoneBelow
<1> QED BY <1>2, DoneStays

\* If the effects and the log are unchanged, so is what depends on them only.
LEMMA RecordUnchanged ==
    ASSUME UNCHANGED <<log, handled>>
    PROVE  /\ \A p, n : DoneBelow(p, n)' <=> DoneBelow(p, n)
           /\ \A p, n : MessageAt(p, n)' = MessageAt(p, n)
           /\ \A p : Offsets(p)' = Offsets(p)
           /\ TrailTrue => TrailTrue'
           /\ TrailInOrder => TrailInOrder'
BY DEF DoneBelow, Done, MessageAt, Offsets, TrailTrue, TrailInOrder

\* A longer prefix is recorded if the message it ends with is, or needs not be.
LEMMA DoneBelowNext ==
    ASSUME NEW p, NEW n \in Nat, DoneBelow(p, n),
           MessageAt(p, n) = "message" => Done(p, n)
    PROVE  DoneBelow(p, n + 1)
<1> SUFFICES ASSUME NEW k \in 0 .. n, MessageAt(p, k) = "message" PROVE Done(p, k)
  BY DEF DoneBelow
<1>1. CASE k = n BY <1>1
<1>2. CASE k # n BY <1>2 DEF DoneBelow
<1> QED BY <1>1, <1>2
-----------------------------------------------------------------------------
(***************************************************************************)
(* One lemma per action.                                                   *)
(***************************************************************************)

\* The tables are empty at first.
LEMMA InitIInv == Init => IInv
<1> SUFFICES ASSUME Init PROVE IInv OBVIOUS
<1>1. TypeOK BY GroupAssumption DEF Init, TypeOK, NoOffset
<1>2. OwnersTrue BY DEF Init, OwnersTrue, Owner
<1>3. PositionsTrue
  <2> SUFFICES ASSUME NEW p \in Partitions
               PROVE  committed[p] <= position[p] /\ position[p] <= Len(log[p])
                      /\ DoneBelow(p, position[p])
    BY DEF PositionsTrue
  <2>1. committed[p] = -1 /\ position[p] = 0 /\ log[p] = <<>> BY DEF Init, NoOffset
  <2>2. DoneBelow(p, 0) BY DEF DoneBelow
  <2> QED BY <2>1, <2>2
<1>4. HandlersTrue BY DEF Init, HandlersTrue
<1>5. TrailTrue /\ TrailInOrder BY DEF Init, TrailTrue, TrailInOrder
<1> QED BY <1>1, <1>2, <1>3, <1>4, <1>5 DEF IInv

\* A new message comes after everything that was read.
LEMMA PublishStep ==
    ASSUME IInv, NEW p \in Partitions, NEW m \in Messages, Publish(p, m) PROVE IInv'
<1> USE DEF IInv
<1>1. TypeOK' BY DEF TypeOK, Publish
<1>2. \A q \in Partitions :
        /\ Len(log[q]) \in Nat /\ Len(log[q]) <= Len(log'[q])
        /\ \A n \in Offsets(q) : n \in Offsets(q)' /\ MessageAt(q, n)' = MessageAt(q, n)
  BY DEF TypeOK, Publish, Offsets, MessageAt
<1>3. \A q \in Partitions, n \in Nat : n <= Len(log[q]) /\ DoneBelow(q, n) => DoneBelow(q, n)'
  <2> SUFFICES ASSUME NEW q \in Partitions, NEW n \in Nat, n <= Len(log[q]), DoneBelow(q, n),
                      NEW k \in 0 .. n - 1, MessageAt(q, k)' = "message"
               PROVE  Done(q, k)'
    BY DEF DoneBelow
  <2>1. k \in Offsets(q) BY <1>2 DEF Offsets
  <2>2. Done(q, k) BY <2>1, <1>2 DEF DoneBelow
  <2> QED BY <2>2 DEF Done, Publish
<1>4. OwnersTrue' BY DEF OwnersTrue, Owner, Publish
<1>5. PositionsTrue' BY <1>2, <1>3 DEF PositionsTrue, TypeOK, Publish
<1>6. HandlersTrue'
  <2> SUFFICES ASSUME NEW w \in Workers, handler[w] # Idle
               PROVE  LET h == handler[w]
                      IN  /\ h.offset \in Offsets(h.partition)'
                          /\ DoneBelow(h.partition, h.offset)'
                          /\ h.pc = "handle" => MessageAt(h.partition, h.offset)' = "message"
                          /\ h.pc = "commit" => DoneBelow(h.partition, h.offset + 1)'
    BY DEF HandlersTrue, Publish, DoneBelow, Done, MessageAt, Offsets
  <2> DEFINE q == handler[w].partition
             n == handler[w].offset
  <2>0. q' = q /\ n' = n /\ handler' = handler BY DEF Publish
  <2>1. handler[w] \in Handler BY DEF TypeOK
  <2>2. q \in Partitions /\ n \in Nat BY <2>1 DEF Handler
  <2>3. n \in Offsets(q) /\ DoneBelow(q, n)
        /\ (handler[w].pc = "handle" => MessageAt(q, n) = "message")
        /\ (handler[w].pc = "commit" => DoneBelow(q, n + 1))
    BY DEF HandlersTrue
  <2>4. n + 1 \in Nat /\ n <= Len(log[q]) /\ n + 1 <= Len(log[q])
    BY <1>2, <2>2, <2>3 DEF Offsets
  <2>5. DoneBelow(q, n)' /\ (handler[w].pc = "commit" => DoneBelow(q, n + 1)')
    <3> HIDE DEF q, n
    <3> QED BY <1>3, <2>2, <2>3, <2>4, <2>0
  <2> QED BY <1>2, <2>2, <2>3, <2>5, <2>0
<1>7. TrailTrue'
  <2> SUFFICES ASSUME NEW i \in DOMAIN handled
               PROVE  LET e == handled[i]
                      IN  /\ e.offset \in Offsets(e.partition)'
                          /\ MessageAt(e.partition, e.offset)' = "message"
                          /\ DoneBelow(e.partition, e.offset)'
    BY DEF TrailTrue, Publish, DoneBelow, Done, MessageAt, Offsets
  <2> DEFINE q == handled[i].partition
             n == handled[i].offset
  <2>0. q' = q /\ n' = n /\ handled' = handled BY DEF Publish
  <2>1. q \in Partitions /\ n \in Nat BY EffectsTyped DEF TypeOK
  <2>2. n \in Offsets(q) /\ MessageAt(q, n) = "message" /\ DoneBelow(q, n)
    BY DEF TrailTrue
  <2>3. n <= Len(log[q]) BY <1>2, <2>1, <2>2 DEF Offsets
  <2>4. DoneBelow(q, n)'
    <3> HIDE DEF q, n
    <3> QED BY <1>3, <2>1, <2>2, <2>3, <2>0
  <2> QED BY <1>2, <2>1, <2>2, <2>4, <2>0
<1>8. TrailInOrder' BY DEF TrailInOrder, Publish
<1> QED BY <1>1, <1>4, <1>5, <1>6, <1>7, <1>8

\* A worker takes the message at the position of a partition nobody owns: what
\* is below it is recorded.
LEMMA TakeStep ==
    ASSUME IInv, NEW w \in Workers, NEW p \in Partitions, NEW m, NEW pc \in {"handle", "commit"},
           Ready(w, p, m), handler' = [handler EXCEPT ![w] = Job(pc, p)],
           pc = "handle" <=> m = "message",
           UNCHANGED <<log, committed, position, handled, faults>>
    PROVE  IInv'
<1> USE DEF IInv
<1> DEFINE h == Job(pc, p)
<1>1. h \in Handler /\ h.partition = p /\ h.offset = position[p] /\ h.pc = pc /\ h.owner = TRUE
  BY DEF TypeOK, Job, Handler
<1>2. handler'[w] = h /\ \A v \in Workers \ {w} : handler'[v] = handler[v]
  BY DEF TypeOK
<1>3. TypeOK' BY <1>1 DEF TypeOK
<1>4. OwnersTrue'
  BY <1>1, <1>2 DEF OwnersTrue, Owner, Ready
<1>5. PositionsTrue' BY RecordUnchanged DEF PositionsTrue
<1>6. HandlersTrue'
  <2> SUFFICES ASSUME NEW v \in Workers, handler'[v] # Idle
               PROVE  LET g == handler'[v]
                      IN  /\ g.offset \in Offsets(g.partition)
                          /\ DoneBelow(g.partition, g.offset)
                          /\ g.pc = "handle" => MessageAt(g.partition, g.offset) = "message"
                          /\ g.pc = "commit" => DoneBelow(g.partition, g.offset + 1)
    BY RecordUnchanged DEF HandlersTrue
  <2>1. CASE v # w BY <2>1, <1>2 DEF HandlersTrue
  <2>2. CASE v = w
    <3>1. position[p] \in Offsets(p) /\ MessageAt(p, position[p]) = m BY DEF Ready
    <3>2. position[p] \in Nat /\ DoneBelow(p, position[p]) BY DEF PositionsTrue, TypeOK
    <3>3. m # "message" => DoneBelow(p, position[p] + 1) BY <3>1, <3>2, DoneBelowNext
    <3> QED BY <1>1, <1>2, <2>2, <3>1, <3>2, <3>3
  <2> QED BY <2>1, <2>2
<1>7. TrailTrue' /\ TrailInOrder' BY RecordUnchanged
<1> QED BY <1>3, <1>4, <1>5, <1>6, <1>7

\* eachMessage is called, or passes over a message without a value.
LEMMA DeliverStep ==
    ASSUME IInv, NEW w \in Workers, NEW p \in Partitions, Deliver(w, p) PROVE IInv'
<1>1. CASE Ready(w, p, "message") /\ handler' = [handler EXCEPT ![w] = Job("handle", p)]
           /\ UNCHANGED position
  BY <1>1, TakeStep DEF Deliver
<1>2. CASE Ready(w, p, "empty") /\ position' = [position EXCEPT ![p] = @ + 1]
           /\ UNCHANGED handler
  <2> USE DEF IInv
  <2>1. UNCHANGED <<log, committed, handled, faults>> BY DEF Deliver
  <2>2. TypeOK' BY <1>2, <2>1 DEF TypeOK
  <2>3. OwnersTrue' BY <1>2 DEF OwnersTrue, Owner, Ready, TypeOK
  <2>4. PositionsTrue'
    <3>1. position[p] \in Nat /\ position[p] + 1 <= Len(log[p])
      BY <1>2 DEF Ready, Offsets, TypeOK
    <3>2. DoneBelow(p, position[p] + 1)
      BY <1>2, <3>1, DoneBelowNext DEF PositionsTrue, Ready
    <3>3. \A q \in Partitions : committed[q] \in Int /\ position[q] \in Nat
      BY DEF TypeOK, NoOffset
    <3> QED BY <1>2, <2>1, <3>1, <3>2, <3>3, RecordUnchanged DEF PositionsTrue, TypeOK
  <2>5. HandlersTrue' BY <1>2, <2>1, RecordUnchanged DEF HandlersTrue
  <2>6. TrailTrue' /\ TrailInOrder' BY <2>1, RecordUnchanged
  <2> QED BY <2>2, <2>3, <2>4, <2>5, <2>6
<1> QED BY <1>1, <1>2 DEF Deliver

\* A message that cannot be parsed needs no row.
LEMMA SkipStep ==
    ASSUME IInv, NEW w \in Workers, NEW p \in Partitions, SkipUnparseable(w, p) PROVE IInv'
BY TakeStep DEF SkipUnparseable

\* A worker writes its row.  Nothing above the row can be there before it, for
\* what is recorded has no gap below.
LEMMA RecordStep ==
    ASSUME IInv, NEW w \in Workers, Record(w) PROVE IInv'
<1> USE DEF IInv
<1>1. handler[w] \in Handler /\ handler[w].pc = "handle"
  <2>1. handler[w].pc = "handle" BY DEF Record
  <2>2. handler[w] # Idle BY <2>1 DEF Idle
  <2> QED BY <2>1, <2>2 DEF TypeOK
<1>2. PICK p \in Partitions, n \in Nat : handler[w].partition = p /\ handler[w].offset = n
  BY <1>1 DEF Handler
<1> DEFINE e == [partition |-> p, offset |-> n]
<1>3. e \in Effect /\ n \in Offsets(p) /\ MessageAt(p, n) = "message" /\ DoneBelow(p, n)
  BY <1>1, <1>2 DEF HandlersTrue, Handler, Idle, Effect
<1>4. handled \in Seq(Effect) BY DEF TypeOK
<1>5. \/ Done(p, n) /\ handled' = handled
      \/ ~Done(p, n) /\ handled' = Append(handled, e)
  BY <1>2 DEF Record, EffectOf
<1>6. UNCHANGED <<log, committed, position, faults>> BY DEF Record
<1>7. \A q, k : /\ Done(q, k) => Done(q, k)'
                /\ DoneBelow(q, k) => DoneBelow(q, k)'
                /\ MessageAt(q, k)' = MessageAt(q, k)
                /\ Offsets(q)' = Offsets(q)
  <2>1. handled' \in {handled, Append(handled, e)} BY <1>5
  <2> HIDE DEF e
  <2> QED BY <2>1, <1>3, <1>6, DoneStays, DoneBelowStays DEF MessageAt, Offsets
<1>8. handler' = [handler EXCEPT ![w].pc = "commit"] BY DEF Record
<1>9. /\ handler'[w] = [handler[w] EXCEPT !.pc = "commit"]
      /\ \A v \in Workers \ {w} : handler'[v] = handler[v]
  BY <1>8 DEF TypeOK
<1>10. TypeOK'
  <2>1. handler'[w] \in Handler BY <1>1, <1>9 DEF Handler
  <2>2. handler' \in [Workers -> Handler \cup {Idle}] BY <1>8, <2>1 DEF TypeOK
  <2>3. handled' \in Seq(Effect) BY <1>3, <1>4, <1>5, AppendProperties
  <2> QED BY <1>6, <2>2, <2>3 DEF TypeOK
<1>11. OwnersTrue' BY <1>1, <1>6, <1>9 DEF OwnersTrue, Owner, Handler, Idle
<1>12. PositionsTrue' BY <1>6, <1>7 DEF PositionsTrue
<1>13. (\E i \in DOMAIN handled' : handled'[i] = e) /\ DOMAIN handled \subseteq DOMAIN handled'
  <2>1. CASE Done(p, n) /\ handled' = handled BY <2>1 DEF Done
  <2>2. CASE handled' = Append(handled, e)
    <3>1. Len(handled) + 1 \in DOMAIN handled' /\ handled'[Len(handled) + 1] = e
      BY <1>3, <1>4, <2>2, AppendProperties, LenProperties
    <3> QED BY <3>1, <1>3, <1>4, <2>2, AppendProperties, LenProperties
  <2> QED BY <1>5, <2>1, <2>2
<1>14. HandlersTrue'
  <2> SUFFICES ASSUME NEW v \in Workers, handler'[v] # Idle, NEW q, NEW k,
                      q = handler'[v].partition, k = handler'[v].offset
               PROVE  /\ k \in Offsets(q)' /\ DoneBelow(q, k)'
                      /\ handler'[v].pc = "handle" => MessageAt(q, k)' = "message"
                      /\ handler'[v].pc = "commit" => DoneBelow(q, k + 1)'
    BY DEF HandlersTrue
  <2>1. CASE v # w BY <2>1, <1>7, <1>9 DEF HandlersTrue
  <2>2. CASE v = w
    <3>1. Done(p, n)' BY <1>13 DEF Done
    <3>2. handler'[w].partition = p /\ handler'[w].offset = n /\ handler'[w].pc = "commit"
      BY <1>1, <1>2, <1>9 DEF Handler
    <3>3. n \in Offsets(p)' /\ DoneBelow(p, n)' /\ MessageAt(p, n)' = "message"
      BY <1>3, <1>7
    <3>4. DoneBelow(p, n + 1)' BY <1>2, <3>1, <3>3 DEF DoneBelow
    <3> QED BY <2>2, <3>2, <3>3, <3>4
  <2> QED BY <2>1, <2>2
<1>15. TrailTrue' /\ TrailInOrder'
  <2>1. CASE handled' = handled BY <2>1, <1>7 DEF TrailTrue, TrailInOrder
  <2>2. CASE ~Done(p, n) /\ handled' = Append(handled, e)
    <3>1. /\ Len(handled) \in Nat
          /\ DOMAIN handled = 1 .. Len(handled)
          /\ DOMAIN handled' = 1 .. Len(handled) + 1
          /\ \A i \in DOMAIN handled : handled'[i] = handled[i]
          /\ handled'[Len(handled) + 1] = e
      BY <1>3, <1>4, <2>2, AppendProperties, LenProperties
    <3>2. TrailTrue'
      <4> SUFFICES ASSUME NEW i \in DOMAIN handled', NEW q, NEW k,
                          q = handled'[i].partition, k = handled'[i].offset
                   PROVE  /\ k \in Offsets(q)' /\ MessageAt(q, k)' = "message"
                          /\ DoneBelow(q, k)'
        BY DEF TrailTrue
      <4>1. CASE i \in DOMAIN handled BY <4>1, <3>1, <1>7 DEF TrailTrue
      <4>2. CASE i = Len(handled) + 1 BY <4>2, <3>1, <1>3, <1>7
      <4> QED BY <3>1, <4>1, <4>2
    <3>3. \A i \in DOMAIN handled : handled[i].partition = p => handled[i].offset < n
      <4> SUFFICES ASSUME NEW i \in DOMAIN handled, handled[i].partition = p
                   PROVE  handled[i].offset < n
        OBVIOUS
      <4>1. handled[i].offset \in Nat BY <1>4, EffectsTyped
      <4>2. handled[i].offset # n
        <5>1. handled[i] \in Effect BY <1>4, <3>1, ElementOfSeq
        <5> QED BY <5>1, <2>2 DEF Done, Effect
      <4>3. DoneBelow(p, handled[i].offset) BY DEF TrailTrue
      <4>4. ~(n < handled[i].offset) BY <1>2, <1>3, <2>2, <4>1, <4>3 DEF DoneBelow
      <4> QED BY <1>2, <4>1, <4>2, <4>4
    <3>4. TrailInOrder'
      <4> SUFFICES ASSUME NEW i \in DOMAIN handled', NEW j \in DOMAIN handled', i < j,
                          handled'[i].partition = handled'[j].partition
                   PROVE  handled'[i].offset < handled'[j].offset
        BY DEF TrailInOrder
      <4>1. i \in DOMAIN handled BY <3>1
      <4>2. CASE j \in DOMAIN handled BY <4>1, <4>2, <3>1 DEF TrailInOrder
      <4>3. CASE j = Len(handled) + 1 BY <4>1, <4>3, <3>1, <3>3
      <4> QED BY <3>1, <4>2, <4>3
    <3> QED BY <3>2, <3>4
  <2> QED BY <1>5, <2>1, <2>2
<1> QED BY <1>10, <1>11, <1>12, <1>14, <1>15

\* The owner moves past a message it has recorded, or need not record; a worker
\* that lost the partition moves nothing.
LEMMA CommitStep ==
    ASSUME IInv, NEW w \in Workers, Commit(w) PROVE IInv'
<1> USE DEF IInv
<1>1. handler[w] \in Handler /\ handler[w].pc = "commit"
  <2>1. handler[w].pc = "commit" BY DEF Commit
  <2>2. handler[w] # Idle BY <2>1 DEF Idle
  <2> QED BY <2>1, <2>2 DEF TypeOK
<1>2. PICK p \in Partitions, n \in Nat : handler[w].partition = p /\ handler[w].offset = n
  BY <1>1 DEF Handler
<1>3. n + 1 <= Len(log[p]) /\ DoneBelow(p, n + 1)
  <2>1. handler[w] # Idle BY <1>1 DEF Idle
  <2>2. n \in Offsets(p) /\ DoneBelow(p, n + 1) BY <1>1, <1>2, <2>1 DEF HandlersTrue
  <2>3. Len(log[p]) \in Nat BY DEF TypeOK
  <2> QED BY <1>2, <2>2, <2>3 DEF Offsets
<1>4. UNCHANGED <<log, handled, faults>> /\ handler' = [handler EXCEPT ![w] = Idle]
  BY DEF Commit
<1>5. handler'[w] = Idle /\ \A v \in Workers \ {w} : handler'[v] = handler[v]
  BY <1>4 DEF TypeOK
<1>6. \/ /\ Owner(w)
         /\ committed' = [committed EXCEPT ![p] = n + 1]
         /\ position' = [position EXCEPT ![p] = n + 1]
      \/ UNCHANGED <<committed, position>>
  BY <1>1, <1>2 DEF Commit, Owner, Idle, Handler
<1>7. TypeOK' BY <1>2, <1>4, <1>6 DEF TypeOK
<1>8. OwnersTrue'
  <2> SUFFICES ASSUME NEW v \in Workers, Owner(v)'
               PROVE  /\ handler'[v].offset = position'[handler'[v].partition]
                      /\ \A u \in Workers \ {v} :
                            ~(Owner(u)' /\ handler'[u].partition = handler'[v].partition)
    BY DEF OwnersTrue
  <2>1. v # w /\ Owner(v) /\ handler'[v] = handler[v] BY <1>5 DEF Owner
  <2>2. \A u \in Workers : Owner(u)' => Owner(u) /\ handler'[u] = handler[u]
    BY <1>5 DEF Owner
  <2>3. handler[v].partition \in Partitions BY <2>1 DEF TypeOK, Owner, Handler
  <2>4. Owner(w) => handler[v].partition # p BY <2>1, <1>2 DEF OwnersTrue
  <2>5. position'[handler[v].partition] = position[handler[v].partition]
    BY <1>6, <2>3, <2>4 DEF TypeOK
  <2> QED BY <2>1, <2>2, <2>5 DEF OwnersTrue
<1>9. PositionsTrue'
  <2> SUFFICES ASSUME NEW q \in Partitions
               PROVE  /\ committed'[q] <= position'[q]
                      /\ position'[q] <= Len(log[q])
                      /\ DoneBelow(q, position'[q])
    BY <1>4, RecordUnchanged DEF PositionsTrue
  <2>1. CASE committed'[q] = committed[q] /\ position'[q] = position[q]
    BY <2>1 DEF PositionsTrue
  <2>2. CASE q = p /\ committed'[q] = n + 1 /\ position'[q] = n + 1
    BY <2>2, <1>2, <1>3
  <2> QED BY <1>6, <2>1, <2>2 DEF TypeOK
<1>10. HandlersTrue' BY <1>4, <1>5, RecordUnchanged DEF HandlersTrue
<1>11. TrailTrue' /\ TrailInOrder' BY <1>4, RecordUnchanged
<1> QED BY <1>7, <1>8, <1>9, <1>10, <1>11

\* A handler that failed leaves nothing but what it recorded.
LEMMA AbandonStep ==
    ASSUME IInv, NEW w \in Workers, Abandon(w) PROVE IInv'
<1> USE DEF IInv
<1>1. UNCHANGED <<log, committed, position, handled>> BY DEF Abandon
<1>2. handler'[w] = Idle /\ \A v \in Workers \ {w} : handler'[v] = handler[v]
  BY DEF Abandon, TypeOK
<1>3. TypeOK' BY DEF TypeOK, Abandon
<1>4. OwnersTrue' BY <1>1, <1>2 DEF OwnersTrue, Owner
<1>5. PositionsTrue' BY <1>1, RecordUnchanged DEF PositionsTrue
<1>6. HandlersTrue' BY <1>1, <1>2, RecordUnchanged DEF HandlersTrue
<1>7. TrailTrue' /\ TrailInOrder' BY <1>1, RecordUnchanged
<1> QED BY <1>3, <1>4, <1>5, <1>6, <1>7

\* A new owner starts at the committed offset, below which all is recorded, or
\* from the beginning; the earlier one may still record its message.
LEMMA ReassignStep ==
    ASSUME FromBeginning, IInv, NEW p \in Partitions, Reassign(p) PROVE IInv'
<1> USE DEF IInv
<1>1. UNCHANGED <<log, committed, handled>> BY DEF Reassign
<1>2. Restart(p) \in Nat /\ committed[p] <= Restart(p) /\ Restart(p) <= position[p]
  BY DEF Restart, TypeOK, NoOffset, PositionsTrue
<1>3. \A q \in Partitions :
        /\ position'[q] \in Nat /\ position'[q] <= position[q] /\ committed[q] <= position'[q]
        /\ q # p => position'[q] = position[q]
  BY <1>2 DEF Reassign, TypeOK, PositionsTrue
<1>4. \A v \in Workers :
        \/ handler'[v] = Idle
        \/ handler'[v] = handler[v] /\ ~(Owner(v) /\ handler[v].partition = p)
        \/ handler[v] # Idle /\ handler'[v] = [handler[v] EXCEPT !.owner = FALSE]
  BY DEF Reassign, Owner
<1>5. TypeOK'
  <2>1. handler' \in [Workers -> Handler \cup {Idle}]
    <3>1. ASSUME NEW v \in Workers PROVE handler'[v] \in Handler \cup {Idle}
      <4>1. handler[v] \in Handler \cup {Idle}
        BY DEF TypeOK
      <4>2. ASSUME handler[v] # Idle PROVE [handler[v] EXCEPT !.owner = FALSE] \in Handler
        BY <4>1, <4>2 DEF Handler
      <4> QED
        BY <1>4, <4>1, <4>2
    <3>2. \E f : handler' = [v \in Workers |-> f[v]] BY DEF Reassign
    <3> QED BY <3>1, <3>2
  <2>2. position' \in [Partitions -> Nat] BY <1>2 DEF Reassign, TypeOK
  <2>3. faults' \in Nat BY DEF Reassign, TypeOK
  <2> QED BY <1>1, <2>1, <2>2, <2>3 DEF TypeOK
<1>6. \A v \in Workers : Owner(v)' =>
        Owner(v) /\ handler'[v] = handler[v] /\ handler[v].partition # p
  BY <1>4 DEF Owner, TypeOK, Handler
<1>7. OwnersTrue'
  <2> SUFFICES ASSUME NEW v \in Workers, Owner(v)'
               PROVE  /\ handler'[v].offset = position'[handler'[v].partition]
                      /\ \A u \in Workers \ {v} :
                            ~(Owner(u)' /\ handler'[u].partition = handler'[v].partition)
    BY DEF OwnersTrue
  <2>1. Owner(v) /\ handler'[v] = handler[v] /\ handler[v].partition # p BY <1>6
  <2>2. handler[v].partition \in Partitions BY <2>1 DEF TypeOK, Owner, Handler
  <2> QED BY <1>3, <1>6, <2>1, <2>2 DEF OwnersTrue
<1>8. PositionsTrue'
  <2> SUFFICES ASSUME NEW q \in Partitions
               PROVE  /\ committed[q] <= position'[q]
                      /\ position'[q] <= Len(log[q])
                      /\ DoneBelow(q, position'[q])
    BY <1>1, RecordUnchanged DEF PositionsTrue
  <2>1. position[q] \in Nat /\ Len(log[q]) \in Nat BY DEF TypeOK
  <2>2. DoneBelow(q, position'[q]) BY <1>3, <2>1 DEF PositionsTrue, DoneBelow
  <2> QED BY <1>3, <2>1, <2>2 DEF PositionsTrue
<1>9. HandlersTrue'
  <2> SUFFICES ASSUME NEW v \in Workers, handler'[v] # Idle
               PROVE  LET h == handler'[v]
                      IN  /\ h.offset \in Offsets(h.partition)
                          /\ DoneBelow(h.partition, h.offset)
                          /\ h.pc = "handle" => MessageAt(h.partition, h.offset) = "message"
                          /\ h.pc = "commit" => DoneBelow(h.partition, h.offset + 1)
    BY <1>1, RecordUnchanged DEF HandlersTrue
  <2>1. /\ handler[v] # Idle
        /\ handler'[v].offset = handler[v].offset
        /\ handler'[v].partition = handler[v].partition
        /\ handler'[v].pc = handler[v].pc
    BY <1>4 DEF TypeOK, Handler
  <2> QED BY <2>1 DEF HandlersTrue
<1>10. TrailTrue' /\ TrailInOrder' BY <1>1, RecordUnchanged
<1> QED BY <1>5, <1>7, <1>8, <1>9, <1>10
-----------------------------------------------------------------------------
(***************************************************************************)
(* The theorems.                                                           *)
(***************************************************************************)

\* What the positions, the workers and the rows of audit_log say of each other
\* holds in every reachable state of a group that subscribes from the beginning.
THEOREM Invariant == ASSUME FromBeginning PROVE AuditSpec => []IInv
<1>1. IInv /\ [AuditNext]_vars => IInv'
  <2> SUFFICES ASSUME IInv, [AuditNext]_vars PROVE IInv' OBVIOUS
  <2>1. ASSUME NEW p \in Partitions, NEW m \in Messages, Publish(p, m) PROVE IInv'
    BY <2>1, PublishStep
  <2>2. ASSUME NEW w \in Workers, Abandon(w) PROVE IInv' BY <2>2, AbandonStep
  <2>3. ASSUME NEW p \in Partitions, Reassign(p) PROVE IInv' BY <2>3, ReassignStep
  <2>4. ASSUME NEW w \in Workers, NEW p \in Partitions, Deliver(w, p) PROVE IInv'
    BY <2>4, DeliverStep
  <2>5. ASSUME NEW w \in Workers, NEW p \in Partitions, SkipUnparseable(w, p) PROVE IInv'
    BY <2>5, SkipStep
  <2>6. ASSUME NEW w \in Workers, Record(w) PROVE IInv' BY <2>6, RecordStep
  <2>7. ASSUME NEW w \in Workers, Commit(w) PROVE IInv' BY <2>7, CommitStep
  <2>8. CASE UNCHANGED vars
    BY <2>8, RecordUnchanged
    DEF vars, IInv, TypeOK, OwnersTrue, Owner, PositionsTrue, HandlersTrue
  <2> QED BY <2>1, <2>2, <2>3, <2>4, <2>5, <2>6, <2>7, <2>8
          DEF AuditNext, Environment, AuditWorker
<1> QED BY InitIInv, <1>1, PTL DEF AuditSpec

\* No message below a committed offset is missing from the trail, however often
\* handlers fail and partitions move.
THEOREM NothingMissing == ASSUME FromBeginning PROVE AuditSpec => []AtLeastOnce
<1>1. IInv => AtLeastOnce
  <2> SUFFICES ASSUME IInv, NEW p \in Partitions, NEW n \in 0 .. committed[p] - 1,
                      MessageAt(p, n) = "message"
               PROVE  Done(p, n)
    BY DEF AtLeastOnce
  <2>1. committed[p] \in Int /\ position[p] \in Nat /\ committed[p] <= position[p]
        /\ DoneBelow(p, position[p])
    BY DEF IInv, TypeOK, PositionsTrue, NoOffset
  <2> QED BY <2>1 DEF DoneBelow
<1> QED BY Invariant, <1>1, PTL

\* The trail of a partition has every message once and in the log's order.
THEOREM InOrder == ASSUME FromBeginning PROVE AuditSpec => []TrailInOrder
<1>1. IInv => TrailInOrder BY DEF IInv
<1> QED BY Invariant, <1>1, PTL
-----------------------------------------------------------------------------
(***************************************************************************)
(* Groups that read from anywhere, with the loop of the other services or  *)
(* that of audit-ledger-service.                                           *)
(***************************************************************************)

\* A handler's worker, and what it works on.
LEMMA BusyWorker ==
    ASSUME TypeOK, NEW w \in Workers, handler[w] # Idle
    PROVE  /\ handler[w] \in Handler
           /\ handler[w].partition \in Partitions /\ handler[w].offset \in Nat
           /\ EffectOf(w) \in Effect
BY DEF TypeOK, Handler, EffectOf, Effect

\* Nothing is committed or reassigned, and the log and the effects stay.
LEMMA GroupTake ==
    ASSUME GroupInv, NEW w \in Workers, NEW p \in Partitions, NEW m, NEW pc \in {"handle", "commit"},
           Ready(w, p, m), handler' = [handler EXCEPT ![w] = Job(pc, p)],
           pc = "commit" => m # "message",
           UNCHANGED <<log, committed, position, handled, faults>>
    PROVE  GroupInv'
<1> USE DEF GroupInv
<1> DEFINE h == Job(pc, p)
<1>1. h \in Handler /\ h.partition = p /\ h.offset = position[p] /\ h.pc = pc /\ h.owner = TRUE
  BY DEF TypeOK, Job, Handler
<1>2. handler'[w] = h /\ \A v \in Workers \ {w} : handler'[v] = handler[v]
  BY DEF TypeOK
<1>3. TypeOK' BY <1>1 DEF TypeOK
<1>4. OwnersTrue'
  BY <1>1, <1>2 DEF OwnersTrue, Owner, Ready
<1>5. CommittedTrue' BY DEF CommittedTrue, MessageAt
<1>6. WorkTrue'
  <2> SUFFICES ASSUME NEW v \in Workers, handler'[v] # Idle
               PROVE  LET g == handler'[v]
                      IN  /\ g.offset \in Offsets(g.partition)
                          /\ g.pc = "commit" /\ MessageAt(g.partition, g.offset) = "message"
                                => Done(g.partition, g.offset)
    BY DEF WorkTrue, Offsets, MessageAt, Done
  <2>1. CASE v # w BY <2>1, <1>2 DEF WorkTrue
  <2>2. CASE v = w
    <3>1. position[p] \in Offsets(p) /\ MessageAt(p, position[p]) = m BY DEF Ready
    <3> QED BY <1>1, <1>2, <2>2, <3>1
  <2> QED BY <2>1, <2>2
<1> QED BY <1>3, <1>4, <1>5, <1>6

\* The effect of a handler is there when it comes to its commit.
LEMMA GroupHandle ==
    ASSUME GroupInv, NEW w \in Workers, Handle(w) \/ Record(w) PROVE GroupInv'
<1> USE DEF GroupInv
<1>1. handler[w] # Idle /\ handler[w].pc = "handle"
  BY DEF Handle, Record, Idle
<1>2. PICK p \in Partitions, n \in Nat : handler[w].partition = p /\ handler[w].offset = n
  BY <1>1, BusyWorker
<1> DEFINE e == [partition |-> p, offset |-> n]
<1>3. e \in Effect /\ EffectOf(w) = e BY <1>2 DEF Effect, EffectOf
<1>4. handled \in Seq(Effect) /\ handler[w] \in Handler BY <1>1, BusyWorker DEF TypeOK
<1>5. /\ handled' \in {handled, Append(handled, e)}
      /\ handled' = handled => Done(p, n)
  <2>1. handled' = Append(handled, e) \/ (handled' = handled /\ Done(p, n))
    BY <1>2, <1>3 DEF Handle, Record
  <2>2. Append(handled, e) # handled BY <1>3, <1>4, AppendProperties
  <2> QED BY <2>1, <2>2
<1>6. /\ UNCHANGED <<log, committed, position, faults>>
      /\ handler' = [handler EXCEPT ![w].pc = "commit"]
  BY DEF Handle, Record
<1>7. \A q, k : Done(q, k) => Done(q, k)'
  <2> HIDE DEF e
  <2> QED BY <1>3, <1>5, DoneStays
<1>8. Done(p, n)'
  <2>1. CASE handled' = handled BY <2>1, <1>5, <1>7
  <2>2. CASE handled' = Append(handled, e)
    <3>1. Len(handled) + 1 \in DOMAIN handled' /\ handled'[Len(handled) + 1] = e
      BY <1>3, <1>4, <2>2, AppendProperties, LenProperties
    <3> QED BY <3>1 DEF Done
  <2> QED BY <1>5, <2>1, <2>2
<1>9. /\ handler'[w].partition = p /\ handler'[w].offset = n
      /\ handler'[w].owner = handler[w].owner /\ handler'[w] \in Handler
      /\ \A v \in Workers \ {w} : handler'[v] = handler[v]
  <2>1. handler'[w] = [handler[w] EXCEPT !.pc = "commit"] BY <1>6 DEF TypeOK
  <2>2. \A v \in Workers \ {w} : handler'[v] = handler[v] BY <1>6 DEF TypeOK
  <2> QED BY <1>2, <1>4, <2>1, <2>2 DEF Handler
<1>10. TypeOK'
  <2>1. handler' \in [Workers -> Handler \cup {Idle}] BY <1>6, <1>9 DEF TypeOK
  <2>2. handled' \in Seq(Effect) BY <1>3, <1>4, <1>5, AppendProperties
  <2> QED BY <1>6, <2>1, <2>2 DEF TypeOK
<1>11. OwnersTrue' BY <1>1, <1>2, <1>6, <1>9 DEF OwnersTrue, Owner
<1>12. CommittedTrue' BY <1>6 DEF CommittedTrue, MessageAt
<1>13. WorkTrue'
  <2> SUFFICES ASSUME NEW v \in Workers, handler'[v] # Idle, NEW q, NEW k,
                      q = handler'[v].partition, k = handler'[v].offset
               PROVE  /\ k \in Offsets(q)'
                      /\ handler'[v].pc = "commit" /\ MessageAt(q, k)' = "message" => Done(q, k)'
    BY DEF WorkTrue
  <2>1. MessageAt(q, k)' = MessageAt(q, k) /\ Offsets(q)' = Offsets(q)
    BY <1>6 DEF MessageAt, Offsets
  <2>2. CASE v # w BY <2>1, <2>2, <1>7, <1>9 DEF WorkTrue
  <2>3. CASE v = w
    <3>1. n \in Offsets(p) BY <1>1, <1>2 DEF WorkTrue
    <3>2. q = p /\ k = n BY <2>3, <1>9
    <3> QED BY <2>1, <3>1, <3>2, <1>8
  <2> QED BY <2>2, <2>3
<1> QED BY <1>10, <1>11, <1>12, <1>13

\* commitOffsets takes the committed offset to the one after the owner's message,
\* which is at the position.
LEMMA GroupCommit ==
    ASSUME GroupInv, NEW w \in Workers, Commit(w)
    PROVE  /\ GroupInv'
           /\ \A p \in Partitions : committed[p] # NoOffset =>
                 /\ committed[p] <= committed'[p]
                 /\ \A n \in committed[p] .. committed'[p] - 1 :
                       MessageAt(p, n) = "message" => Done(p, n)
<1> USE DEF GroupInv
<1>1. handler[w] # Idle /\ handler[w].pc = "commit"
  BY DEF Commit, Idle
<1>2. PICK p \in Partitions, n \in Nat : handler[w].partition = p /\ handler[w].offset = n
  BY <1>1, BusyWorker
<1>3. /\ n \in Offsets(p) /\ n + 1 <= Len(log[p])
      /\ MessageAt(p, n) = "message" => Done(p, n)
  <2>1. n \in Offsets(p) /\ (MessageAt(p, n) = "message" => Done(p, n))
    BY <1>1, <1>2 DEF WorkTrue
  <2>2. Len(log[p]) \in Nat BY DEF TypeOK
  <2> QED BY <2>1, <2>2, <1>2 DEF Offsets
<1>4. /\ UNCHANGED <<log, handled, faults>>
      /\ handler'[w] = Idle /\ \A v \in Workers \ {w} : handler'[v] = handler[v]
      /\ handler' = [handler EXCEPT ![w] = Idle]
  BY DEF Commit, TypeOK
<1>5. \/ /\ Owner(w)
         /\ committed' = [committed EXCEPT ![p] = n + 1]
         /\ position' = [position EXCEPT ![p] = n + 1]
      \/ UNCHANGED <<committed, position>>
  BY <1>1, <1>2 DEF Commit, Owner
<1>6. Owner(w) => n = position[p]
  BY <1>2 DEF OwnersTrue
<1>7. /\ committed \in [Partitions -> Nat \cup {NoOffset}] /\ position \in [Partitions -> Nat]
      /\ NoOffset \in Int
  BY DEF TypeOK, NoOffset
<1>8. TypeOK'
  <2>1. n + 1 \in Nat OBVIOUS
  <2>2. committed' \in [Partitions -> Nat \cup {NoOffset}] /\ position' \in [Partitions -> Nat]
    BY <1>5, <1>7, <2>1
  <2>3. handler' \in [Workers -> Handler \cup {Idle}] BY <1>4 DEF TypeOK
  <2> QED BY <1>4, <2>2, <2>3 DEF TypeOK
<1>9. OwnersTrue'
  <2> SUFFICES ASSUME NEW v \in Workers, Owner(v)'
               PROVE  /\ handler'[v].offset = position'[handler'[v].partition]
                      /\ \A u \in Workers \ {v} :
                            ~(Owner(u)' /\ handler'[u].partition = handler'[v].partition)
    BY DEF OwnersTrue
  <2>1. v # w /\ Owner(v) /\ handler'[v] = handler[v] BY <1>4 DEF Owner
  <2>2. \A u \in Workers : Owner(u)' => Owner(u) /\ handler'[u] = handler[u]
    BY <1>4 DEF Owner
  <2>3. handler[v].partition \in Partitions BY <2>1, BusyWorker DEF Owner
  <2>4. Owner(w) => handler[v].partition # p BY <2>1, <1>2 DEF OwnersTrue
  <2>5. position'[handler[v].partition] = position[handler[v].partition]
    BY <1>5, <1>7, <2>3, <2>4
  <2> QED BY <2>1, <2>2, <2>5 DEF OwnersTrue
<1>10. ASSUME NEW q \in Partitions
       PROVE  \/ committed'[q] = committed[q] /\ position'[q] = position[q]
              \/ q = p /\ committed'[q] = n + 1 /\ position'[q] = n + 1 /\ n = position[q]
  BY <1>5, <1>6, <1>7
<1>11. CommittedTrue'
  <2> SUFFICES ASSUME NEW q \in Partitions
               PROVE  /\ position'[q] <= Len(log[q])
                      /\ committed'[q] # NoOffset =>
                            /\ committed'[q] <= position'[q]
                            /\ \A k \in committed'[q] .. position'[q] - 1 : MessageAt(q, k) # "message"
    BY <1>4 DEF CommittedTrue, MessageAt
  <2>1. CASE committed'[q] = committed[q] /\ position'[q] = position[q]
    BY <2>1 DEF CommittedTrue
  <2>2. CASE q = p /\ committed'[q] = n + 1 /\ position'[q] = n + 1
    BY <2>2, <1>2, <1>3
  <2> QED BY <1>10, <2>1, <2>2
<1>12. WorkTrue' BY <1>4 DEF WorkTrue, Offsets, MessageAt, Done
<1>13. ASSUME NEW q \in Partitions, committed[q] # NoOffset
       PROVE  /\ committed[q] <= committed'[q]
              /\ \A k \in committed[q] .. committed'[q] - 1 :
                    MessageAt(q, k) = "message" => Done(q, k)
  <2>1. committed[q] \in Nat /\ committed[q] <= position[q] /\ position[q] \in Nat
        /\ \A k \in committed[q] .. position[q] - 1 : MessageAt(q, k) # "message"
    BY <1>7, <1>13 DEF CommittedTrue
  <2>2. CASE committed'[q] = committed[q]
    BY <2>1, <2>2
  <2>3. CASE q = p /\ committed'[q] = n + 1 /\ n = position[q]
    <3>1. ASSUME NEW k \in committed[q] .. committed'[q] - 1, MessageAt(q, k) = "message"
          PROVE  Done(q, k)
      <4>1. k = n \/ k \in committed[q] .. position[q] - 1
        BY <2>1, <2>3
      <4> QED BY <1>3, <2>1, <2>3, <3>1, <4>1
    <3> QED BY <2>1, <2>3, <3>1
  <2> QED BY <1>10, <2>2, <2>3
<1> QED BY <1>8, <1>9, <1>11, <1>12, <1>13

\* A message without a value is passed over, and not committed.
LEMMA GroupEmpty ==
    ASSUME GroupInv, NEW w \in Workers, NEW p \in Partitions, Ready(w, p, "empty"),
           position' = [position EXCEPT ![p] = @ + 1],
           UNCHANGED <<log, committed, handler, handled, faults>>
    PROVE  GroupInv'
<1> USE DEF GroupInv
<1>1. TypeOK' BY DEF TypeOK
<1>2. OwnersTrue' BY DEF OwnersTrue, Owner, Ready, TypeOK
<1>3. CommittedTrue'
  <2> SUFFICES ASSUME NEW q \in Partitions
               PROVE  /\ position'[q] <= Len(log[q])
                      /\ committed[q] # NoOffset =>
                            /\ committed[q] <= position'[q]
                            /\ \A k \in committed[q] .. position'[q] - 1 : MessageAt(q, k) # "message"
    BY DEF CommittedTrue, MessageAt
  <2>1. position[p] + 1 <= Len(log[p]) /\ MessageAt(p, position[p]) = "empty"
    BY DEF Ready, Offsets, TypeOK
  <2>2. position[q] \in Nat /\ (committed[q] # NoOffset => committed[q] \in Nat)
    BY DEF TypeOK
  <2>3. CASE q # p
    BY <2>3 DEF CommittedTrue, TypeOK
  <2>4. CASE q = p
    <3>1. position'[q] = position[q] + 1 BY <2>4 DEF TypeOK
    <3>2. ASSUME committed[q] # NoOffset, NEW k \in committed[q] .. position'[q] - 1
          PROVE  MessageAt(q, k) # "message"
      <4>1. k = position[q] \/ k \in committed[q] .. position[q] - 1
        BY <2>2, <3>1, <3>2
      <4> QED BY <2>1, <2>4, <3>2, <4>1 DEF CommittedTrue
    <3>3. committed[q] # NoOffset => committed[q] <= position'[q]
      BY <2>2, <3>1 DEF CommittedTrue
    <3> QED BY <2>1, <2>4, <3>1, <3>2, <3>3
  <2> QED BY <2>3, <2>4
<1>4. WorkTrue' BY DEF WorkTrue, Offsets, MessageAt, Done
<1> QED BY <1>1, <1>2, <1>3, <1>4

\* A new message comes after everything that was read or committed.
LEMMA GroupPublish ==
    ASSUME GroupInv, NEW p \in Partitions, NEW m \in Messages, Publish(p, m) PROVE GroupInv'
<1> USE DEF GroupInv
<1>1. TypeOK' BY DEF TypeOK, Publish
<1>2. \A q \in Partitions :
        /\ Len(log[q]) \in Nat /\ Len(log[q]) <= Len(log'[q])
        /\ \A n \in Offsets(q) : n \in Offsets(q)' /\ MessageAt(q, n)' = MessageAt(q, n)
  BY DEF TypeOK, Publish, Offsets, MessageAt
<1>3. UNCHANGED <<committed, position, handler, handled>> BY DEF Publish
<1>4. OwnersTrue' BY <1>3 DEF OwnersTrue, Owner
<1>5. CommittedTrue'
  <2> SUFFICES ASSUME NEW q \in Partitions
               PROVE  /\ position[q] <= Len(log'[q])
                      /\ committed[q] # NoOffset =>
                            /\ committed[q] <= position[q]
                            /\ \A k \in committed[q] .. position[q] - 1 : MessageAt(q, k)' # "message"
    BY <1>3 DEF CommittedTrue, MessageAt
  <2>1. position[q] \in Nat /\ position[q] <= Len(log[q])
        /\ (committed[q] # NoOffset => committed[q] \in Nat)
        /\ Len(log'[q]) \in Nat
    BY <1>1 DEF CommittedTrue, TypeOK
  <2>2. ASSUME committed[q] # NoOffset, NEW k \in committed[q] .. position[q] - 1
        PROVE  MessageAt(q, k)' # "message"
    <3>1. k \in Offsets(q) BY <1>2, <2>1, <2>2 DEF Offsets
    <3>2. MessageAt(q, k) # "message" BY <2>2 DEF CommittedTrue
    <3> QED BY <1>2, <3>1, <3>2
  <2> QED BY <1>2, <2>1, <2>2 DEF CommittedTrue
<1>6. WorkTrue'
  <2> SUFFICES ASSUME NEW v \in Workers, handler[v] # Idle, NEW q, NEW k,
                      q = handler[v].partition, k = handler[v].offset
               PROVE  /\ k \in Offsets(q)'
                      /\ handler[v].pc = "commit" /\ MessageAt(q, k)' = "message" => Done(q, k)'
    BY <1>3 DEF WorkTrue
  <2>1. q \in Partitions BY BusyWorker
  <2>2. k \in Offsets(q) BY DEF WorkTrue
  <2>3. Done(q, k)' <=> Done(q, k) BY <1>3 DEF Done
  <2> QED BY <1>2, <2>1, <2>2, <2>3 DEF WorkTrue
<1> QED BY <1>1, <1>4, <1>5, <1>6

\* A handler that failed has committed nothing.
LEMMA GroupAbandon ==
    ASSUME GroupInv, NEW w \in Workers, Abandon(w) PROVE GroupInv'
<1> USE DEF GroupInv
<1>1. UNCHANGED <<log, committed, position, handled>> BY DEF Abandon
<1>2. handler'[w] = Idle /\ \A v \in Workers \ {w} : handler'[v] = handler[v]
  BY DEF Abandon, TypeOK
<1>3. TypeOK' BY DEF TypeOK, Abandon
<1>4. OwnersTrue' BY <1>1, <1>2 DEF OwnersTrue, Owner
<1>5. CommittedTrue' BY <1>1 DEF CommittedTrue, MessageAt
<1>6. WorkTrue' BY <1>1, <1>2 DEF WorkTrue, Offsets, MessageAt, Done
<1> QED BY <1>3, <1>4, <1>5, <1>6

\* A new owner starts at the committed offset; only without one it may start
\* elsewhere, from the beginning or at the latest message.
LEMMA GroupReassign ==
    ASSUME GroupInv, NEW p \in Partitions, Reassign(p) PROVE GroupInv'
<1> USE DEF GroupInv
<1>1. UNCHANGED <<log, committed, handled>> BY DEF Reassign
<1>2. /\ Restart(p) \in Nat /\ Restart(p) <= Len(log[p])
      /\ committed[p] # NoOffset => Restart(p) = committed[p]
  BY DEF Restart, TypeOK, CommittedTrue
<1>3. position'[p] = Restart(p) /\ \A q \in Partitions : q # p => position'[q] = position[q]
  BY DEF Reassign, TypeOK
<1>4. \A v \in Workers :
        \/ handler'[v] = Idle
        \/ handler'[v] = handler[v] /\ ~(Owner(v) /\ handler[v].partition = p)
        \/ handler[v] # Idle /\ handler'[v] = [handler[v] EXCEPT !.owner = FALSE]
  BY DEF Reassign, Owner
<1>5. TypeOK'
  <2>1. handler' \in [Workers -> Handler \cup {Idle}]
    <3>1. ASSUME NEW v \in Workers PROVE handler'[v] \in Handler \cup {Idle}
      <4>1. handler[v] \in Handler \cup {Idle}
        BY DEF TypeOK
      <4>2. ASSUME handler[v] # Idle PROVE [handler[v] EXCEPT !.owner = FALSE] \in Handler
        BY <4>1, <4>2 DEF Handler
      <4> QED BY <1>4, <4>1, <4>2
    <3>2. \E f : handler' = [v \in Workers |-> f[v]] BY DEF Reassign
    <3> QED BY <3>1, <3>2
  <2>2. position' \in [Partitions -> Nat] BY <1>2 DEF Reassign, TypeOK
  <2>3. faults' \in Nat BY DEF Reassign, TypeOK
  <2> QED BY <1>1, <2>1, <2>2, <2>3 DEF TypeOK
<1>6. \A v \in Workers : Owner(v)' =>
        Owner(v) /\ handler'[v] = handler[v] /\ handler[v].partition # p
  BY <1>4 DEF Owner, TypeOK, Handler
<1>7. OwnersTrue'
  <2> SUFFICES ASSUME NEW v \in Workers, Owner(v)'
               PROVE  /\ handler'[v].offset = position'[handler'[v].partition]
                      /\ \A u \in Workers \ {v} :
                            ~(Owner(u)' /\ handler'[u].partition = handler'[v].partition)
    BY DEF OwnersTrue
  <2>1. Owner(v) /\ handler'[v] = handler[v] /\ handler[v].partition # p BY <1>6
  <2>2. handler[v].partition \in Partitions BY <2>1, BusyWorker DEF Owner
  <2> QED BY <1>3, <1>6, <2>1, <2>2 DEF OwnersTrue
<1>8. CommittedTrue'
  <2> SUFFICES ASSUME NEW q \in Partitions
               PROVE  /\ position'[q] <= Len(log[q])
                      /\ committed[q] # NoOffset =>
                            /\ committed[q] <= position'[q]
                            /\ \A k \in committed[q] .. position'[q] - 1 : MessageAt(q, k) # "message"
    BY <1>1 DEF CommittedTrue, MessageAt
  <2>1. CASE q # p BY <2>1, <1>3 DEF CommittedTrue
  <2>2. CASE q = p BY <2>2, <1>2, <1>3
  <2> QED BY <2>1, <2>2
<1>9. WorkTrue'
  <2> SUFFICES ASSUME NEW v \in Workers, handler'[v] # Idle
               PROVE  LET h == handler'[v]
                      IN  /\ h.offset \in Offsets(h.partition)
                          /\ h.pc = "commit" /\ MessageAt(h.partition, h.offset) = "message"
                                => Done(h.partition, h.offset)
    BY <1>1 DEF WorkTrue, Offsets, MessageAt, Done
  <2>1. /\ handler[v] # Idle
        /\ handler'[v].offset = handler[v].offset
        /\ handler'[v].partition = handler[v].partition
        /\ handler'[v].pc = handler[v].pc
    BY <1>4 DEF TypeOK, Handler
  <2> QED BY <2>1 DEF WorkTrue
<1> QED BY <1>5, <1>7, <1>8, <1>9

\* Every step of either loop keeps the group's offsets true, and what it commits
\* was handled.
LEMMA GroupStep ==
    ASSUME GroupInv, [Next \/ AuditNext]_vars
    PROVE  /\ GroupInv'
           /\ \A p \in Partitions : committed[p] # NoOffset =>
                 /\ committed[p] <= committed'[p]
                 /\ \A n \in committed[p] .. committed'[p] - 1 :
                       MessageAt(p, n) = "message" => Done(p, n)
<1> DEFINE A == \A p \in Partitions : committed[p] # NoOffset =>
                  /\ committed[p] <= committed'[p]
                  /\ \A n \in committed[p] .. committed'[p] - 1 :
                        MessageAt(p, n) = "message" => Done(p, n)
<1>1. committed' = committed => A
  <2>1. \A p \in Partitions : committed[p] # NoOffset => committed[p] \in Nat
    BY DEF GroupInv, TypeOK
  <2> QED BY <2>1
<1> HIDE DEF A
<1>2. ASSUME NEW p \in Partitions, NEW m \in Messages, Publish(p, m) PROVE GroupInv' /\ A
  BY <1>1, <1>2, GroupPublish DEF Publish
<1>3. ASSUME NEW w \in Workers, Abandon(w) PROVE GroupInv' /\ A
  BY <1>1, <1>3, GroupAbandon DEF Abandon
<1>4. ASSUME NEW p \in Partitions, Reassign(p) PROVE GroupInv' /\ A
  BY <1>1, <1>4, GroupReassign DEF Reassign
<1>5. ASSUME NEW w \in Workers, NEW p \in Partitions, Deliver(w, p) PROVE GroupInv' /\ A
  BY <1>1, <1>5, GroupTake, GroupEmpty DEF Deliver
<1>6. ASSUME NEW w \in Workers, NEW p \in Partitions, SkipUnparseable(w, p) PROVE GroupInv' /\ A
  BY <1>1, <1>6, GroupTake DEF SkipUnparseable
<1>7. ASSUME NEW w \in Workers, Handle(w) \/ Record(w) PROVE GroupInv' /\ A
  BY <1>1, <1>7, GroupHandle DEF Handle, Record
<1>8. ASSUME NEW w \in Workers, Commit(w) PROVE GroupInv' /\ A
  BY <1>8, GroupCommit DEF A
<1>9. ASSUME UNCHANGED vars PROVE GroupInv' /\ A
  BY <1>1, <1>9 DEF vars, GroupInv, TypeOK, OwnersTrue, Owner, CommittedTrue, WorkTrue,
     MessageAt, Offsets, Done
<1>10. GroupInv' /\ A
  BY <1>2, <1>3, <1>4, <1>5, <1>6, <1>7, <1>8, <1>9
     DEF Next, AuditNext, Environment, Worker, AuditWorker
<1> QED BY <1>10 DEF A

LEMMA GroupInit == Init => GroupInv
<1> SUFFICES ASSUME Init PROVE GroupInv OBVIOUS
<1>1. TypeOK BY DEF Init, TypeOK, NoOffset
<1>2. OwnersTrue /\ WorkTrue BY DEF Init, OwnersTrue, Owner, WorkTrue
<1>3. CommittedTrue
  <2>1. ASSUME NEW p \in Partitions
        PROVE  committed[p] = NoOffset /\ position[p] <= Len(log[p])
    <3>1. committed[p] = NoOffset /\ position[p] = 0 /\ log[p] = <<>> BY DEF Init
    <3> QED BY <3>1
  <2> QED BY <2>1 DEF CommittedTrue
<1> QED BY <1>1, <1>2, <1>3 DEF GroupInv

\* The loop of every consumer, also of those that subscribe from the latest
\* offset: once there is a committed offset, commitOffsets takes it forward only,
\* and over nothing that was not handled.
THEOREM NothingSkipped == Spec => CommitsCoverWork
<1>1. GroupInv /\ [Next]_vars => GroupInv'
  BY GroupStep
<1>2. GroupInv /\ [Next]_vars =>
        [\A p \in Partitions : committed[p] # NoOffset =>
            /\ committed[p] <= committed'[p]
            /\ \A n \in committed[p] .. committed'[p] - 1 :
                  MessageAt(p, n) = "message" => Done(p, n)]_vars
  BY GroupStep
<1> QED BY GroupInit, <1>1, <1>2, PTL DEF Spec, CommitsCoverWork

\* The same of audit-ledger-service, which commits past what it cannot parse.
THEOREM AuditSkipsNothing == AuditSpec => CommitsCoverWork
<1>1. GroupInv /\ [AuditNext]_vars => GroupInv'
  BY GroupStep
<1>2. GroupInv /\ [AuditNext]_vars =>
        [\A p \in Partitions : committed[p] # NoOffset =>
            /\ committed[p] <= committed'[p]
            /\ \A n \in committed[p] .. committed'[p] - 1 :
                  MessageAt(p, n) = "message" => Done(p, n)]_vars
  BY GroupStep
<1> QED BY GroupInit, <1>1, <1>2, PTL DEF AuditSpec, CommitsCoverWork
=============================================================================
