------------------------------ MODULE AuditLedger ------------------------------
(***************************************************************************)
(* audit-ledger-service: a consumer group over all topics that appends     *)
(* every message it can parse to audit_log.  handled are the rows of that  *)
(* table, in the order of consumedAt; UNIQUE (topic, partition, offset)    *)
(* makes the insertion idempotent.                                         *)
(***************************************************************************)
EXTENDS ConsumerGroup

\* Mutant: JSON.parse throws outside of any try, as in the other consumers.
SkipUnparseable_Rethrown(w, p) == Ready(w, p, "unparseable") /\ UNCHANGED vars

\* A message that cannot be parsed is logged, and its offset committed.
SkipUnparseable(w, p) ==
    /\ Ready(w, p, "unparseable")
    /\ handler' = [handler EXCEPT ![w] = Job("commit", p)]
    /\ UNCHANGED <<log, committed, position, handled, faults>>

\* Mutant: an upsert, which renews consumedAt.
Record_Upsert(w) ==
    /\ handler[w].pc = "handle"
    /\ handled' = Append(SelectSeq(handled, LAMBDA e : e # EffectOf(w)), EffectOf(w))
    /\ handler' = [handler EXCEPT ![w].pc = "commit"]
    /\ UNCHANGED <<log, committed, position, faults>>

\* AuditLogRepository.record: a unique violation means the row is there.
Record(w) ==
    /\ handler[w].pc = "handle"
    /\ handled' = IF Done(handler[w].partition, handler[w].offset)
                  THEN handled ELSE Append(handled, EffectOf(w))
    /\ handler' = [handler EXCEPT ![w].pc = "commit"]
    /\ UNCHANGED <<log, committed, position, faults>>

AuditWorker(w) ==
    \/ \E p \in Partitions : Deliver(w, p) \/ SkipUnparseable(w, p)
    \/ Record(w)
    \/ Commit(w)

AuditNext == Environment \/ \E w \in Workers : AuditWorker(w)

AuditSpec == Init /\ [][AuditNext]_vars

\* Consumers poll and run their handlers.
FairAuditSpec == AuditSpec /\ \A w \in Workers : WF_vars(AuditWorker(w))
-----------------------------------------------------------------------------
(***************************************************************************)
(* Properties.                                                             *)
(***************************************************************************)

\* The trail of a partition, read in the order of consumedAt (findBy...), is in
\* the order of the log and has every message once, also when a worker that
\* has lost the partition writes late.
TrailInOrder ==
    \A i, j \in DOMAIN handled :
        i < j /\ handled[i].partition = handled[j].partition
            => handled[i].offset < handled[j].offset

\* Every message is eventually in the trail ("an immutable audit trail of every
\* message this service has ever seen"), whatever lies before it in the log.
EverythingRecorded ==
    \A p \in Partitions, n \in 0 .. MaxMessages - 1 :
        n \in Offsets(p) /\ MessageAt(p, n) = "message" ~> Done(p, n)
-----------------------------------------------------------------------------
(***************************************************************************)
(* The inductive invariant, of a group that reads from the beginning.      *)
(***************************************************************************)

\* Every message of p below offset n has its row.
DoneBelow(p, n) == \A k \in 0 .. n - 1 : MessageAt(p, k) = "message" => Done(p, k)

PositionsTrue ==
    \A p \in Partitions :
        /\ committed[p] <= position[p]
        /\ position[p] <= Len(log[p])
        /\ DoneBelow(p, position[p])

\* A worker, also one that lost its partition, follows up on what was recorded.
HandlersTrue ==
    \A w \in Workers : handler[w] # Idle =>
        LET h == handler[w]
        IN  /\ h.offset \in Offsets(h.partition)
            /\ DoneBelow(h.partition, h.offset)
            /\ h.pc = "handle" => MessageAt(h.partition, h.offset) = "message"
            /\ h.pc = "commit" => DoneBelow(h.partition, h.offset + 1)

\* Rows are those of messages, and have no gap before them.
TrailTrue ==
    \A i \in DOMAIN handled :
        LET e == handled[i]
        IN  /\ e.offset \in Offsets(e.partition)
            /\ MessageAt(e.partition, e.offset) = "message"
            /\ DoneBelow(e.partition, e.offset)

IInv ==
    /\ TypeOK
    /\ OwnersTrue
    /\ PositionsTrue
    /\ HandlersTrue
    /\ TrailTrue
    /\ TrailInOrder
=============================================================================
