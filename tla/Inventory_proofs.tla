--------------------------- MODULE Inventory_proofs ---------------------------
(***************************************************************************)
(* For any orders, lines, stock, number of replicas, faults and repeated   *)
(* commands: a reservation has one outcome (OneOutcome), the counters are  *)
(* the units of the reserved orders (LedgerBalanced), and if no order      *)
(* names a SKU twice nothing is oversold (NoOversell).  They come from     *)
(* IInv: row locks are exclusive, so what a transaction has checked stays  *)
(* true until it ends; what it has written is the units of the lines it    *)
(* has been through; and an aggregate in memory is a prefix of its stream, *)
(* so the sequence number it tries to append is free only if nothing was   *)
(* appended since it was read.  No command is lost, because a handler      *)
(* comes to its commit only when the effect is there.                      *)
(***************************************************************************)
EXTENDS Inventory, FiniteSetTheorems, SequenceTheorems, TLAPS

-----------------------------------------------------------------------------
(***************************************************************************)
(* Types.                                                                  *)
(***************************************************************************)

\* A handler record is a Handler exactly when it is not idle.
LEMMA BusyHandler ==
    ASSUME TypeOK, NEW w \in Workers, handler[w].pc # "idle"
    PROVE  handler[w] \in Handler /\ handler[w] # Idle
BY DEF TypeOK, Idle

LEMMA NotIdle ==
    ASSUME TypeOK, NEW w \in Workers, handler[w] # Idle
    PROVE  handler[w] \in Handler /\ handler[w].pc # "idle"
BY DEF TypeOK, Handler

LEMMA LinesType ==
    ASSUME NEW o \in Orders
    PROVE  Lines[o] \in Seq(Line) /\ Len(Lines[o]) \in Nat /\ Len(Lines[o]) > 0
BY LinesAssumption

LEMMA JobType ==
    ASSUME NEW pc \in {"check", "write", "release", "fail", "commit"}, NEW o \in Orders,
           NEW lines \in Seq(Line), NEW status \in Statuses, NEW version \in Nat
    PROVE  Job(pc, o, lines, status, version) \in Handler
<1>1. NoWrites \in [Skus -> Int]
  BY DEF NoWrites
<1> HIDE DEF NoWrites
<1> QED
  BY <1>1 DEF Job, Handler

LEMMA StatusType ==
    ASSUME NEW s \in Seq(Events)
    PROVE  Status(s) \in Statuses
<1>1. CASE s = <<>>
  BY <1>1 DEF Status, Statuses
<1>2. CASE s # <<>>
  <2>1. Len(s) \in 1 .. Len(s)
    BY <1>2
  <2> QED
    BY <1>2, <2>1, ElementOfSeq DEF Status, Statuses
<1> QED
  BY <1>1, <1>2

\* Marking a line as written.
LEMMA WrittenType ==
    ASSUME NEW h \in Handler, h.next <= Len(h.lines), NEW n \in Int
    PROVE  Written(h, n) \in Handler
<1> DEFINE s == h.lines[h.next].sku
           d == [h.delta EXCEPT ![s] = @ + n]
<1>1. h.next + 1 \in Nat \ {0}
  BY DEF Handler
<1>2. d \in [Skus -> Int]
  <2>1. h.delta \in [Skus -> Int]
    BY DEF Handler
  <2>2. ASSUME NEW x \in Skus PROVE d[x] \in Int
    BY <2>1
  <2> QED
    BY <2>1, <2>2
<1>3. Written(h, n) = [h EXCEPT !.next = @ + 1, !.delta = d]
  BY DEF Written, Handler
<1> HIDE DEF d
<1> QED
  BY <1>1, <1>2, <1>3 DEF Handler

LEMMA CheckedType ==
    ASSUME NEW h \in Handler
    PROVE  Checked(h) \in Handler
<1>1. [h EXCEPT !.next = @ + 1] \in Handler
  BY DEF Handler
<1>2. [h EXCEPT !.pc = "write", !.next = 1] \in Handler
  <2> DEFINE g == [h EXCEPT !.pc = "write"]
  <2>1. g \in Handler
    BY DEF Handler
  <2>2. [g EXCEPT !.next = 1] \in Handler
    <3>1. 1 \in Nat \ {0}
      OBVIOUS
    <3> HIDE DEF g
    <3> QED BY <2>1, <3>1 DEF Handler
  <2>3. [g EXCEPT !.next = 1] = [h EXCEPT !.pc = "write", !.next = 1]
    BY DEF Handler
  <2> QED
    BY <2>2, <2>3
<1> QED
  BY <1>1, <1>2 DEF Checked

\* What marking changes: the count of lines and the balance of one SKU.
LEMMA WrittenFields ==
    ASSUME NEW h \in Handler, NEW n \in Int
    PROVE  LET g == Written(h, n)
               r == h.lines[h.next].sku
           IN  /\ g.pc = h.pc /\ g.lines = h.lines /\ g.order = h.order /\ g.next = h.next + 1
               /\ \A s \in Skus : g.delta[s] = IF s = r THEN h.delta[s] + n ELSE h.delta[s]
<1> DEFINE r == h.lines[h.next].sku
           delta == [h.delta EXCEPT ![r] = h.delta[r] + n]
<1>1. Written(h, n) = [h EXCEPT !.next = h.next + 1, !.delta = delta]
  BY DEF Written
<1>2. DOMAIN h.delta = Skus
  BY DEF Handler
<1>3. \A s \in Skus : delta[s] = IF s = r THEN h.delta[s] + n ELSE h.delta[s]
  <2> HIDE DEF r
  <2> QED
    BY <1>2
<1> HIDE DEF delta
<1>4. /\ Written(h, n).pc = h.pc /\ Written(h, n).lines = h.lines /\ Written(h, n).order = h.order
      /\ Written(h, n).next = h.next + 1 /\ Written(h, n).delta = delta
  BY <1>1 DEF Handler
<1> QED
  BY <1>3, <1>4

LEMMA QtyType ==
    ASSUME NEW h \in Handler, h.next <= Len(h.lines)
    PROVE  h.lines[h.next].qty \in Nat
<1>1. h.lines[h.next] \in Line
  <2>1. h.lines \in Seq(Line) /\ h.next \in Nat /\ h.next >= 1
    BY DEF Handler
  <2> QED
    BY <2>1, ElementOfSeq
<1> QED
  BY <1>1 DEF Line

LEMMA SaveType ==
    ASSUME TypeOK, NEW w \in Workers, NEW event \in Events, handler[w].pc # "idle",
           SaveWithinTransaction(w, event)
    PROVE  /\ stream' \in [Orders -> Seq(Events)]
           /\ projection' \in [Orders -> Statuses]
           /\ reserved' \in [Skus -> Int]
           /\ handler' \in [Workers -> Handler \cup {Idle}]
<1> DEFINE h == handler[w]
<1>1. h \in Handler
  BY BusyHandler
<1>2. CASE Len(stream[h.order]) # h.version
  BY <1>2 DEF SaveWithinTransaction, InSequence, Upsert, TypeOK
<1>3. CASE Len(stream[h.order]) = h.version
  <2>1. /\ stream' = [stream EXCEPT ![h.order] = Append(@, event)]
        /\ projection' = [projection EXCEPT ![h.order] = event]
        /\ reserved' = [s \in Skus |-> reserved[s] + h.delta[s]]
        /\ handler' = [handler EXCEPT ![w].pc = "commit"]
    BY <1>3 DEF SaveWithinTransaction, InSequence, Upsert
  <2>2. h.order \in Orders /\ h.delta \in [Skus -> Int]
    BY <1>1 DEF Handler
  <2>3. stream' \in [Orders -> Seq(Events)]
    BY <2>1, <2>2 DEF TypeOK
  <2>4. projection' \in [Orders -> Statuses]
    BY <2>1, <2>2 DEF TypeOK, Statuses
  <2>5. reserved' \in [Skus -> Int]
    BY <2>1, <2>2 DEF TypeOK
  <2>6. [h EXCEPT !.pc = "commit"] \in Handler
    BY <1>1 DEF Handler
  <2>7. handler' \in [Workers -> Handler \cup {Idle}]
    BY <2>1, <2>6 DEF TypeOK
  <2> QED
    BY <2>3, <2>4, <2>5, <2>7
<1> QED
  BY <1>2, <1>3

LEMMA TypeStep ==
    ASSUME TypeOK, OwnersTrue, Next
    PROVE  TypeOK'
<1> USE DEF external
<1>1. ASSUME NEW w \in Workers, NEW o \in Orders, Take(w, o) PROVE TypeOK'
  <2>1. StartReserve(o) \in Handler
    BY JobType, LinesType DEF StartReserve, Projected, Statuses
  <2>2. StartRelease(o) \in Handler
    <3>1. stream[o] \in Seq(Events)
      BY DEF TypeOK
    <3>2. LinesOf(o) \in Seq(Line)
      BY LinesType DEF LinesOf
    <3> QED
      BY <3>1, <3>2, StatusType, JobType DEF StartRelease
  <2> QED
    BY <1>1, <2>1, <2>2 DEF Take, TypeOK
<1>2. ASSUME NEW w \in Workers, CheckLine(w) PROVE TypeOK'
  <2>1. handler[w] \in Handler
    BY <1>2, BusyHandler DEF CheckLine
  <2>2. [handler[w] EXCEPT !.pc = "fail"] \in Handler
    BY <2>1 DEF Handler
  <2>3. Checked(handler[w]) \in Handler
    BY <2>1, CheckedType
  <2> QED
    BY <1>2, <2>2, <2>3 DEF CheckLine, TypeOK
<1>3. ASSUME NEW w \in Workers, Increment(w) PROVE TypeOK'
  <2>1. handler[w] \in Handler
    BY <1>3, BusyHandler DEF Increment
  <2>2. Written(handler[w], handler[w].lines[handler[w].next].qty) \in Handler
    BY <1>3, <2>1, QtyType, WrittenType DEF Increment
  <2> QED
    BY <1>3, <2>2 DEF Increment, TypeOK
<1>4. ASSUME NEW w \in Workers, Decrement(w) PROVE TypeOK'
  <2>1. handler[w] \in Handler
    BY <1>4, BusyHandler DEF Decrement
  <2>2. 0 - handler[w].lines[handler[w].next].qty \in Int
    BY <1>4, <2>1, QtyType DEF Decrement
  <2>3. Written(handler[w], 0 - handler[w].lines[handler[w].next].qty) \in Handler
    BY <1>4, <2>1, <2>2, WrittenType DEF Decrement
  <2> QED
    BY <1>4, <2>3 DEF Decrement, TypeOK
<1>5. ASSUME NEW w \in Workers, FinishReserve(w) PROVE TypeOK'
  BY <1>5, SaveType DEF FinishReserve, Events, TypeOK
<1>6. ASSUME NEW w \in Workers, RecordFailure(w) PROVE TypeOK'
  BY <1>6, SaveType DEF RecordFailure, Events, TypeOK
<1>7. ASSUME NEW w \in Workers, FinishRelease(w) PROVE TypeOK'
  <2>1. handler[w] \in Handler
    BY <1>7, BusyHandler DEF FinishRelease
  <2>2. [handler[w] EXCEPT !.pc = "commit"] \in Handler
    BY <2>1 DEF Handler
  <2>3. CASE SaveWithinTransaction(w, "RELEASED")
    BY <1>7, <2>3, SaveType DEF FinishRelease, Events, TypeOK
  <2>4. CASE ~SaveWithinTransaction(w, "RELEASED")
    BY <1>7, <2>2, <2>4 DEF FinishRelease, TypeOK
  <2> QED
    BY <2>3, <2>4
<1>8. ASSUME NEW w \in Workers, CommitOffset(w) PROVE TypeOK'
  <2>1. handler[w] \in Handler
    BY <1>8, BusyHandler DEF CommitOffset
  <2> DEFINE o == handler[w].order
  <2>2. o \in Orders
    BY <2>1 DEF Handler
  <2>3. inbox' \in [Orders -> Seq(Commands)]
    <3>1. CASE handler[w].owner
      <4>1. inbox[o] # <<>> /\ inbox[o] \in Seq(Commands)
        <5>1. Owner(w)
          BY <1>8, <3>1, BusyHandler DEF CommitOffset, Owner
        <5> QED
          BY <2>2, <5>1 DEF OwnersTrue, TypeOK
      <4>2. Tail(inbox[o]) \in Seq(Commands)
        BY <4>1
      <4> QED
        BY <1>8, <3>1, <4>2 DEF CommitOffset, TypeOK
    <3>2. CASE ~handler[w].owner
      BY <1>8, <3>2 DEF CommitOffset, TypeOK
    <3> QED BY <3>1, <3>2
  <2>4. handler' \in [Workers -> Handler \cup {Idle}]
    BY <1>8 DEF CommitOffset, TypeOK
  <2> QED
    BY <1>8, <2>3, <2>4 DEF CommitOffset, TypeOK
<1>9. ASSUME NEW w \in Workers, DeadlockAbort(w) \/ Abandon(w) PROVE TypeOK'
  <2>1. handler' \in [Workers -> Handler \cup {Idle}]
    BY <1>9 DEF DeadlockAbort, Abandon, TypeOK
  <2>2. CASE DeadlockAbort(w)
    BY <2>1, <2>2 DEF DeadlockAbort, TypeOK
  <2>3. CASE Abandon(w)
    BY <2>1, <2>3 DEF Abandon, TypeOK
  <2> QED
    BY <1>9, <2>2, <2>3
<1>10. ASSUME NEW w \in Workers, Revoke(w) PROVE TypeOK'
  <2>1. handler[w] \in Handler
    BY <1>10, NotIdle DEF Revoke, Owner
  <2>2. [handler[w] EXCEPT !.owner = FALSE] \in Handler
    BY <2>1 DEF Handler
  <2> QED
    BY <1>10, <2>2 DEF Revoke, TypeOK
<1>11. ASSUME NEW o \in Orders, RequestReserve(o) \/ RequestRelease(o) \/ Confirm(o) PROVE TypeOK'
  <2>1. ASSUME NEW c \in Commands, Publish(o, c)
        PROVE  /\ inbox' \in [Orders -> Seq(Commands)]
               /\ requests' \in [Orders -> Nat]
               /\ UNCHANGED <<reserved, stream, projection, handler, faults>>
    <3>1. Append(inbox[o], c) \in Seq(Commands)
      BY DEF TypeOK
    <3> QED
      BY <2>1, <3>1 DEF Publish, TypeOK
  <2>2. CASE RequestReserve(o)
    BY <2>1, <2>2 DEF RequestReserve, Commands, TypeOK
  <2>3. CASE RequestRelease(o)
    BY <2>1, <2>3 DEF RequestRelease, Commands, TypeOK
  <2>4. CASE Confirm(o)
    BY <2>4 DEF Confirm, TypeOK
  <2> QED
    BY <1>11, <2>2, <2>3, <2>4
<1>12. ASSUME NEW w \in Workers, Worker(w) PROVE TypeOK'
  BY <1>1, <1>2, <1>3, <1>4, <1>5, <1>6, <1>7, <1>8, <1>12 DEF Worker, Locking
<1> QED
  BY <1>9, <1>10, <1>11, <1>12 DEF Next

-----------------------------------------------------------------------------
(***************************************************************************)
(* Partitions and row locks.                                               *)
(***************************************************************************)
HandlerStep(w) == Worker(w) \/ DeadlockAbort(w) \/ Abandon(w) \/ Revoke(w)

\* A step of one worker leaves the others alone, and it locks a row only if
\* no other worker holds it.
LEMMA LockStep ==
    ASSUME TypeOK, NEW w \in Workers, HandlerStep(w)
    PROVE  /\ \A v \in Workers \ {w} : handler'[v] = handler[v]
           /\ \A s : s \in Locks(w)' => s \in Locks(w) \/ Unlocked(w, s)
<1> DEFINE h == handler[w]
           g == handler'[w]
<1>0. \A v \in Workers \ {w} : handler'[v] = handler[v]
  <2>1. \E x : handler' = [handler EXCEPT ![w] = x]
    <3>1. CASE Worker(w)
      <4>1. CASE \E o \in Orders : Take(w, o)
        BY <4>1 DEF Take
      <4>2. CASE FinishReserve(w) \/ RecordFailure(w) \/ FinishRelease(w)
        BY <4>2 DEF FinishReserve, RecordFailure, FinishRelease, SaveWithinTransaction, InSequence, Upsert
      <4>3. CASE CheckLine(w) \/ Decrement(w) \/ Increment(w) \/ CommitOffset(w)
        BY <4>3 DEF CheckLine, Decrement, Increment, CommitOffset
      <4> QED BY <3>1, <4>1, <4>2, <4>3 DEF Worker, Locking
    <3>2. CASE DeadlockAbort(w) \/ Abandon(w) \/ Revoke(w)
      BY <3>2 DEF DeadlockAbort, Abandon, Revoke
    <3> QED BY <3>1, <3>2 DEF HandlerStep
  <2> QED
    BY <2>1 DEF TypeOK
<1> SUFFICES ASSUME NEW s, s \in Locks(w)'
             PROVE  s \in Locks(w) \/ Unlocked(w, s)
  BY <1>0
<1>1. ASSUME NEW o \in Orders, Take(w, o) PROVE Locks(w)' = {}
  <2>1. \/ g = StartReserve(o)
        \/ g = StartRelease(o)
    BY <1>1 DEF Take, TypeOK
  <2>2. g.next = 1 /\ g.pc # "write"
    BY <2>1 DEF StartReserve, Projected, StartRelease, Job
  <2>3. LockedLines(g) = {}
    BY <2>2 DEF LockedLines
  <2> QED
    BY <2>3 DEF Locks
<1>2. CASE CheckLine(w) \/ Decrement(w)
  <2>1. h \in Handler /\ h # Idle /\ Unlocked(w, h.lines[h.next].sku)
    BY <1>2, BusyHandler DEF CheckLine, Decrement
  <2>2. g.lines = h.lines /\ LockedLines(g) \subseteq LockedLines(h) \cup {h.next}
    <3>1. CASE g = [h EXCEPT !.pc = "fail"]
      BY <2>1, <3>1 DEF LockedLines, Handler
    <3>2. CASE h.pc = "check" /\ g = Checked(h)
      BY <2>1, <3>2 DEF Checked, LockedLines, Handler
    <3>3. CASE h.pc = "release" /\ g = Written(h, 0 - h.lines[h.next].qty)
      BY <2>1, <3>3 DEF Written, LockedLines, Handler
    <3> QED
      BY <1>2, <3>1, <3>2, <3>3 DEF CheckLine, Decrement, TypeOK
  <2> QED
    BY <2>1, <2>2 DEF Locks
<1>3. CASE Increment(w)
  <2>1. h \in Handler /\ h # Idle
    BY <1>3, BusyHandler DEF Increment
  <2>2. g = Written(h, h.lines[h.next].qty) /\ h.pc = "write"
    BY <1>3 DEF Increment, TypeOK
  <2>3. g.lines = h.lines /\ LockedLines(g) = LockedLines(h)
    BY <2>1, <2>2 DEF Written, LockedLines, Handler
  <2> QED
    BY <2>1, <2>3 DEF Locks
<1>4. CASE FinishReserve(w) \/ RecordFailure(w) \/ FinishRelease(w)
  <2>1. h \in Handler /\ h # Idle
    BY <1>4, BusyHandler DEF FinishReserve, RecordFailure, FinishRelease
  <2>2. g = Idle \/ g = [h EXCEPT !.pc = "commit"]
    BY <1>4 DEF FinishReserve, RecordFailure, FinishRelease, SaveWithinTransaction, InSequence, Upsert, TypeOK
  <2>3. g = Idle \/ LockedLines(g) = {}
    BY <2>1, <2>2 DEF LockedLines, Handler
  <2> QED
    BY <2>3 DEF Locks
<1>5. CASE CommitOffset(w) \/ DeadlockAbort(w) \/ Abandon(w)
  <2>1. g = Idle
    BY <1>5 DEF CommitOffset, DeadlockAbort, Abandon, TypeOK
  <2> QED
    BY <2>1 DEF Locks
<1>6. CASE Revoke(w)
  <2>1. h \in Handler /\ h # Idle
    BY <1>6, NotIdle DEF Revoke, Owner
  <2>2. g = [h EXCEPT !.owner = FALSE]
    BY <1>6 DEF Revoke, TypeOK
  <2>3. g.lines = h.lines /\ LockedLines(g) = LockedLines(h)
    BY <2>1, <2>2 DEF LockedLines, Handler
  <2> QED
    BY <2>1, <2>3 DEF Locks
<1> HIDE DEF h, g
<1> QED
  BY <1>1, <1>2, <1>3, <1>4, <1>5, <1>6 DEF HandlerStep, Worker, Locking

LEMMA SameLocks ==
    ASSUME NEW w \in Workers, handler'[w] = handler[w]
    PROVE  Locks(w)' = Locks(w)
BY DEF Locks, LockedLines

LEMMA Environment ==
    ASSUME NEW o \in Orders, RequestReserve(o) \/ RequestRelease(o) \/ Confirm(o)
    PROVE  UNCHANGED <<reserved, stream, projection, handler>>
BY DEF RequestReserve, RequestRelease, Confirm, Publish

LEMMA LocksStep ==
    ASSUME TypeOK, LocksExclusive, Next
    PROVE  LocksExclusive'
<1>1. ASSUME NEW w \in Workers, HandlerStep(w) PROVE LocksExclusive'
  <2> SUFFICES ASSUME NEW u \in Workers, NEW v \in Workers, u # v, NEW s,
                      s \in Locks(u)', s \in Locks(v)'
               PROVE  FALSE
    BY DEF LocksExclusive
  <2>1. \A x \in Workers : x # w => Locks(x)' = Locks(x)
    BY <1>1, LockStep, SameLocks
  <2>2. \A x \in Workers : s \in Locks(x)' => s \in Locks(x) \/ (x = w /\ Unlocked(w, s))
    BY <1>1, <2>1, LockStep
  <2> QED
    BY <2>1, <2>2 DEF LocksExclusive, Unlocked
<1>2. ASSUME NEW o \in Orders, RequestReserve(o) \/ RequestRelease(o) \/ Confirm(o)
      PROVE LocksExclusive'
  <2>1. \A x \in Workers : Locks(x)' = Locks(x)
    BY <1>2, Environment, SameLocks
  <2> QED
    BY <2>1 DEF LocksExclusive
<1> QED
  BY <1>1, <1>2 DEF Next, HandlerStep

\* Only CommitOffset touches the inbox, and no step of a running handler
\* changes its order or makes it an owner again.
LEMMA KeepsOrder ==
    ASSUME TypeOK, NEW w \in Workers, HandlerStep(w), \A o \in Orders : ~Take(w, o)
    PROVE  \/ handler'[w] = Idle
           \/ /\ handler[w] # Idle
              /\ handler'[w].order = handler[w].order
              /\ handler'[w].owner => handler[w].owner
              /\ handler'[w].pc = "release" => handler[w].pc = "release"
              /\ inbox' = inbox
<1> DEFINE h == handler[w]
           g == handler'[w]
<1>1. CASE CheckLine(w) \/ Decrement(w) \/ Increment(w)
  <2>1. h \in Handler /\ h # Idle /\ inbox' = inbox
    BY <1>1, BusyHandler DEF CheckLine, Decrement, Increment
  <2>2. \/ g = [h EXCEPT !.pc = "fail"] \/ g = Checked(h)
        \/ \E n : g = Written(h, n)
    BY <1>1 DEF CheckLine, Decrement, Increment, TypeOK
  <2> QED
    BY <2>1, <2>2 DEF Checked, Written, Handler
<1>2. CASE FinishReserve(w) \/ RecordFailure(w) \/ FinishRelease(w)
  <2>1. h \in Handler /\ h # Idle /\ inbox' = inbox
    BY <1>2, BusyHandler DEF FinishReserve, RecordFailure, FinishRelease
  <2>2. g = Idle \/ g = [h EXCEPT !.pc = "commit"]
    BY <1>2 DEF FinishReserve, RecordFailure, FinishRelease, SaveWithinTransaction, InSequence, Upsert, TypeOK
  <2> QED
    BY <2>1, <2>2 DEF Handler
<1>3. CASE CommitOffset(w) \/ DeadlockAbort(w) \/ Abandon(w)
  BY <1>3 DEF CommitOffset, DeadlockAbort, Abandon, TypeOK
<1>4. CASE Revoke(w)
  <2>1. h \in Handler /\ h # Idle /\ inbox' = inbox
    BY <1>4, NotIdle DEF Revoke, Owner
  <2>2. g = [h EXCEPT !.owner = FALSE]
    BY <1>4 DEF Revoke, TypeOK
  <2> QED
    BY <2>1, <2>2 DEF Handler
<1> QED
  BY <1>1, <1>2, <1>3, <1>4 DEF HandlerStep, Worker, Locking

LEMMA OwnersStep ==
    ASSUME TypeOK, OwnersTrue, Next
    PROVE  OwnersTrue'
<1>1. ASSUME NEW w \in Workers, NEW o \in Orders, Take(w, o) PROVE OwnersTrue'
  <2>1. handler'[w].order = o /\ inbox[o] # <<>> /\ inbox' = inbox
    BY <1>1 DEF Take, StartReserve, Projected, StartRelease, Job, TypeOK
  <2>2. \A v \in Workers \ {w} : handler'[v] = handler[v] /\ ~(Owner(v) /\ handler[v].order = o)
    BY <1>1, LockStep DEF HandlerStep, Worker, Take
  <2> QED
    BY <2>1, <2>2 DEF OwnersTrue, Owner
<1>2. ASSUME NEW w \in Workers, HandlerStep(w), \A o \in Orders : ~Take(w, o) PROVE OwnersTrue'
  <2>1. \A v \in Workers \ {w} : handler'[v] = handler[v]
    BY <1>2, LockStep
  <2>2. CASE handler'[w] = Idle /\ inbox' = inbox
    BY <2>1, <2>2 DEF OwnersTrue, Owner
  <2>3. CASE handler'[w] # Idle
    BY <1>2, <2>1, <2>3, KeepsOrder DEF OwnersTrue, Owner
  <2>4. CASE inbox' # inbox
    <3>1. CommitOffset(w)
      BY <1>2, <2>4 DEF HandlerStep, Worker, Locking, CheckLine, Decrement, Increment, FinishReserve,
                        RecordFailure, FinishRelease, DeadlockAbort, Abandon, Revoke
    <3>2. handler'[w] = Idle
      BY <3>1 DEF CommitOffset, TypeOK
    <3>3. Owner(w) /\ \A x \in Orders : x # handler[w].order => inbox'[x] = inbox[x]
      BY <2>4, <3>1, BusyHandler DEF CommitOffset, Owner, TypeOK
    <3>4. \A v \in Workers : Owner(v) => handler[v].order \in Orders
      BY NotIdle DEF Owner, Handler
    <3> QED
      BY <2>1, <3>2, <3>3, <3>4 DEF OwnersTrue, Owner
  <2> QED
    BY <2>2, <2>3, <2>4
<1>3. ASSUME NEW o \in Orders, RequestReserve(o) \/ RequestRelease(o) \/ Confirm(o) PROVE OwnersTrue'
  <2>1. handler' = handler
    BY <1>3, Environment
  <2>2. \A x \in Orders : inbox[x] # <<>> => inbox'[x] # <<>>
    BY <1>3 DEF RequestReserve, RequestRelease, Confirm, Publish, TypeOK
  <2>3. \A v \in Workers : Owner(v) => handler[v].order \in Orders
    BY NotIdle DEF Owner, Handler
  <2> QED
    BY <2>1, <2>2, <2>3 DEF OwnersTrue, Owner
<1> QED
  BY <1>1, <1>2, <1>3 DEF Next, HandlerStep

-----------------------------------------------------------------------------
(***************************************************************************)
(* One outcome.                                                            *)
(***************************************************************************)
Aggregates == \A w \in Workers : handler[w] # Idle => AggregateTrue(handler[w])

LEMMA Streams ==
    ASSUME OneOutcome, NEW o \in Orders
    PROVE  /\ stream[o] # <<>> => Len(stream[o]) >= 1
           /\ Status(stream[o]) = "RESERVED" => Len(stream[o]) = 1 /\ stream[o][1] = "RESERVED"
           /\ Len(stream[o]) = 0 => stream[o] = <<>>
           /\ Len(stream[o]) = 1 /\ stream[o][1] = "RESERVED" => stream[o] = <<"RESERVED">>
BY DEF OneOutcome, Status

LEMMA ShortStreams ==
    /\ \A a : Append(<<>>, a) = <<a>> /\ Status(<<a>>) = a
    /\ Append(<<"RESERVED">>, "RELEASED") = <<"RESERVED", "RELEASED">>
    /\ Status(<<"RESERVED", "RELEASED">>) = "RELEASED"
    /\ <<"RESERVED", "RELEASED">>[1] = "RESERVED" /\ <<"RESERVED">>[1] = "RESERVED"
<1>1. \A a : Append(<<>>, a) = <<a>>
  OBVIOUS
<1>2. \A a : Status(<<a>>) = a
  BY DEF Status
<1>3. Append(<<"RESERVED">>, "RELEASED") = <<"RESERVED", "RELEASED">>
  <2> DEFINE s == <<"RESERVED">>
             t == <<"RESERVED", "RELEASED">>
  <2>1. s \in Seq(Events) /\ t \in Seq(Events) /\ "RELEASED" \in Events
    BY DEF Events
  <2>2. Len(s) = 1 /\ Len(t) = 2 /\ s[1] = "RESERVED" /\ t[1] = "RESERVED" /\ t[2] = "RELEASED"
    OBVIOUS
  <2> HIDE DEF s, t
  <2> DEFINE a == Append(s, "RELEASED")
  <2>3. /\ a \in Seq(Events) /\ Len(a) = Len(s) + 1
        /\ \A i \in 1 .. Len(s) : a[i] = s[i]
        /\ a[Len(s) + 1] = "RELEASED"
    BY <2>1
  <2> HIDE DEF a
  <2>4. Len(a) = 2 /\ \A i \in 1 .. 2 : a[i] = t[i]
    BY <2>2, <2>3
  <2>5. a = t
    BY <2>1, <2>2, <2>3, <2>4, SeqEqual
  <2> QED
    BY <2>5 DEF a, s, t
<1>4. Status(<<"RESERVED", "RELEASED">>) = "RELEASED"
  BY DEF Status
<1> QED
  BY <1>1, <1>2, <1>3, <1>4

\* One event is added to the stream of one order, where it belongs.
Appended(o, event) ==
    /\ \A x \in Orders \ {o} : stream'[x] = stream[x]
    /\ \/ event \in {"RESERVED", "FAILED"} /\ stream[o] = <<>> /\ stream'[o] = <<event>>
       \/ event = "RELEASED" /\ stream[o] = <<"RESERVED">> /\ stream'[o] = <<"RESERVED", "RELEASED">>

\* A save that succeeds appends the right event and nothing else.
LEMMA SaveOutcome ==
    ASSUME TypeOK, OneOutcome, Aggregates, NEW w \in Workers, NEW event \in Events,
           SaveWithinTransaction(w, event),
           \/ handler[w].pc \in {"write", "fail"} /\ event \in {"RESERVED", "FAILED"}
           \/ handler[w].pc = "release" /\ handler[w].status = "RESERVED" /\ event = "RELEASED"
    PROVE  /\ OneOutcome'
           /\ \A o \in Orders : stream[o] # <<>> => stream'[o] # <<>> /\ stream'[o][1] = stream[o][1]
           /\ stream' = stream \/ Appended(handler[w].order, event)
<1> DEFINE h == handler[w]
           o == h.order
<1>1. h \in Handler /\ h # Idle /\ o \in Orders
  BY BusyHandler DEF Handler
<1>2. CASE Len(stream[o]) # h.version
  BY <1>2 DEF SaveWithinTransaction, InSequence, Upsert, OneOutcome
<1>3. CASE Len(stream[o]) = h.version
  <2>1. /\ stream' = [stream EXCEPT ![o] = Append(@, event)]
        /\ projection' = [projection EXCEPT ![o] = event]
    BY <1>3 DEF SaveWithinTransaction, InSequence, Upsert
  <2>2. \/ stream[o] = <<>> /\ event \in {"RESERVED", "FAILED"}
        \/ stream[o] = <<"RESERVED">> /\ event = "RELEASED"
    BY <1>1, <1>3, Streams DEF Aggregates, AggregateTrue
  <2>3. /\ stream'[o] \in {<<"RESERVED">>, <<"FAILED">>, <<"RESERVED", "RELEASED">>}
        /\ Status(stream'[o]) = event /\ projection'[o] = event
        /\ stream[o] = <<>> => stream'[o] = <<event>>
        /\ stream[o] # <<>> => stream'[o] = <<"RESERVED", "RELEASED">>
    <3>1. stream'[o] = Append(stream[o], event) /\ projection'[o] = event
      BY <1>1, <2>1 DEF TypeOK
    <3>2. CASE stream[o] = <<>> /\ event \in {"RESERVED", "FAILED"}
      BY <3>1, <3>2, ShortStreams
    <3>3. CASE stream[o] = <<"RESERVED">> /\ event = "RELEASED"
      BY <3>1, <3>3, ShortStreams
    <3> QED
      BY <2>2, <3>2, <3>3
  <2>4. \A x \in Orders : x # o => stream'[x] = stream[x] /\ projection'[x] = projection[x]
    BY <1>1, <2>1 DEF TypeOK
  <2>5. ASSUME NEW x \in Orders
        PROVE  /\ stream'[x] \in {<<>>, <<"RESERVED">>, <<"FAILED">>, <<"RESERVED", "RELEASED">>}
               /\ projection'[x] = Status(stream'[x])
    BY <2>3, <2>4 DEF OneOutcome
  <2>6. OneOutcome'
    BY <2>5 DEF OneOutcome, Status
  <2>7. stream[o] # <<>> => stream'[o] # <<>> /\ stream'[o][1] = stream[o][1]
    <3>1. CASE stream[o] = <<"RESERVED">> /\ event = "RELEASED"
      <4>1. stream'[o] = Append(stream[o], event)
        BY <1>1, <2>1 DEF TypeOK
      <4>2. stream'[o] = <<"RESERVED", "RELEASED">> /\ stream[o][1] = "RESERVED"
        BY <3>1, <4>1, ShortStreams
      <4> QED
        BY <4>2, ShortStreams
    <3> QED
      BY <2>2, <3>1
  <2>8. Appended(o, event)
    BY <2>2, <2>3, <2>4 DEF Appended
  <2> QED
    BY <2>4, <2>6, <2>7, <2>8
<1> QED
  BY <1>2, <1>3

LEMMA OutcomeStep ==
    ASSUME TypeOK, OneOutcome, Aggregates, Next
    PROVE  /\ OneOutcome'
           /\ \A o \in Orders : stream[o] # <<>> => stream'[o] # <<>> /\ stream'[o][1] = stream[o][1]
<1>1. CASE UNCHANGED <<stream, projection>>
  BY <1>1 DEF OneOutcome, Status
<1>2. ASSUME NEW w \in Workers, FinishReserve(w)
      PROVE  /\ OneOutcome'
             /\ \A o \in Orders : stream[o] # <<>> => stream'[o] # <<>> /\ stream'[o][1] = stream[o][1]
  BY <1>2, SaveOutcome DEF FinishReserve, Events
<1>3. ASSUME NEW w \in Workers, RecordFailure(w)
      PROVE  /\ OneOutcome'
             /\ \A o \in Orders : stream[o] # <<>> => stream'[o] # <<>> /\ stream'[o][1] = stream[o][1]
  BY <1>3, SaveOutcome DEF RecordFailure, Events
<1>4. ASSUME NEW w \in Workers, FinishRelease(w)
      PROVE  /\ OneOutcome'
             /\ \A o \in Orders : stream[o] # <<>> => stream'[o] # <<>> /\ stream'[o][1] = stream[o][1]
  <2>1. CASE handler[w].status = "RESERVED"
    BY <1>4, <2>1, SaveOutcome DEF FinishRelease, Events
  <2>2. CASE handler[w].status # "RESERVED"
    BY <1>1, <1>4, <2>2 DEF FinishRelease
  <2> QED BY <2>1, <2>2
<1>5. ASSUME NEW w \in Workers, HandlerStep(w), ~FinishReserve(w), ~RecordFailure(w), ~FinishRelease(w)
      PROVE  UNCHANGED <<stream, projection>>
  BY <1>5 DEF HandlerStep, Worker, Locking, Take, CheckLine, Decrement, Increment, CommitOffset,
              DeadlockAbort, Abandon, Revoke
<1> QED
  BY <1>1, <1>2, <1>3, <1>4, <1>5, Environment DEF Next, HandlerStep

LEMMA AggregatesStep ==
    ASSUME TypeOK, OneOutcome, Aggregates, Next
    PROVE  Aggregates'
<1>1. \A o \in Orders : stream[o] # <<>> => stream'[o] # <<>> /\ stream'[o][1] = stream[o][1]
  BY OutcomeStep
<1>2. ASSUME NEW v \in Workers, handler'[v] = handler[v], handler[v] # Idle
      PROVE  AggregateTrue(handler[v])'
  <2>1. handler[v].order \in Orders /\ AggregateTrue(handler[v])
    BY <1>2, NotIdle DEF Handler, Aggregates
  <2> QED
    BY <1>1, <1>2, <2>1 DEF AggregateTrue
<1>3. ASSUME NEW w \in Workers, HandlerStep(w), handler'[w] # Idle
      PROVE  AggregateTrue(handler[w])'
  <2> DEFINE h == handler[w]
             g == handler'[w]
  <2>1. CASE \E o \in Orders : Take(w, o)
    <3> PICK o \in Orders : Take(w, o)
      BY <2>1
    <3>1. stream' = stream
      BY DEF Take
    <3>2. CASE g = StartReserve(o)
      BY <3>2 DEF StartReserve, Projected, Job, AggregateTrue
    <3>3. CASE g = StartRelease(o) /\ stream[o] # <<>>
      <4>1. g.status = Status(stream[o]) /\ g.version = Len(stream[o]) /\ g.order = o /\ g.pc = "release"
        BY <3>3 DEF StartRelease, Job
      <4>2. g.status = "RESERVED" => Len(stream[o]) = 1 /\ stream[o][1] = "RESERVED"
        BY <4>1, Streams
      <4> QED
        BY <3>1, <3>3, <4>1, <4>2 DEF AggregateTrue
    <3> QED
      BY <3>2, <3>3 DEF Take, TypeOK
  <2>2. CASE CheckLine(w) \/ Increment(w) \/ Decrement(w)
    <3>1. h \in Handler /\ h # Idle /\ stream' = stream
      BY <2>2, BusyHandler DEF CheckLine, Increment, Decrement
    <3>2. \/ h.pc = "check" /\ (g = [h EXCEPT !.pc = "fail"] \/ g = Checked(h))
          \/ \E n : g = Written(h, n)
      BY <2>2 DEF CheckLine, Increment, Decrement, TypeOK
    <3>3. /\ g.order = h.order /\ g.status = h.status /\ g.version = h.version
          /\ h.pc = "check" => g.pc # "release"
          /\ h.pc # "check" => g.pc = h.pc
      BY <3>1, <3>2 DEF Checked, Written, Handler
    <3>4. AggregateTrue(h)
      BY <3>1 DEF Aggregates
    <3> HIDE DEF h, g
    <3>5. AggregateTrue(g)
      BY <3>3, <3>4 DEF AggregateTrue
    <3> QED
      BY <3>1, <3>5 DEF AggregateTrue, g
  <2>3. CASE FinishReserve(w) \/ RecordFailure(w) \/ FinishRelease(w)
    <3>1. h \in Handler
      BY <2>3, BusyHandler DEF FinishReserve, RecordFailure, FinishRelease
    <3>2. g = [h EXCEPT !.pc = "commit"]
      BY <1>3, <2>3 DEF FinishReserve, RecordFailure, FinishRelease, SaveWithinTransaction, InSequence, Upsert, TypeOK
    <3>3. g.pc = "commit"
      BY <3>1, <3>2 DEF Handler
    <3> QED
      BY <3>3 DEF AggregateTrue
  <2>4. CASE CommitOffset(w) \/ DeadlockAbort(w) \/ Abandon(w)
    BY <1>3, <2>4 DEF CommitOffset, DeadlockAbort, Abandon, TypeOK
  <2>5. CASE Revoke(w)
    <3>1. h \in Handler /\ h # Idle /\ stream' = stream
      BY <2>5, NotIdle DEF Revoke, Owner
    <3>2. g = [h EXCEPT !.owner = FALSE]
      BY <2>5 DEF Revoke, TypeOK
    <3>3. g.order = h.order /\ g.status = h.status /\ g.version = h.version /\ g.pc = h.pc
      BY <3>1, <3>2 DEF Handler
    <3>4. AggregateTrue(h)
      BY <3>1 DEF Aggregates
    <3> QED
      BY <3>1, <3>3, <3>4 DEF AggregateTrue
  <2> QED
    BY <1>3, <2>1, <2>2, <2>3, <2>4, <2>5 DEF HandlerStep, Worker, Locking
<1>4. ASSUME NEW w \in Workers, HandlerStep(w) PROVE Aggregates'
  <2>1. \A v \in Workers \ {w} : handler'[v] = handler[v]
    BY <1>4, LockStep
  <2>2. ASSUME NEW v \in Workers, handler'[v] # Idle PROVE AggregateTrue(handler[v])'
    BY <1>2, <1>3, <1>4, <2>1, <2>2
  <2> QED
    BY <2>2 DEF Aggregates
<1>5. ASSUME handler' = handler PROVE Aggregates'
  <2>1. ASSUME NEW v \in Workers, handler'[v] # Idle PROVE AggregateTrue(handler[v])'
    BY <1>2, <1>5, <2>1
  <2> QED
    BY <2>1 DEF Aggregates
<1> QED
  BY <1>4, <1>5, Environment DEF Next, HandlerStep

-----------------------------------------------------------------------------
(***************************************************************************)
(* Commands and what they come from.                                       *)
(***************************************************************************)
Requested == \A w \in Workers : handler[w] # Idle => RequestedTrue(handler[w])

LEMMA HandlerExternal ==
    ASSUME NEW w \in Workers, HandlerStep(w)
    PROVE  UNCHANGED <<requests, verdict>>
<1>1. CASE Worker(w)
  BY <1>1 DEF Worker, Locking, Take, CheckLine, Decrement, Increment, FinishReserve, RecordFailure,
              FinishRelease, CommitOffset, external
<1>2. CASE DeadlockAbort(w) \/ Abandon(w) \/ Revoke(w)
  BY <1>2 DEF DeadlockAbort, Abandon, Revoke, external
<1> QED
  BY <1>1, <1>2 DEF HandlerStep

LEMMA RequestsStay ==
    ASSUME TypeOK, Next, NEW o \in Orders
    PROVE  /\ requests[o] > 0 => requests'[o] > 0
           /\ verdict[o] = "compensating" => verdict'[o] = "compensating"
<1>1. ASSUME NEW w \in Workers, HandlerStep(w) PROVE UNCHANGED <<requests, verdict>>
  BY <1>1, HandlerExternal
<1>2. ASSUME NEW x \in Orders, NEW c, Publish(x, c) PROVE requests[o] > 0 => requests'[o] > 0
  <2>1. requests' = [requests EXCEPT ![x] = @ + 1]
    BY <1>2 DEF Publish
  <2>2. requests[o] \in Nat
    BY DEF TypeOK
  <2> QED
    BY <2>1, <2>2 DEF TypeOK
<1>3. ASSUME NEW x \in Orders, RequestReserve(x) \/ RequestRelease(x) \/ Confirm(x)
      PROVE  /\ requests[o] > 0 => requests'[o] > 0
             /\ verdict[o] = "compensating" => verdict'[o] = "compensating"
  <2>1. CASE RequestReserve(x) \/ RequestRelease(x)
    BY <1>2, <2>1 DEF RequestReserve, RequestRelease, TypeOK
  <2>2. CASE Confirm(x)
    BY <2>2 DEF Confirm, TypeOK
  <2> QED
    BY <1>3, <2>1, <2>2
<1> QED
  BY <1>1, <1>3 DEF Next, HandlerStep

\* The record is written by the transactions of the two handlers only.
LEMMA RecordStep ==
    ASSUME TypeOK, OneOutcome, Aggregates, Requested, NEW w \in Workers, HandlerStep(w), stream' # stream
    PROVE  \E o \in Orders, event \in Events :
              /\ Appended(o, event)
              /\ requests[o] > 0
              /\ event = "RELEASED" => verdict[o] = "compensating"
<1> DEFINE o == handler[w].order
<1>1. FinishReserve(w) \/ RecordFailure(w) \/ FinishRelease(w)
  BY DEF HandlerStep, Worker, Locking, Take, CheckLine, Decrement, Increment, CommitOffset,
         DeadlockAbort, Abandon, Revoke
<1>2. handler[w] # Idle /\ o \in Orders
  BY <1>1, BusyHandler DEF FinishReserve, RecordFailure, FinishRelease, Handler
<1>3. requests[o] > 0 /\ (handler[w].pc = "release" => verdict[o] = "compensating")
  BY <1>2 DEF Requested, RequestedTrue
<1>4. CASE FinishReserve(w)
  BY <1>2, <1>3, <1>4, SaveOutcome DEF FinishReserve, Events
<1>5. CASE RecordFailure(w)
  BY <1>2, <1>3, <1>5, SaveOutcome DEF RecordFailure, Events
<1>6. CASE FinishRelease(w)
  BY <1>2, <1>3, <1>6, SaveOutcome DEF FinishRelease, Events
<1> QED
  BY <1>1, <1>4, <1>5, <1>6

LEMMA CommandsStep ==
    ASSUME TypeOK, OwnersTrue, OneOutcome, Aggregates, Requested, CommandsTrue, Next
    PROVE  CommandsTrue'
<1> SUFFICES ASSUME NEW o \in Orders
             PROVE  /\ inbox'[o] # <<>> => requests'[o] > 0
                    /\ stream'[o] # <<>> => requests'[o] > 0
                    /\ \A i \in DOMAIN inbox'[o] :
                          inbox'[o][i] = "ReleaseInventory" => verdict'[o] = "compensating"
  BY DEF CommandsTrue
<1>0. inbox[o] \in Seq(Commands)
  BY DEF TypeOK
<1>1. ASSUME inbox'[o] = inbox[o]
      PROVE  /\ inbox'[o] # <<>> => requests'[o] > 0
             /\ \A i \in DOMAIN inbox'[o] :
                   inbox'[o][i] = "ReleaseInventory" => verdict'[o] = "compensating"
  BY <1>1, RequestsStay DEF CommandsTrue
<1>2. ASSUME NEW w \in Workers, CommitOffset(w), inbox'[o] # inbox[o]
      PROVE  /\ inbox'[o] # <<>> => requests'[o] > 0
             /\ \A i \in DOMAIN inbox'[o] :
                   inbox'[o][i] = "ReleaseInventory" => verdict'[o] = "compensating"
  <2>1. Owner(w) /\ handler[w].order = o /\ inbox'[o] = Tail(inbox[o])
    BY <1>2, BusyHandler DEF CommitOffset, Owner, TypeOK
  <2>2. inbox[o] # <<>>
    BY <2>1 DEF OwnersTrue
  <2>3. \A i \in DOMAIN inbox'[o] : i + 1 \in DOMAIN inbox[o] /\ inbox'[o][i] = inbox[o][i + 1]
    BY <1>0, <2>1, <2>2
  <2> QED
    BY <2>2, <2>3, RequestsStay DEF CommandsTrue
<1>3. ASSUME NEW c \in Commands, Publish(o, c), c = "ReleaseInventory" => verdict'[o] = "compensating"
      PROVE  /\ inbox'[o] # <<>> => requests'[o] > 0
             /\ \A i \in DOMAIN inbox'[o] :
                   inbox'[o][i] = "ReleaseInventory" => verdict'[o] = "compensating"
  <2>1. inbox'[o] = Append(inbox[o], c) /\ requests'[o] = requests[o] + 1 /\ requests[o] \in Nat
    BY <1>3 DEF Publish, TypeOK
  <2>2. \A i \in DOMAIN inbox'[o] : IF i \in DOMAIN inbox[o] THEN inbox'[o][i] = inbox[o][i] ELSE inbox'[o][i] = c
    BY <1>0, <2>1
  <2> QED
    BY <1>3, <2>1, <2>2, RequestsStay DEF CommandsTrue
<1>4. ASSUME NEW w \in Workers, HandlerStep(w), ~CommitOffset(w) PROVE inbox' = inbox
  BY <1>4 DEF HandlerStep, Worker, Locking, Take, CheckLine, Decrement, Increment, FinishReserve,
              RecordFailure, FinishRelease, DeadlockAbort, Abandon, Revoke
<1>5. ASSUME NEW x \in Orders, RequestReserve(x) \/ RequestRelease(x) \/ Confirm(x), inbox'[o] # inbox[o]
      PROVE  \E c \in Commands : Publish(o, c) /\ (c = "ReleaseInventory" => verdict'[o] = "compensating")
  <2>1. x = o
    BY <1>5 DEF RequestReserve, RequestRelease, Confirm, Publish, TypeOK
  <2>2. CASE RequestReserve(o)
    BY <2>2 DEF RequestReserve, Commands
  <2>3. CASE RequestRelease(o)
    BY <2>3 DEF RequestRelease, Commands, TypeOK
  <2>4. CASE Confirm(o)
    BY <1>5, <2>1, <2>4 DEF Confirm
  <2> QED
    BY <1>5, <2>1, <2>2, <2>3, <2>4
<1>6. stream'[o] # <<>> => requests'[o] > 0
  <2>1. CASE stream'[o] = stream[o]
    BY <2>1, RequestsStay DEF CommandsTrue
  <2>2. CASE stream'[o] # stream[o]
    <3>1. PICK w \in Workers : HandlerStep(w)
      BY <2>2, Environment DEF Next, HandlerStep
    <3>2. requests[o] > 0
      BY <2>2, <3>1, RecordStep DEF Appended
    <3> QED
      BY <3>2, RequestsStay
  <2> QED
    BY <2>1, <2>2
<1>7. CASE \E w \in Workers : HandlerStep(w)
  BY <1>1, <1>2, <1>4, <1>6, <1>7
<1>8. CASE \E x \in Orders : RequestReserve(x) \/ RequestRelease(x) \/ Confirm(x)
  BY <1>1, <1>3, <1>5, <1>6, <1>8
<1> QED
  BY <1>7, <1>8 DEF Next, HandlerStep

LEMMA RequestedStep ==
    ASSUME TypeOK, CommandsTrue, Requested, Next
    PROVE  Requested'
<1> SUFFICES ASSUME NEW v \in Workers, handler'[v] # Idle
             PROVE  /\ requests'[handler'[v].order] > 0
                    /\ handler'[v].pc = "release" => verdict'[handler'[v].order] = "compensating"
  BY DEF Requested, RequestedTrue
<1>1. CASE /\ handler[v] # Idle /\ handler'[v].order = handler[v].order
           /\ handler'[v].pc = "release" => handler[v].pc = "release"
  <2>1. handler[v].order \in Orders
    BY <1>1, NotIdle DEF Handler
  <2> QED
    BY <1>1, <2>1, RequestsStay DEF Requested, RequestedTrue
<1>2. ASSUME NEW o \in Orders, Take(v, o)
      PROVE  /\ requests'[handler'[v].order] > 0
             /\ handler'[v].pc = "release" => verdict'[handler'[v].order] = "compensating"
  <2>1. requests[o] > 0 /\ (Head(inbox[o]) = "ReleaseInventory" => verdict[o] = "compensating")
    <3>1. inbox[o] # <<>> /\ 1 \in DOMAIN inbox[o] /\ Head(inbox[o]) = inbox[o][1]
      BY <1>2 DEF Take, TypeOK
    <3> QED
      BY <3>1 DEF CommandsTrue
  <2>2. \/ handler'[v] = StartReserve(o)
        \/ handler'[v] = StartRelease(o) /\ Head(inbox[o]) = "ReleaseInventory"
    BY <1>2 DEF Take, TypeOK
  <2>3. handler'[v].order = o /\ (handler'[v].pc = "release" => Head(inbox[o]) = "ReleaseInventory")
    BY <2>2 DEF StartReserve, Projected, StartRelease, Job
  <2> QED
    BY <2>1, <2>3, RequestsStay
<1>3. CASE handler'[v] = handler[v]
  BY <1>1, <1>3
<1>4. ASSUME NEW w \in Workers, HandlerStep(w), w # v PROVE handler'[v] = handler[v]
  BY <1>4, LockStep
<1>5. ASSUME HandlerStep(v), \A o \in Orders : ~Take(v, o)
      PROVE  /\ handler[v] # Idle /\ handler'[v].order = handler[v].order
             /\ handler'[v].pc = "release" => handler[v].pc = "release"
  BY <1>5, KeepsOrder
<1> QED
  BY <1>1, <1>2, <1>3, <1>4, <1>5, Environment DEF Next, HandlerStep

-----------------------------------------------------------------------------
(***************************************************************************)
(* No command is lost.                                                     *)
(***************************************************************************)
Work == \A w \in Workers : handler[w] # Idle => CommandTrue(handler[w])
VerdictsTrue == \A o \in Orders : verdict[o] # "none" => WasReserved(o)

\* An outcome stays, and so does a release.
LEMMA EffectsStay ==
    ASSUME TypeOK, OneOutcome, Aggregates, Requested, Next, NEW o \in Orders
    PROVE  /\ stream[o] # <<>> => stream'[o] # <<>>
           /\ stream[o] # <<>> /\ stream[o] # <<"RESERVED">> => stream'[o] # <<"RESERVED">>
<1>1. CASE stream' = stream
  BY <1>1
<1>2. CASE stream' # stream
  <2>1. PICK w \in Workers : HandlerStep(w)
    BY <1>2, Environment DEF Next, HandlerStep
  <2>2. PICK p \in Orders, event \in Events : Appended(p, event)
    BY <1>2, <2>1, RecordStep
  <2>3. CASE o # p
    BY <2>2, <2>3 DEF Appended
  <2>4. CASE o = p /\ stream[o] = <<>> /\ stream'[o] = <<event>>
    BY <2>4
  <2>5. CASE o = p /\ stream[o] = <<"RESERVED">> /\ stream'[o] = <<"RESERVED", "RELEASED">>
    BY <2>5
  <2> QED
    BY <2>2, <2>3, <2>4, <2>5 DEF Appended
<1> QED
  BY <1>1, <1>2

LEMMA VerdictsStep ==
    ASSUME TypeOK, OneOutcome, Aggregates, VerdictsTrue, Next
    PROVE  VerdictsTrue'
<1> SUFFICES ASSUME NEW o \in Orders, verdict'[o] # "none" PROVE WasReserved(o)'
  BY DEF VerdictsTrue
<1>1. WasReserved(o) => WasReserved(o)'
  BY OutcomeStep DEF WasReserved
<1>2. ASSUME NEW x \in Orders, RequestReserve(x) \/ RequestRelease(x) \/ Confirm(x)
      PROVE  verdict'[o] = verdict[o] \/ WasReserved(o)
  BY <1>2 DEF RequestReserve, RequestRelease, Confirm, TypeOK
<1>3. ASSUME NEW w \in Workers, HandlerStep(w) PROVE verdict' = verdict
  BY <1>3, HandlerExternal
<1> QED
  BY <1>1, <1>2, <1>3 DEF Next, HandlerStep, VerdictsTrue

\* The first command of a partition changes only when its owner commits it.
LEMMA FirstStays ==
    ASSUME TypeOK, OwnersTrue, Next, NEW v \in Workers, Owner(v), handler'[v] # Idle
    PROVE  inbox'[handler[v].order][1] = inbox[handler[v].order][1]
<1> DEFINE o == handler[v].order
<1>1. o \in Orders /\ inbox[o] # <<>> /\ inbox[o] \in Seq(Commands)
  BY NotIdle DEF Owner, OwnersTrue, Handler, TypeOK
<1>2. ASSUME NEW x \in Orders, NEW c \in Commands, Publish(x, c) PROVE inbox'[o][1] = inbox[o][1]
  <2>1. inbox'[o] = inbox[o] \/ inbox'[o] = Append(inbox[o], c)
    BY <1>1, <1>2 DEF Publish, TypeOK
  <2>2. Append(inbox[o], c)[1] = inbox[o][1]
    <3>1. Len(inbox[o]) >= 1
      BY <1>1, EmptySeq
    <3> QED
      BY <1>1, <3>1, AppendProperties
  <2> QED
    BY <2>1, <2>2
<1>3. ASSUME NEW w \in Workers, CommitOffset(w) PROVE inbox'[o][1] = inbox[o][1]
  <2>1. handler'[w] = Idle /\ handler[w] # Idle
    BY <1>3, BusyHandler DEF CommitOffset, TypeOK
  <2>2. w # v
    BY <2>1
  <2>3. Owner(w) => handler[w].order # o
    BY <2>2 DEF OwnersTrue
  <2>4. inbox'[o] = inbox[o]
    BY <1>1, <1>3, <2>1, <2>3 DEF CommitOffset, Owner, TypeOK
  <2> QED
    BY <2>4
<1>4. ASSUME NEW w \in Workers, HandlerStep(w), ~CommitOffset(w) PROVE inbox' = inbox
  BY <1>4 DEF HandlerStep, Worker, Locking, Take, CheckLine, Decrement, Increment, FinishReserve,
              RecordFailure, FinishRelease, DeadlockAbort, Abandon, Revoke
<1>5. ASSUME NEW x \in Orders, RequestReserve(x) \/ RequestRelease(x) \/ Confirm(x)
      PROVE  inbox' = inbox \/ \E c \in Commands : Publish(x, c)
  BY <1>5 DEF RequestReserve, RequestRelease, Confirm, Commands
<1> QED
  BY <1>2, <1>3, <1>4, <1>5 DEF Next, HandlerStep

\* A handler that kept its order, or that is back from the loops, has its
\* command in its hands.
LEMMA SameWork ==
    ASSUME TypeOK, OwnersTrue, OneOutcome, Aggregates, Requested, Work, Next,
           NEW v \in Workers, handler[v] # Idle, handler'[v] # Idle,
           handler'[v].pc = handler[v].pc \/ handler'[v].pc \in {"write", "fail"},
           handler'[v].order = handler[v].order, handler'[v].status = handler[v].status,
           handler'[v].version = handler[v].version, handler'[v].owner => handler[v].owner
    PROVE  CommandTrue(handler[v])'
<1>1. handler[v].order \in Orders /\ CommandTrue(handler[v])
  BY NotIdle DEF Handler, Work
<1>2. /\ stream[handler[v].order] # <<>> => stream'[handler[v].order] # <<>>
      /\ stream[handler[v].order] # <<>> /\ stream[handler[v].order] # <<"RESERVED">> =>
            stream'[handler[v].order] # <<"RESERVED">>
  BY <1>1, EffectsStay
<1>3. handler[v].owner => inbox'[handler[v].order][1] = inbox[handler[v].order][1]
  BY FirstStays DEF Owner
<1> QED
  BY <1>1, <1>2, <1>3 DEF CommandTrue

LEMMA OwnWork ==
    ASSUME TypeOK, OwnersTrue, OneOutcome, Aggregates, Requested, Work, Next,
           NEW w \in Workers, HandlerStep(w), handler'[w] # Idle
    PROVE  CommandTrue(handler[w])'
<1> DEFINE h == handler[w]
           g == handler'[w]
<1>1. ASSUME NEW o \in Orders, Take(w, o) PROVE CommandTrue(handler[w])'
  <2>1. /\ inbox[o][1] = Head(inbox[o]) /\ inbox' = inbox /\ stream' = stream
    BY <1>1 DEF Take, TypeOK
  <2>2. CASE g = StartReserve(o) /\ Head(inbox[o]) = "ReserveStock"
    <3>1. Projected(o) => stream[o] # <<>>
      BY DEF Projected, OneOutcome, Status
    <3>2. /\ g.order = o /\ g.version = 0 /\ g.pc \in {"commit", "check"}
          /\ g.pc = "commit" => stream[o] # <<>>
      BY <2>2, <3>1 DEF StartReserve, Job
    <3> HIDE DEF g
    <3> QED
      BY <2>1, <2>2, <3>2 DEF CommandTrue, g
  <2>3. CASE g = StartRelease(o) /\ Head(inbox[o]) = "ReleaseInventory" /\ stream[o] # <<>>
    <3>1. Len(stream[o]) > 0 /\ Len(stream[o]) # 0
      <4>1. Len(stream[o]) >= 1 /\ Len(stream[o]) \in Nat
        BY <2>3, Streams DEF TypeOK
      <4> QED
        BY <4>1
    <3>2. g.order = o /\ g.version = Len(stream[o]) /\ g.pc = "release" /\ g.status = Status(stream[o])
      BY <2>3 DEF StartRelease, Job
    <3>3. stream[o] = <<"RESERVED">> => g.status = "RESERVED"
      BY <3>2, ShortStreams
    <3> HIDE DEF g
    <3> QED
      BY <2>1, <2>3, <3>1, <3>2, <3>3 DEF CommandTrue, g
  <2> QED
    BY <1>1, <2>2, <2>3 DEF Take, TypeOK
<1>2. CASE CheckLine(w) \/ Increment(w) \/ Decrement(w)
  <2>1. h \in Handler /\ h # Idle
    BY <1>2, BusyHandler DEF CheckLine, Increment, Decrement
  <2>2. \/ g = [h EXCEPT !.pc = "fail"] \/ g = Checked(h)
        \/ \E n : g = Written(h, n)
    BY <1>2 DEF CheckLine, Increment, Decrement, TypeOK
  <2>3. /\ g.pc = h.pc \/ g.pc \in {"write", "fail"}
        /\ g.order = h.order /\ g.status = h.status /\ g.version = h.version /\ g.owner = h.owner
    BY <2>1, <2>2 DEF Checked, Written, Handler
  <2> QED
    BY <1>2, <2>1, <2>3, SameWork
<1>3. CASE Revoke(w)
  <2>1. h \in Handler /\ h # Idle
    BY <1>3, NotIdle DEF Revoke, Owner
  <2>2. g = [h EXCEPT !.owner = FALSE]
    BY <1>3 DEF Revoke, TypeOK
  <2>3. /\ g.pc = h.pc /\ g.order = h.order /\ g.status = h.status /\ g.version = h.version
        /\ g.owner => h.owner
    BY <2>1, <2>2 DEF Handler
  <2> QED
    BY <1>3, <2>1, <2>3, SameWork
<1>4. ASSUME FinishReserve(w) \/ RecordFailure(w) \/ FinishRelease(w)
      PROVE  CommandTrue(handler[w])'
  <2> DEFINE o == h.order
  <2>1. h \in Handler /\ h # Idle /\ o \in Orders /\ inbox' = inbox /\ CommandTrue(h) /\ AggregateTrue(h)
    BY <1>4, BusyHandler DEF FinishReserve, RecordFailure, FinishRelease, Handler, Work, Aggregates
  <2>2. g = [h EXCEPT !.pc = "commit"]
    BY <1>4 DEF FinishReserve, RecordFailure, FinishRelease, SaveWithinTransaction, InSequence, Upsert, TypeOK
  <2>3. /\ g.pc = "commit" /\ g.order = o /\ g.version = h.version /\ g.owner = h.owner
    BY <2>1, <2>2 DEF Handler
  <2>4. stream'[o] # <<>> /\ (h.version = 0 \/ stream'[o] # <<"RESERVED">>)
    <3>1. ASSUME NEW event \in Events, SaveWithinTransaction(w, event)
          PROVE  stream'[o] = Append(stream[o], event) /\ stream[o] \in Seq(Events)
      <4>1. stream' = [stream EXCEPT ![o] = Append(@, event)]
        BY <1>4, <3>1 DEF SaveWithinTransaction, InSequence, Upsert, TypeOK
      <4> QED
        BY <2>1, <4>1 DEF TypeOK
    <3>2. ASSUME NEW event \in Events, SaveWithinTransaction(w, event) PROVE stream'[o] # <<>>
      <4>1. Len(stream'[o]) = Len(stream[o]) + 1 /\ Len(stream[o]) \in Nat
        BY <3>1, <3>2
      <4> QED
        BY <4>1
    <3>3. CASE FinishReserve(w) \/ RecordFailure(w)
      <4>1. h.version = 0
        BY <2>1, <3>3 DEF FinishReserve, RecordFailure, AggregateTrue
      <4>2. \E event \in Events : SaveWithinTransaction(w, event)
        BY <3>3 DEF FinishReserve, RecordFailure, Events
      <4> QED
        BY <3>2, <4>1, <4>2
    <3>4. CASE FinishRelease(w) /\ h.status # "RESERVED"
      BY <2>1, <3>4 DEF FinishRelease, CommandTrue
    <3>5. CASE FinishRelease(w) /\ h.status = "RESERVED"
      <4>1. SaveWithinTransaction(w, "RELEASED") /\ "RELEASED" \in Events
        BY <3>5 DEF FinishRelease, Events
      <4>2. stream' = stream \/ Appended(o, "RELEASED")
        BY <3>5, <4>1, SaveOutcome DEF FinishRelease
      <4>3. stream'[o] # stream[o]
        <5>1. Len(stream'[o]) = Len(stream[o]) + 1 /\ Len(stream[o]) \in Nat
          BY <3>1, <4>1
        <5> QED
          BY <5>1
      <4>4. stream'[o] = <<"RESERVED", "RELEASED">>
        BY <4>2, <4>3 DEF Appended
      <4> QED
        BY <4>4
    <3> QED
      BY <1>4, <3>3, <3>4, <3>5
  <2> HIDE DEF h, g
  <2> QED
    BY <2>1, <2>3, <2>4 DEF CommandTrue, g
<1>5. CASE CommitOffset(w) \/ DeadlockAbort(w) \/ Abandon(w)
  BY <1>5 DEF CommitOffset, DeadlockAbort, Abandon, TypeOK
<1> QED
  BY <1>1, <1>2, <1>3, <1>4, <1>5 DEF HandlerStep, Worker, Locking

LEMMA WorkStep ==
    ASSUME TypeOK, OwnersTrue, OneOutcome, Aggregates, Requested, Work, Next
    PROVE  Work'
<1>1. ASSUME NEW v \in Workers, handler'[v] # Idle, handler'[v] = handler[v]
      PROVE  CommandTrue(handler[v])'
  BY <1>1, SameWork
<1>2. ASSUME NEW w \in Workers, HandlerStep(w), NEW v \in Workers, handler'[v] # Idle
      PROVE  CommandTrue(handler[v])'
  BY <1>1, <1>2, LockStep, OwnWork
<1> QED
  BY <1>1, <1>2, Environment DEF Next, HandlerStep, Work

\* A command leaves the partition only when its effect is there.
LEMMA LostStep ==
    ASSUME TypeOK, OwnersTrue, OneOutcome, Aggregates, Requested, CommandsTrue, VerdictsTrue,
           Work, NoCommandLost, Next
    PROVE  NoCommandLost'
<1> DEFINE Due(o, c) == IF c = "ReserveStock" THEN requests[o] > 0 /\ stream[o] = <<>>
                        ELSE verdict[o] = "compensating" /\ stream[o] = <<"RESERVED">>
           Due2(o, c) == IF c = "ReserveStock" THEN requests'[o] > 0 /\ stream'[o] = <<>>
                         ELSE verdict'[o] = "compensating" /\ stream'[o] = <<"RESERVED">>
           Pending2(o, c) == \E i \in DOMAIN inbox'[o] : inbox'[o][i] = c
<1> SUFFICES ASSUME NEW o \in Orders, NEW c \in Commands, Due2(o, c)
             PROVE  Pending2(o, c)
  BY DEF NoCommandLost, Pending, Commands
<1>1. Due(o, c) => Pending(o, c)
  BY DEF NoCommandLost, Commands
<1>2. inbox[o] \in Seq(Commands)
  BY DEF TypeOK
<1>3. ASSUME NEW w \in Workers, HandlerStep(w) PROVE Due(o, c)
  <2>1. requests' = requests /\ verdict' = verdict
    BY <1>3, HandlerExternal
  <2>2. c = "ReserveStock" => stream[o] = <<>>
    BY EffectsStay
  <2>3. c # "ReserveStock" => stream[o] = <<"RESERVED">>
    <3>1. verdict[o] = "compensating" => stream[o] # <<>>
      BY DEF VerdictsTrue, WasReserved
    <3> QED
      BY <2>1, <3>1, EffectsStay
  <2> QED
    BY <2>1, <2>2, <2>3
<1>4. ASSUME NEW x \in Orders, RequestReserve(x) \/ RequestRelease(x) \/ Confirm(x)
      PROVE  Due(o, c) \/ Publish(o, c)
  <2>1. stream' = stream
    BY <1>4, Environment
  <2>2. CASE c = "ReserveStock" /\ requests'[o] = requests[o]
    BY <2>1, <2>2
  <2>3. CASE c = "ReserveStock" /\ requests'[o] # requests[o]
    <3>1. Publish(o, "ReserveStock") \/ RequestRelease(o)
      BY <1>4, <2>3 DEF RequestReserve, RequestRelease, Confirm, Publish, TypeOK
    <3>2. ~RequestRelease(o)
      BY <2>1, <2>3 DEF RequestRelease, WasReserved
    <3> QED
      BY <2>3, <3>1, <3>2
  <2>4. CASE c # "ReserveStock"
    <3>1. verdict'[o] = "compensating" => verdict[o] = "compensating" \/ RequestRelease(o)
      BY <1>4 DEF RequestReserve, RequestRelease, Confirm, TypeOK
    <3> QED
      BY <2>1, <2>4, <3>1 DEF RequestRelease, Commands
  <2> QED
    BY <2>2, <2>3, <2>4
<1> HIDE DEF Due, Due2
<1>5. ASSUME NEW x \in Orders, NEW d \in Commands, Publish(x, d), Due(o, c) \/ (x = o /\ d = c)
      PROVE  Pending2(o, c)
  <2>1. inbox'[o] = IF x = o THEN Append(inbox[o], d) ELSE inbox[o]
    BY <1>5 DEF Publish, TypeOK
  <2>2. LET s == Append(inbox[o], d)
        IN  /\ \A i \in DOMAIN inbox[o] : i \in DOMAIN s /\ s[i] = inbox[o][i]
            /\ Len(inbox[o]) + 1 \in DOMAIN s /\ s[Len(inbox[o]) + 1] = d
    BY <1>2, AppendProperties
  <2> QED
    BY <1>1, <1>5, <2>1, <2>2 DEF Pending
<1>6. ASSUME NEW w \in Workers, HandlerStep(w), inbox'[o] # inbox[o] PROVE Pending2(o, c)
  <2> DEFINE h == handler[w]
  <2>1. CommitOffset(w)
    BY <1>6 DEF HandlerStep, Worker, Locking, Take, CheckLine, Decrement, Increment, FinishReserve,
                RecordFailure, FinishRelease, DeadlockAbort, Abandon, Revoke
  <2>2. Owner(w) /\ h.order = o /\ inbox'[o] = Tail(inbox[o])
    BY <1>6, <2>1, BusyHandler DEF CommitOffset, Owner, TypeOK
  <2>3. h # Idle /\ h.pc = "commit" /\ CommandTrue(h) /\ h.version \in Nat
    BY <2>1, <2>2, BusyHandler DEF CommitOffset, Owner, Work, Handler
  <2>4. inbox[o][1] # c
    <3>1. CASE h.version = 0
      BY <1>3, <1>6, <2>2, <2>3, <3>1 DEF CommandTrue, Owner, Due
    <3>2. CASE h.version # 0
      BY <1>3, <1>6, <2>2, <2>3, <3>2 DEF CommandTrue, Owner, Due
    <3> QED
      BY <3>1, <3>2
  <2>5. PICK i \in DOMAIN inbox[o] : inbox[o][i] = c
    BY <1>1, <1>3, <1>6 DEF Pending
  <2>6. inbox[o] # <<>>
    BY <2>2 DEF OwnersTrue
  <2>7. i # 1 /\ i \in 1 .. Len(inbox[o])
    BY <1>2, <2>4, <2>5
  <2>8. i - 1 \in 1 .. Len(inbox[o]) - 1 /\ (i - 1) + 1 = i
    BY <1>2, <2>7
  <2>9. i - 1 \in DOMAIN inbox'[o] /\ inbox'[o][i - 1] = inbox[o][i]
    BY <1>2, <2>2, <2>6, <2>8, HeadTailProperties
  <2> QED
    BY <2>5, <2>9
<1>7. CASE inbox'[o] = inbox[o] /\ Due(o, c)
  BY <1>1, <1>7 DEF Pending
<1>8. CASE \E w \in Workers : HandlerStep(w)
  BY <1>3, <1>6, <1>7, <1>8
<1>9. ASSUME NEW x \in Orders, RequestReserve(x) \/ RequestRelease(x) \/ Confirm(x)
      PROVE  Pending2(o, c)
  <2>1. inbox' = inbox \/ \E d \in Commands : Publish(x, d)
    BY <1>9 DEF RequestReserve, RequestRelease, Confirm, Commands
  <2>2. Due(o, c) \/ Publish(o, c)
    BY <1>4, <1>9
  <2> QED
    BY <1>5, <1>7, <2>1, <2>2
<1> QED
  BY <1>8, <1>9 DEF Next, HandlerStep

-----------------------------------------------------------------------------
(***************************************************************************)
(* The ledger.                                                             *)
(***************************************************************************)

\* Membership, so that the unions need not be unfolded again.
LEMMA UnitsToHas ==
    ASSUME NEW o, NEW n, NEW s, NEW x
    PROVE  x \in UnitsTo(o, n, s) <=>
              \E i \in 1 .. n : Lines[o][i].sku = s /\ x \in LineUnits(o, i)
BY DEF UnitsTo

LEMMA LineUnitsHas ==
    ASSUME NEW o, NEW i, NEW x \in LineUnits(o, i)
    PROVE  x[1] = <<o, i>>
BY DEF LineUnits

\* A line has as many units as it says.
LEMMA LineUnitsCount ==
    ASSUME NEW o \in Orders, NEW i \in 1 .. Len(Lines[o])
    PROVE  /\ Lines[o][i].qty \in Nat
           /\ IsFiniteSet(LineUnits(o, i))
           /\ Cardinality(LineUnits(o, i)) = Lines[o][i].qty
<1> DEFINE q == Lines[o][i].qty
<1>1. q \in Nat
  <2>1. Lines[o][i] \in Line
    BY LinesType, ElementOfSeq
  <2> QED
    BY <2>1 DEF Line
<1>2. IsFiniteSet({<<o, i>>}) /\ Cardinality({<<o, i>>}) = 1
  BY FS_Singleton
<1> HIDE DEF q
<1>3. IsFiniteSet(1 .. q) /\ Cardinality(1 .. q) = q
  BY <1>1, FS_Interval
<1> DEFINE A == {<<o, i>>}
           B == 1 .. q
<1>4. IsFiniteSet(A \X B) /\ Cardinality(A \X B) = Cardinality(A) * Cardinality(B)
  <2> HIDE DEF A, B
  <2>1. IsFiniteSet(A) /\ IsFiniteSet(B)
    BY <1>2, <1>3 DEF A, B
  <2> QED
    BY <2>1, FS_Product
<1>5. Cardinality(A \X B) = 1 * q
  BY <1>2, <1>3, <1>4
<1>6. 1 * q = q
  BY <1>1
<1> QED
  BY <1>1, <1>4, <1>5, <1>6 DEF LineUnits, q

\* Different lines share no unit, nor do different orders.
LEMMA LinesApart ==
    ASSUME NEW o, NEW n \in Nat, NEW s
    PROVE  UnitsTo(o, n, s) \cap LineUnits(o, n + 1) = {}
<1> SUFFICES ASSUME NEW x, x \in UnitsTo(o, n, s), x \in LineUnits(o, n + 1) PROVE FALSE
  OBVIOUS
<1>1. PICK i \in 1 .. n : x \in LineUnits(o, i)
  BY UnitsToHas
<1>2. <<o, i>> = <<o, n + 1>>
  BY <1>1, LineUnitsHas
<1> QED
  BY <1>2

LEMMA OrdersApart ==
    ASSUME NEW o, NEW p, o # p, NEW m, NEW n, NEW s
    PROVE  UnitsTo(o, m, s) \cap UnitsTo(p, n, s) = {}
<1> SUFFICES ASSUME NEW x, x \in UnitsTo(o, m, s), x \in UnitsTo(p, n, s) PROVE FALSE
  OBVIOUS
<1>1. PICK i \in 1 .. m : x \in LineUnits(o, i)
  BY UnitsToHas
<1>2. PICK j \in 1 .. n : x \in LineUnits(p, j)
  BY UnitsToHas
<1>3. <<o, i>> = <<p, j>>
  BY <1>1, <1>2, LineUnitsHas
<1> QED
  BY <1>3

LEMMA NoUnits ==
    ASSUME NEW o, NEW s
    PROVE  /\ UnitsTo(o, 0, s) = {}
           /\ IsFiniteSet(UnitsTo(o, 0, s)) /\ Cardinality(UnitsTo(o, 0, s)) = 0
<1>1. UnitsTo(o, 0, s) = {}
  BY UnitsToHas
<1> QED
  BY <1>1, FS_EmptySet

\* The units of finitely many lines are finitely many.
LEMMA UnitsFinite ==
    ASSUME NEW o \in Orders, NEW n \in 0 .. Len(Lines[o]), NEW s
    PROVE  IsFiniteSet(UnitsTo(o, n, s))
<1> DEFINE I == {i \in 1 .. n : Lines[o][i].sku = s}
           T == {LineUnits(o, i) : i \in I}
           f == [i \in I |-> LineUnits(o, i)]
<1>1. IsFiniteSet(I)
  <2>1. IsFiniteSet(1 .. n)
    BY FS_Interval
  <2> QED
    BY <2>1, FS_Subset
<1>2. f \in Surjection(I, T)
  BY DEF Surjection
<1>3. \A i \in I : IsFiniteSet(LineUnits(o, i))
  <2>1. \A i \in I : i \in 1 .. Len(Lines[o])
    BY LinesType
  <2> QED
    BY <2>1, LineUnitsCount
<1>4. \A U \in T : IsFiniteSet(U)
  BY <1>3
<1> HIDE DEF f
<1>5. IsFiniteSet(T)
  <2> HIDE DEF I, T
  <2> QED
    BY <1>1, <1>2, FS_Surjection
<1>6. IsFiniteSet(UNION T)
  <2> HIDE DEF T
  <2> QED
    BY <1>4, <1>5, FS_UNION
<1> QED
  BY <1>6 DEF UnitsTo

\* One line more: its units count for its SKU only.
LEMMA NextLine ==
    ASSUME NEW o \in Orders, NEW n \in Nat, n + 1 <= Len(Lines[o]), NEW s
    PROVE  Cardinality(UnitsTo(o, n + 1, s)) =
              IF Lines[o][n + 1].sku = s
              THEN Cardinality(UnitsTo(o, n, s)) + Lines[o][n + 1].qty
              ELSE Cardinality(UnitsTo(o, n, s))
<1> DEFINE U == UnitsTo(o, n, s)
           V == LineUnits(o, n + 1)
<1>1. Len(Lines[o]) \in Nat
  BY LinesType
<1>2. IsFiniteSet(U)
  BY <1>1, UnitsFinite
<1>3. IsFiniteSet(V) /\ Cardinality(V) = Lines[o][n + 1].qty /\ Lines[o][n + 1].qty \in Nat
  BY <1>1, LineUnitsCount
<1>4. \A i \in 1 .. n + 1 : i \in 1 .. n \/ i = n + 1
  OBVIOUS
<1>5. \A i \in 1 .. n : i \in 1 .. n + 1
  OBVIOUS
<1>6. n + 1 \in 1 .. n + 1
  OBVIOUS
<1>7. CASE Lines[o][n + 1].sku = s
  <2>1. UnitsTo(o, n + 1, s) = U \cup V
    <3>1. \A x : x \in UnitsTo(o, n + 1, s) => x \in U \cup V
      BY <1>4, UnitsToHas
    <3>2. \A x : x \in U \cup V => x \in UnitsTo(o, n + 1, s)
      BY <1>5, <1>6, <1>7, UnitsToHas
    <3> QED
      BY <3>1, <3>2
  <2>2. U \cap V = {}
    BY LinesApart
  <2> HIDE DEF U, V
  <2>3. Cardinality(U \cup V) = Cardinality(U) + Cardinality(V) - Cardinality(U \cap V)
    BY <1>2, <1>3, FS_Union
  <2>4. Cardinality(U \cup V) = Cardinality(U) + Cardinality(V) - 0
    BY <2>2, <2>3, FS_EmptySet
  <2>5. Cardinality(U) \in Nat
    BY <1>2, FS_CardinalityType
  <2>6. Cardinality(U \cup V) = Cardinality(U) + Cardinality(V)
    BY <1>3, <2>4, <2>5
  <2> QED
    BY <1>3, <1>7, <2>1, <2>6 DEF U
<1>8. CASE Lines[o][n + 1].sku # s
  <2>1. \A x : x \in UnitsTo(o, n + 1, s) <=> x \in U
    BY <1>4, <1>5, <1>8, UnitsToHas
  <2>2. UnitsTo(o, n + 1, s) = U
    BY <2>1
  <2> QED
    BY <1>8, <2>2
<1> QED
  BY <1>7, <1>8

Writes == \A w \in Workers : handler[w] # Idle => WritesTrue(handler[w])

\* A transaction starts at line 1 with nothing written.
LEMMA FirstWrites ==
    ASSUME TypeOK, OneOutcome, NEW w \in Workers, NEW o \in Orders, Take(w, o)
    PROVE  WritesTrue(handler'[w])
<1> DEFINE g == handler'[w]
<1>1. g = StartReserve(o) \/ (g = StartRelease(o) /\ stream[o] # <<>>)
  BY DEF Take, TypeOK
<1>2. /\ g.order = o /\ g.next = 1 /\ g.delta = NoWrites /\ g.pc \in {"check", "release", "commit"}
      /\ g.pc = "check" => g.lines = Lines[o]
      /\ g.pc = "release" => g.lines = LinesOf(o) /\ g.status = Status(stream[o])
  BY <1>1 DEF StartReserve, Projected, StartRelease, Job
<1>3. g.pc = "release" /\ g.status = "RESERVED" => g.lines = Lines[o]
  BY <1>2, Streams DEF LinesOf
<1>4. Len(Lines[o]) \in Nat /\ Len(Lines[o]) > 0
  BY LinesType
<1>5. ASSUME NEW s \in Skus
      PROVE  g.delta[s] = Cardinality(UnitsTo(o, 0, s)) /\ g.delta[s] = 0 - Cardinality(UnitsTo(o, 0, s))
  <2>1. g.delta[s] = 0
    BY <1>2 DEF NoWrites
  <2>2. Cardinality(UnitsTo(o, 0, s)) = 0
    BY NoUnits
  <2> QED
    BY <2>1, <2>2
<1>6. g.next - 1 = 0
  BY <1>2
<1> HIDE DEF g
<1> QED
  BY <1>2, <1>3, <1>4, <1>5, <1>6 DEF WritesTrue, g

\* Each line that is written adds its units to the balance of its SKU.
LEMMA NextWrites ==
    ASSUME TypeOK, Writes, NEW w \in Workers, Increment(w) \/ Decrement(w)
    PROVE  WritesTrue(handler'[w])
<1> DEFINE h == handler[w]
           g == handler'[w]
           n == h.next - 1
           o == h.order
           q == h.lines[h.next].qty
           r == h.lines[h.next].sku
<1>1. h \in Handler /\ h # Idle /\ h.next <= Len(h.lines) /\ WritesTrue(h)
  BY BusyHandler DEF Increment, Decrement, Writes
<1>2. /\ q \in Nat /\ o \in Orders /\ h.next \in Nat /\ n \in Nat /\ h.next = n + 1
      /\ Len(h.lines) \in Nat /\ \A s \in Skus : h.delta[s] \in Int
  BY <1>1, QtyType DEF Handler
<1>3. ASSUME NEW d \in Int, g = Written(h, d)
      PROVE  /\ g.pc = h.pc /\ g.lines = h.lines /\ g.order = o /\ g.next = h.next + 1
             /\ g.status = h.status
             /\ \A s \in Skus : g.delta[s] = IF s = r THEN h.delta[s] + d ELSE h.delta[s]
  <2>1. g.status = h.status
    BY <1>1, <1>3 DEF Written, Handler
  <2> QED
    BY <1>1, <1>3, <2>1, WrittenFields
<1>4. ASSUME h.lines = Lines[o], NEW s \in Skus
      PROVE  /\ Cardinality(UnitsTo(o, h.next, s)) =
                   IF s = r THEN Cardinality(UnitsTo(o, n, s)) + q ELSE Cardinality(UnitsTo(o, n, s))
             /\ Cardinality(UnitsTo(o, n, s)) \in Nat
  <2>1. Len(Lines[o]) \in Nat /\ n \in 0 .. Len(Lines[o]) /\ n + 1 <= Len(Lines[o])
    BY <1>1, <1>2, <1>4
  <2>2. r = Lines[o][n + 1].sku /\ q = Lines[o][n + 1].qty
    BY <1>2, <1>4
  <2>3. Cardinality(UnitsTo(o, n + 1, s)) =
           IF r = s THEN Cardinality(UnitsTo(o, n, s)) + q ELSE Cardinality(UnitsTo(o, n, s))
    <3> HIDE DEF n, o, q, r
    <3> QED
      BY <1>2, <2>1, <2>2, NextLine
  <2>4. Cardinality(UnitsTo(o, n, s)) \in Nat
    BY <1>2, <2>1, UnitsFinite, FS_CardinalityType
  <2> QED
    BY <1>2, <2>3, <2>4
<1>5. CASE Increment(w)
  <2>1. g = Written(h, q) /\ h.pc = "write"
    BY <1>5 DEF Increment, TypeOK
  <2>2. h.lines = Lines[o] /\ \A s \in Skus : h.delta[s] = Cardinality(UnitsTo(o, n, s))
    BY <1>1, <2>1 DEF WritesTrue
  <2>3. /\ g.pc = "write" /\ g.lines = h.lines /\ g.order = o /\ g.next = h.next + 1
        /\ \A s \in Skus : g.delta[s] = IF s = r THEN h.delta[s] + q ELSE h.delta[s]
    BY <1>2, <1>3, <2>1
  <2> HIDE DEF g, h, n, o, q, r
  <2>4. \A s \in Skus : g.delta[s] = Cardinality(UnitsTo(o, h.next, s))
    BY <1>4, <2>2, <2>3
  <2>5. g.next - 1 = h.next /\ g.next <= Len(g.lines) + 1
    BY <1>1, <1>2, <2>3
  <2> QED
    BY <2>2, <2>3, <2>4, <2>5 DEF WritesTrue, g
<1>6. CASE Decrement(w)
  <2>1. g = Written(h, 0 - q) /\ h.pc = "release"
    BY <1>6 DEF Decrement, TypeOK
  <2>2. /\ g.pc = "release" /\ g.lines = h.lines /\ g.order = o /\ g.next = h.next + 1 /\ g.status = h.status
        /\ \A s \in Skus : g.delta[s] = IF s = r THEN h.delta[s] + (0 - q) ELSE h.delta[s]
    <3> HIDE DEF g, h, o, q, r
    <3>1. 0 - q \in Int
      BY <1>2
    <3> QED
      BY <1>3, <2>1, <3>1
  <2>3. g.next - 1 = h.next /\ g.next <= Len(g.lines) + 1
    BY <1>1, <1>2, <2>2
  <2>4. CASE h.status = "RESERVED"
    <3>1. h.lines = Lines[o] /\ \A s \in Skus : h.delta[s] = 0 - Cardinality(UnitsTo(o, n, s))
      BY <1>1, <2>1, <2>4 DEF WritesTrue
    <3> HIDE DEF g, h, n, o, q, r
    <3>2. \A s \in Skus : g.delta[s] = 0 - Cardinality(UnitsTo(o, h.next, s))
      BY <1>2, <1>4, <2>2, <3>1
    <3> QED
      BY <2>2, <2>3, <3>1, <3>2 DEF WritesTrue, g
  <2>5. CASE h.status # "RESERVED"
    <3> HIDE DEF h
    <3> QED
      BY <2>2, <2>5 DEF WritesTrue
  <2> QED
    BY <2>4, <2>5
<1> QED
  BY <1>5, <1>6

LEMMA WritesStep ==
    ASSUME TypeOK, OneOutcome, Writes, Next
    PROVE  Writes'
<1>1. ASSUME NEW w \in Workers, CheckLine(w) PROVE WritesTrue(handler'[w])
  <2> DEFINE h == handler[w]
             g == handler'[w]
  <2>1. h \in Handler /\ h # Idle /\ h.pc = "check" /\ WritesTrue(h)
    BY <1>1, BusyHandler DEF CheckLine, Writes
  <2>2. /\ h.lines = Lines[h.order] /\ h.next <= Len(h.lines) /\ h.delta = NoWrites
        /\ h.next \in Nat /\ Len(h.lines) \in Nat /\ h.order \in Orders
    BY <2>1 DEF WritesTrue, Handler
  <2>3. CASE g = [h EXCEPT !.pc = "fail"]
    <3>1. g.pc = "fail" /\ g.delta = NoWrites
      BY <2>1, <2>2, <2>3 DEF Handler
    <3> HIDE DEF g, h
    <3> QED
      BY <3>1 DEF WritesTrue, g
  <2>4. CASE g = Checked(h)
    <3>1. /\ g.lines = h.lines /\ g.order = h.order /\ g.delta = NoWrites
          /\ \/ g.pc = "write" /\ g.next = 1
             \/ g.pc = "check" /\ g.next = h.next + 1 /\ h.next # Len(h.lines)
      BY <2>1, <2>2, <2>4 DEF Checked, Handler
    <3>2. \A s \in Skus : g.delta[s] = 0 /\ Cardinality(UnitsTo(g.order, 0, s)) = 0
      BY <3>1, NoUnits DEF NoWrites
    <3>3. /\ g.next <= Len(g.lines) + 1 /\ g.lines = Lines[g.order]
          /\ g.pc = "check" => g.next <= Len(g.lines)
          /\ g.pc = "write" => g.next - 1 = 0
      BY <2>2, <3>1
    <3> HIDE DEF g, h
    <3> QED
      BY <3>1, <3>2, <3>3 DEF WritesTrue, g
  <2> QED
    BY <1>1, <2>3, <2>4 DEF CheckLine, TypeOK
<1>2. ASSUME NEW w \in Workers, FinishReserve(w) \/ RecordFailure(w) \/ FinishRelease(w), handler'[w] # Idle
      PROVE  WritesTrue(handler'[w])
  <2>1. handler[w] \in Handler
    BY <1>2, BusyHandler DEF FinishReserve, RecordFailure, FinishRelease
  <2>2. handler'[w] = [handler[w] EXCEPT !.pc = "commit"]
    BY <1>2 DEF FinishReserve, RecordFailure, FinishRelease, SaveWithinTransaction, InSequence, Upsert, TypeOK
  <2>3. handler'[w].pc = "commit"
    BY <2>1, <2>2 DEF Handler
  <2> QED
    BY <2>3 DEF WritesTrue
<1>3. ASSUME NEW w \in Workers, Revoke(w) PROVE WritesTrue(handler'[w])
  <2> DEFINE h == handler[w]
             g == handler'[w]
  <2>1. h \in Handler /\ WritesTrue(h)
    BY <1>3, NotIdle DEF Revoke, Owner, Writes
  <2>2. g = [h EXCEPT !.owner = FALSE]
    BY <1>3 DEF Revoke, TypeOK
  <2>3. /\ g.pc = h.pc /\ g.lines = h.lines /\ g.order = h.order /\ g.next = h.next
        /\ g.status = h.status /\ g.delta = h.delta
    BY <2>1, <2>2 DEF Handler
  <2> HIDE DEF g, h
  <2> QED
    BY <2>1, <2>3 DEF WritesTrue, g
<1>4. ASSUME NEW w \in Workers, HandlerStep(w), handler'[w] # Idle PROVE WritesTrue(handler'[w])
  <2>1. CASE CommitOffset(w) \/ DeadlockAbort(w) \/ Abandon(w)
    BY <1>4, <2>1 DEF CommitOffset, DeadlockAbort, Abandon, TypeOK
  <2> QED
    BY <1>1, <1>2, <1>3, <1>4, <2>1, FirstWrites, NextWrites DEF HandlerStep, Worker, Locking
<1>5. ASSUME NEW w \in Workers, HandlerStep(w) PROVE Writes'
  <2>1. \A v \in Workers \ {w} : handler'[v] = handler[v]
    BY <1>5, LockStep
  <2> QED
    BY <1>4, <1>5, <2>1 DEF Writes, WritesTrue
<1>6. ASSUME handler' = handler PROVE Writes'
  BY <1>6 DEF Writes, WritesTrue
<1> QED
  BY <1>5, <1>6, Environment DEF Next, HandlerStep

Ledger == LedgerBalanced /\ \A s \in Skus : IsFiniteSet(ReservedUnits(s))

LEMMA ReservedHas ==
    ASSUME NEW s, NEW x
    PROVE  x \in ReservedUnits(s) <=>
              \E o \in Orders : stream[o] = <<"RESERVED">> /\ x \in UnitsTo(o, Len(Lines[o]), s)
BY DEF ReservedUnits

\* The ledger changes only with the set of reserved orders.
LEMMA SameReserved ==
    ASSUME Ledger, reserved' = reserved,
           \A o \in Orders : stream'[o] = <<"RESERVED">> <=> stream[o] = <<"RESERVED">>
    PROVE  Ledger'
<1>1. ASSUME NEW s \in Skus PROVE ReservedUnits(s)' = ReservedUnits(s)
  <2>1. {o \in Orders : stream'[o] = <<"RESERVED">>} = {o \in Orders : stream[o] = <<"RESERVED">>}
    OBVIOUS
  <2> QED
    BY <2>1 DEF ReservedUnits
<1> QED
  BY <1>1 DEF Ledger, LedgerBalanced

\* Which units a new RESERVED event adds, and a RELEASED one takes away.
LEMMA ReserveUnits ==
    ASSUME TypeOK, Ledger, NEW o \in Orders, Appended(o, "RESERVED"), NEW s \in Skus
    PROVE  /\ IsFiniteSet(ReservedUnits(s)')
           /\ Cardinality(ReservedUnits(s)') =
                 Cardinality(ReservedUnits(s)) + Cardinality(UnitsTo(o, Len(Lines[o]), s))
<1> DEFINE R == ReservedUnits(s)
           U == UnitsTo(o, Len(Lines[o]), s)
<1>1. /\ stream[o] = <<>> /\ stream'[o] = <<"RESERVED">>
      /\ \A x \in Orders \ {o} : stream'[x] = stream[x]
  BY DEF Appended
<1>2. stream[o] # <<"RESERVED">>
  BY <1>1
<1>3. ReservedUnits(s)' = R \cup U
  <2>1. {x \in Orders : stream'[x] = <<"RESERVED">>} = {x \in Orders : stream[x] = <<"RESERVED">>} \cup {o}
    BY <1>1
  <2> QED
    BY <2>1 DEF ReservedUnits
<1>4. R \cap U = {}
  <2> SUFFICES ASSUME NEW x, x \in R, x \in U PROVE FALSE
    OBVIOUS
  <2>1. PICK p \in Orders : stream[p] = <<"RESERVED">> /\ x \in UnitsTo(p, Len(Lines[p]), s)
    BY ReservedHas
  <2>2. UnitsTo(p, Len(Lines[p]), s) \cap UnitsTo(o, Len(Lines[o]), s) = {}
    BY <1>2, <2>1, OrdersApart
  <2> QED
    BY <2>1, <2>2
<1>5. IsFiniteSet(R)
  BY DEF Ledger
<1>6. IsFiniteSet(U)
  BY LinesType, UnitsFinite
<1> HIDE DEF R, U
<1>7. IsFiniteSet(R \cup U) /\ Cardinality(R \cup U) = Cardinality(R) + Cardinality(U) - Cardinality(R \cap U)
  BY <1>5, <1>6, FS_Union
<1>8. Cardinality(R) \in Nat /\ Cardinality(U) \in Nat
  BY <1>5, <1>6, FS_CardinalityType
<1>9. Cardinality(R \cup U) = Cardinality(R) + Cardinality(U)
  <2>1. Cardinality(R \cap U) = 0
    BY <1>4, FS_EmptySet
  <2> QED
    BY <1>7, <1>8, <2>1
<1> QED
  BY <1>3, <1>7, <1>9 DEF R, U

LEMMA ReleaseUnits ==
    ASSUME TypeOK, Ledger, NEW o \in Orders, Appended(o, "RELEASED"), NEW s \in Skus
    PROVE  /\ IsFiniteSet(ReservedUnits(s)')
           /\ Cardinality(ReservedUnits(s)') =
                 Cardinality(ReservedUnits(s)) + (0 - Cardinality(UnitsTo(o, Len(Lines[o]), s)))
<1> DEFINE R == ReservedUnits(s)
           U == UnitsTo(o, Len(Lines[o]), s)
<1>1. /\ stream[o] = <<"RESERVED">> /\ stream'[o] = <<"RESERVED", "RELEASED">>
      /\ \A x \in Orders \ {o} : stream'[x] = stream[x]
  BY DEF Appended
<1>2. stream'[o] # <<"RESERVED">>
  BY <1>1
<1>3. ReservedUnits(s)' = R \ U
  <2>1. ASSUME NEW x \in ReservedUnits(s)' PROVE x \in R \ U
    <3>1. PICK p \in Orders : stream'[p] = <<"RESERVED">> /\ x \in UnitsTo(p, Len(Lines[p]), s)
      BY <2>1 DEF ReservedUnits
    <3>2. p # o /\ stream[p] = <<"RESERVED">>
      BY <1>1, <1>2, <3>1
    <3>3. UnitsTo(p, Len(Lines[p]), s) \cap UnitsTo(o, Len(Lines[o]), s) = {}
      BY <3>2, OrdersApart
    <3> QED
      BY <3>1, <3>2, <3>3, ReservedHas
  <2>2. ASSUME NEW x \in R \ U PROVE x \in ReservedUnits(s)'
    <3>1. PICK p \in Orders : stream[p] = <<"RESERVED">> /\ x \in UnitsTo(p, Len(Lines[p]), s)
      BY <2>2, ReservedHas
    <3>2. p # o /\ stream'[p] = <<"RESERVED">>
      BY <1>1, <2>2, <3>1
    <3> QED
      BY <3>1, <3>2 DEF ReservedUnits
  <2> QED
    BY <2>1, <2>2
<1>4. R \cap U = U
  BY <1>1, ReservedHas
<1>5. IsFiniteSet(R)
  BY DEF Ledger
<1>6. IsFiniteSet(U)
  BY LinesType, UnitsFinite
<1> HIDE DEF R, U
<1>7. IsFiniteSet(R \ U) /\ Cardinality(R \ U) = Cardinality(R) - Cardinality(R \cap U)
  BY <1>5, FS_Difference
<1>8. Cardinality(R) \in Nat /\ Cardinality(U) \in Nat
  BY <1>5, <1>6, FS_CardinalityType
<1>9. Cardinality(R \ U) = Cardinality(R) + (0 - Cardinality(U))
  <2>1. Cardinality(R \ U) = Cardinality(R) - Cardinality(U)
    BY <1>4, <1>7, Zenon
  <2>2. \A a, b \in Nat : a - b = a + (0 - b)
    OBVIOUS
  <2> QED
    BY <1>8, <2>1, <2>2, Zenon
<1>10. IsFiniteSet(ReservedUnits(s)')
  BY <1>3, <1>7
<1>11. Cardinality(ReservedUnits(s)') = Cardinality(R) + (0 - Cardinality(U))
  BY <1>3, <1>9
<1> QED
  BY <1>10, <1>11 DEF R, U

\* A transaction that commits adds to the counters what its event says.
LEMMA SaveLedger ==
    ASSUME TypeOK, OneOutcome, Aggregates, Writes, Ledger,
           NEW w \in Workers, NEW event \in Events, SaveWithinTransaction(w, event),
           \/ handler[w].pc = "write" /\ handler[w].next > Len(handler[w].lines) /\ event = "RESERVED"
           \/ handler[w].pc = "fail" /\ event = "FAILED"
           \/ /\ handler[w].pc = "release" /\ handler[w].status = "RESERVED" /\ event = "RELEASED"
              /\ handler[w].next > Len(handler[w].lines)
    PROVE  Ledger'
<1> DEFINE h == handler[w]
           o == h.order
           U(s) == UnitsTo(o, Len(Lines[o]), s)
<1>1. /\ h \in Handler /\ h # Idle /\ o \in Orders /\ h.next \in Nat /\ Len(h.lines) \in Nat
      /\ WritesTrue(h) /\ \A s \in Skus : h.delta[s] \in Int
  BY BusyHandler DEF Handler, Writes
<1>2. CASE ~InSequence(h)
  BY <1>2, SameReserved DEF SaveWithinTransaction
<1>3. CASE InSequence(h)
  <2>1. /\ stream' = [stream EXCEPT ![o] = Append(@, event)]
        /\ reserved' = [s \in Skus |-> reserved[s] + h.delta[s]]
    BY <1>3 DEF SaveWithinTransaction
  <2>2. Appended(o, event)
    <3>1. stream[o] \in Seq(Events) /\ stream'[o] = Append(stream[o], event)
      BY <1>1, <2>1 DEF TypeOK
    <3>2. Len(stream'[o]) # Len(stream[o])
      BY <3>1
    <3>3. stream' = stream \/ Appended(o, event)
      BY SaveOutcome
    <3> QED
      BY <3>2, <3>3
  <2>3. ASSUME NEW s \in Skus
        PROVE  reserved'[s] = Cardinality(ReservedUnits(s)) + h.delta[s]
    BY <2>1 DEF Ledger, LedgerBalanced
  <2>4. CASE event = "RESERVED"
    <3>1. h.pc = "write" /\ h.next > Len(h.lines)
      BY <2>4
    <3>2. h.lines = Lines[o] /\ h.next <= Len(h.lines) + 1
      BY <1>1, <3>1 DEF WritesTrue
    <3>3. h.next - 1 = Len(Lines[o])
      BY <1>1, <3>1, <3>2
    <3>4. \A s \in Skus : h.delta[s] = Cardinality(U(s))
      BY <1>1, <3>1, <3>3 DEF WritesTrue
    <3>5. \A s \in Skus : /\ IsFiniteSet(ReservedUnits(s)')
                          /\ Cardinality(ReservedUnits(s)') = Cardinality(ReservedUnits(s)) + Cardinality(U(s))
      BY <1>1, <2>2, <2>4, ReserveUnits
    <3> HIDE DEF h, U
    <3> QED
      BY <2>3, <3>4, <3>5 DEF Ledger, LedgerBalanced
  <2>5. CASE event = "FAILED"
    <3>1. h.delta = NoWrites
      BY <1>1, <2>5 DEF WritesTrue
    <3>2. reserved' = reserved
      BY <2>1, <3>1 DEF NoWrites, TypeOK
    <3>3. stream[o] = <<>> /\ stream'[o] = <<"FAILED">> /\ \A x \in Orders \ {o} : stream'[x] = stream[x]
      BY <2>2, <2>5 DEF Appended
    <3>4. \A x \in Orders : stream'[x] = <<"RESERVED">> <=> stream[x] = <<"RESERVED">>
      BY <3>3
    <3> QED
      BY <3>2, <3>4, SameReserved
  <2>6. CASE event = "RELEASED"
    <3>1. h.pc = "release" /\ h.status = "RESERVED" /\ h.next > Len(h.lines)
      BY <2>6
    <3>2. h.lines = Lines[o] /\ h.next <= Len(h.lines) + 1
      BY <1>1, <3>1 DEF WritesTrue
    <3>3. h.next - 1 = Len(Lines[o])
      BY <1>1, <3>1, <3>2
    <3>4. \A s \in Skus : h.delta[s] = 0 - Cardinality(U(s))
      BY <1>1, <3>1, <3>3 DEF WritesTrue
    <3>5. \A s \in Skus : /\ IsFiniteSet(ReservedUnits(s)')
                          /\ Cardinality(ReservedUnits(s)') = Cardinality(ReservedUnits(s)) + (0 - Cardinality(U(s)))
      BY <1>1, <2>2, <2>6, ReleaseUnits
    <3> HIDE DEF h, U
    <3> QED
      BY <2>3, <3>4, <3>5 DEF Ledger, LedgerBalanced
  <2> QED
    BY <2>4, <2>5, <2>6
<1> QED
  BY <1>2, <1>3

LEMMA LedgerStep ==
    ASSUME TypeOK, OneOutcome, Aggregates, Writes, Ledger, Next
    PROVE  Ledger'
<1>1. CASE UNCHANGED <<reserved, stream>>
  BY <1>1, SameReserved
<1>2. ASSUME NEW w \in Workers, FinishReserve(w) PROVE Ledger'
  BY <1>2, SaveLedger DEF FinishReserve, Events
<1>3. ASSUME NEW w \in Workers, RecordFailure(w) PROVE Ledger'
  BY <1>3, SaveLedger DEF RecordFailure, Events
<1>4. ASSUME NEW w \in Workers, FinishRelease(w) PROVE Ledger'
  <2>1. CASE handler[w].status = "RESERVED"
    BY <1>4, <2>1, SaveLedger DEF FinishRelease, Events
  <2>2. CASE handler[w].status # "RESERVED"
    BY <1>1, <1>4, <2>2 DEF FinishRelease
  <2> QED
    BY <2>1, <2>2
<1>5. ASSUME NEW w \in Workers, HandlerStep(w), ~FinishReserve(w), ~RecordFailure(w), ~FinishRelease(w)
      PROVE  UNCHANGED <<reserved, stream>>
  BY <1>5 DEF HandlerStep, Worker, Locking, Take, CheckLine, Decrement, Increment, CommitOffset,
              DeadlockAbort, Abandon, Revoke
<1> QED
  BY <1>1, <1>2, <1>3, <1>4, <1>5, Environment DEF Next, HandlerStep

-----------------------------------------------------------------------------
(***************************************************************************)
(* No oversell.                                                            *)
(***************************************************************************)
Transactions == \A w \in Workers : handler[w] # Idle => TransactionTrue(handler[w])

\* The stock of a row changes only in the transaction that locked it, and what
\* a transaction adds to a row is at most what it has checked.
LEMMA SaveStock ==
    ASSUME TypeOK, Writes, NoOversell, Transactions, NEW w \in Workers, NEW event,
           SaveWithinTransaction(w, event),
           \/ handler[w].pc = "fail"
           \/ handler[w].pc \in {"write", "release"} /\ handler[w].next > Len(handler[w].lines)
    PROVE  /\ NoOversell'
           /\ \A s \in Skus : reserved'[s] # reserved[s] => s \in Locks(w)
<1> DEFINE h == handler[w]
<1>1. h \in Handler /\ h # Idle /\ TransactionTrue(h) /\ WritesTrue(h)
  BY BusyHandler DEF Transactions, Writes
<1>2. CASE UNCHANGED reserved
  BY <1>2 DEF NoOversell
<1>3. CASE reserved' = [s \in Skus |-> reserved[s] + h.delta[s]]
  <2>1. ASSUME NEW s \in Skus
        PROVE  /\ reserved[s] + h.delta[s] <= QtyAvailable[s]
               /\ reserved[s] + h.delta[s] # reserved[s] => s \in Locks(w)
    <3>1. /\ h.delta[s] \in Int /\ reserved[s] \in Int /\ QtyAvailable[s] \in Nat
          /\ reserved[s] <= QtyAvailable[s]
      BY <1>1, StockAssumption DEF Handler, TypeOK, NoOversell
    <3>2. CASE h.delta[s] = 0
      BY <3>1, <3>2
    <3>3. CASE h.delta[s] # 0 /\ h.pc = "write"
      <4> PICK i \in 1 .. h.next - 1 :
             i <= Len(h.lines) /\ h.lines[i].sku = s /\ h.delta[s] <= h.lines[i].qty
        BY <1>1, <3>3 DEF TransactionTrue
      <4>1. i \in LockedLines(h) /\ s \in Locks(w)
        BY <1>1, <3>3 DEF LockedLines, Locks, Handler
      <4>2. h.lines[i] \in Line
        BY <1>1, ElementOfSeq DEF Handler
      <4>3. reserved[s] + h.lines[i].qty <= QtyAvailable[s] /\ h.lines[i].qty \in Nat
        BY <1>1, <3>3, <4>1, <4>2 DEF TransactionTrue, Fits, Line
      <4> QED
        BY <3>1, <4>1, <4>3
    <3>4. CASE h.delta[s] # 0 /\ h.pc = "release"
      <4> PICK i \in 1 .. h.next - 1 : i <= Len(h.lines) /\ h.lines[i].sku = s
        BY <1>1, <3>4 DEF TransactionTrue
      <4>1. s \in Locks(w)
        BY <1>1, <3>4 DEF LockedLines, Locks, Handler
      <4>2. h.delta[s] <= 0
        BY <1>1, <3>4 DEF TransactionTrue
      <4> QED
        BY <3>1, <4>1, <4>2
    <3>5. CASE h.pc = "fail"
      BY <1>1, <3>2, <3>5 DEF WritesTrue, NoWrites
    <3> QED
      BY <3>2, <3>3, <3>4, <3>5
  <2>2. \A s \in Skus : reserved'[s] = reserved[s] + h.delta[s]
    BY <1>3
  <2> HIDE DEF h
  <2> QED
    BY <2>1, <2>2 DEF NoOversell
<1> QED
  BY <1>2, <1>3 DEF SaveWithinTransaction, InSequence, Upsert

LEMMA StockStep ==
    ASSUME TypeOK, Writes, NoOversell, Transactions, NEW w \in Workers, HandlerStep(w)
    PROVE  /\ NoOversell'
           /\ \A s \in Skus : reserved'[s] # reserved[s] => s \in Locks(w)
<1>1. CASE UNCHANGED reserved
  BY <1>1 DEF NoOversell
<1>2. CASE FinishReserve(w)
  BY <1>2, SaveStock DEF FinishReserve
<1>3. CASE RecordFailure(w)
  BY <1>3, SaveStock DEF RecordFailure
<1>4. CASE FinishRelease(w)
  BY <1>1, <1>4, SaveStock DEF FinishRelease
<1>5. ASSUME ~FinishReserve(w), ~RecordFailure(w), ~FinishRelease(w)
      PROVE  UNCHANGED reserved
  BY <1>5 DEF HandlerStep, Worker, Locking, Take, CheckLine, Decrement, Increment, CommitOffset,
              DeadlockAbort, Abandon, Revoke
<1> QED
  BY <1>1, <1>2, <1>3, <1>4, <1>5

\* The steps of a transaction keep what is known of it.
LEMMA OwnTransaction ==
    ASSUME DistinctSkus, TypeOK, Writes, Transactions, NEW w \in Workers, HandlerStep(w), handler'[w] # Idle
    PROVE  TransactionTrue(handler[w])'
<1> DEFINE h == handler[w]
           g == handler'[w]
<1>1. CASE \E o \in Orders : Take(w, o)
  <2> PICK o \in Orders : Take(w, o)
    BY <1>1
  <2>1. g = StartReserve(o) \/ g = StartRelease(o)
    BY DEF Take, TypeOK
  <2>2. /\ g.next = 1 /\ g.delta = NoWrites /\ g.pc \in {"check", "release", "commit"} /\ g.order = o
        /\ g.pc = "check" => g.lines = Lines[o]
    BY <2>1 DEF StartReserve, Projected, StartRelease, Job
  <2>3. Len(Lines[o]) >= 1
    BY LinesType
  <2>4. LockedLines(g) = {}
    BY <2>2 DEF LockedLines
  <2> HIDE DEF g
  <2> QED
    BY <2>2, <2>3, <2>4 DEF TransactionTrue, NoWrites, g
<1>2. CASE CheckLine(w)
  <2>1. /\ h \in Handler /\ h # Idle /\ h.pc = "check" /\ reserved' = reserved
        /\ TransactionTrue(h) /\ WritesTrue(h)
    BY <1>2, BusyHandler DEF CheckLine, Transactions, Writes
  <2>2. CASE g = [h EXCEPT !.pc = "fail"]
    <3>1. g.pc = "fail" /\ g.delta = h.delta
      BY <2>1, <2>2 DEF Handler
    <3> QED
      BY <2>1, <3>1 DEF TransactionTrue
  <2>3. CASE Fits(h.lines[h.next]) /\ g = Checked(h)
    <3>1. /\ g.lines = h.lines /\ g.order = h.order /\ g.delta = h.delta /\ h.delta = NoWrites
          /\ h.lines = Lines[h.order] /\ h.next <= Len(h.lines) /\ h.next \in Nat
          /\ \/ g.pc = "write" /\ g.next = 1 /\ h.next = Len(h.lines)
             \/ g.pc = "check" /\ g.next = h.next + 1 /\ h.next # Len(h.lines)
      BY <2>1, <2>3 DEF Checked, Handler, WritesTrue
    <3>2. Len(h.lines) \in Nat
      BY <2>1 DEF Handler
    <3>3. \A i \in LockedLines(g) : i \in LockedLines(h) \/ i = h.next
      BY <2>1, <3>1, <3>2 DEF LockedLines
    <3>4. \A i \in LockedLines(g) : Fits(g.lines[i])
      BY <2>1, <2>3, <3>1, <3>3 DEF TransactionTrue
    <3>5. g.next <= Len(g.lines) \/ g.pc = "write"
      BY <3>1, <3>2
    <3> HIDE DEF g, h
    <3>6. TransactionTrue(g)
      BY <3>1, <3>4, <3>5 DEF TransactionTrue, NoWrites
    <3> QED
      BY <2>1, <3>6 DEF TransactionTrue, Fits, LockedLines, g
  <2> QED
    BY <1>2, <2>2, <2>3 DEF CheckLine, TypeOK
<1>3. CASE Increment(w) \/ Decrement(w)
  <2>1. /\ h \in Handler /\ h # Idle /\ h.next <= Len(h.lines) /\ reserved' = reserved
        /\ TransactionTrue(h) /\ WritesTrue(h)
    BY <1>3, BusyHandler DEF Increment, Decrement, Transactions, Writes
  <2> DEFINE n == h.next
             q == h.lines[n].qty
             r == h.lines[n].sku
  <2>2. q \in Nat /\ n \in 1 .. n /\ n \in Nat
    BY <2>1, QtyType DEF Handler
  <2>3. ASSUME NEW d \in Int, g = Written(h, d)
        PROVE  /\ g.pc = h.pc /\ g.lines = h.lines /\ g.order = h.order /\ g.next = n + 1
               /\ \A s \in Skus : g.delta[s] = IF s = r THEN h.delta[s] + d ELSE h.delta[s]
    BY <2>1, <2>3, WrittenFields
  <2>4. \A s \in Skus : h.delta[s] \in Int
    BY <2>1 DEF Handler
  <2>5. CASE h.pc = "write" /\ g = Written(h, q)
    <3>1. /\ g.pc = h.pc /\ g.lines = h.lines /\ g.order = h.order /\ g.next = n + 1
          /\ \A s \in Skus : g.delta[s] = IF s = r THEN h.delta[s] + q ELSE h.delta[s]
      <4>1. q \in Int
        BY <2>2
      <4> QED
        BY <2>3, <2>5, <4>1
    <3>2. \A i \in 1 .. n - 1 : h.lines[i].sku # r
      <4>1. h.lines = Lines[h.order] /\ h.order \in Orders /\ Len(h.lines) \in Nat
        BY <2>1, <2>5 DEF WritesTrue, Handler
      <4>2. \A i \in 1 .. n - 1 : i \in DOMAIN h.lines /\ n \in DOMAIN h.lines /\ i # n
        BY <2>1, <2>2, <4>1 DEF Handler
      <4> QED
        BY <4>1, <4>2 DEF DistinctSkus
    <3>3. ASSUME NEW s \in Skus, g.delta[s] # 0
          PROVE  \E i \in 1 .. g.next - 1 :
                    i <= Len(g.lines) /\ g.lines[i].sku = s /\ g.delta[s] <= g.lines[i].qty
      <4>1. CASE s = r
        <5>1. h.delta[s] = 0
          BY <2>1, <2>5, <3>2, <4>1 DEF TransactionTrue
        <5>2. g.delta[s] = q
          BY <2>2, <3>1, <4>1, <5>1
        <5>3. n \in 1 .. g.next - 1 /\ n <= Len(g.lines) /\ g.lines[n].sku = s /\ g.delta[s] <= g.lines[n].qty
          <6>1. n \in 1 .. g.next - 1
            BY <2>2, <3>1
          <6>2. n <= Len(g.lines) /\ g.lines[n].sku = s /\ g.lines[n].qty = q
            BY <2>1, <3>1, <4>1
          <6> QED
            BY <2>2, <5>2, <6>1, <6>2
        <5> QED
          BY <5>3
      <4>2. CASE s # r
        <5>1. g.delta[s] = h.delta[s] /\ h.delta[s] # 0
          BY <3>1, <3>3, <4>2
        <5> PICK i \in 1 .. n - 1 :
               i <= Len(h.lines) /\ h.lines[i].sku = s /\ h.delta[s] <= h.lines[i].qty
          BY <2>1, <2>5, <5>1 DEF TransactionTrue
        <5>2. i \in 1 .. g.next - 1
          BY <2>2, <3>1
        <5> QED
          BY <3>1, <5>1, <5>2
      <4> QED BY <4>1, <4>2
    <3>4. LockedLines(g) = LockedLines(h)
      BY <2>1, <2>5, <3>1 DEF LockedLines
    <3>5. \A i \in LockedLines(g) : Fits(g.lines[i])
      BY <2>1, <2>5, <3>1, <3>4 DEF TransactionTrue
    <3>6. g.pc = "write"
      BY <2>5, <3>1
    <3> HIDE DEF g, h
    <3>7. TransactionTrue(g)
      BY <3>3, <3>4, <3>5, <3>6 DEF TransactionTrue
    <3> QED
      BY <2>1, <3>7 DEF TransactionTrue, Fits, LockedLines, g
  <2>6. CASE h.pc = "release" /\ g = Written(h, 0 - q)
    <3>1. /\ g.pc = h.pc /\ g.lines = h.lines /\ g.next = n + 1
          /\ \A s \in Skus : g.delta[s] = IF s = r THEN h.delta[s] + (0 - q) ELSE h.delta[s]
      <4>1. 0 - q \in Int
        BY <2>2
      <4> QED
        BY <2>3, <2>6, <4>1
    <3>2. ASSUME NEW s \in Skus
          PROVE  /\ g.delta[s] <= 0
                 /\ g.delta[s] # 0 => \E i \in 1 .. g.next - 1 : i <= Len(g.lines) /\ g.lines[i].sku = s
      <4>1. h.delta[s] <= 0 /\ h.delta[s] \in Int
        BY <2>1, <2>4, <2>6 DEF TransactionTrue
      <4>2. CASE s = r
        <5>1. n \in 1 .. g.next - 1 /\ n <= Len(g.lines) /\ g.lines[n].sku = s
          BY <2>1, <2>2, <3>1, <4>2
        <5>2. g.delta[s] = h.delta[s] + (0 - q)
          BY <3>1, <4>2
        <5> HIDE DEF q
        <5> QED
          BY <2>2, <4>1, <5>1, <5>2
      <4>3. CASE s # r
        <5>1. g.delta[s] = h.delta[s]
          BY <3>1, <4>3
        <5>2. h.delta[s] # 0 => \E i \in 1 .. n - 1 : i <= Len(h.lines) /\ h.lines[i].sku = s
          BY <2>1, <2>6 DEF TransactionTrue
        <5>3. \A i \in 1 .. n - 1 : i \in 1 .. g.next - 1
          BY <2>2, <3>1
        <5> QED
          BY <3>1, <4>1, <5>1, <5>2, <5>3
      <4> QED BY <4>2, <4>3
    <3>3. g.pc = "release"
      BY <2>6, <3>1
    <3> HIDE DEF g, h
    <3> QED
      BY <3>2, <3>3 DEF TransactionTrue, g
  <2> QED
    BY <1>3, <2>5, <2>6 DEF Increment, Decrement, TypeOK
<1>4. CASE FinishReserve(w) \/ RecordFailure(w) \/ FinishRelease(w)
  <2>1. h \in Handler
    BY <1>4, BusyHandler DEF FinishReserve, RecordFailure, FinishRelease
  <2>2. g = Idle \/ g = [h EXCEPT !.pc = "commit"]
    BY <1>4 DEF FinishReserve, RecordFailure, FinishRelease, SaveWithinTransaction, InSequence, Upsert, TypeOK
  <2>3. g.pc = "commit"
    BY <2>1, <2>2 DEF Handler
  <2> QED
    BY <2>3 DEF TransactionTrue
<1>5. CASE CommitOffset(w) \/ DeadlockAbort(w) \/ Abandon(w)
  BY <1>5 DEF CommitOffset, DeadlockAbort, Abandon, TypeOK
<1>6. CASE Revoke(w)
  <2>1. h \in Handler /\ h # Idle /\ reserved' = reserved /\ TransactionTrue(h)
    BY <1>6, NotIdle DEF Revoke, Owner, Transactions
  <2>2. g = [h EXCEPT !.owner = FALSE]
    BY <1>6 DEF Revoke, TypeOK
  <2>3. /\ g.pc = h.pc /\ g.lines = h.lines /\ g.order = h.order /\ g.next = h.next
        /\ g.delta = h.delta
    BY <2>1, <2>2 DEF Handler
  <2>4. LockedLines(g) = LockedLines(h)
    BY <2>3 DEF LockedLines
  <2> HIDE DEF g, h
  <2>5. TransactionTrue(g)
    BY <2>1, <2>3, <2>4 DEF TransactionTrue
  <2> QED
    BY <2>1, <2>5 DEF TransactionTrue, Fits, LockedLines, g
<1> QED
  BY <1>1, <1>2, <1>3, <1>4, <1>5, <1>6 DEF HandlerStep, Worker, Locking

\* A row a transaction has locked is not changed by any other.
LEMMA OtherTransaction ==
    ASSUME TypeOK, LocksExclusive, Writes, NoOversell, Transactions,
           NEW w \in Workers, HandlerStep(w), NEW v \in Workers, v # w, handler[v] # Idle
    PROVE  TransactionTrue(handler[v])'
<1> DEFINE h == handler[v]
<1>1. handler'[v] = h /\ TransactionTrue(h)
  BY LockStep DEF Transactions
<1>2. \A s \in Skus : s \in Locks(v) => reserved'[s] = reserved[s]
  BY StockStep DEF LocksExclusive
<1>3. \A i \in LockedLines(h) : h.lines[i].sku \in Locks(v)
  BY DEF Locks
<1>4. ASSUME NEW i \in LockedLines(h), Fits(h.lines[i])
      PROVE  /\ h.lines[i].sku \in Skus
             /\ reserved'[h.lines[i].sku] + h.lines[i].qty <= QtyAvailable[h.lines[i].sku]
  BY <1>2, <1>3, <1>4 DEF Fits
<1> HIDE DEF h
<1> QED
  BY <1>1, <1>4 DEF TransactionTrue, Fits, LockedLines, h

LEMMA TransactionsStep ==
    ASSUME DistinctSkus, TypeOK, LocksExclusive, Writes, NoOversell, Transactions, Next
    PROVE  NoOversell' /\ Transactions'
<1>1. ASSUME NEW w \in Workers, HandlerStep(w) PROVE NoOversell' /\ Transactions'
  <2>1. \A v \in Workers \ {w} : handler'[v] = handler[v]
    BY <1>1, LockStep
  <2>2. ASSUME NEW v \in Workers, handler'[v] # Idle PROVE TransactionTrue(handler[v])'
    BY <1>1, <2>1, <2>2, OwnTransaction, OtherTransaction
  <2>3. NoOversell'
    BY <1>1, StockStep
  <2> QED
    BY <2>2, <2>3 DEF Transactions
<1>2. ASSUME UNCHANGED <<reserved, stream, projection, handler>> PROVE NoOversell' /\ Transactions'
  BY <1>2 DEF NoOversell, Transactions, TransactionTrue, Fits, LockedLines
<1> QED
  BY <1>1, <1>2, Environment DEF Next, HandlerStep

-----------------------------------------------------------------------------
(***************************************************************************)
(* The theorems.                                                           *)
(***************************************************************************)

\* IInv holds in every reachable state: the invariant of ReserveStockHandler
\* and ReleaseInventoryHandler on which the other theorems rest.
THEOREM Invariant == Spec => []IInv
<1>1. Init => IInv
  <2> SUFFICES ASSUME Init PROVE IInv
    OBVIOUS
  <2>1. TypeOK
    BY DEF Init, TypeOK, NoWrites, Statuses
  <2>2. \A w \in Workers : handler[w] = Idle
    BY DEF Init
  <2>3. OwnersTrue /\ LocksExclusive
    BY <2>2 DEF OwnersTrue, Owner, LocksExclusive, Locks
  <2>4. OneOutcome
    BY DEF Init, OneOutcome, Status
  <2>5. NoOversell
    BY StockAssumption DEF Init, NoOversell, NoWrites
  <2>7. Ledger
    <3>1. ASSUME NEW s \in Skus PROVE ReservedUnits(s) = {} /\ reserved[s] = 0
      <4>1. \A o \in Orders : stream[o] # <<"RESERVED">>
        BY DEF Init
      <4> QED
        BY <4>1, ReservedHas DEF Init, NoWrites
    <3> QED
      BY <3>1, FS_EmptySet DEF Ledger, LedgerBalanced
  <2>8. NoCommandLost /\ VerdictsTrue
    <3>1. ASSUME NEW o \in Orders PROVE ~(requests[o] > 0) /\ verdict[o] = "none"
      BY DEF Init
    <3> QED
      BY <3>1 DEF NoCommandLost, VerdictsTrue
  <2>6. CommandsTrue
    <3>1. DOMAIN <<>> = {}
      OBVIOUS
    <3> QED
      BY <3>1 DEF Init, CommandsTrue
  <2> QED
    BY <2>1, <2>2, <2>3, <2>4, <2>5, <2>6, <2>7, <2>8 DEF IInv, Ledger, VerdictsTrue
<1>2. IInv /\ [Next]_vars => IInv'
  <2> SUFFICES ASSUME IInv, [Next]_vars PROVE IInv'
    OBVIOUS
  <2>1. CASE Next
    <3>1. TypeOK' /\ OwnersTrue' /\ LocksExclusive'
      BY <2>1, TypeStep, OwnersStep, LocksStep DEF IInv
    <3>2. OneOutcome' /\ Aggregates'
      BY <2>1, OutcomeStep, AggregatesStep DEF IInv, Aggregates
    <3>3. DistinctSkus => NoOversell' /\ Transactions'
      BY <2>1, TransactionsStep DEF IInv, Transactions, Writes
    <3>5. Writes' /\ Ledger'
      BY <2>1, WritesStep, LedgerStep DEF IInv, Writes, Ledger, Aggregates
    <3>6. NoCommandLost' /\ Work' /\ VerdictsTrue'
      BY <2>1, LostStep, WorkStep, VerdictsStep DEF IInv, Work, VerdictsTrue, Aggregates, Requested
    <3>4. CommandsTrue' /\ Requested'
      BY <2>1, CommandsStep, RequestedStep DEF IInv, Requested, Aggregates
    <3> QED
      BY <3>1, <3>2, <3>3, <3>4, <3>5, <3>6
         DEF IInv, Aggregates, Transactions, DistinctSkus, Requested, Writes, Ledger, Work, VerdictsTrue
  <2>2. CASE UNCHANGED vars
    <3>1. UNCHANGED <<reserved, stream, projection, inbox, handler, requests, verdict, faults>>
      BY <2>2 DEF vars
    <3>2. TypeOK'
      BY <3>1 DEF IInv, TypeOK
    <3>3. OwnersTrue'
      BY <3>1 DEF IInv, OwnersTrue, Owner
    <3>4. OneOutcome'
      BY <3>1 DEF IInv, OneOutcome, Status
    <3>5. LocksExclusive'
      <4>1. \A v \in Workers : Locks(v)' = Locks(v)
        BY <3>1, SameLocks
      <4> QED
        BY <4>1 DEF IInv, LocksExclusive
    <3>6. Aggregates'
      BY <3>1 DEF IInv, Aggregates, AggregateTrue
    <3>7. DistinctSkus => NoOversell' /\ Transactions'
      BY <3>1 DEF IInv, NoOversell, Transactions, TransactionTrue, Fits, LockedLines
    <3>8. CommandsTrue'
      BY <3>1 DEF IInv, CommandsTrue
    <3>9. Requested'
      BY <3>1 DEF IInv, Requested, RequestedTrue
    <3>10. Writes'
      BY <3>1 DEF IInv, Writes, WritesTrue
    <3>11. Ledger'
      BY <3>1, SameReserved DEF IInv, Ledger
    <3>12. NoCommandLost'
      BY <3>1 DEF IInv, NoCommandLost, Pending
    <3>13. Work'
      BY <3>1 DEF IInv, Work, CommandTrue
    <3>14. VerdictsTrue'
      BY <3>1 DEF IInv, VerdictsTrue, WasReserved
    <3> QED
      BY <3>2, <3>3, <3>4, <3>5, <3>6, <3>7, <3>8, <3>9, <3>10, <3>11, <3>12, <3>13, <3>14
         DEF IInv, Aggregates, Transactions, DistinctSkus, Requested, Writes, Ledger, Work, VerdictsTrue
  <2> QED
    BY <2>1, <2>2
<1> QED
  BY <1>1, <1>2, PTL DEF Spec

\* A reservation attempt has one outcome and is released at most once, however
\* often ReserveStock and ReleaseInventory are redelivered and wherever two
\* replicas handle one order at a time; the projection agrees with the stream.
THEOREM OneOutcomeAlways == Spec => []OneOutcome
<1>1. IInv => OneOutcome
  BY DEF IInv
<1> QED
  BY <1>1, Invariant, PTL

\* In every reachable state qtyReserved of each row is the number of units in
\* the orders whose stream says RESERVED, for any lines (a SKU may be unknown
\* or named twice), replicas, rollbacks, crashes and repeated commands.
THEOREM LedgerAlwaysBalanced == Spec => []LedgerBalanced
<1>1. IInv => LedgerBalanced
  BY DEF IInv
<1> QED
  BY <1>1, Invariant, PTL

\* The offset of ReserveStock is committed only once the reservation has an
\* outcome, and that of ReleaseInventory only once nothing is left to release,
\* for any replicas, deadlocks, crashes and rebalances (the consumer's
\* commitOffsets comes after the handler, and skips only what is done).
THEOREM NothingForgotten == Spec => []NoCommandLost
<1>1. IInv => NoCommandLost
  BY DEF IInv
<1> QED
  BY <1>1, Invariant, PTL

\* If no order names a SKU twice, SELECT ... FOR UPDATE keeps qtyReserved from
\* exceeding qtyAvailable, for any number of orders, replicas and faults.
THEOREM NoOversellAlways ==
    ASSUME DistinctSkus
    PROVE  Spec => []NoOversell
<1>1. IInv => NoOversell
  BY DistinctSkus DEF IInv
<1> QED
  BY <1>1, Invariant, PTL

\* What the streams that occur say.
LEMMA SaysWhat ==
    /\ Says(Status(<<>>)) = "none"
    /\ Says(Status(<<"RESERVED">>)) = "success"
    /\ Says(Status(<<"FAILED">>)) = "failure"
    /\ Says(Status(<<"RESERVED", "RELEASED">>)) = "undone"
BY DEF Says, Status

LEMMA ParticipantStep ==
    ASSUME IInv, Next
    PROVE  P!Next \/ UNCHANGED P!vars
<1> DEFINE asked == {o \in Orders : requests[o] > 0}
           undoAsked == {o \in Orders : verdict[o] = "compensating"}
           answer == [o \in Orders |-> Says(Status(stream[o]))]
<1>1. ASSUME NEW o \in Orders, NEW c \in Commands, Publish(o, c)
      PROVE  asked' = asked \cup {o} /\ answer' = answer
  <2>1. requests' = [requests EXCEPT ![o] = @ + 1] /\ stream' = stream
    BY <1>1 DEF Publish
  <2>2. \A x \in Orders : /\ requests'[x] = IF x = o THEN requests[o] + 1 ELSE requests[x]
                          /\ requests[x] \in Nat
    BY <2>1 DEF IInv, TypeOK
  <2>3. asked' = asked \cup {o}
    BY <2>2
  <2> QED
    BY <2>1, <2>3 DEF Status
<1>2. ASSUME NEW o \in Orders, RequestReserve(o) PROVE P!Ask(o)
  <2>1. Publish(o, "ReserveStock") /\ verdict' = verdict
    BY <1>2 DEF RequestReserve
  <2>2. asked' = asked \cup {o} /\ undoAsked' = undoAsked /\ answer' = answer
    BY <1>1, <2>1 DEF Commands
  <2> QED
    BY <2>2 DEF P!Ask
<1>3. ASSUME NEW o \in Orders, WasReserved(o), verdict' = [verdict EXCEPT ![o] = "compensating"],
             asked' = asked, answer' = answer
      PROVE  P!AskUndo(o)
  <2>1. undoAsked' = undoAsked \cup {o}
    BY <1>3 DEF IInv, TypeOK
  <2>2. stream[o] = <<"RESERVED">> \/ stream[o] = <<"RESERVED", "RELEASED">>
    BY <1>3 DEF IInv, OneOutcome, WasReserved
  <2>3. answer[o] \in {"success", "undone"}
    BY <2>2, SaysWhat
  <2> QED
    BY <1>3, <2>1, <2>3 DEF P!AskUndo
<1>4. ASSUME NEW o \in Orders, RequestRelease(o) PROVE P!AskUndo(o)
  <2>1. Publish(o, "ReleaseInventory") /\ WasReserved(o) /\ verdict' = [verdict EXCEPT ![o] = "compensating"]
    BY <1>4 DEF RequestRelease
  <2>2. asked' = asked \cup {o} /\ answer' = answer
    BY <1>1, <2>1 DEF Commands
  <2>3. o \in asked
    BY <2>1 DEF WasReserved, IInv, CommandsTrue
  <2> QED
    BY <1>3, <2>1, <2>2, <2>3
<1>5. ASSUME NEW o \in Orders, Confirm(o) PROVE UNCHANGED P!vars
  <2>1. requests' = requests /\ stream' = stream
    BY <1>5 DEF Confirm
  <2>2. undoAsked' = undoAsked
    BY <1>5 DEF Confirm, IInv, TypeOK
  <2> QED
    BY <2>1, <2>2 DEF P!vars, Status
<1>6. ASSUME NEW w \in Workers, HandlerStep(w), stream' # stream PROVE P!Next
  <2>1. PICK o \in Orders, event \in Events :
              /\ Appended(o, event)
              /\ requests[o] > 0
              /\ event = "RELEASED" => verdict[o] = "compensating"
    BY <1>6, RecordStep DEF IInv, Aggregates, Requested
  <2>2. requests' = requests /\ verdict' = verdict
    BY <1>6, HandlerExternal
  <2>3. asked' = asked /\ undoAsked' = undoAsked
    BY <2>2
  <2>4. answer' = [answer EXCEPT ![o] = Says(Status(stream'[o]))]
    BY <2>1 DEF Appended, Status
  <2>5. CASE stream[o] = <<>> /\ stream'[o] = <<event>> /\ event \in {"RESERVED", "FAILED"}
    <3>1. answer[o] = "none" /\ o \in asked
      BY <2>1, <2>5, SaysWhat
    <3>2. Says(Status(stream'[o])) \in {"success", "failure"}
      BY <2>5, SaysWhat
    <3>3. P!Answer(o, Says(Status(stream'[o])))
      BY <2>3, <2>4, <3>1 DEF P!Answer
    <3> QED
      BY <3>2, <3>3 DEF P!Next
  <2>6. CASE event = "RELEASED" /\ stream[o] = <<"RESERVED">> /\ stream'[o] = <<"RESERVED", "RELEASED">>
    <3>1. answer[o] = "success" /\ o \in undoAsked /\ Says(Status(stream'[o])) = "undone"
      BY <2>1, <2>6, SaysWhat
    <3>2. P!Undo(o)
      BY <2>3, <2>4, <3>1 DEF P!Undo
    <3> QED
      BY <3>2 DEF P!Next
  <2> QED
    BY <2>1, <2>5, <2>6 DEF Appended
<1>7. ASSUME NEW w \in Workers, HandlerStep(w), stream' = stream PROVE UNCHANGED P!vars
  <2>1. requests' = requests /\ verdict' = verdict
    BY <1>7, HandlerExternal
  <2> QED
    BY <1>7, <2>1 DEF P!vars, Status
<1>8. CASE \E w \in Workers : HandlerStep(w)
  BY <1>6, <1>7, <1>8
<1>9. CASE \E o \in Orders : RequestReserve(o) \/ RequestRelease(o) \/ Confirm(o)
  BY <1>2, <1>4, <1>5, <1>9 DEF P!Next
<1> QED
  BY <1>8, <1>9 DEF Next, HandlerStep

\* inventory-service is a Participant: ReserveStock is answered once and a
\* reservation is released only on request and once, for any orders, number of
\* replicas, faults and repeated commands.  SagaStateMachine assumes it.
THEOREM Implementation == Spec => ImplementsParticipant
<1>1. Init => P!Init
  BY SaysWhat DEF Init, P!Init
<1>2. IInv /\ [Next]_vars => [P!Next]_P!vars
  <2>1. CASE Next
    BY <2>1, ParticipantStep
  <2>2. CASE UNCHANGED vars
    BY <2>2 DEF vars, P!vars, Status
  <2> QED
    BY <2>1, <2>2
<1> QED
  BY <1>1, <1>2, Invariant, PTL DEF Spec, ImplementsParticipant, P!Spec
=============================================================================
