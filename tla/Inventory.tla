------------------------------- MODULE Inventory -------------------------------
(***************************************************************************)
(* inventory-service: ReserveStockHandler and ReleaseInventoryHandler over *)
(* stock_level (row locks), event_store / outbox / reservation_projection, *)
(* run by the replicas of the deployment (Workers).                        *)
(*                                                                         *)
(* A transaction locks its rows one by one and keeps them until it ends,   *)
(* so its writes are a private delta until the commit, and a rollback is   *)
(* the loss of the handler's state.  Two transactions may meet on a row in *)
(* opposite orders; PostgreSQL then aborts one (DeadlockAbort).            *)
(*                                                                         *)
(* An event is named by the status StockAggregate.when gives it.  Each row *)
(* inserted in event_store has its outbox row in the same transaction, so  *)
(* stream stands for both tables.                                          *)
(***************************************************************************)
EXTENDS Integers, Sequences, FiniteSets

CONSTANTS
    Orders,
    Workers,       \* replicas of inventory-service
    Skus,          \* the rows of stock_level
    QtyAvailable,  \* their qtyAvailable, which no code changes
    Lines,         \* the lines of each order; a SKU may be unknown
    MaxFaults,     \* bound on Abandon and Revoke steps of a behaviour
    MaxCommands    \* bound on the commands published per order

Line == [sku : STRING, qty : Nat]

\* The gateway refuses an empty order and a quantity that is not positive.
ASSUME LinesAssumption ==
    /\ Lines \in [Orders -> Seq(Line)]
    /\ \A o \in Orders : Len(Lines[o]) > 0

ASSUME StockAssumption == Skus \subseteq STRING /\ QtyAvailable \in [Skus -> Nat]
ASSUME BoundsAssumption == MaxFaults \in Nat /\ MaxCommands \in Nat

\* No order names a SKU twice.  Nothing in the code checks it.
DistinctSkus ==
    \A o \in Orders : \A i, j \in DOMAIN Lines[o] : Lines[o][i].sku = Lines[o][j].sku => i = j

Events == {"RESERVED", "FAILED", "RELEASED"}
Statuses == Events \cup {"UNINITIALIZED"}
Commands == {"ReserveStock", "ReleaseInventory"}

VARIABLES
    reserved,    \* stock_level.qtyReserved, as committed
    stream,      \* event_store (and outbox): the events of each order
    projection,  \* reservation_projection.status; UNINITIALIZED is no row
    inbox,       \* saga.commands: the commands of an order not yet committed
    handler,     \* what each worker is doing
    requests,    \* commands published so far, per order
    verdict,     \* the orchestrator: whether it confirmed or compensates
    faults       \* how much of MaxFaults is used

vars == <<reserved, stream, projection, inbox, handler, requests, verdict, faults>>
external == <<requests, verdict, faults>>

Idle == [pc |-> "idle"]

\* "check" and "write" are the two loops of reserveLinesWithinTransaction,
\* "release" that of releaseLinesWithinTransaction, next the line they are at;
\* "fail" is before the transaction that records a failure, "commit" before
\* commitOffsets.  status and version belong to the aggregate in memory.
Handler == [pc : {"check", "write", "release", "fail", "commit"}, order : Orders,
            owner : BOOLEAN, lines : Seq(Line), next : Nat \ {0},
            status : Statuses, version : Nat, delta : [Skus -> Int]]

TypeOK ==
    /\ reserved \in [Skus -> Int]
    /\ stream \in [Orders -> Seq(Events)]
    /\ projection \in [Orders -> Statuses]
    /\ inbox \in [Orders -> Seq(Commands)]
    /\ handler \in [Workers -> Handler \cup {Idle}]
    /\ requests \in [Orders -> Nat]
    /\ verdict \in [Orders -> {"none", "confirmed", "compensating"}]
    /\ faults \in Nat

NoWrites == [s \in Skus |-> 0]

Init ==
    /\ reserved = NoWrites
    /\ stream = [o \in Orders |-> <<>>]
    /\ projection = [o \in Orders |-> "UNINITIALIZED"]
    /\ inbox = [o \in Orders |-> <<>>]
    /\ handler = [w \in Workers |-> Idle]
    /\ requests = [o \in Orders |-> 0]
    /\ verdict = [o \in Orders |-> "none"]
    /\ faults = 0
-----------------------------------------------------------------------------
(***************************************************************************)
(* eachMessage: the worker takes the oldest command of a partition.        *)
(***************************************************************************)
Owner(w) == handler[w] # Idle /\ handler[w].owner

Job(pc, o, lines, status, version) ==
    [pc |-> pc, order |-> o, owner |-> TRUE, lines |-> lines, next |-> 1,
     status |-> status, version |-> version, delta |-> NoWrites]

\* hydrate: the status is that of the last event, and the lines come with the
\* RESERVED event; a failed reservation has none.
Status(s) == IF s = <<>> THEN "UNINITIALIZED" ELSE s[Len(s)]
LinesOf(o) == IF stream[o][1] = "RESERVED" THEN Lines[o] ELSE <<>>

\* findByOrderId.
Projected(o) == projection[o] # "UNINITIALIZED"

\* ReserveStockHandler up to the transaction: an order that has a projection
\* row is skipped.
StartReserve(o) ==
    Job(IF Projected(o) THEN "commit" ELSE "check", o, Lines[o], "UNINITIALIZED", 0)

\* ReleaseInventoryHandler up to the transaction.
StartRelease(o) == Job("release", o, LinesOf(o), Status(stream[o]), Len(stream[o]))

\* An unknown reservation throws NotFoundException: the command stays.
Take(w, o) ==
    /\ handler[w] = Idle
    /\ inbox[o] # <<>>
    /\ \A v \in Workers : ~(Owner(v) /\ handler[v].order = o)
    /\ \/ /\ Head(inbox[o]) = "ReserveStock"
          /\ handler' = [handler EXCEPT ![w] = StartReserve(o)]
       \/ /\ Head(inbox[o]) = "ReleaseInventory"
          /\ stream[o] # <<>>
          /\ handler' = [handler EXCEPT ![w] = StartRelease(o)]
    /\ UNCHANGED <<reserved, stream, projection, inbox, external>>
-----------------------------------------------------------------------------
(***************************************************************************)
(* Row locks and the loops of StockRepository.                             *)
(***************************************************************************)
LockedLines(h) ==
    IF h.pc = "write" THEN 1 .. Len(h.lines)
    ELSE IF h.pc \in {"check", "release"} THEN 1 .. h.next - 1 ELSE {}

Locks(w) == IF handler[w] = Idle THEN {}
            ELSE {handler[w].lines[i].sku : i \in LockedLines(handler[w])}

Unlocked(w, s) == \A v \in Workers \ {w} : s \notin Locks(v)

Fits(line) ==
    /\ line.sku \in Skus
    /\ reserved[line.sku] + line.qty <= QtyAvailable[line.sku]

\* Mutant: the check stops one line early.
Checked_Early(h) ==
    IF h.next + 1 >= Len(h.lines) THEN [h EXCEPT !.pc = "write", !.next = 1]
    ELSE [h EXCEPT !.next = @ + 1]

\* On to the next line, after the last one to the increments.
Checked(h) ==
    IF h.next = Len(h.lines) THEN [h EXCEPT !.pc = "write", !.next = 1]
    ELSE [h EXCEPT !.next = @ + 1]

\* Mutant: the row is read without SELECT ... FOR UPDATE.
CheckLine_NoLock(w) ==
    LET h == handler[w]
    IN  /\ h.pc = "check"
        /\ handler' = [handler EXCEPT ![w] =
              IF Fits(h.lines[h.next]) THEN Checked(h) ELSE [h EXCEPT !.pc = "fail"]]
        /\ UNCHANGED <<reserved, stream, projection, inbox, external>>

\* SELECT ... FOR UPDATE of one line, then the comparison.  A line that does
\* not fit throws InsufficientStockError, which ends the transaction.
CheckLine(w) ==
    LET h == handler[w]
    IN  /\ h.pc = "check"
        /\ Unlocked(w, h.lines[h.next].sku)
        /\ handler' = [handler EXCEPT ![w] =
              IF Fits(h.lines[h.next]) THEN Checked(h) ELSE [h EXCEPT !.pc = "fail"]]
        /\ UNCHANGED <<reserved, stream, projection, inbox, external>>

Written(h, n) == [h EXCEPT !.next = @ + 1, !.delta[h.lines[h.next].sku] = @ + n]

\* manager.increment of one line.
Increment(w) ==
    LET h == handler[w]
    IN  /\ h.pc = "write"
        /\ h.next <= Len(h.lines)
        /\ handler' = [handler EXCEPT ![w] = Written(h, h.lines[h.next].qty)]
        /\ UNCHANGED <<reserved, stream, projection, inbox, external>>

\* manager.decrement of one line; the UPDATE takes the row's lock.
Decrement(w) ==
    LET h == handler[w]
    IN  /\ h.pc = "release"
        /\ h.next <= Len(h.lines)
        /\ Unlocked(w, h.lines[h.next].sku)
        /\ handler' = [handler EXCEPT ![w] = Written(h, 0 - h.lines[h.next].qty)]
        /\ UNCHANGED <<reserved, stream, projection, inbox, external>>
-----------------------------------------------------------------------------
(***************************************************************************)
(* The ends of the transactions.                                           *)
(***************************************************************************)

\* UNIQUE (aggregateId, sequence): the handler's event is the stream's next one.
InSequence(h) == Len(stream[h.order]) = h.version

\* upsertWithinTransaction.
Upsert(o, status) == projection' = [projection EXCEPT ![o] = status]

\* Mutant: no UNIQUE (aggregateId, sequence).
SaveWithinTransaction_NoUnique(w, event) ==
    LET h == handler[w]
    IN  /\ stream' = [stream EXCEPT ![h.order] = Append(@, event)]
        /\ Upsert(h.order, event)
        /\ reserved' = [s \in Skus |-> reserved[s] + h.delta[s]]
        /\ handler' = [handler EXCEPT ![w].pc = "commit"]

\* saveWithinTransaction and COMMIT: the event, its outbox row, the projection
\* and the stock become visible together; or another transaction has used the
\* sequence number, ConcurrencyError is thrown and the message redelivered.
SaveWithinTransaction(w, event) ==
    LET h == handler[w]
    IN  \/ /\ InSequence(h)
           /\ stream' = [stream EXCEPT ![h.order] = Append(@, event)]
           /\ Upsert(h.order, event)
           /\ reserved' = [s \in Skus |-> reserved[s] + h.delta[s]]
           /\ handler' = [handler EXCEPT ![w].pc = "commit"]
        \/ /\ ~InSequence(h)
           /\ handler' = [handler EXCEPT ![w] = Idle]
           /\ UNCHANGED <<reserved, stream, projection>>

FinishReserve(w) ==
    /\ handler[w].pc = "write"
    /\ handler[w].next > Len(handler[w].lines)
    /\ SaveWithinTransaction(w, "RESERVED")
    /\ UNCHANGED <<inbox, external>>

\* Mutant: InsufficientStockError is rethrown like every other error.
RecordFailure_Rethrown(w) ==
    /\ handler[w].pc = "fail"
    /\ handler' = [handler EXCEPT ![w] = Idle]
    /\ UNCHANGED <<reserved, stream, projection, inbox, external>>

\* The failure is saved in a transaction of its own.
RecordFailure(w) ==
    /\ handler[w].pc = "fail"
    /\ SaveWithinTransaction(w, "FAILED")
    /\ UNCHANGED <<inbox, external>>

\* Mutant: ReservationAlreadyFinalizedError is caught inside the transaction,
\* which then commits the decrements.
FinishRelease_CaughtInside(w) ==
    /\ handler[w].pc = "release"
    /\ handler[w].next > Len(handler[w].lines)
    /\ \/ /\ handler[w].status = "RESERVED"
          /\ SaveWithinTransaction(w, "RELEASED")
       \/ /\ handler[w].status # "RESERVED"
          /\ reserved' = [s \in Skus |-> reserved[s] + handler[w].delta[s]]
          /\ handler' = [handler EXCEPT ![w].pc = "commit"]
          /\ UNCHANGED <<stream, projection>>
    /\ UNCHANGED <<inbox, external>>

\* aggregate.release() and the save; a reservation that is not RESERVED throws
\* ReservationAlreadyFinalizedError, which rolls back and is swallowed.
FinishRelease(w) ==
    /\ handler[w].pc = "release"
    /\ handler[w].next > Len(handler[w].lines)
    /\ \/ /\ handler[w].status = "RESERVED"
          /\ SaveWithinTransaction(w, "RELEASED")
       \/ /\ handler[w].status # "RESERVED"
          /\ handler' = [handler EXCEPT ![w].pc = "commit"]
          /\ UNCHANGED <<reserved, stream, projection>>
    /\ UNCHANGED <<inbox, external>>

\* commitOffsets, refused to a worker that lost the partition.
CommitOffset(w) ==
    LET h == handler[w]
    IN  /\ h.pc = "commit"
        /\ inbox' = IF h.owner THEN [inbox EXCEPT ![h.order] = Tail(@)] ELSE inbox
        /\ handler' = [handler EXCEPT ![w] = Idle]
        /\ UNCHANGED <<reserved, stream, projection, external>>
-----------------------------------------------------------------------------
(***************************************************************************)
(* Failures.                                                               *)
(***************************************************************************)
WaitsFor(w, v) ==
    /\ handler[w] # Idle
    /\ handler[w].pc \in {"check", "release"}
    /\ handler[w].next \in DOMAIN handler[w].lines
    /\ v # w
    /\ handler[w].lines[handler[w].next].sku \in Locks(v)

\* Some circle of waiting transactions goes through w.
Deadlocked(w) ==
    \E S \in SUBSET Workers :
        /\ w \in S
        /\ \A v \in S : (\E u \in S : WaitsFor(v, u)) /\ (\E u \in S : WaitsFor(u, v))

\* deadlock_detected is rethrown: the transaction is undone, the message stays.
DeadlockAbort(w) ==
    /\ Deadlocked(w)
    /\ handler' = [handler EXCEPT ![w] = Idle]
    /\ UNCHANGED <<reserved, stream, projection, inbox, external>>

\* A query fails or the process dies.
Abandon(w) ==
    /\ handler[w] # Idle
    /\ faults < MaxFaults
    /\ faults' = faults + 1
    /\ handler' = [handler EXCEPT ![w] = Idle]
    /\ UNCHANGED <<reserved, stream, projection, inbox, requests, verdict>>

\* A rebalance takes the partition away from a handler that is still running.
Revoke(w) ==
    /\ Owner(w)
    /\ faults < MaxFaults
    /\ faults' = faults + 1
    /\ handler' = [handler EXCEPT ![w].owner = FALSE]
    /\ UNCHANGED <<reserved, stream, projection, inbox, requests, verdict>>
-----------------------------------------------------------------------------
(***************************************************************************)
(* saga-orchestrator, as this service sees it: ReserveStock may come again *)
(* at any time, ReleaseInventory after the reservation, and again, unless  *)
(* the order was confirmed, of which this service is not told.             *)
(***************************************************************************)
Publish(o, c) ==
    /\ requests[o] < MaxCommands
    /\ requests' = [requests EXCEPT ![o] = @ + 1]
    /\ inbox' = [inbox EXCEPT ![o] = Append(@, c)]
    /\ UNCHANGED <<reserved, stream, projection, handler, faults>>

RequestReserve(o) == Publish(o, "ReserveStock") /\ UNCHANGED verdict

WasReserved(o) == stream[o] # <<>> /\ stream[o][1] = "RESERVED"

RequestRelease(o) ==
    /\ WasReserved(o)
    /\ verdict[o] # "confirmed"
    /\ verdict' = [verdict EXCEPT ![o] = "compensating"]
    /\ Publish(o, "ReleaseInventory")

Confirm(o) ==
    /\ WasReserved(o)
    /\ verdict[o] = "none"
    /\ verdict' = [verdict EXCEPT ![o] = "confirmed"]
    /\ UNCHANGED <<reserved, stream, projection, inbox, handler, requests, faults>>
-----------------------------------------------------------------------------
Locking(w) == CheckLine(w) \/ Decrement(w)

\* Worker w gets the lock of row s.
Lock(w, s) == Locking(w) /\ handler[w].lines[handler[w].next].sku = s

Worker(w) ==
    \/ \E o \in Orders : Take(w, o)
    \/ Locking(w)
    \/ Increment(w)
    \/ FinishReserve(w)
    \/ RecordFailure(w)
    \/ FinishRelease(w)
    \/ CommitOffset(w)

Next ==
    \/ \E w \in Workers : Worker(w) \/ DeadlockAbort(w) \/ Abandon(w) \/ Revoke(w)
    \/ \E o \in Orders : RequestReserve(o) \/ RequestRelease(o) \/ Confirm(o)

Spec == Init /\ [][Next]_vars

\* Consumers poll and run their handlers, PostgreSQL breaks deadlocks, and it
\* grants the lock of a row in the order of the queue: a transaction that waits
\* for a row that is released again and again gets it (strong fairness).
Fairness ==
    \A w \in Workers :
        /\ WF_vars(Worker(w))
        /\ WF_vars(DeadlockAbort(w))
        /\ \A s \in Skus : SF_vars(Lock(w, s))

FairSpec == Spec /\ Fairness
-----------------------------------------------------------------------------
(***************************************************************************)
(* Properties.                                                             *)
(***************************************************************************)

\* "Two concurrent orders for the same SKU can never both succeed past the
\* available quantity" (stock-level.entity.ts).
NoOversell == \A s \in Skus : reserved[s] <= QtyAvailable[s]

\* The units of SKU s in the first n lines of an order, each named by its line
\* and its number in it.
LineUnits(o, i) == {<<o, i>>} \X (1 .. Lines[o][i].qty)
UnitsTo(o, n, s) == UNION {LineUnits(o, i) : i \in {i \in 1 .. n : Lines[o][i].sku = s}}

ReservedUnits(s) ==
    UNION {UnitsTo(o, Len(Lines[o]), s) : o \in {o \in Orders : stream[o] = <<"RESERVED">>}}

\* qtyReserved counts the units of the orders whose stream says RESERVED, each
\* once: whatever was redelivered, raced or aborted, no line was counted twice,
\* given back twice, or kept by a reservation that failed.
LedgerBalanced == \A s \in Skus : reserved[s] = Cardinality(ReservedUnits(s))

\* One reservation attempt has one outcome, and only a reservation is released,
\* once, although commands repeat and two workers may handle one order; and
\* the projection the idempotency check reads is never behind the stream.
OneOutcome ==
    \A o \in Orders :
        /\ stream[o] \in {<<>>, <<"RESERVED">>, <<"FAILED">>, <<"RESERVED", "RELEASED">>}
        /\ projection[o] = Status(stream[o])

\* What the reservation's status says to the orchestrator.
Says(status) ==
    IF status = "RESERVED" THEN "success"
    ELSE IF status = "FAILED" THEN "failure"
    ELSE IF status = "RELEASED" THEN "undone"
    ELSE "none"

P == INSTANCE Participant WITH
        asked <- {o \in Orders : requests[o] > 0},
        undoAsked <- {o \in Orders : verdict[o] = "compensating"},
        answer <- [o \in Orders |-> Says(Status(stream[o]))]

\* inventory-service answers ReserveStock once and releases a reservation once
\* and only on request, as the orchestrator's step RESERVE_INVENTORY needs it.
ImplementsParticipant == P!Spec

Pending(o, c) == \E i \in DOMAIN inbox[o] : inbox[o][i] = c

\* The offset of a command is committed only when its effect is there: a
\* reservation that is asked for and has no outcome, and one that is to be
\* released and still stands, has its command in the partition.
NoCommandLost ==
    \A o \in Orders :
        /\ requests[o] > 0 /\ stream[o] = <<>> => Pending(o, "ReserveStock")
        /\ verdict[o] = "compensating" /\ stream[o] = <<"RESERVED">> => Pending(o, "ReleaseInventory")

\* Every command is eventually handled and committed: no lost wake-up, no
\* message that is redelivered for ever, no two orders that wait for each other.
PartitionDrains == \A o \in Orders : inbox[o] # <<>> ~> inbox[o] = <<>>
-----------------------------------------------------------------------------
(***************************************************************************)
(* The inductive invariant.                                                *)
(***************************************************************************)
\* The command a partition's owner works on is uncommitted, and it works alone.
OwnersTrue ==
    \A w \in Workers : Owner(w) =>
        /\ inbox[handler[w].order] # <<>>
        /\ \A v \in Workers \ {w} : ~(Owner(v) /\ handler[v].order = handler[w].order)

\* Commands come from requests, and a release from a compensation.
CommandsTrue ==
    \A o \in Orders :
        /\ inbox[o] # <<>> \/ stream[o] # <<>> => requests[o] > 0
        /\ \A i \in DOMAIN inbox[o] : inbox[o][i] = "ReleaseInventory" => verdict[o] = "compensating"

RequestedTrue(h) ==
    /\ requests[h.order] > 0
    /\ h.pc = "release" => verdict[h.order] = "compensating"

LocksExclusive == \A v, w \in Workers : v # w => Locks(v) \cap Locks(w) = {}

\* The aggregate in a handler's memory is a prefix of the stream.
AggregateTrue(h) ==
    /\ h.pc \in {"check", "write", "fail"} => h.version = 0
    /\ h.pc = "release" /\ h.status = "RESERVED" =>
          h.version = 1 /\ stream[h.order] # <<>> /\ stream[h.order][1] = "RESERVED"

\* What a transaction has checked still fits, and what it has written is what
\* it checked.
TransactionTrue(h) ==
    /\ h.pc \in {"check", "write"} => \A i \in LockedLines(h) : Fits(h.lines[i])
    /\ h.pc = "write" => \A s \in Skus : h.delta[s] # 0 =>
          \E i \in 1 .. h.next - 1 :
              i <= Len(h.lines) /\ h.lines[i].sku = s /\ h.delta[s] <= h.lines[i].qty
    /\ h.pc = "release" => \A s \in Skus : h.delta[s] <= 0 /\ (h.delta[s] # 0 =>
          \E i \in 1 .. h.next - 1 : i <= Len(h.lines) /\ h.lines[i].sku = s)

\* What a transaction has written so far is the units of the lines it has been
\* through, and they are those of its order.
WritesTrue(h) ==
    LET units(s) == Cardinality(UnitsTo(h.order, h.next - 1, s))
        releases == h.pc = "release" /\ h.status = "RESERVED"
    IN  /\ h.pc \in {"check", "write"} \/ releases =>
              h.lines = Lines[h.order] /\ h.next <= Len(h.lines) + 1
        /\ h.pc = "check" => h.next <= Len(h.lines)
        /\ h.pc \in {"check", "fail"} => h.delta = NoWrites
        /\ h.pc = "write" => \A s \in Skus : h.delta[s] = units(s)
        /\ releases => \A s \in Skus : h.delta[s] = 0 - units(s)

\* An owner works on the first command of its partition; the handlers of the two
\* commands differ in the version they start from.  The effect comes before
\* the commit, and a release is skipped only if there is nothing to release.
CommandTrue(h) ==
    /\ h.owner =>
          inbox[h.order][1] = IF h.version = 0 THEN "ReserveStock" ELSE "ReleaseInventory"
    /\ h.pc = "release" => h.version > 0 /\ stream[h.order] # <<>>
    /\ h.pc = "release" /\ h.status # "RESERVED" => stream[h.order] # <<"RESERVED">>
    /\ h.pc = "commit" =>
          stream[h.order] # <<>> /\ (h.version = 0 \/ stream[h.order] # <<"RESERVED">>)

IInv ==
    /\ TypeOK
    /\ OwnersTrue
    /\ OneOutcome
    /\ CommandsTrue
    /\ \A w \in Workers : handler[w] # Idle => RequestedTrue(handler[w])
    /\ LocksExclusive
    /\ \A w \in Workers : handler[w] # Idle => AggregateTrue(handler[w])
    /\ NoCommandLost /\ \A o \in Orders : verdict[o] # "none" => WasReserved(o)
    /\ \A w \in Workers : handler[w] # Idle => CommandTrue(handler[w])
    /\ LedgerBalanced /\ \A s \in Skus : IsFiniteSet(ReservedUnits(s))
    /\ \A w \in Workers : handler[w] # Idle => WritesTrue(handler[w])
    /\ DistinctSkus =>
          /\ NoOversell
          /\ \A w \in Workers : handler[w] # Idle => TransactionTrue(handler[w])
=============================================================================
