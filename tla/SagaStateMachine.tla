--------------------------- MODULE SagaStateMachine ---------------------------
(***************************************************************************)
(* saga-orchestrator: SagaEventConsumer (the Kafka loop), SagaStateMachine *)
(* (start / onEvent) and SagaInstanceRepository (the saga_instance table), *)
(* with the replicas of the deployment as Workers.                         *)
(*                                                                         *)
(* A handler is not atomic.  Every await of the code is a step of its own: *)
(* findById, each publish, save, the final publish, the offset commit.     *)
(* Between two of them another replica may run, the handler may fail or    *)
(* its process may die (Abandon), or the partition may be reassigned while *)
(* the handler goes on (Revoke).                                           *)
(*                                                                         *)
(* The other services appear only through what they promise: a participant *)
(* answers a step's command once, with success or with failure; the        *)
(* order-service finalizes an order once.  Their own modules say how.      *)
(*                                                                         *)
(* Topics: pending[o][e] counts the copies of event e about order o whose  *)
(* offset is not committed.  Copies are delivered one at a time per topic  *)
(* and order (same key, same partition), in any order among themselves:    *)
(* the outbox relay may duplicate (Duplicate) and reorder them.            *)
(***************************************************************************)
EXTENDS CompensationRegistry, FiniteSets

CONSTANTS
    Orders,
    Workers,        \* replicas of saga-orchestrator
    MaxFaults,      \* bound on Abandon and Revoke steps of a behaviour
    MaxDuplicates   \* bound on events the outbox relay publishes again

\* Step events are told apart by their type, commands too, and none of them is
\* one of the types the order-service adds.  Compensation commands are free.
ASSUME StepsAssumption ==
    /\ Steps \in Seq([name : STRING, command : STRING, success : STRING,
                      failure : STRING, compensation : STRING])
    /\ Len(Steps) > 0
    /\ \A i, j \in StepIndex :
          /\ Steps[i].command = Steps[j].command => i = j
          /\ Steps[i].success = Steps[j].success => i = j
          /\ Steps[i].failure = Steps[j].failure => i = j
          /\ Steps[i].success # Steps[j].failure
          /\ Steps[i].compensation # Steps[j].command
    /\ StepEvents \cap {"OrderCreated", "OrderConfirmed", "OrderCancelled"} = {}
    /\ (StepCommands \cup CompensationCommands) \cap {"ConfirmOrder", "CancelOrder"} = {}

ASSUME BoundsAssumption == MaxFaults \in Nat /\ MaxDuplicates \in Nat

OrderEvents == {"OrderCreated", "OrderConfirmed", "OrderCancelled"}
EventTypes == OrderEvents \cup StepEvents
Commands == StepCommands \cup CompensationCommands \cup {"ConfirmOrder", "CancelOrder"}

\* order.events is one topic; each step's outcome events come from the topic
\* of the service that owns the step.
Topic(e) ==
    IF e \in OrderEvents THEN 0
    ELSE CHOOSE i \in StepIndex : e \in {Steps[i].success, Steps[i].failure}

NoRow == [status |-> "no row"]

VARIABLES
    row,        \* the saga_instance table: a snapshot per order, or NoRow
    handler,    \* what each worker is doing; see Handler
    pending,    \* uncommitted copies of each event
    sent,       \* how often each command was published to saga.commands
    answer,     \* participants: the recorded outcome of each step
    order,      \* order-service: the order's status
    faults, duplicates  \* how much of the two bounds is used

vars == <<row, handler, pending, sent, answer, order, faults, duplicates>>

Idle == [pc |-> "idle"]

\* owner: the worker still owns the partition, so its commit will be accepted.
Handler == [pc : {"publish", "save", "announce", "commit"},
            order : Orders, event : EventTypes, owner : BOOLEAN,
            snapshot : Snapshot \cup {NoRow}, todo : SUBSET Publication]

TypeOK ==
    /\ row \in [Orders -> Snapshot \cup {NoRow}]
    /\ handler \in [Workers -> Handler \cup {Idle}]
    /\ pending \in [Orders -> [EventTypes -> Nat]]
    /\ sent \in [Orders -> [Commands -> Nat]]
    /\ answer \in [Orders -> [StepIndex -> {"none", "success", "failure"}]]
    /\ order \in [Orders -> {"absent", "CREATED", "CONFIRMED", "CANCELLED"}]
    /\ faults \in Nat
    /\ duplicates \in Nat

Init ==
    /\ row = [o \in Orders |-> NoRow]
    /\ handler = [w \in Workers |-> Idle]
    /\ pending = [o \in Orders |-> [e \in EventTypes |-> 0]]
    /\ sent = [o \in Orders |-> [c \in Commands |-> 0]]
    /\ answer = [o \in Orders |-> [i \in StepIndex |-> "none"]]
    /\ order = [o \in Orders |-> "absent"]
    /\ faults = 0
    /\ duplicates = 0
-----------------------------------------------------------------------------
(***************************************************************************)
(* The consumer loop and the two entry points of SagaStateMachine.         *)
(***************************************************************************)
Terminal(s) == s.status \in {"COMPLETED", "COMPENSATED"}

Job(pc, o, e, s, todo) == [pc |-> pc, order |-> o, event |-> e, owner |-> TRUE,
                           snapshot |-> s, todo |-> todo]

\* What the registry wants done: the publications first, then the save.
Work(o, e, result) ==
    Job(IF result.publications = {} THEN "save" ELSE "publish",
        o, e, result.snapshot, result.publications)

Ignore(o, e, r) == Job("commit", o, e, r, {})

\* Mutant: start() does not look for an existing row.
Dispatch_NoExistingGuard(o, e, r) ==
    IF e = "OrderCreated" THEN Work(o, e, Start)
    ELSE IF r = NoRow \/ Terminal(r) THEN Ignore(o, e, r) ELSE Work(o, e, OnEvent(r, e))

\* Mutant: onEvent() does not look whether the saga has ended.
Dispatch_NoTerminalGuard(o, e, r) ==
    IF e = "OrderCreated" THEN IF r # NoRow THEN Ignore(o, e, r) ELSE Work(o, e, Start)
    ELSE IF r = NoRow THEN Ignore(o, e, r) ELSE Work(o, e, OnEvent(r, e))

\* What the handler of event e has left to do once findById returned r: start
\* for OrderCreated, onEvent for every other event; the early returns go
\* straight to the commit.
Dispatch(o, e, r) ==
    IF e = "OrderCreated" THEN IF r # NoRow THEN Ignore(o, e, r) ELSE Work(o, e, Start)
    ELSE IF r = NoRow \/ Terminal(r) THEN Ignore(o, e, r) ELSE Work(o, e, OnEvent(r, e))

Owner(w) == handler[w] # Idle /\ handler[w].owner
SamePartition(w, o, e) == handler[w].order = o /\ Topic(handler[w].event) = Topic(e)

\* Mutant: two replicas own one partition at a time.
Deliver_NoOwnership(w, o, e) ==
    /\ handler[w] = Idle
    /\ pending[o][e] > 0
    /\ handler' = [handler EXCEPT ![w] = Dispatch(o, e, row[o])]
    /\ UNCHANGED <<row, pending, sent, answer, order, faults, duplicates>>

\* eachMessage hands worker w a copy of event e about order o, unless another
\* worker that still owns that partition is busy with it; w reads the row.
Deliver(w, o, e) ==
    /\ handler[w] = Idle
    /\ pending[o][e] > 0
    /\ \A v \in Workers : ~(Owner(v) /\ SamePartition(v, o, e))
    /\ handler' = [handler EXCEPT ![w] = Dispatch(o, e, row[o])]
    /\ UNCHANGED <<row, pending, sent, answer, order, faults, duplicates>>

Send(o, c) == sent' = [sent EXCEPT ![o][c] = @ + 1]

\* One publication of registry.start / registry.onEvent; the save comes after
\* the last of them.
Publish(w) ==
    LET h == handler[w]
    IN  /\ h.pc = "publish"
        /\ \E p \in NextPublication(h.todo) :
              LET rest == h.todo \ {p}
              IN  /\ Send(h.order, CommandOf(p))
                  /\ handler' = [handler EXCEPT ![w] =
                        [h EXCEPT !.todo = rest,
                                  !.pc = IF rest = {} THEN "save" ELSE "publish"]]
        /\ UNCHANGED <<row, pending, answer, order, faults, duplicates>>

\* Mutant: onEvent only follows up on COMPLETED.
Save_OnlyCompletedAnnounced(w) ==
    LET h == handler[w]
    IN  /\ h.pc = "save"
        /\ row' = [row EXCEPT ![h.order] = h.snapshot]
        /\ handler' = [handler EXCEPT ![w] = [h EXCEPT !.pc =
                          IF h.snapshot.status = "COMPLETED" THEN "announce" ELSE "commit"]]
        /\ UNCHANGED <<pending, sent, answer, order, faults, duplicates>>

\* instanceRepository.save is an upsert: whatever the row is by now, the
\* snapshot computed from the earlier read replaces it.
Save(w) ==
    LET h == handler[w]
    IN  /\ h.pc = "save"
        /\ row' = [row EXCEPT ![h.order] = h.snapshot]
        /\ handler' = [handler EXCEPT ![w] =
                          [h EXCEPT !.pc = IF Terminal(h.snapshot) THEN "announce" ELSE "commit"]]
        /\ UNCHANGED <<pending, sent, answer, order, faults, duplicates>>

\* onSagaCompleted / onSagaCompensated.
Announce(w) ==
    LET h == handler[w]
    IN  /\ h.pc = "announce"
        /\ Send(h.order, IF h.snapshot.status = "COMPLETED" THEN "ConfirmOrder" ELSE "CancelOrder")
        /\ handler' = [handler EXCEPT ![w] = [h EXCEPT !.pc = "commit"]]
        /\ UNCHANGED <<row, pending, answer, order, faults, duplicates>>

\* Mutant: the broker accepts the commit of a consumer that lost the partition.
Commit_Unfenced(w) ==
    LET h == handler[w]
    IN  /\ h.pc = "commit"
        /\ pending' = [pending EXCEPT ![h.order][h.event] = @ - 1]
        /\ handler' = [handler EXCEPT ![w] = Idle]
        /\ UNCHANGED <<row, sent, answer, order, faults, duplicates>>

\* commitOffsets. The commit of a worker that lost the partition is rejected
\* and the copy stays to be delivered to the new owner.
Commit(w) ==
    LET h == handler[w]
    IN  /\ h.pc = "commit"
        /\ pending' = IF h.owner THEN [pending EXCEPT ![h.order][h.event] = @ - 1] ELSE pending
        /\ handler' = [handler EXCEPT ![w] = Idle]
        /\ UNCHANGED <<row, sent, answer, order, faults, duplicates>>

\* Mutant: the offset is committed first, so a failed handler is not repeated.
Abandon_CommittedFirst(w) ==
    /\ Owner(w)
    /\ faults < MaxFaults
    /\ faults' = faults + 1
    /\ pending' = [pending EXCEPT ![handler[w].order][handler[w].event] = @ - 1]
    /\ handler' = [handler EXCEPT ![w] = Idle]
    /\ UNCHANGED <<row, sent, answer, order, duplicates>>

\* The handler throws (a publish or a query failed) or its process dies: what
\* it held in memory is gone, its offset is not committed.
Abandon(w) ==
    /\ handler[w] # Idle
    /\ faults < MaxFaults
    /\ faults' = faults + 1
    /\ handler' = [handler EXCEPT ![w] = Idle]
    /\ UNCHANGED <<row, pending, sent, answer, order, duplicates>>

\* A rebalance takes the partition away from a handler that is still running.
Revoke(w) ==
    /\ Owner(w)
    /\ faults < MaxFaults
    /\ faults' = faults + 1
    /\ handler' = [handler EXCEPT ![w].owner = FALSE]
    /\ UNCHANGED <<row, pending, sent, answer, order, duplicates>>
-----------------------------------------------------------------------------
(***************************************************************************)
(* The other services, as the orchestrator sees them.                      *)
(***************************************************************************)
Emit(o, e) == pending' = [pending EXCEPT ![o][e] = @ + 1]

PlaceOrder(o) ==
    /\ order[o] = "absent"
    /\ order' = [order EXCEPT ![o] = "CREATED"]
    /\ Emit(o, "OrderCreated")
    /\ UNCHANGED <<row, handler, sent, answer, faults, duplicates>>

\* Mutant: a repeated command is tried anew, and may fail the second time.
Answer_Again(o, i, outcome) ==
    /\ sent[o][Steps[i].command] > 1 \/ answer[o][i] = "none"
    /\ sent[o][Steps[i].command] > 0
    /\ answer[o][i] \notin {outcome, "failure"}
    /\ answer' = [answer EXCEPT ![o][i] = outcome]
    /\ Emit(o, IF outcome = "success" THEN Steps[i].success ELSE Steps[i].failure)
    /\ UNCHANGED <<row, handler, sent, order, faults, duplicates>>

\* ReserveStockHandler / AuthorizePaymentHandler: a command for an order that
\* was already answered is skipped, so one outcome is ever recorded.
Answer(o, i, outcome) ==
    /\ sent[o][Steps[i].command] > 0
    /\ answer[o][i] = "none"
    /\ answer' = [answer EXCEPT ![o][i] = outcome]
    /\ Emit(o, IF outcome = "success" THEN Steps[i].success ELSE Steps[i].failure)
    /\ UNCHANGED <<row, handler, sent, order, faults, duplicates>>

\* ConfirmOrderHandler / CancelOrderHandler: only a CREATED order is finalized.
Finalize(o, command, status, event) ==
    /\ sent[o][command] > 0
    /\ order[o] = "CREATED"
    /\ order' = [order EXCEPT ![o] = status]
    /\ Emit(o, event)
    /\ UNCHANGED <<row, handler, sent, answer, faults, duplicates>>

ConfirmOrder(o) == Finalize(o, "ConfirmOrder", "CONFIRMED", "OrderConfirmed")
CancelOrder(o) == Finalize(o, "CancelOrder", "CANCELLED", "OrderCancelled")

Emitted(o, e) ==
    \/ e = "OrderCreated" /\ order[o] # "absent"
    \/ e = "OrderConfirmed" /\ order[o] = "CONFIRMED"
    \/ e = "OrderCancelled" /\ order[o] = "CANCELLED"
    \/ \E i \in StepIndex : \/ e = Steps[i].success /\ answer[o][i] = "success"
                            \/ e = Steps[i].failure /\ answer[o][i] = "failure"

\* The relay publishes an outbox row it had published before it could stamp it.
Duplicate(o, e) ==
    /\ duplicates < MaxDuplicates
    /\ Emitted(o, e)
    /\ duplicates' = duplicates + 1
    /\ Emit(o, e)
    /\ UNCHANGED <<row, handler, sent, answer, order, faults>>
-----------------------------------------------------------------------------
Worker(w) ==
    \/ \E o \in Orders, e \in EventTypes : Deliver(w, o, e)
    \/ Publish(w)
    \/ Save(w)
    \/ Announce(w)
    \/ Commit(w)

AnswerStep(o, i) == \E outcome \in {"success", "failure"} : Answer(o, i, outcome)

Participants(o) ==
    \/ \E i \in StepIndex : AnswerStep(o, i)
    \/ ConfirmOrder(o)
    \/ CancelOrder(o)

Next ==
    \/ \E w \in Workers : Worker(w) \/ Abandon(w) \/ Revoke(w)
    \/ \E o \in Orders : \/ PlaceOrder(o)
                         \/ Participants(o)
                         \/ \E e \in EventTypes : Duplicate(o, e)

Spec == Init /\ [][Next]_vars

\* Consumers keep polling and running their handlers; a service that received
\* a command answers it. Nothing forces a customer, a fault or a duplicate.
Fairness ==
    /\ \A w \in Workers : WF_vars(Worker(w))
    /\ \A o \in Orders : WF_vars(Participants(o))

FairSpec == Spec /\ Fairness
-----------------------------------------------------------------------------
(***************************************************************************)
(* Safety with any number of replicas, failures and redeliveries.          *)
(***************************************************************************)

\* A step's command goes out only after every earlier step was answered with
\* success: the card is never authorized for an order whose stock is not held,
\* whatever registry.onEvent is fed by stale reads and repeated events.
CommandsFollowAnswers ==
    \A o \in Orders, i \in StepIndex :
        sent[o][Steps[i].command] > 0 => \A j \in 1 .. i - 1 : answer[o][j] = "success"

\* ConfirmOrder is published only when every step succeeded, CancelOrder only
\* when one failed (onSagaCompleted, onSagaCompensated).
VerdictJustified ==
    \A o \in Orders :
        /\ sent[o]["ConfirmOrder"] > 0 => \A i \in StepIndex : answer[o][i] = "success"
        /\ sent[o]["CancelOrder"] > 0 => \E i \in StepIndex : answer[o][i] = "failure"

\* The order-service is never told both to confirm and to cancel one order, so
\* it does not depend on which of the two it happens to read first.
OutcomesExclusive ==
    \A o \in Orders : ~(sent[o]["ConfirmOrder"] > 0 /\ sent[o]["CancelOrder"] > 0)

\* A compensation command undoes a step that took effect, because a later one
\* failed, and never before the compensations of the steps in between
\* (beginCompensation walks backward).
CompensationsJustified ==
    \A o \in Orders, i \in StepIndex :
        Steps[i].compensation # NoCompensation /\ sent[o][Steps[i].compensation] > 0 =>
            /\ answer[o][i] = "success"
            /\ \E k \in i + 1 .. Len(Steps) :
                  /\ answer[o][k] = "failure"
                  /\ \A j \in i + 1 .. k - 1 :
                        Steps[j].compensation # NoCompensation => sent[o][Steps[j].compensation] > 0

\* The service behind step i, as the orchestrator uses it.
P(i) == INSTANCE Participant WITH
    asked <- {o \in Orders : sent[o][Steps[i].command] > 0},
    undoAsked <- {o \in Orders : /\ Steps[i].compensation # NoCompensation
                                 /\ sent[o][Steps[i].compensation] > 0},
    answer <- [o \in Orders |-> answer[o][i]]

\* No two steps are undone by one command, which could not tell them apart.
DistinctCompensations ==
    \A i, j \in StepIndex :
        Steps[i].compensation # NoCompensation /\ Steps[i].compensation = Steps[j].compensation
            => i = j

\* What each service relies on (Participant), the orchestrator keeps: at the
\* moment a compensation goes out, also from a stale snapshot, its step has
\* succeeded.  Inventory and Payment show the other half of the contract.
ContractKept ==
    /\ \A i \in StepIndex : P(i)!Init
    /\ [][\A i \in StepIndex : [P(i)!Next]_(P(i)!vars)]_vars
-----------------------------------------------------------------------------
(***************************************************************************)
(* Safety of a single replica (the docker-compose deployment).             *)
(***************************************************************************)

\* How far a row has come: a step counts two, ending the saga one more.
Progress(s) == IF s = NoRow THEN 0
               ELSE 2 * s.step + IF s.status = "IN_PROGRESS" THEN 0 ELSE 1

\* A saga_instance row never falls back to an earlier step or leaves a terminal
\* status, although save() overwrites it without looking.
RowNeverRegresses == [][\A o \in Orders : Progress(row'[o]) >= Progress(row[o])]_vars

\* ConfirmOrder / CancelOrder is published at most once: a redelivered event
\* finds the terminal row (the guard in onEvent).
VerdictSentOnce ==
    \A o \in Orders : sent[o]["ConfirmOrder"] + sent[o]["CancelOrder"] <= 1

\* The offset of OrderCreated is not committed before the row is there.
StartPending ==
    \A o \in Orders : order[o] # "absent" /\ row[o] = NoRow => pending[o]["OrderCreated"] > 0

\* A step that was asked for has no answer yet, or one that is not committed.
Awaited(o, i) ==
    \/ sent[o][Steps[i].command] > 0 /\ answer[o][i] = "none"
    \/ pending[o][Steps[i].success] > 0
    \/ pending[o][Steps[i].failure] > 0

\* No order that was placed is ever left with nobody to move it: its start is to
\* be (re)delivered; or, until a handler fails, its current step is under way
\* or answered in the partition, or its verdict is out or about to go out.  A
\* saga that is COMPENSATING has nowhere to go, nothing calls markCompensated.
NoOrderStranded ==
    /\ StartPending
    /\ faults = 0 => \A o \in Orders : row[o] # NoRow =>
          \/ row[o].status = "IN_PROGRESS" /\ Awaited(o, row[o].step)
          \/ row[o].status = "COMPENSATING"
          \/ sent[o]["ConfirmOrder"] > 0 \/ sent[o]["CancelOrder"] > 0
          \/ \E w \in Workers : handler[w].pc = "announce" /\ handler[w].order = o

\* Whenever its process dies or loses the partition, also between the publish of
\* the first command and the save, start is repeated until the row is there.
EverySagaStarts == \A o \in Orders : order[o] = "CREATED" ~> row[o] # NoRow

\* An order that was placed ends up confirmed or cancelled, as long as no
\* handler fails or loses its partition on the way.
EveryOrderFinalized ==
    \A o \in Orders :
        order[o] = "CREATED" ~> order[o] \in {"CONFIRMED", "CANCELLED"} \/ faults > 0
-----------------------------------------------------------------------------
(***************************************************************************)
(* Statements of the repository's docs, comments and tests that the code   *)
(* does not keep; see findings in the README.                              *)
(***************************************************************************)

\* "-> ReleaseInventory (compensation) -> CancelOrder": an order cancelled
\* after its stock was reserved has had its reservation released.
DeclineReleasesStock ==
    \A o \in Orders :
        sent[o]["CancelOrder"] > 0 /\ answer[o][1] = "success" => sent[o]["ReleaseInventory"] > 0

\* "a crashed orchestrator resumes exactly where it left off", at the end of
\* the saga: a COMPLETED saga gets its ConfirmOrder out.
CompletedSagaConfirms ==
    \A o \in Orders : row[o].status = "COMPLETED" ~> sent[o]["ConfirmOrder"] > 0
-----------------------------------------------------------------------------
(***************************************************************************)
(* The inductive invariant behind the theorems of SagaStateMachine_proofs. *)
(***************************************************************************)

\* What a snapshot claims about the steps is what the participants answered.
SnapshotTrue(o, s) ==
    /\ \A j \in 1 .. s.step - 1 : answer[o][j] = "success"
    /\ s.status = "COMPLETED" => answer[o][s.step] = "success" /\ s.step = Len(Steps)
    /\ s.status \in {"COMPENSATING", "COMPENSATED"} => answer[o][s.step] = "failure"

PublicationDue(o, s, p) ==
    IF p.kind = "command" THEN p.step = s.step
    ELSE /\ p.step < s.step
         /\ s.status = "COMPENSATING"
         /\ Steps[p.step].compensation # NoCompensation

HandlerTrue(h) ==
    /\ h.pc # "commit" => h.snapshot \in Snapshot /\ SnapshotTrue(h.order, h.snapshot)
    /\ h.pc = "announce" => Terminal(h.snapshot)
    /\ h.pc = "publish" => h.todo # {} /\ \A p \in h.todo : PublicationDue(h.order, h.snapshot, p)

EventsTrue(o) ==
    \A i \in StepIndex :
        /\ pending[o][Steps[i].success] > 0 => answer[o][i] = "success"
        /\ pending[o][Steps[i].failure] > 0 => answer[o][i] = "failure"

\* The services do only what they were told to.
AnswersAsked ==
    \A o \in Orders :
        /\ \A i \in StepIndex : answer[o][i] # "none" => sent[o][Steps[i].command] > 0
        /\ order[o] = "CONFIRMED" => sent[o]["ConfirmOrder"] > 0
        /\ order[o] = "CANCELLED" => sent[o]["CancelOrder"] > 0

\* The copy a partition's owner works on is uncommitted, and it works alone.
OwnersTrue ==
    \A w \in Workers : Owner(w) =>
        /\ pending[handler[w].order][handler[w].event] > 0
        /\ \A v \in Workers \ {w} :
              ~(Owner(v) /\ SamePartition(v, handler[w].order, handler[w].event))

IInv ==
    /\ TypeOK
    /\ OwnersTrue
    /\ \A o \in Orders : row[o] # NoRow => SnapshotTrue(o, row[o])
    /\ \A w \in Workers : handler[w] # Idle => HandlerTrue(handler[w])
    /\ \A o \in Orders : EventsTrue(o)
    /\ CommandsFollowAnswers
    /\ VerdictJustified
=============================================================================
