------------------------ MODULE CompensationRegistry ------------------------
(***************************************************************************)
(* libs/saga-toolkit: the engine that walks a saga definition forward on   *)
(* success events and publishes compensation commands on a failure event.  *)
(* Everything here is a pure operator: the engine decides WHICH commands   *)
(* to publish and WHICH snapshot to return; SagaStateMachine performs the  *)
(* publications and the save, one await at a time.                         *)
(*                                                                         *)
(* Abstractions: steps are numbered from 1 (the code's currentStepIndex is *)
(* 0-based); the saga context is left out, because what it holds is        *)
(* determined by the steps that succeeded; timestamps are left out.        *)
(***************************************************************************)
EXTENDS Integers, Sequences

CONSTANT Steps      \* the SagaDefinition's steps: a sequence of SagaStep records

NoCompensation == "no compensation"      \* compensationCommand left undefined

StepIndex == 1 .. Len(Steps)

\* Command types that drive the saga forward or undo a step.
StepCommands == {Steps[i].command : i \in StepIndex}
CompensationCommands ==
    {Steps[i].compensation : i \in StepIndex} \ {NoCompensation}

\* Event types that a participant answers a step with.
StepEvents == {Steps[i].success : i \in StepIndex} \cup {Steps[i].failure : i \in StepIndex}

SagaStatus == {"IN_PROGRESS", "COMPLETED", "COMPENSATING", "COMPENSATED"}

HistoryEntry == [step : {Steps[i].name : i \in StepIndex},
                 event : {"STARTED", "SUCCEEDED", "FAILED"}]

Snapshot == [step : StepIndex, status : SagaStatus, history : Seq(HistoryEntry)]

\* What start and onEvent do: the publications they make before they return,
\* then the snapshot the caller persists. A publication is a step and whether
\* its command or its compensation is sent; see NextPublication for the order.
Publication == [step : StepIndex, kind : {"command", "compensation"}]

CommandOf(p) ==
    IF p.kind = "command" THEN Steps[p.step].command ELSE Steps[p.step].compensation

Result(publications, snapshot) == [publications |-> publications, snapshot |-> snapshot]

Record(s, outcome) ==
    Append(s.history, [step |-> Steps[s.step].name, event |-> outcome])

Start ==
    Result({[step |-> 1, kind |-> "command"]},
           [step |-> 1, status |-> "IN_PROGRESS",
            history |-> <<[step |-> Steps[1].name, event |-> "STARTED"]>>])

Advance(s) ==
    IF s.step = Len(Steps)
    THEN Result({}, [s EXCEPT !.status = "COMPLETED", !.history = Record(s, "SUCCEEDED")])
    ELSE Result({[step |-> s.step + 1, kind |-> "command"]},
                [step |-> s.step + 1, status |-> "IN_PROGRESS",
                 history |-> Record(s, "SUCCEEDED")])

\* Mutant: the failed step itself is compensated too.
StepsToCompensate_InclusiveSlice(s) ==
    {i \in 1 .. s.step : Steps[i].compensation # NoCompensation}

\* The steps strictly before the failed one that have something to undo.
StepsToCompensate(s) ==
    {i \in 1 .. s.step - 1 : Steps[i].compensation # NoCompensation}

BeginCompensation(s) ==
    LET undo == StepsToCompensate(s)
    IN  Result({[step |-> i, kind |-> "compensation"] : i \in undo},
               [s EXCEPT !.status = IF undo # {} THEN "COMPENSATING" ELSE "COMPENSATED",
                         !.history = Record(s, "FAILED")])

\* slice().filter().reverse(): compensations go out latest step first. The set
\* has one element: no two publications of one result are about one step.
NextPublication(publications) ==
    {p \in publications : \A q \in publications : q.step <= p.step}

\* Mutant: the success event of any step advances the saga.
OnEvent_AnySuccess(s, type) ==
    IF \E i \in StepIndex : type = Steps[i].success THEN Advance(s)
    ELSE IF type = Steps[s.step].failure THEN BeginCompensation(s)
    ELSE Result({}, s)

\* Mutant: the two comparisons are swapped.
OnEvent_Swapped(s, type) ==
    IF type = Steps[s.step].failure THEN Advance(s)
    ELSE IF type = Steps[s.step].success THEN BeginCompensation(s)
    ELSE Result({}, s)

\* An event that is neither outcome of the current step returns the snapshot
\* as it was read; the caller still saves it.
OnEvent(s, type) ==
    IF type = Steps[s.step].success THEN Advance(s)
    ELSE IF type = Steps[s.step].failure THEN BeginCompensation(s)
    ELSE Result({}, s)
=============================================================================
