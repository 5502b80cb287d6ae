----------------------- MODULE SagaStateMachine_proofs -----------------------
(***************************************************************************)
(* For every saga definition that satisfies StepsAssumption, any set of    *)
(* orders and of replicas, and any number of faults and duplicates: the    *)
(* commands the orchestrator publishes are justified by what the           *)
(* participants answered.  The argument is one inductive invariant, IInv:  *)
(* every snapshot, persisted or held in a handler, however stale, tells    *)
(* the truth about the answers, because answers are never taken back.      *)
(* With one replica also rows and verdicts can be relied on (SoleInv), and *)
(* as long as its handlers do not fail no saga is stranded (MovingInv).    *)
(***************************************************************************)
EXTENDS SagaStateMachine, SequenceTheorems, TLAPS

-----------------------------------------------------------------------------
(***************************************************************************)
(* The engine's operators.                                                 *)
(***************************************************************************)

LEMMA StepFields ==
    ASSUME NEW i \in StepIndex
    PROVE  /\ Steps[i] \in [name : STRING, command : STRING, success : STRING,
                            failure : STRING, compensation : STRING]
           /\ 1 \in StepIndex /\ Len(Steps) \in StepIndex
           /\ Steps[i].command \in Commands
           /\ Steps[i].success \in EventTypes
           /\ Steps[i].failure \in EventTypes
           /\ Steps[i].compensation # NoCompensation => Steps[i].compensation \in Commands
<1>1. Len(Steps) \in Nat /\ Len(Steps) > 0
  BY StepsAssumption
<1>2. Steps[i] \in [name : STRING, command : STRING, success : STRING,
                    failure : STRING, compensation : STRING]
  BY StepsAssumption, ElementOfSeq DEF StepIndex
<1> QED
  BY <1>1, <1>2 DEF StepIndex, Commands, StepCommands, CompensationCommands, EventTypes, StepEvents

LEMMA HistoryGrows ==
    ASSUME NEW s \in Snapshot, NEW outcome \in {"STARTED", "SUCCEEDED", "FAILED"}
    PROVE  Record(s, outcome) \in Seq(HistoryEntry)
<1>1. s.history \in Seq(HistoryEntry) /\ s.step \in StepIndex
  BY DEF Snapshot
<1>2. [step |-> Steps[s.step].name, event |-> outcome] \in HistoryEntry
  BY <1>1 DEF HistoryEntry
<1> QED
  BY <1>1, <1>2 DEF Record

LEMMA StartType ==
    /\ Start.snapshot \in Snapshot
    /\ Start.publications \subseteq Publication
    /\ Start.snapshot.step = 1 /\ Start.snapshot.status = "IN_PROGRESS"
    /\ Start.publications = {[step |-> 1, kind |-> "command"]}
<1>1. 1 \in StepIndex
  BY StepsAssumption DEF StepIndex
<1>2. [step |-> Steps[1].name, event |-> "STARTED"] \in HistoryEntry
  BY <1>1 DEF HistoryEntry
<1>3. <<[step |-> Steps[1].name, event |-> "STARTED"]>> \in Seq(HistoryEntry)
  BY <1>2
<1> QED
  BY <1>1, <1>3 DEF Start, Result, Snapshot, SagaStatus, Publication

\* Whatever the event, registry.onEvent returns a well-formed snapshot, a true
\* one if the event tells the truth, and publications due at that snapshot.
LEMMA OnEventType ==
    ASSUME NEW s \in Snapshot, NEW e
    PROVE  /\ OnEvent(s, e).snapshot \in Snapshot
           /\ OnEvent(s, e).publications \subseteq Publication
<1> DEFINE done == [s EXCEPT !.status = "COMPLETED", !.history = Record(s, "SUCCEEDED")]
           next == [step |-> s.step + 1, status |-> "IN_PROGRESS",
                    history |-> Record(s, "SUCCEEDED")]
<1>1. s.step \in StepIndex /\ s.step \in Nat /\ Len(Steps) \in Nat
  BY StepsAssumption DEF Snapshot, StepIndex
<1>2. /\ Record(s, "SUCCEEDED") \in Seq(HistoryEntry)
      /\ Record(s, "FAILED") \in Seq(HistoryEntry)
  BY HistoryGrows
<1>3. CASE e = Steps[s.step].success
  <2>1. OnEvent(s, e) = Advance(s)
    BY <1>3 DEF OnEvent
  <2>2. done \in Snapshot
    BY <1>1, <1>2 DEF Snapshot, SagaStatus
  <2>3. s.step # Len(Steps) => s.step + 1 \in StepIndex
    BY <1>1 DEF StepIndex
  <2>4. s.step # Len(Steps) => next \in Snapshot
    BY <1>2, <2>3 DEF Snapshot, SagaStatus
  <2>5. CASE s.step = Len(Steps)
    <3>1. OnEvent(s, e).snapshot = done /\ OnEvent(s, e).publications = {}
      BY <2>1, <2>5 DEF Advance, Result
    <3> QED BY <2>2, <3>1
  <2>6. CASE s.step # Len(Steps)
    <3>1. /\ OnEvent(s, e).snapshot = next
          /\ OnEvent(s, e).publications = {[step |-> s.step + 1, kind |-> "command"]}
      BY <2>1, <2>6 DEF Advance, Result
    <3>2. {[step |-> s.step + 1, kind |-> "command"]} \subseteq Publication
      BY <2>3, <2>6 DEF Publication
    <3> QED BY <2>4, <2>6, <3>1, <3>2
  <2> QED
    BY <2>5, <2>6
<1>4. CASE e # Steps[s.step].success /\ e = Steps[s.step].failure
  <2>1. OnEvent(s, e) = BeginCompensation(s)
    BY <1>4 DEF OnEvent
  <2>2. StepsToCompensate(s) \subseteq StepIndex
    BY <1>1 DEF StepsToCompensate, StepIndex
  <2> DEFINE status == IF StepsToCompensate(s) # {} THEN "COMPENSATING" ELSE "COMPENSATED"
             failed == [s EXCEPT !.status = status, !.history = Record(s, "FAILED")]
             undo == {[step |-> i, kind |-> "compensation"] : i \in StepsToCompensate(s)}
  <2>3. status \in SagaStatus
    BY DEF SagaStatus
  <2>4. failed \in Snapshot
    <3> HIDE DEF status
    <3> QED BY <1>1, <1>2, <2>3 DEF Snapshot
  <2>5. undo \subseteq Publication
    BY <2>2 DEF Publication
  <2>6. OnEvent(s, e).snapshot = failed /\ OnEvent(s, e).publications = undo
    BY <2>1 DEF BeginCompensation, Result
  <2> QED
    BY <2>4, <2>5, <2>6
<1>5. CASE e # Steps[s.step].success /\ e # Steps[s.step].failure
  BY <1>5 DEF OnEvent, Result
<1> QED
  BY <1>3, <1>4, <1>5

LEMMA OnEventTrue ==
    ASSUME NEW o \in Orders, NEW s \in Snapshot, NEW e \in EventTypes,
           SnapshotTrue(o, s), EventsTrue(o), pending[o][e] > 0
    PROVE  /\ SnapshotTrue(o, OnEvent(s, e).snapshot)
           /\ \A p \in OnEvent(s, e).publications : PublicationDue(o, OnEvent(s, e).snapshot, p)
<1>1. s.step \in StepIndex /\ s.step \in Nat /\ Len(Steps) \in Nat
  BY StepsAssumption DEF Snapshot, StepIndex
<1>2. \A j \in 1 .. s.step - 1 : answer[o][j] = "success"
  BY DEF SnapshotTrue
<1>3. CASE e = Steps[s.step].success
  <2>1. OnEvent(s, e) = Advance(s)
    BY <1>3 DEF OnEvent
  <2>2. answer[o][s.step] = "success"
    BY <1>1, <1>3 DEF EventsTrue
  <2>3. \A j \in 1 .. (s.step + 1) - 1 : answer[o][j] = "success"
    BY <1>1, <1>2, <2>2
  <2>4. CASE s.step = Len(Steps)
    <3> DEFINE done == [s EXCEPT !.status = "COMPLETED", !.history = Record(s, "SUCCEEDED")]
    <3>1. OnEvent(s, e).snapshot = done /\ OnEvent(s, e).publications = {}
      BY <2>1, <2>4 DEF Advance, Result
    <3>2. done.step = s.step /\ done.status = "COMPLETED"
      BY DEF Snapshot
    <3>3. SnapshotTrue(o, done)
      <4> HIDE DEF done
      <4> QED BY <1>2, <2>2, <2>4, <3>2 DEF SnapshotTrue
    <3> QED BY <3>1, <3>3
  <2>5. CASE s.step # Len(Steps)
    BY <2>1, <2>3, <2>5 DEF Advance, Result, SnapshotTrue, PublicationDue
  <2> QED
    BY <2>4, <2>5
<1>4. CASE e # Steps[s.step].success /\ e = Steps[s.step].failure
  <2> DEFINE t == OnEvent(s, e).snapshot
  <2>1. OnEvent(s, e) = BeginCompensation(s)
    BY <1>4 DEF OnEvent
  <2>2. answer[o][s.step] = "failure"
    BY <1>1, <1>4 DEF EventsTrue
  <2>3. /\ t.step = s.step
        /\ t.status = IF StepsToCompensate(s) # {} THEN "COMPENSATING" ELSE "COMPENSATED"
    <3> DEFINE status == IF StepsToCompensate(s) # {} THEN "COMPENSATING" ELSE "COMPENSATED"
    <3>1. t = [s EXCEPT !.status = status, !.history = Record(s, "FAILED")]
      BY <2>1 DEF BeginCompensation, Result
    <3> HIDE DEF t, status
    <3>2. t.step = s.step /\ t.status = status
      BY <3>1 DEF Snapshot
    <3> QED BY <3>2 DEF status
  <2>4. SnapshotTrue(o, t)
    <3> HIDE DEF t
    <3> QED BY <2>2, <2>3, <1>2 DEF SnapshotTrue
  <2>5. ASSUME NEW p \in OnEvent(s, e).publications
        PROVE  PublicationDue(o, t, p)
    <3>1. p.kind = "compensation" /\ p.step \in StepsToCompensate(s)
      BY <2>1 DEF BeginCompensation, Result
    <3>2. t.status = "COMPENSATING"
      BY <2>3, <3>1
    <3> HIDE DEF t
    <3> QED
      BY <3>1, <3>2, <2>3, <1>1 DEF PublicationDue, StepsToCompensate
  <2> QED
    BY <2>4, <2>5
<1>5. CASE e # Steps[s.step].success /\ e # Steps[s.step].failure
  BY <1>5 DEF OnEvent, Result
<1> QED
  BY <1>3, <1>4, <1>5
-----------------------------------------------------------------------------
(***************************************************************************)
(* Type correctness.                                                       *)
(***************************************************************************)

LEMMA BusyHandler ==
    ASSUME TypeOK, NEW w \in Workers, handler[w] # Idle
    PROVE  handler[w] \in Handler
BY DEF TypeOK

LEMMA BusyPc ==
    ASSUME TypeOK, NEW w \in Workers, handler[w].pc # "idle"
    PROVE  handler[w] \in Handler
BY BusyHandler DEF Idle

LEMMA CommandOfType ==
    ASSUME NEW p \in Publication,
           p.kind = "compensation" => Steps[p.step].compensation # NoCompensation
    PROVE  CommandOf(p) \in Commands
<1>1. p.step \in StepIndex /\ p.kind \in {"command", "compensation"}
  BY DEF Publication
<1>2. /\ Steps[p.step].command \in Commands
      /\ Steps[p.step].compensation # NoCompensation => Steps[p.step].compensation \in Commands
  BY <1>1, StepFields
<1>3. CommandOf(p) = IF p.kind = "command" THEN Steps[p.step].command ELSE Steps[p.step].compensation
  BY DEF CommandOf
<1> QED
  BY <1>1, <1>2, <1>3

\* What a delivery leaves to do, once findById returned a row r.
LEMMA DispatchType ==
    ASSUME NEW o \in Orders, NEW e \in EventTypes, NEW r \in Snapshot \cup {NoRow}
    PROVE  Dispatch(o, e, r) \in Handler
<1>1. Ignore(o, e, r) \in Handler
  BY DEF Ignore, Job, Handler
<1>2. ASSUME NEW result, result.snapshot \in Snapshot, result.publications \subseteq Publication
      PROVE  Work(o, e, result) \in Handler
  <2> DEFINE next == IF result.publications = {} THEN "save" ELSE "publish"
  <2>1. next \in {"publish", "save", "announce", "commit"}
    OBVIOUS
  <2>2. Work(o, e, result) = Job(next, o, e, result.snapshot, result.publications)
    BY DEF Work
  <2> HIDE DEF next
  <2> QED BY <1>2, <2>1, <2>2 DEF Job, Handler
<1>3. Work(o, e, Start) \in Handler
  BY <1>2, StartType
<1>4. r \in Snapshot => Work(o, e, OnEvent(r, e)) \in Handler
  BY <1>2, OnEventType
<1> QED
  BY <1>1, <1>3, <1>4 DEF Dispatch

LEMMA InitType == Init => TypeOK
BY DEF Init, TypeOK, Idle

\* Publish needs that what is left to publish is due, Commit that the copy an
\* owner commits is there: type correctness is inductive only with IInv.
LEMMA NextType ==
    ASSUME IInv, [Next]_vars
    PROVE  TypeOK'
<1> USE DEF IInv
<1>1. ASSUME NEW w \in Workers, NEW o \in Orders, NEW e \in EventTypes, Deliver(w, o, e)
      PROVE  TypeOK'
  <2>1. Dispatch(o, e, row[o]) \in Handler
    BY DispatchType DEF TypeOK
  <2> QED
    BY <1>1, <2>1 DEF Deliver, TypeOK
<1>2. ASSUME NEW w \in Workers, Publish(w)
      PROVE  TypeOK'
  <2> DEFINE h == handler[w]
  <2>1. h.pc = "publish" /\ h \in Handler
    BY <1>2, BusyPc DEF Publish
  <2>2. PICK p \in NextPublication(h.todo) :
           /\ Send(h.order, CommandOf(p))
           /\ handler' = [handler EXCEPT ![w] =
                 [h EXCEPT !.todo = h.todo \ {p},
                           !.pc = IF h.todo \ {p} = {} THEN "save" ELSE "publish"]]
    BY <1>2 DEF Publish
  <2>3. p \in h.todo /\ p \in Publication
    BY <2>1 DEF NextPublication, Handler
  <2>4. CommandOf(p) \in Commands
    <3>1. PublicationDue(h.order, h.snapshot, p)
      BY <2>1, <2>3 DEF HandlerTrue, Idle
    <3> QED BY <2>3, <3>1, CommandOfType DEF PublicationDue
  <2>5. h.order \in Orders
    BY <2>1 DEF Handler
  <2>6. sent' \in [Orders -> [Commands -> Nat]]
    BY <2>2, <2>4, <2>5 DEF Send, TypeOK
  <2>7. [h EXCEPT !.todo = h.todo \ {p},
                  !.pc = IF h.todo \ {p} = {} THEN "save" ELSE "publish"] \in Handler
    <3> DEFINE next == IF h.todo \ {p} = {} THEN "save" ELSE "publish"
    <3>1. next \in {"publish", "save", "announce", "commit"} /\ h.todo \ {p} \subseteq Publication
      BY <2>1 DEF Handler
    <3> HIDE DEF next, h
    <3>2. [h EXCEPT !.todo = h.todo \ {p}, !.pc = next] \in Handler
      BY <2>1, <3>1 DEF Handler
    <3> QED BY <3>2 DEF next
  <2> QED
    BY <1>2, <2>2, <2>6, <2>7 DEF Publish, TypeOK
<1>3. ASSUME NEW w \in Workers, Save(w)
      PROVE  TypeOK'
  <2> DEFINE h == handler[w]
             next == IF Terminal(h.snapshot) THEN "announce" ELSE "commit"
  <2>1. h.pc = "save" /\ h \in Handler
    BY <1>3, BusyPc DEF Save
  <2>2. h.order \in Orders /\ h.snapshot \in Snapshot \cup {NoRow}
    BY <2>1 DEF Handler
  <2>3. next \in {"publish", "save", "announce", "commit"}
    OBVIOUS
  <2>4. [h EXCEPT !.pc = next] \in Handler
    <3> HIDE DEF next, h
    <3> QED BY <2>1, <2>3 DEF Handler
  <2> QED
    BY <1>3, <2>2, <2>4 DEF Save, TypeOK
<1>4. ASSUME NEW w \in Workers, Announce(w)
      PROVE  TypeOK'
  <2> DEFINE h == handler[w]
  <2>1. h.pc = "announce" /\ h \in Handler
    BY <1>4, BusyPc DEF Announce
  <2>2. h.order \in Orders /\ [h EXCEPT !.pc = "commit"] \in Handler
    BY <2>1 DEF Handler
  <2>3. {"ConfirmOrder", "CancelOrder"} \subseteq Commands
    BY DEF Commands
  <2> QED
    BY <1>4, <2>2, <2>3 DEF Announce, Send, TypeOK
<1>5. ASSUME NEW w \in Workers, Commit(w)
      PROVE  TypeOK'
  <2>1. handler' = [handler EXCEPT ![w] = Idle]
    BY <1>5 DEF Commit
  <2>2. handler[w].order \in Orders /\ handler[w].event \in EventTypes
    BY <1>5, BusyPc DEF Commit, Handler
  <2>3. pending' \in [Orders -> [EventTypes -> Nat]]
    <3>1. CASE handler[w].owner
      <4>1. pending[handler[w].order][handler[w].event] > 0
        BY <1>5, <3>1 DEF OwnersTrue, Owner, Commit, Idle
      <4>2. pending[handler[w].order][handler[w].event] - 1 \in Nat
        BY <2>2, <4>1 DEF TypeOK
      <4> QED
        BY <1>5, <2>2, <3>1, <4>2 DEF Commit, TypeOK
    <3>2. CASE ~handler[w].owner
      BY <1>5, <3>2 DEF Commit, TypeOK
    <3> QED BY <3>1, <3>2
  <2> QED
    BY <1>5, <2>1, <2>3 DEF Commit, TypeOK
<1>6. ASSUME NEW w \in Workers, Abandon(w)
      PROVE  TypeOK'
  BY <1>6 DEF Abandon, TypeOK
<1>7. ASSUME NEW w \in Workers, Revoke(w)
      PROVE  TypeOK'
  <2>1. handler[w] \in Handler
    BY <1>7, BusyHandler DEF Revoke, Owner
  <2>2. [handler[w] EXCEPT !.owner = FALSE] \in Handler
    BY <2>1 DEF Handler
  <2> QED
    BY <1>7, <2>2 DEF Revoke, TypeOK
<1>8. ASSUME NEW o \in Orders, NEW e \in EventTypes, Emit(o, e)
      PROVE  pending' \in [Orders -> [EventTypes -> Nat]]
  BY <1>8 DEF Emit, TypeOK
<1>9. OrderEvents \subseteq EventTypes
  BY DEF EventTypes
<1>10. ASSUME NEW o \in Orders, PlaceOrder(o)
       PROVE  TypeOK'
  BY <1>8, <1>9, <1>10 DEF PlaceOrder, TypeOK, OrderEvents
<1>11. ASSUME NEW o \in Orders, NEW i \in StepIndex, AnswerStep(o, i)
       PROVE  TypeOK'
  <2>1. PICK outcome \in {"success", "failure"} : Answer(o, i, outcome)
    BY <1>11 DEF AnswerStep
  <2>2. pending' \in [Orders -> [EventTypes -> Nat]]
    BY <1>8, <2>1, StepFields DEF Answer
  <2> QED
    BY <2>1, <2>2 DEF Answer, TypeOK
<1>12. ASSUME NEW o \in Orders, ConfirmOrder(o) \/ CancelOrder(o)
       PROVE  TypeOK'
  BY <1>8, <1>9, <1>12 DEF ConfirmOrder, CancelOrder, Finalize, TypeOK, OrderEvents
<1>13. ASSUME NEW o \in Orders, NEW e \in EventTypes, Duplicate(o, e)
       PROVE  TypeOK'
  BY <1>8, <1>13 DEF Duplicate, TypeOK
<1>14. CASE UNCHANGED vars
  BY <1>14 DEF vars, TypeOK
<1> QED
  BY <1>1, <1>2, <1>3, <1>4, <1>5, <1>6, <1>7, <1>10, <1>11, <1>12, <1>13, <1>14
  DEF Next, Worker, Participants
-----------------------------------------------------------------------------
(***************************************************************************)
(* The inductive step, one conjunct of IInv at a time.                     *)
(***************************************************************************)

\* An answer, once given, stays; so what was true of a snapshot stays true.
AnswersKept ==
    \A o \in Orders, i \in StepIndex : answer[o][i] # "none" => answer'[o][i] = answer[o][i]

LEMMA NextKeepsAnswers ==
    ASSUME TypeOK, [Next]_vars
    PROVE  AnswersKept
<1>1. ASSUME NEW o \in Orders, NEW i \in StepIndex, AnswerStep(o, i)
      PROVE  AnswersKept
  BY <1>1 DEF AnswerStep, Answer, AnswersKept, TypeOK
<1>2. answer' = answer => AnswersKept
  BY DEF AnswersKept
<1> QED
  BY <1>1, <1>2
  DEF Next, vars, Worker, Participants, Deliver, Publish, Save, Announce, Commit, Abandon,
      Revoke, PlaceOrder, ConfirmOrder, CancelOrder, Finalize, Duplicate

LEMMA SnapshotStaysTrue ==
    ASSUME AnswersKept, NEW o \in Orders, NEW s \in Snapshot, SnapshotTrue(o, s)
    PROVE  SnapshotTrue(o, s)'
<1>1. s.step \in StepIndex /\ Len(Steps) \in Nat
  BY StepsAssumption DEF Snapshot
<1>2. \A j \in 1 .. s.step - 1 : j \in StepIndex
  BY <1>1 DEF StepIndex
<1> QED
  BY <1>1, <1>2 DEF SnapshotTrue, AnswersKept

LEMMA NextRows ==
    ASSUME IInv, [Next]_vars
    PROVE  (\A o \in Orders : row[o] # NoRow => SnapshotTrue(o, row[o]))'
<1> SUFFICES ASSUME NEW o \in Orders, NEW s, s = row'[o], s # NoRow
             PROVE  SnapshotTrue(o, s)'
  BY DEF SnapshotTrue
<1>1. AnswersKept
  BY NextKeepsAnswers DEF IInv
<1>2. CASE row'[o] = row[o]
  BY <1>1, <1>2, SnapshotStaysTrue DEF IInv, TypeOK
<1>3. ASSUME NEW w \in Workers, Save(w), row'[o] # row[o]
      PROVE  SnapshotTrue(o, s)'
  <2> DEFINE h == handler[w]
  <2>1. h.pc = "save" /\ h # Idle /\ h \in Handler
    BY <1>3, BusyPc DEF Save, IInv, Idle
  <2>2. h.snapshot \in Snapshot /\ SnapshotTrue(h.order, h.snapshot)
    BY <2>1 DEF IInv, HandlerTrue
  <2>3. h.order = o /\ s = h.snapshot
    BY <1>3, <2>1 DEF Save, IInv, TypeOK, Handler
  <2> QED
    BY <1>1, <2>2, <2>3, SnapshotStaysTrue
<1>4. row' = row \/ \E w \in Workers : Save(w)
  BY DEF Next, vars, Worker, Participants, Deliver, Publish, Announce, Commit, Abandon, Revoke,
         PlaceOrder, AnswerStep, Answer, ConfirmOrder, CancelOrder, Finalize, Duplicate
<1> QED
  BY <1>2, <1>3, <1>4

\* What a handler is started with is true of the row it read, and due.
LEMMA DispatchTrue ==
    ASSUME IInv, NEW o \in Orders, NEW e \in EventTypes, pending[o][e] > 0
    PROVE  HandlerTrue(Dispatch(o, e, row[o]))
<1> DEFINE r == row[o]
           d == Dispatch(o, e, r)
<1>1. CASE d = Ignore(o, e, r)
  BY <1>1 DEF HandlerTrue, Ignore, Job
<1>2. CASE e = "OrderCreated" /\ r = NoRow
  <2>1. d = Work(o, e, Start)
    BY <1>2 DEF Dispatch
  <2>2. SnapshotTrue(o, Start.snapshot)
    BY StartType DEF SnapshotTrue
  <2>3. \A p \in Start.publications : PublicationDue(o, Start.snapshot, p)
    BY StartType DEF PublicationDue
  <2> QED
    BY <2>1, <2>2, <2>3, StartType DEF HandlerTrue, Work, Job
<1>3. CASE e # "OrderCreated" /\ r # NoRow /\ ~Terminal(r)
  <2> DEFINE u == OnEvent(r, e)
  <2>1. d = Work(o, e, u)
    BY <1>3 DEF Dispatch
  <2>2. r \in Snapshot /\ SnapshotTrue(o, r) /\ EventsTrue(o)
    BY <1>3 DEF IInv, TypeOK
  <2>3. u.snapshot \in Snapshot
    BY <2>2, OnEventType
  <2>4. SnapshotTrue(o, u.snapshot) /\ \A p \in u.publications : PublicationDue(o, u.snapshot, p)
    BY <2>2, OnEventTrue
  <2> HIDE DEF u
  <2> QED
    BY <2>1, <2>3, <2>4 DEF HandlerTrue, Work, Job
<1> QED
  BY <1>1, <1>2, <1>3 DEF Dispatch

LEMMA HandlerStaysTrue ==
    ASSUME AnswersKept, NEW h \in Handler, HandlerTrue(h)
    PROVE  HandlerTrue(h)'
<1>1. h.order \in Orders
  BY DEF Handler
<1>2. h.pc # "commit" => h.snapshot \in Snapshot /\ SnapshotTrue(h.order, h.snapshot)'
  BY <1>1, SnapshotStaysTrue DEF HandlerTrue
<1> QED
  BY <1>2 DEF HandlerTrue, PublicationDue, Terminal

LEMMA NextHandlers ==
    ASSUME IInv, [Next]_vars
    PROVE  (\A w \in Workers : handler[w] # Idle => HandlerTrue(handler[w]))'
<1> SUFFICES ASSUME NEW w \in Workers, NEW g, g = handler'[w], g # Idle
             PROVE  HandlerTrue(g)'
  BY DEF HandlerTrue, Terminal, SnapshotTrue, PublicationDue
<1>1. AnswersKept
  BY NextKeepsAnswers DEF IInv
<1>2. g \in Handler
  BY NextType DEF TypeOK
<1>3. SUFFICES HandlerTrue(g)
  BY <1>1, <1>2, HandlerStaysTrue
<1>4. CASE handler'[w] = handler[w]
  BY <1>4 DEF IInv
<1>5. ASSUME NEW o \in Orders, NEW e \in EventTypes, Deliver(w, o, e)
      PROVE  HandlerTrue(g)
  BY <1>5, DispatchTrue DEF Deliver, IInv, TypeOK
<1>6. ASSUME Publish(w)
      PROVE  HandlerTrue(g)
  <2> DEFINE h == handler[w]
  <2>1. h.pc = "publish" /\ h # Idle /\ h \in Handler /\ HandlerTrue(h)
    BY <1>6, BusyPc DEF Publish, IInv, Idle
  <2>2. PICK p \in h.todo :
           g = [h EXCEPT !.todo = h.todo \ {p},
                          !.pc = IF h.todo \ {p} = {} THEN "save" ELSE "publish"]
    BY <1>6 DEF Publish, NextPublication, IInv, TypeOK
  <2>3. /\ g.order = h.order /\ g.snapshot = h.snapshot /\ g.todo = h.todo \ {p}
        /\ g.pc = IF h.todo \ {p} = {} THEN "save" ELSE "publish"
    BY <2>1, <2>2 DEF Handler
  <2> HIDE DEF h
  <2>4. h.snapshot \in Snapshot /\ SnapshotTrue(h.order, h.snapshot)
        /\ \A q \in h.todo : PublicationDue(h.order, h.snapshot, q)
    BY <2>1 DEF HandlerTrue
  <2> QED
    BY <2>3, <2>4 DEF HandlerTrue
<1>7. ASSUME Save(w)
      PROVE  HandlerTrue(g)
  <2> DEFINE h == handler[w]
  <2>1. h.pc = "save" /\ h # Idle /\ h \in Handler /\ HandlerTrue(h)
    BY <1>7, BusyPc DEF Save, IInv, Idle
  <2>2. g = [h EXCEPT !.pc = IF Terminal(h.snapshot) THEN "announce" ELSE "commit"]
    BY <1>7 DEF Save, IInv, TypeOK
  <2>3. /\ g.order = h.order /\ g.snapshot = h.snapshot
        /\ g.pc = IF Terminal(h.snapshot) THEN "announce" ELSE "commit"
    BY <2>1, <2>2 DEF Handler
  <2> HIDE DEF h
  <2> QED
    BY <2>1, <2>3 DEF HandlerTrue
<1>8. ASSUME Announce(w)
      PROVE  HandlerTrue(g)
  <2>1. handler[w] \in Handler
    BY <1>8, BusyPc DEF Announce, IInv
  <2>2. g.pc = "commit"
    BY <1>8, <2>1 DEF Announce, IInv, TypeOK, Handler
  <2> QED
    BY <2>2 DEF HandlerTrue
<1>9. ASSUME Revoke(w)
      PROVE  HandlerTrue(g)
  <2> DEFINE h == handler[w]
  <2>1. h \in Handler /\ HandlerTrue(h)
    BY <1>9, BusyHandler DEF Revoke, Owner, IInv
  <2>2. g = [h EXCEPT !.owner = FALSE]
    BY <1>9 DEF Revoke, IInv, TypeOK
  <2>3. g.order = h.order /\ g.snapshot = h.snapshot /\ g.pc = h.pc /\ g.todo = h.todo
    BY <2>1, <2>2 DEF Handler
  <2> HIDE DEF h
  <2> QED
    BY <2>1, <2>3 DEF HandlerTrue
<1>10. \/ g = handler[w]
       \/ \E o \in Orders, e \in EventTypes : Deliver(w, o, e)
       \/ Publish(w) \/ Save(w) \/ Announce(w) \/ Revoke(w)
  <2>1. handler' = handler => g = handler[w]
    OBVIOUS
  <2>2. ASSUME NEW v \in Workers, Worker(v) \/ Abandon(v) \/ Revoke(v), v # w
        PROVE  g = handler[w]
    BY <2>2 DEF IInv, TypeOK, Worker, Deliver, Publish, Save, Announce, Commit, Abandon, Revoke
  <2>3. ASSUME Commit(w) \/ Abandon(w)
        PROVE  g = Idle
    BY <2>3 DEF IInv, TypeOK, Commit, Abandon
  <2>4. \/ handler' = handler
        \/ \E v \in Workers : Worker(v) \/ Abandon(v) \/ Revoke(v)
    BY DEF Next, vars, Participants, PlaceOrder, AnswerStep, Answer, ConfirmOrder, CancelOrder,
           Finalize, Duplicate
  <2> QED
    BY <2>1, <2>2, <2>3, <2>4 DEF Worker
<1> QED
  BY <1>4, <1>5, <1>6, <1>7, <1>8, <1>9, <1>10

\* A copy of a step's event exists only once the step was answered that way.
LEMMA NextEvents ==
    ASSUME IInv, [Next]_vars
    PROVE  (\A o \in Orders : EventsTrue(o))'
<1> SUFFICES ASSUME NEW o \in Orders, NEW i \in StepIndex
             PROVE  /\ pending'[o][Steps[i].success] > 0 => answer'[o][i] = "success"
                    /\ pending'[o][Steps[i].failure] > 0 => answer'[o][i] = "failure"
  BY DEF EventsTrue
<1>1. /\ Steps[i].success \in EventTypes /\ Steps[i].failure \in EventTypes
      /\ Steps[i].success \notin OrderEvents /\ Steps[i].failure \notin OrderEvents
  BY StepFields, StepsAssumption DEF StepEvents, OrderEvents
<1>2. /\ pending[o][Steps[i].success] > 0 => answer[o][i] = "success"
      /\ pending[o][Steps[i].failure] > 0 => answer[o][i] = "failure"
  BY DEF IInv, EventsTrue
<1>3. AnswersKept
  BY NextKeepsAnswers DEF IInv
<1>4. ASSUME \A e \in EventTypes : pending'[o][e] <= pending[o][e]
      PROVE  /\ pending'[o][Steps[i].success] > 0 => answer'[o][i] = "success"
             /\ pending'[o][Steps[i].failure] > 0 => answer'[o][i] = "failure"
  <2>1. TypeOK'
    BY NextType
  <2> QED
    BY <1>1, <1>2, <1>3, <1>4, <2>1 DEF AnswersKept, IInv, TypeOK
<1>5. ASSUME NEW p \in Orders, NEW e \in OrderEvents, Emit(p, e)
      PROVE  /\ pending'[o][Steps[i].success] > 0 => answer'[o][i] = "success"
             /\ pending'[o][Steps[i].failure] > 0 => answer'[o][i] = "failure"
  <2>1. /\ pending'[o][Steps[i].success] = pending[o][Steps[i].success]
        /\ pending'[o][Steps[i].failure] = pending[o][Steps[i].failure]
    BY <1>1, <1>5 DEF Emit, IInv, TypeOK
  <2> QED
    BY <1>2, <1>3, <2>1 DEF AnswersKept
<1>6. ASSUME NEW p \in Orders, NEW j \in StepIndex, NEW outcome \in {"success", "failure"},
             Answer(p, j, outcome)
      PROVE  /\ pending'[o][Steps[i].success] > 0 => answer'[o][i] = "success"
             /\ pending'[o][Steps[i].failure] > 0 => answer'[o][i] = "failure"
  <2> DEFINE e == IF outcome = "success" THEN Steps[j].success ELSE Steps[j].failure
  <2>1. pending' = [pending EXCEPT ![p][e] = @ + 1] /\ answer'[p][j] = outcome
    BY <1>6 DEF Answer, Emit, IInv, TypeOK
  <2>2. CASE p = o /\ j = i
    <3>1. Steps[i].success # Steps[i].failure
      BY StepsAssumption
    <3>2. pending[o][Steps[i].success] = 0 /\ pending[o][Steps[i].failure] = 0
      BY <1>1, <1>2, <1>6, <2>2 DEF Answer, IInv, TypeOK
    <3> QED
      BY <1>1, <2>1, <2>2, <3>1, <3>2 DEF IInv, TypeOK
  <2>3. CASE p # o \/ j # i
    <3>1. j # i => e # Steps[i].success /\ e # Steps[i].failure
      BY StepsAssumption
    <3>2. /\ pending'[o][Steps[i].success] = pending[o][Steps[i].success]
          /\ pending'[o][Steps[i].failure] = pending[o][Steps[i].failure]
      BY <1>1, <2>1, <2>3, <3>1 DEF IInv, TypeOK
    <3> QED
      BY <1>2, <1>3, <3>2 DEF AnswersKept
  <2> QED
    BY <2>2, <2>3
<1>7. ASSUME NEW p \in Orders, NEW e \in EventTypes, Duplicate(p, e)
      PROVE  /\ pending'[o][Steps[i].success] > 0 => answer'[o][i] = "success"
             /\ pending'[o][Steps[i].failure] > 0 => answer'[o][i] = "failure"
  <2>1. answer' = answer /\ pending' = [pending EXCEPT ![p][e] = @ + 1] /\ Emitted(p, e)
    BY <1>7 DEF Duplicate, Emit
  <2>2. Steps[i].success = e /\ p = o => answer[o][i] = "success"
    BY <1>1, <2>1, StepsAssumption DEF Emitted, OrderEvents
  <2>3. Steps[i].failure = e /\ p = o => answer[o][i] = "failure"
    BY <1>1, <2>1, StepsAssumption DEF Emitted, OrderEvents
  <2> QED
    BY <1>1, <1>2, <2>1, <2>2, <2>3 DEF IInv, TypeOK
<1>8. ASSUME NEW w \in Workers, Commit(w)
      PROVE  \A e \in EventTypes : pending'[o][e] <= pending[o][e]
  <2>1. handler[w].order \in Orders /\ handler[w].event \in EventTypes
    BY <1>8, BusyPc DEF Commit, Handler, IInv
  <2> QED
    BY <1>8, <2>1 DEF Commit, IInv, TypeOK
<1>9. pending' = pending => \A e \in EventTypes : pending'[o][e] <= pending[o][e]
  BY DEF IInv, TypeOK
<1>10. \/ pending' = pending
       \/ \E w \in Workers : Commit(w)
       \/ \E p \in Orders, e \in OrderEvents : Emit(p, e)
       \/ \E p \in Orders, j \in StepIndex, outcome \in {"success", "failure"} : Answer(p, j, outcome)
       \/ \E p \in Orders, e \in EventTypes : Duplicate(p, e)
  BY DEF Next, vars, Worker, Participants, Deliver, Publish, Save, Announce, Abandon, Revoke,
         PlaceOrder, AnswerStep, ConfirmOrder, CancelOrder, Finalize, OrderEvents
<1> QED
  BY <1>4, <1>5, <1>6, <1>7, <1>8, <1>9, <1>10

LEMMA NextCommands ==
    ASSUME IInv, [Next]_vars
    PROVE  CommandsFollowAnswers' /\ VerdictJustified'
<1>1. AnswersKept
  BY NextKeepsAnswers DEF IInv
<1>2. \A j, i \in Int : i \in StepIndex /\ j \in 1 .. i - 1 => j \in StepIndex
  BY StepsAssumption DEF StepIndex
<1>3. CASE sent' = sent
  <2>1. CommandsFollowAnswers'
    BY <1>1, <1>2, <1>3 DEF IInv, CommandsFollowAnswers, AnswersKept, StepIndex
  <2>2. VerdictJustified'
    BY <1>1, <1>3 DEF IInv, VerdictJustified, AnswersKept
  <2> QED
    BY <2>1, <2>2
<1>4. ASSUME NEW w \in Workers, Publish(w)
      PROVE  CommandsFollowAnswers' /\ VerdictJustified'
  <2> DEFINE h == handler[w]
  <2>1. h.pc = "publish" /\ h # Idle /\ h \in Handler /\ HandlerTrue(h) /\ answer' = answer
    BY <1>4, BusyPc DEF Publish, IInv, Idle
  <2>2. PICK p \in h.todo : Send(h.order, CommandOf(p))
    BY <1>4 DEF Publish, NextPublication
  <2>3. /\ PublicationDue(h.order, h.snapshot, p) /\ SnapshotTrue(h.order, h.snapshot)
        /\ p \in Publication /\ h.order \in Orders /\ h.snapshot \in Snapshot
    BY <2>1 DEF HandlerTrue, Handler
  <2>4. p.step \in StepIndex /\ p.kind \in {"command", "compensation"}
    BY <2>3 DEF Publication
  <2>5. sent' = [sent EXCEPT ![h.order][CommandOf(p)] = @ + 1]
    BY <2>2 DEF Send
  <2>6. CASE p.kind = "command"
    <3>1. CommandOf(p) = Steps[p.step].command /\ p.step = h.snapshot.step
      BY <2>3, <2>6 DEF CommandOf, PublicationDue
    <3>2. \A i \in StepIndex : Steps[i].command = CommandOf(p) => i = p.step
      BY <2>4, <3>1, StepsAssumption
    <3>3. CommandOf(p) \notin {"ConfirmOrder", "CancelOrder"}
      BY <2>4, <3>1, StepsAssumption DEF StepCommands
    <3>4. \A j \in 1 .. p.step - 1 : answer[h.order][j] = "success"
      BY <2>3, <3>1 DEF SnapshotTrue
    <3>5. CommandsFollowAnswers'
      <4> SUFFICES ASSUME NEW o \in Orders, NEW i \in StepIndex, sent'[o][Steps[i].command] > 0,
                          NEW j \in 1 .. i - 1
                   PROVE  answer'[o][j] = "success"
        BY DEF CommandsFollowAnswers
      <4>1. CASE o = h.order /\ i = p.step
        BY <2>1, <3>4, <4>1
      <4>2. CASE ~(o = h.order /\ i = p.step)
        <5>1. sent'[o][Steps[i].command] = sent[o][Steps[i].command]
          BY <2>5, <3>2, <4>2, StepFields DEF IInv, TypeOK
        <5> QED
          BY <2>1, <5>1 DEF IInv, CommandsFollowAnswers
      <4> QED
        BY <4>1, <4>2
    <3>6. VerdictJustified'
      BY <2>1, <2>5, <3>3 DEF VerdictJustified, IInv, TypeOK, Commands
    <3> QED BY <3>5, <3>6
  <2>7. CASE p.kind = "compensation"
    <3>1. CommandOf(p) = Steps[p.step].compensation /\ CommandOf(p) # NoCompensation
      BY <2>3, <2>7 DEF CommandOf, PublicationDue
    <3>2. \A i \in StepIndex : Steps[i].command # CommandOf(p)
      BY <2>4, <3>1, StepsAssumption
    <3>3. CommandOf(p) \notin {"ConfirmOrder", "CancelOrder"}
      BY <2>4, <3>1, StepsAssumption DEF CompensationCommands
    <3>4. CommandsFollowAnswers'
      BY <2>1, <2>5, <3>2, StepFields DEF CommandsFollowAnswers, IInv, TypeOK
    <3>5. VerdictJustified'
      BY <2>1, <2>5, <3>3 DEF VerdictJustified, IInv, TypeOK, Commands
    <3> QED BY <3>4, <3>5
  <2> QED
    BY <2>4, <2>6, <2>7
<1>5. ASSUME NEW w \in Workers, Announce(w)
      PROVE  CommandsFollowAnswers' /\ VerdictJustified'
  <2> DEFINE h == handler[w]
             c == IF h.snapshot.status = "COMPLETED" THEN "ConfirmOrder" ELSE "CancelOrder"
  <2>1. h.pc = "announce" /\ h # Idle /\ h \in Handler /\ HandlerTrue(h) /\ answer' = answer
    BY <1>5, BusyPc DEF Announce, IInv, Idle
  <2>2. sent' = [sent EXCEPT ![h.order][c] = @ + 1] /\ h.order \in Orders
    BY <1>5, <2>1 DEF Announce, Send, Handler
  <2>3. h.snapshot \in Snapshot /\ SnapshotTrue(h.order, h.snapshot) /\ Terminal(h.snapshot)
    BY <2>1 DEF HandlerTrue
  <2>4. h.snapshot.step \in StepIndex /\ Len(Steps) \in Nat
    BY <2>3, StepsAssumption DEF Snapshot
  <2>5. c = "ConfirmOrder" => \A i \in StepIndex : answer[h.order][i] = "success"
    BY <2>3, <2>4 DEF SnapshotTrue, StepIndex
  <2>6. c = "CancelOrder" => \E i \in StepIndex : answer[h.order][i] = "failure"
    BY <2>3, <2>4 DEF SnapshotTrue, Terminal
  <2>7. \A i \in StepIndex : Steps[i].command # c
    <3>1. StepCommands \cap {"ConfirmOrder", "CancelOrder"} = {}
      BY StepsAssumption
    <3>2. c \in {"ConfirmOrder", "CancelOrder"} /\ \A i \in StepIndex : Steps[i].command \in StepCommands
      BY DEF StepCommands
    <3> HIDE DEF c
    <3> QED
      BY <3>1, <3>2
  <2>8. c \in {"ConfirmOrder", "CancelOrder"}
    OBVIOUS
  <2> HIDE DEF c, h
  <2>9. CommandsFollowAnswers'
    BY <2>1, <2>2, <2>7, StepFields DEF CommandsFollowAnswers, IInv, TypeOK
  <2>10. VerdictJustified'
    BY <2>1, <2>2, <2>5, <2>6, <2>8 DEF VerdictJustified, IInv, TypeOK, Commands
  <2> QED BY <2>9, <2>10
<1>6. sent' = sent \/ \E w \in Workers : Publish(w) \/ Announce(w)
  BY DEF Next, vars, Worker, Participants, Deliver, Save, Commit, Abandon, Revoke,
         PlaceOrder, AnswerStep, Answer, ConfirmOrder, CancelOrder, Finalize, Duplicate
<1> QED
  BY <1>3, <1>4, <1>5, <1>6

\* A handler's message never changes while it runs, so only a delivery makes a
\* new owner, and only an owner's commit removes a copy: its own.
LEMMA NextOwners ==
    ASSUME IInv, [Next]_vars
    PROVE  OwnersTrue'
<1> DEFINE Kept(w) == /\ handler[w] # Idle /\ handler[w].owner
                      /\ handler[w].order = handler'[w].order
                      /\ handler[w].event = handler'[w].event
<1>1. ASSUME \A w \in Workers : handler'[w] # Idle /\ handler'[w].owner => Kept(w),
             \A w \in Workers : handler'[w] # Idle /\ handler'[w].owner =>
                pending'[handler'[w].order][handler'[w].event] > 0
      PROVE  OwnersTrue'
  BY <1>1 DEF IInv, OwnersTrue, Owner, SamePartition
<1>2. ASSUME \A w \in Workers : handler'[w] # Idle /\ handler'[w].owner => Kept(w),
             \A o \in Orders, e \in EventTypes : pending'[o][e] >= pending[o][e]
      PROVE  OwnersTrue'
  <2>1. \A w \in Workers : Kept(w) => /\ handler[w] \in Handler
                                      /\ pending[handler[w].order][handler[w].event] > 0
    BY BusyHandler DEF IInv, OwnersTrue, Owner
  <2>2. \A w \in Workers : Kept(w) => pending'[handler'[w].order][handler'[w].event] > 0
    BY <1>2, <2>1, NextType DEF Handler, IInv, TypeOK
  <2> QED
    BY <1>1, <1>2, <2>2
<1>3. pending' = pending => \A o \in Orders, e \in EventTypes : pending'[o][e] >= pending[o][e]
  BY DEF IInv, TypeOK
<1>4. \A p \in Orders, f \in EventTypes : Emit(p, f) =>
         \A o \in Orders, e \in EventTypes : pending'[o][e] >= pending[o][e]
  BY DEF Emit, IInv, TypeOK
<1>5. handler' = handler =>
         \A w \in Workers : handler'[w] # Idle /\ handler'[w].owner => Kept(w)
  OBVIOUS
<1>6. ASSUME NEW v \in Workers, NEW o \in Orders, NEW e \in EventTypes, Deliver(v, o, e)
      PROVE  OwnersTrue'
  <2> DEFINE d == Dispatch(o, e, row[o])
  <2>1. d.order = o /\ d.event = e /\ d.owner = TRUE
    BY DEF Dispatch, Ignore, Work, Job
  <2>2. handler' = [handler EXCEPT ![v] = d] /\ pending' = pending
    BY <1>6 DEF Deliver
  <2> HIDE DEF d
  <2>3. \A w \in Workers \ {v} : handler'[w] = handler[w]
    BY <2>2 DEF IInv, TypeOK
  <2>4. handler'[v] = d
    BY <2>2 DEF IInv, TypeOK
  <2>5. ASSUME NEW w \in Workers, handler'[w] # Idle, handler'[w].owner
        PROVE  /\ pending'[handler'[w].order][handler'[w].event] > 0
               /\ \A u \in Workers \ {w} :
                     ~(/\ handler'[u] # Idle /\ handler'[u].owner
                       /\ handler'[u].order = handler'[w].order
                       /\ Topic(handler'[u].event) = Topic(handler'[w].event))
    <3>1. CASE w = v
      BY <1>6, <2>1, <2>2, <2>3, <2>4, <3>1 DEF Deliver, Owner, SamePartition
    <3>2. CASE w # v
      BY <1>6, <2>1, <2>2, <2>3, <2>4, <2>5, <3>2 DEF Deliver, IInv, OwnersTrue, Owner, SamePartition
    <3> QED BY <3>1, <3>2
  <2> QED
    BY <2>5 DEF OwnersTrue, Owner, SamePartition
<1>7. ASSUME NEW v \in Workers, Publish(v) \/ Save(v) \/ Announce(v) \/ Abandon(v) \/ Revoke(v)
      PROVE  OwnersTrue'
  <2>1. \A w \in Workers \ {v} : handler'[w] = handler[w]
    BY <1>7 DEF Publish, Save, Announce, Abandon, Revoke, IInv, TypeOK
  <2>2. handler[v] # Idle /\ handler[v] \in Handler
    <3>1. handler[v].pc # "idle" \/ handler[v] # Idle
      BY <1>7 DEF Publish, Save, Announce, Abandon, Revoke, Owner
    <3> QED
      BY <3>1, BusyPc, BusyHandler DEF Idle, IInv
  <2>3. \/ handler'[v] = Idle
        \/ /\ handler'[v].order = handler[v].order /\ handler'[v].event = handler[v].event
           /\ handler'[v].owner => handler[v].owner
    <3> DEFINE h == handler[v]
    <3>1. ASSUME NEW pc, NEW todo, handler'[v] \in {[h EXCEPT !.pc = pc], [h EXCEPT !.todo = todo, !.pc = pc]}
          PROVE  /\ handler'[v].order = h.order /\ handler'[v].event = h.event
                 /\ handler'[v].owner = h.owner
      BY <2>2, <3>1 DEF Handler
    <3>2. CASE Publish(v)
      BY <3>1, <3>2 DEF Publish, IInv, TypeOK
    <3>3. CASE Save(v) \/ Announce(v)
      <4>1. PICK pc : handler'[v] = [h EXCEPT !.pc = pc]
        BY <3>3 DEF Save, Announce, IInv, TypeOK
      <4> QED
        BY <3>1, <4>1
    <3>4. CASE Abandon(v)
      BY <3>4 DEF Abandon, IInv, TypeOK
    <3>5. CASE Revoke(v)
      <4>1. handler'[v] = [h EXCEPT !.owner = FALSE]
        BY <3>5 DEF Revoke, IInv, TypeOK
      <4> QED BY <2>2, <4>1 DEF Handler
    <3> QED
      BY <1>7, <3>2, <3>3, <3>4, <3>5
  <2>4. pending' = pending
    BY <1>7 DEF Publish, Save, Announce, Abandon, Revoke
  <2> QED
    BY <1>2, <1>3, <2>1, <2>2, <2>3, <2>4
<1>8. ASSUME NEW v \in Workers, Commit(v)
      PROVE  OwnersTrue'
  <2>1. /\ handler'[v] = Idle
        /\ \A w \in Workers \ {v} : handler'[w] = handler[w]
    BY <1>8 DEF Commit, IInv, TypeOK
  <2>2. CASE ~handler[v].owner
    BY <1>2, <1>3, <1>8, <2>1, <2>2 DEF Commit
  <2>3. CASE handler[v].owner
    <3>1. handler[v] # Idle /\ handler[v] \in Handler
      BY <1>8, BusyPc DEF Commit, Idle, IInv
    <3>2. pending' = [pending EXCEPT ![handler[v].order][handler[v].event] = @ - 1]
      BY <1>8, <2>3 DEF Commit
    <3>3. ASSUME NEW w \in Workers \ {v}, handler[w] # Idle, handler[w].owner
          PROVE  pending'[handler[w].order][handler[w].event] > 0
      <4>1. ~(handler[w].order = handler[v].order /\ handler[w].event = handler[v].event)
        BY <2>3, <3>1, <3>3 DEF IInv, OwnersTrue, Owner, SamePartition
      <4>2. pending[handler[w].order][handler[w].event] > 0 /\ handler[w] \in Handler
        BY <3>3, BusyHandler DEF IInv, OwnersTrue, Owner
      <4>3. /\ handler[w].order \in Orders /\ handler[w].event \in EventTypes
            /\ handler[v].order \in Orders /\ handler[v].event \in EventTypes
        BY <3>1, <4>2 DEF Handler
      <4> QED
        BY <3>2, <4>1, <4>2, <4>3 DEF IInv, TypeOK
    <3> QED
      BY <1>1, <2>1, <3>3
  <2> QED BY <2>2, <2>3
<1>9. \/ handler' = handler /\ pending' = pending
      \/ handler' = handler /\ \E o \in Orders, e \in EventTypes : Emit(o, e)
      \/ \E v \in Workers, o \in Orders, e \in EventTypes : Deliver(v, o, e)
      \/ \E v \in Workers : Publish(v) \/ Save(v) \/ Announce(v) \/ Abandon(v) \/ Revoke(v) \/ Commit(v)
  BY StepFields DEF Next, vars, Worker, Participants, PlaceOrder, AnswerStep, Answer, ConfirmOrder,
         CancelOrder, Finalize, Duplicate, EventTypes, OrderEvents
<1> QED
  BY <1>2, <1>3, <1>4, <1>5, <1>6, <1>7, <1>8, <1>9
-----------------------------------------------------------------------------
(***************************************************************************)
(* The theorems.                                                           *)
(***************************************************************************)

LEMMA InitInvariant == Init => IInv
<1> SUFFICES ASSUME Init PROVE IInv
  OBVIOUS
<1>1. TypeOK
  BY InitType
<1>2. OwnersTrue /\ \A w \in Workers : handler[w] # Idle => HandlerTrue(handler[w])
  BY DEF Init, OwnersTrue, Owner
<1>3. \A o \in Orders : row[o] # NoRow => SnapshotTrue(o, row[o])
  BY DEF Init
<1>4. \A o \in Orders : EventsTrue(o)
  BY StepFields DEF Init, EventsTrue
<1>5. CommandsFollowAnswers
  BY StepFields DEF Init, CommandsFollowAnswers
<1>6. VerdictJustified
  BY DEF Init, VerdictJustified, Commands
<1> QED
  BY <1>1, <1>2, <1>3, <1>4, <1>5, <1>6 DEF IInv

\* The invariant behind everything below: persisted and in-flight snapshots,
\* copies of events and publications to come agree with the answers given.
THEOREM Invariant == Spec => []IInv
<1>1. IInv /\ [Next]_vars => IInv'
  BY NextType, NextRows, NextHandlers, NextEvents, NextCommands, NextOwners DEF IInv
<1> QED
  BY InitInvariant, <1>1, PTL DEF Spec

\* Type correctness of the tables, handlers, topics and counters.
THEOREM TypeCorrect == Spec => []TypeOK
<1>1. IInv => TypeOK
  BY DEF IInv
<1> QED
  BY Invariant, <1>1, PTL

\* registry.advance never runs ahead of the participants: a step's command is
\* published only after all earlier steps succeeded.
THEOREM CommandsFollow == Spec => []CommandsFollowAnswers
<1>1. IInv => CommandsFollowAnswers
  BY DEF IInv
<1> QED
  BY Invariant, <1>1, PTL

\* onSagaCompleted / onSagaCompensated speak only of what happened.
THEOREM VerdictIsJustified == Spec => []VerdictJustified
<1>1. IInv => VerdictJustified
  BY DEF IInv
<1> QED
  BY Invariant, <1>1, PTL

\* No crash, rebalance, duplicate or race of replicas makes the orchestrator
\* publish both ConfirmOrder and CancelOrder for one order.
THEOREM OutcomesAreExclusive == Spec => []OutcomesExclusive
<1>1. IInv => OutcomesExclusive
  BY DEF IInv, VerdictJustified, OutcomesExclusive
<1> QED
  BY Invariant, <1>1, PTL
-----------------------------------------------------------------------------
(***************************************************************************)
(* The orchestrator's half of the contract with the services.              *)
(***************************************************************************)

\* What publishing a command means to the service behind step i.
LEMMA SendKeepsContract ==
    ASSUME DistinctCompensations, TypeOK, NEW i \in StepIndex, NEW o \in Orders,
           NEW c \in Commands, Send(o, c), answer' = answer,
           c = Steps[i].compensation => answer[o][i] = "success" \/ c = NoCompensation
    PROVE  [P(i)!Next]_(P(i)!vars)
<1> DEFINE Asked == {x \in Orders : sent[x][Steps[i].command] > 0}
           Undo == {x \in Orders : /\ Steps[i].compensation # NoCompensation
                                   /\ sent[x][Steps[i].compensation] > 0}
           Says == [x \in Orders |-> answer[x][i]]
<1>1. sent' = [sent EXCEPT ![o][c] = @ + 1] /\ sent \in [Orders -> [Commands -> Nat]]
  BY DEF Send, TypeOK
<1>2. /\ sent'[o][c] > 0
      /\ \A x \in Orders, d \in Commands : x # o \/ d # c => sent'[x][d] = sent[x][d]
  BY <1>1
<1>3. Says' = Says
  OBVIOUS
<1>4. /\ Steps[i].command \in Commands
      /\ Steps[i].compensation # NoCompensation => Steps[i].compensation \in Commands
      /\ Steps[i].compensation # Steps[i].command
  BY StepFields, StepsAssumption
<1>5. Asked' = IF c = Steps[i].command THEN Asked \cup {o} ELSE Asked
  BY <1>2, <1>4
<1>6. Undo' = IF c = Steps[i].compensation /\ c # NoCompensation THEN Undo \cup {o} ELSE Undo
  BY <1>2, <1>4
<1>7. CASE c = Steps[i].command
  <2>1. P(i)!Ask(o)
    BY <1>3, <1>4, <1>5, <1>6, <1>7 DEF P!Ask
  <2> QED
    BY <2>1 DEF P!Next
<1>8. CASE c = Steps[i].compensation /\ c # NoCompensation
  <2>1. P(i)!AskUndo(o)
    BY <1>3, <1>4, <1>5, <1>6, <1>8 DEF P!AskUndo
  <2> QED
    BY <2>1 DEF P!Next
<1>9. CASE c # Steps[i].command /\ ~(c = Steps[i].compensation /\ c # NoCompensation)
  BY <1>3, <1>5, <1>6, <1>9 DEF P!vars
<1> QED
  BY <1>7, <1>8, <1>9

LEMMA ContractStep ==
    ASSUME DistinctCompensations, IInv, Next, NEW i \in StepIndex
    PROVE  [P(i)!Next]_(P(i)!vars)
<1>1. CASE sent' = sent /\ answer' = answer
  BY <1>1 DEF P!vars
<1>2. ASSUME NEW w \in Workers, Publish(w) PROVE [P(i)!Next]_(P(i)!vars)
  <2> DEFINE h == handler[w]
  <2>1. h \in Handler /\ HandlerTrue(h) /\ h.pc = "publish" /\ answer' = answer
    BY <1>2, BusyPc DEF Publish, IInv, Idle
  <2>2. PICK p \in h.todo : Send(h.order, CommandOf(p))
    BY <1>2 DEF Publish, NextPublication
  <2>3. /\ PublicationDue(h.order, h.snapshot, p) /\ SnapshotTrue(h.order, h.snapshot)
        /\ p \in Publication /\ h.order \in Orders /\ h.snapshot \in Snapshot
    BY <2>1 DEF HandlerTrue, Handler
  <2>4. p.step \in StepIndex /\ p.kind \in {"command", "compensation"}
    BY <2>3 DEF Publication
  <2>5. p.kind = "compensation" => Steps[p.step].compensation # NoCompensation
    BY <2>3 DEF PublicationDue
  <2>6. CommandOf(p) \in Commands
    BY <2>3, <2>5, CommandOfType
  <2>7. CommandOf(p) = Steps[i].compensation =>
           answer[h.order][i] = "success" \/ CommandOf(p) = NoCompensation
    <3>1. CASE p.kind = "command"
      <4>1. CommandOf(p) = Steps[p.step].command
        BY <3>1 DEF CommandOf
      <4> QED
        BY <2>4, <4>1, StepsAssumption
    <3>2. CASE p.kind = "compensation"
      <4>1. CommandOf(p) = Steps[p.step].compensation /\ p.step < h.snapshot.step
        BY <2>3, <3>2 DEF CommandOf, PublicationDue
      <4>2. CommandOf(p) = Steps[i].compensation /\ CommandOf(p) # NoCompensation => i = p.step
        BY <2>4, <4>1 DEF DistinctCompensations
      <4>3. answer[h.order][p.step] = "success"
        <5>1. p.step \in 1 .. h.snapshot.step - 1
          BY <2>3, <2>4, <4>1 DEF StepIndex, Snapshot
        <5> QED
          BY <2>3, <5>1 DEF SnapshotTrue
      <4> QED
        BY <4>2, <4>3
    <3> QED
      BY <2>4, <3>1, <3>2
  <2> QED
    BY <2>1, <2>2, <2>3, <2>6, <2>7, SendKeepsContract DEF IInv
<1>3. ASSUME NEW w \in Workers, Announce(w) PROVE [P(i)!Next]_(P(i)!vars)
  <2>1. handler[w] \in Handler /\ answer' = answer
    BY <1>3, BusyPc DEF Announce, IInv, Idle
  <2>2. PICK c \in {"ConfirmOrder", "CancelOrder"} : Send(handler[w].order, c)
    BY <1>3 DEF Announce
  <2>3. c \in Commands /\ (c = Steps[i].compensation => c = NoCompensation)
    <3>1. Steps[i].compensation # NoCompensation => Steps[i].compensation \in CompensationCommands
      BY DEF CompensationCommands
    <3> QED
      BY <3>1, StepsAssumption DEF Commands
  <2> QED
    BY <2>1, <2>2, <2>3, SendKeepsContract DEF IInv, Handler
<1>4. ASSUME NEW o \in Orders, NEW j \in StepIndex, AnswerStep(o, j)
      PROVE  [P(i)!Next]_(P(i)!vars)
  <2>1. PICK outcome \in {"success", "failure"} : Answer(o, j, outcome)
    BY <1>4 DEF AnswerStep
  <2>2. /\ sent[o][Steps[j].command] > 0 /\ answer[o][j] = "none" /\ sent' = sent
        /\ answer' = [answer EXCEPT ![o][j] = outcome]
    BY <2>1 DEF Answer
  <2>3. answer \in [Orders -> [StepIndex -> {"none", "success", "failure"}]]
    BY DEF IInv, TypeOK
  <2>4. CASE j = i
    <3>1. [x \in Orders |-> answer[x][i]]' = [[x \in Orders |-> answer[x][i]] EXCEPT ![o] = outcome]
      BY <2>2, <2>3, <2>4
    <3>2. P(i)!Answer(o, outcome)
      BY <2>2, <2>4, <3>1 DEF P!Answer
    <3> QED
      BY <3>2 DEF P!Next
  <2>5. CASE j # i
    <3>1. [x \in Orders |-> answer[x][i]]' = [x \in Orders |-> answer[x][i]]
      BY <2>2, <2>3, <2>5
    <3> QED
      BY <2>2, <3>1 DEF P!vars
  <2> QED
    BY <2>4, <2>5
<1>5. \/ sent' = sent /\ answer' = answer
      \/ \E w \in Workers : Publish(w) \/ Announce(w)
      \/ \E o \in Orders, j \in StepIndex : AnswerStep(o, j)
  BY DEF Next, Worker, Participants, Deliver, Save, Commit, Abandon, Revoke,
         PlaceOrder, ConfirmOrder, CancelOrder, Finalize, Duplicate
<1> QED
  BY <1>1, <1>2, <1>3, <1>4, <1>5

\* The orchestrator uses every service the way Participant assumes, whatever it
\* read too early or too late: a compensation only for a step that succeeded.
THEOREM Contract ==
    ASSUME DistinctCompensations
    PROVE  Spec => ContractKept
<1>1. Init => \A i \in StepIndex : P(i)!Init
  <2> SUFFICES ASSUME Init, NEW i \in StepIndex PROVE P(i)!Init
    OBVIOUS
  <2>1. \A o \in Orders, c \in Commands : sent[o][c] = 0
    BY DEF Init
  <2>2. \A o \in Orders, c \in Commands : ~(sent[o][c] > 0)
    BY <2>1
  <2>3. \A o \in Orders : answer[o][i] = "none"
    BY DEF Init
  <2> QED
    BY <2>2, <2>3, StepFields DEF P!Init
<1>2. IInv /\ [Next]_vars => [\A i \in StepIndex : [P(i)!Next]_(P(i)!vars)]_vars
  BY ContractStep
<1> QED
  BY <1>1, <1>2, Invariant, PTL DEF Spec, ContractKept
-----------------------------------------------------------------------------
(***************************************************************************)
(* Compensations, with any number of replicas.                             *)
(***************************************************************************)

\* A command that went out stays out.
LEMMA SentStays ==
    ASSUME IInv, [Next]_vars, NEW o \in Orders, NEW c \in Commands, sent[o][c] > 0
    PROVE  sent'[o][c] > 0
<1>1. sent \in [Orders -> [Commands -> Nat]]
  BY DEF IInv, TypeOK
<1>2. ASSUME NEW p \in Orders, NEW d, Send(p, d)
      PROVE  sent'[o][c] > 0
  BY <1>1, <1>2 DEF Send
<1>3. ASSUME NEW w \in Workers, Publish(w) \/ Announce(w)
      PROVE  \E p \in Orders : \E d : Send(p, d)
  <2>1. handler[w] \in Handler
    BY <1>3, BusyPc DEF Publish, Announce, IInv
  <2>2. handler[w].order \in Orders
    BY <2>1 DEF Handler
  <2> QED BY <1>3, <2>2 DEF Publish, Announce
<1>4. sent' = sent \/ \E w \in Workers : Publish(w) \/ Announce(w)
  BY DEF Next, vars, Worker, Participants, Deliver, Save, Commit, Abandon, Revoke,
     PlaceOrder, AnswerStep, Answer, ConfirmOrder, CancelOrder, Finalize, Duplicate
<1> QED
  BY <1>2, <1>3, <1>4

\* Commands are not taken back, answers and verdicts follow them.
LEMMA AnswersStayAsked ==
    ASSUME IInv, AnswersAsked, [Next]_vars
    PROVE  AnswersAsked'
<1>1. /\ answer \in [Orders -> [StepIndex -> {"none", "success", "failure"}]]
      /\ order \in [Orders -> {"absent", "CREATED", "CONFIRMED", "CANCELLED"}]
      /\ sent \in [Orders -> [Commands -> Nat]]
      /\ sent' \in [Orders -> [Commands -> Nat]]
  BY NextType DEF IInv, TypeOK
<1>2. \A o \in Orders, c \in Commands : sent[o][c] > 0 => sent'[o][c] > 0
  BY SentStays
<1>3. ASSUME NEW o \in Orders, NEW i \in StepIndex
      PROVE  answer'[o][i] # "none" => sent'[o][Steps[i].command] > 0
  <2>1. Steps[i].command \in Commands
    BY StepFields
  <2>2. answer'[o][i] = answer[o][i] \/ sent[o][Steps[i].command] > 0
    <3>1. ASSUME NEW p \in Orders, NEW j \in StepIndex, AnswerStep(p, j)
          PROVE  answer'[o][i] = answer[o][i] \/ sent[o][Steps[i].command] > 0
      <4>1. PICK outcome \in {"success", "failure"} : Answer(p, j, outcome)
        BY <3>1 DEF AnswerStep
      <4> QED BY <1>1, <4>1 DEF Answer
    <3>2. answer' = answer \/ \E p \in Orders, j \in StepIndex : AnswerStep(p, j)
      BY DEF Next, vars, Worker, Participants, Deliver, Publish, Save, Announce, Commit,
         Abandon, Revoke, PlaceOrder, ConfirmOrder, CancelOrder, Finalize, Duplicate
    <3> QED BY <3>1, <3>2
  <2> QED BY <1>2, <2>1, <2>2 DEF AnswersAsked
<1>4. ASSUME NEW o \in Orders
      PROVE  /\ order'[o] = "CONFIRMED" => sent'[o]["ConfirmOrder"] > 0
             /\ order'[o] = "CANCELLED" => sent'[o]["CancelOrder"] > 0
  <2>1. "ConfirmOrder" \in Commands /\ "CancelOrder" \in Commands
    BY DEF Commands
  <2>2. \/ order'[o] = order[o]
        \/ order'[o] = "CREATED"
        \/ order'[o] = "CONFIRMED" /\ sent[o]["ConfirmOrder"] > 0
        \/ order'[o] = "CANCELLED" /\ sent[o]["CancelOrder"] > 0
    <3>1. ASSUME NEW p \in Orders, PlaceOrder(p) \/ ConfirmOrder(p) \/ CancelOrder(p)
          PROVE  \/ order'[o] = order[o]
                 \/ order'[o] = "CREATED"
                 \/ order'[o] = "CONFIRMED" /\ sent[o]["ConfirmOrder"] > 0
                 \/ order'[o] = "CANCELLED" /\ sent[o]["CancelOrder"] > 0
      BY <1>1, <3>1 DEF PlaceOrder, ConfirmOrder, CancelOrder, Finalize
    <3>2. \/ order' = order
          \/ \E p \in Orders : PlaceOrder(p) \/ ConfirmOrder(p) \/ CancelOrder(p)
      BY DEF Next, vars, Worker, Participants, Deliver, Publish, Save, Announce, Commit,
         Abandon, Revoke, AnswerStep, Answer, Duplicate
    <3> QED BY <3>1, <3>2
  <2> QED BY <1>2, <2>1, <2>2 DEF AnswersAsked
<1> QED
  BY <1>3, <1>4 DEF AnswersAsked

\* What undoes step j, or nothing does.
Undo(j) == [step |-> j, kind |-> "compensation"]

\* A handler that is compensating still has to publish, or somebody has
\* published, the compensation of every step before the failed one.
HandlerCompensates(h) ==
    h.pc = "publish" /\ h.snapshot.status = "COMPENSATING" =>
        \A j \in 1 .. h.snapshot.step - 1 :
            Steps[j].compensation # NoCompensation =>
                Undo(j) \in h.todo \/ sent[h.order][Steps[j].compensation] > 0

CompInv == \A w \in Workers : HandlerCompensates(handler[w])

\* beginCompensation wants everything undone.
LEMMA DispatchCompensates ==
    ASSUME NEW o \in Orders, NEW e \in EventTypes, NEW r \in Snapshot \cup {NoRow},
           Dispatch(o, e, r).pc = "publish",
           Dispatch(o, e, r).snapshot.status = "COMPENSATING",
           NEW j \in 1 .. Dispatch(o, e, r).snapshot.step - 1,
           Steps[j].compensation # NoCompensation
    PROVE  Undo(j) \in Dispatch(o, e, r).todo
<1> DEFINE res == OnEvent(r, e)
<1>1. /\ Dispatch(o, e, r) = Work(o, e, res) /\ r \in Snapshot
      /\ res.publications # {} /\ res.snapshot.status = "COMPENSATING"
      /\ j \in 1 .. res.snapshot.step - 1
  <2>1. Ignore(o, e, r).pc = "commit"
    BY DEF Ignore, Job
  <2>2. \A x : /\ Work(o, e, x).snapshot = x.snapshot
               /\ x.publications = {} => Work(o, e, x).pc = "save"
    BY DEF Work, Job
  <2>3. Work(o, e, Start).snapshot.status # "COMPENSATING"
    BY <2>2, StartType
  <2>4. Dispatch(o, e, r) = Work(o, e, res) /\ r \in Snapshot
    BY <2>1, <2>3 DEF Dispatch
  <2> HIDE DEF res
  <2> QED BY <2>2, <2>4
<1>2. res = BeginCompensation(r)
  <2>1. r.step \in StepIndex
    BY <1>1 DEF Snapshot
  <2>2. CASE e = Steps[r.step].success
    <3>1. res = Advance(r)
      BY <2>2 DEF OnEvent
    <3>2. CASE r.step = Len(Steps)
      BY <1>1, <3>1, <3>2 DEF Advance, Result
    <3>3. CASE r.step # Len(Steps)
      BY <1>1, <3>1, <3>3 DEF Advance, Result
    <3> QED BY <3>2, <3>3
  <2>3. CASE e # Steps[r.step].success /\ e # Steps[r.step].failure
    BY <1>1, <2>3 DEF OnEvent, Result
  <2> QED BY <2>2, <2>3 DEF OnEvent
<1>3. res.snapshot.step = r.step
  <2> DEFINE status == IF StepsToCompensate(r) # {} THEN "COMPENSATING" ELSE "COMPENSATED"
  <2>1. res.snapshot = [r EXCEPT !.status = status, !.history = Record(r, "FAILED")]
    BY <1>2 DEF BeginCompensation, Result
  <2> HIDE DEF res, status
  <2> QED BY <1>1, <2>1 DEF Snapshot
<1>4. res.publications = {Undo(i) : i \in StepsToCompensate(r)}
  BY <1>2 DEF BeginCompensation, Result, Undo
<1>5. j \in StepsToCompensate(r)
  BY <1>1, <1>3 DEF StepsToCompensate
<1>6. Dispatch(o, e, r).todo = res.publications
  BY <1>1 DEF Work, Job
<1> QED
  BY <1>4, <1>5, <1>6

\* What publishing does: the latest publication left goes out.
LEMMA PublishStep ==
    ASSUME IInv, NEW w \in Workers, Publish(w)
    PROVE  \E p \in NextPublication(handler[w].todo) :
              /\ p \in handler[w].todo /\ p \in Publication
              /\ PublicationDue(handler[w].order, handler[w].snapshot, p)
              /\ CommandOf(p) \in Commands /\ handler[w].order \in Orders
              /\ SnapshotTrue(handler[w].order, handler[w].snapshot)
              /\ handler[w].snapshot \in Snapshot
              /\ sent' = [sent EXCEPT ![handler[w].order][CommandOf(p)] = @ + 1]
              /\ handler'[w].order = handler[w].order
              /\ handler'[w].snapshot = handler[w].snapshot
              /\ handler'[w].todo = handler[w].todo \ {p}
              /\ handler'[w].pc = IF handler[w].todo \ {p} = {} THEN "save" ELSE "publish"
<1> DEFINE h == handler[w]
<1>1. h \in Handler /\ HandlerTrue(h) /\ h.pc = "publish"
  BY BusyPc DEF Publish, IInv, Idle
<1>2. PICK p \in NextPublication(h.todo) :
         /\ Send(h.order, CommandOf(p))
         /\ handler' = [handler EXCEPT ![w] =
               [h EXCEPT !.todo = h.todo \ {p},
                         !.pc = IF h.todo \ {p} = {} THEN "save" ELSE "publish"]]
  BY DEF Publish
<1>3. /\ p \in h.todo /\ p \in Publication
      /\ PublicationDue(h.order, h.snapshot, p) /\ SnapshotTrue(h.order, h.snapshot)
  BY <1>1 DEF HandlerTrue, Handler, NextPublication
<1>4. CommandOf(p) \in Commands
  BY <1>3, CommandOfType DEF PublicationDue
<1>5. h.order \in Orders /\ h.snapshot \in Snapshot
  BY <1>1 DEF HandlerTrue, Handler
<1>6. ASSUME NEW pc, handler'[w] = [h EXCEPT !.todo = h.todo \ {p}, !.pc = pc]
      PROVE  /\ handler'[w].order = h.order /\ handler'[w].snapshot = h.snapshot
             /\ handler'[w].todo = h.todo \ {p} /\ handler'[w].pc = pc
  BY <1>1, <1>6 DEF Handler
<1>7. handler'[w] = [h EXCEPT !.todo = h.todo \ {p},
                              !.pc = IF h.todo \ {p} = {} THEN "save" ELSE "publish"]
  BY <1>2 DEF IInv, TypeOK
<1>8. sent' = [sent EXCEPT ![h.order][CommandOf(p)] = @ + 1]
  BY <1>2 DEF Send
<1> QED
  BY <1>2, <1>3, <1>4, <1>5, <1>6, <1>7, <1>8

LEMMA CompStep ==
    ASSUME IInv, CompInv, [Next]_vars
    PROVE  CompInv'
<1>1. ASSUME NEW v \in Workers,
             \/ handler'[v].pc # "publish"
             \/ /\ handler'[v].order = handler[v].order
                /\ handler'[v].snapshot = handler[v].snapshot
                /\ handler'[v].todo = handler[v].todo
                /\ handler'[v].pc = handler[v].pc
      PROVE  HandlerCompensates(handler[v])'
  <2>1. CASE handler'[v].pc # "publish"
    BY <2>1 DEF HandlerCompensates
  <2>2. CASE handler'[v].pc = "publish"
    <3> DEFINE h == handler[v]
    <3>1. /\ h.pc = "publish" /\ h \in Handler /\ h.snapshot \in Snapshot
          /\ handler'[v].order = h.order /\ handler'[v].snapshot = h.snapshot
          /\ handler'[v].todo = h.todo
      <4>1. h.pc = "publish"
        BY <1>1, <2>2
      <4>2. h \in Handler /\ HandlerTrue(h)
        BY <4>1, BusyPc DEF IInv, Idle
      <4> QED BY <1>1, <2>2, <4>1, <4>2 DEF HandlerTrue
    <3>2. ASSUME NEW j \in 1 .. h.snapshot.step - 1, Steps[j].compensation # NoCompensation,
                 sent[h.order][Steps[j].compensation] > 0
          PROVE  sent'[h.order][Steps[j].compensation] > 0
      <4>1. j \in StepIndex
        BY <3>1 DEF Snapshot, StepIndex
      <4>2. Steps[j].compensation \in Commands
        BY <3>2, <4>1, StepFields
      <4>3. h.order \in Orders
        BY <3>1 DEF Handler
      <4> QED BY <3>2, <4>2, <4>3, SentStays
    <3>3. HandlerCompensates(h)
      BY DEF CompInv
    <3> HIDE DEF h
    <3> QED BY <3>1, <3>2, <3>3 DEF HandlerCompensates
  <2> QED BY <2>1, <2>2
<1>2. ASSUME NEW w \in Workers, NEW v \in Workers \ {w}, handler'[v] = handler[v]
      PROVE  HandlerCompensates(handler[v])'
  BY <1>1, <1>2
<1>3. ASSUME NEW w \in Workers, NEW o \in Orders, NEW e \in EventTypes, Deliver(w, o, e)
      PROVE  CompInv'
  <2>1. /\ handler'[w] = Dispatch(o, e, row[o]) /\ row[o] \in Snapshot \cup {NoRow}
        /\ \A v \in Workers \ {w} : handler'[v] = handler[v]
    BY <1>3 DEF Deliver, IInv, TypeOK
  <2>2. HandlerCompensates(handler[w])'
    BY <2>1, DispatchCompensates DEF HandlerCompensates
  <2> QED BY <1>2, <2>1, <2>2 DEF CompInv
<1>4. ASSUME NEW w \in Workers, Publish(w)
      PROVE  CompInv'
  <2> DEFINE h == handler[w]
  <2>1. PICK p \in NextPublication(h.todo) :
           /\ p \in h.todo /\ p \in Publication
           /\ PublicationDue(h.order, h.snapshot, p)
           /\ CommandOf(p) \in Commands /\ h.order \in Orders
           /\ h.snapshot \in Snapshot
           /\ sent' = [sent EXCEPT ![h.order][CommandOf(p)] = @ + 1]
           /\ handler'[w].order = h.order
           /\ handler'[w].snapshot = h.snapshot
           /\ handler'[w].todo = h.todo \ {p}
    BY <1>4, PublishStep
  <2>2. h.pc = "publish" /\ \A v \in Workers \ {w} : handler'[v] = handler[v]
    BY <1>4 DEF Publish, IInv, TypeOK
  <2>3. sent'[h.order][CommandOf(p)] > 0
    BY <2>1 DEF IInv, TypeOK
  <2>4. ASSUME h.snapshot.status = "COMPENSATING", NEW j \in 1 .. h.snapshot.step - 1,
               Steps[j].compensation # NoCompensation
        PROVE  Undo(j) \in h.todo \ {p} \/ sent'[h.order][Steps[j].compensation] > 0
    <3>1. Undo(j) \in h.todo \/ sent[h.order][Steps[j].compensation] > 0
      BY <2>2, <2>4 DEF CompInv, HandlerCompensates
    <3>2. CASE Undo(j) = p
      <4>1. CommandOf(p) = Steps[j].compensation
        BY <3>2 DEF Undo, CommandOf
      <4> QED BY <2>3, <4>1
    <3>3. CASE sent[h.order][Steps[j].compensation] > 0
      <4>1. j \in StepIndex
        BY <2>1, <2>4 DEF Snapshot, StepIndex
      <4>2. Steps[j].compensation \in Commands
        BY <2>4, <4>1, StepFields
      <4> QED BY <2>1, <3>3, <4>2, SentStays
    <3> QED BY <3>1, <3>2, <3>3
  <2> HIDE DEF h
  <2>5. HandlerCompensates(handler[w])'
    BY <2>1, <2>4 DEF HandlerCompensates
  <2> QED BY <1>2, <2>2, <2>5 DEF CompInv
<1>5. ASSUME NEW w \in Workers, Save(w) \/ Announce(w) \/ Commit(w) \/ Abandon(w)
      PROVE  CompInv'
  <2>1. \A v \in Workers \ {w} : handler'[v] = handler[v]
    BY <1>5 DEF Save, Announce, Commit, Abandon, IInv, TypeOK
  <2>2. handler'[w].pc # "publish"
    <3>1. CASE Commit(w) \/ Abandon(w)
      BY <3>1 DEF Commit, Abandon, Idle, IInv, TypeOK
    <3>2. CASE Save(w) \/ Announce(w)
      <4>1. handler[w] \in Handler
        BY <3>2, BusyPc DEF Save, Announce, IInv
      <4>2. PICK pc \in {"announce", "commit"} : handler'[w] = [handler[w] EXCEPT !.pc = pc]
        BY <3>2 DEF Save, Announce, IInv, TypeOK
      <4> QED BY <4>1, <4>2 DEF Handler
    <3> QED BY <1>5, <3>1, <3>2
  <2> QED BY <1>1, <1>2, <2>1, <2>2 DEF CompInv
<1>6. ASSUME NEW w \in Workers, Revoke(w)
      PROVE  CompInv'
  <2>1. handler[w] \in Handler /\ handler'[w] = [handler[w] EXCEPT !.owner = FALSE]
    BY <1>6, BusyHandler DEF Revoke, Owner, IInv, TypeOK
  <2>2. /\ handler'[w].order = handler[w].order /\ handler'[w].snapshot = handler[w].snapshot
        /\ handler'[w].todo = handler[w].todo /\ handler'[w].pc = handler[w].pc
    BY <2>1 DEF Handler
  <2>3. \A v \in Workers \ {w} : handler'[v] = handler[v]
    BY <1>6 DEF Revoke, IInv, TypeOK
  <2> QED BY <1>1, <1>2, <2>2, <2>3 DEF CompInv
<1>7. CASE handler' = handler
  BY <1>1, <1>7 DEF CompInv
<1>8. \/ handler' = handler
      \/ \E w \in Workers, o \in Orders, e \in EventTypes : Deliver(w, o, e)
      \/ \E w \in Workers : \/ Publish(w) \/ Save(w) \/ Announce(w)
                            \/ Commit(w) \/ Abandon(w) \/ Revoke(w)
  BY DEF Next, vars, Worker, Participants, PlaceOrder, AnswerStep, Answer, ConfirmOrder,
         CancelOrder, Finalize, Duplicate
<1> QED
  BY <1>3, <1>4, <1>5, <1>6, <1>7, <1>8

LEMMA CompInit == Init => CompInv
BY DEF Init, CompInv, HandlerCompensates, Idle

\* What CompensationsJustified says of a step whose compensation went out.
Justified(o, i) ==
    /\ answer[o][i] = "success"
    /\ \E k \in i + 1 .. Len(Steps) :
          /\ answer[o][k] = "failure"
          /\ \A j \in i + 1 .. k - 1 :
                Steps[j].compensation # NoCompensation => sent[o][Steps[j].compensation] > 0

LEMMA JustifiedStays ==
    ASSUME IInv, [Next]_vars, NEW o \in Orders, NEW i \in StepIndex, Justified(o, i)
    PROVE  Justified(o, i)'
<1>1. AnswersKept
  BY NextKeepsAnswers DEF IInv
<1>2. PICK k \in i + 1 .. Len(Steps) :
         /\ answer[o][k] = "failure"
         /\ \A j \in i + 1 .. k - 1 :
               Steps[j].compensation # NoCompensation => sent[o][Steps[j].compensation] > 0
  BY DEF Justified
<1>3. Len(Steps) \in Nat /\ k \in StepIndex /\ \A j \in i + 1 .. k - 1 : j \in StepIndex
  BY <1>2, StepsAssumption DEF StepIndex
<1>4. answer'[o][i] = "success" /\ answer'[o][k] = "failure"
  <2>1. answer[o][i] = "success"
    BY DEF Justified
  <2> QED BY <1>1, <1>2, <1>3, <2>1 DEF AnswersKept
<1>5. ASSUME NEW j \in i + 1 .. k - 1, Steps[j].compensation # NoCompensation
      PROVE  sent'[o][Steps[j].compensation] > 0
  <2>1. j \in StepIndex /\ sent[o][Steps[j].compensation] > 0
    BY <1>2, <1>3, <1>5
  <2>2. Steps[j].compensation \in Commands
    BY <1>5, <2>1, StepFields
  <2> QED BY <2>1, <2>2, SentStays
<1> QED
  BY <1>4, <1>5 DEF Justified

\* The compensation of step i goes out when those of the later steps have.
LEMMA PublishJustified ==
    ASSUME DistinctCompensations, IInv, CompInv, [Next]_vars,
           NEW w \in Workers, Publish(w), NEW o \in Orders, NEW i \in StepIndex,
           Steps[i].compensation # NoCompensation,
           ~(sent[o][Steps[i].compensation] > 0), sent'[o][Steps[i].compensation] > 0
    PROVE  Justified(o, i)
<1> DEFINE h == handler[w]
<1>1. PICK p \in NextPublication(h.todo) :
         /\ p \in h.todo /\ p \in Publication
         /\ PublicationDue(h.order, h.snapshot, p)
         /\ CommandOf(p) \in Commands /\ h.order \in Orders
         /\ SnapshotTrue(h.order, h.snapshot) /\ h.snapshot \in Snapshot
         /\ sent' = [sent EXCEPT ![h.order][CommandOf(p)] = @ + 1]
  BY PublishStep
<1>2. h.order = o /\ CommandOf(p) = Steps[i].compensation
  BY <1>1 DEF IInv, TypeOK
<1>3. p.step \in StepIndex /\ p.kind \in {"command", "compensation"}
  BY <1>1 DEF Publication
<1>4. p.kind = "compensation"
  <2>1. p.kind = "command" => CommandOf(p) = Steps[p.step].command
    BY DEF CommandOf
  <2> QED BY <1>2, <1>3, <2>1, StepsAssumption
<1>5. p.step = i
  <2>1. Steps[p.step].compensation = Steps[i].compensation
    BY <1>2, <1>4 DEF CommandOf
  <2> QED BY <1>3, <2>1 DEF DistinctCompensations
<1> DEFINE k == h.snapshot.step
<1>6. i < k /\ h.snapshot.status = "COMPENSATING" /\ k \in StepIndex
  BY <1>1, <1>4, <1>5 DEF PublicationDue, Snapshot
<1>7. answer[o][i] = "success" /\ answer[o][k] = "failure"
  <2>1. i \in 1 .. k - 1
    BY <1>6 DEF StepIndex
  <2> QED BY <1>1, <1>2, <1>6, <2>1 DEF SnapshotTrue
<1>8. ASSUME NEW j \in i + 1 .. k - 1, Steps[j].compensation # NoCompensation
      PROVE  sent[o][Steps[j].compensation] > 0
  <2>1. j \in 1 .. k - 1 /\ j > i
    BY <1>6 DEF StepIndex
  <2>2. Undo(j) \notin h.todo
    <3>1. Undo(j).step = j
      BY DEF Undo
    <3>2. \A q \in h.todo : q.step <= p.step
      BY <1>1 DEF NextPublication
    <3> QED BY <1>5, <2>1, <3>1, <3>2 DEF StepIndex
  <2>3. h.pc = "publish"
    BY DEF Publish
  <2> QED BY <1>2, <1>6, <1>8, <2>1, <2>2, <2>3 DEF CompInv, HandlerCompensates
<1>9. k \in i + 1 .. Len(Steps)
  BY <1>6, StepsAssumption DEF StepIndex
<1> HIDE DEF k
<1> QED
  BY <1>7, <1>8, <1>9 DEF Justified

LEMMA JustifiedStep ==
    ASSUME DistinctCompensations, IInv, CompInv, CompensationsJustified, [Next]_vars
    PROVE  CompensationsJustified'
<1> SUFFICES ASSUME NEW o \in Orders, NEW i \in StepIndex,
                    Steps[i].compensation # NoCompensation,
                    sent'[o][Steps[i].compensation] > 0
             PROVE  Justified(o, i)'
  BY DEF CompensationsJustified, Justified
<1>1. CASE sent[o][Steps[i].compensation] > 0
  <2>1. Justified(o, i)
    BY <1>1 DEF CompensationsJustified, Justified
  <2> QED BY <2>1, JustifiedStays
<1>2. CASE ~(sent[o][Steps[i].compensation] > 0)
  <2>1. ASSUME NEW w \in Workers, Announce(w) PROVE FALSE
    <3>1. PICK c \in {"ConfirmOrder", "CancelOrder"} :
             sent' = [sent EXCEPT ![handler[w].order][c] = @ + 1]
      BY <2>1 DEF Announce, Send
    <3>2. Steps[i].compensation \in Commands /\ c # Steps[i].compensation
      <4>1. Steps[i].compensation \in CompensationCommands
        BY DEF CompensationCommands
      <4> QED BY <4>1, StepsAssumption DEF Commands
    <3>3. sent'[o][Steps[i].compensation] = sent[o][Steps[i].compensation]
      BY <3>1, <3>2 DEF IInv, TypeOK
    <3> QED BY <1>2, <3>3
  <2>2. PICK w \in Workers : Publish(w)
    <3>1. sent' = sent \/ \E w \in Workers : Publish(w) \/ Announce(w)
      BY DEF Next, vars, Worker, Participants, Deliver, Save, Commit, Abandon, Revoke,
         PlaceOrder, AnswerStep, Answer, ConfirmOrder, CancelOrder, Finalize, Duplicate
    <3> QED BY <1>2, <2>1, <3>1
  <2>3. Justified(o, i)
    BY <1>2, <2>2, PublishJustified
  <2> QED BY <2>3, JustifiedStays
<1> QED
  BY <1>1, <1>2

\* However many replicas start to compensate, and wherever they stop, no step is
\* undone before the later ones, or without a failure after it.
THEOREM CompensationsAreJustified ==
    ASSUME DistinctCompensations
    PROVE  Spec => []CompensationsJustified
<1>1. Init => CompensationsJustified
  <2> SUFFICES ASSUME Init, NEW o \in Orders, NEW i \in StepIndex,
                      Steps[i].compensation # NoCompensation
               PROVE  ~(sent[o][Steps[i].compensation] > 0)
    BY DEF CompensationsJustified
  <2>1. Steps[i].compensation \in Commands
    BY StepFields
  <2> QED BY <2>1 DEF Init
<1>2. IInv /\ CompInv /\ CompensationsJustified /\ [Next]_vars
         => CompInv' /\ CompensationsJustified'
  BY CompStep, JustifiedStep
<1> QED
  BY <1>1, <1>2, CompInit, Invariant, PTL DEF Spec
-----------------------------------------------------------------------------
(***************************************************************************)
(* One replica, as in docker-compose: whatever fails or is redelivered, a  *)
(* row moves forward and one verdict at most is published.  What a handler *)
(* read it finds again when it saves, because no other one runs; nothing   *)
(* of it holds with two.                                                   *)
(***************************************************************************)

SoleWorker == \A v, w \in Workers : v = w

\* No verdict is out before the terminal row is saved, or between its save and
\* the announcement; the row a handler is about to save has not ended and is
\* not ahead of its snapshot.
SoleInv ==
    /\ \A o \in Orders : ~Terminal(row[o]) => sent[o]["ConfirmOrder"] + sent[o]["CancelOrder"] = 0
    /\ VerdictSentOnce
    /\ \A w \in Workers :
          LET h == handler[w]
          IN  /\ h.pc \in {"publish", "save"} =>
                    /\ ~Terminal(row[h.order])
                    /\ Progress(h.snapshot) >= Progress(row[h.order])
              /\ h.pc = "announce" =>
                    /\ Terminal(row[h.order])
                    /\ sent[h.order]["ConfirmOrder"] + sent[h.order]["CancelOrder"] = 0

\* No row is no snapshot, and no saga that has ended.
LEMMA NoRowFacts ==
    /\ ~Terminal(NoRow)
    /\ \A s \in Snapshot : s # NoRow
<1>1. NoRow.status \notin SagaStatus
  BY Zenon DEF NoRow, SagaStatus
<1>2. \A s \in Snapshot : s.status \in SagaStatus
  BY DEF Snapshot
<1> QED
  BY <1>1, <1>2 DEF Terminal, SagaStatus

\* The engine never moves a saga back.
LEMMA OnEventProgress ==
    ASSUME NEW s \in Snapshot, NEW e
    PROVE  Progress(OnEvent(s, e).snapshot) >= Progress(s)
<1> DEFINE t == OnEvent(s, e).snapshot
<1>1. s # NoRow /\ t # NoRow /\ s.step \in Nat /\ t.step \in Nat
  <2>1. s # NoRow /\ t \in Snapshot /\ t # NoRow
    BY OnEventType, NoRowFacts
  <2> HIDE DEF t
  <2> QED BY <2>1 DEF Snapshot, StepIndex
<1>2. t = s \/ t.step = s.step + 1 \/ (t.step = s.step /\ t.status # "IN_PROGRESS")
  <2>1. CASE e = Steps[s.step].success
    <3>1. OnEvent(s, e) = Advance(s)
      BY <2>1 DEF OnEvent
    <3>2. CASE s.step = Len(Steps)
      <4>1. t = [s EXCEPT !.status = "COMPLETED", !.history = Record(s, "SUCCEEDED")]
        BY <3>1, <3>2 DEF Advance, Result
      <4> HIDE DEF t
      <4>2. t.step = s.step /\ t.status = "COMPLETED"
        BY <4>1 DEF Snapshot
      <4> QED BY <4>2
    <3>3. CASE s.step # Len(Steps)
      BY <3>1, <3>3 DEF Advance, Result
    <3> QED BY <3>2, <3>3
  <2>2. CASE e # Steps[s.step].success /\ e = Steps[s.step].failure
    <3> DEFINE status == IF StepsToCompensate(s) # {} THEN "COMPENSATING" ELSE "COMPENSATED"
    <3>1. t = [s EXCEPT !.status = status, !.history = Record(s, "FAILED")]
      BY <2>2 DEF OnEvent, BeginCompensation, Result
    <3>2. status # "IN_PROGRESS"
      OBVIOUS
    <3> HIDE DEF t, status
    <3> QED BY <3>1, <3>2 DEF Snapshot
  <2>3. CASE e # Steps[s.step].success /\ e # Steps[s.step].failure
    BY <2>3 DEF OnEvent, Result
  <2> QED BY <2>1, <2>2, <2>3
<1> HIDE DEF t
<1>3. t = s => Progress(t) >= Progress(s)
  BY <1>1 DEF Progress
<1>4. t.step = s.step + 1 => Progress(t) >= Progress(s)
  BY <1>1 DEF Progress
<1>5. t.step = s.step /\ t.status # "IN_PROGRESS" => Progress(t) >= Progress(s)
  BY <1>1 DEF Progress
<1> QED
  BY <1>2, <1>3, <1>4, <1>5 DEF t

\* What a handler has to do, if more than a commit, is about a row that has not
\* ended and takes it no step back.
LEMMA DispatchSole ==
    ASSUME NEW o \in Orders, NEW e \in EventTypes, NEW r \in Snapshot \cup {NoRow},
           Dispatch(o, e, r).pc # "commit"
    PROVE  /\ Dispatch(o, e, r).pc \in {"publish", "save"}
           /\ Dispatch(o, e, r).order = o
           /\ ~Terminal(r)
           /\ Progress(Dispatch(o, e, r).snapshot) >= Progress(r)
<1>1. Ignore(o, e, r).pc = "commit"
  BY DEF Ignore, Job
<1>2. \A result : /\ Work(o, e, result).pc \in {"publish", "save"}
                  /\ Work(o, e, result).order = o
                  /\ Work(o, e, result).snapshot = result.snapshot
  BY DEF Work, Job
<1>3. CASE r = NoRow /\ Dispatch(o, e, r) = Work(o, e, Start)
  <2>1. Progress(r) = 0 /\ ~Terminal(r)
    BY <1>3, NoRowFacts DEF Progress
  <2>2. Progress(Start.snapshot) = 2
    BY StartType, NoRowFacts DEF Progress
  <2> QED BY <1>2, <1>3, <2>1, <2>2
<1>4. CASE r # NoRow /\ ~Terminal(r) /\ Dispatch(o, e, r) = Work(o, e, OnEvent(r, e))
  <2>1. Progress(OnEvent(r, e).snapshot) >= Progress(r)
    BY <1>4, OnEventProgress
  <2> QED BY <1>2, <1>4, <2>1
<1> QED
  BY <1>1, <1>3, <1>4 DEF Dispatch

\* A verdict is neither a step's command nor a compensation.
LEMMA NoVerdictPublished ==
    ASSUME IInv, NEW w \in Workers, Publish(w)
    PROVE  /\ \A o \in Orders : /\ sent'[o]["ConfirmOrder"] = sent[o]["ConfirmOrder"]
                                /\ sent'[o]["CancelOrder"] = sent[o]["CancelOrder"]
           /\ handler'[w].order = handler[w].order
           /\ handler'[w].snapshot = handler[w].snapshot
           /\ handler'[w].pc \in {"publish", "save"}
<1> DEFINE h == handler[w]
<1>1. h \in Handler /\ HandlerTrue(h) /\ h.pc = "publish"
  BY BusyPc DEF Publish, IInv, Idle
<1>2. PICK p \in h.todo :
         /\ Send(h.order, CommandOf(p))
         /\ handler' = [handler EXCEPT ![w] =
               [h EXCEPT !.todo = h.todo \ {p},
                         !.pc = IF h.todo \ {p} = {} THEN "save" ELSE "publish"]]
  BY DEF Publish, NextPublication
<1>3. p \in Publication /\ PublicationDue(h.order, h.snapshot, p)
  BY <1>1 DEF HandlerTrue, Handler
<1>4. p.step \in StepIndex /\ p.kind \in {"command", "compensation"}
  BY <1>3 DEF Publication
<1>5. p.kind # "command" => Steps[p.step].compensation # NoCompensation
  BY <1>3 DEF PublicationDue
<1>6. CommandOf(p) \in StepCommands \cup CompensationCommands
  BY <1>4, <1>5 DEF CommandOf, StepCommands, CompensationCommands
<1>7. CommandOf(p) \notin {"ConfirmOrder", "CancelOrder"}
  BY <1>6, StepsAssumption
<1>8. \A o \in Orders, c \in {"ConfirmOrder", "CancelOrder"} : sent'[o][c] = sent[o][c]
  <2>1. sent \in [Orders -> [Commands -> Nat]]
    BY DEF IInv, TypeOK
  <2>2. sent' = [sent EXCEPT ![h.order][CommandOf(p)] = @ + 1]
    BY <1>2 DEF Send
  <2> QED BY <1>7, <2>1, <2>2 DEF Commands
<1>9. ASSUME NEW pc \in {"publish", "save"}, NEW todo,
             handler'[w] = [h EXCEPT !.todo = todo, !.pc = pc]
      PROVE  /\ handler'[w].order = h.order /\ handler'[w].snapshot = h.snapshot
             /\ handler'[w].pc \in {"publish", "save"}
  BY <1>1, <1>9 DEF Handler
<1>10. handler'[w] = [h EXCEPT !.todo = h.todo \ {p},
                               !.pc = IF h.todo \ {p} = {} THEN "save" ELSE "publish"]
  BY <1>2 DEF IInv, TypeOK
<1> QED
  BY <1>8, <1>9, <1>10

LEMMA SoleInit == Init => SoleInv
<1> SUFFICES ASSUME Init PROVE SoleInv
  OBVIOUS
<1>1. \A o \in Orders : sent[o]["ConfirmOrder"] = 0 /\ sent[o]["CancelOrder"] = 0
  BY DEF Init, Commands
<1>2. \A w \in Workers : handler[w].pc = "idle"
  BY DEF Init, Idle
<1> QED
  BY <1>1, <1>2 DEF SoleInv, VerdictSentOnce

\* Verdicts are where they were and the sole handler stays where it was.
LEMMA SoleStutter ==
    ASSUME IInv, SoleInv, row' = row, sent' = sent,
           \A w \in Workers : \/ handler'[w].pc \in {"idle", "commit"}
                              \/ /\ handler'[w].pc = handler[w].pc
                                 /\ handler'[w].order = handler[w].order
                                 /\ handler'[w].snapshot = handler[w].snapshot
    PROVE  SoleInv'
BY DEF SoleInv, VerdictSentOnce

LEMMA SoleStep ==
    ASSUME SoleWorker, IInv, SoleInv, [Next]_vars
    PROVE  SoleInv'
<1> DEFINE V(o) == sent[o]["ConfirmOrder"] + sent[o]["CancelOrder"]
<1>0. sent \in [Orders -> [Commands -> Nat]] /\ row \in [Orders -> Snapshot \cup {NoRow}]
  BY DEF IInv, TypeOK
<1>1. ASSUME NEW w \in Workers, NEW o \in Orders, NEW e \in EventTypes, Deliver(w, o, e)
      PROVE  SoleInv'
  <2>1. row' = row /\ sent' = sent /\ handler'[w] = Dispatch(o, e, row[o])
    BY <1>1 DEF Deliver, IInv, TypeOK
  <2>2. \A v \in Workers : handler'[v] = Dispatch(o, e, row[o])
    BY <2>1 DEF SoleWorker
  <2>3. row[o] \in Snapshot \cup {NoRow}
    BY <1>0
  <2>4. \/ Dispatch(o, e, row[o]).pc = "commit"
        \/ /\ Dispatch(o, e, row[o]).pc \in {"publish", "save"}
           /\ Dispatch(o, e, row[o]).order = o
           /\ ~Terminal(row[o])
           /\ Progress(Dispatch(o, e, row[o]).snapshot) >= Progress(row[o])
    BY <2>3, DispatchSole
  <2> QED
    BY <2>1, <2>2, <2>4 DEF SoleInv, VerdictSentOnce
<1>2. ASSUME NEW w \in Workers, Publish(w)
      PROVE  SoleInv'
  <2>1. /\ row' = row /\ handler[w].pc = "publish"
        /\ \A v \in Workers : v = w
    BY <1>2 DEF Publish, SoleWorker
  <2>2. handler[w] \in Handler
    BY <2>1, BusyPc DEF IInv
  <2> QED
    BY <1>2, <2>1, <2>2, NoVerdictPublished DEF SoleInv, VerdictSentOnce, Handler
<1>3. ASSUME NEW w \in Workers, Save(w)
      PROVE  SoleInv'
  <2> DEFINE h == handler[w]
  <2>1. h \in Handler /\ h.pc = "save" /\ \A v \in Workers : v = w
    BY <1>3, BusyPc DEF Save, IInv, SoleWorker
  <2>2. h.order \in Orders /\ ~Terminal(row[h.order]) /\ V(h.order) = 0
    BY <2>1 DEF SoleInv, Handler
  <2>3. row' = [row EXCEPT ![h.order] = h.snapshot] /\ sent' = sent
    BY <1>3 DEF Save
  <2>4. \A o \in Orders : row'[o] = IF o = h.order THEN h.snapshot ELSE row[o]
    BY <1>0, <2>3
  <2>5. /\ handler'[w].order = h.order
        /\ handler'[w].pc = IF Terminal(h.snapshot) THEN "announce" ELSE "commit"
    <3> DEFINE next == IF Terminal(h.snapshot) THEN "announce" ELSE "commit"
    <3>1. handler'[w] = [h EXCEPT !.pc = next]
      BY <1>3 DEF Save, IInv, TypeOK
    <3> HIDE DEF next, h
    <3>2. handler'[w].order = h.order /\ handler'[w].pc = next
      BY <2>1, <3>1 DEF Handler
    <3> QED BY <3>2 DEF next
  <2>6. \A o \in Orders : ~Terminal(row'[o]) => V(o) = 0
    BY <2>2, <2>4 DEF SoleInv
  <2>7. Terminal(h.snapshot) => Terminal(row'[h.order]) /\ V(h.order) = 0
    BY <2>2, <2>4
  <2> HIDE DEF h
  <2>8. \A v \in Workers : handler'[v].pc # "commit" =>
           /\ handler'[v].pc = "announce" /\ handler'[v].order = h.order /\ Terminal(h.snapshot)
    BY <2>1, <2>5
  <2> QED
    BY <2>3, <2>6, <2>7, <2>8 DEF SoleInv, VerdictSentOnce
<1>4. ASSUME NEW w \in Workers, Announce(w)
      PROVE  SoleInv'
  <2> DEFINE h == handler[w]
  <2>1. h \in Handler /\ h.pc = "announce" /\ row' = row /\ \A v \in Workers : v = w
    BY <1>4, BusyPc DEF Announce, IInv, SoleWorker
  <2>2. h.order \in Orders /\ Terminal(row[h.order]) /\ V(h.order) = 0
    BY <2>1 DEF SoleInv, Handler
  <2>3. PICK c \in {"ConfirmOrder", "CancelOrder"} : sent' = [sent EXCEPT ![h.order][c] = @ + 1]
    BY <1>4 DEF Announce, Send
  <2>4. c \in Commands /\ "ConfirmOrder" \in Commands /\ "CancelOrder" \in Commands
    BY DEF Commands
  <2> DEFINE V2(o) == sent'[o]["ConfirmOrder"] + sent'[o]["CancelOrder"]
  <2>5. handler'[w].pc = "commit"
    BY <1>4, <2>1 DEF Announce, Handler, IInv, TypeOK
  <2> HIDE DEF h
  <2>6. \A o \in Orders : o # h.order => V2(o) = V(o)
    BY <1>0, <2>3
  <2>7. V2(h.order) = 1
    <3>1. sent[h.order]["ConfirmOrder"] \in Nat /\ sent[h.order]["CancelOrder"] \in Nat
      BY <1>0, <2>2, <2>4
    <3>2. sent[h.order]["ConfirmOrder"] = 0 /\ sent[h.order]["CancelOrder"] = 0
      BY <2>2, <3>1
    <3>3. sent'[h.order] = [sent[h.order] EXCEPT ![c] = 1]
      BY <1>0, <2>2, <2>3, <2>4, <3>2
    <3>4. sent[h.order] \in [Commands -> Nat]
      BY <1>0, <2>2
    <3> QED BY <2>4, <3>2, <3>3, <3>4
  <2>8. \A v \in Workers : handler'[v].pc = "commit"
    BY <2>1, <2>5
  <2> HIDE DEF V, V2
  <2>9. \A o \in Orders : ~Terminal(row'[o]) => V2(o) = 0
    BY <2>1, <2>2, <2>6 DEF SoleInv, V
  <2>10. \A o \in Orders : V2(o) <= 1
    BY <2>6, <2>7 DEF SoleInv, VerdictSentOnce, V
  <2> QED
    BY <2>8, <2>9, <2>10 DEF SoleInv, VerdictSentOnce, V2
<1>5. ASSUME NEW w \in Workers, Commit(w) \/ Abandon(w)
      PROVE  SoleInv'
  <2>1. row' = row /\ sent' = sent /\ handler'[w] = Idle
    BY <1>5 DEF Commit, Abandon, IInv, TypeOK
  <2>2. \A v \in Workers : handler'[v].pc = "idle"
    BY <2>1 DEF SoleWorker, Idle
  <2> QED BY <2>1, <2>2, SoleStutter
<1>6. ASSUME NEW w \in Workers, Revoke(w)
      PROVE  SoleInv'
  <2>1. handler[w] \in Handler /\ row' = row /\ sent' = sent /\ \A v \in Workers : v = w
    BY <1>6, BusyHandler DEF Revoke, Owner, IInv, SoleWorker
  <2>2. handler'[w] = [handler[w] EXCEPT !.owner = FALSE]
    BY <1>6 DEF Revoke, IInv, TypeOK
  <2>3. /\ handler'[w].pc = handler[w].pc /\ handler'[w].order = handler[w].order
        /\ handler'[w].snapshot = handler[w].snapshot
    BY <2>1, <2>2 DEF Handler
  <2> QED BY <2>1, <2>3, SoleStutter
<1>7. CASE row' = row /\ sent' = sent /\ handler' = handler
  BY <1>7, SoleStutter
<1>8. \/ row' = row /\ sent' = sent /\ handler' = handler
      \/ \E w \in Workers, o \in Orders, e \in EventTypes : Deliver(w, o, e)
      \/ \E w \in Workers : \/ Publish(w) \/ Save(w) \/ Announce(w)
                            \/ Commit(w) \/ Abandon(w) \/ Revoke(w)
  BY DEF Next, vars, Worker, Participants, PlaceOrder, AnswerStep, Answer, ConfirmOrder,
         CancelOrder, Finalize, Duplicate
<1> QED
  BY <1>1, <1>2, <1>3, <1>4, <1>5, <1>6, <1>7, <1>8

\* A redelivered event finds the terminal row and stops there: the order-service
\* is told the verdict once, or never if the process died in between.
THEOREM VerdictIsSentOnce ==
    ASSUME SoleWorker
    PROVE  Spec => []VerdictSentOnce
<1>1. IInv /\ SoleInv /\ [Next]_vars => SoleInv'
  BY SoleStep
<1>2. SoleInv => VerdictSentOnce
  BY DEF SoleInv
<1> QED
  BY <1>1, <1>2, SoleInit, Invariant, PTL DEF Spec

\* Whoever saves, saves a snapshot at least as far as the row it replaces.
LEMMA RowForward ==
    ASSUME IInv, SoleInv, [Next]_vars, NEW o \in Orders
    PROVE  /\ Progress(row[o]) \in Int
           /\ Progress(row'[o]) >= Progress(row[o])
<1>1. row'[o] = row[o] \/ Progress(row'[o]) >= Progress(row[o])
  <2>1. ASSUME NEW w \in Workers, Save(w)
        PROVE  row'[o] = row[o] \/ Progress(row'[o]) >= Progress(row[o])
    <3>1. /\ handler[w].pc = "save" /\ handler[w] \in Handler
          /\ row' = [row EXCEPT ![handler[w].order] = handler[w].snapshot]
      BY <2>1, BusyPc DEF Save, IInv
    <3>2. Progress(handler[w].snapshot) >= Progress(row[handler[w].order])
      BY <3>1 DEF SoleInv
    <3>3. row \in [Orders -> Snapshot \cup {NoRow}]
      BY DEF IInv, TypeOK
    <3> QED BY <3>1, <3>2, <3>3
  <2>2. row' = row \/ \E w \in Workers : Save(w)
    BY DEF Next, vars, Worker, Participants, PlaceOrder, AnswerStep, Answer, ConfirmOrder,
       CancelOrder, Finalize, Duplicate, Deliver, Publish, Announce, Commit, Abandon, Revoke
  <2> QED BY <2>1, <2>2
<1>2. Progress(row[o]) \in Int
  <2>1. row[o] = NoRow => Progress(row[o]) = 0
    BY DEF Progress
  <2>2. ASSUME row[o] # NoRow PROVE Progress(row[o]) \in Int
    <3>1. row[o] \in Snapshot
      BY <2>2 DEF IInv, TypeOK
    <3>2. row[o].step \in Int
      BY <3>1 DEF Snapshot, StepIndex
    <3> QED BY <2>2, <3>2 DEF Progress
  <2> QED BY <2>1, <2>2
<1>3. row'[o] = row[o] => Progress(row'[o]) = Progress(row[o])
  OBVIOUS
<1> QED
  BY <1>1, <1>2, <1>3

\* save() overwrites a row only with what the saga has come to since.
THEOREM RowsNeverRegress ==
    ASSUME SoleWorker
    PROVE  Spec => RowNeverRegresses
<1>1. IInv /\ SoleInv /\ [Next]_vars => [\A o \in Orders : Progress(row'[o]) >= Progress(row[o])]_vars
  BY RowForward
<1>2. IInv /\ SoleInv /\ [Next]_vars => SoleInv'
  BY SoleStep
<1> QED
  BY <1>1, <1>2, SoleInit, Invariant, PTL DEF Spec, RowNeverRegresses

-----------------------------------------------------------------------------
(***************************************************************************)
(* Nobody is stranded.  The start of a saga is safe with any number of     *)
(* replicas; that its later steps are takes one replica and no fault.      *)
(***************************************************************************)

\* A row that is there stays.
LEMMA RowsStay ==
    ASSUME IInv, [Next]_vars, NEW o \in Orders, row[o] # NoRow
    PROVE  row'[o] # NoRow
<1>1. ASSUME NEW w \in Workers, Save(w) PROVE row'[o] # NoRow
  <2>1. handler[w].pc = "save" /\ handler[w] # Idle /\ row' = [row EXCEPT ![handler[w].order] = handler[w].snapshot]
    BY <1>1 DEF Save, Idle
  <2>2. handler[w].snapshot \in Snapshot
    BY <2>1 DEF IInv, HandlerTrue
  <2> QED
    BY <2>1, <2>2, NoRowFacts DEF IInv, TypeOK
<1>2. row' = row \/ \E w \in Workers : Save(w)
  BY DEF Next, vars, Worker, Participants, Deliver, Publish, Announce, Commit, Abandon, Revoke,
     PlaceOrder, AnswerStep, Answer, ConfirmOrder, CancelOrder, Finalize, Duplicate
<1> QED
  BY <1>1, <1>2

\* A handler that is running has been started by a delivery, or is where it was,
\* or took the step that its pc tells.
LEMMA HandlerMove ==
    ASSUME IInv, [Next]_vars, NEW v \in Workers, handler'[v] # Idle
    PROVE  \/ \E o \in Orders, e \in EventTypes :
                 Deliver(v, o, e) /\ handler'[v] = Dispatch(o, e, row[o])
           \/ /\ handler[v] \in Handler /\ handler[v] # Idle
              /\ handler'[v].order = handler[v].order
              /\ handler'[v].event = handler[v].event
              /\ handler'[v].snapshot = handler[v].snapshot
              /\ \/ handler'[v].pc = handler[v].pc /\ handler'[v].todo = handler[v].todo
                 \/ Publish(v) /\ handler'[v].pc \in {"publish", "save"}
                 \/ Save(v) /\ handler'[v].pc = IF Terminal(handler[v].snapshot) THEN "announce" ELSE "commit"
                 \/ Announce(v) /\ handler'[v].pc = "commit"
<1> DEFINE h == handler[v]
           g == handler'[v]
<1>0. handler \in [Workers -> Handler \cup {Idle}]
  BY DEF IInv, TypeOK
<1>1. ASSUME NEW o \in Orders, NEW e \in EventTypes, Deliver(v, o, e)
      PROVE  Deliver(v, o, e) /\ handler'[v] = Dispatch(o, e, row[o])
  BY <1>0, <1>1 DEF Deliver
<1>2. ASSUME h.pc # "idle" PROVE h \in Handler /\ h # Idle
  BY <1>2, BusyPc DEF IInv, Idle
<1>3. ASSUME Publish(v) \/ Save(v) \/ Announce(v) PROVE h \in Handler /\ h # Idle
  BY <1>2, <1>3 DEF Publish, Save, Announce
<1>4. ASSUME h \in Handler, NEW pc, g = [h EXCEPT !.pc = pc]
      PROVE  g.order = h.order /\ g.event = h.event /\ g.snapshot = h.snapshot /\ g.pc = pc
  BY <1>4 DEF Handler
<1>5. ASSUME h \in Handler, NEW pc, NEW todo, g = [h EXCEPT !.todo = todo, !.pc = pc]
      PROVE  g.order = h.order /\ g.event = h.event /\ g.snapshot = h.snapshot /\ g.pc = pc
  BY <1>5 DEF Handler
<1>6. CASE Publish(v)
  <2>1. \E todo : \E pc \in {"publish", "save"} : g = [h EXCEPT !.todo = todo, !.pc = pc]
    BY <1>0, <1>6 DEF Publish
  <2> HIDE DEF h, g
  <2> QED BY <1>3, <1>5, <1>6, <2>1 DEF h, g
<1>7. CASE Save(v)
  <2> DEFINE next == IF Terminal(h.snapshot) THEN "announce" ELSE "commit"
  <2>1. g = [h EXCEPT !.pc = next]
    BY <1>0, <1>7 DEF Save
  <2> HIDE DEF h, g, next
  <2>2. g.order = h.order /\ g.event = h.event /\ g.snapshot = h.snapshot /\ g.pc = next
    BY <1>3, <1>4, <1>7, <2>1
  <2> QED BY <1>3, <1>7, <2>2 DEF h, g, next
<1>8. CASE Announce(v)
  <2>1. g = [h EXCEPT !.pc = "commit"]
    BY <1>0, <1>8 DEF Announce
  <2> HIDE DEF h, g
  <2> QED BY <1>3, <1>4, <1>8, <2>1 DEF h, g
<1>9. CASE Revoke(v)
  <2>1. h \in Handler /\ h # Idle /\ g = [h EXCEPT !.owner = FALSE]
    BY <1>0, <1>9 DEF Revoke, Owner
  <2>2. g.order = h.order /\ g.event = h.event /\ g.snapshot = h.snapshot /\ g.pc = h.pc /\ g.todo = h.todo
    BY <2>1 DEF Handler
  <2> HIDE DEF h, g
  <2> QED BY <2>1, <2>2 DEF h, g
<1>10. CASE g = h
  <2>1. h \in Handler /\ h # Idle
    BY <1>0, <1>10
  <2> QED BY <1>10, <2>1
<1>11. ~(Commit(v) \/ Abandon(v))
  BY <1>0 DEF Commit, Abandon
<1>12. \/ g = h
       \/ \E o \in Orders, e \in EventTypes : Deliver(v, o, e)
       \/ Publish(v) \/ Save(v) \/ Announce(v) \/ Revoke(v)
  <2>1. ASSUME NEW w \in Workers, w # v, Worker(w) \/ Abandon(w) \/ Revoke(w) PROVE g = h
    BY <1>0, <2>1 DEF Worker, Deliver, Publish, Save, Announce, Commit, Abandon, Revoke
  <2>2. handler' = handler \/ \E w \in Workers : Worker(w) \/ Abandon(w) \/ Revoke(w)
    BY DEF Next, vars, Participants, PlaceOrder, AnswerStep, Answer, ConfirmOrder, CancelOrder,
       Finalize, Duplicate
  <2>3. CASE Worker(v) \/ Abandon(v) \/ Revoke(v)
    BY <1>11, <2>3 DEF Worker
  <2> QED BY <2>1, <2>2, <2>3
<1> QED
  BY <1>1, <1>6, <1>7, <1>8, <1>9, <1>10, <1>12

\* A handler of OrderCreated comes to its commit only when the row is there.
StartInv ==
    /\ StartPending
    /\ \A w \in Workers :
          handler[w] # Idle /\ handler[w].event = "OrderCreated" /\ handler[w].pc \in {"announce", "commit"}
             => row[handler[w].order] # NoRow

LEMMA StartInvStep ==
    ASSUME IInv, StartInv, [Next]_vars
    PROVE  StartInv'
<1>1. ASSUME NEW v \in Workers, handler'[v] # Idle, handler'[v].event = "OrderCreated",
             handler'[v].pc \in {"announce", "commit"}
      PROVE  row'[handler'[v].order] # NoRow
  <2>1. ASSUME NEW o \in Orders, NEW e \in EventTypes, Deliver(v, o, e),
               handler'[v] = Dispatch(o, e, row[o])
        PROVE  row'[handler'[v].order] # NoRow
    <3>1. Dispatch(o, e, row[o]).order = o /\ Dispatch(o, e, row[o]).event = e
      BY DEF Dispatch, Ignore, Work, Job
    <3>2. row[o] # NoRow
      <4>1. Work(o, e, Start).pc \in {"publish", "save"}
        BY DEF Work, Job
      <4> QED BY <1>1, <2>1, <3>1, <4>1 DEF Dispatch
    <3> QED BY <2>1, <3>1, <3>2, RowsStay
  <2>2. CASE Save(v) /\ handler[v] \in Handler /\ handler'[v].order = handler[v].order
    <3>1. handler[v].pc = "save" /\ handler[v] # Idle /\ row' = [row EXCEPT ![handler[v].order] = handler[v].snapshot]
      BY <2>2 DEF Save, Idle
    <3>2. handler[v].snapshot \in Snapshot /\ handler[v].order \in Orders
      BY <2>2, <3>1 DEF IInv, HandlerTrue, Handler
    <3> QED BY <2>2, <3>1, <3>2, NoRowFacts DEF IInv, TypeOK
  <2>3. CASE /\ handler[v] \in Handler /\ handler[v] # Idle /\ handler'[v].order = handler[v].order
             /\ handler'[v].event = handler[v].event /\ handler[v].pc \in {"announce", "commit"}
    <3>1. handler[v].order \in Orders
      BY <2>3 DEF Handler
    <3> QED BY <1>1, <2>3, <3>1, RowsStay DEF StartInv
  <2> QED
    BY <1>1, <2>1, <2>2, <2>3, HandlerMove DEF Announce
<1>2. ASSUME NEW o \in Orders, order'[o] # "absent", row'[o] = NoRow
      PROVE  pending'[o]["OrderCreated"] > 0
  <2>1. row[o] = NoRow
    BY <1>2, RowsStay
  <2>2. "OrderCreated" \in EventTypes /\ pending \in [Orders -> [EventTypes -> Nat]]
        /\ order \in [Orders -> {"absent", "CREATED", "CONFIRMED", "CANCELLED"}]
    BY DEF IInv, TypeOK, EventTypes, OrderEvents
  <2>3. CASE order[o] = "absent"
    <3>1. ASSUME NEW p \in Orders, PlaceOrder(p) \/ ConfirmOrder(p) \/ CancelOrder(p)
          PROVE  pending'[o]["OrderCreated"] > 0
      BY <1>2, <2>2, <2>3, <3>1 DEF PlaceOrder, ConfirmOrder, CancelOrder, Finalize, Emit
    <3>2. order' = order \/ \E p \in Orders : PlaceOrder(p) \/ ConfirmOrder(p) \/ CancelOrder(p)
      BY DEF Next, vars, Worker, Participants, Deliver, Publish, Save, Announce, Commit,
         Abandon, Revoke, AnswerStep, Answer, Duplicate
    <3> QED BY <1>2, <2>3, <3>1, <3>2
  <2>4. CASE order[o] # "absent"
    <3>1. pending[o]["OrderCreated"] > 0
      BY <2>1, <2>4 DEF StartInv, StartPending
    <3>2. ASSUME NEW w \in Workers, Commit(w) PROVE pending'[o]["OrderCreated"] = pending[o]["OrderCreated"]
      <4>1. handler[w].pc = "commit" /\ handler[w] \in Handler /\ handler[w] # Idle
        BY <3>2, BusyPc DEF Commit, IInv, Idle
      <4>2. handler[w].event # "OrderCreated" \/ handler[w].order # o
        BY <2>1, <4>1 DEF StartInv
      <4> QED BY <2>2, <3>2, <4>2 DEF Commit
    <3>3. ASSUME NEW p \in Orders, NEW e, Emit(p, e) PROVE pending'[o]["OrderCreated"] > 0
      BY <2>2, <3>1, <3>3 DEF Emit
    <3>4. \/ pending' = pending
          \/ \E w \in Workers : Commit(w)
          \/ \E p \in Orders : \E e : Emit(p, e)
      BY DEF Next, vars, Worker, Participants, Deliver, Publish, Save, Announce, Abandon, Revoke,
         PlaceOrder, AnswerStep, Answer, ConfirmOrder, CancelOrder, Finalize, Duplicate
    <3> QED BY <3>1, <3>2, <3>3, <3>4
  <2> QED BY <2>3, <2>4
<1> QED
  BY <1>1, <1>2 DEF StartInv, StartPending

\* However many replicas run, fail or lose the partition, the OrderCreated of an
\* order without a row is still to be delivered (start, commitOffsets).
THEOREM StartIsPending == Spec => []StartPending
<1>1. Init => StartInv
  BY DEF Init, StartInv, StartPending
<1>2. IInv /\ StartInv /\ [Next]_vars => StartInv'
  BY StartInvStep
<1>3. StartInv => StartPending
  BY DEF StartInv
<1> QED
  BY <1>1, <1>2, <1>3, Invariant, PTL DEF Spec

\* The answers to step i.
Outcomes(i) == {Steps[i].success, Steps[i].failure}

\* A handler that was given an answer to step i takes or has taken the row past
\* that step, and one that is at a step has sent its command or is about to.
Moves(h) ==
    /\ \A i \in StepIndex : h.event \in Outcomes(i) =>
          Progress(IF h.pc \in {"publish", "save"} THEN h.snapshot ELSE row[h.order]) > 2 * i
    /\ h.pc \in {"publish", "save"} /\ h.snapshot.status = "IN_PROGRESS" =>
          \/ sent[h.order][Steps[h.snapshot.step].command] > 0
          \/ h.pc = "publish" /\ [step |-> h.snapshot.step, kind |-> "command"] \in h.todo

\* The row of order o is at step i, or is about to be.
Reached(o, i) ==
    \/ Progress(row[o]) >= 2 * i
    \/ \E w \in Workers :
          /\ handler[w].pc \in {"publish", "save"}
          /\ handler[w].order = o
          /\ Progress(handler[w].snapshot) >= 2 * i

\* The answer to a step is not committed before the row is past the step.
AnswersPending ==
    \A o \in Orders, i \in StepIndex : answer[o][i] # "none" =>
        (\E e \in Outcomes(i) : pending[o][e] > 0) \/ Progress(row[o]) > 2 * i

CommandsReached ==
    \A o \in Orders, i \in StepIndex : sent[o][Steps[i].command] > 0 => Reached(o, i)

RowsMove ==
    \A o \in Orders : row[o] # NoRow =>
        /\ row[o].status = "IN_PROGRESS" => sent[o][Steps[row[o].step].command] > 0
        /\ Terminal(row[o]) =>
              \/ sent[o]["ConfirmOrder"] > 0 \/ sent[o]["CancelOrder"] > 0
              \/ \E w \in Workers : handler[w].pc = "announce" /\ handler[w].order = o

MovingInv ==
    /\ \A w \in Workers : handler[w] # Idle => Moves(handler[w])
    /\ CommandsReached
    /\ AnswersPending
    /\ RowsMove

LEMMA ProgressFacts ==
    /\ Progress(NoRow) = 0
    /\ \A s \in Snapshot :
          /\ s # NoRow /\ s.step \in Nat /\ s.step >= 1
          /\ Progress(s) \in Nat
          /\ Progress(s) >= 2 * s.step
          /\ s.status = "IN_PROGRESS" => Progress(s) = 2 * s.step
          /\ s.status # "IN_PROGRESS" => Progress(s) = 2 * s.step + 1
<1>1. Progress(NoRow) = 0
  BY DEF Progress
<1>2. ASSUME NEW s \in Snapshot
      PROVE  /\ s # NoRow /\ s.step \in Nat /\ s.step >= 1
             /\ Progress(s) \in Nat
             /\ Progress(s) >= 2 * s.step
             /\ s.status = "IN_PROGRESS" => Progress(s) = 2 * s.step
             /\ s.status # "IN_PROGRESS" => Progress(s) = 2 * s.step + 1
  <2>1. s # NoRow
    BY NoRowFacts
  <2>2. s.step \in Nat /\ s.step >= 1
    BY DEF Snapshot, StepIndex
  <2> QED BY <2>1, <2>2 DEF Progress
<1> QED
  BY <1>1, <1>2

\* The answer to a step that the saga has reached takes it past the step.
LEMMA OnEventPasses ==
    ASSUME NEW r \in Snapshot, NEW i \in StepIndex, NEW e \in Outcomes(i), Progress(r) >= 2 * i
    PROVE  Progress(OnEvent(r, e).snapshot) > 2 * i
<1> DEFINE t == OnEvent(r, e).snapshot
<1>1. t \in Snapshot /\ r.step \in Nat /\ r.step \in StepIndex /\ i \in Nat
  BY OnEventType DEF Snapshot, StepIndex
<1>2. r.step >= i
  <2>1. /\ Progress(r) \in Nat
        /\ r.status = "IN_PROGRESS" => Progress(r) = 2 * r.step
        /\ r.status # "IN_PROGRESS" => Progress(r) = 2 * r.step + 1
    BY ProgressFacts
  <2> QED BY <1>1, <2>1
<1>3. t.step > i \/ (t.step = i /\ t.status # "IN_PROGRESS")
  <2>1. CASE r.step = i /\ e = Steps[i].success /\ i = Len(Steps)
    <3>1. t = [r EXCEPT !.status = "COMPLETED", !.history = Record(r, "SUCCEEDED")]
      BY <2>1 DEF OnEvent, Advance, Result
    <3> HIDE DEF t
    <3> QED BY <2>1, <3>1 DEF Snapshot
  <2>2. CASE r.step = i /\ e = Steps[i].success /\ i # Len(Steps)
    <3>1. t.step = i + 1
      BY <2>2 DEF OnEvent, Advance, Result
    <3> HIDE DEF t
    <3> QED BY <1>1, <3>1
  <2>3. CASE r.step = i /\ e # Steps[i].success /\ e = Steps[i].failure
    <3> DEFINE status == IF StepsToCompensate(r) # {} THEN "COMPENSATING" ELSE "COMPENSATED"
    <3>1. t = [r EXCEPT !.status = status, !.history = Record(r, "FAILED")]
      BY <2>3 DEF OnEvent, BeginCompensation, Result
    <3>2. status # "IN_PROGRESS"
      OBVIOUS
    <3> HIDE DEF t, status
    <3> QED BY <2>3, <3>1, <3>2 DEF Snapshot
  <2>4. CASE r.step # i
    <3>1. e # Steps[r.step].success /\ e # Steps[r.step].failure
      BY <1>1, <2>4, StepsAssumption DEF Outcomes
    <3>2. t = r
      BY <3>1 DEF OnEvent, Result
    <3> HIDE DEF t
    <3> QED BY <1>1, <1>2, <2>4, <3>2
  <2> QED BY <2>1, <2>2, <2>3, <2>4 DEF Outcomes
<1> HIDE DEF t
<1>4. t.step \in Nat /\ Progress(t) \in Nat /\ Progress(t) >= 2 * t.step
  BY <1>1, ProgressFacts
<1>5. t.status # "IN_PROGRESS" => Progress(t) = 2 * t.step + 1
  BY <1>1, ProgressFacts
<1>6. Progress(t) > 2 * i
  BY <1>1, <1>3, <1>4, <1>5
<1> QED
  BY <1>6 DEF t

\* A saga that goes on is where it was, or has the next command to send.
LEMMA OnEventAsks ==
    ASSUME NEW r \in Snapshot, NEW e, OnEvent(r, e).snapshot.status = "IN_PROGRESS"
    PROVE  \/ OnEvent(r, e).snapshot = r
           \/ [step |-> OnEvent(r, e).snapshot.step, kind |-> "command"] \in OnEvent(r, e).publications
<1> DEFINE u == OnEvent(r, e)
           t == u.snapshot
<1>1. CASE e = Steps[r.step].success /\ r.step = Len(Steps)
  <2>1. t = [r EXCEPT !.status = "COMPLETED", !.history = Record(r, "SUCCEEDED")]
    BY <1>1 DEF OnEvent, Advance, Result
  <2> HIDE DEF t
  <2>2. t.status = "COMPLETED"
    BY <2>1 DEF Snapshot
  <2> QED BY <2>2 DEF t
<1>2. CASE e = Steps[r.step].success /\ r.step # Len(Steps)
  BY <1>2 DEF OnEvent, Advance, Result
<1>3. CASE e # Steps[r.step].success /\ e = Steps[r.step].failure
  <2> DEFINE status == IF StepsToCompensate(r) # {} THEN "COMPENSATING" ELSE "COMPENSATED"
  <2>1. t = [r EXCEPT !.status = status, !.history = Record(r, "FAILED")]
    BY <1>3 DEF OnEvent, BeginCompensation, Result
  <2>2. status # "IN_PROGRESS"
    OBVIOUS
  <2> HIDE DEF t, status
  <2>3. t.status # "IN_PROGRESS"
    BY <2>1, <2>2 DEF Snapshot
  <2> QED BY <2>3 DEF t
<1>4. CASE e # Steps[r.step].success /\ e # Steps[r.step].failure
  BY <1>4 DEF OnEvent, Result
<1> QED
  BY <1>1, <1>2, <1>3, <1>4

\* As long as none fails, a handler that is not at its commit goes on.
LEMMA HandlerGoesOn ==
    ASSUME IInv, [Next]_vars, faults' = faults,
           NEW w \in Workers, handler[w].pc \notin {"idle", "commit"}
    PROVE  /\ handler[w] \in Handler /\ handler[w] # Idle
           /\ handler'[w] # Idle
           /\ handler'[w].order = handler[w].order
           /\ handler'[w].snapshot = handler[w].snapshot
           /\ \/ handler'[w].pc = handler[w].pc
              \/ handler[w].pc = "publish" /\ handler'[w].pc \in {"publish", "save"}
              \/ Save(w) /\ handler'[w].pc = IF Terminal(handler[w].snapshot) THEN "announce" ELSE "commit"
              \/ Announce(w)
<1>0. handler \in [Workers -> Handler \cup {Idle}] /\ faults \in Nat
  BY DEF IInv, TypeOK
<1>1. handler[w] \in Handler /\ handler[w] # Idle
  BY BusyPc DEF IInv, Idle
<1> SUFFICES handler'[w] # Idle
  BY <1>1, HandlerMove DEF Deliver, Publish
<1>2. ASSUME NEW pc \in {"publish", "save", "announce", "commit"}, handler'[w].pc = pc
      PROVE  handler'[w] # Idle
  BY <1>2 DEF Idle
<1>3. CASE Publish(w)
  <2>1. handler'[w].pc = "publish" \/ handler'[w].pc = "save"
    BY <1>3, PublishStep
  <2> QED BY <1>2, <2>1
<1>4. CASE Save(w) \/ Announce(w)
  <2>1. \E pc \in {"announce", "commit"} : handler'[w] = [handler[w] EXCEPT !.pc = pc]
    BY <1>0, <1>4 DEF Save, Announce
  <2>2. handler'[w].pc = "announce" \/ handler'[w].pc = "commit"
    BY <1>1, <2>1 DEF Handler
  <2> QED BY <1>2, <2>2
<1>5. CASE handler'[w] = handler[w]
  BY <1>1, <1>5
<1>6. handler'[w] = handler[w] \/ Publish(w) \/ Save(w) \/ Announce(w)
  <2>1. ASSUME NEW v \in Workers, v # w, Worker(v) PROVE handler'[w] = handler[w]
    BY <1>0, <2>1 DEF Worker, Deliver, Publish, Save, Announce, Commit
  <2>2. ~Commit(w) /\ \A o \in Orders, e \in EventTypes : ~Deliver(w, o, e)
    BY <1>1 DEF Commit, Deliver
  <2>3. \A v \in Workers : ~Abandon(v) /\ ~Revoke(v)
    BY <1>0 DEF Abandon, Revoke
  <2>4. handler' = handler \/ \E v \in Workers : Worker(v)
    BY <2>3 DEF Next, vars, Participants, PlaceOrder, AnswerStep, Answer, ConfirmOrder,
       CancelOrder, Finalize, Duplicate
  <2> QED BY <2>1, <2>2, <2>4 DEF Worker
<1> QED
  BY <1>3, <1>4, <1>5, <1>6

\* The sole worker is handed an answer to a step that the row has reached.
LEMMA DispatchMoves ==
    ASSUME SoleWorker, IInv, AnswersAsked, MovingInv,
           NEW w \in Workers, NEW o \in Orders, NEW e \in EventTypes, Deliver(w, o, e)
    PROVE  Moves(Dispatch(o, e, row[o]))
<1> DEFINE r == row[o]
           d == Dispatch(o, e, r)
<1>0. r \in Snapshot \cup {NoRow} /\ e \in EventTypes
  BY DEF IInv, TypeOK
<1>1. \A result : /\ Work(o, e, result).pc = IF result.publications = {} THEN "save" ELSE "publish"
                  /\ Work(o, e, result).order = o /\ Work(o, e, result).event = e
                  /\ Work(o, e, result).snapshot = result.snapshot
                  /\ Work(o, e, result).todo = result.publications
  BY DEF Work, Job
<1>2. Ignore(o, e, r).pc = "commit" /\ Ignore(o, e, r).order = o /\ Ignore(o, e, r).event = e
  BY DEF Ignore, Job
<1>3. ASSUME NEW i \in StepIndex, e \in Outcomes(i)
      PROVE  /\ Progress(r) >= 2 * i /\ r \in Snapshot /\ i \in Nat
             /\ e # "OrderCreated"
  <2>1. pending[o][e] > 0 /\ EventsTrue(o) /\ handler[w] = Idle
    BY DEF Deliver, IInv
  <2>2. answer[o][i] # "none"
    BY <1>3, <2>1 DEF EventsTrue, Outcomes
  <2>3. sent[o][Steps[i].command] > 0
    BY <2>2 DEF AnswersAsked
  <2>4. Reached(o, i)
    BY <2>3 DEF MovingInv, CommandsReached
  <2>5. \A v \in Workers : handler[v].pc = "idle"
    BY <2>1 DEF SoleWorker, Idle
  <2>6. Progress(r) >= 2 * i
    BY <2>4, <2>5 DEF Reached
  <2>7. i \in Nat /\ i >= 1
    BY DEF StepIndex
  <2>8. r # NoRow
    BY <2>6, <2>7, ProgressFacts
  <2>9. e \in StepEvents
    BY <1>3 DEF Outcomes, StepEvents
  <2> QED BY <1>0, <2>6, <2>7, <2>8, <2>9, StepsAssumption
<1>4. CASE d = Ignore(o, e, r)
  <2>1. ASSUME NEW i \in StepIndex, e \in Outcomes(i)
        PROVE  Progress(r) > 2 * i
    <3>1. Terminal(r)
      <4>1. Work(o, e, OnEvent(r, e)).pc # "commit"
        BY <1>1
      <4>2. r # NoRow
        BY <1>3, <2>1, NoRowFacts
      <4> QED BY <1>2, <1>3, <1>4, <2>1, <4>1, <4>2 DEF Dispatch
    <3>2. Progress(r) = 2 * r.step + 1 /\ r.step \in Nat
      BY <1>3, <2>1, <3>1, ProgressFacts DEF Terminal
    <3> HIDE DEF r
    <3> QED BY <1>3, <2>1, <3>2
  <2> QED BY <1>2, <1>4, <2>1 DEF Moves
<1>5. CASE e = "OrderCreated" /\ d = Work(o, e, Start)
  <2>1. d.pc = "publish" /\ [step |-> d.snapshot.step, kind |-> "command"] \in d.todo /\ d.event = e
    BY <1>1, <1>5, StartType
  <2>2. \A i \in StepIndex : e \notin Outcomes(i)
    BY <1>3, <1>5
  <2> HIDE DEF d
  <2>3. Moves(d)
    BY <2>1, <2>2 DEF Moves
  <2> QED BY <2>3 DEF d
<1>6. CASE e # "OrderCreated" /\ r # NoRow /\ d = Work(o, e, OnEvent(r, e))
  <2> DEFINE u == OnEvent(r, e)
  <2>1. r \in Snapshot
    BY <1>0, <1>6
  <2>2. /\ d.pc = IF u.publications = {} THEN "save" ELSE "publish"
        /\ d.order = o /\ d.event = e /\ d.snapshot = u.snapshot /\ d.todo = u.publications
    BY <1>1, <1>6
  <2>3. \A i \in StepIndex : e \in Outcomes(i) => Progress(u.snapshot) > 2 * i
    BY <1>3, OnEventPasses
  <2>4. u.snapshot.status = "IN_PROGRESS" =>
           \/ sent[o][Steps[u.snapshot.step].command] > 0
           \/ [step |-> u.snapshot.step, kind |-> "command"] \in u.publications
    <3>1. r.status = "IN_PROGRESS" => sent[o][Steps[r.step].command] > 0
      BY <1>6 DEF MovingInv, RowsMove
    <3> QED BY <2>1, <3>1, OnEventAsks
  <2> HIDE DEF d, u
  <2>5. Moves(d)
    BY <2>2, <2>3, <2>4 DEF Moves
  <2> QED BY <2>5 DEF d
<1> QED
  BY <1>4, <1>5, <1>6 DEF Dispatch

\* What a handler owes to the event it was given, it owes until it has done it.
LEMMA MovesStep ==
    ASSUME SoleWorker, IInv, SoleInv, AnswersAsked, MovingInv, [Next]_vars,
           NEW v \in Workers, NEW g, g = handler'[v], g # Idle
    PROVE  Moves(g)'
<1> DEFINE h == handler[v]
<1>1. ASSUME NEW o \in Orders, NEW e \in EventTypes, Deliver(v, o, e), g = Dispatch(o, e, row[o])
      PROVE  Moves(g)'
  <2>1. Moves(g)
    BY <1>1, DispatchMoves
  <2>2. row' = row /\ sent' = sent
    BY <1>1 DEF Deliver
  <2> QED BY <2>1, <2>2 DEF Moves
<1>2. ASSUME /\ h \in Handler /\ h # Idle
             /\ g.order = h.order /\ g.event = h.event /\ g.snapshot = h.snapshot,
             \/ g.pc = h.pc /\ g.todo = h.todo
             \/ Publish(v) /\ g.pc \in {"publish", "save"}
             \/ Save(v) /\ g.pc = IF Terminal(h.snapshot) THEN "announce" ELSE "commit"
             \/ Announce(v) /\ g.pc = "commit"
      PROVE  Moves(g)'
  <2>1. Moves(h) /\ h.order \in Orders /\ g.order \in Orders
    BY <1>2 DEF MovingInv, Handler
  <2>2. /\ Progress(row[h.order]) \in Int
        /\ Progress(row'[h.order]) \in Int
        /\ Progress(row'[h.order]) >= Progress(row[h.order])
    <3>1. row' \in [Orders -> Snapshot \cup {NoRow}]
      BY NextType DEF IInv, TypeOK
    <3>2. row'[h.order] \in Snapshot \cup {NoRow}
      BY <2>1, <3>1
    <3> QED BY <2>1, <3>2, RowForward, ProgressFacts
  <2>3. ASSUME h.pc \in {"publish", "save"}, h.snapshot.status = "IN_PROGRESS"
        PROVE  /\ h.snapshot \in Snapshot
               /\ Steps[h.snapshot.step].command \in Commands
    <3>1. h.snapshot \in Snapshot
      BY <1>2, <2>3 DEF IInv, HandlerTrue
    <3>2. h.snapshot.step \in StepIndex
      BY <3>1 DEF Snapshot
    <3> QED BY <3>1, <3>2, StepFields
  <2>4. CASE g.pc = h.pc /\ g.todo = h.todo
    <3>1. \A i \in StepIndex : g.event \in Outcomes(i) =>
             Progress(IF g.pc \in {"publish", "save"} THEN g.snapshot ELSE row'[g.order]) > 2 * i
      <4> SUFFICES ASSUME NEW i \in StepIndex, g.event \in Outcomes(i)
                   PROVE  Progress(IF g.pc \in {"publish", "save"} THEN g.snapshot ELSE row'[g.order]) > 2 * i
        OBVIOUS
      <4>1. Progress(IF h.pc \in {"publish", "save"} THEN h.snapshot ELSE row[h.order]) > 2 * i
        BY <1>2, <2>1 DEF Moves
      <4>2. i \in Int
        BY DEF StepIndex
      <4> HIDE DEF h
      <4>3. CASE g.pc \in {"publish", "save"}
        BY <1>2, <2>4, <4>1, <4>3
      <4>4. CASE g.pc \notin {"publish", "save"}
        BY <1>2, <2>2, <2>4, <4>1, <4>2, <4>4
      <4> QED BY <4>3, <4>4
    <3>2. g.pc \in {"publish", "save"} /\ g.snapshot.status = "IN_PROGRESS" =>
             \/ sent'[g.order][Steps[g.snapshot.step].command] > 0
             \/ g.pc = "publish" /\ [step |-> g.snapshot.step, kind |-> "command"] \in g.todo
      BY <1>2, <2>1, <2>3, <2>4, SentStays DEF Moves
    <3> QED BY <3>1, <3>2 DEF Moves, Outcomes
  <2>5. CASE Publish(v) /\ g.pc \in {"publish", "save"}
    <3>1. h.pc = "publish"
      BY <2>5 DEF Publish
    <3>2. \A i \in StepIndex : g.event \in Outcomes(i) => Progress(g.snapshot) > 2 * i
      BY <1>2, <2>1, <3>1 DEF Moves
    <3>3. ASSUME g.snapshot.status = "IN_PROGRESS"
          PROVE  \/ sent'[g.order][Steps[g.snapshot.step].command] > 0
                 \/ g.pc = "publish" /\ [step |-> g.snapshot.step, kind |-> "command"] \in g.todo
      <4> DEFINE c == [step |-> h.snapshot.step, kind |-> "command"]
      <4>1. sent[h.order][Steps[h.snapshot.step].command] > 0 \/ c \in h.todo
        BY <1>2, <2>1, <3>1, <3>3 DEF Moves
      <4>2. PICK p \in h.todo :
               /\ sent' = [sent EXCEPT ![h.order][CommandOf(p)] = @ + 1]
               /\ g.todo = h.todo \ {p}
               /\ g.pc = IF h.todo \ {p} = {} THEN "save" ELSE "publish"
        BY <2>5, PublishStep
      <4>3. CASE c \in h.todo /\ p # c
        BY <1>2, <4>2, <4>3
      <4>4. CASE p = c
        <5>1. CommandOf(p) = Steps[h.snapshot.step].command
          BY <4>4 DEF CommandOf
        <5>2. sent \in [Orders -> [Commands -> Nat]]
          BY DEF IInv, TypeOK
        <5>3. Steps[h.snapshot.step].command \in Commands
          BY <1>2, <2>3, <3>1, <3>3
        <5>4. sent'[h.order][Steps[h.snapshot.step].command] > 0
          BY <2>1, <4>2, <5>1, <5>2, <5>3
        <5> QED BY <1>2, <5>4
      <4>5. CASE sent[h.order][Steps[h.snapshot.step].command] > 0
        BY <1>2, <2>1, <2>3, <3>1, <3>3, <4>5, SentStays
      <4> QED BY <4>1, <4>3, <4>4, <4>5
    <3> QED BY <2>5, <3>2, <3>3 DEF Moves, Outcomes
  <2>6. CASE Save(v) /\ g.pc \in {"announce", "commit"}
    <3>1. h.pc = "save" /\ row'[h.order] = h.snapshot
      BY <2>1, <2>6 DEF Save, IInv, TypeOK
    <3>2. \A i \in StepIndex : g.event \in Outcomes(i) => Progress(row'[g.order]) > 2 * i
      BY <1>2, <2>1, <3>1 DEF Moves
    <3> QED BY <2>6, <3>2 DEF Moves, Outcomes
  <2>7. CASE Announce(v) /\ g.pc = "commit"
    <3>1. h.pc = "announce" /\ row' = row
      BY <2>7 DEF Announce
    <3>2. \A i \in StepIndex : g.event \in Outcomes(i) => Progress(row'[g.order]) > 2 * i
      BY <1>2, <2>1, <3>1 DEF Moves
    <3> QED BY <2>7, <3>2 DEF Moves, Outcomes
  <2> QED BY <1>2, <2>4, <2>5, <2>6, <2>7
<1> QED
  BY <1>1, <1>2, HandlerMove

\* The sole handler that is about to reach a step reaches it.
LEMMA ReachedStays ==
    ASSUME IInv, SoleInv, [Next]_vars, faults' = faults,
           NEW o \in Orders, NEW i \in StepIndex, Reached(o, i)
    PROVE  Reached(o, i)'
<1>0. i \in Int
  BY DEF StepIndex
<1>1. CASE Progress(row[o]) >= 2 * i
  <2>1. row' \in [Orders -> Snapshot \cup {NoRow}]
    BY NextType DEF IInv, TypeOK
  <2>2. Progress(row'[o]) \in Int
    BY <2>1, ProgressFacts
  <2>3. Progress(row'[o]) >= 2 * i
    BY <1>0, <1>1, <2>2, RowForward
  <2> QED BY <2>3 DEF Reached
<1>2. ASSUME NEW w \in Workers, handler[w].pc \in {"publish", "save"}, handler[w].order = o,
             Progress(handler[w].snapshot) >= 2 * i
      PROVE  Reached(o, i)'
  <2>1. /\ handler'[w].order = o /\ handler'[w].snapshot = handler[w].snapshot
        /\ \/ handler'[w].pc \in {"publish", "save"}
           \/ Save(w)
    BY <1>2, HandlerGoesOn DEF Announce
  <2>2. CASE handler'[w].pc \in {"publish", "save"}
    BY <1>2, <2>1, <2>2 DEF Reached
  <2>3. CASE Save(w)
    <3>1. row'[o] = handler[w].snapshot
      BY <1>2, <2>3 DEF Save, IInv, TypeOK
    <3> QED BY <1>2, <3>1 DEF Reached
  <2> QED BY <2>1, <2>2, <2>3
<1> QED
  BY <1>1, <1>2 DEF Reached

\* A command is sent only by a handler that is about to reach its step.
LEMMA CommandsReachedStep ==
    ASSUME IInv, SoleInv, CommandsReached, [Next]_vars, faults' = faults
    PROVE  CommandsReached'
<1> SUFFICES ASSUME NEW o \in Orders, NEW i \in StepIndex, sent'[o][Steps[i].command] > 0
             PROVE  Reached(o, i)'
  BY DEF CommandsReached
<1>1. CASE sent[o][Steps[i].command] > 0
  BY <1>1, ReachedStays DEF CommandsReached
<1>2. CASE ~(sent[o][Steps[i].command] > 0)
  <2>0. /\ Steps[i].command \in Commands /\ Steps[i].command \notin {"ConfirmOrder", "CancelOrder"}
        /\ sent \in [Orders -> [Commands -> Nat]]
    BY StepFields, StepsAssumption DEF IInv, TypeOK, StepCommands
  <2>1. PICK w \in Workers : Publish(w)
    <3>1. ASSUME NEW w \in Workers, Announce(w)
          PROVE  sent'[o][Steps[i].command] = sent[o][Steps[i].command]
      BY <2>0, <3>1 DEF Announce, Send
    <3>2. sent' = sent \/ \E w \in Workers : Publish(w) \/ Announce(w)
      BY DEF Next, vars, Worker, Participants, Deliver, Save, Commit, Abandon, Revoke,
         PlaceOrder, AnswerStep, Answer, ConfirmOrder, CancelOrder, Finalize, Duplicate
    <3> QED BY <1>2, <3>1, <3>2
  <2> DEFINE h == handler[w]
  <2>2. PICK p \in Publication :
           /\ PublicationDue(h.order, h.snapshot, p) /\ h.snapshot \in Snapshot
           /\ sent' = [sent EXCEPT ![h.order][CommandOf(p)] = @ + 1]
           /\ handler'[w].order = h.order /\ handler'[w].snapshot = h.snapshot
           /\ handler'[w].pc \in {"publish", "save"}
    BY <2>1, PublishStep
  <2>3. h.order = o /\ CommandOf(p) = Steps[i].command
    BY <1>2, <2>0, <2>2
  <2>4. p.step = i /\ p.kind = "command"
    <3>1. p.step \in StepIndex
      BY DEF Publication
    <3> QED BY <2>3, <3>1, StepsAssumption DEF CommandOf
  <2>5. h.snapshot.step = i
    BY <2>2, <2>4 DEF PublicationDue
  <2>6. Progress(h.snapshot) >= 2 * i
    BY <2>2, <2>5, ProgressFacts
  <2> QED BY <2>2, <2>3, <2>6 DEF Reached
<1> QED
  BY <1>1, <1>2

\* An answer is not committed before the row is past its step.
LEMMA AnswersPendingStep ==
    ASSUME IInv, SoleInv, MovingInv, [Next]_vars
    PROVE  AnswersPending'
<1>0. /\ answer \in [Orders -> [StepIndex -> {"none", "success", "failure"}]]
      /\ pending \in [Orders -> [EventTypes -> Nat]]
  BY DEF IInv, TypeOK
<1> SUFFICES ASSUME NEW o \in Orders, NEW i \in StepIndex, answer'[o][i] # "none"
             PROVE  (\E e \in Outcomes(i) : pending'[o][e] > 0) \/ Progress(row'[o]) > 2 * i
  BY DEF AnswersPending, Outcomes
<1>1. Outcomes(i) \subseteq EventTypes /\ i \in Int
  BY StepFields DEF Outcomes, StepIndex
<1>2. CASE answer[o][i] = "none"
  <2>1. ASSUME NEW q \in Orders, NEW j \in StepIndex, AnswerStep(q, j)
        PROVE  \E e \in Outcomes(i) : pending'[o][e] > 0
    <3>1. PICK outcome \in {"success", "failure"} : Answer(q, j, outcome)
      BY <2>1 DEF AnswerStep
    <3>2. q = o /\ j = i
      BY <1>0, <1>2, <3>1 DEF Answer
    <3>3. PICK e \in Outcomes(i) : Emit(o, e)
      BY <3>1, <3>2 DEF Answer, Outcomes
    <3>4. pending'[o][e] > 0
      BY <1>0, <1>1, <3>3 DEF Emit
    <3> QED BY <3>4
  <2>2. answer' = answer \/ \E q \in Orders, j \in StepIndex : AnswerStep(q, j)
    BY DEF Next, vars, Worker, Participants, Deliver, Publish, Save, Announce, Commit,
       Abandon, Revoke, PlaceOrder, ConfirmOrder, CancelOrder, Finalize, Duplicate
  <2> QED BY <1>2, <2>1, <2>2
<1>3. CASE Progress(row[o]) > 2 * i
  <2>1. row' \in [Orders -> Snapshot \cup {NoRow}]
    BY NextType DEF IInv, TypeOK
  <2>2. Progress(row'[o]) \in Int
    BY <2>1, ProgressFacts
  <2>3. Progress(row'[o]) > 2 * i
    BY <1>1, <1>3, <2>2, RowForward
  <2> QED BY <2>3
<1>4. ASSUME NEW e \in Outcomes(i), pending[o][e] > 0, ~(Progress(row[o]) > 2 * i)
      PROVE  pending'[o][e] > 0
  <2>1. ASSUME NEW w \in Workers, Commit(w) PROVE pending'[o][e] = pending[o][e]
    <3>1. handler[w].pc = "commit" /\ handler[w] \in Handler /\ handler[w] # Idle
      BY <2>1, BusyPc DEF Commit, IInv, Idle
    <3>2. Moves(handler[w])
      BY <3>1 DEF MovingInv
    <3>3. handler[w].event # e \/ handler[w].order # o
      BY <1>4, <3>1, <3>2 DEF Moves
    <3> QED BY <1>0, <2>1, <3>3 DEF Commit
  <2>2. ASSUME NEW q \in Orders, NEW d, Emit(q, d) PROVE pending'[o][e] > 0
    BY <1>0, <1>1, <1>4, <2>2 DEF Emit
  <2>3. \/ pending' = pending
        \/ \E w \in Workers : Commit(w)
        \/ \E q \in Orders : \E d : Emit(q, d)
    BY DEF Next, vars, Worker, Participants, Deliver, Publish, Save, Announce, Abandon, Revoke,
       PlaceOrder, AnswerStep, Answer, ConfirmOrder, CancelOrder, Finalize, Duplicate
  <2> QED BY <1>4, <2>1, <2>2, <2>3
<1> QED
  BY <1>2, <1>3, <1>4 DEF MovingInv, AnswersPending

\* A row that was saved has its command out, its end announced or about to be.
LEMMA RowsMoveStep ==
    ASSUME IInv, MovingInv, [Next]_vars, faults' = faults
    PROVE  RowsMove'
<1>0. /\ row \in [Orders -> Snapshot \cup {NoRow}]
      /\ sent \in [Orders -> [Commands -> Nat]]
      /\ "ConfirmOrder" \in Commands /\ "CancelOrder" \in Commands
  BY DEF IInv, TypeOK, Commands
<1> SUFFICES ASSUME NEW o \in Orders, row'[o] # NoRow
             PROVE  /\ row'[o].status = "IN_PROGRESS" => sent'[o][Steps[row'[o].step].command] > 0
                    /\ Terminal(row'[o]) =>
                          \/ sent'[o]["ConfirmOrder"] > 0 \/ sent'[o]["CancelOrder"] > 0
                          \/ \E w \in Workers : handler'[w].pc = "announce" /\ handler'[w].order = o
  BY DEF RowsMove, Terminal
<1>1. CASE row'[o] = row[o]
  <2>1. row[o] \in Snapshot /\ row[o] # NoRow
    BY <1>0, <1>1
  <2>2. Steps[row[o].step].command \in Commands
    BY <2>1, StepFields DEF Snapshot
  <2>3. row[o].status = "IN_PROGRESS" => sent'[o][Steps[row[o].step].command] > 0
    BY <2>1, <2>2, SentStays DEF MovingInv, RowsMove
  <2>4. ASSUME NEW w \in Workers, handler[w].pc = "announce", handler[w].order = o
        PROVE  \/ sent'[o]["ConfirmOrder"] > 0 \/ sent'[o]["CancelOrder"] > 0
               \/ handler'[w].pc = "announce" /\ handler'[w].order = o
    <3>1. ASSUME Announce(w)
          PROVE  sent'[o]["ConfirmOrder"] > 0 \/ sent'[o]["CancelOrder"] > 0
      <4>1. PICK c \in {"ConfirmOrder", "CancelOrder"} : Send(o, c)
        BY <2>4, <3>1 DEF Announce
      <4> QED BY <1>0, <4>1 DEF Send
    <3> QED BY <2>4, <3>1, HandlerGoesOn DEF Save
  <2>5. Terminal(row[o]) =>
           \/ sent'[o]["ConfirmOrder"] > 0 \/ sent'[o]["CancelOrder"] > 0
           \/ \E w \in Workers : handler'[w].pc = "announce" /\ handler'[w].order = o
    BY <1>0, <2>1, <2>4, SentStays DEF MovingInv, RowsMove
  <2> QED BY <1>1, <2>3, <2>5
<1>2. CASE row'[o] # row[o]
  <2>1. PICK w \in Workers : Save(w)
    BY <1>2 DEF Next, vars, Worker, Participants, PlaceOrder, AnswerStep, Answer, ConfirmOrder,
       CancelOrder, Finalize, Duplicate, Deliver, Publish, Announce, Commit, Abandon, Revoke
  <2> DEFINE h == handler[w]
  <2>2. h.pc = "save" /\ row' = [row EXCEPT ![h.order] = h.snapshot]
    BY <2>1 DEF Save
  <2>3. h.order = o /\ row'[o] = h.snapshot
    BY <1>0, <1>2, <2>2
  <2>4. h \in Handler /\ h # Idle /\ h.snapshot \in Snapshot /\ Moves(h)
    BY <2>2, BusyPc DEF IInv, HandlerTrue, MovingInv, Idle
  <2>5. h.snapshot.status = "IN_PROGRESS" => sent'[o][Steps[h.snapshot.step].command] > 0
    <3>1. Steps[h.snapshot.step].command \in Commands
      BY <2>4, StepFields DEF Snapshot
    <3> QED BY <2>2, <2>3, <2>4, <3>1, SentStays DEF Moves
  <2>6. Terminal(h.snapshot) => handler'[w].pc = "announce" /\ handler'[w].order = o
    <3>1. handler'[w] = [h EXCEPT !.pc = IF Terminal(h.snapshot) THEN "announce" ELSE "commit"]
      BY <2>1 DEF Save, IInv, TypeOK
    <3> HIDE DEF h
    <3> QED BY <2>3, <2>4, <3>1 DEF Handler
  <2> QED BY <2>3, <2>5, <2>6
<1> QED
  BY <1>1, <1>2

LEMMA MovingInit == Init => MovingInv /\ AnswersAsked
<1> SUFFICES ASSUME Init PROVE MovingInv /\ AnswersAsked
  OBVIOUS
<1>1. \A o \in Orders, i \in StepIndex :
         /\ sent[o][Steps[i].command] = 0
         /\ answer[o][i] = "none"
         /\ row[o] = NoRow
         /\ order[o] = "absent"
  BY StepFields DEF Init
<1>2. \A o \in Orders : row[o] = NoRow /\ order[o] = "absent"
  BY DEF Init
<1>3. \A w \in Workers : handler[w] = Idle
  BY DEF Init
<1> QED
  BY <1>1, <1>2, <1>3 DEF MovingInv, CommandsReached, AnswersPending, RowsMove, AnswersAsked

LEMMA MovingStep ==
    ASSUME SoleWorker, IInv, SoleInv, AnswersAsked, faults = 0 => MovingInv, [Next]_vars, faults' = 0
    PROVE  MovingInv'
<1>1. faults' = faults
  <2>1. faults \in Nat
    BY DEF IInv, TypeOK
  <2>2. faults' = faults \/ faults' = faults + 1
    BY DEF Next, vars, Worker, Participants, Deliver, Publish, Save, Announce, Commit, Abandon,
       Revoke, PlaceOrder, AnswerStep, Answer, ConfirmOrder, CancelOrder, Finalize, Duplicate
  <2> QED BY <2>1, <2>2
<1>2. MovingInv
  BY <1>1
<1>3. (\A w \in Workers : handler[w] # Idle => Moves(handler[w]))'
  <2> SUFFICES ASSUME NEW w \in Workers, NEW g, g = handler'[w], g # Idle
               PROVE  Moves(g)'
    BY DEF Moves, Outcomes
  <2> QED BY <1>2, MovesStep
<1>4. CommandsReached'
  BY <1>1, <1>2, CommandsReachedStep DEF MovingInv
<1>5. AnswersPending'
  BY <1>2, AnswersPendingStep
<1>6. RowsMove'
  BY <1>1, <1>2, RowsMoveStep
<1> QED
  BY <1>3, <1>4, <1>5, <1>6 DEF MovingInv

\* One replica whose handlers do not fail: the order that is placed is started,
\* and whatever onEvent is given, early, late or twice, the saga always has a
\* command out, an answer coming or a verdict (start, onEvent, save and
\* commitOffsets, in that order).
THEOREM NobodyStranded ==
    ASSUME SoleWorker
    PROVE  Spec => []NoOrderStranded
<1>1. IInv /\ SoleInv /\ [Next]_vars => SoleInv'
  BY SoleStep
<1>2. IInv /\ AnswersAsked /\ [Next]_vars => AnswersAsked'
  BY AnswersStayAsked
<1>3. /\ IInv /\ SoleInv /\ AnswersAsked /\ (faults = 0 => MovingInv) /\ [Next]_vars
      => (faults = 0 => MovingInv)'
  BY MovingStep
<1>4. IInv /\ StartPending /\ (faults = 0 => MovingInv) => NoOrderStranded
  <2> SUFFICES ASSUME IInv, MovingInv, NEW o \in Orders, row[o] # NoRow
               PROVE  \/ row[o].status = "IN_PROGRESS" /\ Awaited(o, row[o].step)
                      \/ row[o].status = "COMPENSATING"
                      \/ sent[o]["ConfirmOrder"] > 0 \/ sent[o]["CancelOrder"] > 0
                      \/ \E w \in Workers : handler[w].pc = "announce" /\ handler[w].order = o
    BY DEF NoOrderStranded
  <2>1. row[o] \in Snapshot
    BY DEF IInv, TypeOK
  <2>2. CASE row[o].status = "IN_PROGRESS"
    <3> DEFINE i == row[o].step
    <3>1. i \in StepIndex /\ i \in Nat /\ Progress(row[o]) = 2 * i
      BY <2>1, <2>2, ProgressFacts DEF Snapshot
    <3>2. sent[o][Steps[i].command] > 0
      BY <2>2 DEF MovingInv, RowsMove
    <3>3. answer[o][i] = "none" \/ \E e \in Outcomes(i) : pending[o][e] > 0
      BY <3>1 DEF MovingInv, AnswersPending
    <3> QED BY <2>2, <3>2, <3>3 DEF Awaited, Outcomes
  <2>3. CASE Terminal(row[o])
    BY <2>3 DEF MovingInv, RowsMove
  <2>4. row[o].status \in SagaStatus
    BY <2>1 DEF Snapshot
  <2> QED BY <2>2, <2>3, <2>4 DEF SagaStatus, Terminal
<1> QED
  BY <1>1, <1>2, <1>3, <1>4, SoleInit, MovingInit, Invariant, StartIsPending, PTL DEF Spec
=============================================================================
