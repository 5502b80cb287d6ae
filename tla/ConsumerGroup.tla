----------------------------- MODULE ConsumerGroup -----------------------------
(***************************************************************************)
(* The loop that every Kafka consumer of the system is written in: connect,*)
(* subscribe, run with autoCommit off, handle a message, commit its offset *)
(* (ADR 0004 accepts the duplication).  Partitions are logs, and what a    *)
(* restarted consumer reads next follows from the offset the group has     *)
(* committed, or, as long as it has committed none, from fromBeginning.    *)
(*                                                                         *)
(* Handling is one step here, Handle; the services' modules take it apart  *)
(* and assume in return that a message comes back until it is committed,   *)
(* which AtLeastOnce says, or, once there is a committed offset,           *)
(* CommitsCoverWork.  Workers are the members of the group.                *)
(***************************************************************************)
EXTENDS Integers, Sequences

CONSTANTS
    Partitions,
    Workers,
    FromBeginning,  \* the option of consumer.subscribe
    MaxMessages,    \* bound on the messages of a partition
    MaxFaults       \* bound on Abandon and Reassign steps

ASSUME GroupAssumption ==
    FromBeginning \in BOOLEAN /\ MaxMessages \in Nat /\ MaxFaults \in Nat

\* What eachMessage tells apart: a message it handles, one that JSON.parse
\* refuses, one without a value.
Messages == {"message", "unparseable", "empty"}

NoOffset == -1

VARIABLES
    log,        \* the messages of each partition; the one at index i has offset i - 1
    committed,  \* the group's committed offset, or NoOffset
    position,   \* the offset the partition's owner reads next, in its memory
    handler,    \* what each worker is doing
    handled,    \* the effects of handlers on their databases, in order
    faults      \* how much of MaxFaults is used

vars == <<log, committed, position, handler, handled, faults>>

Idle == [pc |-> "idle"]

Offsets(p) == 0 .. Len(log[p]) - 1
MessageAt(p, n) == log[p][n + 1]

Effect == [partition : Partitions, offset : Nat]
Handler == [pc : {"handle", "commit"}, partition : Partitions, offset : Nat, owner : BOOLEAN]

TypeOK ==
    /\ log \in [Partitions -> Seq(Messages)]
    /\ committed \in [Partitions -> Nat \cup {NoOffset}]
    /\ position \in [Partitions -> Nat]
    /\ handler \in [Workers -> Handler \cup {Idle}]
    /\ handled \in Seq(Effect)
    /\ faults \in Nat

Init ==
    /\ log = [p \in Partitions |-> <<>>]
    /\ committed = [p \in Partitions |-> NoOffset]
    /\ position = [p \in Partitions |-> 0]
    /\ handler = [w \in Workers |-> Idle]
    /\ handled = <<>>
    /\ faults = 0
-----------------------------------------------------------------------------
\* Somebody publishes a message.
Publish(p, m) ==
    /\ Len(log[p]) < MaxMessages
    /\ log' = [log EXCEPT ![p] = Append(@, m)]
    /\ UNCHANGED <<committed, position, handler, handled, faults>>

Owner(w) == handler[w] # Idle /\ handler[w].owner

Job(pc, p) == [pc |-> pc, partition |-> p, offset |-> position[p], owner |-> TRUE]

\* Worker w may be given the next message of p, which is an m: one message of a
\* partition at a time, unless an earlier owner is still busy with one.
Ready(w, p, m) ==
    /\ handler[w] = Idle
    /\ position[p] \in Offsets(p)
    /\ MessageAt(p, position[p]) = m
    /\ \A v \in Workers : ~(Owner(v) /\ handler[v].partition = p)

\* eachMessage.  A message without a value is passed over without a commit; one
\* that JSON.parse refuses throws before the try, every time it is delivered.
Deliver(w, p) ==
    /\ \/ /\ Ready(w, p, "message")
          /\ handler' = [handler EXCEPT ![w] = Job("handle", p)]
          /\ UNCHANGED position
       \/ /\ Ready(w, p, "empty")
          /\ position' = [position EXCEPT ![p] = @ + 1]
          /\ UNCHANGED handler
    /\ UNCHANGED <<log, committed, handled, faults>>

EffectOf(w) == [partition |-> handler[w].partition, offset |-> handler[w].offset]

\* dispatch returns: whatever the handler does is done, once more if it was
\* done before.
Handle(w) ==
    /\ handler[w].pc = "handle"
    /\ handled' = Append(handled, EffectOf(w))
    /\ handler' = [handler EXCEPT ![w].pc = "commit"]
    /\ UNCHANGED <<log, committed, position, faults>>

\* Mutant: the broker accepts the commit of a worker that lost the partition.
Commit_Unfenced(w) ==
    LET h == handler[w]
    IN  /\ h.pc = "commit"
        /\ committed' = [committed EXCEPT ![h.partition] = h.offset + 1]
        /\ position' = [position EXCEPT ![h.partition] = h.offset + 1]
        /\ handler' = [handler EXCEPT ![w] = Idle]
        /\ UNCHANGED <<log, handled, faults>>

\* commitOffsets of offset + 1, refused to a worker that lost the partition.
Commit(w) ==
    LET h == handler[w]
    IN  /\ h.pc = "commit"
        /\ IF h.owner
           THEN /\ committed' = [committed EXCEPT ![h.partition] = h.offset + 1]
                /\ position' = [position EXCEPT ![h.partition] = h.offset + 1]
           ELSE UNCHANGED <<committed, position>>
        /\ handler' = [handler EXCEPT ![w] = Idle]
        /\ UNCHANGED <<log, handled, faults>>

\* Mutant: the error is logged and the offset committed all the same.
Abandon_Committed(w) ==
    LET h == handler[w]
    IN  /\ h # Idle
        /\ faults < MaxFaults
        /\ faults' = faults + 1
        /\ IF h.owner
           THEN /\ committed' = [committed EXCEPT ![h.partition] = h.offset + 1]
                /\ position' = [position EXCEPT ![h.partition] = h.offset + 1]
           ELSE UNCHANGED <<committed, position>>
        /\ handler' = [handler EXCEPT ![w] = Idle]
        /\ UNCHANGED <<log, handled>>

\* The handler or the commit throws: eachMessage is called again with the
\* message, whose offset is not committed.
Abandon(w) ==
    /\ handler[w] # Idle
    /\ faults < MaxFaults
    /\ faults' = faults + 1
    /\ handler' = [handler EXCEPT ![w] = Idle]
    /\ UNCHANGED <<log, committed, position, handled>>

\* Mutant: without a committed offset, whatever subscribe says, the latest.
Restart_Latest(p) == IF committed[p] # NoOffset THEN committed[p] ELSE Len(log[p])

\* Where a new owner of p starts to read.
Restart(p) ==
    IF committed[p] # NoOffset THEN committed[p]
    ELSE IF FromBeginning THEN 0 ELSE Len(log[p])

\* p gets a new owner.  The earlier one has died, or it was too slow and goes
\* on with its message, if it has one of p in hand.
Reassign(p) ==
    /\ faults < MaxFaults
    /\ faults' = faults + 1
    /\ position' = [position EXCEPT ![p] = Restart(p)]
    /\ \/ handler' = [w \in Workers |->
             IF Owner(w) /\ handler[w].partition = p
             THEN [handler[w] EXCEPT !.owner = FALSE] ELSE handler[w]]
       \/ handler' = [w \in Workers |->
             IF Owner(w) /\ handler[w].partition = p THEN Idle ELSE handler[w]]
    /\ UNCHANGED <<log, committed, handled>>
-----------------------------------------------------------------------------
Environment ==
    \/ \E p \in Partitions, m \in Messages : Publish(p, m)
    \/ \E w \in Workers : Abandon(w)
    \/ \E p \in Partitions : Reassign(p)

Worker(w) == (\E p \in Partitions : Deliver(w, p)) \/ Handle(w) \/ Commit(w)

Next == Environment \/ \E w \in Workers : Worker(w)

Spec == Init /\ [][Next]_vars
-----------------------------------------------------------------------------
(***************************************************************************)
(* Properties.                                                             *)
(***************************************************************************)
Done(p, n) == \E i \in DOMAIN handled : handled[i] = [partition |-> p, offset |-> n]

\* "autoCommit: false + explicit commitOffsets after successful command
\* execution gives at-least-once processing" (OrderKafkaConsumer): what the
\* group has committed, and so will not read again, it has handled.
AtLeastOnce ==
    \A p \in Partitions : \A n \in 0 .. committed[p] - 1 :
        MessageAt(p, n) = "message" => Done(p, n)

\* Once the group has an offset to restart from, it never goes back and never
\* moves over a message that was not handled, wherever a group without an offset
\* would start: what the consumers that read from the latest offset can rely on
\* (commitOffsets after dispatch, one owner per partition).
CommitsCoverWork ==
    [][\A p \in Partitions : committed[p] # NoOffset =>
          /\ committed[p] <= committed'[p]
          /\ \A n \in committed[p] .. committed'[p] - 1 :
                MessageAt(p, n) = "message" => Done(p, n)]_vars
-----------------------------------------------------------------------------
(***************************************************************************)
(* The inductive invariant of a group that reads from anywhere.            *)
(***************************************************************************)

\* A partition has one owner; it is at the partition's position.
OwnersTrue ==
    \A w \in Workers : Owner(w) =>
        /\ handler[w].offset = position[handler[w].partition]
        /\ \A v \in Workers \ {w} : ~(Owner(v) /\ handler[v].partition = handler[w].partition)

\* The owner is at most ahead of the committed offset by messages without a value.
CommittedTrue ==
    \A p \in Partitions :
        /\ position[p] <= Len(log[p])
        /\ committed[p] # NoOffset =>
              /\ committed[p] <= position[p]
              /\ \A n \in committed[p] .. position[p] - 1 : MessageAt(p, n) # "message"

\* A message is committed after it was handled.
WorkTrue ==
    \A w \in Workers : handler[w] # Idle =>
        LET h == handler[w]
        IN  /\ h.offset \in Offsets(h.partition)
            /\ h.pc = "commit" /\ MessageAt(h.partition, h.offset) = "message"
                  => Done(h.partition, h.offset)

GroupInv == TypeOK /\ OwnersTrue /\ CommittedTrue /\ WorkTrue
=============================================================================
