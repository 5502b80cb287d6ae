----------------------------- MODULE Participant -----------------------------
(***************************************************************************)
(* What the orchestrator needs of the service behind a saga step           *)
(* (SagaStep): a command that is asked for, once or many times, is         *)
(* answered once, with success or with failure; a success is undone only   *)
(* when that is asked for, at most once.                                   *)
(*                                                                         *)
(* SagaStateMachine takes this for granted of its environment (its action  *)
(* Answer); Inventory and Payment are shown to implement it.               *)
(***************************************************************************)
CONSTANT Orders

VARIABLES
    asked,      \* orders whose command was published
    undoAsked,  \* orders whose compensation command was published
    answer      \* what the service has recorded, and hence says

vars == <<asked, undoAsked, answer>>

Init ==
    /\ asked = {}
    /\ undoAsked = {}
    /\ answer = [o \in Orders |-> "none"]

Ask(o) ==
    /\ asked' = asked \cup {o}
    /\ UNCHANGED <<undoAsked, answer>>

Answer(o, outcome) ==
    /\ o \in asked
    /\ answer[o] = "none"
    /\ answer' = [answer EXCEPT ![o] = outcome]
    /\ UNCHANGED <<asked, undoAsked>>

\* Only a step that succeeded is compensated.
AskUndo(o) ==
    /\ answer[o] \in {"success", "undone"}
    /\ undoAsked' = undoAsked \cup {o}
    /\ UNCHANGED <<asked, answer>>

Undo(o) ==
    /\ o \in undoAsked
    /\ answer[o] = "success"
    /\ answer' = [answer EXCEPT ![o] = "undone"]
    /\ UNCHANGED <<asked, undoAsked>>

Next ==
    \E o \in Orders :
        \/ Ask(o)
        \/ \E outcome \in {"success", "failure"} : Answer(o, outcome)
        \/ AskUndo(o)
        \/ Undo(o)

Spec == Init /\ [][Next]_vars

\* Every request is answered, every compensation is carried out.
Answers == \A o \in Orders : o \in asked ~> answer[o] # "none"
Undoes == \A o \in Orders : o \in undoAsked ~> answer[o] = "undone"
=============================================================================
