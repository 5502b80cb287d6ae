---------------------------- MODULE OrderLifecycle ----------------------------
(***************************************************************************)
(* What order-service promises: an order is created once, and then         *)
(* confirmed or cancelled once, each because somebody asked for it.  The   *)
(* commands may be repeated and may contradict each other.                 *)
(***************************************************************************)
CONSTANT Orders

VARIABLES
    asked,   \* asked[o]: the commands that were published for o
    status   \* what the order's stream says

vars == <<asked, status>>

Init ==
    /\ asked = [o \in Orders |-> {}]
    /\ status = [o \in Orders |-> "UNINITIALIZED"]

Ask(o, command) ==
    /\ asked' = [asked EXCEPT ![o] = @ \cup {command}]
    /\ UNCHANGED status

Move(o, command, from, to) ==
    /\ command \in asked[o]
    /\ status[o] = from
    /\ status' = [status EXCEPT ![o] = to]
    /\ UNCHANGED asked

Create(o) == Move(o, "CreateOrder", "UNINITIALIZED", "CREATED")
Confirm(o) == Move(o, "ConfirmOrder", "CREATED", "CONFIRMED")
Cancel(o) == Move(o, "CancelOrder", "CREATED", "CANCELLED")

Next ==
    \E o \in Orders :
        \/ \E command \in {"CreateOrder", "ConfirmOrder", "CancelOrder"} : Ask(o, command)
        \/ Create(o)
        \/ Confirm(o)
        \/ Cancel(o)

Spec == Init /\ [][Next]_vars
=============================================================================
