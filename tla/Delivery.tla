------------------------------ MODULE Delivery ------------------------------
(***************************************************************************)
(* What the outbox promises about one committed event (ADR 0005): every    *)
(* consumer is owed its effect until it is acknowledged or given up; an    *)
(* effect is performed at least once before it is acknowledged, possibly   *)
(* more than once, and never after; nobody is owed an effect forever.      *)
(***************************************************************************)
EXTENDS Naturals

CONSTANTS Consumers, External

VARIABLES debt, performed

Init == /\ debt = [c \in Consumers |-> "owed"]
        /\ performed = [c \in Consumers |-> 0]

Perform(c) == /\ c \in External /\ debt[c] = "owed"
              /\ performed' = [performed EXCEPT ![c] = @ + 1]
              /\ UNCHANGED debt

Acknowledge(c) == /\ debt[c] = "owed"
                  /\ c \in External => performed[c] > 0
                  /\ debt' = [debt EXCEPT ![c] = "acknowledged"]
                  /\ UNCHANGED performed

GiveUp(c) == /\ debt[c] = "owed"
             /\ debt' = [debt EXCEPT ![c] = "given up"]
             /\ UNCHANGED performed

Next == \E c \in Consumers : Perform(c) \/ Acknowledge(c) \/ GiveUp(c)

Discharged(c) == Acknowledge(c) \/ GiveUp(c)

Spec == /\ Init /\ [][Next]_<<debt, performed>>
        /\ \A c \in Consumers : WF_<<debt, performed>>(Discharged(c))

=============================================================================
