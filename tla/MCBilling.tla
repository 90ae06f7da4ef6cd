------------------------------ MODULE MCBilling ------------------------------
(* Instances of Billing for TLC. *)
EXTENDS Billing, TLC

CONSTANTS s1, s2, p1, p2, k1, k2, o1

MCAllowance == [plan \in Paid \cup {"FREE"} |-> IF plan = "FREE" THEN 1 ELSE 2]
MCQuantity == [k \in Requests |-> 2]

==============================================================================
