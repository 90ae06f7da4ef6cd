----------------------------- MODULE MCPayments ------------------------------
(* Instances of Payments for TLC. *)
EXTENDS Payments, TLC

CONSTANTS c1, c2, r1, r2, k1, k2, h1, h2

MCPaymentOf == [r \in Refunds |-> c1]
MCSymmetry == Permutations(Calls) \cup Permutations(Hooks)

==============================================================================
