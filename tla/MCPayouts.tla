------------------------------ MODULE MCPayouts ------------------------------
(* Instances of Payouts for TLC. *)
EXTENDS Payouts, TLC

CONSTANTS t1, t2, r1, s1, s2, a1, a2, k1, k2, h1, h2

MCTransactionOf == [r \in Refunds |-> t1]
MCGross == [t \in Transactions |-> 2]
MCFee == [t \in Transactions |-> 1]
MCRefunded == [r \in Refunds |-> 2]
MCKeys == [s \in Settlements |-> IF s = s1 THEN {a1, a2} ELSE {}]
MCSymmetry == Permutations(Calls) \cup Permutations(Hooks) \cup Permutations({a1, a2})

==============================================================================
