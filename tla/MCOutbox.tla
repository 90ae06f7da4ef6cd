------------------------------ MODULE MCOutbox ------------------------------
(* Small instances of Outbox for TLC.                                       *)
EXTENDS Outbox, TLC

CONSTANTS ack, email, export, w1, w2, s1, s2, p1, p2

WorkerSymmetry == Permutations(Workers)
SlotSymmetry == Permutations(Slots)
DispatchSymmetry == Permutations(Workers) \cup Permutations(Passes)

=============================================================================
