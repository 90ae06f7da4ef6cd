------------------------------ MODULE MCCampaign ------------------------------
(* Instances of Campaign for TLC. *)
EXTENDS Campaign, TLC

CONSTANTS r1, r2

RecipientSymmetry == Permutations(Recipients)

===============================================================================
