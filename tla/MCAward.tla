------------------------------- MODULE MCAward -------------------------------
(* Instances of Award for TLC. *)
EXTENDS Award, TLC

CONSTANTS v1, v2, k1, k2

\* The request is sent, cancelled before it is answered, and reopened.
MCRfqMoves ==
  { <<"DRAFT", "MARK_READY", "READY">>, <<"READY", "SEND", "SENT">>,
    <<"SENT", "CANCEL", "CANCELLED">>, <<"CANCELLED", "REOPEN", "DRAFT">> }

MCSymmetry == Permutations(Vendors) \cup Permutations(Calls)

==============================================================================
