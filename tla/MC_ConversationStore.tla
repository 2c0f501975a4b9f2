----------------------- MODULE MC_ConversationStore -----------------------
(* Instances of ConversationStore for TLC. *)
EXTENDS ConversationStore, TLC

(* No definition tells one request, message ID or context ID from another. *)
IdSymmetry ==
    Permutations(Requests) \cup Permutations(Messages) \cup Permutations(Contexts)
=============================================================================
