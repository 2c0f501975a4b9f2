---------------------- MODULE MC_RedisConversations ----------------------
(* Instances of RedisConversations for TLC. *)
EXTENDS RedisConversations, TLC

(* No definition tells one request, message ID or context ID from another. *)
IdSymmetry ==
    Permutations(Requests) \cup Permutations(Messages) \cup Permutations(Contexts)
=============================================================================
