------------------------ MODULE MC_RedisTaskManager ------------------------
(* Instances of RedisTaskManager for TLC. *)
EXTENDS RedisTaskManager, TLC

CONSTANTS p1, p2

(* One goroutine updates the task. *)
OneWriter == [k \in Tasks |-> {p1}]
============================================================================
