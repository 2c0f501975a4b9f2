------------------------ MODULE MC_MemoryTaskManager ------------------------
(* Instances of MemoryTaskManager for TLC. *)
EXTENDS MemoryTaskManager, TLC

CONSTANTS p1, p2, k1

(* One goroutine updates the task, as a message processor that runs alone. *)
OneWriter == [k \in Tasks |-> {p1}]

(* Two streams at once.  AddArtifact, which is an update without a new state, *)
(* OnCancelTask, which is CleanTask after a look, and Send are in LifeOps.    *)
StreamOps == AllOps \ {"AddArtifact", "OnCancelTask", "Send"}

(* The life of a task and of the streams that either call opens on it. *)
LifeOps == {"BuildTask", "UpdateTaskState", "AddArtifact", "Send", "SubscribeTask",
            "OnResubscribe", "OnCancelTask", "CloseSubscriber", "Close"}

SubSymmetry == Permutations(Subs)
=============================================================================
