------------------------- MODULE MemoryTaskManager -------------------------
(***************************************************************************)
(* MemoryTaskManager of taskmanager/memory.go and its TaskHandler of       *)
(* memory_handler.go: goroutines (request handlers and message processors)  *)
(* build, update, cancel and clean tasks, open streams on them and close    *)
(* the manager, while the cleanup goroutine reaps expired tasks.            *)
(*                                                                          *)
(* A step is one critical section of taskMu or mu, or one step of Send or   *)
(* Close on a subscriber, which here is the EventStream that the module     *)
(* MemorySubscriber implements.  Handlers let go of taskMu before they send *)
(* and before they close, which is where they interleave.                   *)
(*                                                                          *)
(* A handler that returns "task not found" changes nothing and is no step.  *)
(***************************************************************************)
EXTENDS Naturals, FiniteSets

CONSTANTS
    Threads,    \* goroutines of request handlers and message processors
    Cleaner,    \* the cleanup goroutine
    Tasks,      \* task IDs; an ID may be built again after its task is removed
    Subs,       \* subscribers, each created at most once
    Writers,    \* for each task, the goroutines that update it
    BufSize,    \* TaskSubscriberBufSize
    Ops,        \* the operations this instance exercises
    None

AllOps == {"BuildTask", "UpdateTaskState", "AddArtifact", "Send", "CloseSubscriber",
           "SubscribeTask", "OnResubscribe", "OnCancelTask", "CleanTask",
           "OnPushNotificationSet", "Close"}

Procs == Threads \cup {Cleaner}

ASSUME CleanerAssumption == Cleaner \notin Threads
ASSUME WritersAssumption == Writers \in [Tasks -> SUBSET Threads]
ASSUME BufSizeAssumption == BufSize \in Nat \ {0}
ASSUME NoneAssumption == None \notin Tasks /\ None \notin Subs

VARIABLES
    blocking,    \* TaskSubscriberBlockingSend, fixed when the manager is made
    manager,     \* how far Close is: "open", "stopping", "emptied" or "closed"
    status,      \* Tasks, and whether the stored state is final (isFinalState)
    aged,        \* tasks whose status timestamp is older than TaskTTL
    live,        \* how many uncancelled contexts were made for each task ID
    registered,  \* Subscribers: the streams of each task
    push,        \* PushNotifications, and whether the task existed at the Set
    owner,       \* the task each subscriber was made for
    phase,       \* each subscriber: "unused", "new", "open", "closing", "closed"
    queued,      \* how many events wait in its channel
    story,       \* history: how its events followed each other (see Follow)
    me           \* where each goroutine is, and its local variables

tasks == <<status, aged, live>>
streams == <<owner, phase, queued, story>>
vars == <<blocking, manager, tasks, registered, push, streams, me>>

(* The local variables: the task and the event of a notification, those     *)
(* still to notify (subsCopy) and failedSubscribers, the subscriber it is    *)
(* sending to or closing, those it took off a list and still has to close,  *)
(* where it goes then, and the push configurations it has to delete.        *)
Locals ==
    [pc: {"idle", "snapshot", "notify", "send", "cleanupFailed", "cleanSubs", "add",
          "clean", "close", "finishClose", "drop", "wait", "closed", "stopped"},
     task: Tasks \cup {None},
     event: {"none", "update", "final", "direct"},
     todo: SUBSET Subs,
     failed: SUBSET Subs,
     sub: Subs \cup {None},
     toClose: SUBSET Subs,
     then: {"idle", "cleanSubs", "drop", "closed"},
     drop: SUBSET Tasks]

Idle ==
    [pc |-> "idle", task |-> None, event |-> "none", todo |-> {}, failed |-> {},
     sub |-> None, toClose |-> {}, then |-> "idle", drop |-> {}]

TypeOK ==
    /\ blocking \in BOOLEAN
    /\ manager \in {"open", "stopping", "emptied", "closed"}
    /\ status \in [Tasks -> {"absent", "active", "final"}]
    /\ aged \subseteq Tasks
    /\ live \in [Tasks -> Nat]
    /\ registered \in [Tasks -> SUBSET Subs]
    /\ push \in [Tasks -> {"none", "task", "noTask"}]
    /\ owner \in [Subs -> Tasks \cup {None}]
    /\ phase \in [Subs -> {"unused", "new", "open", "closing", "closed"}]
    /\ queued \in [Subs -> 0 .. BufSize]
    /\ story \in [Subs -> {"none", "update", "final", "missed", "afterFinal", "gap"}]
    /\ me \in [Procs -> Locals]
    /\ \A s \in Subs : phase[s] = "open" => owner[s] \in Tasks

(* NewMemoryTaskManager *)
Init ==
    /\ blocking \in BOOLEAN
    /\ manager = "open"
    /\ status = [k \in Tasks |-> "absent"]
    /\ aged = {}
    /\ live = [k \in Tasks |-> 0]
    /\ registered = [k \in Tasks |-> {}]
    /\ push = [k \in Tasks |-> "none"]
    /\ owner = [s \in Subs |-> None]
    /\ phase = [s \in Subs |-> "unused"]
    /\ queued = [s \in Subs |-> 0]
    /\ story = [s \in Subs |-> "none"]
    /\ me = [p \in Procs |-> Idle]

At(p, label) == me[p].pc = label

Become(p, locals) == me' = [me EXCEPT ![p] = locals]

Exists(k) == status[k] # "absent"

-----------------------------------------------------------------------------
(* Tasks *)

(* Mutant of BuildTask: it does not look whether the task exists. *)
BuildTaskUnchecked(p, k) ==
    /\ At(p, "idle")
    /\ status' = [status EXCEPT ![k] = "active"]
    /\ live' = [live EXCEPT ![k] = @ + 1]
    /\ aged' = aged \ {k}
    /\ UNCHANGED <<blocking, manager, registered, push, streams, me>>

BuildTask(p, k) ==
    /\ At(p, "idle")
    /\ ~Exists(k)
    /\ status' = [status EXCEPT ![k] = "active"]
    /\ live' = [live EXCEPT ![k] = @ + 1]
    /\ aged' = aged \ {k}
    /\ UNCHANGED <<blocking, manager, registered, push, streams, me>>

(* The critical section of UpdateTaskState.  Any state may follow any other. *)
UpdateTaskState(p, k, final) ==
    /\ p \in Writers[k] /\ At(p, "idle")
    /\ Exists(k)
    /\ status' = [status EXCEPT ![k] = IF final THEN "final" ELSE "active"]
    /\ aged' = aged \ {k}
    /\ Become(p, [Idle EXCEPT !.pc = "snapshot", !.task = k,
                              !.event = IF final THEN "final" ELSE "update"])
    /\ UNCHANGED <<blocking, manager, live, registered, push, streams>>

AddArtifact(p, k) ==
    /\ p \in Writers[k] /\ At(p, "idle")
    /\ Exists(k)
    /\ Become(p, [Idle EXCEPT !.pc = "snapshot", !.task = k, !.event = "update"])
    /\ UNCHANGED <<blocking, manager, tasks, registered, push, streams>>

(* OnCancelTask finds the task, lets go of taskMu and calls CleanTask. *)
OnCancelTask(p, k) ==
    /\ At(p, "idle")
    /\ Exists(k)
    /\ Become(p, [Idle EXCEPT !.pc = "clean", !.task = k])
    /\ UNCHANGED <<blocking, manager, tasks, registered, push, streams>>

(* Mutant of RemoveTasks: it cancels a task that is not there. *)
RemoveTasksBlindly(p, removed, then, drop) ==
    /\ status' = [k \in Tasks |-> IF k \in removed THEN "absent" ELSE status[k]]
    /\ live' = [k \in Tasks |-> IF k \in removed THEN live[k] - 1 ELSE live[k]]
    /\ aged' = aged \ removed
    /\ registered' = [k \in Tasks |-> IF k \in removed THEN {} ELSE registered[k]]
    /\ Become(p, [Idle EXCEPT !.pc = "close", !.then = then, !.drop = drop,
                              !.toClose = UNION {registered[k] : k \in removed}])
    /\ UNCHANGED <<blocking, push, streams>>

(* What CleanTask, the reaper and Close do under taskMu: cancel and remove  *)
(* tasks, and take their subscribers off the lists to close them later.     *)
RemoveTasks(p, removed, then, drop) ==
    /\ status' = [k \in Tasks |-> IF k \in removed THEN "absent" ELSE status[k]]
    /\ live' = [k \in Tasks |-> IF k \in removed /\ Exists(k) THEN live[k] - 1 ELSE live[k]]
    /\ aged' = aged \ removed
    /\ registered' = [k \in Tasks |-> IF k \in removed THEN {} ELSE registered[k]]
    /\ Become(p, [Idle EXCEPT !.pc = "close", !.then = then, !.drop = drop,
                              !.toClose = UNION {registered[k] : k \in removed}])
    /\ UNCHANGED <<blocking, push, streams>>

(* Mutant of CleanTask: the push configuration stays. *)
CleanTaskKeepsConfig(p, k) ==
    /\ Exists(k)
    /\ RemoveTasks(p, {k}, "idle", {})
    /\ UNCHANGED manager

CleanTask(p, k) ==
    /\ Exists(k)
    /\ RemoveTasks(p, {k}, "drop", {k})
    /\ UNCHANGED manager

(* CleanTask under OnCancelTask, which ignores that the task is gone. *)
CleanCanceledTask(p) ==
    /\ At(p, "clean")
    /\ \/ CleanTask(p, me[p].task)
       \/ /\ ~Exists(me[p].task)
          /\ Become(p, Idle)
          /\ UNCHANGED <<blocking, manager, tasks, registered, push, streams>>

(* The push configurations, under mu, when the subscribers are closed. *)
DropConfigs(p) ==
    /\ At(p, "drop")
    /\ push' = [k \in Tasks |-> IF k \in me[p].drop THEN "none" ELSE push[k]]
    /\ Become(p, Idle)
    /\ UNCHANGED <<blocking, manager, tasks, registered, streams>>

(* OnPushNotificationSet does not look whether the task exists. *)
OnPushNotificationSet(p, k) ==
    /\ At(p, "idle")
    /\ push' = [push EXCEPT ![k] = IF Exists(k) THEN "task" ELSE "noTask"]
    /\ UNCHANGED <<blocking, manager, tasks, registered, streams, me>>

-----------------------------------------------------------------------------
(* Streams *)

Register(k, s) ==
    /\ phase' = [phase EXCEPT ![s] = "open"]
    /\ owner' = [owner EXCEPT ![s] = k]
    /\ registered' = [registered EXCEPT ![k] = @ \cup {s}]
    /\ UNCHANGED <<blocking, manager, tasks, push, queued, story>>

(* OnResubscribe does all of it in one critical section. *)
OnResubscribe(p, k, s) ==
    /\ At(p, "idle")
    /\ Exists(k)
    /\ phase[s] = "unused"
    /\ Register(k, s)
    /\ UNCHANGED me

(* SubscribeTask in two: checkTaskExists, after which it makes a subscriber *)
(* that is its own until addSubscriber puts it on the list.                 *)
SubscribeTask(p, k, s) ==
    /\ At(p, "idle")
    /\ Exists(k)
    /\ phase[s] = "unused"
    /\ phase' = [phase EXCEPT ![s] = "new"]
    /\ Become(p, [Idle EXCEPT !.pc = "add", !.task = k, !.sub = s])
    /\ UNCHANGED <<blocking, manager, tasks, registered, push, owner, queued, story>>

AddSubscriber(p) ==
    /\ At(p, "add")
    /\ Register(me[p].task, me[p].sub)
    /\ Become(p, Idle)

(* A message processor sends on a subscriber of its task, or closes it. *)
Send(p, s) ==
    /\ At(p, "idle")
    /\ phase[s] = "open" /\ p \in Writers[owner[s]]
    /\ Become(p, [Idle EXCEPT !.pc = "send", !.event = "direct", !.sub = s])
    /\ UNCHANGED <<blocking, manager, tasks, registered, push, streams>>

CloseSubscriber(p, s) ==
    /\ At(p, "idle")
    /\ phase[s] = "open" /\ p \in Writers[owner[s]]
    /\ Become(p, [Idle EXCEPT !.pc = "close", !.toClose = {s}])
    /\ UNCHANGED <<blocking, manager, tasks, registered, push, streams>>

(* The reader of the stream: the server's SSE writer, or nobody. *)
Receive(s) ==
    /\ queued[s] > 0
    /\ queued' = [queued EXCEPT ![s] = @ - 1]
    /\ UNCHANGED <<blocking, manager, tasks, registered, push, owner, phase, story, me>>

-----------------------------------------------------------------------------
(* notifySubscribers and what follows it *)

Snapshot(p) ==
    /\ At(p, "snapshot")
    /\ Become(p, [me[p] EXCEPT !.pc = "notify", !.todo = registered[me[p].task]])
    /\ UNCHANGED <<blocking, manager, tasks, registered, push, streams>>

(* The look at the closed flag with which a Send begins. *)
Notify(p, s) ==
    /\ At(p, "notify") /\ s \in me[p].todo
    /\ Become(p, IF phase[s] = "open"
                 THEN [me[p] EXCEPT !.pc = "send", !.todo = @ \ {s}, !.sub = s]
                 ELSE [me[p] EXCEPT !.todo = @ \ {s}, !.failed = @ \cup {s}])
    /\ UNCHANGED <<blocking, manager, tasks, registered, push, streams>>

Direct(p) == me[p].event = "direct"

(* The history tells a final event that another followed, and an event that *)
(* was refused for want of room before another went in.                     *)
Follow(last, e) ==
    CASE last \in {"final", "afterFinal"} -> "afterFinal"
      [] last \in {"missed", "gap"} -> "gap"
      [] OTHER -> e

Accept(p) ==
    LET s == me[p].sub IN
    /\ At(p, "send")
    /\ phase[s] # "closed" /\ queued[s] < BufSize
    /\ queued' = [queued EXCEPT ![s] = @ + 1]
    /\ story' = [story EXCEPT ![s] = IF Direct(p) THEN @ ELSE Follow(@, me[p].event)]
    /\ Become(p, IF Direct(p) THEN Idle ELSE [me[p] EXCEPT !.pc = "notify", !.sub = None])
    /\ UNCHANGED <<blocking, manager, tasks, registered, push, owner, phase>>

(* Mutant of Refuse: a failed send is not remembered. *)
RefuseForgotten(p) ==
    LET s == me[p].sub IN
    /\ At(p, "send")
    /\ phase[s] # "open" \/ (~blocking /\ queued[s] = BufSize)
    /\ story' = [story EXCEPT ![s] =
                    IF Direct(p) \/ phase[s] # "open" \/ @ \in {"afterFinal", "gap"}
                    THEN @ ELSE "missed"]
    /\ Become(p, IF Direct(p) THEN Idle ELSE [me[p] EXCEPT !.pc = "notify", !.sub = None])
    /\ UNCHANGED <<blocking, manager, tasks, registered, push, owner, phase, queued>>

(* Mutant of Refuse: the select does not watch done. *)
RefuseWithoutDone(p) ==
    LET s == me[p].sub IN
    /\ At(p, "send")
    /\ ~blocking /\ queued[s] = BufSize
    /\ story' = [story EXCEPT ![s] = IF Direct(p) \/ @ = "gap" THEN @ ELSE "missed"]
    /\ Become(p, IF Direct(p) THEN Idle
                 ELSE [me[p] EXCEPT !.pc = "notify", !.sub = None, !.failed = @ \cup {s}])
    /\ UNCHANGED <<blocking, manager, tasks, registered, push, owner, phase, queued>>

(* A blocking send without room waits until there is some or Close begins. *)
Refuse(p) ==
    LET s == me[p].sub IN
    /\ At(p, "send")
    /\ phase[s] # "open" \/ (~blocking /\ queued[s] = BufSize)
    /\ story' = [story EXCEPT ![s] =
                    IF Direct(p) \/ phase[s] # "open" \/ @ \in {"afterFinal", "gap"}
                    THEN @ ELSE "missed"]
    /\ Become(p, IF Direct(p) THEN Idle
                 ELSE [me[p] EXCEPT !.pc = "notify", !.sub = None, !.failed = @ \cup {s}])
    /\ UNCHANGED <<blocking, manager, tasks, registered, push, owner, phase, queued>>

(* Mutant of AfterNotify: a final state leaves the subscribers. *)
AfterNotifyKeeps(p) == "idle"

(* UpdateTaskState cleans the subscribers up when the state is final. *)
AfterNotify(p) == IF me[p].event = "final" THEN "cleanSubs" ELSE "idle"

EndNotify(p) ==
    /\ At(p, "notify") /\ me[p].todo = {}
    /\ Become(p, IF me[p].failed # {} THEN [me[p] EXCEPT !.pc = "cleanupFailed"]
                 ELSE IF AfterNotify(p) = "idle" THEN Idle
                 ELSE [me[p] EXCEPT !.pc = AfterNotify(p)])
    /\ UNCHANGED <<blocking, manager, tasks, registered, push, streams>>

(* Mutant of CleanupFailedSubscribers: it takes them off and closes none. *)
DropFailedSubscribers(p) ==
    LET k == me[p].task IN
    /\ At(p, "cleanupFailed")
    /\ registered' = [registered EXCEPT ![k] = @ \ me[p].failed]
    /\ Become(p, [me[p] EXCEPT !.pc = "close", !.failed = {}, !.then = AfterNotify(p)])
    /\ UNCHANGED <<blocking, manager, tasks, push, streams>>

CleanupFailedSubscribers(p) ==
    LET k == me[p].task IN
    /\ At(p, "cleanupFailed")
    /\ registered' = [registered EXCEPT ![k] = @ \ me[p].failed]
    /\ Become(p, [me[p] EXCEPT !.pc = "close", !.failed = {}, !.then = AfterNotify(p),
                               !.toClose = registered[k] \cap me[p].failed])
    /\ UNCHANGED <<blocking, manager, tasks, push, streams>>

CleanSubscribers(p) ==
    LET k == me[p].task IN
    /\ At(p, "cleanSubs")
    /\ registered' = [registered EXCEPT ![k] = {}]
    /\ Become(p, [Idle EXCEPT !.pc = "close", !.toClose = registered[k]])
    /\ UNCHANGED <<blocking, manager, tasks, push, streams>>

(* Close on one subscriber: a second Close returns at once. *)
CloseSub(p, s) ==
    /\ At(p, "close") /\ s \in me[p].toClose
    /\ IF phase[s] = "open"
       THEN /\ phase' = [phase EXCEPT ![s] = "closing"]
            /\ Become(p, [me[p] EXCEPT !.pc = "finishClose", !.toClose = @ \ {s}, !.sub = s])
       ELSE /\ Become(p, [me[p] EXCEPT !.toClose = @ \ {s}])
            /\ UNCHANGED phase
    /\ UNCHANGED <<blocking, manager, tasks, registered, push, owner, queued, story>>

FinishClose(p) ==
    /\ At(p, "finishClose")
    /\ phase' = [phase EXCEPT ![me[p].sub] = "closed"]
    /\ Become(p, [me[p] EXCEPT !.pc = "close", !.sub = None])
    /\ UNCHANGED <<blocking, manager, tasks, registered, push, owner, queued, story>>

EndClose(p) ==
    /\ At(p, "close") /\ me[p].toClose = {}
    /\ Become(p, IF me[p].then = "idle" THEN Idle
                 ELSE [me[p] EXCEPT !.pc = me[p].then, !.then = "idle"])
    /\ UNCHANGED <<blocking, manager, tasks, registered, push, streams>>

-----------------------------------------------------------------------------
(* The cleanup goroutine and Close *)

(* Time passes: the status of a terminal task gets older than TaskTTL. *)
Age(k) ==
    /\ status[k] = "final" /\ k \notin aged
    /\ aged' = aged \cup {k}
    /\ UNCHANGED <<blocking, manager, status, live, registered, push, streams, me>>

Expired == {k \in aged : status[k] = "final"}

(* Mutant of CleanExpiredTasks: the streams of the task stay on its list. *)
ReapTasksOnly ==
    /\ At(Cleaner, "idle")
    /\ Expired # {}
    /\ status' = [k \in Tasks |-> IF k \in Expired THEN "absent" ELSE status[k]]
    /\ live' = [k \in Tasks |-> IF k \in Expired THEN live[k] - 1 ELSE live[k]]
    /\ aged' = aged \ Expired
    /\ Become(Cleaner, [Idle EXCEPT !.pc = "drop", !.drop = Expired])
    /\ UNCHANGED <<blocking, manager, registered, push, streams>>

(* A tick of cleanExpiredTasks that finds something to reap. *)
CleanExpiredTasks ==
    /\ At(Cleaner, "idle")
    /\ Expired # {}
    /\ RemoveTasks(Cleaner, Expired, "drop", Expired)
    /\ UNCHANGED manager

(* Mutant of StopCleaner: Close signals only after it has waited. *)
StopCleanerLate ==
    /\ At(Cleaner, "idle")
    /\ manager = "emptied"
    /\ Become(Cleaner, [Idle EXCEPT !.pc = "stopped"])
    /\ UNCHANGED <<blocking, manager, tasks, registered, push, streams>>

StopCleaner ==
    /\ At(Cleaner, "idle")
    /\ manager = "stopping"
    /\ Become(Cleaner, [Idle EXCEPT !.pc = "stopped"])
    /\ UNCHANGED <<blocking, manager, tasks, registered, push, streams>>

(* The one call of Close that closeOnce lets in. *)
Close(p) ==
    /\ At(p, "idle")
    /\ manager = "open"
    /\ manager' = "stopping"
    /\ Become(p, [Idle EXCEPT !.pc = "wait"])
    /\ UNCHANGED <<blocking, tasks, registered, push, streams>>

(* Close goes on when the cleanup goroutine is gone.  It leaves the push    *)
(* configurations alone, and every handler can still be called.             *)
Teardown(p) ==
    /\ At(p, "wait") /\ At(Cleaner, "stopped")
    /\ RemoveTasks(p, Tasks, "closed", {})
    /\ manager' = "emptied"

CloseReturns(p) ==
    /\ At(p, "closed")
    /\ manager' = "closed"
    /\ Become(p, Idle)
    /\ UNCHANGED <<blocking, tasks, registered, push, streams>>

-----------------------------------------------------------------------------
(* A call of one of the operations; nothing says that any is ever made. *)
Call(p) ==
    \/ \E k \in Tasks :
          \/ "BuildTask" \in Ops /\ BuildTask(p, k)
          \/ "UpdateTaskState" \in Ops /\ \E final \in BOOLEAN : UpdateTaskState(p, k, final)
          \/ "AddArtifact" \in Ops /\ AddArtifact(p, k)
          \/ "OnCancelTask" \in Ops /\ OnCancelTask(p, k)
          \/ "CleanTask" \in Ops /\ At(p, "idle") /\ CleanTask(p, k)
          \/ "OnPushNotificationSet" \in Ops /\ OnPushNotificationSet(p, k)
          \/ \E s \in Subs :
                \/ "SubscribeTask" \in Ops /\ SubscribeTask(p, k, s)
                \/ "OnResubscribe" \in Ops /\ OnResubscribe(p, k, s)
    \/ \E s \in Subs :
          \/ "Send" \in Ops /\ Send(p, s)
          \/ "CloseSubscriber" \in Ops /\ CloseSubscriber(p, s)
    \/ "Close" \in Ops /\ Close(p)

(* The rest of an operation that was called. *)
Step(p) ==
    \/ CleanCanceledTask(p) \/ DropConfigs(p) \/ AddSubscriber(p)
    \/ Snapshot(p) \/ Accept(p) \/ Refuse(p) \/ EndNotify(p)
    \/ \E s \in Subs : Notify(p, s) \/ CloseSub(p, s)
    \/ CleanupFailedSubscribers(p) \/ CleanSubscribers(p)
    \/ FinishClose(p) \/ EndClose(p)
    \/ Teardown(p) \/ CloseReturns(p)

Next ==
    \/ \E p \in Threads : Call(p)
    \/ \E p \in Procs : Step(p)
    \/ CleanExpiredTasks \/ StopCleaner
    \/ \E k \in Tasks : Age(k)
    \/ \E s \in Subs : Receive(s)

(* A goroutine that can run is eventually run, time passes and the ticker   *)
(* ticks.  A select with a tick and the stop signal both ready picks either  *)
(* at random, so the cleanup goroutine does not pass over the stop forever.  *)
(* Nothing is assumed of the readers of the streams.                        *)
Fairness ==
    /\ \A p \in Procs : WF_vars(Step(p))
    /\ WF_vars(CleanExpiredTasks)
    /\ SF_vars(StopCleaner)
    /\ \A k \in Tasks : WF_vars(Age(k))

Spec == Init /\ [][Next]_vars /\ Fairness

-----------------------------------------------------------------------------
(* Properties *)

(* No stream is forgotten: one that is open is on the list of its task, or  *)
(* a goroutine has taken it off the list and is about to close it; one that *)
(* is closing has a goroutine that finishes.  The list is taken in one      *)
(* critical section and closed outside of it by cleanSubscribers,           *)
(* cleanupFailedSubscribers, CleanTask, cleanExpiredTasks and Close.        *)
NoForgottenStream ==
    \A s \in Subs :
        /\ phase[s] = "open" =>
              \/ s \in registered[owner[s]]
              \/ \E p \in Procs : s \in me[p].toClose
        /\ phase[s] = "closing" =>
              \E p \in Procs : At(p, "finishClose") /\ me[p].sub = s

(* Every context that was made for a task and not cancelled belongs to the  *)
(* task that is stored now: none is made twice (BuildTask) or dropped       *)
(* uncancelled by any of the three ways to remove a task.                   *)
NoLeakedContext == \A k \in Tasks : live[k] = IF Exists(k) THEN 1 ELSE 0

Emptied == manager \in {"emptied", "closed"}

(* A push configuration set for a stored task does not outlive it: when the *)
(* task is gone a goroutine is on its way to delete the configuration,      *)
(* until Close, which keeps them.                                           *)
NoOrphanConfig ==
    \A k \in Tasks :
        push[k] = "task" /\ ~Exists(k) =>
            Emptied \/ \E p \in Procs : k \in me[p].drop

(* The event marked Final that UpdateTaskState sends is the last one a      *)
(* stream gets from the manager, if one goroutine updates the task.         *)
FinalIsLast == \A s \in Subs : story[s] # "afterFinal"

(* A reader never misses an event and then gets a later one: a stream that  *)
(* refused an event for want of room is closed before the next.             *)
NoGap == \A s \in Subs : story[s] # "gap"

(* Both: what a stream hands out is a beginning of what was sent on it, up to *)
(* the final event, however the queue fills up and cleanups interleave.      *)
StreamsAreSound == NoGap /\ FinalIsLast

(* The readers of the streams get what TaskStreams promises, if one goroutine *)
(* updates each task: no stream is opened again, nothing gets into one that is *)
(* closed, or after an event it missed or its final one, and it misses one    *)
(* only when it is full; however updates, cleanups and closings interleave.   *)
Promise == INSTANCE TaskStreams
ImplementsTaskStreams == Promise!SafeSpec

(* The streams on the list of a task that is not stored. *)
Stranded(k) == {s \in registered[k] : ~Exists(k)}

(* No removal leaves a stream on the list of the task it removes, and a     *)
(* stream gets onto the list of a task that is gone in one way only: through *)
(* a SubscribeTask whose task was removed after it looked, since it looks    *)
(* and registers in two critical sections (checkTaskExists, addSubscriber).  *)
OnlySubscribeStrands ==
    [][\A k \in Tasks, s \in Subs :
          s \in Stranded(k)' /\ s \notin Stranded(k) =>
              \E p \in Procs : At(p, "add") /\ me[p].task = k /\ me[p].sub = s]_vars

(* A stream does not stay open when its task is over: it is closed unless   *)
(* the task is active time and again.  This is so although the last update  *)
(* may block on a reader that is gone: the reaper releases it.  A stream    *)
(* that SubscribeTask stranded gets no such promise before Close, nor does  *)
(* any from a handler that comes after Close has emptied the manager.       *)
StreamsEnd ==
    \A s \in Subs :
        []<>(\/ phase[s] \in {"unused", "new", "closed"}
             \/ status[owner[s]] = "active"
             \/ s \in Stranded(owner[s])
             \/ Emptied)

(* A blocking send waits for room in an open stream that nobody has taken   *)
(* off its list, and that nobody will: its task goes on, it is stranded, or *)
(* the manager was emptied before and the reaper is gone.                   *)
WaitsForRoom(p) ==
    LET s == me[p].sub IN
    /\ blocking /\ At(p, "send")
    /\ phase[s] = "open" /\ queued[s] = BufSize
    /\ s \in registered[owner[s]]
    /\ status[owner[s]] = "active" \/ s \in Stranded(owner[s]) \/ Emptied

(* Every call returns unless its send waits for room.  One that was waiting *)
(* returns when the task is removed or its stream is closed by another call, *)
(* by the reaper or by Close, and when the task is final, although its own   *)
(* cleanSubscribers comes only after the send: the reaper ends the wait.     *)
CallsReturn == \A p \in Threads : []<>(At(p, "idle") \/ WaitsForRoom(p))

(* Close returns and ends every stream it found, with senders blocked on    *)
(* readers that are gone and the cleanup goroutine in the middle of a round. *)
CloseEndsStreams ==
    /\ manager = "stopping" ~> manager = "closed"
    /\ \A s \in Subs : manager = "stopping" /\ phase[s] = "open" ~> phase[s] = "closed"
=============================================================================
