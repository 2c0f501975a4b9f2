--------------------------- MODULE RedisTaskManager ---------------------------
(***************************************************************************)
(* The Redis task manager: redis_manager.go, redis_task_handler.go and the  *)
(* subscriber of redis_types.go.  Tasks and push configurations are keys of *)
(* Redis (external) that expire; subscribers and cancel functions belong to  *)
(* the process, which may crash and start again over the same keys.         *)
(*                                                                          *)
(* A step is one Redis command or one critical section.  cleanSubscribers   *)
(* and Close close streams while they hold subMu, and a blocking send waits  *)
(* for room while it holds the lock of its stream, so both are several.     *)
(***************************************************************************)
EXTENDS Naturals, FiniteSets

CONSTANTS
    Threads,    \* goroutines of request handlers and message processors
    Tasks,      \* task IDs
    Subs,       \* subscribers, each created at most once
    Artifacts,  \* artifacts, each added at most once
    Writers,    \* for each task, the goroutines that update it
    BufSize,    \* TaskSubscriberBufSize
    Ops,        \* the operations this instance exercises
    Faults,     \* whether a Redis command may fail
    None

AllOps == {"BuildTask", "UpdateTaskState", "AddArtifact", "Send", "CloseSubscriber",
           "SubscribeTask", "OnCancelTask", "CleanTask", "Close"}

ASSUME FaultsAssumption == Faults \in BOOLEAN
ASSUME WritersAssumption == Writers \in [Tasks -> SUBSET Threads]
ASSUME BufSizeAssumption == BufSize \in Nat \ {0}
ASSUME NoneAssumption ==
    None \notin Threads \cup Tasks \cup Subs \cup Artifacts

VARIABLES
    blocking,    \* TaskSubscriberBlockingSend, fixed when the manager is made
    connected,   \* the Redis client has not been closed
    stored,      \* Redis: the task under each task key
    cancels,     \* the tasks with a cancel function
    subMu,       \* the goroutine that holds subMu while it closes streams
    registered,  \* subscribers: the streams of each task
    owner,       \* the task each subscriber was made for
    phase,       \* each subscriber: "unused", "new", "open" or "closed"
    sender,      \* the goroutine that waits for room holding a stream's lock
    queued,      \* how many events wait in its channel
    story,       \* history: how its events followed each other (see Follow)
    late,        \* history: the streams that were opened on a finished task
    acked,       \* history: the artifacts AddArtifact stored, for each task
    raced,       \* history: tasks stored over a change not seen when it was read
    silent,      \* history: tasks made final by a Set whose reply was lost
    me           \* where each goroutine is, and its local variables

redis == <<connected, stored, acked, raced, silent>>
streams == <<subMu, registered, owner, phase, sender, queued, story, late>>
vars == <<blocking, redis, cancels, streams, me>>

Task == [status: {"absent", "active", "final"}, artifacts: SUBSET Artifacts]

NoTask == [status |-> "absent", artifacts |-> {}]

(* The local variables: what the goroutine does, the task as it was read,   *)
(* the artifact it adds, the subscribers it has to notify or to close, those *)
(* that failed and the one it sends to.                                     *)
Locals ==
    [pc: {"idle", "set", "keepCancel", "snapshot", "notify", "send", "blocked",
          "cleanupFailed", "cleanSubs", "closing", "dropCancel", "del", "add",
          "closeSub", "disconnect"},
     does: {"none", "build", "update", "final", "artifact", "cancel", "clean", "send", "close"},
     task: Tasks \cup {None},
     read: Task,
     artifact: Artifacts \cup {None},
     todo: SUBSET Subs,
     failed: SUBSET Subs,
     sub: Subs \cup {None}]

Idle == [pc |-> "idle", does |-> "none", task |-> None, read |-> NoTask,
         artifact |-> None, todo |-> {}, failed |-> {}, sub |-> None]

TypeOK ==
    /\ blocking \in BOOLEAN /\ connected \in BOOLEAN
    /\ stored \in [Tasks -> Task]
    /\ cancels \subseteq Tasks
    /\ subMu \in Threads \cup {None}
    /\ registered \in [Tasks -> SUBSET Subs]
    /\ owner \in [Subs -> Tasks \cup {None}]
    /\ phase \in [Subs -> {"unused", "new", "open", "closed"}]
    /\ sender \in [Subs -> Threads \cup {None}]
    /\ queued \in [Subs -> 0 .. BufSize]
    /\ story \in [Subs -> {"none", "update", "final", "missed", "afterFinal", "gap"}]
    /\ late \subseteq Subs
    /\ acked \in [Tasks -> SUBSET Artifacts]
    /\ raced \subseteq Tasks
    /\ silent \subseteq Tasks
    /\ me \in [Threads -> Locals]

(* NewTaskManager *)
Init ==
    /\ blocking \in BOOLEAN
    /\ connected = TRUE
    /\ stored = [k \in Tasks |-> NoTask]
    /\ cancels = {}
    /\ subMu = None
    /\ registered = [k \in Tasks |-> {}]
    /\ owner = [s \in Subs |-> None]
    /\ phase = [s \in Subs |-> "unused"]
    /\ sender = [s \in Subs |-> None]
    /\ queued = [s \in Subs |-> 0]
    /\ story = [s \in Subs |-> "none"]
    /\ late = {}
    /\ acked = [k \in Tasks |-> {}]
    /\ raced = {}
    /\ silent = {}
    /\ me = [p \in Threads |-> Idle]

At(p, label) == me[p].pc = label

Become(p, locals) == me' = [me EXCEPT ![p] = locals]

Goto(p, label) ==
    Become(p, IF label = "idle" THEN Idle ELSE [me[p] EXCEPT !.pc = label])

Exists(k) == stored[k].status # "absent"

Quiet == UNCHANGED <<blocking, redis, cancels, streams>>

-----------------------------------------------------------------------------
(* Operations begin with getTaskInternal.  One that does not find the task, *)
(* or cannot reach Redis, returns an error and is no step.                  *)

(* The Get of an operation that finds the task and goes on to change it. *)
Get(p, k, does) ==
    /\ At(p, "idle") /\ connected
    /\ Exists(k)
    /\ Become(p, [Idle EXCEPT !.pc = "set", !.does = does, !.task = k, !.read = stored[k]])
    /\ Quiet

(* BuildTask takes every error of the Get for "no such task". *)
BuildTask(p, k) ==
    /\ At(p, "idle")
    /\ ~Exists(k) \/ ~connected \/ Faults
    /\ Become(p, [Idle EXCEPT !.pc = "set", !.does = "build", !.task = k])
    /\ Quiet

UpdateTaskState(p, k, final) ==
    p \in Writers[k] /\ Get(p, k, IF final THEN "final" ELSE "update")

AddArtifact(p, k, a) ==
    /\ p \in Writers[k]
    /\ a \notin UNION {acked[j] : j \in Tasks}
    /\ \A q \in Threads : me[q].artifact # a
    /\ At(p, "idle") /\ connected
    /\ Exists(k)
    /\ Become(p, [Idle EXCEPT !.pc = "set", !.does = "artifact", !.task = k,
                              !.read = stored[k], !.artifact = a])
    /\ Quiet

(* A task that is in a final state is not cancelable.  The cancel function  *)
(* is called and stays in the map; it cancels a context nobody holds.       *)
OnCancelTask(p, k) ==
    stored[k].status # "final" /\ Get(p, k, "cancel")

(* CleanTask needs only to know that the task is there. *)
CleanTask(p, k) ==
    /\ At(p, "idle") /\ connected
    /\ Exists(k)
    /\ Become(p, [Idle EXCEPT !.pc = "dropCancel", !.does = "clean", !.task = k])
    /\ Quiet

-----------------------------------------------------------------------------
(* Redis *)

(* Mutant of Changed: an update of the state stores the task without its     *)
(* artifacts.                                                               *)
ChangedAnew(p) ==
    [status |-> CASE me[p].does \in {"build", "update"} -> "active"
                  [] me[p].does \in {"final", "cancel"} -> "final"
                  [] OTHER -> me[p].read.status,
     artifacts |-> IF me[p].does = "artifact" THEN me[p].read.artifacts \cup {me[p].artifact}
                   ELSE {}]

(* The task as it was read, with the change of this operation. *)
Changed(p) ==
    [status |-> CASE me[p].does \in {"build", "update"} -> "active"
                  [] me[p].does \in {"final", "cancel"} -> "final"
                  [] OTHER -> me[p].read.status,
     artifacts |-> me[p].read.artifacts
                   \cup IF me[p].does = "artifact" THEN {me[p].artifact} ELSE {}]

(* Mutant of AfterSet: OnCancelTask leaves the subscribers. *)
AfterSetKeeps(p) ==
    CASE me[p].does = "build" -> "keepCancel"
      [] me[p].does = "cancel" -> "idle"
      [] OTHER -> "snapshot"

AfterSet(p) ==
    CASE me[p].does = "build" -> "keepCancel"
      [] me[p].does = "cancel" -> "cleanSubs"
      [] OTHER -> "snapshot"

(* What the Set of storeTask does in Redis. *)
Applied(p) ==
    LET k == me[p].task IN
    /\ stored' = [stored EXCEPT ![k] = Changed(p)]
    /\ raced' = IF stored[k] # me[p].read THEN raced \cup {k} ELSE raced

(* The rest of the operation needs only the ID of the task. *)
storeTask(p) ==
    LET k == me[p].task IN
    /\ At(p, "set") /\ connected
    /\ Applied(p)
    /\ acked' = [acked EXCEPT ![k] = @ \cup IF me[p].does = "artifact"
                                            THEN {me[p].artifact} ELSE {}]
    /\ silent' = IF me[p].does = "artifact" /\ Changed(p).status = "final"
                 THEN silent ELSE silent \ {k}
    /\ Become(p, [me[p] EXCEPT !.pc = AfterSet(p), !.read = NoTask, !.artifact = None])
    /\ UNCHANGED <<blocking, connected, cancels, streams>>

(* A command fails: the operation gives up.  What it did before remains.    *)
CommandFails(p) ==
    /\ me[p].pc \in {"set", "del"}
    /\ Faults \/ ~connected
    /\ Goto(p, "idle")
    /\ Quiet

(* A Set is done and its reply is lost or too late.  The operation sees an   *)
(* error like any other and returns before it notifies or cleans anything.  *)
SetReplyLost(p) ==
    LET k == me[p].task IN
    /\ At(p, "set") /\ connected /\ Faults
    /\ Applied(p)
    /\ silent' = IF Changed(p).status # "final" THEN silent \ {k}
                 ELSE IF stored[k].status # "final" THEN silent \cup {k} ELSE silent
    /\ Goto(p, "idle")
    /\ UNCHANGED <<blocking, connected, acked, cancels, streams>>

KeepCancel(p) ==
    /\ At(p, "keepCancel")
    /\ cancels' = cancels \cup {me[p].task}
    /\ Goto(p, "idle")
    /\ UNCHANGED <<blocking, redis, streams>>

DropCancel(p) ==
    /\ At(p, "dropCancel")
    /\ cancels' = cancels \ {me[p].task}
    /\ Goto(p, IF me[p].does = "clean" THEN "cleanSubs" ELSE "idle")
    /\ UNCHANGED <<blocking, redis, streams>>

(* The task is gone from Redis: deleted or expired. *)
Vanish(k) ==
    /\ stored' = [stored EXCEPT ![k] = NoTask]
    /\ acked' = [acked EXCEPT ![k] = {}]
    /\ silent' = silent \ {k}
    /\ UNCHANGED <<blocking, connected, raced, cancels, streams>>

(* CleanTask ends with the Del, whether or not its reply arrives. *)
deleteTask(p) ==
    /\ At(p, "del") /\ connected
    /\ Vanish(me[p].task)
    /\ Goto(p, "idle")

(* The key of a task expires. *)
ExpireTask(k) == Exists(k) /\ Vanish(k) /\ UNCHANGED me

-----------------------------------------------------------------------------
(* Streams *)

(* SubscribeTask, and OnResubscribe alike: the Get, then addSubscriber. *)
SubscribeTask(p, k, s) ==
    /\ At(p, "idle") /\ connected
    /\ Exists(k)
    /\ phase[s] = "unused"
    /\ phase' = [phase EXCEPT ![s] = "new"]
    /\ Become(p, [Idle EXCEPT !.pc = "add", !.task = k, !.sub = s])
    /\ UNCHANGED <<blocking, redis, cancels, subMu, registered, owner, sender, queued,
                   story, late>>

(* Mutant of addSubscriber: it does not wait for subMu. *)
addSubscriberUnlocked(p) ==
    LET k == me[p].task
        s == me[p].sub IN
    /\ At(p, "add")
    /\ registered' = [registered EXCEPT ![k] = @ \cup {s}]
    /\ owner' = [owner EXCEPT ![s] = k]
    /\ phase' = [phase EXCEPT ![s] = "open"]
    /\ late' = IF stored[k].status = "active" THEN late ELSE late \cup {s}
    /\ Goto(p, "idle")
    /\ UNCHANGED <<blocking, redis, cancels, subMu, sender, queued, story>>

addSubscriber(p) ==
    LET k == me[p].task
        s == me[p].sub IN
    /\ At(p, "add") /\ subMu = None
    /\ registered' = [registered EXCEPT ![k] = @ \cup {s}]
    /\ owner' = [owner EXCEPT ![s] = k]
    /\ phase' = [phase EXCEPT ![s] = "open"]
    /\ late' = IF stored[k].status = "active" THEN late ELSE late \cup {s}
    /\ Goto(p, "idle")
    /\ UNCHANGED <<blocking, redis, cancels, subMu, sender, queued, story>>

(* A message processor sends on a stream of its task, or closes it. *)
Send(p, s) ==
    /\ At(p, "idle")
    /\ phase[s] = "open" /\ p \in Writers[owner[s]]
    /\ Become(p, [Idle EXCEPT !.pc = "send", !.does = "send", !.sub = s])
    /\ Quiet

CloseSubscriber(p, s) ==
    /\ At(p, "idle")
    /\ phase[s] = "open" /\ p \in Writers[owner[s]]
    /\ Become(p, [Idle EXCEPT !.pc = "closeSub", !.sub = s])
    /\ Quiet

CloseOwn(p) ==
    /\ At(p, "closeSub") /\ sender[me[p].sub] = None
    /\ phase' = [phase EXCEPT ![me[p].sub] = "closed"]
    /\ Goto(p, "idle")
    /\ UNCHANGED <<blocking, redis, cancels, subMu, registered, owner, sender, queued,
                   story, late>>

(* The reader of the stream: the server's SSE writer, or nobody. *)
Receive(s) ==
    /\ queued[s] > 0
    /\ queued' = [queued EXCEPT ![s] = @ - 1]
    /\ UNCHANGED <<blocking, redis, cancels, subMu, registered, owner, phase, sender,
                   story, late, me>>

-----------------------------------------------------------------------------
(* notifySubscribers and Send *)

Snapshot(p) ==
    /\ At(p, "snapshot") /\ subMu = None
    /\ Become(p, [me[p] EXCEPT !.pc = "notify", !.todo = registered[me[p].task]])
    /\ Quiet

(* The look at the closed flag before the Send. *)
Notify(p, s) ==
    /\ At(p, "notify") /\ s \in me[p].todo
    /\ Become(p, IF phase[s] = "open"
                 THEN [me[p] EXCEPT !.pc = "send", !.todo = @ \ {s}, !.sub = s]
                 ELSE [me[p] EXCEPT !.todo = @ \ {s}, !.failed = @ \cup {s}])
    /\ Quiet

Direct(p) == me[p].does = "send"

(* The history tells a final event that another followed, and an event that *)
(* was refused for want of room before another went in.                     *)
Follow(last, does) ==
    CASE last \in {"final", "afterFinal"} -> "afterFinal"
      [] last \in {"missed", "gap"} -> "gap"
      [] does = "final" -> "final"
      [] OTHER -> "update"

Sent(p, failed) ==
    Become(p, IF Direct(p) THEN Idle
              ELSE [me[p] EXCEPT !.pc = "notify", !.sub = None, !.failed = @ \cup failed])

(* Mutant of Accept: the event is appended to a queue without a bound. *)
AcceptAlways(p) ==
    LET s == me[p].sub IN
    /\ \/ At(p, "send") /\ sender[s] = None /\ phase[s] = "open"
       \/ At(p, "blocked")
    /\ queued' = [queued EXCEPT ![s] = @ + 1]
    /\ sender' = [sender EXCEPT ![s] = None]
    /\ story' = [story EXCEPT ![s] = IF Direct(p) THEN @ ELSE Follow(@, me[p].does)]
    /\ Sent(p, {})
    /\ UNCHANGED <<blocking, redis, cancels, subMu, registered, owner, phase, late>>

(* The critical section of a Send that finds room, at once or in the end. *)
Accept(p) ==
    LET s == me[p].sub IN
    /\ \/ At(p, "send") /\ sender[s] = None /\ phase[s] = "open"
       \/ At(p, "blocked")
    /\ queued[s] < BufSize
    /\ queued' = [queued EXCEPT ![s] = @ + 1]
    /\ sender' = [sender EXCEPT ![s] = None]
    /\ story' = [story EXCEPT ![s] = IF Direct(p) THEN @ ELSE Follow(@, me[p].does)]
    /\ Sent(p, {})
    /\ UNCHANGED <<blocking, redis, cancels, subMu, registered, owner, phase, late>>

(* A send that may block waits for room and keeps the lock. *)
Block(p) ==
    LET s == me[p].sub IN
    /\ At(p, "send") /\ sender[s] = None /\ phase[s] = "open"
    /\ blocking /\ queued[s] = BufSize
    /\ sender' = [sender EXCEPT ![s] = p]
    /\ Goto(p, "blocked")
    /\ UNCHANGED <<blocking, redis, cancels, subMu, registered, owner, phase, queued,
                   story, late>>

(* Mutant of Refuse: a failed send is not remembered. *)
RefuseForgotten(p) ==
    LET s == me[p].sub IN
    /\ At(p, "send") /\ sender[s] = None
    /\ phase[s] = "closed" \/ (~blocking /\ queued[s] = BufSize)
    /\ story' = [story EXCEPT ![s] =
                    IF Direct(p) \/ phase[s] = "closed" \/ @ \in {"afterFinal", "gap"}
                    THEN @ ELSE "missed"]
    /\ Sent(p, {})
    /\ UNCHANGED <<blocking, redis, cancels, subMu, registered, owner, phase, sender,
                   queued, late>>

Refuse(p) ==
    LET s == me[p].sub IN
    /\ At(p, "send") /\ sender[s] = None
    /\ phase[s] = "closed" \/ (~blocking /\ queued[s] = BufSize)
    /\ story' = [story EXCEPT ![s] =
                    IF Direct(p) \/ phase[s] = "closed" \/ @ \in {"afterFinal", "gap"}
                    THEN @ ELSE "missed"]
    /\ Sent(p, {s})
    /\ UNCHANGED <<blocking, redis, cancels, subMu, registered, owner, phase, sender,
                   queued, late>>

(* Mutant of AfterNotify: a final state leaves the subscribers. *)
AfterNotifyKeeps(p) == "idle"

AfterNotify(p) == IF me[p].does = "final" THEN "cleanSubs" ELSE "idle"

EndNotify(p) ==
    /\ At(p, "notify") /\ me[p].todo = {}
    /\ Goto(p, IF me[p].failed # {} THEN "cleanupFailed" ELSE AfterNotify(p))
    /\ Quiet

(* The failed subscribers leave the list, and nobody closes them. *)
cleanupFailedSubscribers(p) ==
    /\ At(p, "cleanupFailed") /\ subMu = None
    /\ registered' = [registered EXCEPT ![me[p].task] = @ \ me[p].failed]
    /\ Goto(p, AfterNotify(p))
    /\ UNCHANGED <<blocking, redis, cancels, subMu, owner, phase, sender, queued, story,
                   late>>

-----------------------------------------------------------------------------
(* cleanSubscribers, and the second part of Close: with subMu held, they     *)
(* close the streams of one task, or all of them.                           *)

Closes(p) == IF me[p].does = "close" THEN Tasks ELSE {me[p].task}

cleanSubscribers(p) ==
    /\ At(p, "cleanSubs") /\ subMu = None
    /\ subMu' = p
    /\ Become(p, [me[p] EXCEPT !.pc = "closing",
                               !.todo = UNION {registered[k] : k \in Closes(p)}])
    /\ UNCHANGED <<blocking, redis, cancels, registered, owner, phase, sender, queued,
                   story, late>>

(* Mutant of CloseSub: it does not wait for the lock of the stream. *)
CloseSubUnlocked(p, s) ==
    /\ At(p, "closing") /\ s \in me[p].todo
    /\ phase' = [phase EXCEPT ![s] = "closed"]
    /\ Become(p, [me[p] EXCEPT !.todo = @ \ {s}])
    /\ UNCHANGED <<blocking, redis, cancels, subMu, registered, owner, sender, queued,
                   story, late>>

(* Close of a subscriber needs the lock that a blocked sender holds. *)
CloseSub(p, s) ==
    /\ At(p, "closing") /\ s \in me[p].todo
    /\ sender[s] = None
    /\ phase' = [phase EXCEPT ![s] = "closed"]
    /\ Become(p, [me[p] EXCEPT !.todo = @ \ {s}])
    /\ UNCHANGED <<blocking, redis, cancels, subMu, registered, owner, sender, queued,
                   story, late>>

AfterClosing(p) ==
    CASE me[p].does = "final" -> "dropCancel"
      [] me[p].does = "clean" -> "del"
      [] me[p].does = "close" -> "disconnect"
      [] OTHER -> "idle"

EndClosing(p) ==
    /\ At(p, "closing") /\ me[p].todo = {}
    /\ registered' = [k \in Tasks |-> IF k \in Closes(p) THEN {} ELSE registered[k]]
    /\ subMu' = None
    /\ Goto(p, AfterClosing(p))
    /\ UNCHANGED <<blocking, redis, cancels, owner, phase, sender, queued, story, late>>

-----------------------------------------------------------------------------
(* Close and crashes *)

Close(p) ==
    /\ At(p, "idle")
    /\ cancels' = {}
    /\ Become(p, [Idle EXCEPT !.pc = "cleanSubs", !.does = "close"])
    /\ UNCHANGED <<blocking, redis, streams>>

Disconnect(p) ==
    /\ At(p, "disconnect")
    /\ connected' = FALSE
    /\ Goto(p, "idle")
    /\ UNCHANGED <<blocking, stored, acked, raced, silent, cancels, streams>>

(* The process dies and starts again, with a new manager. *)
Crash ==
    /\ connected' = TRUE
    /\ cancels' = {}
    /\ subMu' = None
    /\ registered' = [k \in Tasks |-> {}]
    /\ phase' = [s \in Subs |-> IF phase[s] = "unused" THEN "unused" ELSE "closed"]
    /\ sender' = [s \in Subs |-> None]
    /\ queued' = [s \in Subs |-> 0]
    /\ silent' = {}
    /\ me' = [p \in Threads |-> Idle]
    /\ UNCHANGED <<blocking, stored, acked, raced, owner, story, late>>

-----------------------------------------------------------------------------
(* A call of one of the operations; nothing says that any is ever made. *)
Call(p) ==
    \/ \E k \in Tasks :
          \/ "BuildTask" \in Ops /\ BuildTask(p, k)
          \/ "UpdateTaskState" \in Ops /\ \E final \in BOOLEAN : UpdateTaskState(p, k, final)
          \/ "AddArtifact" \in Ops /\ \E a \in Artifacts : AddArtifact(p, k, a)
          \/ "OnCancelTask" \in Ops /\ OnCancelTask(p, k)
          \/ "CleanTask" \in Ops /\ CleanTask(p, k)
          \/ "SubscribeTask" \in Ops /\ \E s \in Subs : SubscribeTask(p, k, s)
    \/ \E s \in Subs :
          \/ "Send" \in Ops /\ Send(p, s)
          \/ "CloseSubscriber" \in Ops /\ CloseSubscriber(p, s)
    \/ "Close" \in Ops /\ Close(p)

(* The steps that wait for a lock. *)
Locking(p) ==
    \/ addSubscriber(p) \/ Snapshot(p) \/ cleanupFailedSubscribers(p)
    \/ cleanSubscribers(p) \/ CloseOwn(p)
    \/ Accept(p) \/ Block(p) \/ Refuse(p)
    \/ \E s \in Subs : CloseSub(p, s)

(* The rest of an operation that was called. *)
Step(p) ==
    \/ Locking(p)
    \/ storeTask(p) \/ SetReplyLost(p) \/ CommandFails(p) \/ deleteTask(p)
    \/ KeepCancel(p) \/ DropCancel(p)
    \/ EndNotify(p) \/ EndClosing(p) \/ Disconnect(p)
    \/ \E s \in Subs : Notify(p, s)

Next ==
    \/ \E p \in Threads : Call(p) \/ Step(p)
    \/ \E k \in Tasks : ExpireTask(k)
    \/ \E s \in Subs : Receive(s)
    \/ Crash

(* A goroutine that can run is eventually run, and the mutexes of Go starve  *)
(* nobody.  Nothing is assumed of the readers of the streams.               *)
Fairness == \A p \in Threads : WF_vars(Step(p)) /\ SF_vars(Locking(p))

Spec == Init /\ [][Next]_vars /\ Fairness

-----------------------------------------------------------------------------
(* Properties *)

(* An open stream that is on no list, so that nobody will close it, refused  *)
(* an event for want of room (cleanupFailedSubscribers): no stream is lost   *)
(* between SubscribeTask, the cleanups and Close.                           *)
OnlyFullStreamsDropped ==
    \A s \in Subs : phase[s] = "open" => s \in registered[owner[s]] \/ story[s] = "missed"

(* A reader never misses an event and then gets a later one. *)
NoGap == \A s \in Subs : story[s] # "gap"

(* The event marked Final that UpdateTaskState sends is the last one, if one   *)
(* goroutine updates the task.                                               *)
FinalIsLast == \A s \in Subs : story[s] # "afterFinal"

(* Both: what a stream hands out is a beginning of what was sent on it, up to   *)
(* the final event, although commands fail and the process crashes.           *)
StreamsAreSound == NoGap /\ FinalIsLast

(* The readers get what TaskStreams promises, if one goroutine updates each     *)
(* task: in particular nothing gets into a closed stream, although a sender    *)
(* that waits for room does not look at the closed flag again, since Close     *)
(* waits for the lock that the sender holds; and a crash ends every stream.    *)
Promise == INSTANCE TaskStreams
ImplementsTaskStreams == Promise!SafeSpec

(* When a task is in a final state, and nobody is on the way to clean its    *)
(* subscribers, the streams still on its list were opened on a task that was *)
(* over: final updates and cancels end all others.  This does not go for a   *)
(* task that is stored over a change not seen (raced), nor for one that was   *)
(* made final by a Set whose reply was lost (silent): the operation returned  *)
(* an error and left the streams open.  They end when UpdateTaskState is      *)
(* tried again and gets its reply.                                          *)
OverMeansClosed ==
    \A k \in Tasks \ (raced \cup silent) :
        stored[k].status = "final"
          /\ (\A p \in Threads : me[p].task = k => me[p].does \notin {"final", "cancel"})
        => \A s \in registered[k] : phase[s] = "open" => s \in late

(* An artifact that AddArtifact stored is there as long as its task is,      *)
(* through failing commands and crashes, unless updates of the task overlap. *)
KeptUnlessRaced ==
    \A k \in Tasks \ raced : acked[k] \subseteq stored[k].artifacts

(* What "Close closes the Redis client and cleans up resources"               *)
(* (redis_manager.go:691) says of a Close whose process lives on.           *)
CloseReturns == \A p \in Threads : me[p].does = "close" ~> At(p, "idle")
=============================================================================
