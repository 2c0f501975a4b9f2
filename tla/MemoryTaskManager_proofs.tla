---------------------- MODULE MemoryTaskManager_proofs ----------------------
(***************************************************************************)
(* For any number of goroutines, tasks and streams and any queue size: the *)
(* task manager forgets no stream, leaks no context and leaves no push     *)
(* configuration behind; where one goroutine updates each task its streams *)
(* hand out a beginning of what was sent; and no removal of a task leaves   *)
(* a stream on its list.                                                   *)
(***************************************************************************)
EXTENDS MemoryTaskManager, TLAPS

USE CleanerAssumption, WritersAssumption, BufSizeAssumption, NoneAssumption

(* What a goroutine holds where: it knows its task and its subscriber when it *)
(* needs them, it has streams to close only on its way through the closing   *)
(* loop, and configurations to delete only until it has deleted them.        *)
LocalOK(l) ==
    /\ l.pc \in {"snapshot", "notify", "cleanupFailed", "cleanSubs", "add", "clean"} =>
          l.task \in Tasks
    /\ l.pc = "send" /\ l.event # "direct" => l.task \in Tasks
    /\ l.pc \in {"close", "finishClose"} /\ l.then = "cleanSubs" => l.task \in Tasks
    /\ l.pc \in {"send", "add", "finishClose"} => l.sub \in Subs
    /\ l.toClose # {} => l.pc \in {"close", "finishClose"}
    /\ l.drop # {} => l.pc = "drop" \/ (l.pc \in {"close", "finishClose"} /\ l.then = "drop")

LocalsOK == \A p \in Procs : LocalOK(me[p])

(* The inductive invariant. *)
IInv ==
    /\ TypeOK /\ LocalsOK
    /\ NoForgottenStream /\ NoLeakedContext /\ NoOrphanConfig

LEMMA IdleIsLocal == Idle \in Locals /\ LocalOK(Idle)
  BY DEF Idle, Locals, LocalOK

(* A step of p changes the local variables of p and no others. *)
LEMMA BecomeMoves ==
    ASSUME TypeOK, LocalsOK, NEW p \in Procs, NEW x \in Locals, LocalOK(x), Become(p, x)
    PROVE  /\ me' \in [Procs -> Locals]
           /\ me'[p] = x
           /\ \A q \in Procs : q # p => me'[q] = me[q]
           /\ LocalsOK'
<1>1. me \in [Procs -> Locals]
  BY DEF TypeOK
<1>2. me' \in [Procs -> Locals] /\ me'[p] = x /\ \A q \in Procs : q # p => me'[q] = me[q]
  BY <1>1 DEF Become
<1>3. \A q \in Procs : LocalOK(me'[q])
  BY <1>2 DEF LocalsOK
<1> QED BY <1>2, <1>3 DEF LocalsOK

(* Where the lists and the phases are as before, no stream is forgotten if p  *)
(* keeps what it has to close.                                              *)
LEMMA StreamsKept ==
    ASSUME IInv, NEW p \in Procs, NEW x \in Locals, LocalOK(x), Become(p, x),
           UNCHANGED <<registered, owner, phase>>,
           me[p].toClose \subseteq x.toClose,
           me[p].pc = "finishClose" => x.pc = "finishClose" /\ x.sub = me[p].sub
    PROVE  NoForgottenStream'
<1>1. /\ me'[p] = x
      /\ \A q \in Procs : q # p => me'[q] = me[q]
  BY BecomeMoves DEF IInv
<1> SUFFICES ASSUME NEW s \in Subs
             PROVE  /\ phase[s] = "open" =>
                          \/ s \in registered[owner[s]]
                          \/ \E q \in Procs : s \in me'[q].toClose
                    /\ phase[s] = "closing" =>
                          \E q \in Procs : me'[q].pc = "finishClose" /\ me'[q].sub = s
  BY DEF NoForgottenStream, At
<1>2. \A q \in Procs : s \in me[q].toClose => s \in me'[q].toClose
  BY <1>1
<1>3. \A q \in Procs : me[q].pc = "finishClose" /\ me[q].sub = s =>
                           me'[q].pc = "finishClose" /\ me'[q].sub = s
  BY <1>1
<1> QED BY <1>2, <1>3 DEF IInv, NoForgottenStream, At

(* Where the configurations and the tasks are as before, none is left behind *)
(* if p keeps what it has to delete.                                        *)
LEMMA ConfigsKept ==
    ASSUME IInv, NEW p \in Procs, NEW x \in Locals, LocalOK(x), Become(p, x),
           push' = push, \A k \in Tasks : Exists(k)' = Exists(k), Emptied => Emptied',
           me[p].drop \subseteq x.drop
    PROVE  NoOrphanConfig'
<1>1. /\ me'[p] = x
      /\ \A q \in Procs : q # p => me'[q] = me[q]
  BY BecomeMoves DEF IInv
<1> SUFFICES ASSUME NEW k \in Tasks, push[k] = "task", ~Exists(k)', ~Emptied'
             PROVE  \E q \in Procs : k \in me'[q].drop
  BY DEF NoOrphanConfig
<1>2. PICK q \in Procs : k \in me[q].drop
  BY DEF IInv, NoOrphanConfig
<1>3. k \in me'[q].drop
  BY <1>1, <1>2
<1> QED BY <1>3

LEMMA ContextsKept ==
    ASSUME IInv, live' = live, \A k \in Tasks : Exists(k)' = Exists(k)
    PROVE  NoLeakedContext'
  BY DEF IInv, NoLeakedContext

(* A step that leaves the maps of the manager alone. *)
LEMMA LocalStep ==
    ASSUME IInv, NEW p \in Procs, NEW x \in Locals, LocalOK(x), Become(p, x),
           UNCHANGED <<blocking, tasks, registered, push, owner, phase>>,
           manager' \in {"open", "stopping", "emptied", "closed"}, Emptied => Emptied',
           queued' \in [Subs -> 0 .. BufSize],
           story' \in [Subs -> {"none", "update", "final", "missed", "afterFinal", "gap"}],
           me[p].toClose \subseteq x.toClose, me[p].drop \subseteq x.drop,
           me[p].pc = "finishClose" => x.pc = "finishClose" /\ x.sub = me[p].sub
    PROVE  IInv'
<1>1. me' \in [Procs -> Locals] /\ LocalsOK'
  BY BecomeMoves DEF IInv
<1>2. TypeOK'
  BY <1>1 DEF IInv, TypeOK, tasks
<1>3. \A k \in Tasks : Exists(k)' = Exists(k)
  BY DEF Exists, tasks
<1>4. NoForgottenStream'
  BY StreamsKept
<1>5. NoOrphanConfig'
  BY <1>3, ConfigsKept
<1>6. NoLeakedContext'
  BY <1>3, ContextsKept DEF tasks
<1> QED BY <1>1, <1>2, <1>4, <1>5, <1>6 DEF IInv

(* A goroutine that is not in the closing loop holds nothing. *)
LEMMA EmptyHands ==
    ASSUME IInv, NEW p \in Procs, me[p].pc \notin {"close", "finishClose", "drop"}
    PROVE  me[p].toClose = {} /\ me[p].drop = {}
  BY DEF IInv, LocalsOK, LocalOK

LEMMA LocalsTyped == ASSUME IInv PROVE \A p \in Procs : me[p] \in Locals /\ LocalOK(me[p])
  BY DEF IInv, TypeOK, LocalsOK

-----------------------------------------------------------------------------
(* The steps that only take a goroutine further. *)

LEMMA UpdateKeeps ==
    ASSUME IInv, NEW p \in Procs, NEW k \in Tasks, NEW final \in BOOLEAN,
           UpdateTaskState(p, k, final)
    PROVE  IInv'
<1> DEFINE x == [Idle EXCEPT !.pc = "snapshot", !.task = k,
                             !.event = IF final THEN "final" ELSE "update"]
<1>1. x \in Locals /\ LocalOK(x)
  BY DEF Idle, Locals, LocalOK
<1>2. Become(p, x) /\ me[p].pc = "idle" /\ Exists(k)
  BY DEF UpdateTaskState, At
<1>3. me[p].toClose = {} /\ me[p].drop = {}
  BY <1>2, EmptyHands
<1>4. /\ status' = [status EXCEPT ![k] = IF final THEN "final" ELSE "active"]
      /\ aged' = aged \ {k}
      /\ UNCHANGED <<blocking, manager, live, registered, push, owner, phase, queued, story>>
  BY DEF UpdateTaskState, streams
<1>5. \A j \in Tasks : Exists(j)' = Exists(j)
  BY <1>2, <1>4 DEF Exists, IInv, TypeOK
<1>6. me' \in [Procs -> Locals] /\ LocalsOK'
  BY <1>1, <1>2, BecomeMoves DEF IInv
<1>7. TypeOK'
  BY <1>4, <1>6 DEF IInv, TypeOK
<1>8. NoForgottenStream'
  BY <1>1, <1>2, <1>3, <1>4, StreamsKept
<1>9. NoOrphanConfig'
  BY <1>1, <1>2, <1>3, <1>4, <1>5, ConfigsKept DEF Emptied
<1>10. NoLeakedContext'
  BY <1>4, <1>5, ContextsKept
<1> QED BY <1>6, <1>7, <1>8, <1>9, <1>10 DEF IInv

(* A call that finds its goroutine idle and only sets its local variables. *)
LEMMA CallKeeps ==
    ASSUME IInv, NEW p \in Procs, NEW x \in Locals, LocalOK(x), Become(p, x),
           me[p].toClose = {}, me[p].drop = {}, me[p].pc # "finishClose",
           UNCHANGED <<blocking, manager, tasks, registered, push, streams>>
    PROVE  IInv'
<1>1. /\ manager' \in {"open", "stopping", "emptied", "closed"} /\ (Emptied => Emptied')
      /\ queued' \in [Subs -> 0 .. BufSize]
      /\ story' \in [Subs -> {"none", "update", "final", "missed", "afterFinal", "gap"}]
      /\ UNCHANGED <<owner, phase>>
  BY DEF IInv, TypeOK, streams, Emptied
<1> QED BY <1>1, LocalStep

LEMMA AddArtifactKeeps ==
    ASSUME IInv, NEW p \in Procs, NEW k \in Tasks, AddArtifact(p, k) PROVE IInv'
<1> DEFINE x == [Idle EXCEPT !.pc = "snapshot", !.task = k, !.event = "update"]
<1>1. x \in Locals /\ LocalOK(x)
  BY DEF Idle, Locals, LocalOK
<1>2. me[p].pc = "idle" /\ Become(p, x)
      /\ UNCHANGED <<blocking, manager, tasks, registered, push, streams>>
  BY DEF AddArtifact, At
<1> QED BY <1>1, <1>2, EmptyHands, CallKeeps

LEMMA OnCancelTaskKeeps ==
    ASSUME IInv, NEW p \in Procs, NEW k \in Tasks, OnCancelTask(p, k) PROVE IInv'
<1> DEFINE x == [Idle EXCEPT !.pc = "clean", !.task = k]
<1>1. x \in Locals /\ LocalOK(x)
  BY DEF Idle, Locals, LocalOK
<1>2. me[p].pc = "idle" /\ Become(p, x)
      /\ UNCHANGED <<blocking, manager, tasks, registered, push, streams>>
  BY DEF OnCancelTask, At
<1> QED BY <1>1, <1>2, EmptyHands, CallKeeps

LEMMA SendKeeps ==
    ASSUME IInv, NEW p \in Procs, NEW s \in Subs, Send(p, s) PROVE IInv'
<1> DEFINE x == [Idle EXCEPT !.pc = "send", !.event = "direct", !.sub = s]
<1>1. x \in Locals /\ LocalOK(x)
  BY DEF Idle, Locals, LocalOK
<1>2. me[p].pc = "idle" /\ Become(p, x)
      /\ UNCHANGED <<blocking, manager, tasks, registered, push, streams>>
  BY DEF Send, At
<1> QED BY <1>1, <1>2, EmptyHands, CallKeeps

LEMMA CloseSubscriberKeeps ==
    ASSUME IInv, NEW p \in Procs, NEW s \in Subs, CloseSubscriber(p, s) PROVE IInv'
<1> DEFINE x == [Idle EXCEPT !.pc = "close", !.toClose = {s}]
<1>1. x \in Locals /\ LocalOK(x)
  BY DEF Idle, Locals, LocalOK
<1>2. me[p].pc = "idle" /\ Become(p, x)
      /\ UNCHANGED <<blocking, manager, tasks, registered, push, streams>>
  BY DEF CloseSubscriber, At
<1> QED BY <1>1, <1>2, EmptyHands, CallKeeps

LEMMA SnapshotKeeps ==
    ASSUME IInv, NEW p \in Procs, Snapshot(p) PROVE IInv'
<1> DEFINE x == [me[p] EXCEPT !.pc = "notify", !.todo = registered[me[p].task]]
<1>1. me[p].pc = "snapshot" /\ Become(p, x)
      /\ UNCHANGED <<blocking, manager, tasks, registered, push, streams>>
  BY DEF Snapshot, At
<1>2. me[p] \in Locals /\ LocalOK(me[p])
  BY LocalsTyped
<1>3. registered[me[p].task] \subseteq Subs
  BY <1>1, <1>2 DEF IInv, TypeOK, LocalOK
<1>4. x \in Locals /\ LocalOK(x)
  BY <1>1, <1>2, <1>3 DEF Locals, LocalOK
<1> QED BY <1>1, <1>4, EmptyHands, CallKeeps

LEMMA NotifyKeeps ==
    ASSUME IInv, NEW p \in Procs, NEW s \in Subs, Notify(p, s) PROVE IInv'
<1> DEFINE x == IF phase[s] = "open"
                THEN [me[p] EXCEPT !.pc = "send", !.todo = @ \ {s}, !.sub = s]
                ELSE [me[p] EXCEPT !.todo = @ \ {s}, !.failed = @ \cup {s}]
<1>1. me[p].pc = "notify" /\ Become(p, x)
      /\ UNCHANGED <<blocking, manager, tasks, registered, push, streams>>
  BY DEF Notify, At
<1>2. me[p] \in Locals /\ LocalOK(me[p])
  BY LocalsTyped
<1>3. CASE phase[s] = "open"
  <2>1. x \in Locals /\ LocalOK(x)
    BY <1>1, <1>2, <1>3 DEF Locals, LocalOK
  <2> QED BY <1>1, <2>1, EmptyHands, CallKeeps
<1>4. CASE phase[s] # "open"
  <2>1. x \in Locals /\ LocalOK(x)
    BY <1>1, <1>2, <1>4 DEF Locals, LocalOK
  <2> QED BY <1>1, <2>1, EmptyHands, CallKeeps
<1> QED BY <1>3, <1>4

LEMMA AcceptKeeps ==
    ASSUME IInv, NEW p \in Procs, Accept(p) PROVE IInv'
<1> DEFINE s == me[p].sub
           x == IF Direct(p) THEN Idle ELSE [me[p] EXCEPT !.pc = "notify", !.sub = None]
<1>1. me[p].pc = "send" /\ Become(p, x)
      /\ UNCHANGED <<blocking, manager, tasks, registered, push, owner, phase>>
      /\ queued[s] < BufSize /\ queued' = [queued EXCEPT ![s] = @ + 1]
      /\ story' = [story EXCEPT ![s] = IF Direct(p) THEN @ ELSE Follow(@, me[p].event)]
  BY DEF Accept, At
<1>2. me[p] \in Locals /\ LocalOK(me[p]) /\ s \in Subs
  BY <1>1, LocalsTyped DEF LocalOK
<1>3. x \in Locals /\ LocalOK(x)
  <2>1. CASE Direct(p)
    BY <2>1, IdleIsLocal
  <2>2. CASE ~Direct(p)
    BY <1>1, <1>2, <2>2 DEF Locals, LocalOK, Direct
  <2> QED BY <2>1, <2>2
<1>4. queued' \in [Subs -> 0 .. BufSize]
  BY <1>1, <1>2 DEF IInv, TypeOK
<1>5. ~Direct(p) => me[p].event \in {"none", "update", "final"}
  BY <1>2 DEF Locals, Direct
<1>6. story' \in [Subs -> {"none", "update", "final", "missed", "afterFinal", "gap"}]
  BY <1>1, <1>2, <1>5 DEF IInv, TypeOK, Follow
<1>7. manager' \in {"open", "stopping", "emptied", "closed"} /\ (Emptied => Emptied')
  BY <1>1 DEF IInv, TypeOK, Emptied
<1> QED BY <1>1, <1>3, <1>4, <1>6, <1>7, EmptyHands, LocalStep

LEMMA RefuseKeeps ==
    ASSUME IInv, NEW p \in Procs, Refuse(p) PROVE IInv'
<1> DEFINE s == me[p].sub
           x == IF Direct(p) THEN Idle
                ELSE [me[p] EXCEPT !.pc = "notify", !.sub = None, !.failed = @ \cup {s}]
<1>1. me[p].pc = "send" /\ Become(p, x)
      /\ UNCHANGED <<blocking, manager, tasks, registered, push, owner, phase, queued>>
      /\ story' = [story EXCEPT ![s] =
                      IF Direct(p) \/ phase[s] # "open" \/ @ \in {"afterFinal", "gap"}
                      THEN @ ELSE "missed"]
  BY DEF Refuse, At
<1>2. me[p] \in Locals /\ LocalOK(me[p]) /\ s \in Subs
  BY <1>1, LocalsTyped DEF LocalOK
<1>3. x \in Locals /\ LocalOK(x)
  <2>1. CASE Direct(p)
    BY <2>1, IdleIsLocal
  <2>2. CASE ~Direct(p)
    BY <1>1, <1>2, <2>2 DEF Locals, LocalOK, Direct
  <2> QED BY <2>1, <2>2
<1>4. story' \in [Subs -> {"none", "update", "final", "missed", "afterFinal", "gap"}]
  BY <1>1, <1>2 DEF IInv, TypeOK
<1>5. /\ manager' \in {"open", "stopping", "emptied", "closed"} /\ (Emptied => Emptied')
      /\ queued' \in [Subs -> 0 .. BufSize]
  BY <1>1 DEF IInv, TypeOK, Emptied
<1> QED BY <1>1, <1>3, <1>4, <1>5, EmptyHands, LocalStep

LEMMA EndNotifyKeeps ==
    ASSUME IInv, NEW p \in Procs, EndNotify(p) PROVE IInv'
<1> DEFINE x == IF me[p].failed # {} THEN [me[p] EXCEPT !.pc = "cleanupFailed"]
                ELSE IF AfterNotify(p) = "idle" THEN Idle
                ELSE [me[p] EXCEPT !.pc = AfterNotify(p)]
<1>1. me[p].pc = "notify" /\ Become(p, x)
      /\ UNCHANGED <<blocking, manager, tasks, registered, push, streams>>
  BY DEF EndNotify, At
<1>2. me[p] \in Locals /\ LocalOK(me[p]) /\ AfterNotify(p) \in {"idle", "cleanSubs"}
  BY LocalsTyped DEF AfterNotify
<1>3. x \in Locals /\ LocalOK(x)
  <2>1. [me[p] EXCEPT !.pc = "cleanupFailed"] \in Locals
        /\ LocalOK([me[p] EXCEPT !.pc = "cleanupFailed"])
    BY <1>1, <1>2 DEF Locals, LocalOK
  <2>2. [me[p] EXCEPT !.pc = "cleanSubs"] \in Locals
        /\ LocalOK([me[p] EXCEPT !.pc = "cleanSubs"])
    BY <1>1, <1>2 DEF Locals, LocalOK
  <2> QED BY <1>2, <2>1, <2>2, IdleIsLocal
<1> QED BY <1>1, <1>3, EmptyHands, CallKeeps

LEMMA EndCloseKeeps ==
    ASSUME IInv, NEW p \in Procs, EndClose(p) PROVE IInv'
<1> DEFINE x == IF me[p].then = "idle" THEN Idle
                ELSE [me[p] EXCEPT !.pc = me[p].then, !.then = "idle"]
<1>1. me[p].pc = "close" /\ me[p].toClose = {} /\ Become(p, x)
      /\ UNCHANGED <<blocking, manager, tasks, registered, push, streams>>
  BY DEF EndClose, At
<1>2. me[p] \in Locals /\ LocalOK(me[p])
  BY LocalsTyped
<1>3. me[p].then \in {"idle", "cleanSubs", "drop", "closed"}
  BY <1>2 DEF Locals
<1>4. x \in Locals /\ LocalOK(x) /\ me[p].drop \subseteq x.drop
  <2>1. CASE me[p].then = "idle"
    BY <1>1, <1>2, <2>1, IdleIsLocal DEF LocalOK
  <2>2. CASE me[p].then # "idle"
    <3>1. x \in Locals /\ x.drop = me[p].drop
      BY <1>2, <1>3, <2>2 DEF Locals
    <3>2. LocalOK(x)
      BY <1>1, <1>2, <1>3, <2>2 DEF Locals, LocalOK
    <3> QED BY <3>1, <3>2
  <2> QED BY <2>1, <2>2
<1>5. /\ manager' \in {"open", "stopping", "emptied", "closed"} /\ (Emptied => Emptied')
      /\ queued' \in [Subs -> 0 .. BufSize]
      /\ story' \in [Subs -> {"none", "update", "final", "missed", "afterFinal", "gap"}]
      /\ UNCHANGED <<owner, phase>>
  BY <1>1 DEF IInv, TypeOK, streams, Emptied
<1> QED BY <1>1, <1>4, <1>5, LocalStep

LEMMA StopCleanerKeeps ==
    ASSUME IInv, StopCleaner PROVE IInv'
<1> DEFINE x == [Idle EXCEPT !.pc = "stopped"]
<1>1. x \in Locals /\ LocalOK(x) /\ Cleaner \in Procs
  BY DEF Idle, Locals, LocalOK, Procs
<1>2. me[Cleaner].pc = "idle" /\ Become(Cleaner, x)
      /\ UNCHANGED <<blocking, manager, tasks, registered, push, streams>>
  BY DEF StopCleaner, At
<1> QED BY <1>1, <1>2, EmptyHands, CallKeeps

LEMMA CloseKeeps ==
    ASSUME IInv, NEW p \in Procs, Close(p) PROVE IInv'
<1> DEFINE x == [Idle EXCEPT !.pc = "wait"]
<1>1. x \in Locals /\ LocalOK(x)
  BY DEF Idle, Locals, LocalOK
<1>2. me[p].pc = "idle" /\ manager = "open" /\ manager' = "stopping" /\ Become(p, x)
      /\ UNCHANGED <<blocking, tasks, registered, push, streams>>
  BY DEF Close, At
<1>3. /\ manager' \in {"open", "stopping", "emptied", "closed"} /\ (Emptied => Emptied')
      /\ queued' \in [Subs -> 0 .. BufSize]
      /\ story' \in [Subs -> {"none", "update", "final", "missed", "afterFinal", "gap"}]
      /\ UNCHANGED <<owner, phase>>
  BY <1>2 DEF IInv, TypeOK, streams, Emptied
<1> QED BY <1>1, <1>2, <1>3, EmptyHands, LocalStep

LEMMA CloseReturnsKeeps ==
    ASSUME IInv, NEW p \in Procs, CloseReturns(p) PROVE IInv'
<1>1. me[p].pc = "closed" /\ manager' = "closed" /\ Become(p, Idle)
      /\ UNCHANGED <<blocking, tasks, registered, push, streams>>
  BY DEF CloseReturns, At
<1>2. /\ manager' \in {"open", "stopping", "emptied", "closed"} /\ (Emptied => Emptied')
      /\ queued' \in [Subs -> 0 .. BufSize]
      /\ story' \in [Subs -> {"none", "update", "final", "missed", "afterFinal", "gap"}]
      /\ UNCHANGED <<owner, phase>>
  BY <1>1 DEF IInv, TypeOK, streams, Emptied
<1> QED BY <1>1, <1>2, IdleIsLocal, EmptyHands, LocalStep

-----------------------------------------------------------------------------
(* The steps that change the maps of the manager or the phase of a stream. *)

(* Every open stream is on its list or in someone's hands, whoever looks. *)
LEMMA OpenIsHeld ==
    ASSUME IInv, NEW s \in Subs, phase[s] = "open"
    PROVE  \/ s \in registered[owner[s]]
           \/ \E q \in Procs : s \in me[q].toClose
  BY DEF IInv, NoForgottenStream

LEMMA ClosingIsFinished ==
    ASSUME IInv, NEW s \in Subs, phase[s] = "closing"
    PROVE  \E q \in Procs : me[q].pc = "finishClose" /\ me[q].sub = s
  BY DEF IInv, NoForgottenStream, At

LEMMA BuildTaskKeeps ==
    ASSUME IInv, NEW p \in Procs, NEW k \in Tasks, BuildTask(p, k) PROVE IInv'
<1>1. /\ ~Exists(k)
      /\ status' = [status EXCEPT ![k] = "active"] /\ live' = [live EXCEPT ![k] = @ + 1]
      /\ aged' = aged \ {k}
      /\ UNCHANGED <<blocking, manager, registered, push, owner, phase, queued, story, me>>
  BY DEF BuildTask, streams
<1>2. live[k] = 0
  BY <1>1 DEF IInv, NoLeakedContext
<1>3. TypeOK'
  BY <1>1 DEF IInv, TypeOK
<1>4. LocalsOK'
  BY <1>1 DEF IInv, LocalsOK
<1>5. NoForgottenStream'
  BY <1>1 DEF IInv, NoForgottenStream, At
<1>6. NoLeakedContext'
  BY <1>1, <1>2 DEF IInv, TypeOK, NoLeakedContext, Exists
<1>7. NoOrphanConfig'
  BY <1>1 DEF IInv, TypeOK, NoOrphanConfig, Exists, Emptied
<1> QED BY <1>3, <1>4, <1>5, <1>6, <1>7 DEF IInv

(* The three ways to remove tasks take the streams of the tasks in hand, and  *)
(* their configurations, unless the manager is emptied.                     *)
LEMMA RemoveTasksKeeps ==
    ASSUME IInv, NEW p \in Procs, NEW removed \in SUBSET Tasks,
           NEW then \in {"drop", "closed"}, NEW drop \in SUBSET Tasks,
           me[p].toClose = {}, me[p].drop = {}, me[p].pc # "finishClose",
           RemoveTasks(p, removed, then, drop),
           drop # {} => then = "drop",
           manager' \in {"open", "stopping", "emptied", "closed"}, Emptied => Emptied',
           Emptied' \/ removed \subseteq drop
    PROVE  IInv'
<1> DEFINE hands == UNION {registered[k] : k \in removed}
           x == [Idle EXCEPT !.pc = "close", !.then = then, !.drop = drop, !.toClose = hands]
<1>1. /\ status' = [k \in Tasks |-> IF k \in removed THEN "absent" ELSE status[k]]
      /\ live' = [k \in Tasks |-> IF k \in removed /\ Exists(k) THEN live[k] - 1 ELSE live[k]]
      /\ aged' = aged \ removed
      /\ registered' = [k \in Tasks |-> IF k \in removed THEN {} ELSE registered[k]]
      /\ Become(p, x)
      /\ UNCHANGED <<blocking, push, owner, phase, queued, story>>
  BY DEF RemoveTasks, streams
<1>2. hands \in SUBSET Subs
  BY DEF IInv, TypeOK
<1>3. x \in Locals /\ LocalOK(x) /\ x.toClose = hands /\ x.drop = drop
  BY <1>2 DEF Idle, Locals, LocalOK
<1>4. /\ me' \in [Procs -> Locals] /\ LocalsOK'
      /\ me'[p] = x /\ \A q \in Procs : q # p => me'[q] = me[q]
  BY <1>1, <1>3, BecomeMoves DEF IInv
<1>5. \A k \in Tasks : live[k] = IF Exists(k) THEN 1 ELSE 0
  BY DEF IInv, NoLeakedContext
<1>6. TypeOK'
  <2>1. live' \in [Tasks -> Nat]
    BY <1>1, <1>5 DEF IInv, TypeOK
  <2> QED BY <1>1, <1>4, <2>1 DEF IInv, TypeOK
<1>7. NoLeakedContext'
  BY <1>1, <1>5 DEF NoLeakedContext, Exists
<1>8. NoForgottenStream'
  <2> SUFFICES ASSUME NEW s \in Subs
               PROVE  /\ phase[s] = "open" =>
                            \/ s \in registered'[owner[s]]
                            \/ \E q \in Procs : s \in me'[q].toClose
                      /\ phase[s] = "closing" =>
                            \E q \in Procs : me'[q].pc = "finishClose" /\ me'[q].sub = s
    BY <1>1 DEF NoForgottenStream, At
  <2>1. ASSUME phase[s] = "open"
        PROVE  s \in registered'[owner[s]] \/ \E q \in Procs : s \in me'[q].toClose
    <3>1. CASE s \in registered[owner[s]]
      <4>1. CASE owner[s] \in removed
        <5>1. s \in hands
          BY <3>1, <4>1
        <5> QED BY <1>3, <1>4, <5>1
      <4>2. CASE owner[s] \notin removed
        <5>1. owner[s] \in Tasks
          BY <2>1 DEF IInv, TypeOK
        <5> QED BY <1>1, <3>1, <4>2, <5>1
      <4> QED BY <4>1, <4>2
    <3>2. CASE \E q \in Procs : s \in me[q].toClose
      BY <1>4, <3>2
    <3> QED BY <2>1, <3>1, <3>2, OpenIsHeld
  <2>2. ASSUME phase[s] = "closing"
        PROVE  \E q \in Procs : me'[q].pc = "finishClose" /\ me'[q].sub = s
    BY <1>4, <2>2, ClosingIsFinished
  <2> QED BY <2>1, <2>2
<1>9. NoOrphanConfig'
  <2> SUFFICES ASSUME NEW k \in Tasks, push[k] = "task", ~Exists(k)', ~Emptied'
               PROVE  \E q \in Procs : k \in me'[q].drop
    BY <1>1 DEF NoOrphanConfig
  <2>1. CASE k \in removed
    BY <1>3, <1>4, <2>1
  <2>2. CASE k \notin removed
    <3>1. ~Exists(k) /\ ~Emptied
      BY <1>1, <2>2 DEF Exists
    <3>2. PICK q \in Procs : k \in me[q].drop
      BY <3>1 DEF IInv, NoOrphanConfig
    <3> QED BY <1>4, <3>2
  <2> QED BY <2>1, <2>2
<1> QED BY <1>4, <1>6, <1>7, <1>8, <1>9 DEF IInv

LEMMA CleanTaskKeeps ==
    ASSUME IInv, NEW p \in Procs, NEW k \in Tasks, me[p].pc \in {"idle", "clean"},
           CleanTask(p, k)
    PROVE  IInv'
<1>1. RemoveTasks(p, {k}, "drop", {k}) /\ manager' = manager
  BY DEF CleanTask
<1>2. /\ manager' \in {"open", "stopping", "emptied", "closed"} /\ (Emptied => Emptied')
      /\ {k} \in SUBSET Tasks
  BY <1>1 DEF IInv, TypeOK, Emptied
<1>3. me[p].toClose = {} /\ me[p].drop = {} /\ me[p].pc # "finishClose"
  BY EmptyHands
<1>4. (Emptied' \/ {k} \subseteq {k}) /\ ({k} # {} => "drop" = "drop")
  OBVIOUS
<1> HIDE DEF RemoveTasks, Emptied, IInv
<1> QED BY <1>1, <1>2, <1>3, <1>4, RemoveTasksKeeps

LEMMA CleanCanceledTaskKeeps ==
    ASSUME IInv, NEW p \in Procs, CleanCanceledTask(p) PROVE IInv'
<1>1. me[p].pc = "clean"
  BY DEF CleanCanceledTask, At
<1>2. me[p].task \in Tasks
  BY <1>1, LocalsTyped DEF LocalOK
<1>3. CASE CleanTask(p, me[p].task)
  BY <1>1, <1>2, <1>3, CleanTaskKeeps
<1>4. CASE Become(p, Idle) /\ UNCHANGED <<blocking, manager, tasks, registered, push, streams>>
  BY <1>1, <1>4, IdleIsLocal, EmptyHands, CallKeeps
<1> QED BY <1>3, <1>4 DEF CleanCanceledTask

LEMMA CleanExpiredTasksKeeps ==
    ASSUME IInv, CleanExpiredTasks PROVE IInv'
<1>1. me[Cleaner].pc = "idle" /\ RemoveTasks(Cleaner, Expired, "drop", Expired)
      /\ manager' = manager /\ Cleaner \in Procs
  BY DEF CleanExpiredTasks, At, Procs
<1>2. Expired \in SUBSET Tasks
  BY DEF Expired, IInv, TypeOK
<1>3. manager' \in {"open", "stopping", "emptied", "closed"} /\ (Emptied => Emptied')
  BY <1>1 DEF IInv, TypeOK, Emptied
<1> QED BY <1>1, <1>2, <1>3, EmptyHands, RemoveTasksKeeps

LEMMA TeardownKeeps ==
    ASSUME IInv, NEW p \in Procs, Teardown(p) PROVE IInv'
<1>1. me[p].pc = "wait" /\ RemoveTasks(p, Tasks, "closed", {}) /\ manager' = "emptied"
  BY DEF Teardown, At
<1>2. Emptied'
  BY <1>1 DEF Emptied
<1>3. Tasks \in SUBSET Tasks /\ {} \in SUBSET Tasks
  OBVIOUS
<1> QED BY <1>1, <1>2, <1>3, EmptyHands, RemoveTasksKeeps

LEMMA DropConfigsKeeps ==
    ASSUME IInv, NEW p \in Procs, DropConfigs(p) PROVE IInv'
<1>1. /\ me[p].pc = "drop" /\ Become(p, Idle)
      /\ push' = [k \in Tasks |-> IF k \in me[p].drop THEN "none" ELSE push[k]]
      /\ UNCHANGED <<blocking, manager, status, aged, live, registered, owner, phase, queued, story>>
  BY DEF DropConfigs, At, tasks, streams
<1>2. /\ me' \in [Procs -> Locals] /\ LocalsOK'
      /\ me'[p] = Idle /\ \A q \in Procs : q # p => me'[q] = me[q]
  BY <1>1, IdleIsLocal, BecomeMoves DEF IInv
<1>3. TypeOK'
  BY <1>1, <1>2 DEF IInv, TypeOK
<1>4. me[p].toClose = {}
  BY <1>1, LocalsTyped DEF LocalOK
<1>5. NoForgottenStream'
  BY <1>1, <1>4, IdleIsLocal, StreamsKept
<1>6. NoLeakedContext'
  BY <1>1, ContextsKept DEF Exists
<1>7. NoOrphanConfig'
  <2> SUFFICES ASSUME NEW k \in Tasks, push'[k] = "task", ~Exists(k), ~Emptied
               PROVE  \E q \in Procs : k \in me'[q].drop
    BY <1>1 DEF NoOrphanConfig, Exists, Emptied
  <2>1. k \notin me[p].drop /\ push[k] = "task"
    BY <1>1
  <2>2. PICK q \in Procs : k \in me[q].drop
    BY <2>1 DEF IInv, NoOrphanConfig
  <2> QED BY <1>2, <2>1, <2>2
<1> QED BY <1>2, <1>3, <1>5, <1>6, <1>7 DEF IInv

LEMMA PushSetKeeps ==
    ASSUME IInv, NEW p \in Procs, NEW k \in Tasks, OnPushNotificationSet(p, k) PROVE IInv'
<1>1. /\ push' = [push EXCEPT ![k] = IF Exists(k) THEN "task" ELSE "noTask"]
      /\ UNCHANGED <<blocking, manager, status, aged, live, registered, owner, phase, queued, story, me>>
  BY DEF OnPushNotificationSet, tasks, streams
<1>2. TypeOK' /\ LocalsOK' /\ NoForgottenStream' /\ NoLeakedContext'
  BY <1>1 DEF IInv, TypeOK, LocalsOK, NoForgottenStream, NoLeakedContext, Exists, At
<1>3. NoOrphanConfig'
  BY <1>1 DEF IInv, TypeOK, NoOrphanConfig, Exists, Emptied
<1> QED BY <1>2, <1>3 DEF IInv

(* A stream that is put on a list is found there. *)
LEMMA RegisterKeeps ==
    ASSUME IInv, NEW p \in Procs, NEW k \in Tasks, NEW s \in Subs,
           NEW x \in Locals, LocalOK(x), Become(p, x), Register(k, s),
           me[p].toClose = {}, me[p].drop = {}, me[p].pc # "finishClose"
    PROVE  IInv'
<1>1. /\ phase' = [phase EXCEPT ![s] = "open"]
      /\ owner' = [owner EXCEPT ![s] = k]
      /\ registered' = [registered EXCEPT ![k] = @ \cup {s}]
      /\ UNCHANGED <<blocking, manager, status, aged, live, push, queued, story>>
  BY DEF Register, tasks
<1>2. /\ me' \in [Procs -> Locals] /\ LocalsOK'
      /\ me'[p] = x /\ \A q \in Procs : q # p => me'[q] = me[q]
  BY BecomeMoves DEF IInv
<1>3. TypeOK'
  BY <1>1, <1>2 DEF IInv, TypeOK
<1>4. NoForgottenStream'
  <2> SUFFICES ASSUME NEW u \in Subs
               PROVE  /\ phase'[u] = "open" =>
                            \/ u \in registered'[owner'[u]]
                            \/ \E q \in Procs : u \in me'[q].toClose
                      /\ phase'[u] = "closing" =>
                            \E q \in Procs : me'[q].pc = "finishClose" /\ me'[q].sub = u
    BY DEF NoForgottenStream, At
  <2>1. CASE u = s
    BY <1>1, <2>1 DEF IInv, TypeOK
  <2>2. CASE u # s
    <3>1. phase'[u] = phase[u] /\ owner'[u] = owner[u]
      BY <1>1, <2>2 DEF IInv, TypeOK
    <3>2. ASSUME phase[u] = "open"
          PROVE  u \in registered'[owner[u]] \/ \E q \in Procs : u \in me'[q].toClose
      <4>1. owner[u] \in Tasks
        BY <3>2 DEF IInv, TypeOK
      <4>2. CASE u \in registered[owner[u]]
        BY <1>1, <4>1, <4>2 DEF IInv, TypeOK
      <4>3. CASE \E q \in Procs : u \in me[q].toClose
        BY <1>2, <4>3
      <4> QED BY <3>2, <4>2, <4>3, OpenIsHeld
    <3>3. ASSUME phase[u] = "closing"
          PROVE  \E q \in Procs : me'[q].pc = "finishClose" /\ me'[q].sub = u
      BY <1>2, <3>3, ClosingIsFinished
    <3> QED BY <3>1, <3>2, <3>3
  <2> QED BY <2>1, <2>2
<1>5. NoLeakedContext'
  BY <1>1, ContextsKept DEF Exists
<1>6. NoOrphanConfig'
  BY <1>1, ConfigsKept DEF Exists, Emptied
<1> QED BY <1>2, <1>3, <1>4, <1>5, <1>6 DEF IInv

LEMMA OnResubscribeKeeps ==
    ASSUME IInv, NEW p \in Procs, NEW k \in Tasks, NEW s \in Subs, OnResubscribe(p, k, s)
    PROVE  IInv'
<1>1. me[p].pc = "idle" /\ phase[s] = "unused" /\ Register(k, s) /\ me' = me
  BY DEF OnResubscribe, At
<1>2. me[p] \in Locals /\ LocalOK(me[p]) /\ Become(p, me[p])
  BY <1>1, LocalsTyped DEF Become, IInv, TypeOK
<1> QED BY <1>1, <1>2, EmptyHands, RegisterKeeps

LEMMA SubscribeTaskKeeps ==
    ASSUME IInv, NEW p \in Procs, NEW k \in Tasks, NEW s \in Subs, SubscribeTask(p, k, s)
    PROVE  IInv'
<1> DEFINE x == [Idle EXCEPT !.pc = "add", !.task = k, !.sub = s]
<1>1. /\ me[p].pc = "idle" /\ phase[s] = "unused" /\ Become(p, x)
      /\ phase' = [phase EXCEPT ![s] = "new"]
      /\ UNCHANGED <<blocking, manager, status, aged, live, registered, push, owner, queued, story>>
  BY DEF SubscribeTask, At, tasks
<1>2. x \in Locals /\ LocalOK(x)
  BY DEF Idle, Locals, LocalOK
<1>3. /\ me' \in [Procs -> Locals] /\ LocalsOK'
      /\ me'[p] = x /\ \A q \in Procs : q # p => me'[q] = me[q]
  BY <1>1, <1>2, BecomeMoves DEF IInv
<1>4. me[p].toClose = {} /\ me[p].drop = {}
  BY <1>1, EmptyHands
<1>5. TypeOK'
  BY <1>1, <1>3 DEF IInv, TypeOK
<1>6. NoForgottenStream'
  <2> SUFFICES ASSUME NEW u \in Subs
               PROVE  /\ phase'[u] = "open" =>
                            \/ u \in registered[owner[u]]
                            \/ \E q \in Procs : u \in me'[q].toClose
                      /\ phase'[u] = "closing" =>
                            \E q \in Procs : me'[q].pc = "finishClose" /\ me'[q].sub = u
    BY <1>1 DEF NoForgottenStream, At
  <2>1. CASE u = s
    BY <1>1, <2>1 DEF IInv, TypeOK
  <2>2. CASE u # s
    <3>1. phase'[u] = phase[u]
      BY <1>1, <2>2 DEF IInv, TypeOK
    <3> QED BY <1>1, <1>3, <1>4, <3>1, OpenIsHeld, ClosingIsFinished
  <2> QED BY <2>1, <2>2
<1>7. NoLeakedContext'
  BY <1>1, ContextsKept DEF Exists
<1>8. NoOrphanConfig'
  BY <1>1, <1>2, <1>4, ConfigsKept DEF Exists, Emptied
<1> QED BY <1>3, <1>5, <1>6, <1>7, <1>8 DEF IInv

LEMMA AddSubscriberKeeps ==
    ASSUME IInv, NEW p \in Procs, AddSubscriber(p) PROVE IInv'
<1>1. me[p].pc = "add" /\ Register(me[p].task, me[p].sub) /\ Become(p, Idle)
  BY DEF AddSubscriber, At
<1>2. me[p].task \in Tasks /\ me[p].sub \in Subs
  BY <1>1, LocalsTyped DEF LocalOK
<1> QED BY <1>1, <1>2, IdleIsLocal, EmptyHands, RegisterKeeps

LEMMA ReceiveKeeps ==
    ASSUME IInv, NEW s \in Subs, Receive(s) PROVE IInv'
<1>1. /\ queued[s] > 0 /\ queued' = [queued EXCEPT ![s] = @ - 1]
      /\ UNCHANGED <<blocking, manager, status, aged, live, registered, push, owner, phase, story, me>>
  BY DEF Receive, tasks
<1>2. queued' \in [Subs -> 0 .. BufSize]
  BY <1>1 DEF IInv, TypeOK
<1> QED BY <1>1, <1>2 DEF IInv, TypeOK, LocalsOK, NoForgottenStream, NoLeakedContext,
                          NoOrphanConfig, Exists, Emptied, At

LEMMA AgeKeeps ==
    ASSUME IInv, NEW k \in Tasks, Age(k) PROVE IInv'
<1>1. /\ aged' = aged \cup {k}
      /\ UNCHANGED <<blocking, manager, status, live, registered, push, owner, phase, queued, story, me>>
  BY DEF Age, streams
<1> QED BY <1>1 DEF IInv, TypeOK, LocalsOK, NoForgottenStream, NoLeakedContext,
                    NoOrphanConfig, Exists, Emptied, At

(* cleanupFailedSubscribers and cleanSubscribers take streams off the list of *)
(* one task and have them in hand: p takes all of taken that is listed.       *)
LEMMA TakeOffKeeps ==
    ASSUME IInv, NEW p \in Procs, NEW k \in Tasks, NEW taken \in SUBSET Subs,
           NEW x \in Locals, LocalOK(x), Become(p, x),
           me[p].toClose = {}, me[p].drop = {}, me[p].pc # "finishClose",
           registered' = [registered EXCEPT ![k] = @ \ taken],
           registered[k] \cap taken \subseteq x.toClose,
           UNCHANGED <<blocking, manager, tasks, push, streams>>
    PROVE  IInv'
<1>1. /\ me' \in [Procs -> Locals] /\ LocalsOK'
      /\ me'[p] = x /\ \A q \in Procs : q # p => me'[q] = me[q]
  BY BecomeMoves DEF IInv
<1>2. UNCHANGED <<blocking, manager, status, aged, live, push, owner, phase, queued, story>>
  BY DEF tasks, streams
<1>3. TypeOK'
  BY <1>1, <1>2 DEF IInv, TypeOK
<1>4. NoForgottenStream'
  <2> SUFFICES ASSUME NEW s \in Subs
               PROVE  /\ phase[s] = "open" =>
                            \/ s \in registered'[owner[s]]
                            \/ \E q \in Procs : s \in me'[q].toClose
                      /\ phase[s] = "closing" =>
                            \E q \in Procs : me'[q].pc = "finishClose" /\ me'[q].sub = s
    BY <1>2 DEF NoForgottenStream, At
  <2>1. ASSUME phase[s] = "open"
        PROVE  s \in registered'[owner[s]] \/ \E q \in Procs : s \in me'[q].toClose
    <3>1. CASE s \in registered[owner[s]]
      <4>1. owner[s] \in Tasks
        BY <2>1 DEF IInv, TypeOK
      <4>2. CASE owner[s] = k /\ s \in taken
        BY <1>1, <3>1, <4>2
      <4>3. CASE owner[s] # k \/ s \notin taken
        BY <3>1, <4>1, <4>3 DEF IInv, TypeOK
      <4> QED BY <4>2, <4>3
    <3>2. CASE \E q \in Procs : s \in me[q].toClose
      BY <1>1, <3>2
    <3> QED BY <2>1, <3>1, <3>2, OpenIsHeld
  <2>2. ASSUME phase[s] = "closing"
        PROVE  \E q \in Procs : me'[q].pc = "finishClose" /\ me'[q].sub = s
    BY <1>1, <2>2, ClosingIsFinished
  <2> QED BY <2>1, <2>2
<1>5. NoLeakedContext'
  BY <1>2, ContextsKept DEF Exists
<1>6. NoOrphanConfig'
  BY <1>2, ConfigsKept DEF Exists, Emptied
<1> QED BY <1>1, <1>3, <1>4, <1>5, <1>6 DEF IInv

LEMMA CleanupFailedKeeps ==
    ASSUME IInv, NEW p \in Procs, CleanupFailedSubscribers(p) PROVE IInv'
<1> DEFINE k == me[p].task
           taken == me[p].failed
           x == [me[p] EXCEPT !.pc = "close", !.failed = {}, !.then = AfterNotify(p),
                              !.toClose = registered[k] \cap taken]
<1>1. /\ me[p].pc = "cleanupFailed" /\ Become(p, x)
      /\ registered' = [registered EXCEPT ![k] = @ \ taken]
      /\ UNCHANGED <<blocking, manager, tasks, push, streams>>
  BY DEF CleanupFailedSubscribers, At
<1>2. me[p] \in Locals /\ LocalOK(me[p]) /\ AfterNotify(p) \in {"idle", "cleanSubs"}
  BY LocalsTyped DEF AfterNotify
<1>3. k \in Tasks /\ taken \in SUBSET Subs
  BY <1>1, <1>2 DEF Locals, LocalOK
<1>4. me[p].toClose = {} /\ me[p].drop = {}
  BY <1>1, EmptyHands
<1>5. x \in Locals /\ x.toClose = registered[k] \cap taken
  BY <1>2, <1>3 DEF Locals
<1>6. LocalOK(x)
  BY <1>1, <1>2, <1>3, <1>4 DEF Locals, LocalOK
<1> HIDE DEF x, k, taken
<1> QED BY <1>1, <1>3, <1>4, <1>5, <1>6, TakeOffKeeps

LEMMA CleanSubscribersKeeps ==
    ASSUME IInv, NEW p \in Procs, CleanSubscribers(p) PROVE IInv'
<1> DEFINE k == me[p].task
           x == [Idle EXCEPT !.pc = "close", !.toClose = registered[k]]
<1>1. /\ me[p].pc = "cleanSubs" /\ Become(p, x)
      /\ registered' = [registered EXCEPT ![k] = {}]
      /\ UNCHANGED <<blocking, manager, tasks, push, streams>>
  BY DEF CleanSubscribers, At
<1>2. k \in Tasks
  BY <1>1, LocalsTyped DEF LocalOK
<1>3. registered[k] \in SUBSET Subs
  BY <1>2 DEF IInv, TypeOK
<1>4. me[p].toClose = {} /\ me[p].drop = {}
  BY <1>1, EmptyHands
<1>5. x \in Locals /\ LocalOK(x) /\ x.toClose = registered[k]
  BY <1>3 DEF Idle, Locals, LocalOK
<1>6. registered' = [registered EXCEPT ![k] = @ \ registered[k]]
  BY <1>1, <1>2 DEF IInv, TypeOK
<1> HIDE DEF x, k
<1> QED BY <1>1, <1>2, <1>3, <1>4, <1>5, <1>6, TakeOffKeeps

(* The first Close of a stream becomes the one that finishes it, and a second *)
(* one only lets go of a stream that is not open any more.                    *)
LEMMA CloseSubKeeps ==
    ASSUME IInv, NEW p \in Procs, NEW s \in Subs, CloseSub(p, s) PROVE IInv'
<1> DEFINE x == IF phase[s] = "open"
                THEN [me[p] EXCEPT !.pc = "finishClose", !.toClose = @ \ {s}, !.sub = s]
                ELSE [me[p] EXCEPT !.toClose = @ \ {s}]
<1>1. /\ me[p].pc = "close" /\ s \in me[p].toClose /\ Become(p, x)
      /\ phase' = [phase EXCEPT ![s] = IF phase[s] = "open" THEN "closing" ELSE @]
      /\ UNCHANGED <<blocking, manager, status, aged, live, registered, push, owner, queued, story>>
  BY DEF CloseSub, At, tasks, IInv, TypeOK
<1>2. me[p] \in Locals /\ LocalOK(me[p])
  BY LocalsTyped
<1>3. x \in Locals /\ LocalOK(x) /\ x.toClose = me[p].toClose \ {s} /\ x.drop = me[p].drop
  BY <1>1, <1>2 DEF Locals, LocalOK
<1>4. /\ me' \in [Procs -> Locals] /\ LocalsOK'
      /\ me'[p] = x /\ \A q \in Procs : q # p => me'[q] = me[q]
  BY <1>1, <1>3, BecomeMoves DEF IInv
<1>5. TypeOK'
  <2>1. phase' \in [Subs -> {"unused", "new", "open", "closing", "closed"}]
        /\ \A u \in Subs : phase'[u] = "open" => phase[u] = "open"
    BY <1>1 DEF IInv, TypeOK
  <2> QED BY <1>1, <1>4, <2>1 DEF IInv, TypeOK
<1>6. NoForgottenStream'
  <2> SUFFICES ASSUME NEW u \in Subs
               PROVE  /\ phase'[u] = "open" =>
                            \/ u \in registered[owner[u]]
                            \/ \E q \in Procs : u \in me'[q].toClose
                      /\ phase'[u] = "closing" =>
                            \E q \in Procs : me'[q].pc = "finishClose" /\ me'[q].sub = u
    BY <1>1 DEF NoForgottenStream, At
  <2>1. ASSUME phase'[u] = "open"
        PROVE  u \in registered[owner[u]] \/ \E q \in Procs : u \in me'[q].toClose
    <3>1. u # s /\ phase[u] = "open"
      BY <1>1, <2>1 DEF IInv, TypeOK
    <3>2. \A q \in Procs : u \in me[q].toClose => u \in me'[q].toClose
      BY <1>3, <1>4, <3>1
    <3> QED BY <3>1, <3>2, OpenIsHeld
  <2>2. ASSUME phase'[u] = "closing"
        PROVE  \E q \in Procs : me'[q].pc = "finishClose" /\ me'[q].sub = u
    <3>1. CASE u = s /\ phase[s] = "open"
      <4>1. x.pc = "finishClose" /\ x.sub = s
        BY <1>2, <3>1 DEF Locals
      <4> QED BY <1>4, <3>1, <4>1
    <3>2. CASE ~(u = s /\ phase[s] = "open")
      <4>1. phase[u] = "closing"
        BY <1>1, <2>2, <3>2 DEF IInv, TypeOK
      <4>2. PICK q \in Procs : me[q].pc = "finishClose" /\ me[q].sub = u
        BY <4>1, ClosingIsFinished
      <4> QED BY <1>1, <1>4, <4>2
    <3> QED BY <3>1, <3>2
  <2> QED BY <2>1, <2>2
<1>7. NoLeakedContext'
  BY <1>1, ContextsKept DEF Exists
<1>8. NoOrphanConfig'
  BY <1>1, <1>3, ConfigsKept DEF Exists, Emptied
<1> QED BY <1>4, <1>5, <1>6, <1>7, <1>8 DEF IInv

LEMMA FinishCloseKeeps ==
    ASSUME IInv, NEW p \in Procs, FinishClose(p) PROVE IInv'
<1> DEFINE s == me[p].sub
           x == [me[p] EXCEPT !.pc = "close", !.sub = None]
<1>1. /\ me[p].pc = "finishClose" /\ Become(p, x)
      /\ phase' = [phase EXCEPT ![s] = "closed"]
      /\ UNCHANGED <<blocking, manager, status, aged, live, registered, push, owner, queued, story>>
  BY DEF FinishClose, At, tasks
<1>2. me[p] \in Locals /\ LocalOK(me[p]) /\ s \in Subs
  BY <1>1, LocalsTyped DEF LocalOK
<1>3. x \in Locals /\ LocalOK(x) /\ x.toClose = me[p].toClose /\ x.drop = me[p].drop
  BY <1>1, <1>2 DEF Locals, LocalOK
<1>4. /\ me' \in [Procs -> Locals] /\ LocalsOK'
      /\ me'[p] = x /\ \A q \in Procs : q # p => me'[q] = me[q]
  BY <1>1, <1>3, BecomeMoves DEF IInv
<1>5. phase' \in [Subs -> {"unused", "new", "open", "closing", "closed"}]
      /\ \A u \in Subs : u # s => phase'[u] = phase[u]
      /\ phase'[s] = "closed"
  BY <1>1, <1>2 DEF IInv, TypeOK
<1>6. TypeOK'
  BY <1>1, <1>4, <1>5 DEF IInv, TypeOK
<1>7. NoForgottenStream'
  <2> SUFFICES ASSUME NEW u \in Subs, u # s
               PROVE  /\ phase[u] = "open" =>
                            \/ u \in registered[owner[u]]
                            \/ \E q \in Procs : u \in me'[q].toClose
                      /\ phase[u] = "closing" =>
                            \E q \in Procs : me'[q].pc = "finishClose" /\ me'[q].sub = u
    BY <1>1, <1>2, <1>5 DEF NoForgottenStream, At
  <2>1. \A q \in Procs : u \in me[q].toClose => u \in me'[q].toClose
    BY <1>3, <1>4
  <2>2. \A q \in Procs : me[q].pc = "finishClose" /\ me[q].sub = u =>
                             me'[q].pc = "finishClose" /\ me'[q].sub = u
    BY <1>4
  <2> QED BY <2>1, <2>2, OpenIsHeld, ClosingIsFinished
<1>8. NoLeakedContext'
  BY <1>1, ContextsKept DEF Exists
<1>9. NoOrphanConfig'
  BY <1>1, <1>3, ConfigsKept DEF Exists, Emptied
<1> QED BY <1>4, <1>6, <1>7, <1>8, <1>9 DEF IInv

-----------------------------------------------------------------------------
LEMMA InitEstablishes == Init => IInv
<1> SUFFICES ASSUME Init PROVE IInv
  OBVIOUS
<1>1. me = [p \in Procs |-> Idle]
  BY DEF Init
<1>2. TypeOK
  BY <1>1, IdleIsLocal DEF Init, TypeOK
<1>3. LocalsOK
  BY <1>1, IdleIsLocal DEF LocalsOK
<1>4. NoForgottenStream /\ NoLeakedContext /\ NoOrphanConfig
  BY DEF Init, NoForgottenStream, NoLeakedContext, NoOrphanConfig, Exists
<1> QED BY <1>2, <1>3, <1>4 DEF IInv

LEMMA CallsKeep == ASSUME IInv, NEW p \in Threads, Call(p) PROVE IInv'
<1>1. p \in Procs
  BY DEF Procs
<1>2. CASE \E k \in Tasks : BuildTask(p, k)
  BY <1>1, <1>2, BuildTaskKeeps
<1>3. CASE \E k \in Tasks, final \in BOOLEAN : UpdateTaskState(p, k, final)
  BY <1>1, <1>3, UpdateKeeps
<1>4. CASE \E k \in Tasks : AddArtifact(p, k)
  BY <1>1, <1>4, AddArtifactKeeps
<1>5. CASE \E k \in Tasks : OnCancelTask(p, k)
  BY <1>1, <1>5, OnCancelTaskKeeps
<1>6. CASE \E k \in Tasks : At(p, "idle") /\ CleanTask(p, k)
  BY <1>1, <1>6, CleanTaskKeeps DEF At
<1>7. CASE \E k \in Tasks : OnPushNotificationSet(p, k)
  BY <1>1, <1>7, PushSetKeeps
<1>8. CASE \E k \in Tasks, s \in Subs : SubscribeTask(p, k, s)
  BY <1>1, <1>8, SubscribeTaskKeeps
<1>9. CASE \E k \in Tasks, s \in Subs : OnResubscribe(p, k, s)
  BY <1>1, <1>9, OnResubscribeKeeps
<1>10. CASE \E s \in Subs : Send(p, s)
  BY <1>1, <1>10, SendKeeps
<1>11. CASE \E s \in Subs : CloseSubscriber(p, s)
  BY <1>1, <1>11, CloseSubscriberKeeps
<1>12. CASE Close(p)
  BY <1>1, <1>12, CloseKeeps
<1> QED
  BY <1>2, <1>3, <1>4, <1>5, <1>6, <1>7, <1>8, <1>9, <1>10, <1>11, <1>12 DEF Call

LEMMA StepsKeep == ASSUME IInv, NEW p \in Procs, Step(p) PROVE IInv'
<1>1. CASE CleanCanceledTask(p) \/ DropConfigs(p) \/ AddSubscriber(p)
  BY <1>1, CleanCanceledTaskKeeps, DropConfigsKeeps, AddSubscriberKeeps
<1>2. CASE Snapshot(p) \/ Accept(p) \/ Refuse(p) \/ EndNotify(p)
  BY <1>2, SnapshotKeeps, AcceptKeeps, RefuseKeeps, EndNotifyKeeps
<1>3. CASE \E s \in Subs : Notify(p, s) \/ CloseSub(p, s)
  BY <1>3, NotifyKeeps, CloseSubKeeps
<1>4. CASE CleanupFailedSubscribers(p) \/ CleanSubscribers(p)
  BY <1>4, CleanupFailedKeeps, CleanSubscribersKeeps
<1>5. CASE FinishClose(p) \/ EndClose(p)
  BY <1>5, FinishCloseKeeps, EndCloseKeeps
<1>6. CASE Teardown(p) \/ CloseReturns(p)
  BY <1>6, TeardownKeeps, CloseReturnsKeeps
<1> QED BY <1>1, <1>2, <1>3, <1>4, <1>5, <1>6 DEF Step

LEMMA StutterKeeps == ASSUME IInv, UNCHANGED vars PROVE IInv'
  BY DEF IInv, TypeOK, LocalsOK, NoForgottenStream, NoLeakedContext, NoOrphanConfig,
         Exists, Emptied, At, vars, tasks, streams

(* The invariant is inductive. *)
THEOREM Invariance == Spec => []IInv
<1>1. Init => IInv
  BY InitEstablishes
<1>2. IInv /\ [Next]_vars => IInv'
  <2> SUFFICES ASSUME IInv, [Next]_vars PROVE IInv'
    OBVIOUS
  <2>1. CASE \E p \in Threads : Call(p)
    BY <2>1, CallsKeep
  <2>2. CASE \E p \in Procs : Step(p)
    BY <2>2, StepsKeep
  <2>3. CASE CleanExpiredTasks \/ StopCleaner
    BY <2>3, CleanExpiredTasksKeeps, StopCleanerKeeps
  <2>4. CASE \E k \in Tasks : Age(k)
    BY <2>4, AgeKeeps
  <2>5. CASE \E s \in Subs : Receive(s)
    BY <2>5, ReceiveKeeps
  <2>6. CASE UNCHANGED vars
    BY <2>6, StutterKeeps
  <2> QED BY <2>1, <2>2, <2>3, <2>4, <2>5, <2>6 DEF Next
<1> QED BY <1>1, <1>2, PTL DEF Spec

(* Every variable of the manager keeps its type. *)
THEOREM ManagerTypeCorrect == Spec => []TypeOK
<1>1. IInv => TypeOK
  BY DEF IInv
<1> QED BY <1>1, Invariance, PTL

(* No stream is forgotten, however handlers, the reaper and Close interleave: *)
(* an open one is on the list of its task or in the hands of a goroutine that *)
(* closes it, and one that is closing has a goroutine that finishes.        *)
THEOREM StreamsNotForgotten == Spec => []NoForgottenStream
<1>1. IInv => NoForgottenStream
  BY DEF IInv
<1> QED BY <1>1, Invariance, PTL

(* A task ID never has an uncancelled context beside that of the stored task, *)
(* and a stored task always has one.                                        *)
THEOREM ContextsNotLeaked == Spec => []NoLeakedContext
<1>1. IInv => NoLeakedContext
  BY DEF IInv
<1> QED BY <1>1, Invariance, PTL

(* A push configuration set for a stored task does not outlive the task. *)
THEOREM ConfigsNotOrphaned == Spec => []NoOrphanConfig
<1>1. IInv => NoOrphanConfig
  BY DEF IInv
<1> QED BY <1>1, Invariance, PTL

-----------------------------------------------------------------------------
(* What the streams hand out, when one goroutine updates each task. *)

SingleWriter == \A k \in Tasks : \A p, q \in Writers[k] : p = q

(* In notifySubscribers; Ahead are the streams it has not sent on yet. *)
Notifying(l) == l.pc \in {"notify", "send", "cleanupFailed"} /\ l.event # "direct"

Ahead(l) == l.todo \cup IF l.pc = "send" THEN {l.sub} ELSE {}

(* On its way to take the subscribers of task k off, after the final event. *)
Ending(l, k) ==
    /\ l.event = "final" /\ l.task = k
    /\ Notifying(l) \/ l.pc = "cleanSubs" \/ (l.pc \in {"close", "finishClose"} /\ l.then = "cleanSubs")

(* A subscriber is new to the one goroutine that is about to register it, and *)
(* stays closed for the one that closes it.                                 *)
Fresh ==
    \A p \in Procs :
        /\ At(p, "add") => phase[me[p].sub] = "new"
        /\ At(p, "add") => \A q \in Procs : At(q, "add") /\ me[q].sub = me[p].sub => q = p
        /\ At(p, "finishClose") => phase[me[p].sub] \in {"closing", "closed"}

Lists ==
    \A k \in Tasks : \A s \in registered[k] : owner[s] = k /\ phase[s] \notin {"unused", "new"}

(* What is ahead in a round of notifySubscribers has not missed an event and  *)
(* has not got its final one.                                               *)
RoundOK(l) ==
    /\ \A s \in Ahead(l) :
          owner[s] = l.task /\ phase[s] \notin {"unused", "new"} /\ story[s] \in {"none", "update"}
    /\ l.pc = "send" => l.sub \notin l.todo

Rounds ==
    \A p \in Procs :
        /\ At(p, "snapshot") \/ Notifying(me[p]) => p \in Writers[me[p].task]
        /\ Notifying(me[p]) => RoundOK(me[p])

(* A listed stream that missed an event, or got its final one, is about to be *)
(* taken off the list by the goroutine that updates its task.               *)
Stories ==
    /\ StreamsAreSound
    /\ \A s \in Subs : phase[s] \in {"unused", "new"} => story[s] = "none"
    /\ \A k \in Tasks : \A s \in registered[k] :
          /\ story[s] = "missed" =>
                \E p \in Writers[k] : Notifying(me[p]) /\ me[p].task = k /\ s \in me[p].failed
          /\ story[s] = "final" => \E p \in Writers[k] : Ending(me[p], k)

SInv == Fresh /\ Lists /\ Rounds /\ Stories

LEMMA NotifyingTask ==
    ASSUME IInv, SInv, NEW p \in Procs, Notifying(me[p])
    PROVE  me[p].task \in Tasks /\ p \in Writers[me[p].task] /\ RoundOK(me[p])
<1>1. me[p].task \in Tasks
  BY LocalsTyped DEF Notifying, LocalOK
<1> QED BY <1>1 DEF SInv, Rounds

(* A step that leaves the streams and the goroutines as they are. *)
LEMMA StoriesStand ==
    ASSUME SInv, UNCHANGED <<me, registered, owner, phase, story>> PROVE SInv'
  BY DEF SInv, Fresh, Lists, Rounds, Stories, StreamsAreSound, NoGap, FinalIsLast, At,
         Notifying, Ahead, RoundOK, Ending

(* A step of p that tells no stream's story further: streams may be closed and *)
(* may leave their lists; those that stay on one keep the goroutine that is  *)
(* about to take them off.                                                  *)
LEMMA StoriesFrame ==
    ASSUME IInv, SInv, NEW p \in Procs, NEW x \in Locals, LocalOK(x), Become(p, x),
           UNCHANGED <<owner, story>>,
           \A s \in Subs : \/ phase'[s] = phase[s]
                           \/ /\ phase[s] \in {"open", "closing", "closed"}
                              /\ phase'[s] \in {"closing", "closed"},
           \A k \in Tasks : registered'[k] \subseteq registered[k],
           x.pc # "add", x.pc = "finishClose" => phase'[x.sub] \in {"closing", "closed"},
           x.pc = "snapshot" => p \in Writers[x.task],
           Notifying(x) => /\ Notifying(me[p]) /\ x.task = me[p].task
                           /\ Ahead(x) \subseteq Ahead(me[p])
                           /\ x.pc = "send" => x.sub \notin x.todo,
           \A k \in Tasks : \A s \in registered'[k] :
               Notifying(me[p]) /\ me[p].task = k /\ s \in me[p].failed =>
                   Notifying(x) /\ x.task = k /\ s \in x.failed,
           \A k \in Tasks : registered'[k] # {} /\ Ending(me[p], k) => Ending(x, k)
    PROVE  SInv'
<1>1. /\ me'[p] = x /\ \A q \in Procs : q # p => me'[q] = me[q]
      /\ me \in [Procs -> Locals]
  BY BecomeMoves DEF IInv, TypeOK
<1>2. \A q \in Procs : me[q].pc \in {"add", "finishClose"} => me[q].sub \in Subs
  BY LocalsTyped DEF LocalOK
<1>3. Fresh'
  <2>1. ASSUME NEW q \in Procs, me'[q].pc = "add"
        PROVE  /\ phase'[me'[q].sub] = "new"
               /\ \A r \in Procs : me'[r].pc = "add" /\ me'[r].sub = me'[q].sub => r = q
    <3>1. q # p /\ me'[q] = me[q]
      BY <1>1, <2>1
    <3>2. /\ phase[me[q].sub] = "new"
          /\ \A r \in Procs : me[r].pc = "add" /\ me[r].sub = me[q].sub => r = q
      BY <2>1, <3>1 DEF SInv, Fresh, At
    <3>3. phase'[me[q].sub] = "new"
      BY <1>2, <2>1, <3>1, <3>2
    <3> QED BY <1>1, <3>1, <3>2, <3>3
  <2>2. ASSUME NEW q \in Procs, me'[q].pc = "finishClose"
        PROVE  phase'[me'[q].sub] \in {"closing", "closed"}
    <3>1. CASE q = p
      BY <1>1, <2>2, <3>1
    <3>2. CASE q # p
      <4>1. me'[q] = me[q] /\ me[q].sub \in Subs /\ phase[me[q].sub] \in {"closing", "closed"}
        BY <1>1, <1>2, <2>2, <3>2 DEF SInv, Fresh, At
      <4> QED BY <4>1
    <3> QED BY <3>1, <3>2
  <2> QED BY <2>1, <2>2 DEF Fresh, At
<1>4. \A s \in Subs : phase[s] \notin {"unused", "new"} => phase'[s] \notin {"unused", "new"}
  OBVIOUS
<1>5. \A k \in Tasks : registered[k] \subseteq Subs
  BY DEF IInv, TypeOK
<1>6. Lists'
  <2> SUFFICES ASSUME NEW k \in Tasks, NEW s \in registered'[k]
               PROVE  owner'[s] = k /\ phase'[s] \notin {"unused", "new"}
    BY DEF Lists
  <2>1. s \in registered[k] /\ s \in Subs
    BY <1>5
  <2>2. owner[s] = k /\ phase[s] \notin {"unused", "new"}
    BY <2>1 DEF SInv, Lists
  <2> QED BY <1>4, <2>1, <2>2
<1>7. Rounds'
  <2> SUFFICES ASSUME NEW q \in Procs
               PROVE  /\ me'[q].pc = "snapshot" \/ Notifying(me'[q]) => q \in Writers[me'[q].task]
                      /\ Notifying(me'[q]) => RoundOK(me[q])'
    BY DEF Rounds, At, Notifying
  <2>1. CASE q # p
    <3>1. me'[q] = me[q]
      BY <1>1, <2>1
    <3>2. me[q].pc = "snapshot" \/ Notifying(me[q]) => q \in Writers[me[q].task]
      BY DEF SInv, Rounds, At
    <3>3. ASSUME Notifying(me[q]) PROVE RoundOK(me[q])'
      <4>1. RoundOK(me[q]) /\ Ahead(me[q]) \subseteq Subs
        BY <3>3, NotifyingTask, LocalsTyped DEF Ahead, Locals, LocalOK
      <4>2. Ahead(me[q])' = Ahead(me[q])
        BY <3>1 DEF Ahead
      <4> QED BY <1>4, <3>1, <4>1, <4>2 DEF RoundOK
    <3> QED BY <3>1, <3>2, <3>3
  <2>2. CASE q = p
    <3>1. Notifying(x) => p \in Writers[x.task]
      BY NotifyingTask
    <3>2. ASSUME Notifying(x) PROVE RoundOK(me[p])'
      <4>1. Notifying(me[p]) /\ RoundOK(me[p]) /\ Ahead(x) \subseteq Ahead(me[p])
            /\ x.task = me[p].task
        BY <3>2, NotifyingTask
      <4>2. Ahead(me[p]) \subseteq Subs
        BY <4>1, LocalsTyped DEF Ahead, Locals, LocalOK
      <4>3. Ahead(me[p])' = Ahead(x)
        BY <1>1 DEF Ahead
      <4>4. \A s \in Ahead(x) : owner[s] = x.task /\ phase[s] \notin {"unused", "new"}
                                /\ story[s] \in {"none", "update"}
        BY <4>1 DEF RoundOK
      <4> QED BY <1>1, <1>4, <3>2, <4>1, <4>2, <4>3, <4>4 DEF RoundOK
    <3> QED BY <1>1, <2>2, <3>1, <3>2
  <2> QED BY <2>1, <2>2
<1>8. Stories'
  <2>1. StreamsAreSound'
    BY DEF SInv, Stories, StreamsAreSound, NoGap, FinalIsLast
  <2>2. \A s \in Subs : phase'[s] \in {"unused", "new"} => story'[s] = "none"
    BY <1>4 DEF SInv, Stories
  <2>3. ASSUME NEW k \in Tasks, NEW s \in registered'[k], story[s] = "missed"
        PROVE  \E q \in Writers[k] : Notifying(me'[q]) /\ me'[q].task = k /\ s \in me'[q].failed
    <3>1. PICK q \in Writers[k] : Notifying(me[q]) /\ me[q].task = k /\ s \in me[q].failed
      BY <2>3 DEF SInv, Stories
    <3>2. q \in Procs
      BY DEF Procs
    <3>3. CASE q = p
      BY <1>1, <3>1, <3>2, <3>3
    <3>4. CASE q # p
      BY <1>1, <3>1, <3>2, <3>4
    <3> QED BY <3>3, <3>4
  <2>4. ASSUME NEW k \in Tasks, NEW s \in registered'[k], story[s] = "final"
        PROVE  \E q \in Writers[k] : Ending(me'[q], k)
    <3>1. PICK q \in Writers[k] : Ending(me[q], k)
      BY <2>4 DEF SInv, Stories
    <3>2. q \in Procs /\ registered'[k] # {}
      BY DEF Procs
    <3>3. CASE q = p
      BY <1>1, <3>1, <3>2, <3>3
    <3>4. CASE q # p
      BY <1>1, <3>1, <3>2, <3>4
    <3> QED BY <3>3, <3>4
  <2> QED BY <2>1, <2>2, <2>3, <2>4 DEF Stories, Notifying, Ending
<1> QED BY <1>3, <1>6, <1>7, <1>8 DEF SInv

(* The same for a goroutine that does not notify, end or close anything. *)
LEMMA StoriesAside ==
    ASSUME IInv, SInv, NEW p \in Procs, NEW x \in Locals, LocalOK(x), Become(p, x),
           me[p].pc \in {"idle", "clean", "drop", "wait", "closed"},
           UNCHANGED streams, \A k \in Tasks : registered'[k] \subseteq registered[k],
           x.pc \notin {"add", "finishClose"}, ~Notifying(x),
           x.pc = "snapshot" => p \in Writers[x.task]
    PROVE  SInv'
<1>1. ~Notifying(me[p]) /\ \A k \in Tasks : ~Ending(me[p], k)
  BY DEF Notifying, Ending
<1>2. UNCHANGED <<owner, story, phase>>
  BY DEF streams
<1> QED BY <1>1, <1>2, StoriesFrame

LEMMA RemoveTasksTells ==
    ASSUME IInv, SInv, NEW p \in Procs, NEW removed \in SUBSET Tasks,
           NEW then \in {"drop", "closed"}, NEW drop \in SUBSET Tasks, drop # {} => then = "drop",
           me[p].pc \in {"idle", "clean", "wait"}, RemoveTasks(p, removed, then, drop)
    PROVE  SInv'
<1> DEFINE hands == UNION {registered[k] : k \in removed}
           x == [Idle EXCEPT !.pc = "close", !.then = then, !.drop = drop, !.toClose = hands]
<1>1. /\ registered' = [k \in Tasks |-> IF k \in removed THEN {} ELSE registered[k]]
      /\ Become(p, x) /\ UNCHANGED streams
  BY DEF RemoveTasks
<1>2. hands \in SUBSET Subs
  BY DEF IInv, TypeOK
<1>3. x \in Locals /\ LocalOK(x) /\ x.pc = "close" /\ ~Notifying(x)
  BY <1>2 DEF Idle, Locals, LocalOK, Notifying
<1>4. \A k \in Tasks : registered'[k] \subseteq registered[k]
  BY <1>1
<1> QED BY <1>1, <1>3, <1>4, StoriesAside

LEMMA CleanTaskTells ==
    ASSUME IInv, SInv, NEW p \in Procs, NEW k \in Tasks, me[p].pc \in {"idle", "clean"},
           CleanTask(p, k)
    PROVE  SInv'
<1>1. RemoveTasks(p, {k}, "drop", {k}) /\ {k} \in SUBSET Tasks
  BY DEF CleanTask
<1> QED BY <1>1, RemoveTasksTells

(* A call that finds its goroutine idle and only sets its local variables. *)
LEMMA CallTells ==
    ASSUME IInv, SInv, NEW p \in Procs, me[p].pc = "idle",
           \/ \E k \in Tasks : \/ \E final \in BOOLEAN : UpdateTaskState(p, k, final)
                               \/ AddArtifact(p, k) \/ OnCancelTask(p, k)
           \/ \E s \in Subs : Send(p, s) \/ CloseSubscriber(p, s)
           \/ Close(p)
    PROVE  SInv'
<1>1. UNCHANGED <<registered, owner, phase, queued, story>>
  BY DEF UpdateTaskState, AddArtifact, OnCancelTask, Send, CloseSubscriber, Close, streams
<1>2. UNCHANGED streams /\ \A k \in Tasks : registered'[k] \subseteq registered[k]
  BY <1>1 DEF streams
<1>3. PICK x \in Locals : /\ LocalOK(x) /\ Become(p, x)
                          /\ x.pc \notin {"add", "finishClose"} /\ ~Notifying(x)
                          /\ x.pc = "snapshot" => p \in Writers[x.task]
  <2>1. ASSUME NEW k \in Tasks, NEW final \in BOOLEAN, UpdateTaskState(p, k, final)
        PROVE  \E x \in Locals : /\ LocalOK(x) /\ Become(p, x)
                                 /\ x.pc \notin {"add", "finishClose"} /\ ~Notifying(x)
                                 /\ x.pc = "snapshot" => p \in Writers[x.task]
    <3> DEFINE x == [Idle EXCEPT !.pc = "snapshot", !.task = k,
                                 !.event = IF final THEN "final" ELSE "update"]
    <3>1. Become(p, x) /\ p \in Writers[k]
      BY <2>1 DEF UpdateTaskState
    <3>2. x \in Locals /\ LocalOK(x) /\ x.pc = "snapshot" /\ x.task = k /\ ~Notifying(x)
      BY DEF Idle, Locals, LocalOK, Notifying
    <3> QED BY <3>1, <3>2
  <2>2. ASSUME NEW k \in Tasks, AddArtifact(p, k)
        PROVE  \E x \in Locals : /\ LocalOK(x) /\ Become(p, x)
                                 /\ x.pc \notin {"add", "finishClose"} /\ ~Notifying(x)
                                 /\ x.pc = "snapshot" => p \in Writers[x.task]
    <3> DEFINE x == [Idle EXCEPT !.pc = "snapshot", !.task = k, !.event = "update"]
    <3>1. Become(p, x) /\ p \in Writers[k]
      BY <2>2 DEF AddArtifact
    <3>2. x \in Locals /\ LocalOK(x) /\ x.pc = "snapshot" /\ x.task = k /\ ~Notifying(x)
      BY DEF Idle, Locals, LocalOK, Notifying
    <3> QED BY <3>1, <3>2
  <2>3. ASSUME NEW x \in Locals, LocalOK(x), Become(p, x),
               x.pc \in {"clean", "wait", "close"} \/ (x.pc = "send" /\ x.event = "direct")
        PROVE  \E y \in Locals : /\ LocalOK(y) /\ Become(p, y)
                                 /\ y.pc \notin {"add", "finishClose"} /\ ~Notifying(y)
                                 /\ y.pc = "snapshot" => p \in Writers[y.task]
    BY <2>3 DEF Notifying
  <2>4. ASSUME NEW k \in Tasks
        PROVE  LET x == [Idle EXCEPT !.pc = "clean", !.task = k]
               IN  x \in Locals /\ LocalOK(x) /\ x.pc = "clean"
    BY DEF Idle, Locals, LocalOK
  <2>5. ASSUME NEW s \in Subs
        PROVE  LET x == [Idle EXCEPT !.pc = "send", !.event = "direct", !.sub = s]
                   y == [Idle EXCEPT !.pc = "close", !.toClose = {s}]
               IN  /\ x \in Locals /\ LocalOK(x) /\ x.pc = "send" /\ x.event = "direct"
                   /\ y \in Locals /\ LocalOK(y) /\ y.pc = "close"
    BY DEF Idle, Locals, LocalOK
  <2>6. LET x == [Idle EXCEPT !.pc = "wait"] IN x \in Locals /\ LocalOK(x) /\ x.pc = "wait"
    BY DEF Idle, Locals, LocalOK
  <2>7. CASE \E k \in Tasks : OnCancelTask(p, k)
    BY <2>3, <2>4, <2>7 DEF OnCancelTask
  <2>8. CASE \E s \in Subs : Send(p, s)
    BY <2>3, <2>5, <2>8 DEF Send
  <2>9. CASE \E s \in Subs : CloseSubscriber(p, s)
    BY <2>3, <2>5, <2>9 DEF CloseSubscriber
  <2>10. CASE Close(p)
    BY <2>3, <2>6, <2>10 DEF Close
  <2> QED BY <2>1, <2>2, <2>7, <2>8, <2>9, <2>10
<1> QED BY <1>2, <1>3, StoriesAside

(* A subscriber that is put on a list has no story yet and is nobody else's. *)
LEMMA RegisterTells ==
    ASSUME IInv, SInv, NEW p \in Procs, NEW k \in Tasks, NEW s \in Subs,
           NEW x \in Locals, LocalOK(x), Become(p, x), Register(k, s),
           x = Idle \/ (x = me[p] /\ me[p].pc = "idle"), me[p].pc \in {"idle", "add"},
           phase[s] \in {"unused", "new"},
           \A q \in Procs : me[q].pc = "add" /\ me[q].sub = s => q = p
    PROVE  SInv'
<1>1. /\ phase' = [phase EXCEPT ![s] = "open"]
      /\ owner' = [owner EXCEPT ![s] = k]
      /\ registered' = [registered EXCEPT ![k] = @ \cup {s}]
      /\ UNCHANGED story
  BY DEF Register
<1>2. me'[p] = x /\ \A q \in Procs : q # p => me'[q] = me[q]
  BY BecomeMoves DEF IInv
<1>3. /\ \A u \in Subs : u # s => phase'[u] = phase[u] /\ owner'[u] = owner[u]
      /\ phase'[s] = "open" /\ owner'[s] = k
      /\ \A j \in Tasks : registered'[j] \subseteq registered[j] \cup {s}
      /\ \A j \in Tasks : j # k => registered'[j] = registered[j]
      /\ \A j \in Tasks : registered[j] \subseteq Subs
  BY <1>1 DEF IInv, TypeOK
<1>4. x.pc = "idle" /\ ~Notifying(x) /\ ~Notifying(me[p]) /\ \A j \in Tasks : ~Ending(me[p], j)
  BY DEF Idle, Notifying, Ending
<1>5. story[s] = "none"
  BY DEF SInv, Stories
<1>6. \A q \in Procs : me[q].pc \in {"add", "finishClose"} => me[q].sub \in Subs
  BY LocalsTyped DEF LocalOK
<1>7. Fresh'
  <2>1. ASSUME NEW q \in Procs, me'[q].pc = "add"
        PROVE  /\ phase'[me'[q].sub] = "new"
               /\ \A r \in Procs : me'[r].pc = "add" /\ me'[r].sub = me'[q].sub => r = q
    <3>1. q # p /\ me'[q] = me[q] /\ me[q].sub # s /\ me[q].sub \in Subs
      BY <1>2, <1>4, <1>6, <2>1
    <3>2. /\ phase[me[q].sub] = "new"
          /\ \A r \in Procs : me[r].pc = "add" /\ me[r].sub = me[q].sub => r = q
      BY <2>1, <3>1 DEF SInv, Fresh, At
    <3> QED BY <1>2, <1>3, <1>4, <3>1, <3>2
  <2>2. ASSUME NEW q \in Procs, me'[q].pc = "finishClose"
        PROVE  phase'[me'[q].sub] \in {"closing", "closed"}
    <3>1. /\ q # p /\ me'[q] = me[q] /\ me[q].sub \in Subs
          /\ phase[me[q].sub] \in {"closing", "closed"}
      BY <1>2, <1>4, <1>6, <2>2 DEF SInv, Fresh, At
    <3> QED BY <1>3, <3>1
  <2> QED BY <2>1, <2>2 DEF Fresh, At
<1>8. \A j \in Tasks : \A u \in registered[j] : u # s
  BY DEF SInv, Lists
<1>9. Lists'
  <2> SUFFICES ASSUME NEW j \in Tasks, NEW u \in registered'[j]
               PROVE  owner'[u] = j /\ phase'[u] \notin {"unused", "new"}
    BY DEF Lists
  <2>1. CASE u \in registered[j]
    <3>1. owner[u] = j /\ phase[u] \notin {"unused", "new"} /\ u # s /\ u \in Subs
      BY <1>3, <1>8, <2>1 DEF SInv, Lists
    <3> QED BY <1>3, <3>1
  <2>2. CASE u \notin registered[j]
    <3>1. u = s /\ j = k
      BY <1>3, <2>2
    <3> QED BY <1>3, <3>1
  <2> QED BY <2>1, <2>2
<1>10. Rounds'
  <2> SUFFICES ASSUME NEW q \in Procs, me'[q].pc = "snapshot" \/ Notifying(me'[q])
               PROVE  /\ q \in Writers[me'[q].task]
                      /\ Notifying(me'[q]) => RoundOK(me[q])'
    BY DEF Rounds, At, Notifying
  <2>1. q # p /\ me'[q] = me[q]
    BY <1>2, <1>4
  <2>2. q \in Writers[me[q].task]
    BY <2>1 DEF SInv, Rounds, At
  <2>3. ASSUME Notifying(me[q]) PROVE RoundOK(me[q])'
    <3>1. RoundOK(me[q]) /\ Ahead(me[q]) \subseteq Subs
      BY <2>3, NotifyingTask, LocalsTyped DEF Ahead, Locals, LocalOK
    <3>2. Ahead(me[q])' = Ahead(me[q])
      BY <2>1 DEF Ahead
    <3>3. \A u \in Ahead(me[q]) : u # s
      BY <3>1 DEF RoundOK
    <3> QED BY <1>1, <1>3, <2>1, <3>1, <3>2, <3>3 DEF RoundOK
  <2> QED BY <2>1, <2>2, <2>3
<1>11. Stories'
  <2>1. StreamsAreSound'
    BY <1>1 DEF SInv, Stories, StreamsAreSound, NoGap, FinalIsLast
  <2>2. \A u \in Subs : phase'[u] \in {"unused", "new"} => story'[u] = "none"
    BY <1>1, <1>3 DEF SInv, Stories
  <2>3. ASSUME NEW j \in Tasks, NEW u \in registered'[j], story[u] \in {"missed", "final"}
        PROVE  u \in registered[j]
    BY <1>3, <1>5, <2>3
  <2>4. ASSUME NEW j \in Tasks, NEW u \in registered'[j], story[u] = "missed"
        PROVE  \E q \in Writers[j] : Notifying(me'[q]) /\ me'[q].task = j /\ u \in me'[q].failed
    <3>1. PICK q \in Writers[j] : Notifying(me[q]) /\ me[q].task = j /\ u \in me[q].failed
      BY <2>3, <2>4 DEF SInv, Stories
    <3>2. q \in Procs
      BY DEF Procs
    <3> QED BY <1>2, <1>4, <3>1, <3>2
  <2>5. ASSUME NEW j \in Tasks, NEW u \in registered'[j], story[u] = "final"
        PROVE  \E q \in Writers[j] : Ending(me'[q], j)
    <3>1. PICK q \in Writers[j] : Ending(me[q], j)
      BY <2>3, <2>5 DEF SInv, Stories
    <3>2. q \in Procs
      BY DEF Procs
    <3> QED BY <1>2, <1>4, <3>1, <3>2
  <2> QED BY <1>1, <2>1, <2>2, <2>4, <2>5 DEF Stories, Notifying, Ending
<1> QED BY <1>7, <1>9, <1>10, <1>11 DEF SInv

LEMMA OnResubscribeTells ==
    ASSUME IInv, SInv, NEW p \in Procs, NEW k \in Tasks, NEW s \in Subs, OnResubscribe(p, k, s)
    PROVE  SInv'
<1>1. me[p].pc = "idle" /\ phase[s] = "unused" /\ Register(k, s) /\ me' = me
  BY DEF OnResubscribe, At
<1>2. me[p] \in Locals /\ LocalOK(me[p]) /\ Become(p, me[p])
  BY <1>1, LocalsTyped DEF Become, IInv, TypeOK
<1>3. \A q \in Procs : me[q].pc = "add" /\ me[q].sub = s => q = p
  BY <1>1 DEF SInv, Fresh, At
<1> QED BY <1>1, <1>2, <1>3, RegisterTells

LEMMA AddSubscriberTells ==
    ASSUME IInv, SInv, NEW p \in Procs, AddSubscriber(p) PROVE SInv'
<1>1. me[p].pc = "add" /\ Register(me[p].task, me[p].sub) /\ Become(p, Idle)
  BY DEF AddSubscriber, At
<1>2. me[p].task \in Tasks /\ me[p].sub \in Subs
  BY <1>1, LocalsTyped DEF LocalOK
<1>3. /\ phase[me[p].sub] = "new"
      /\ \A q \in Procs : me[q].pc = "add" /\ me[q].sub = me[p].sub => q = p
  BY <1>1 DEF SInv, Fresh, At
<1>4. /\ me[p].pc \in {"idle", "add"} /\ phase[me[p].sub] \in {"unused", "new"}
      /\ Idle = Idle \/ (Idle = me[p] /\ me[p].pc = "idle")
  BY <1>1, <1>3
<1> HIDE DEF Register, Become, IInv, SInv, Idle
<1> QED BY <1>1, <1>2, <1>3, <1>4, IdleIsLocal, RegisterTells

LEMMA SubscribeTaskTells ==
    ASSUME IInv, SInv, NEW p \in Procs, NEW k \in Tasks, NEW s \in Subs, SubscribeTask(p, k, s)
    PROVE  SInv'
<1> DEFINE x == [Idle EXCEPT !.pc = "add", !.task = k, !.sub = s]
<1>1. /\ me[p].pc = "idle" /\ phase[s] = "unused" /\ Become(p, x)
      /\ phase' = [phase EXCEPT ![s] = "new"]
      /\ UNCHANGED <<registered, owner, story>>
  BY DEF SubscribeTask, At
<1>2. x \in Locals /\ LocalOK(x) /\ x.pc = "add" /\ x.sub = s /\ ~Notifying(x)
  BY DEF Idle, Locals, LocalOK, Notifying
<1>3. me'[p] = x /\ \A q \in Procs : q # p => me'[q] = me[q]
  BY <1>1, <1>2, BecomeMoves DEF IInv
<1>4. phase'[s] = "new" /\ \A u \in Subs : u # s => phase'[u] = phase[u]
  BY <1>1 DEF IInv, TypeOK
<1>5. ~Notifying(me[p]) /\ \A j \in Tasks : ~Ending(me[p], j)
  BY <1>1 DEF Notifying, Ending
<1>6. \A q \in Procs : me[q].pc \in {"add", "finishClose"} => me[q].sub \in Subs /\ me[q].sub # s
  BY <1>1, LocalsTyped DEF LocalOK, SInv, Fresh, At
<1>7. \A j \in Tasks : \A u \in registered[j] : u \in Subs /\ u # s
  BY <1>1 DEF SInv, Lists, IInv, TypeOK
<1> HIDE DEF x
<1>8. Fresh'
  <2>1. ASSUME NEW q \in Procs, me'[q].pc = "add"
        PROVE  /\ phase'[me'[q].sub] = "new"
               /\ \A r \in Procs : me'[r].pc = "add" /\ me'[r].sub = me'[q].sub => r = q
    <3>1. CASE q = p
      <4>1. me'[p].pc = "add" /\ me'[p].sub = s
        BY <1>2, <1>3
      <4>2. \A r \in Procs : r # p /\ me'[r].pc = "add" => me'[r].sub # s
        BY <1>3, <1>6
      <4> QED BY <1>4, <3>1, <4>1, <4>2
    <3>2. CASE q # p
      <4>1. /\ me'[q] = me[q] /\ me[q].sub # s /\ me[q].sub \in Subs /\ phase[me[q].sub] = "new"
            /\ \A r \in Procs : me[r].pc = "add" /\ me[r].sub = me[q].sub => r = q
        BY <1>3, <1>6, <2>1, <3>2 DEF SInv, Fresh, At
      <4>2. phase'[me'[q].sub] = "new"
        BY <1>4, <4>1
      <4>3. ASSUME NEW r \in Procs, me'[r].pc = "add", me'[r].sub = me'[q].sub PROVE r = q
        <5>1. r # p
          BY <1>2, <1>3, <4>1, <4>3
        <5> QED BY <1>3, <4>1, <4>3, <5>1
      <4> QED BY <4>2, <4>3
    <3> QED BY <3>1, <3>2
  <2>2. ASSUME NEW q \in Procs, me'[q].pc = "finishClose"
        PROVE  phase'[me'[q].sub] \in {"closing", "closed"}
    <3>1. me'[q] = me[q] /\ me[q].sub \in Subs /\ me[q].sub # s
          /\ phase[me[q].sub] \in {"closing", "closed"}
      BY <1>2, <1>3, <1>6, <2>2 DEF SInv, Fresh, At
    <3> QED BY <1>4, <3>1
  <2> QED BY <2>1, <2>2 DEF Fresh, At
<1>9. Lists'
  BY <1>1, <1>4, <1>7 DEF SInv, Lists
<1>10. Rounds'
  <2> SUFFICES ASSUME NEW q \in Procs, me'[q].pc = "snapshot" \/ Notifying(me'[q])
               PROVE  /\ q \in Writers[me'[q].task]
                      /\ Notifying(me'[q]) => RoundOK(me[q])'
    BY DEF Rounds, At, Notifying
  <2>1. q # p /\ me'[q] = me[q]
    BY <1>2, <1>3
  <2>2. q \in Writers[me[q].task]
    BY <2>1 DEF SInv, Rounds, At
  <2>3. ASSUME Notifying(me[q]) PROVE RoundOK(me[q])'
    <3>1. RoundOK(me[q]) /\ Ahead(me[q]) \subseteq Subs
      BY <2>3, NotifyingTask, LocalsTyped DEF Ahead, Locals, LocalOK
    <3>2. Ahead(me[q])' = Ahead(me[q])
      BY <2>1 DEF Ahead
    <3>3. \A u \in Ahead(me[q]) : u # s
      BY <1>1, <3>1 DEF RoundOK
    <3> QED BY <1>1, <1>4, <2>1, <3>1, <3>2, <3>3 DEF RoundOK
  <2> QED BY <2>1, <2>2, <2>3
<1>11. Stories'
  <2>1. StreamsAreSound'
    BY <1>1 DEF SInv, Stories, StreamsAreSound, NoGap, FinalIsLast
  <2>2. \A u \in Subs : phase'[u] \in {"unused", "new"} => story[u] = "none"
    BY <1>1, <1>4 DEF SInv, Stories
  <2>3. ASSUME NEW j \in Tasks, NEW u \in registered[j], story[u] = "missed"
        PROVE  \E q \in Writers[j] : Notifying(me'[q]) /\ me'[q].task = j /\ u \in me'[q].failed
    <3>1. PICK q \in Writers[j] : Notifying(me[q]) /\ me[q].task = j /\ u \in me[q].failed
      BY <2>3 DEF SInv, Stories
    <3>2. q \in Procs
      BY DEF Procs
    <3> QED BY <1>3, <1>5, <3>1, <3>2
  <2>4. ASSUME NEW j \in Tasks, NEW u \in registered[j], story[u] = "final"
        PROVE  \E q \in Writers[j] : Ending(me'[q], j)
    <3>1. PICK q \in Writers[j] : Ending(me[q], j)
      BY <2>4 DEF SInv, Stories
    <3>2. q \in Procs
      BY DEF Procs
    <3> QED BY <1>3, <1>5, <3>1, <3>2
  <2> QED BY <1>1, <2>1, <2>2, <2>3, <2>4 DEF Stories, Notifying, Ending
<1> QED BY <1>8, <1>9, <1>10, <1>11 DEF SInv

(* A snapshot holds streams that are sound so far: the goroutine that takes it *)
(* is the one that updates the task, and it is not in the middle of a round.  *)
LEMMA SnapshotTells ==
    ASSUME IInv, SInv, SingleWriter, NEW p \in Procs, Snapshot(p)
    PROVE  SInv'
<1> DEFINE k == me[p].task
           x == [me[p] EXCEPT !.pc = "notify", !.todo = registered[k]]
<1>1. me[p].pc = "snapshot" /\ Become(p, x) /\ UNCHANGED <<owner, phase, story, registered>>
  BY DEF Snapshot, At, streams
<1>2. me[p] \in Locals /\ LocalOK(me[p]) /\ k \in Tasks /\ p \in Writers[k]
  BY <1>1, LocalsTyped DEF LocalOK, SInv, Rounds, At
<1>3. registered[k] \in SUBSET Subs
  BY <1>2 DEF IInv, TypeOK
<1>4. x \in Locals /\ LocalOK(x) /\ x.pc = "notify" /\ x.todo = registered[k] /\ x.task = k
  BY <1>1, <1>2, <1>3 DEF Locals, LocalOK
<1>5. me'[p] = x /\ \A q \in Procs : q # p => me'[q] = me[q]
  BY <1>1, <1>4, BecomeMoves DEF IInv
<1>6. ~Notifying(me[p]) /\ \A j \in Tasks : ~Ending(me[p], j)
  BY <1>1 DEF Notifying, Ending
<1>7. ASSUME NEW s \in registered[k]
      PROVE  owner[s] = k /\ phase[s] \notin {"unused", "new"} /\ story[s] \in {"none", "update"}
  <2>1. owner[s] = k /\ phase[s] \notin {"unused", "new"} /\ s \in Subs
    BY <1>2, <1>3 DEF SInv, Lists
  <2>2. \A q \in Writers[k] : q = p
    BY <1>2 DEF SingleWriter
  <2>3. story[s] \notin {"missed", "final"}
    BY <1>2, <1>6, <2>2 DEF SInv, Stories
  <2>4. story[s] \in {"none", "update", "final", "missed", "afterFinal", "gap"}
        /\ story[s] \notin {"gap", "afterFinal"}
    BY <2>1 DEF IInv, TypeOK, SInv, Stories, StreamsAreSound, NoGap, FinalIsLast
  <2> QED BY <2>1, <2>3, <2>4
<1>8. Fresh'
  <2>1. \A q \in Procs : me'[q].pc \in {"add", "finishClose"} => me'[q] = me[q]
    BY <1>4, <1>5
  <2> QED BY <1>1, <2>1 DEF SInv, Fresh, At
<1>9. Lists'
  BY <1>1 DEF SInv, Lists
<1>10. Rounds'
  <2> SUFFICES ASSUME NEW q \in Procs, me'[q].pc = "snapshot" \/ Notifying(me'[q])
               PROVE  /\ q \in Writers[me'[q].task]
                      /\ Notifying(me'[q]) => RoundOK(me[q])'
    BY DEF Rounds, At, Notifying
  <2>1. CASE q = p
    <3>1. Ahead(me[p])' = registered[k]
      BY <1>4, <1>5 DEF Ahead
    <3> QED BY <1>1, <1>2, <1>4, <1>5, <1>7, <2>1, <3>1 DEF RoundOK
  <2>2. CASE q # p
    <3>1. me'[q] = me[q]
      BY <1>5, <2>2
    <3>2. Ahead(me[q])' = Ahead(me[q])
      BY <3>1 DEF Ahead
    <3>3. q \in Writers[me[q].task] /\ (Notifying(me[q]) => RoundOK(me[q]))
      BY <3>1 DEF SInv, Rounds, At
    <3> QED BY <1>1, <3>1, <3>2, <3>3 DEF RoundOK
  <2> QED BY <2>1, <2>2
<1>11. Stories'
  <2>1. StreamsAreSound' /\ \A u \in Subs : phase[u] \in {"unused", "new"} => story[u] = "none"
    BY <1>1 DEF SInv, Stories, StreamsAreSound, NoGap, FinalIsLast
  <2>2. ASSUME NEW j \in Tasks, NEW u \in registered[j], story[u] = "missed"
        PROVE  \E q \in Writers[j] : Notifying(me'[q]) /\ me'[q].task = j /\ u \in me'[q].failed
    <3>1. PICK q \in Writers[j] : Notifying(me[q]) /\ me[q].task = j /\ u \in me[q].failed
      BY <2>2 DEF SInv, Stories
    <3>2. q \in Procs
      BY DEF Procs
    <3> QED BY <1>5, <1>6, <3>1, <3>2
  <2>3. ASSUME NEW j \in Tasks, NEW u \in registered[j], story[u] = "final"
        PROVE  \E q \in Writers[j] : Ending(me'[q], j)
    <3>1. PICK q \in Writers[j] : Ending(me[q], j)
      BY <2>3 DEF SInv, Stories
    <3>2. q \in Procs
      BY DEF Procs
    <3> QED BY <1>5, <1>6, <3>1, <3>2
  <2> QED BY <1>1, <2>1, <2>2, <2>3 DEF Stories, Notifying, Ending
<1> QED BY <1>8, <1>9, <1>10, <1>11 DEF SInv

LEMMA NotifyTells ==
    ASSUME IInv, SInv, NEW p \in Procs, NEW s \in Subs, Notify(p, s) PROVE SInv'
<1> DEFINE x == IF phase[s] = "open"
                THEN [me[p] EXCEPT !.pc = "send", !.todo = @ \ {s}, !.sub = s]
                ELSE [me[p] EXCEPT !.todo = @ \ {s}, !.failed = @ \cup {s}]
<1>1. me[p].pc = "notify" /\ s \in me[p].todo /\ Become(p, x)
      /\ UNCHANGED <<registered, owner, phase, story>>
  BY DEF Notify, At, streams
<1>2. me[p] \in Locals /\ LocalOK(me[p])
  BY LocalsTyped
<1>3. /\ x \in Locals /\ LocalOK(x) /\ x.pc \in {"notify", "send"}
      /\ x.task = me[p].task /\ x.event = me[p].event /\ me[p].failed \subseteq x.failed
      /\ x.todo = me[p].todo \ {s}
      /\ x.pc = "send" => x.sub = s
  BY <1>1, <1>2 DEF Locals, LocalOK
<1>4. /\ Ahead(x) \subseteq Ahead(me[p])
      /\ x.pc = "send" => x.sub \notin x.todo
      /\ Notifying(x) <=> Notifying(me[p])
      /\ \A k \in Tasks : Ending(me[p], k) => Ending(x, k)
  BY <1>1, <1>3 DEF Ahead, Notifying, Ending
<1>5. x.pc \notin {"add", "finishClose", "snapshot"}
  BY <1>3
<1>6. \A k \in Tasks : \A u \in registered'[k] :
          Notifying(me[p]) /\ me[p].task = k /\ u \in me[p].failed =>
              Notifying(x) /\ x.task = k /\ u \in x.failed
  BY <1>3, <1>4
<1>7. (\A u \in Subs : phase'[u] = phase[u]) /\ \A k \in Tasks : registered'[k] \subseteq registered[k]
  BY <1>1
<1> HIDE DEF x, Become, IInv, SInv, Notifying, Ending, Ahead, LocalOK
<1> QED BY <1>1, <1>3, <1>4, <1>5, <1>6, <1>7, StoriesFrame

LEMMA EndNotifyTells ==
    ASSUME IInv, SInv, NEW p \in Procs, EndNotify(p) PROVE SInv'
<1> DEFINE x == IF me[p].failed # {} THEN [me[p] EXCEPT !.pc = "cleanupFailed"]
                ELSE IF AfterNotify(p) = "idle" THEN Idle
                ELSE [me[p] EXCEPT !.pc = AfterNotify(p)]
<1>1. me[p].pc = "notify" /\ me[p].todo = {} /\ Become(p, x)
      /\ UNCHANGED <<registered, owner, phase, story>>
  BY DEF EndNotify, At, streams
<1>2. me[p] \in Locals /\ LocalOK(me[p]) /\ AfterNotify(p) \in {"idle", "cleanSubs"}
  BY LocalsTyped DEF AfterNotify
<1>3. [me[p] EXCEPT !.pc = "cleanupFailed"] \in Locals
      /\ LocalOK([me[p] EXCEPT !.pc = "cleanupFailed"])
  BY <1>1, <1>2 DEF Locals, LocalOK
<1>4. [me[p] EXCEPT !.pc = "cleanSubs"] \in Locals
      /\ LocalOK([me[p] EXCEPT !.pc = "cleanSubs"])
  BY <1>1, <1>2 DEF Locals, LocalOK
<1>5. x \in Locals /\ LocalOK(x)
  BY <1>2, <1>3, <1>4, IdleIsLocal
<1>6. CASE me[p].failed # {}
  <2>1. /\ x.pc = "cleanupFailed" /\ x.task = me[p].task /\ x.event = me[p].event
        /\ x.failed = me[p].failed /\ x.todo = me[p].todo
    BY <1>2, <1>6 DEF Locals
  <2>2. /\ Ahead(x) \subseteq Ahead(me[p])
        /\ Notifying(x) <=> Notifying(me[p])
        /\ \A k \in Tasks : Ending(me[p], k) => Ending(x, k)
    BY <1>1, <2>1 DEF Ahead, Notifying, Ending
  <2>3. x.pc \notin {"add", "finishClose", "snapshot", "send"}
    BY <2>1
  <2>4. \A k \in Tasks : \A u \in registered'[k] :
            Notifying(me[p]) /\ me[p].task = k /\ u \in me[p].failed =>
                Notifying(x) /\ x.task = k /\ u \in x.failed
    BY <2>1, <2>2
  <2>5. (\A u \in Subs : phase'[u] = phase[u]) /\ \A k \in Tasks : registered'[k] \subseteq registered[k]
    BY <1>1
  <2> HIDE DEF x, Become, IInv, SInv, Notifying, Ending, Ahead, LocalOK
  <2> QED BY <1>1, <1>5, <2>1, <2>2, <2>3, <2>4, <2>5, StoriesFrame
<1>7. CASE me[p].failed = {}
  <2>1. CASE me[p].event = "final"
    <3>1. /\ x.pc = "cleanSubs" /\ x.task = me[p].task /\ x.event = "final"
      BY <1>2, <1>7, <2>1 DEF Locals, AfterNotify
    <3>2. ~Notifying(x) /\ \A k \in Tasks : Ending(me[p], k) => Ending(x, k)
      BY <3>1 DEF Notifying, Ending
    <3> HIDE DEF x
    <3> QED BY <1>1, <1>5, <1>7, <3>1, <3>2, StoriesFrame
  <2>2. CASE me[p].event # "final"
    <3>1. x.pc = "idle"
      BY <1>7, <2>2 DEF AfterNotify, Idle
    <3>2. ~Notifying(x) /\ \A k \in Tasks : ~Ending(me[p], k)
      BY <2>2, <3>1 DEF Notifying, Ending
    <3> HIDE DEF x
    <3> QED BY <1>1, <1>5, <1>7, <3>1, <3>2, StoriesFrame
  <2> QED BY <2>1, <2>2
<1> QED BY <1>6, <1>7

LEMMA CleanupFailedTells ==
    ASSUME IInv, SInv, NEW p \in Procs, CleanupFailedSubscribers(p) PROVE SInv'
<1> DEFINE k == me[p].task
           x == [me[p] EXCEPT !.pc = "close", !.failed = {}, !.then = AfterNotify(p),
                              !.toClose = registered[k] \cap me[p].failed]
<1>1. /\ me[p].pc = "cleanupFailed" /\ Become(p, x)
      /\ registered' = [registered EXCEPT ![k] = @ \ me[p].failed]
      /\ UNCHANGED <<owner, phase, story>>
  BY DEF CleanupFailedSubscribers, At, streams
<1>2. me[p] \in Locals /\ LocalOK(me[p]) /\ k \in Tasks
      /\ AfterNotify(p) \in {"idle", "cleanSubs"}
  BY <1>1, LocalsTyped DEF AfterNotify, LocalOK
<1>3. me[p].drop = {}
  BY <1>1, EmptyHands
<1>4. registered[k] \cap me[p].failed \in SUBSET Subs
  BY <1>2 DEF IInv, TypeOK
<1>5. /\ x \in Locals /\ x.pc = "close" /\ x.task = k /\ x.event = me[p].event
      /\ x.then = AfterNotify(p) /\ x.drop = {}
  BY <1>2, <1>3, <1>4 DEF Locals
<1>6. LocalOK(x)
  BY <1>2, <1>5 DEF LocalOK
<1>7. /\ \A j \in Tasks : registered'[j] \subseteq registered[j]
      /\ \A s \in registered'[k] : s \notin me[p].failed
  BY <1>1, <1>2 DEF IInv, TypeOK
<1>8. ~Notifying(x) /\ \A j \in Tasks : Ending(me[p], j) => Ending(x, j)
  BY <1>5 DEF Notifying, Ending, AfterNotify
<1> HIDE DEF x
<1> QED BY <1>1, <1>5, <1>6, <1>7, <1>8, StoriesFrame

LEMMA CleanSubscribersTells ==
    ASSUME IInv, SInv, NEW p \in Procs, CleanSubscribers(p) PROVE SInv'
<1> DEFINE k == me[p].task
           x == [Idle EXCEPT !.pc = "close", !.toClose = registered[k]]
<1>1. /\ me[p].pc = "cleanSubs" /\ Become(p, x) /\ registered' = [registered EXCEPT ![k] = {}]
      /\ UNCHANGED <<owner, phase, story>>
  BY DEF CleanSubscribers, At, streams
<1>2. k \in Tasks
  BY <1>1, LocalsTyped DEF LocalOK
<1>3. registered[k] \in SUBSET Subs
  BY <1>2 DEF IInv, TypeOK
<1>4. x \in Locals /\ LocalOK(x) /\ x.pc = "close" /\ ~Notifying(x)
  BY <1>3 DEF Idle, Locals, LocalOK, Notifying
<1>5. /\ \A j \in Tasks : registered'[j] \subseteq registered[j]
      /\ registered'[k] = {}
  BY <1>1, <1>2 DEF IInv, TypeOK
<1>6. ~Notifying(me[p]) /\ \A j \in Tasks : Ending(me[p], j) => j = k
  BY <1>1 DEF Notifying, Ending
<1> HIDE DEF x
<1> QED BY <1>1, <1>4, <1>5, <1>6, StoriesFrame

LEMMA CloseSubTells ==
    ASSUME IInv, SInv, NEW p \in Procs, NEW s \in Subs, CloseSub(p, s) PROVE SInv'
<1> DEFINE x == IF phase[s] = "open"
                THEN [me[p] EXCEPT !.pc = "finishClose", !.toClose = @ \ {s}, !.sub = s]
                ELSE [me[p] EXCEPT !.toClose = @ \ {s}]
<1>1. /\ me[p].pc = "close" /\ s \in me[p].toClose /\ Become(p, x)
      /\ phase' = IF phase[s] = "open" THEN [phase EXCEPT ![s] = "closing"] ELSE phase
      /\ UNCHANGED <<registered, owner, story>>
  BY DEF CloseSub, At
<1>2. me[p] \in Locals /\ LocalOK(me[p])
  BY LocalsTyped
<1>3. /\ x \in Locals /\ LocalOK(x) /\ x.pc \in {"close", "finishClose"}
      /\ x.task = me[p].task /\ x.event = me[p].event /\ x.then = me[p].then
      /\ x.pc = "finishClose" => phase[s] = "open" /\ x.sub = s
  BY <1>1, <1>2 DEF Locals, LocalOK
<1>4. \A u \in Subs : \/ phase'[u] = phase[u]
                      \/ phase[u] = "open" /\ phase'[u] = "closing"
  BY <1>1 DEF IInv, TypeOK
<1>5. phase[s] = "open" => phase'[s] = "closing"
  BY <1>1 DEF IInv, TypeOK
<1>6. /\ ~Notifying(x) /\ ~Notifying(me[p])
      /\ \A k \in Tasks : Ending(me[p], k) => Ending(x, k)
  BY <1>1, <1>3 DEF Notifying, Ending
<1> HIDE DEF x
<1> QED BY <1>1, <1>3, <1>4, <1>5, <1>6, StoriesFrame

LEMMA FinishCloseTells ==
    ASSUME IInv, SInv, NEW p \in Procs, FinishClose(p) PROVE SInv'
<1> DEFINE s == me[p].sub
           x == [me[p] EXCEPT !.pc = "close", !.sub = None]
<1>1. /\ me[p].pc = "finishClose" /\ Become(p, x) /\ phase' = [phase EXCEPT ![s] = "closed"]
      /\ UNCHANGED <<registered, owner, story>>
  BY DEF FinishClose, At
<1>2. me[p] \in Locals /\ LocalOK(me[p]) /\ s \in Subs /\ phase[s] \in {"closing", "closed"}
  BY <1>1, LocalsTyped DEF LocalOK, SInv, Fresh, At
<1>3. /\ x \in Locals /\ LocalOK(x) /\ x.pc = "close"
      /\ x.task = me[p].task /\ x.event = me[p].event /\ x.then = me[p].then
  BY <1>1, <1>2 DEF Locals, LocalOK
<1>4. \A u \in Subs : \/ phase'[u] = phase[u]
                      \/ phase[u] \in {"closing", "closed"} /\ phase'[u] = "closed"
  BY <1>1, <1>2 DEF IInv, TypeOK
<1>5. /\ ~Notifying(x) /\ ~Notifying(me[p])
      /\ \A k \in Tasks : Ending(me[p], k) => Ending(x, k)
  BY <1>1, <1>3 DEF Notifying, Ending
<1> HIDE DEF x
<1> QED BY <1>1, <1>3, <1>4, <1>5, StoriesFrame

LEMMA EndCloseTells ==
    ASSUME IInv, SInv, NEW p \in Procs, EndClose(p) PROVE SInv'
<1> DEFINE x == IF me[p].then = "idle" THEN Idle
                ELSE [me[p] EXCEPT !.pc = me[p].then, !.then = "idle"]
<1>1. /\ me[p].pc = "close" /\ me[p].toClose = {} /\ Become(p, x)
      /\ UNCHANGED <<registered, owner, phase, story>>
  BY DEF EndClose, At, streams
<1>2. /\ me[p] \in Locals /\ LocalOK(me[p])
      /\ me[p].then \in {"idle", "cleanSubs", "drop", "closed"}
  BY LocalsTyped DEF Locals
<1>3. /\ x.pc \in {"idle", "cleanSubs", "drop", "closed"}
      /\ me[p].then = "cleanSubs" =>
            x.pc = "cleanSubs" /\ x.task = me[p].task /\ x.event = me[p].event
  BY <1>2 DEF Locals, Idle
<1>4. x \in Locals /\ LocalOK(x)
  <2>1. CASE me[p].then = "idle"
    BY <2>1, IdleIsLocal
  <2>2. CASE me[p].then # "idle"
    <3>1. x \in Locals
      BY <1>2, <2>2 DEF Locals
    <3>2. LocalOK(x)
      BY <1>1, <1>2, <2>2 DEF Locals, LocalOK
    <3> QED BY <3>1, <3>2
  <2> QED BY <2>1, <2>2
<1>5. /\ ~Notifying(x) /\ ~Notifying(me[p])
      /\ \A k \in Tasks : Ending(me[p], k) => Ending(x, k)
  BY <1>1, <1>3 DEF Notifying, Ending
<1> HIDE DEF x
<1> QED BY <1>1, <1>3, <1>4, <1>5, StoriesFrame

(* One send of a round is over: it told a story v of its stream, and the       *)
(* goroutine remembers it if the stream missed the event.                    *)
LEMMA SendTells ==
    ASSUME IInv, SInv, SingleWriter, NEW p \in Procs, me[p].pc = "send", Notifying(me[p]),
           NEW x \in Locals, LocalOK(x), Become(p, x),
           x.pc = "notify", x.task = me[p].task, x.event = me[p].event, x.todo = me[p].todo,
           me[p].failed \subseteq x.failed,
           NEW v \in {"none", "update", "final", "missed"},
           v = "missed" => me[p].sub \in x.failed, v = "final" => me[p].event = "final",
           story' = [story EXCEPT ![me[p].sub] = v],
           UNCHANGED <<registered, owner, phase>>
    PROVE  SInv'
<1> DEFINE s == me[p].sub
           k == me[p].task
<1>1. /\ me'[p] = x /\ \A q \in Procs : q # p => me'[q] = me[q]
  BY BecomeMoves DEF IInv
<1>2. k \in Tasks /\ p \in Writers[k] /\ RoundOK(me[p]) /\ s \in Subs
  BY NotifyingTask, LocalsTyped DEF LocalOK
<1>3. /\ s \in Ahead(me[p]) /\ s \notin me[p].todo /\ me[p].todo \subseteq Ahead(me[p])
      /\ owner[s] = k /\ phase[s] \notin {"unused", "new"}
  BY <1>2 DEF RoundOK, Ahead
<1>4. story'[s] = v /\ \A u \in Subs : u # s => story'[u] = story[u]
  BY <1>2 DEF IInv, TypeOK
<1>5. Notifying(x) /\ Ahead(x) = me[p].todo
  BY DEF Notifying, Ahead
<1>6. \A j \in Tasks : registered[j] \subseteq Subs
  BY DEF IInv, TypeOK
<1>7. Fresh'
  <2>1. \A q \in Procs : me'[q].pc \in {"add", "finishClose"} => me'[q] = me[q]
    BY <1>1
  <2> QED BY <2>1 DEF SInv, Fresh, At
<1>8. Lists'
  BY DEF SInv, Lists
<1>9. Rounds'
  <2> SUFFICES ASSUME NEW q \in Procs, me'[q].pc = "snapshot" \/ Notifying(me'[q])
               PROVE  /\ q \in Writers[me'[q].task]
                      /\ Notifying(me'[q]) => RoundOK(me[q])'
    BY DEF Rounds, At, Notifying
  <2>1. CASE q = p
    <3>1. Ahead(me[p])' = me[p].todo
      BY <1>1, <1>5 DEF Ahead
    <3>2. \A u \in me[p].todo :
             /\ owner[u] = k /\ phase[u] \notin {"unused", "new"} /\ u # s /\ u \in Subs
             /\ story[u] \in {"none", "update"}
      BY <1>2, <1>3, LocalsTyped DEF RoundOK, Locals
    <3> QED BY <1>1, <1>2, <1>4, <2>1, <3>1, <3>2 DEF RoundOK
  <2>2. CASE q # p
    <3>1. me'[q] = me[q]
      BY <1>1, <2>2
    <3>2. q \in Writers[me[q].task]
      BY <3>1 DEF SInv, Rounds, At
    <3>3. ASSUME Notifying(me[q]) PROVE RoundOK(me[q])'
      <4>1. RoundOK(me[q]) /\ Ahead(me[q]) \subseteq Subs /\ q \in Writers[me[q].task]
        BY <3>3, NotifyingTask, LocalsTyped DEF Ahead, Locals, LocalOK
      <4>2. Ahead(me[q])' = Ahead(me[q])
        BY <3>1 DEF Ahead
      <4>3. s \notin Ahead(me[q])
        <5>1. SUFFICES ASSUME s \in Ahead(me[q]) PROVE FALSE
          OBVIOUS
        <5>2. me[q].task = k
          BY <1>3, <4>1, <5>1 DEF RoundOK
        <5> QED BY <1>2, <2>2, <4>1, <5>2 DEF SingleWriter
      <4>4. \A u \in Ahead(me[q]) : story'[u] = story[u]
        BY <1>4, <4>1, <4>3
      <4> QED BY <3>1, <4>1, <4>2, <4>4 DEF RoundOK
    <3> QED BY <3>1, <3>2, <3>3
  <2> QED BY <2>1, <2>2
<1>10. Stories'
  <2>1. ASSUME NEW u \in Subs PROVE story'[u] \notin {"gap", "afterFinal"}
    BY <1>4 DEF SInv, Stories, StreamsAreSound, NoGap, FinalIsLast
  <2>2. StreamsAreSound'
    BY <2>1 DEF StreamsAreSound, NoGap, FinalIsLast
  <2>3. \A u \in Subs : phase[u] \in {"unused", "new"} => story'[u] = "none"
    BY <1>3, <1>4 DEF SInv, Stories
  <2>4. ASSUME NEW j \in Tasks, NEW u \in registered[j], story'[u] = "missed"
        PROVE  \E q \in Writers[j] : Notifying(me'[q]) /\ me'[q].task = j /\ u \in me'[q].failed
    <3>1. CASE u = s
      <4>1. j = k
        BY <1>3, <3>1 DEF SInv, Lists
      <4>2. u \in x.failed
        BY <1>4, <2>4, <3>1
      <4> QED BY <1>1, <1>2, <1>5, <4>1, <4>2
    <3>2. CASE u # s
      <4>1. PICK q \in Writers[j] : Notifying(me[q]) /\ me[q].task = j /\ u \in me[q].failed
        BY <1>4, <1>6, <2>4, <3>2 DEF SInv, Stories
      <4>2. q \in Procs
        BY DEF Procs
      <4> QED BY <1>1, <1>5, <4>1, <4>2
    <3> QED BY <3>1, <3>2
  <2>5. ASSUME NEW j \in Tasks, NEW u \in registered[j], story'[u] = "final"
        PROVE  \E q \in Writers[j] : Ending(me'[q], j)
    <3>1. CASE u = s
      <4>1. j = k
        BY <1>3, <3>1 DEF SInv, Lists
      <4>2. Ending(x, k)
        BY <1>4, <1>5, <2>5, <3>1 DEF Ending
      <4> QED BY <1>1, <1>2, <4>1, <4>2
    <3>2. CASE u # s
      <4>1. PICK q \in Writers[j] : Ending(me[q], j)
        BY <1>4, <1>6, <2>5, <3>2 DEF SInv, Stories
      <4>2. q \in Procs
        BY DEF Procs
      <4>3. Ending(me[p], j) => Ending(x, j)
        BY <1>5 DEF Ending
      <4> QED BY <1>1, <4>1, <4>2, <4>3
    <3> QED BY <3>1, <3>2
  <2> QED BY <2>2, <2>3, <2>4, <2>5 DEF Stories, Notifying, Ending
<1> QED BY <1>7, <1>8, <1>9, <1>10 DEF SInv

(* A message processor's own send is no part of a round. *)
LEMMA DirectSendTells ==
    ASSUME IInv, SInv, NEW p \in Procs, me[p].pc = "send", Direct(p), Become(p, Idle),
           UNCHANGED <<registered, owner, phase, story>>
    PROVE  SInv'
<1>1. ~Notifying(me[p]) /\ ~Notifying(Idle) /\ Idle.pc = "idle"
  BY DEF Notifying, Direct, Idle
<1>2. \A k \in Tasks : ~Ending(me[p], k)
  BY <1>1 DEF Ending
<1> QED BY <1>1, <1>2, IdleIsLocal, StoriesFrame

LEMMA AcceptTells ==
    ASSUME IInv, SInv, SingleWriter, NEW p \in Procs, Accept(p) PROVE SInv'
<1> DEFINE s == me[p].sub
           x == [me[p] EXCEPT !.pc = "notify", !.sub = None]
<1>1. /\ me[p].pc = "send" /\ Become(p, IF Direct(p) THEN Idle ELSE x)
      /\ story' = [story EXCEPT ![s] = IF Direct(p) THEN @ ELSE Follow(@, me[p].event)]
      /\ UNCHANGED <<registered, owner, phase>>
  BY DEF Accept, At
<1>2. me[p] \in Locals /\ LocalOK(me[p]) /\ s \in Subs
  BY <1>1, LocalsTyped DEF LocalOK
<1>3. CASE Direct(p)
  <2>1. story' = story
    BY <1>1, <1>2, <1>3 DEF IInv, TypeOK
  <2> QED BY <1>1, <1>3, <2>1, DirectSendTells
<1>4. CASE ~Direct(p)
  <2>1. /\ x \in Locals /\ LocalOK(x) /\ x.pc = "notify" /\ x.task = me[p].task
        /\ x.event = me[p].event /\ x.todo = me[p].todo /\ x.failed = me[p].failed
    BY <1>1, <1>2, <1>4 DEF Locals, LocalOK, Direct
  <2>2. Notifying(me[p]) /\ me[p].event \in {"none", "update", "final"}
    BY <1>1, <1>2, <1>4 DEF Notifying, Direct, Locals
  <2>3. story[s] \in {"none", "update"}
    BY <1>1, <2>2, NotifyingTask DEF RoundOK, Ahead
  <2>4. Follow(story[s], me[p].event) = me[p].event
    BY <2>3 DEF Follow
  <2>5. story' = [story EXCEPT ![s] = me[p].event] /\ Become(p, x)
    BY <1>1, <1>4, <2>4
  <2> HIDE DEF x
  <2> QED BY <1>1, <2>1, <2>2, <2>5, SendTells
<1> QED BY <1>3, <1>4

LEMMA RefuseTells ==
    ASSUME IInv, SInv, SingleWriter, NEW p \in Procs, Refuse(p) PROVE SInv'
<1> DEFINE s == me[p].sub
           x == [me[p] EXCEPT !.pc = "notify", !.sub = None, !.failed = @ \cup {s}]
           v == IF phase[s] # "open" THEN story[s] ELSE "missed"
<1>1. /\ me[p].pc = "send" /\ Become(p, IF Direct(p) THEN Idle ELSE x)
      /\ story' = [story EXCEPT ![s] =
                      IF Direct(p) \/ phase[s] # "open" \/ @ \in {"afterFinal", "gap"}
                      THEN @ ELSE "missed"]
      /\ UNCHANGED <<registered, owner, phase>>
  BY DEF Refuse, At
<1>2. me[p] \in Locals /\ LocalOK(me[p]) /\ s \in Subs
  BY <1>1, LocalsTyped DEF LocalOK
<1>3. CASE Direct(p)
  <2>1. story' = story
    BY <1>1, <1>2, <1>3 DEF IInv, TypeOK
  <2> QED BY <1>1, <1>3, <2>1, DirectSendTells
<1>4. CASE ~Direct(p)
  <2>1. /\ x \in Locals /\ LocalOK(x) /\ x.pc = "notify" /\ x.task = me[p].task
        /\ x.event = me[p].event /\ x.todo = me[p].todo /\ x.failed = me[p].failed \cup {s}
    BY <1>1, <1>2, <1>4 DEF Locals, LocalOK, Direct
  <2>2. Notifying(me[p])
    BY <1>1, <1>4 DEF Notifying, Direct
  <2>3. story[s] \in {"none", "update"}
    BY <1>1, <2>2, NotifyingTask DEF RoundOK, Ahead
  <2>4. v \in {"none", "update", "final", "missed"} /\ v # "final"
    BY <2>3
  <2>5. story' = [story EXCEPT ![s] = v] /\ Become(p, x)
    BY <1>1, <1>4, <2>3
  <2>6. me[p].failed \subseteq x.failed /\ s \in x.failed
    BY <2>1
  <2> HIDE DEF x, v
  <2> QED BY <1>1, <2>1, <2>2, <2>4, <2>5, <2>6, SendTells
<1> QED BY <1>3, <1>4

-----------------------------------------------------------------------------
LEMMA InitTells == Init => SInv
<1> SUFFICES ASSUME Init PROVE SInv
  OBVIOUS
<1>1. me = [p \in Procs |-> Idle] /\ Idle.pc = "idle"
  BY DEF Init, Idle
<1>2. \A p \in Procs : me[p].pc = "idle" /\ ~Notifying(me[p])
  BY <1>1 DEF Notifying
<1>3. Fresh /\ Rounds
  BY <1>2 DEF Fresh, Rounds, At
<1>4. Lists /\ Stories
  BY DEF Init, Lists, Stories, StreamsAreSound, NoGap, FinalIsLast
<1> QED BY <1>3, <1>4 DEF SInv

LEMMA CallsTell == ASSUME IInv, SInv, NEW p \in Threads, Call(p) PROVE SInv'
<1>1. p \in Procs
  BY DEF Procs
<1>2. CASE \E k \in Tasks : BuildTask(p, k) \/ OnPushNotificationSet(p, k)
  BY <1>2, StoriesStand DEF BuildTask, OnPushNotificationSet, streams
<1>3. CASE \/ \E k \in Tasks : \/ \E final \in BOOLEAN : UpdateTaskState(p, k, final)
                               \/ AddArtifact(p, k) \/ OnCancelTask(p, k)
           \/ \E s \in Subs : Send(p, s) \/ CloseSubscriber(p, s)
           \/ Close(p)
  <2>1. me[p].pc = "idle"
    BY <1>3 DEF UpdateTaskState, AddArtifact, OnCancelTask, Send, CloseSubscriber, Close, At
  <2> QED BY <1>1, <1>3, <2>1, CallTells
<1>4. CASE \E k \in Tasks : At(p, "idle") /\ CleanTask(p, k)
  BY <1>1, <1>4, CleanTaskTells DEF At
<1>5. CASE \E k \in Tasks, s \in Subs : SubscribeTask(p, k, s)
  BY <1>1, <1>5, SubscribeTaskTells
<1>6. CASE \E k \in Tasks, s \in Subs : OnResubscribe(p, k, s)
  BY <1>1, <1>6, OnResubscribeTells
<1> QED BY <1>2, <1>3, <1>4, <1>5, <1>6 DEF Call

LEMMA StepsTell == ASSUME IInv, SInv, SingleWriter, NEW p \in Procs, Step(p) PROVE SInv'
<1>1. CASE CleanCanceledTask(p)
  <2>1. me[p].pc = "clean" /\ me[p].task \in Tasks
    BY <1>1, LocalsTyped DEF CleanCanceledTask, At, LocalOK
  <2>2. CASE CleanTask(p, me[p].task)
    BY <2>1, <2>2, CleanTaskTells
  <2>3. CASE Become(p, Idle) /\ UNCHANGED <<registered, streams>>
    BY <2>1, <2>3, IdleIsLocal, StoriesAside DEF Idle, Notifying
  <2> QED BY <1>1, <2>2, <2>3 DEF CleanCanceledTask
<1>2. CASE DropConfigs(p) \/ CloseReturns(p)
  <2>1. me[p].pc \in {"drop", "closed"} /\ Become(p, Idle) /\ UNCHANGED <<registered, streams>>
    BY <1>2 DEF DropConfigs, CloseReturns, At
  <2> QED BY <2>1, IdleIsLocal, StoriesAside DEF Idle, Notifying
<1>3. CASE Teardown(p)
  <2>1. me[p].pc = "wait" /\ RemoveTasks(p, Tasks, "closed", {})
    BY <1>3 DEF Teardown, At
  <2>2. Tasks \in SUBSET Tasks /\ {} \in SUBSET Tasks
    OBVIOUS
  <2> QED BY <2>1, <2>2, RemoveTasksTells
<1>4. CASE AddSubscriber(p) \/ Snapshot(p) \/ Accept(p) \/ Refuse(p) \/ EndNotify(p)
  BY <1>4, AddSubscriberTells, SnapshotTells, AcceptTells, RefuseTells, EndNotifyTells
<1>5. CASE \E s \in Subs : Notify(p, s) \/ CloseSub(p, s)
  BY <1>5, NotifyTells, CloseSubTells
<1>6. CASE CleanupFailedSubscribers(p) \/ CleanSubscribers(p) \/ FinishClose(p) \/ EndClose(p)
  BY <1>6, CleanupFailedTells, CleanSubscribersTells, FinishCloseTells, EndCloseTells
<1> QED BY <1>1, <1>2, <1>3, <1>4, <1>5, <1>6 DEF Step

LEMMA CleanerTells == ASSUME IInv, SInv, CleanExpiredTasks \/ StopCleaner PROVE SInv'
<1>1. Cleaner \in Procs
  BY DEF Procs
<1>2. CASE CleanExpiredTasks
  <2>1. me[Cleaner].pc = "idle" /\ RemoveTasks(Cleaner, Expired, "drop", Expired)
    BY <1>2 DEF CleanExpiredTasks, At
  <2>2. Expired \in SUBSET Tasks
    BY DEF Expired, IInv, TypeOK
  <2> QED BY <1>1, <2>1, <2>2, RemoveTasksTells
<1>3. CASE StopCleaner
  <2> DEFINE x == [Idle EXCEPT !.pc = "stopped"]
  <2>1. x \in Locals /\ LocalOK(x) /\ x.pc = "stopped" /\ ~Notifying(x)
    BY DEF Idle, Locals, LocalOK, Notifying
  <2>2. me[Cleaner].pc = "idle" /\ Become(Cleaner, x) /\ UNCHANGED <<registered, streams>>
    BY <1>3 DEF StopCleaner, At
  <2> QED BY <1>1, <2>1, <2>2, StoriesAside
<1> QED BY <1>2, <1>3

LEMMA StoriesStep ==
    ASSUME SingleWriter
    PROVE  IInv /\ SInv /\ [Next]_vars => SInv'
<1> SUFFICES ASSUME IInv, SInv, [Next]_vars PROVE SInv'
  OBVIOUS
<1>1. CASE \E p \in Threads : Call(p)
  BY <1>1, CallsTell
<1>2. CASE \E p \in Procs : Step(p)
  BY <1>2, StepsTell
<1>3. CASE CleanExpiredTasks \/ StopCleaner
  BY <1>3, CleanerTells
<1>4. CASE (\E k \in Tasks : Age(k)) \/ (\E s \in Subs : Receive(s)) \/ UNCHANGED vars
  BY <1>4, StoriesStand DEF Age, Receive, vars, streams
<1> QED BY <1>1, <1>2, <1>3, <1>4 DEF Next

(* What a stream hands out is a beginning of what was sent on it, up to the     *)
(* final event, when one goroutine updates each task, for any number of       *)
(* tasks and streams, any queue size and either kind of send: an event that   *)
(* was refused is the last the stream may get, and so is a final one.        *)
THEOREM ManagerStreamsAreSound == ASSUME SingleWriter PROVE Spec => []StreamsAreSound
<1>1. Init => SInv
  BY InitTells
<1>2. IInv /\ SInv /\ [Next]_vars => SInv'
  BY StoriesStep
<1>3. SInv => StreamsAreSound
  BY DEF SInv, Stories
<1> QED BY <1>1, <1>2, <1>3, Invariance, PTL DEF Spec

-----------------------------------------------------------------------------
(* Lists and tasks: which steps put a stream on the list of a removed task.  *)

(* Every stream that the step strands was in the hands of SubscribeTask.     *)
StrandsFairly ==
    \A k \in Tasks, s \in Subs :
        s \in Stranded(k)' /\ s \notin Stranded(k) =>
            \E p \in Procs : At(p, "add") /\ me[p].task = k /\ me[p].sub = s

(* A step that removes no task and registers nothing strands no stream. *)
LEMMA ListsShrink ==
    ASSUME \A k \in Tasks : Exists(k) => Exists(k)',
           \A k \in Tasks : registered'[k] \subseteq registered[k]
    PROVE  StrandsFairly
  BY DEF StrandsFairly, Stranded

(* A removal takes the list with the task. *)
LEMMA RemovalsStrandNothing ==
    ASSUME NEW p \in Procs, NEW removed, NEW then, NEW drop,
           RemoveTasks(p, removed, then, drop)
    PROVE  StrandsFairly
<1>1. /\ status' = [k \in Tasks |-> IF k \in removed THEN "absent" ELSE status[k]]
      /\ registered' = [k \in Tasks |-> IF k \in removed THEN {} ELSE registered[k]]
  BY DEF RemoveTasks
<1> QED BY <1>1 DEF StrandsFairly, Stranded, Exists

LEMMA CallsStrandFairly == ASSUME IInv, NEW p \in Threads, Call(p) PROVE StrandsFairly
<1>1. p \in Procs
  BY DEF Procs
<1>2. CASE \E k \in Tasks : BuildTask(p, k) \/ OnPushNotificationSet(p, k)
  <2>1. registered' = registered
    BY <1>2 DEF BuildTask, OnPushNotificationSet
  <2>2. \A k \in Tasks : Exists(k) => Exists(k)'
    BY <1>2 DEF BuildTask, OnPushNotificationSet, Exists, tasks, IInv, TypeOK
  <2> QED BY <2>1, <2>2, ListsShrink
<1>3. CASE \E k \in Tasks : At(p, "idle") /\ CleanTask(p, k)
  BY <1>1, <1>3, RemovalsStrandNothing DEF CleanTask
<1>4. CASE \E k \in Tasks, s \in Subs : OnResubscribe(p, k, s)
  <2>1. PICK k \in Tasks, s \in Subs : OnResubscribe(p, k, s)
    BY <1>4
  <2>2. Exists(k) /\ status' = status
        /\ registered' = [registered EXCEPT ![k] = @ \cup {s}]
    BY <2>1 DEF OnResubscribe, Register, tasks
  <2>3. \A j \in Tasks : j # k => registered'[j] = registered[j]
    BY <2>2 DEF IInv, TypeOK
  <2> QED BY <2>2, <2>3 DEF StrandsFairly, Stranded, Exists
<1>5. CASE \E k \in Tasks, final \in BOOLEAN : UpdateTaskState(p, k, final)
  <2>1. PICK k \in Tasks, final \in BOOLEAN : UpdateTaskState(p, k, final)
    BY <1>5
  <2>2. registered' = registered
        /\ status' = [status EXCEPT ![k] = IF final THEN "final" ELSE "active"]
    BY <2>1 DEF UpdateTaskState
  <2>3. \A j \in Tasks : Exists(j) => Exists(j)'
    BY <2>2 DEF Exists, IInv, TypeOK
  <2> QED BY <2>2, <2>3, ListsShrink
<1>6. CASE \/ \E k \in Tasks : AddArtifact(p, k) \/ OnCancelTask(p, k)
           \/ \E k \in Tasks, s \in Subs : SubscribeTask(p, k, s)
           \/ \E s \in Subs : Send(p, s) \/ CloseSubscriber(p, s)
           \/ Close(p)
  <2>1. status' = status /\ registered' = registered
    BY <1>6 DEF AddArtifact, OnCancelTask, SubscribeTask, Send, CloseSubscriber, Close, tasks
  <2> QED BY <2>1, ListsShrink DEF Exists
<1> QED BY <1>2, <1>3, <1>4, <1>5, <1>6 DEF Call

LEMMA StepsStrandFairly == ASSUME IInv, NEW p \in Procs, Step(p) PROVE StrandsFairly
<1>1. ASSUME status' = status, \A k \in Tasks : registered'[k] \subseteq registered[k]
      PROVE  StrandsFairly
  BY <1>1, ListsShrink DEF Exists
<1>2. CASE AddSubscriber(p)
  <2> DEFINE k == me[p].task
             s == me[p].sub
  <2>1. At(p, "add") /\ status' = status
        /\ registered' = [registered EXCEPT ![k] = @ \cup {s}]
    BY <1>2 DEF AddSubscriber, Register, tasks
  <2>2. \A j \in Tasks : registered'[j] = registered[j] \/
                          (j = k /\ registered'[j] = registered[j] \cup {s})
    BY <2>1 DEF IInv, TypeOK
  <2> QED BY <2>1, <2>2 DEF StrandsFairly, Stranded, Exists
<1>3. CASE CleanCanceledTask(p)
  <2>1. CASE CleanTask(p, me[p].task)
    BY <2>1, RemovalsStrandNothing DEF CleanTask
  <2>2. CASE UNCHANGED <<tasks, registered>>
    BY <2>2, <1>1 DEF tasks
  <2> QED BY <1>3, <2>1, <2>2 DEF CleanCanceledTask
<1>4. CASE Teardown(p)
  BY <1>4, RemovalsStrandNothing DEF Teardown
<1>5. CASE CleanupFailedSubscribers(p) \/ CleanSubscribers(p)
  <2>1. status' = status /\ \A k \in Tasks : registered'[k] \subseteq registered[k]
    BY <1>5 DEF CleanupFailedSubscribers, CleanSubscribers, tasks, IInv, TypeOK
  <2> QED BY <1>1, <2>1
<1>6. CASE \/ DropConfigs(p) \/ Snapshot(p) \/ Accept(p) \/ Refuse(p) \/ EndNotify(p)
           \/ \E s \in Subs : Notify(p, s) \/ CloseSub(p, s)
           \/ FinishClose(p) \/ EndClose(p) \/ CloseReturns(p)
  <2>1. status' = status /\ registered' = registered
    BY <1>6 DEF DropConfigs, Snapshot, Accept, Refuse, EndNotify, Notify, CloseSub,
                FinishClose, EndClose, CloseReturns, tasks
  <2> QED BY <1>1, <2>1
<1> QED BY <1>2, <1>3, <1>4, <1>5, <1>6 DEF Step

LEMMA NextStrandsFairly == IInv /\ [Next]_vars => [StrandsFairly]_vars
<1> SUFFICES ASSUME IInv, Next PROVE StrandsFairly
  OBVIOUS
<1>1. CASE \E p \in Threads : Call(p)
  BY <1>1, CallsStrandFairly
<1>2. CASE \E p \in Procs : Step(p)
  BY <1>2, StepsStrandFairly
<1>3. CASE CleanExpiredTasks
  <2>1. Cleaner \in Procs
    BY DEF Procs
  <2> QED BY <1>3, <2>1, RemovalsStrandNothing DEF CleanExpiredTasks
<1>4. CASE StopCleaner \/ (\E k \in Tasks : Age(k)) \/ (\E s \in Subs : Receive(s))
  <2>1. status' = status /\ registered' = registered
    BY <1>4 DEF StopCleaner, Age, Receive, tasks
  <2> QED BY <2>1, ListsShrink DEF Exists
<1> QED BY <1>1, <1>2, <1>3, <1>4 DEF Next

(* Whatever operations are called, by however many goroutines: a removal of a *)
(* task takes every stream off its list, and a stream gets onto the list of a *)
(* task that is gone only from a SubscribeTask that looked before the removal. *)
THEOREM RemovalsLeaveNoStream == Spec => OnlySubscribeStrands
<1>1. IInv /\ [Next]_vars => [StrandsFairly]_vars
  BY NextStrandsFairly
<1> QED BY <1>1, Invariance, PTL DEF Spec, OnlySubscribeStrands, StrandsFairly

-----------------------------------------------------------------------------
(* What the readers of the streams are promised. *)

(* A goroutine knows what it sends, and sends on a stream that has been opened. *)
SendOK(l) ==
    /\ l.pc \in {"snapshot", "notify", "send"} => l.event # "none"
    /\ l.pc = "send" => phase[l.sub] \notin {"unused", "new"}

SendsOK == \A p \in Procs : SendOK(me[p])

Untouched == UNCHANGED <<blocking, phase, queued, story>>

LEMMA QuietPromise == ASSUME Untouched PROVE UNCHANGED Promise!vars
  BY DEF Untouched, Promise!vars

LEMMA CallPromise ==
    ASSUME NEW p \in Threads, Call(p)
    PROVE  Untouched \/ \E s \in Subs : Promise!Make(s) \/ Promise!Open(s)
<1>1. ASSUME NEW k \in Tasks, BuildTask(p, k) \/ OnPushNotificationSet(p, k) PROVE Untouched
  BY <1>1 DEF BuildTask, OnPushNotificationSet, streams, Untouched
<1>2. ASSUME NEW k \in Tasks, NEW final \in BOOLEAN, UpdateTaskState(p, k, final) PROVE Untouched
  BY <1>2 DEF UpdateTaskState, streams, Untouched
<1>3. ASSUME NEW k \in Tasks, AddArtifact(p, k) \/ OnCancelTask(p, k) PROVE Untouched
  BY <1>3 DEF AddArtifact, OnCancelTask, streams, Untouched
<1>4. ASSUME NEW k \in Tasks, CleanTask(p, k) PROVE Untouched
  BY <1>4 DEF CleanTask, RemoveTasks, streams, Untouched
<1>5. ASSUME NEW k \in Tasks, NEW s \in Subs, SubscribeTask(p, k, s) PROVE Promise!Make(s)
  BY <1>5 DEF SubscribeTask, Promise!Make
<1>6. ASSUME NEW k \in Tasks, NEW s \in Subs, OnResubscribe(p, k, s) PROVE Promise!Open(s)
  BY <1>6 DEF OnResubscribe, Register, Promise!Open
<1>7. ASSUME NEW s \in Subs, Send(p, s) \/ CloseSubscriber(p, s) PROVE Untouched
  BY <1>7 DEF Send, CloseSubscriber, streams, Untouched
<1>8. CASE Close(p)
  BY <1>8 DEF Close, streams, Untouched
<1> QED BY <1>1, <1>2, <1>3, <1>4, <1>5, <1>6, <1>7, <1>8 DEF Call

(* The writer sends on a stream that has missed nothing and has not got its     *)
(* final event.                                                             *)
LEMMA SendsAhead ==
    ASSUME IInv, SInv, NEW p \in Procs, me[p].pc = "send", ~Direct(p)
    PROVE  Promise!GoesOn(me[p].sub)
<1>1. Notifying(me[p]) /\ me[p].sub \in Ahead(me[p])
  BY DEF Notifying, Ahead, Direct
<1> QED BY <1>1 DEF SInv, Rounds, RoundOK, Promise!GoesOn

LEMMA AcceptPromise ==
    ASSUME IInv, SInv, SendsOK, NEW p \in Procs, Accept(p)
    PROVE  \E s \in Subs : \/ \E event \in {"update", "final"} : Promise!Deliver(s, event)
                           \/ Promise!SendDirect(s)
<1> DEFINE s == me[p].sub
<1>1. /\ me[p].pc = "send" /\ phase[s] # "closed" /\ queued[s] < BufSize
      /\ queued' = [queued EXCEPT ![s] = @ + 1]
      /\ story' = [story EXCEPT ![s] = IF Direct(p) THEN @ ELSE Follow(@, me[p].event)]
      /\ UNCHANGED <<blocking, phase>>
  BY DEF Accept, At
<1>2. s \in Subs /\ me[p].event \in {"none", "update", "final", "direct"}
  BY <1>1, LocalsTyped DEF LocalOK, Locals
<1>3. Promise!Room(s)
  BY <1>1, <1>2 DEF SendsOK, SendOK, IInv, TypeOK, Promise!Room
<1>4. CASE Direct(p)
  <2>1. story' = story
    BY <1>1, <1>4 DEF IInv, TypeOK
  <2>2. Promise!SendDirect(s)
    BY <1>1, <1>3, <2>1 DEF Promise!SendDirect
  <2> QED BY <1>2, <2>2
<1>5. CASE ~Direct(p)
  <2>1. Promise!GoesOn(s)
    BY <1>1, <1>5, SendsAhead
  <2>2. Follow(story[s], me[p].event) = me[p].event
    BY <2>1 DEF Promise!GoesOn, Follow
  <2>3. story' = [story EXCEPT ![s] = me[p].event]
    BY <1>1, <1>5, <2>2
  <2>4. me[p].event \in {"update", "final"}
    BY <1>1, <1>2, <1>5 DEF Direct, SendsOK, SendOK
  <2>5. Promise!Deliver(s, me[p].event)
    BY <1>1, <1>3, <2>1, <2>3 DEF Promise!Deliver
  <2> QED BY <1>2, <2>4, <2>5
<1> QED BY <1>4, <1>5

LEMMA RefusePromise ==
    ASSUME IInv, SInv, NEW p \in Procs, Refuse(p)
    PROVE  Untouched \/ \E s \in Subs : Promise!Miss(s)
<1> DEFINE s == me[p].sub
<1>1. /\ me[p].pc = "send"
      /\ phase[s] # "open" \/ (~blocking /\ queued[s] = BufSize)
      /\ story' = [story EXCEPT ![s] =
                      IF Direct(p) \/ phase[s] # "open" \/ @ \in {"afterFinal", "gap"}
                      THEN @ ELSE "missed"]
      /\ UNCHANGED <<blocking, phase, queued>>
  BY DEF Refuse, At
<1>2. s \in Subs
  BY <1>1, LocalsTyped DEF LocalOK
<1>3. CASE Direct(p) \/ phase[s] # "open"
  <2>1. story' = story
    BY <1>1, <1>3 DEF IInv, TypeOK
  <2> QED BY <1>1, <2>1 DEF Untouched
<1>4. CASE ~Direct(p) /\ phase[s] = "open"
  <2>1. Promise!GoesOn(s)
    BY <1>1, <1>4, SendsAhead
  <2>2. story' = [story EXCEPT ![s] = "missed"]
    BY <1>1, <1>4, <2>1 DEF Promise!GoesOn
  <2>3. Promise!Miss(s)
    BY <1>1, <1>4, <2>1, <2>2 DEF Promise!Miss
  <2> QED BY <1>2, <2>3
<1> QED BY <1>3, <1>4

LEMMA StepPromise ==
    ASSUME IInv, SInv, SendsOK, NEW p \in Procs, Step(p)
    PROVE  Promise!Next \/ Untouched
<1>1. CASE CleanCanceledTask(p) \/ DropConfigs(p) \/ Teardown(p)
  BY <1>1 DEF CleanCanceledTask, CleanTask, DropConfigs, Teardown, RemoveTasks, streams, Untouched
<1>2. CASE AddSubscriber(p)
  <2>1. me[p].sub \in Subs /\ phase[me[p].sub] = "new"
    BY <1>2, LocalsTyped DEF AddSubscriber, At, LocalOK, SInv, Fresh
  <2>2. Promise!Open(me[p].sub)
    BY <1>2, <2>1 DEF AddSubscriber, Register, Promise!Open
  <2> QED BY <2>1, <2>2 DEF Promise!Next
<1>3. CASE Snapshot(p) \/ EndNotify(p) \/ EndClose(p)
  BY <1>3 DEF Snapshot, EndNotify, EndClose, streams, Untouched
<1>4. CASE Accept(p)
  BY <1>4, AcceptPromise DEF Promise!Next
<1>5. CASE Refuse(p)
  BY <1>5, RefusePromise DEF Promise!Next
<1>6. ASSUME NEW s \in Subs, Notify(p, s) PROVE Untouched
  BY <1>6 DEF Notify, streams, Untouched
<1>7. ASSUME NEW s \in Subs, CloseSub(p, s) PROVE Promise!Close(s) \/ Untouched
  BY <1>7 DEF CloseSub, Promise!Close, Untouched
<1>8. CASE CleanupFailedSubscribers(p) \/ CleanSubscribers(p) \/ CloseReturns(p)
  BY <1>8 DEF CleanupFailedSubscribers, CleanSubscribers, CloseReturns, streams, Untouched
<1>9. CASE FinishClose(p)
  <2>1. me[p].sub \in Subs /\ phase[me[p].sub] \in {"closing", "closed"}
    BY <1>9, LocalsTyped DEF FinishClose, At, LocalOK, SInv, Fresh
  <2>2. phase' = [phase EXCEPT ![me[p].sub] = "closed"] /\ UNCHANGED <<blocking, queued, story>>
    BY <1>9 DEF FinishClose
  <2>3. CASE phase[me[p].sub] = "closing"
    BY <2>1, <2>2, <2>3 DEF Promise!Close, Promise!Next
  <2>4. CASE phase[me[p].sub] = "closed"
    BY <2>2, <2>4 DEF IInv, TypeOK, Untouched
  <2> QED BY <2>1, <2>3, <2>4
<1> QED BY <1>1, <1>2, <1>3, <1>4, <1>5, <1>6, <1>7, <1>8, <1>9 DEF Step, Promise!Next

LEMMA PromiseStep ==
    IInv /\ SInv /\ SendsOK /\ [Next]_vars => Promise!Next \/ Untouched
<1> SUFFICES ASSUME IInv, SInv, SendsOK, [Next]_vars PROVE Promise!Next \/ Untouched
  OBVIOUS
<1>1. ASSUME NEW p \in Threads, Call(p) PROVE Promise!Next \/ Untouched
  BY <1>1, CallPromise DEF Promise!Next
<1>2. ASSUME NEW p \in Procs, Step(p) PROVE Promise!Next \/ Untouched
  BY <1>2, StepPromise
<1>3. CASE CleanExpiredTasks \/ StopCleaner
  BY <1>3 DEF CleanExpiredTasks, StopCleaner, RemoveTasks, streams, Untouched
<1>4. ASSUME NEW k \in Tasks, Age(k) PROVE Untouched
  BY <1>4 DEF Age, streams, Untouched
<1>5. ASSUME NEW s \in Subs, Receive(s) PROVE Promise!Receive(s)
  BY <1>5 DEF Receive, Promise!Receive
<1>6. CASE UNCHANGED vars
  BY <1>6 DEF vars, streams, Untouched
<1> QED BY <1>1, <1>2, <1>3, <1>4, <1>5, <1>6 DEF Next, Promise!Next

(* A step of p to x, when it sends from there on, knows what and where to. *)
LEMMA SendsKept ==
    ASSUME IInv, SInv, SendsOK, [Next]_vars, NEW p \in Procs, NEW x, Become(p, x),
           x.pc = "send" => x.sub \in Subs, SendOK(x)
    PROVE  SendsOK'
<1>1. Untouched => \A s \in Subs : phase'[s] = phase[s]
  BY DEF Untouched
<1>2. Promise!Next => \A s \in Subs : phase[s] \notin {"unused", "new"} =>
                                          phase'[s] \notin {"unused", "new"}
  <2>1. phase \in [Subs -> {"unused", "new", "open", "closing", "closed"}]
    BY DEF IInv, TypeOK
  <2> QED BY <2>1 DEF Promise!Next, Promise!Make, Promise!Open, Promise!Deliver, Promise!SendDirect,
              Promise!Miss, Promise!Receive, Promise!Close, Promise!Crash
<1>3. \A s \in Subs : phase[s] \notin {"unused", "new"} => phase'[s] \notin {"unused", "new"}
  BY <1>1, <1>2, PromiseStep
<1>4. me' = [me EXCEPT ![p] = x] /\ me \in [Procs -> Locals]
  BY DEF Become, IInv, TypeOK
<1> SUFFICES ASSUME NEW q \in Procs PROVE SendOK(me[q])'
  BY DEF SendsOK
<1>5. CASE q = p
  <2>1. me'[q] = x
    BY <1>4, <1>5
  <2> QED BY <1>3, <2>1 DEF SendOK
<1>6. CASE q # p
  <2>1. me'[q] = me[q] /\ SendOK(me[q])
    BY <1>4, <1>6 DEF SendsOK
  <2>2. me[q].pc = "send" => me[q].sub \in Subs
    BY LocalsTyped DEF LocalOK
  <2> QED BY <1>3, <2>1, <2>2 DEF SendOK
<1> QED BY <1>5, <1>6

(* Where p goes on to something else there is nothing to show. *)
LEMMA SendsOver ==
    ASSUME IInv, SInv, SendsOK, [Next]_vars, NEW p \in Procs, NEW x, Become(p, x),
           x.pc \notin {"snapshot", "notify", "send"}
    PROVE  SendsOK'
  BY SendsKept DEF SendOK

LEMMA CallSends ==
    ASSUME IInv, SInv, SendsOK, [Next]_vars, NEW p \in Threads, Call(p) PROVE SendsOK'
<1>1. p \in Procs
  BY DEF Procs
<1>2. ASSUME NEW k \in Tasks, BuildTask(p, k) \/ OnPushNotificationSet(p, k) PROVE SendsOK'
  <2>1. UNCHANGED <<me, phase>>
    BY <1>2 DEF BuildTask, OnPushNotificationSet, streams
  <2> QED BY <2>1 DEF SendsOK, SendOK
<1>3. ASSUME NEW k \in Tasks, NEW final \in BOOLEAN, UpdateTaskState(p, k, final) PROVE SendsOK'
  <2> DEFINE x == [Idle EXCEPT !.pc = "snapshot", !.task = k,
                               !.event = IF final THEN "final" ELSE "update"]
  <2>1. x.pc = "snapshot" /\ x.event # "none"
    BY DEF Idle
  <2>2. Become(p, x)
    BY <1>3 DEF UpdateTaskState
  <2> HIDE DEF x
  <2> QED BY <1>1, <2>1, <2>2, SendsKept DEF SendOK
<1>4. ASSUME NEW k \in Tasks, AddArtifact(p, k) PROVE SendsOK'
  <2> DEFINE x == [Idle EXCEPT !.pc = "snapshot", !.task = k, !.event = "update"]
  <2>1. x.pc = "snapshot" /\ x.event # "none"
    BY DEF Idle
  <2>2. Become(p, x)
    BY <1>4 DEF AddArtifact
  <2> HIDE DEF x
  <2> QED BY <1>1, <2>1, <2>2, SendsKept DEF SendOK
<1>5. ASSUME NEW k \in Tasks, OnCancelTask(p, k) PROVE SendsOK'
  BY <1>1, <1>5, SendsOver DEF OnCancelTask, Idle
<1>6. ASSUME NEW k \in Tasks, CleanTask(p, k) PROVE SendsOK'
  BY <1>1, <1>6, SendsOver DEF CleanTask, RemoveTasks, Idle
<1>7. ASSUME NEW k \in Tasks, NEW s \in Subs, SubscribeTask(p, k, s) PROVE SendsOK'
  BY <1>1, <1>7, SendsOver DEF SubscribeTask, Idle
<1>8. ASSUME NEW k \in Tasks, NEW s \in Subs, OnResubscribe(p, k, s) PROVE SendsOK'
  <2>1. me' = me /\ me[p] = me[p]
    BY <1>8 DEF OnResubscribe
  <2>2. Become(p, me[p]) /\ SendOK(me[p]) /\ (me[p].pc = "send" => me[p].sub \in Subs)
    BY <1>1, <2>1, LocalsTyped DEF IInv, TypeOK, Become, SendsOK, LocalOK
  <2> QED BY <1>1, <2>2, SendsKept
<1>9. ASSUME NEW s \in Subs, Send(p, s) PROVE SendsOK'
  <2> DEFINE x == [Idle EXCEPT !.pc = "send", !.event = "direct", !.sub = s]
  <2>1. x.pc = "send" /\ x.event # "none" /\ x.sub = s
    BY DEF Idle
  <2>2. Become(p, x) /\ phase[s] = "open"
    BY <1>9 DEF Send
  <2> HIDE DEF x
  <2> QED BY <1>1, <2>1, <2>2, SendsKept DEF SendOK
<1>10. ASSUME NEW s \in Subs, CloseSubscriber(p, s) PROVE SendsOK'
  BY <1>1, <1>10, SendsOver DEF CloseSubscriber, Idle
<1>11. CASE Close(p)
  BY <1>1, <1>11, SendsOver DEF Close, Idle
<1> QED BY <1>2, <1>3, <1>4, <1>5, <1>6, <1>7, <1>8, <1>9, <1>10, <1>11 DEF Call

LEMMA StepSends ==
    ASSUME IInv, SInv, SendsOK, [Next]_vars, NEW p \in Procs, Step(p) PROVE SendsOK'
<1>0. me[p] \in Locals /\ LocalOK(me[p]) /\ SendOK(me[p])
  BY LocalsTyped DEF SendsOK
<1>1. CASE CleanCanceledTask(p) \/ DropConfigs(p) \/ AddSubscriber(p) \/ CloseReturns(p)
  <2>1. CASE CleanTask(p, me[p].task)
    BY <2>1, SendsOver DEF CleanTask, RemoveTasks, Idle
  <2>2. CASE Become(p, Idle)
    BY <2>2, SendsOver DEF Idle
  <2> QED BY <1>1, <2>1, <2>2 DEF CleanCanceledTask, DropConfigs, AddSubscriber, CloseReturns
<1>2. CASE Teardown(p)
  BY <1>2, SendsOver DEF Teardown, RemoveTasks, Idle
<1>3. CASE Snapshot(p)
  <2> DEFINE x == [me[p] EXCEPT !.pc = "notify", !.todo = registered[me[p].task]]
  <2>1. me[p].pc = "snapshot" /\ Become(p, x)
    BY <1>3 DEF Snapshot, At
  <2>2. x.pc = "notify" /\ x.event = me[p].event
    BY <1>0 DEF Locals
  <2> HIDE DEF x
  <2> QED BY <1>0, <2>1, <2>2, SendsKept DEF SendOK
<1>4. CASE Accept(p) \/ Refuse(p)
  <2>1. PICK failed : Become(p, IF Direct(p) THEN Idle
                                ELSE [me[p] EXCEPT !.pc = "notify", !.sub = None, !.failed = failed])
    <3>1. CASE Accept(p)
      <4>1. [me[p] EXCEPT !.pc = "notify", !.sub = None]
              = [me[p] EXCEPT !.pc = "notify", !.sub = None, !.failed = me[p].failed]
        BY <1>0 DEF Locals
      <4> QED BY <3>1, <4>1 DEF Accept
    <3>2. CASE Refuse(p)
      BY <3>2 DEF Refuse
    <3> QED BY <1>4, <3>1, <3>2
  <2> DEFINE x == [me[p] EXCEPT !.pc = "notify", !.sub = None, !.failed = failed]
  <2>2. x.pc = "notify" /\ x.event = me[p].event
    BY <1>0 DEF Locals
  <2>3. me[p].pc = "send"
    BY <1>4 DEF Accept, Refuse, At
  <2>4. CASE Direct(p)
    BY <2>1, <2>4, SendsOver DEF Idle
  <2>5. CASE ~Direct(p)
    <3>1. Become(p, x)
      BY <2>1, <2>5
    <3> HIDE DEF x
    <3> QED BY <1>0, <2>2, <2>3, <3>1, SendsKept DEF SendOK
  <2> QED BY <2>4, <2>5
<1>5. ASSUME NEW s \in Subs, Notify(p, s) PROVE SendsOK'
  <2> DEFINE x == [me[p] EXCEPT !.pc = "send", !.todo = @ \ {s}, !.sub = s]
             y == [me[p] EXCEPT !.todo = @ \ {s}, !.failed = @ \cup {s}]
  <2>1. me[p].pc = "notify" /\ Become(p, IF phase[s] = "open" THEN x ELSE y)
    BY <1>5 DEF Notify, At
  <2>2. /\ x.pc = "send" /\ x.event = me[p].event /\ x.sub = s
        /\ y.pc = "notify" /\ y.event = me[p].event
    BY <1>0, <2>1 DEF Locals
  <2> HIDE DEF x, y
  <2>3. CASE phase[s] = "open"
    BY <1>0, <2>1, <2>2, <2>3, SendsKept DEF SendOK
  <2>4. CASE phase[s] # "open"
    BY <1>0, <2>1, <2>2, <2>4, SendsKept DEF SendOK
  <2> QED BY <2>3, <2>4
<1>6. CASE EndNotify(p)
  <2> DEFINE x == [me[p] EXCEPT !.pc = "cleanupFailed"]
             y == [me[p] EXCEPT !.pc = AfterNotify(p)]
  <2>1. Become(p, x) \/ Become(p, Idle) \/ (Become(p, y) /\ AfterNotify(p) # "idle")
    BY <1>6 DEF EndNotify
  <2>2. x.pc = "cleanupFailed" /\ y.pc = AfterNotify(p) /\ Idle.pc = "idle"
    BY <1>0 DEF Locals, Idle
  <2>3. AfterNotify(p) \in {"cleanSubs", "idle"}
    BY DEF AfterNotify
  <2> HIDE DEF x, y
  <2> QED BY <2>1, <2>2, <2>3, SendsOver
<1>7. ASSUME NEW s \in Subs, CloseSub(p, s) PROVE SendsOK'
  <2> DEFINE x == [me[p] EXCEPT !.pc = "finishClose", !.toClose = @ \ {s}, !.sub = s]
             y == [me[p] EXCEPT !.toClose = @ \ {s}]
  <2>1. me[p].pc = "close" /\ (Become(p, x) \/ Become(p, y))
    BY <1>7 DEF CloseSub, At
  <2>2. x.pc = "finishClose" /\ y.pc = me[p].pc
    BY <1>0 DEF Locals
  <2> HIDE DEF x, y
  <2> QED BY <2>1, <2>2, SendsOver
<1>8. CASE CleanupFailedSubscribers(p)
  <2> DEFINE x == [me[p] EXCEPT !.pc = "close", !.failed = {}, !.then = AfterNotify(p),
                                !.toClose = registered[me[p].task] \cap me[p].failed]
  <2>1. Become(p, x)
    BY <1>8 DEF CleanupFailedSubscribers
  <2>2. x.pc = "close"
    BY <1>0 DEF Locals
  <2> HIDE DEF x
  <2> QED BY <2>1, <2>2, SendsOver
<1>9. CASE CleanSubscribers(p)
  BY <1>9, SendsOver DEF CleanSubscribers, Idle
<1>10. CASE FinishClose(p)
  <2> DEFINE x == [me[p] EXCEPT !.pc = "close", !.sub = None]
  <2>1. Become(p, x)
    BY <1>10 DEF FinishClose
  <2>2. x.pc = "close"
    BY <1>0 DEF Locals
  <2> HIDE DEF x
  <2> QED BY <2>1, <2>2, SendsOver
<1>11. CASE EndClose(p)
  <2> DEFINE x == [me[p] EXCEPT !.pc = me[p].then, !.then = "idle"]
  <2>1. Become(p, Idle) \/ Become(p, x)
    BY <1>11 DEF EndClose
  <2>2. x.pc = me[p].then /\ me[p].then \in {"idle", "cleanSubs", "drop", "closed"} /\ Idle.pc = "idle"
    BY <1>0 DEF Locals, Idle
  <2> HIDE DEF x
  <2> QED BY <2>1, <2>2, SendsOver
<1> QED BY <1>1, <1>2, <1>3, <1>4, <1>5, <1>6, <1>7, <1>8, <1>9, <1>10, <1>11 DEF Step

LEMMA SendsStep == IInv /\ SInv /\ SendsOK /\ [Next]_vars => SendsOK'
<1> SUFFICES ASSUME IInv, SInv, SendsOK, [Next]_vars PROVE SendsOK'
  OBVIOUS
<1>1. CASE \E p \in Threads : Call(p)
  BY <1>1, CallSends
<1>2. CASE \E p \in Procs : Step(p)
  BY <1>2, StepSends
<1>3. CASE CleanExpiredTasks \/ StopCleaner
  BY <1>3, SendsOver DEF CleanExpiredTasks, StopCleaner, RemoveTasks, Procs, Idle
<1>4. CASE (\E k \in Tasks : Age(k)) \/ (\E s \in Subs : Receive(s)) \/ UNCHANGED vars
  <2>1. UNCHANGED <<me, phase>>
    BY <1>4 DEF Age, Receive, vars, streams
  <2> QED BY <2>1 DEF SendsOK, SendOK
<1> QED BY <1>1, <1>2, <1>3, <1>4 DEF Next

(* With one goroutine that updates each task, the manager keeps what TaskStreams *)
(* promises to the readers: whatever updates, subscriptions, cancels, the reaper *)
(* and Close do side by side, each step is a step of it or leaves it unchanged. *)
THEOREM ManagerKeepsPromise == ASSUME SingleWriter PROVE Spec => ImplementsTaskStreams
<1>1. Init => Promise!Init
  BY DEF Init, Promise!Init
<1>2. Init => SInv /\ SendsOK
  BY InitTells DEF Init, Idle, SendsOK, SendOK
<1>3. IInv /\ SInv /\ SendsOK /\ [Next]_vars => SInv' /\ SendsOK'
  BY StoriesStep, SendsStep
<1>4. IInv /\ SInv /\ SendsOK /\ [Next]_vars => [Promise!Next]_(Promise!vars)
  BY PromiseStep, QuietPromise
<1> QED BY <1>1, <1>2, <1>3, <1>4, Invariance, PTL
           DEF Spec, ImplementsTaskStreams, Promise!SafeSpec
=============================================================================
