----------------------- MODULE RedisTaskManager_proofs -----------------------
(***************************************************************************)
(* For any number of goroutines, tasks and streams, any queue size, failing *)
(* commands and crashes: the Redis task manager closes the streams of a     *)
(* task that is over and keeps the artifacts it stored.  With one writer for *)
(* each task a stream hands out a beginning of what was sent on it, and is   *)
(* dropped open only when it was full.                                      *)
(***************************************************************************)
EXTENDS RedisTaskManager, TLAPS

Labels == {"idle", "set", "keepCancel", "snapshot", "notify", "send", "blocked",
           "cleanupFailed", "cleanSubs", "closing", "dropCancel", "del", "add",
           "closeSub", "disconnect"}

Updates == {"update", "final", "artifact"}

(* What a goroutine does where, and what it knows there. *)
LocalOK(p, l) ==
    /\ l.pc = "idle" => l = Idle
    /\ l.pc = "set" => l.does \in Updates \cup {"build", "cancel"}
    /\ l.pc = "keepCancel" => l.does = "build"
    /\ l.pc \in {"snapshot", "notify", "cleanupFailed"} => l.does \in Updates
    /\ l.pc \in {"send", "blocked"} => l.does \in Updates \cup {"send"}
    /\ l.pc \in {"cleanSubs", "closing"} => l.does \in {"final", "cancel", "clean", "close"}
    /\ l.pc = "dropCancel" => l.does \in {"final", "clean"}
    /\ l.pc = "del" => l.does = "clean"
    /\ l.pc = "disconnect" => l.does = "close"
    /\ l.pc \in {"add", "closeSub"} => l.does = "none"
    /\ l.pc \in {"add", "closeSub", "send", "blocked"} => l.sub \in Subs
    /\ l.pc = "add" \/ l.does \notin {"none", "send", "close"} => l.task \in Tasks
    /\ l.pc = "set" /\ l.does = "artifact" => l.artifact \in Artifacts
    /\ l.does \in Updates => p \in Writers[l.task]
    /\ l.pc \in {"set", "snapshot"} => l.failed = {}

LocalsOK == \A p \in Threads : LocalOK(p, me[p])

(* A stream on a list was made for that task and has been opened; one that is *)
(* about to be added is new, and no other goroutine adds it.                 *)
Owners ==
    /\ \A k \in Tasks : \A s \in registered[k] : owner[s] = k /\ phase[s] \in {"open", "closed"}
    /\ \A s \in Subs : phase[s] = "open" => owner[s] \in Tasks
    /\ \A p \in Threads : me[p].pc = "add" => phase[me[p].sub] = "new"
    /\ \A p, q \in Threads :
          me[p].pc = "add" /\ me[q].pc = "add" /\ p # q => me[p].sub # me[q].sub
    /\ \A p \in Threads :
          me[p].pc \in {"send", "blocked", "closeSub"} => phase[me[p].sub] \in {"open", "closed"}

(* The goroutine that closes streams holds subMu, and has to close what is     *)
(* still open of its lists; one that waits for room holds the stream's lock,  *)
(* so that nobody closes it.                                                *)
Locks ==
    /\ \A p \in Threads : me[p].pc = "closing" <=> subMu = p
    /\ \A p \in Threads :
          me[p].pc = "blocked" => sender[me[p].sub] = p /\ phase[me[p].sub] = "open"
    /\ \A p \in Threads : me[p].pc = "closing" =>
          /\ \A k \in Closes(p) : \A s \in registered[k] : phase[s] = "closed" \/ s \in me[p].todo
          /\ \A s \in me[p].todo : phase[s] \in {"open", "closed"}

Base == TypeOK /\ LocalsOK /\ Owners /\ Locks

-----------------------------------------------------------------------------
(* How a goroutine moves. *)

To(p, label) == IF label = "idle" THEN Idle ELSE [me[p] EXCEPT !.pc = label]

LEMMA IdleIsLocal == Idle \in Locals /\ \A p \in Threads : LocalOK(p, Idle)
  BY DEF Idle, Locals, LocalOK, NoTask, Task, Updates

LEMMA GotoTo == ASSUME NEW p, NEW label, Goto(p, label) PROVE Become(p, To(p, label))
  BY DEF Goto, To

LEMMA ToFields ==
    ASSUME TypeOK, NEW p \in Threads, NEW label \in Labels \ {"idle"}
    PROVE  /\ To(p, label) \in Locals
           /\ To(p, label).pc = label
           /\ To(p, label).does = me[p].does
           /\ To(p, label).task = me[p].task
           /\ To(p, label).artifact = me[p].artifact
           /\ To(p, label).todo = me[p].todo
           /\ To(p, label).failed = me[p].failed
           /\ To(p, label).sub = me[p].sub
<1>1. me[p] \in Locals
  BY DEF TypeOK
<1> QED BY <1>1 DEF To, Locals, Labels

LEMMA BecomeMoves ==
    ASSUME TypeOK, NEW p \in Threads, NEW x \in Locals, Become(p, x)
    PROVE  /\ me' \in [Threads -> Locals]
           /\ me'[p] = x
           /\ \A q \in Threads : q # p => me'[q] = me[q]
<1>1. me \in [Threads -> Locals]
  BY DEF TypeOK
<1> QED BY <1>1 DEF Become

LEMMA BecomeLocalsOK ==
    ASSUME TypeOK, LocalsOK, NEW p \in Threads, NEW x \in Locals, Become(p, x), LocalOK(p, x)
    PROVE  LocalsOK'
<1>1. me'[p] = x /\ \A q \in Threads : q # p => me'[q] = me[q]
  BY BecomeMoves
<1>2. \A q \in Threads : LocalOK(q, me'[q])
  BY <1>1 DEF LocalsOK
<1> QED BY <1>2 DEF LocalsOK

LEMMA LocalsTyped == ASSUME Base PROVE \A p \in Threads : me[p] \in Locals /\ LocalOK(p, me[p])
  BY DEF Base, TypeOK, LocalsOK

-----------------------------------------------------------------------------
(* The streams may be closed and leave lists, the rest stays. *)

LEMMA OwnersFrame ==
    ASSUME Base, NEW p \in Threads, NEW x \in Locals, Become(p, x),
           UNCHANGED owner, phase' \in [Subs -> {"unused", "new", "open", "closed"}],
           \A k \in Tasks : registered'[k] \subseteq registered[k],
           \A s \in Subs : phase'[s] = phase[s]
                              \/ (phase[s] \in {"open", "closed"} /\ phase'[s] = "closed"),
           x.pc # "add",
           x.pc \in {"send", "blocked", "closeSub"} =>
               x.sub \in Subs /\ phase'[x.sub] \in {"open", "closed"}
    PROVE  Owners'
<1>1. me'[p] = x /\ \A q \in Threads : q # p => me'[q] = me[q]
  BY BecomeMoves DEF Base
<1>2. \A q \in Threads : me[q].pc \in {"add", "send", "blocked", "closeSub"} => me[q].sub \in Subs
  BY DEF Base, LocalsOK, LocalOK
<1>3. registered \in [Tasks -> SUBSET Subs]
  BY DEF Base, TypeOK
<1>4. \A k \in Tasks : \A s \in registered'[k] :
          owner'[s] = k /\ phase'[s] \in {"open", "closed"}
  BY <1>3 DEF Base, Owners
<1>5. \A s \in Subs : phase'[s] = "open" => owner'[s] \in Tasks
  BY DEF Base, Owners
<1>6. \A q \in Threads : me'[q].pc = "add" => phase'[me'[q].sub] = "new"
  BY <1>1, <1>2 DEF Base, Owners
<1>7. \A q, r \in Threads :
          me'[q].pc = "add" /\ me'[r].pc = "add" /\ q # r => me'[q].sub # me'[r].sub
  BY <1>1 DEF Base, Owners
<1>8. \A q \in Threads :
          me'[q].pc \in {"send", "blocked", "closeSub"} => phase'[me'[q].sub] \in {"open", "closed"}
  BY <1>1, <1>2 DEF Base, Owners
<1> QED BY <1>4, <1>5, <1>6, <1>7, <1>8 DEF Owners

LEMMA LocksFrame ==
    ASSUME Base, NEW p \in Threads, NEW x \in Locals, Become(p, x),
           UNCHANGED subMu, me[p].pc # "closing", x.pc # "closing",
           subMu = None \/ \A k \in Tasks : registered'[k] \subseteq registered[k],
           \A s \in Subs : phase'[s] = phase[s] \/ phase[s] \in {"unused", "new"}
                              \/ (phase[s] \in {"open", "closed"} /\ phase'[s] = "closed"),
           \A q \in Threads : q # p /\ me[q].pc = "blocked" =>
               sender'[me[q].sub] = q /\ phase'[me[q].sub] = "open",
           x.pc = "blocked" => sender'[x.sub] = p /\ phase'[x.sub] = "open"
    PROVE  Locks'
<1>1. me'[p] = x /\ \A q \in Threads : q # p => me'[q] = me[q]
  BY BecomeMoves DEF Base
<1>2. \A q \in Threads : me'[q].pc = "closing" => q # p /\ me'[q] = me[q]
  BY <1>1
<1>3. \A q \in Threads : me'[q].pc = "closing" <=> subMu' = q
  BY <1>1, <1>2 DEF Base, Locks
<1>4. \A q \in Threads :
          me'[q].pc = "blocked" => sender'[me'[q].sub] = q /\ phase'[me'[q].sub] = "open"
  BY <1>1
<1>5. ASSUME NEW q \in Threads, me'[q].pc = "closing"
      PROVE  /\ \A k \in Closes(q)' : \A s \in registered'[k] :
                    phase'[s] = "closed" \/ s \in me'[q].todo
             /\ \A s \in me'[q].todo : phase'[s] \in {"open", "closed"}
  <2>1. me'[q] = me[q] /\ me[q].pc = "closing"
    BY <1>2, <1>5
  <2>2. Closes(q)' = Closes(q)
    BY <2>1 DEF Closes
  <2>3. me[q] \in Locals /\ LocalOK(q, me[q])
    BY LocalsTyped
  <2>4. Closes(q) \subseteq Tasks /\ me[q].todo \subseteq Subs
    BY <2>1, <2>3 DEF Closes, LocalOK, Locals
  <2>5. \A k \in Tasks : registered[k] \subseteq Subs
    BY DEF Base, TypeOK
  <2>6. subMu # None
    BY <2>1, NoneAssumption DEF Base, Locks
  <2> QED BY <2>1, <2>2, <2>4, <2>5, <2>6 DEF Base, Locks
<1> QED BY <1>3, <1>4, <1>5 DEF Locks

(* A step that leaves the streams alone. *)
LEMMA QuietStep ==
    ASSUME Base, NEW p \in Threads, NEW x \in Locals, LocalOK(p, x), Become(p, x),
           UNCHANGED <<blocking, streams>>,
           connected' \in BOOLEAN, stored' \in [Tasks -> Task], cancels' \subseteq Tasks,
           acked' \in [Tasks -> SUBSET Artifacts], raced' \subseteq Tasks, silent' \subseteq Tasks,
           me[p].pc \notin {"closing", "blocked"},
           x.pc \notin {"closing", "blocked", "add"},
           x.pc \in {"send", "closeSub"} => phase[x.sub] \in {"open", "closed"}
    PROVE  Base'
<1>1. me' \in [Threads -> Locals]
  BY BecomeMoves DEF Base
<1>2. /\ UNCHANGED <<subMu, registered, owner, phase, sender, queued, story, late>>
      /\ UNCHANGED blocking
  BY DEF streams
<1>3. TypeOK'
  BY <1>1, <1>2 DEF Base, TypeOK
<1>4. LocalsOK'
  BY BecomeLocalsOK DEF Base
<1>5. x.pc \in {"send", "blocked", "closeSub"} => x.sub \in Subs
  BY DEF LocalOK
<1>6. phase' \in [Subs -> {"unused", "new", "open", "closed"}]
  BY <1>2 DEF Base, TypeOK
<1>7. Owners'
  BY <1>2, <1>5, <1>6, OwnersFrame
<1>8. \A q \in Threads : q # p /\ me[q].pc = "blocked" =>
          sender'[me[q].sub] = q /\ phase'[me[q].sub] = "open"
  BY <1>2 DEF Base, Locks
<1>9. Locks'
  BY <1>2, <1>8, LocksFrame
<1> QED BY <1>3, <1>4, <1>7, <1>9 DEF Base

-----------------------------------------------------------------------------
(* Calls, and steps that only read or write keys of Redis. *)

LEMMA IdleHolds == ASSUME Base, NEW p \in Threads, At(p, "idle") PROVE me[p].pc = "idle"
  BY DEF At

LEMMA GetKeeps ==
    ASSUME Base, NEW p \in Threads, NEW k \in Tasks,
           NEW does \in {"update", "final", "cancel"},
           does \in {"update", "final"} => p \in Writers[k],
           Get(p, k, does)
    PROVE  Base'
<1> DEFINE x == [Idle EXCEPT !.pc = "set", !.does = does, !.task = k, !.read = stored[k]]
<1>1. stored[k] \in Task
  BY DEF Base, TypeOK
<1>2. x \in Locals
  BY <1>1 DEF Idle, Locals
<1>3. LocalOK(p, x)
  BY DEF Idle, LocalOK, Updates
<1>4. Become(p, x) /\ me[p].pc = "idle" /\ UNCHANGED <<blocking, redis, cancels, streams>>
  BY DEF Get, At, Quiet
<1>5. x.pc = "set"
  BY DEF Idle
<1> QED BY <1>2, <1>3, <1>4, <1>5, QuietStep DEF Base, TypeOK, redis

LEMMA CleanTaskKeeps ==
    ASSUME Base, NEW p \in Threads, NEW k \in Tasks, CleanTask(p, k)
    PROVE  Base'
<1> DEFINE x == [Idle EXCEPT !.pc = "dropCancel", !.does = "clean", !.task = k]
<1>1. x \in Locals
  BY IdleIsLocal DEF Idle, Locals
<1>2. LocalOK(p, x)
  BY DEF Idle, LocalOK, Updates
<1>3. Become(p, x) /\ me[p].pc = "idle" /\ UNCHANGED <<blocking, redis, cancels, streams>>
  BY DEF CleanTask, At, Quiet
<1>4. x.pc = "dropCancel"
  BY DEF Idle
<1> QED BY <1>1, <1>2, <1>3, <1>4, QuietStep DEF Base, TypeOK, redis

LEMMA BuildTaskKeeps ==
    ASSUME Base, NEW p \in Threads, NEW k \in Tasks, BuildTask(p, k)
    PROVE  Base'
<1> DEFINE x == [Idle EXCEPT !.pc = "set", !.does = "build", !.task = k]
<1>1. x \in Locals
  BY IdleIsLocal DEF Idle, Locals
<1>2. LocalOK(p, x)
  BY DEF Idle, LocalOK, Updates
<1>3. Become(p, x) /\ me[p].pc = "idle" /\ UNCHANGED <<blocking, redis, cancels, streams>>
  BY DEF BuildTask, At, Quiet
<1>4. x.pc = "set"
  BY DEF Idle
<1> QED BY <1>1, <1>2, <1>3, <1>4, QuietStep DEF Base, TypeOK, redis

LEMMA AddArtifactKeeps ==
    ASSUME Base, NEW p \in Threads, NEW k \in Tasks, NEW a \in Artifacts, AddArtifact(p, k, a)
    PROVE  Base'
<1> DEFINE x == [Idle EXCEPT !.pc = "set", !.does = "artifact", !.task = k,
                             !.read = stored[k], !.artifact = a]
<1>1. stored[k] \in Task
  BY DEF Base, TypeOK
<1>2. x \in Locals
  BY <1>1 DEF Idle, Locals
<1>3. p \in Writers[k]
  BY DEF AddArtifact
<1>4. LocalOK(p, x)
  BY <1>3 DEF Idle, LocalOK, Updates
<1>5. Become(p, x) /\ me[p].pc = "idle" /\ UNCHANGED <<blocking, redis, cancels, streams>>
  BY DEF AddArtifact, At, Quiet
<1>6. x.pc = "set"
  BY DEF Idle
<1> QED BY <1>2, <1>4, <1>5, <1>6, QuietStep DEF Base, TypeOK, redis

LEMMA SendKeeps ==
    ASSUME Base, NEW p \in Threads, NEW s \in Subs, Send(p, s)
    PROVE  Base'
<1> DEFINE x == [Idle EXCEPT !.pc = "send", !.does = "send", !.sub = s]
<1>1. x \in Locals
  BY IdleIsLocal DEF Idle, Locals
<1>2. LocalOK(p, x)
  BY DEF Idle, LocalOK, Updates
<1>3. /\ Become(p, x) /\ me[p].pc = "idle" /\ UNCHANGED <<blocking, redis, cancels, streams>>
      /\ phase[s] = "open"
  BY DEF Send, At, Quiet
<1>4. x.pc = "send" /\ x.sub = s
  BY DEF Idle
<1> QED BY <1>1, <1>2, <1>3, <1>4, QuietStep DEF Base, TypeOK, redis

LEMMA CloseSubscriberKeeps ==
    ASSUME Base, NEW p \in Threads, NEW s \in Subs, CloseSubscriber(p, s)
    PROVE  Base'
<1> DEFINE x == [Idle EXCEPT !.pc = "closeSub", !.sub = s]
<1>1. x \in Locals
  BY IdleIsLocal DEF Idle, Locals
<1>2. LocalOK(p, x)
  BY DEF Idle, LocalOK, Updates
<1>3. /\ Become(p, x) /\ me[p].pc = "idle" /\ UNCHANGED <<blocking, redis, cancels, streams>>
      /\ phase[s] = "open"
  BY DEF CloseSubscriber, At, Quiet
<1>4. x.pc = "closeSub" /\ x.sub = s
  BY DEF Idle
<1> QED BY <1>1, <1>2, <1>3, <1>4, QuietStep DEF Base, TypeOK, redis

LEMMA CloseKeeps == ASSUME Base, NEW p \in Threads, Close(p) PROVE Base'
<1> DEFINE x == [Idle EXCEPT !.pc = "cleanSubs", !.does = "close"]
<1>1. x \in Locals
  BY IdleIsLocal DEF Idle, Locals
<1>2. LocalOK(p, x)
  BY DEF Idle, LocalOK, Updates
<1>3. /\ Become(p, x) /\ me[p].pc = "idle" /\ UNCHANGED <<blocking, redis, streams>>
      /\ cancels' = {}
  BY DEF Close, At
<1>4. x.pc = "cleanSubs"
  BY DEF Idle
<1> QED BY <1>1, <1>2, <1>3, <1>4, QuietStep DEF Base, TypeOK, redis

(* An operation is over. *)
LEMMA ReturnKeeps ==
    ASSUME Base, NEW p \in Threads, Goto(p, "idle"), UNCHANGED <<blocking, streams>>,
           connected' \in BOOLEAN, stored' \in [Tasks -> Task], cancels' \subseteq Tasks,
           acked' \in [Tasks -> SUBSET Artifacts], raced' \subseteq Tasks, silent' \subseteq Tasks,
           me[p].pc \notin {"closing", "blocked"}
    PROVE  Base'
<1>1. Become(p, Idle)
  BY GotoTo DEF To
<1>2. Idle.pc = "idle"
  BY DEF Idle
<1> QED BY <1>1, <1>2, IdleIsLocal, QuietStep

LEMMA CommandFailsKeeps == ASSUME Base, NEW p \in Threads, CommandFails(p) PROVE Base'
<1>1. me[p].pc \in {"set", "del"} /\ Goto(p, "idle")
      /\ UNCHANGED <<blocking, redis, cancels, streams>>
  BY DEF CommandFails, Quiet
<1> QED BY <1>1, ReturnKeeps DEF Base, TypeOK, redis

LEMMA KeepCancelKeeps == ASSUME Base, NEW p \in Threads, KeepCancel(p) PROVE Base'
<1>1. /\ me[p].pc = "keepCancel" /\ Goto(p, "idle") /\ UNCHANGED <<blocking, redis, streams>>
      /\ cancels' = cancels \cup {me[p].task}
  BY DEF KeepCancel, At
<1>2. me[p].task \in Tasks
  BY <1>1, LocalsTyped DEF LocalOK
<1> QED BY <1>1, <1>2, ReturnKeeps DEF Base, TypeOK, redis

LEMMA VanishTypes ==
    ASSUME Base, NEW k \in Tasks, Vanish(k)
    PROVE  /\ stored' \in [Tasks -> Task] /\ acked' \in [Tasks -> SUBSET Artifacts]
           /\ silent' \subseteq Tasks
           /\ UNCHANGED <<blocking, connected, raced, cancels, streams>>
<1>1. NoTask \in Task
  BY DEF NoTask, Task
<1>2. /\ stored \in [Tasks -> Task] /\ acked \in [Tasks -> SUBSET Artifacts]
      /\ silent \subseteq Tasks
  BY DEF Base, TypeOK
<1> QED BY <1>1, <1>2 DEF Vanish

LEMMA deleteTaskKeeps == ASSUME Base, NEW p \in Threads, deleteTask(p) PROVE Base'
<1>1. me[p].pc = "del" /\ Goto(p, "idle") /\ Vanish(me[p].task)
  BY DEF deleteTask, At
<1>2. me[p].task \in Tasks
  BY <1>1, LocalsTyped DEF LocalOK
<1> QED BY <1>1, <1>2, VanishTypes, ReturnKeeps DEF Base, TypeOK

LEMMA DisconnectKeeps == ASSUME Base, NEW p \in Threads, Disconnect(p) PROVE Base'
<1>1. /\ me[p].pc = "disconnect" /\ Goto(p, "idle") /\ connected' = FALSE
      /\ UNCHANGED <<blocking, stored, acked, raced, silent, cancels, streams>>
  BY DEF Disconnect, At
<1> QED BY <1>1, ReturnKeeps DEF Base, TypeOK

(* An operation goes on at a label where it knows no less than before. *)
LEMMA GotoKeeps ==
    ASSUME Base, NEW p \in Threads, NEW label \in Labels, Goto(p, label),
           label \notin {"closing", "blocked", "add", "send", "closeSub"},
           LocalOK(p, To(p, label)), UNCHANGED <<blocking, streams>>,
           connected' \in BOOLEAN, stored' \in [Tasks -> Task], cancels' \subseteq Tasks,
           acked' \in [Tasks -> SUBSET Artifacts], raced' \subseteq Tasks, silent' \subseteq Tasks,
           me[p].pc \notin {"closing", "blocked"}
    PROVE  Base'
<1>1. CASE label = "idle"
  BY <1>1, ReturnKeeps
<1>2. CASE label # "idle"
  <2>1. To(p, label) \in Locals /\ To(p, label).pc = label
    BY <1>2, ToFields DEF Base
  <2> QED BY <2>1, GotoTo, QuietStep
<1> QED BY <1>1, <1>2

LEMMA DropCancelKeeps == ASSUME Base, NEW p \in Threads, DropCancel(p) PROVE Base'
<1>1. /\ me[p].pc = "dropCancel" /\ UNCHANGED <<blocking, redis, streams>>
      /\ cancels' = cancels \ {me[p].task}
      /\ Goto(p, IF me[p].does = "clean" THEN "cleanSubs" ELSE "idle")
  BY DEF DropCancel, At
<1>2. LocalOK(p, me[p])
  BY LocalsTyped
<1>3. CASE me[p].does = "clean"
  <2>1. LocalOK(p, To(p, "cleanSubs"))
    BY <1>1, <1>2, <1>3, ToFields DEF LocalOK, Labels, Base, Updates
  <2> QED BY <1>1, <1>3, <2>1, GotoKeeps DEF Labels, Base, TypeOK, redis
<1>4. CASE me[p].does # "clean"
  BY <1>1, <1>4, ReturnKeeps DEF Base, TypeOK, redis
<1> QED BY <1>3, <1>4

LEMMA EndNotifyKeeps == ASSUME Base, NEW p \in Threads, EndNotify(p) PROVE Base'
<1> DEFINE label == IF me[p].failed # {} THEN "cleanupFailed" ELSE AfterNotify(p)
<1>1. /\ me[p].pc = "notify" /\ Goto(p, label)
      /\ UNCHANGED <<blocking, redis, cancels, streams>>
  BY DEF EndNotify, At, Quiet
<1>2. LocalOK(p, me[p])
  BY LocalsTyped
<1>3. label \in {"idle", "cleanupFailed", "cleanSubs"}
      /\ (label = "cleanSubs" => me[p].does = "final")
  BY DEF AfterNotify
<1>4. LocalOK(p, To(p, label))
  <2>1. CASE label = "idle"
    BY <2>1, IdleIsLocal DEF To
  <2>2. CASE label # "idle"
    BY <1>1, <1>2, <1>3, <2>2, ToFields DEF LocalOK, Labels, Base, Updates
  <2> QED BY <2>1, <2>2
<1> HIDE DEF label
<1> QED BY <1>1, <1>3, <1>4, GotoKeeps DEF Labels, Base, TypeOK, redis

LEMMA SnapshotKeeps == ASSUME Base, NEW p \in Threads, Snapshot(p) PROVE Base'
<1> DEFINE x == [me[p] EXCEPT !.pc = "notify", !.todo = registered[me[p].task]]
<1>1. me[p].pc = "snapshot" /\ Become(p, x) /\ UNCHANGED <<blocking, redis, cancels, streams>>
  BY DEF Snapshot, At, Quiet
<1>2. me[p] \in Locals /\ LocalOK(p, me[p])
  BY LocalsTyped
<1>3. me[p].does \in Updates /\ me[p].task \in Tasks
  BY <1>1, <1>2 DEF LocalOK, Updates
<1>4. registered[me[p].task] \in SUBSET Subs
  BY <1>3 DEF Base, TypeOK
<1>5. x \in Locals /\ x.pc = "notify"
  BY <1>2, <1>4 DEF Locals
<1>6. LocalOK(p, x)
  BY <1>1, <1>2, <1>3 DEF LocalOK, Locals, Updates
<1> QED BY <1>1, <1>5, <1>6, QuietStep DEF Base, TypeOK, redis

LEMMA NotifyKeeps ==
    ASSUME Base, NEW p \in Threads, NEW s \in Subs, Notify(p, s)
    PROVE  Base'
<1> DEFINE y == [me[p] EXCEPT !.pc = "send", !.todo = @ \ {s}, !.sub = s]
           z == [me[p] EXCEPT !.todo = @ \ {s}, !.failed = @ \cup {s}]
<1>1. /\ me[p].pc = "notify" /\ UNCHANGED <<blocking, redis, cancels, streams>>
      /\ Become(p, IF phase[s] = "open" THEN y ELSE z)
  BY DEF Notify, At, Quiet
<1>2. me[p] \in Locals /\ LocalOK(p, me[p])
  BY LocalsTyped
<1>3. y \in Locals /\ y.pc = "send" /\ y.sub = s /\ LocalOK(p, y)
  <2>1. y \in Locals
    BY <1>2 DEF Locals
  <2>2. LocalOK(p, y)
    BY <1>1, <1>2 DEF LocalOK, Locals, Updates
  <2> QED BY <1>2, <2>1, <2>2 DEF Locals
<1>4. z \in Locals /\ z.pc = "notify" /\ LocalOK(p, z)
  <2>1. z \in Locals
    BY <1>2 DEF Locals
  <2>2. LocalOK(p, z)
    BY <1>1, <1>2 DEF LocalOK, Locals, Updates
  <2> QED BY <1>1, <1>2, <2>1, <2>2 DEF Locals
<1> HIDE DEF y, z
<1>5. CASE phase[s] = "open"
  BY <1>1, <1>3, <1>5, QuietStep DEF Base, TypeOK, redis
<1>6. CASE phase[s] # "open"
  BY <1>1, <1>4, <1>6, QuietStep DEF Base, TypeOK, redis
<1> QED BY <1>5, <1>6

LEMMA storeTaskTypes ==
    ASSUME Base, NEW p \in Threads, storeTask(p) \/ SetReplyLost(p)
    PROVE  /\ me[p].task \in Tasks /\ Changed(p) \in Task
           /\ stored' \in [Tasks -> Task] /\ acked' \in [Tasks -> SUBSET Artifacts]
           /\ raced' \subseteq Tasks /\ silent' \subseteq Tasks
<1>1. me[p].pc = "set" /\ me[p] \in Locals /\ LocalOK(p, me[p]) /\ Applied(p)
  BY LocalsTyped DEF storeTask, SetReplyLost, At
<1>2. me[p].task \in Tasks /\ me[p].read \in Task
  BY <1>1 DEF LocalOK, Locals, Updates
<1>3. me[p].does = "artifact" => me[p].artifact \in Artifacts
  BY <1>1 DEF LocalOK, Updates
<1>4. Changed(p).status \in {"absent", "active", "final"}
  BY <1>2 DEF Changed, Task
<1>5. Changed(p).artifacts \subseteq Artifacts
  BY <1>2, <1>3 DEF Changed, Task
<1>6. Changed(p) \in Task
  BY <1>4, <1>5 DEF Changed, Task
<1>7. /\ stored \in [Tasks -> Task] /\ acked \in [Tasks -> SUBSET Artifacts]
      /\ raced \subseteq Tasks /\ silent \subseteq Tasks
  BY DEF Base, TypeOK
<1>8. stored' = [stored EXCEPT ![me[p].task] = Changed(p)]
  BY <1>1 DEF Applied
<1>9. \/ acked' = [acked EXCEPT ![me[p].task] = @ \cup IF me[p].does = "artifact"
                                                      THEN {me[p].artifact} ELSE {}]
      \/ acked' = acked
  BY DEF storeTask, SetReplyLost
<1>10. raced' = IF stored[me[p].task] # me[p].read THEN raced \cup {me[p].task} ELSE raced
  BY <1>1 DEF Applied
<1>11. silent' \subseteq silent \cup {me[p].task}
  BY DEF storeTask, SetReplyLost
<1> QED BY <1>2, <1>3, <1>6, <1>7, <1>8, <1>9, <1>10, <1>11

(* Where the goroutine goes when its Set is done. *)
Stored(p) == [me[p] EXCEPT !.pc = AfterSet(p), !.read = NoTask, !.artifact = None]

LEMMA StoredFields ==
    ASSUME Base, NEW p \in Threads, me[p].pc = "set"
    PROVE  /\ AfterSet(p) \in {"keepCancel", "cleanSubs", "snapshot"}
           /\ AfterSet(p) = "keepCancel" => me[p].does = "build"
           /\ AfterSet(p) = "cleanSubs" => me[p].does = "cancel"
           /\ AfterSet(p) = "snapshot" => me[p].does \in Updates
           /\ Stored(p) \in Locals /\ Stored(p).pc = AfterSet(p)
           /\ Stored(p).does = me[p].does /\ Stored(p).task = me[p].task
           /\ Stored(p).failed = me[p].failed
<1>1. me[p] \in Locals /\ LocalOK(p, me[p])
  BY LocalsTyped
<1>2. AfterSet(p) \in {"keepCancel", "cleanSubs", "snapshot"}
  BY DEF AfterSet
<1>3. /\ AfterSet(p) = "keepCancel" => me[p].does = "build"
      /\ AfterSet(p) = "cleanSubs" => me[p].does = "cancel"
      /\ AfterSet(p) = "snapshot" => me[p].does \in Updates
  BY <1>1 DEF AfterSet, LocalOK, Updates
<1>4. NoTask \in Task
  BY DEF NoTask, Task
<1>5. /\ Stored(p) \in Locals /\ Stored(p).pc = AfterSet(p)
      /\ Stored(p).does = me[p].does /\ Stored(p).task = me[p].task
      /\ Stored(p).failed = me[p].failed
  BY <1>1, <1>2, <1>4 DEF Stored, Locals
<1> QED BY <1>2, <1>3, <1>5

LEMMA storeTaskKeeps == ASSUME Base, NEW p \in Threads, storeTask(p) PROVE Base'
<1>1. /\ me[p].pc = "set" /\ Become(p, Stored(p))
      /\ UNCHANGED <<blocking, connected, cancels, streams>>
  BY DEF storeTask, At, Stored
<1>2. LocalOK(p, me[p])
  BY LocalsTyped
<1>3. LocalOK(p, Stored(p))
  BY <1>1, <1>2, StoredFields DEF LocalOK, Updates
<1>4. Stored(p) \in Locals /\ Stored(p).pc \in {"keepCancel", "cleanSubs", "snapshot"}
  BY <1>1, StoredFields
<1> QED BY <1>1, <1>3, <1>4, QuietStep, storeTaskTypes DEF Base, TypeOK

LEMMA SetReplyLostKeeps == ASSUME Base, NEW p \in Threads, SetReplyLost(p) PROVE Base'
<1>1. /\ me[p].pc = "set" /\ Goto(p, "idle")
      /\ UNCHANGED <<blocking, connected, acked, cancels, streams>>
  BY DEF SetReplyLost, At
<1> QED BY <1>1, ReturnKeeps, storeTaskTypes DEF Base, TypeOK

-----------------------------------------------------------------------------
(* The life of a stream. *)

LEMMA SubscribeTaskKeeps ==
    ASSUME Base, NEW p \in Threads, NEW k \in Tasks, NEW s \in Subs, SubscribeTask(p, k, s)
    PROVE  Base'
<1> DEFINE x == [Idle EXCEPT !.pc = "add", !.task = k, !.sub = s]
<1>1. /\ me[p].pc = "idle" /\ Become(p, x) /\ phase[s] = "unused"
      /\ phase' = [phase EXCEPT ![s] = "new"]
      /\ UNCHANGED <<blocking, redis, cancels, subMu, registered, owner, sender, queued,
                     story, late>>
  BY DEF SubscribeTask, At
<1>2. x \in Locals /\ x.pc = "add" /\ x.sub = s
  BY IdleIsLocal DEF Idle, Locals
<1>3. LocalOK(p, x)
  BY DEF Idle, LocalOK, Updates
<1> HIDE DEF x
<1>4. me' \in [Threads -> Locals] /\ me'[p] = x /\ \A q \in Threads : q # p => me'[q] = me[q]
  BY <1>1, <1>2, BecomeMoves DEF Base
<1>5. phase \in [Subs -> {"unused", "new", "open", "closed"}] /\ registered \in [Tasks -> SUBSET Subs]
  BY DEF Base, TypeOK
<1>6. phase'[s] = "new" /\ \A r \in Subs : r # s => phase'[r] = phase[r]
  BY <1>1, <1>5
<1>7. TypeOK'
  BY <1>1, <1>4, <1>5 DEF Base, TypeOK, redis
<1>8. LocalsOK'
  BY <1>1, <1>2, <1>3, BecomeLocalsOK DEF Base
<1>9. \A q \in Threads : me[q].pc \in {"add", "send", "blocked", "closeSub"} =>
          me[q].sub \in Subs /\ me[q].sub # s
  BY <1>1 DEF Base, LocalsOK, LocalOK, Owners
<1>10. Owners'
  <2>1. \A j \in Tasks : \A r \in registered'[j] : owner'[r] = j /\ phase'[r] \in {"open", "closed"}
    BY <1>1, <1>5, <1>6 DEF Base, Owners
  <2>2. \A r \in Subs : phase'[r] = "open" => owner'[r] \in Tasks
    BY <1>1, <1>6 DEF Base, Owners
  <2>3. \A q \in Threads : me'[q].pc = "add" => phase'[me'[q].sub] = "new"
    BY <1>2, <1>4, <1>6, <1>9 DEF Base, Owners
  <2>4. \A q, r \in Threads :
          me'[q].pc = "add" /\ me'[r].pc = "add" /\ q # r => me'[q].sub # me'[r].sub
    BY <1>2, <1>4, <1>9 DEF Base, Owners
  <2>5. \A q \in Threads :
          me'[q].pc \in {"send", "blocked", "closeSub"} => phase'[me'[q].sub] \in {"open", "closed"}
    BY <1>2, <1>4, <1>6, <1>9 DEF Base, Owners
  <2> QED BY <2>1, <2>2, <2>3, <2>4, <2>5 DEF Owners
<1>11. Locks'
  <2>1. \A q \in Threads : q # p /\ me[q].pc = "blocked" =>
          sender'[me[q].sub] = q /\ phase'[me[q].sub] = "open"
    BY <1>1, <1>6, <1>9 DEF Base, Locks
  <2>2. \A r \in Subs : phase'[r] = phase[r] \/ phase[r] \in {"unused", "new"}
    BY <1>1, <1>6
  <2> QED BY <1>1, <1>2, <2>1, <2>2, LocksFrame
<1> QED BY <1>7, <1>8, <1>10, <1>11 DEF Base

LEMMA addSubscriberEffect ==
    ASSUME Base, NEW p \in Threads, addSubscriber(p)
    PROVE  /\ me[p].pc = "add" /\ me[p].task \in Tasks /\ me[p].sub \in Subs
           /\ phase[me[p].sub] = "new" /\ subMu = None
           /\ me' \in [Threads -> Locals] /\ me'[p] = Idle
           /\ \A q \in Threads : q # p => me'[q] = me[q]
           /\ registered' \in [Tasks -> SUBSET Subs]
           /\ registered'[me[p].task] = registered[me[p].task] \cup {me[p].sub}
           /\ \A k \in Tasks : k # me[p].task => registered'[k] = registered[k]
           /\ owner' \in [Subs -> Tasks \cup {None}] /\ owner'[me[p].sub] = me[p].task
           /\ phase' \in [Subs -> {"unused", "new", "open", "closed"}]
           /\ phase'[me[p].sub] = "open"
           /\ \A s \in Subs : s # me[p].sub => owner'[s] = owner[s] /\ phase'[s] = phase[s]
           /\ late' \subseteq Subs /\ late \subseteq late'
           /\ stored[me[p].task].status # "active" => me[p].sub \in late'
           /\ UNCHANGED <<blocking, redis, cancels, subMu, sender, queued, story>>
<1> DEFINE k == me[p].task
           s == me[p].sub
<1>1. me[p].pc = "add" /\ subMu = None /\ Goto(p, "idle")
  BY DEF addSubscriber, At
<1>2. /\ registered' = [registered EXCEPT ![k] = @ \cup {s}]
      /\ owner' = [owner EXCEPT ![s] = k]
      /\ phase' = [phase EXCEPT ![s] = "open"]
      /\ late' = IF stored[k].status = "active" THEN late ELSE late \cup {s}
      /\ UNCHANGED <<blocking, redis, cancels, subMu, sender, queued, story>>
  BY DEF addSubscriber
<1>3. k \in Tasks /\ s \in Subs
  BY <1>1, LocalsTyped DEF LocalOK
<1>4. phase[s] = "new"
  BY <1>1 DEF Base, Owners
<1>5. Become(p, Idle)
  BY <1>1, GotoTo DEF To
<1>6. /\ me' \in [Threads -> Locals] /\ me'[p] = Idle
      /\ \A q \in Threads : q # p => me'[q] = me[q]
  BY <1>5, IdleIsLocal, BecomeMoves DEF Base
<1>7. /\ registered \in [Tasks -> SUBSET Subs] /\ owner \in [Subs -> Tasks \cup {None}]
      /\ phase \in [Subs -> {"unused", "new", "open", "closed"}] /\ late \subseteq Subs
  BY DEF Base, TypeOK
<1> HIDE DEF k, s
<1>8. /\ registered' \in [Tasks -> SUBSET Subs] /\ registered'[k] = registered[k] \cup {s}
      /\ \A j \in Tasks : j # k => registered'[j] = registered[j]
  BY <1>2, <1>3, <1>7
<1>9. /\ owner' \in [Subs -> Tasks \cup {None}] /\ owner'[s] = k
      /\ phase' \in [Subs -> {"unused", "new", "open", "closed"}] /\ phase'[s] = "open"
      /\ \A r \in Subs : r # s => owner'[r] = owner[r] /\ phase'[r] = phase[r]
  BY <1>2, <1>3, <1>7
<1>10. /\ late' \subseteq Subs /\ late \subseteq late'
       /\ stored[k].status # "active" => s \in late'
  BY <1>2, <1>3, <1>7
<1> USE DEF k, s
<1> QED BY <1>1, <1>2, <1>3, <1>4, <1>6, <1>8, <1>9, <1>10

LEMMA addSubscriberKeeps == ASSUME Base, NEW p \in Threads, addSubscriber(p) PROVE Base'
<1> DEFINE s == me[p].sub
<1>1. /\ me[p].pc = "add" /\ me[p].task \in Tasks /\ s \in Subs /\ phase[s] = "new" /\ subMu = None
      /\ me' \in [Threads -> Locals] /\ me'[p] = Idle
      /\ \A q \in Threads : q # p => me'[q] = me[q]
      /\ UNCHANGED <<blocking, redis, cancels, subMu, sender, queued, story>>
  BY addSubscriberEffect
<1>2. /\ registered' \in [Tasks -> SUBSET Subs]
      /\ registered'[me[p].task] = registered[me[p].task] \cup {s}
      /\ \A k \in Tasks : k # me[p].task => registered'[k] = registered[k]
  BY addSubscriberEffect
<1>3. /\ owner' \in [Subs -> Tasks \cup {None}] /\ owner'[s] = me[p].task
      /\ phase' \in [Subs -> {"unused", "new", "open", "closed"}] /\ phase'[s] = "open"
      /\ \A r \in Subs : r # s => owner'[r] = owner[r] /\ phase'[r] = phase[r]
      /\ late' \subseteq Subs
  BY addSubscriberEffect
<1>4. Become(p, Idle)
  BY GotoTo DEF addSubscriber, To
<1>5. TypeOK'
  BY <1>1, <1>2, <1>3 DEF Base, TypeOK, redis
<1>6. LocalsOK'
  BY <1>4, IdleIsLocal, BecomeLocalsOK DEF Base
<1>7. Idle.pc = "idle"
  BY DEF Idle
<1> HIDE DEF s
<1>8. \A q \in Threads : q # p /\ me[q].pc \in {"add", "send", "blocked", "closeSub"} =>
          me[q].sub \in Subs /\ me[q].sub # s
  <2>1. \A q \in Threads : q # p /\ me[q].pc \in {"send", "blocked", "closeSub"} =>
          me[q].sub \in Subs /\ me[q].sub # s
    BY <1>1 DEF Base, LocalsOK, LocalOK, Owners
  <2>2. \A q \in Threads : q # p /\ me[q].pc = "add" => me[q].sub \in Subs /\ me[q].sub # s
    BY <1>1 DEF Base, LocalsOK, LocalOK, Owners, s
  <2> QED BY <2>1, <2>2
<1>9. registered \in [Tasks -> SUBSET Subs]
  BY DEF Base, TypeOK
<1>10. Owners'
  <2>1. \A j \in Tasks : \A r \in registered[j] : r # s
    BY <1>1, <1>9 DEF Base, Owners
  <2>2. \A j \in Tasks : \A r \in registered'[j] : owner'[r] = j /\ phase'[r] \in {"open", "closed"}
    BY <1>1, <1>2, <1>3, <1>9, <2>1 DEF Base, Owners
  <2>3. \A r \in Subs : phase'[r] = "open" => owner'[r] \in Tasks
    BY <1>1, <1>3 DEF Base, Owners
  <2>4. \A q \in Threads : me'[q].pc = "add" => phase'[me'[q].sub] = "new"
    BY <1>1, <1>3, <1>7, <1>8 DEF Base, Owners
  <2>5. \A q, r \in Threads :
          me'[q].pc = "add" /\ me'[r].pc = "add" /\ q # r => me'[q].sub # me'[r].sub
    BY <1>1, <1>7 DEF Base, Owners
  <2>6. \A q \in Threads :
          me'[q].pc \in {"send", "blocked", "closeSub"} => phase'[me'[q].sub] \in {"open", "closed"}
    BY <1>1, <1>3, <1>7, <1>8 DEF Base, Owners
  <2> QED BY <2>2, <2>3, <2>4, <2>5, <2>6 DEF Owners
<1>11. Locks'
  <2>1. \A q \in Threads : q # p /\ me[q].pc = "blocked" =>
          sender'[me[q].sub] = q /\ phase'[me[q].sub] = "open"
    BY <1>1, <1>3, <1>8 DEF Base, Locks
  <2>2. \A r \in Subs : phase'[r] = phase[r] \/ phase[r] \in {"unused", "new"}
    BY <1>1, <1>3
  <2> QED BY <1>1, <1>4, <1>7, <2>1, <2>2, IdleIsLocal, LocksFrame
<1> QED BY <1>5, <1>6, <1>10, <1>11 DEF Base

LEMMA CloseOwnKeeps == ASSUME Base, NEW p \in Threads, CloseOwn(p) PROVE Base'
<1> DEFINE s == me[p].sub
<1>1. /\ me[p].pc = "closeSub" /\ sender[s] = None /\ Goto(p, "idle")
      /\ phase' = [phase EXCEPT ![s] = "closed"]
      /\ UNCHANGED <<blocking, redis, cancels, subMu, registered, owner, sender, queued,
                     story, late>>
  BY DEF CloseOwn, At
<1>2. s \in Subs /\ phase[s] \in {"open", "closed"}
  BY <1>1, LocalsTyped DEF LocalOK, Base, Owners
<1>3. Become(p, Idle) /\ Idle.pc = "idle"
  BY <1>1, GotoTo DEF To, Idle
<1>4. me' \in [Threads -> Locals]
  BY <1>3, IdleIsLocal, BecomeMoves DEF Base
<1> HIDE DEF s
<1>5. phase \in [Subs -> {"unused", "new", "open", "closed"}]
  BY DEF Base, TypeOK
<1>6. /\ phase' \in [Subs -> {"unused", "new", "open", "closed"}]
      /\ phase'[s] = "closed" /\ \A r \in Subs : r # s => phase'[r] = phase[r]
  BY <1>1, <1>2, <1>5
<1>7. \A r \in Subs : phase'[r] = phase[r] \/ (phase[r] \in {"open", "closed"} /\ phase'[r] = "closed")
  BY <1>2, <1>6
<1>8. TypeOK'
  BY <1>1, <1>4, <1>6 DEF Base, TypeOK, redis
<1>9. LocalsOK'
  BY <1>3, IdleIsLocal, BecomeLocalsOK DEF Base
<1>10. Owners'
  BY <1>1, <1>3, <1>6, <1>7, IdleIsLocal, OwnersFrame
<1>11. \A q \in Threads : q # p /\ me[q].pc = "blocked" =>
          sender'[me[q].sub] = q /\ phase'[me[q].sub] = "open"
  BY <1>1, <1>6, NoneAssumption DEF Base, Locks, LocalsOK, LocalOK
<1>12. Locks'
  BY <1>1, <1>3, <1>7, <1>11, IdleIsLocal, LocksFrame
<1> QED BY <1>8, <1>9, <1>10, <1>12 DEF Base

(* The reader, and the expiry of a key. *)
LEMMA OthersKeep ==
    ASSUME Base, UNCHANGED <<me, blocking, connected, cancels, raced>>,
           UNCHANGED <<subMu, registered, owner, phase, sender, story, late>>,
           stored' \in [Tasks -> Task], acked' \in [Tasks -> SUBSET Artifacts],
           silent' \subseteq Tasks, queued' \in [Subs -> 0 .. BufSize]
    PROVE  Base'
<1>1. TypeOK'
  BY DEF Base, TypeOK
<1>2. LocalsOK' /\ Owners' /\ Locks'
  BY DEF Base, LocalsOK, LocalOK, Owners, Locks, Closes
<1> QED BY <1>1, <1>2 DEF Base

LEMMA ReceiveKeeps == ASSUME Base, NEW s \in Subs, Receive(s) PROVE Base'
<1>1. queued \in [Subs -> 0 .. BufSize]
  BY DEF Base, TypeOK
<1>2. queued[s] > 0 /\ queued' = [queued EXCEPT ![s] = @ - 1]
  BY DEF Receive
<1>3. queued[s] - 1 \in 0 .. BufSize
  BY <1>1, <1>2, BufSizeAssumption
<1>4. queued' \in [Subs -> 0 .. BufSize]
  BY <1>1, <1>2, <1>3
<1>5. UNCHANGED <<me, blocking, connected, cancels, raced, silent, stored, acked>>
      /\ UNCHANGED <<subMu, registered, owner, phase, sender, story, late>>
  BY DEF Receive, redis
<1> QED BY <1>4, <1>5, OthersKeep DEF Base, TypeOK

LEMMA ExpireTaskKeeps == ASSUME Base, NEW k \in Tasks, ExpireTask(k) PROVE Base'
<1>1. Vanish(k) /\ UNCHANGED me
  BY DEF ExpireTask
<1> QED BY <1>1, VanishTypes, OthersKeep DEF Base, TypeOK, streams

-----------------------------------------------------------------------------
(* Sends. *)

AfterSend(p, failed) ==
    IF Direct(p) THEN Idle
    ELSE [me[p] EXCEPT !.pc = "notify", !.sub = None, !.failed = @ \cup failed]

LEMMA AfterSendOK ==
    ASSUME Base, NEW p \in Threads, me[p].pc \in {"send", "blocked"}, NEW failed \in SUBSET Subs
    PROVE  /\ AfterSend(p, failed) \in Locals /\ LocalOK(p, AfterSend(p, failed))
           /\ AfterSend(p, failed).pc \in {"idle", "notify"}
<1>1. me[p] \in Locals /\ LocalOK(p, me[p])
  BY LocalsTyped
<1>2. CASE Direct(p)
  BY <1>2, IdleIsLocal DEF AfterSend, Idle
<1>3. CASE ~Direct(p)
  <2> DEFINE x == [me[p] EXCEPT !.pc = "notify", !.sub = None, !.failed = @ \cup failed]
  <2>1. x \in Locals /\ x.pc = "notify"
    BY <1>1 DEF Locals
  <2>2. me[p].does \in Updates
    BY <1>1, <1>3 DEF LocalOK, Direct
  <2>3. LocalOK(p, x)
    BY <1>1, <2>2 DEF LocalOK, Locals, Updates
  <2> QED BY <1>3, <2>1, <2>3 DEF AfterSend
<1> QED BY <1>2, <1>3

LEMMA AcceptEffect ==
    ASSUME Base, NEW p \in Threads, Accept(p)
    PROVE  /\ me[p].pc \in {"send", "blocked"} /\ me[p].sub \in Subs
           /\ phase[me[p].sub] = "open"
           /\ me[p].pc = "send" => sender[me[p].sub] = None
           /\ Become(p, AfterSend(p, {}))
           /\ queued' \in [Subs -> 0 .. BufSize]
           /\ sender' \in [Subs -> Threads \cup {None}] /\ sender'[me[p].sub] = None
           /\ story' \in [Subs -> {"none", "update", "final", "missed", "afterFinal", "gap"}]
           /\ story'[me[p].sub] = IF Direct(p) THEN story[me[p].sub]
                                  ELSE Follow(story[me[p].sub], me[p].does)
           /\ \A s \in Subs : s # me[p].sub => sender'[s] = sender[s] /\ story'[s] = story[s]
           /\ UNCHANGED <<blocking, redis, cancels, subMu, registered, owner, phase, late>>
<1> DEFINE s == me[p].sub
<1>1. me[p].pc \in {"send", "blocked"} /\ (me[p].pc = "send" => sender[s] = None /\ phase[s] = "open")
  BY DEF Accept, At
<1>2. s \in Subs
  BY <1>1, LocalsTyped DEF LocalOK
<1>3. phase[s] = "open"
  BY <1>1 DEF Base, Locks
<1>4. /\ queued[s] < BufSize
      /\ queued' = [queued EXCEPT ![s] = @ + 1]
      /\ sender' = [sender EXCEPT ![s] = None]
      /\ story' = [story EXCEPT ![s] = IF Direct(p) THEN @ ELSE Follow(@, me[p].does)]
      /\ UNCHANGED <<blocking, redis, cancels, subMu, registered, owner, phase, late>>
  BY DEF Accept
<1>5. Become(p, AfterSend(p, {}))
  BY DEF Accept, Sent, AfterSend
<1> HIDE DEF s
<1>6. /\ queued \in [Subs -> 0 .. BufSize] /\ sender \in [Subs -> Threads \cup {None}]
      /\ story \in [Subs -> {"none", "update", "final", "missed", "afterFinal", "gap"}]
  BY DEF Base, TypeOK
<1>7. queued[s] + 1 \in 0 .. BufSize
  BY <1>2, <1>4, <1>6, BufSizeAssumption
<1>8. queued' \in [Subs -> 0 .. BufSize]
  BY <1>2, <1>4, <1>6, <1>7
<1>9. /\ sender' \in [Subs -> Threads \cup {None}] /\ sender'[s] = None
      /\ \A r \in Subs : r # s => sender'[r] = sender[r]
  BY <1>2, <1>4, <1>6
<1>10. Follow(story[s], me[p].does) \in {"none", "update", "final", "missed", "afterFinal", "gap"}
  BY DEF Follow
<1>11. /\ story' \in [Subs -> {"none", "update", "final", "missed", "afterFinal", "gap"}]
       /\ story'[s] = IF Direct(p) THEN story[s] ELSE Follow(story[s], me[p].does)
       /\ \A r \in Subs : r # s => story'[r] = story[r]
  <2>1. (IF Direct(p) THEN story[s] ELSE Follow(story[s], me[p].does))
            \in {"none", "update", "final", "missed", "afterFinal", "gap"}
    BY <1>2, <1>6, <1>10
  <2> QED BY <1>2, <1>4, <1>6, <2>1
<1> QED BY <1>1, <1>2, <1>3, <1>4, <1>5, <1>8, <1>9, <1>11 DEF s

LEMMA AcceptKeeps == ASSUME Base, NEW p \in Threads, Accept(p) PROVE Base'
<1> DEFINE x == AfterSend(p, {})
<1>1. /\ me[p].pc \in {"send", "blocked"} /\ me[p].sub \in Subs /\ Become(p, x)
      /\ me[p].pc = "send" => sender[me[p].sub] = None
      /\ UNCHANGED <<blocking, redis, cancels, subMu, registered, owner, phase, late>>
  BY AcceptEffect
<1>2. /\ queued' \in [Subs -> 0 .. BufSize] /\ sender' \in [Subs -> Threads \cup {None}]
      /\ story' \in [Subs -> {"none", "update", "final", "missed", "afterFinal", "gap"}]
      /\ \A s \in Subs : s # me[p].sub => sender'[s] = sender[s]
  BY AcceptEffect
<1>3. x \in Locals /\ LocalOK(p, x) /\ x.pc \in {"idle", "notify"}
  BY <1>1, AfterSendOK
<1> HIDE DEF x
<1>4. me' \in [Threads -> Locals]
  BY <1>1, <1>3, BecomeMoves DEF Base
<1>5. TypeOK'
  BY <1>1, <1>2, <1>4 DEF Base, TypeOK, redis
<1>6. LocalsOK'
  BY <1>1, <1>3, BecomeLocalsOK DEF Base
<1>7. Owners'
  BY <1>1, <1>3, OwnersFrame DEF Base, TypeOK
<1>8. \A q \in Threads : q # p /\ me[q].pc = "blocked" =>
          sender'[me[q].sub] = q /\ phase'[me[q].sub] = "open"
  <2> SUFFICES ASSUME NEW q \in Threads, q # p, me[q].pc = "blocked"
               PROVE  sender'[me[q].sub] = q /\ phase'[me[q].sub] = "open"
    OBVIOUS
  <2>1. sender[me[q].sub] = q /\ phase[me[q].sub] = "open" /\ me[q].sub \in Subs
    BY LocalsTyped DEF LocalOK, Base, Locks
  <2>2. me[q].sub # me[p].sub
    BY <1>1, <2>1, NoneAssumption DEF Base, Locks
  <2> QED BY <1>1, <1>2, <2>1, <2>2
<1>9. Locks'
  BY <1>1, <1>3, <1>8, LocksFrame
<1> QED BY <1>5, <1>6, <1>7, <1>9 DEF Base

LEMMA RefuseEffect ==
    ASSUME Base, NEW p \in Threads, Refuse(p)
    PROVE  /\ me[p].pc = "send" /\ me[p].sub \in Subs
           /\ phase[me[p].sub] \in {"open", "closed"}
           /\ Become(p, AfterSend(p, {me[p].sub}))
           /\ story' \in [Subs -> {"none", "update", "final", "missed", "afterFinal", "gap"}]
           /\ story'[me[p].sub] = IF Direct(p) \/ phase[me[p].sub] = "closed"
                                        \/ story[me[p].sub] \in {"afterFinal", "gap"}
                                  THEN story[me[p].sub] ELSE "missed"
           /\ \A s \in Subs : s # me[p].sub => story'[s] = story[s]
           /\ UNCHANGED <<blocking, redis, cancels, subMu, registered, owner, phase, sender,
                          queued, late>>
<1> DEFINE s == me[p].sub
<1>1. me[p].pc = "send"
  BY DEF Refuse, At
<1>2. s \in Subs /\ phase[s] \in {"open", "closed"}
  BY <1>1, LocalsTyped DEF LocalOK, Base, Owners
<1>3. /\ story' = [story EXCEPT ![s] =
                    IF Direct(p) \/ phase[s] = "closed" \/ @ \in {"afterFinal", "gap"}
                    THEN @ ELSE "missed"]
      /\ UNCHANGED <<blocking, redis, cancels, subMu, registered, owner, phase, sender,
                     queued, late>>
  BY DEF Refuse
<1>4. Become(p, AfterSend(p, {s}))
  BY DEF Refuse, Sent, AfterSend
<1> HIDE DEF s
<1>5. story \in [Subs -> {"none", "update", "final", "missed", "afterFinal", "gap"}]
  BY DEF Base, TypeOK
<1>6. /\ story' \in [Subs -> {"none", "update", "final", "missed", "afterFinal", "gap"}]
      /\ story'[s] = IF Direct(p) \/ phase[s] = "closed" \/ story[s] \in {"afterFinal", "gap"}
                     THEN story[s] ELSE "missed"
      /\ \A r \in Subs : r # s => story'[r] = story[r]
  BY <1>2, <1>3, <1>5
<1> QED BY <1>1, <1>2, <1>3, <1>4, <1>6 DEF s

LEMMA RefuseKeeps == ASSUME Base, NEW p \in Threads, Refuse(p) PROVE Base'
<1> DEFINE x == AfterSend(p, {me[p].sub})
<1>1. /\ me[p].pc = "send" /\ me[p].sub \in Subs /\ Become(p, x)
      /\ UNCHANGED <<blocking, redis, cancels, subMu, registered, owner, phase, sender,
                     queued, late>>
      /\ story' \in [Subs -> {"none", "update", "final", "missed", "afterFinal", "gap"}]
  BY RefuseEffect
<1>2. x \in Locals /\ LocalOK(p, x) /\ x.pc \in {"idle", "notify"}
  BY <1>1, AfterSendOK
<1> HIDE DEF x
<1>3. me' \in [Threads -> Locals]
  BY <1>1, <1>2, BecomeMoves DEF Base
<1>4. TypeOK'
  BY <1>1, <1>3 DEF Base, TypeOK, redis
<1>5. LocalsOK'
  BY <1>1, <1>2, BecomeLocalsOK DEF Base
<1>6. Owners'
  BY <1>1, <1>2, OwnersFrame DEF Base, TypeOK
<1>7. \A q \in Threads : q # p /\ me[q].pc = "blocked" =>
          sender'[me[q].sub] = q /\ phase'[me[q].sub] = "open"
  BY <1>1 DEF Base, Locks
<1>8. Locks'
  BY <1>1, <1>2, <1>7, LocksFrame
<1> QED BY <1>4, <1>5, <1>6, <1>8 DEF Base

LEMMA BlockEffect ==
    ASSUME Base, NEW p \in Threads, Block(p)
    PROVE  /\ me[p].pc = "send" /\ me[p].sub \in Subs
           /\ sender[me[p].sub] = None /\ phase[me[p].sub] = "open"
           /\ Become(p, To(p, "blocked"))
           /\ To(p, "blocked") \in Locals /\ LocalOK(p, To(p, "blocked"))
           /\ sender' \in [Subs -> Threads \cup {None}] /\ sender'[me[p].sub] = p
           /\ \A s \in Subs : s # me[p].sub => sender'[s] = sender[s]
           /\ UNCHANGED <<blocking, redis, cancels, subMu, registered, owner, phase, queued,
                          story, late>>
<1>1. /\ me[p].pc = "send" /\ sender[me[p].sub] = None /\ phase[me[p].sub] = "open"
      /\ sender' = [sender EXCEPT ![me[p].sub] = p]
      /\ Goto(p, "blocked")
      /\ UNCHANGED <<blocking, redis, cancels, subMu, registered, owner, phase, queued,
                     story, late>>
  BY DEF Block, At
<1>2. LocalOK(p, me[p]) /\ me[p].sub \in Subs
  BY <1>1, LocalsTyped DEF LocalOK
<1>3. To(p, "blocked") \in Locals /\ LocalOK(p, To(p, "blocked"))
  BY <1>1, <1>2, ToFields DEF LocalOK, Labels, Base, Updates
<1>4. sender \in [Subs -> Threads \cup {None}]
  BY DEF Base, TypeOK
<1>5. /\ sender' \in [Subs -> Threads \cup {None}] /\ sender'[me[p].sub] = p
      /\ \A s \in Subs : s # me[p].sub => sender'[s] = sender[s]
  BY <1>1, <1>2, <1>4
<1> QED BY <1>1, <1>2, <1>3, <1>5, GotoTo

LEMMA BlockKeeps == ASSUME Base, NEW p \in Threads, Block(p) PROVE Base'
<1> DEFINE x == To(p, "blocked")
<1>1. /\ me[p].pc = "send" /\ me[p].sub \in Subs
      /\ sender[me[p].sub] = None /\ phase[me[p].sub] = "open"
      /\ Become(p, x) /\ x \in Locals /\ LocalOK(p, x)
  BY BlockEffect
<1>2. /\ sender' \in [Subs -> Threads \cup {None}] /\ sender'[me[p].sub] = p
      /\ \A s \in Subs : s # me[p].sub => sender'[s] = sender[s]
      /\ UNCHANGED <<blocking, redis, cancels, subMu, registered, owner, phase, queued,
                     story, late>>
  BY BlockEffect
<1>3. x.pc = "blocked" /\ x.sub = me[p].sub
  BY ToFields DEF Base, Labels
<1> HIDE DEF x
<1>4. me' \in [Threads -> Locals]
  BY <1>1, BecomeMoves DEF Base
<1>5. TypeOK'
  BY <1>2, <1>4 DEF Base, TypeOK, redis
<1>6. LocalsOK'
  BY <1>1, BecomeLocalsOK DEF Base
<1>7. Owners'
  BY <1>1, <1>2, <1>3, OwnersFrame DEF Base, TypeOK
<1>8. \A q \in Threads : q # p /\ me[q].pc = "blocked" =>
          sender'[me[q].sub] = q /\ phase'[me[q].sub] = "open"
  <2> SUFFICES ASSUME NEW q \in Threads, q # p, me[q].pc = "blocked"
               PROVE  sender'[me[q].sub] = q /\ phase'[me[q].sub] = "open"
    OBVIOUS
  <2>1. sender[me[q].sub] = q /\ phase[me[q].sub] = "open" /\ me[q].sub \in Subs
    BY LocalsTyped DEF LocalOK, Base, Locks
  <2>2. me[q].sub # me[p].sub
    BY <1>1, <2>1, NoneAssumption
  <2> QED BY <1>2, <2>1, <2>2
<1>9. Locks'
  BY <1>1, <1>2, <1>3, <1>8, LocksFrame
<1> QED BY <1>5, <1>6, <1>7, <1>9 DEF Base

-----------------------------------------------------------------------------
(* The cleanups. *)

LEMMA cleanupFailedEffect ==
    ASSUME Base, NEW p \in Threads, cleanupFailedSubscribers(p)
    PROVE  /\ me[p].pc = "cleanupFailed" /\ me[p].task \in Tasks /\ subMu = None
           /\ me[p].does \in Updates
           /\ Become(p, To(p, AfterNotify(p)))
           /\ To(p, AfterNotify(p)) \in Locals /\ LocalOK(p, To(p, AfterNotify(p)))
           /\ To(p, AfterNotify(p)).pc = AfterNotify(p)
           /\ registered' \in [Tasks -> SUBSET Subs]
           /\ registered'[me[p].task] = registered[me[p].task] \ me[p].failed
           /\ \A k \in Tasks : k # me[p].task => registered'[k] = registered[k]
           /\ UNCHANGED <<blocking, redis, cancels, subMu, owner, phase, sender, queued, story,
                          late>>
<1>1. /\ me[p].pc = "cleanupFailed" /\ subMu = None
      /\ registered' = [registered EXCEPT ![me[p].task] = @ \ me[p].failed]
      /\ Goto(p, AfterNotify(p))
      /\ UNCHANGED <<blocking, redis, cancels, subMu, owner, phase, sender, queued, story,
                     late>>
  BY DEF cleanupFailedSubscribers, At
<1>2. LocalOK(p, me[p])
  BY LocalsTyped
<1>3. me[p].does \in Updates /\ me[p].task \in Tasks
  BY <1>1, <1>2 DEF LocalOK, Updates
<1>4. AfterNotify(p) \in {"idle", "cleanSubs"} /\ (AfterNotify(p) = "cleanSubs" => me[p].does = "final")
  BY DEF AfterNotify
<1>5. /\ To(p, AfterNotify(p)) \in Locals /\ LocalOK(p, To(p, AfterNotify(p)))
      /\ To(p, AfterNotify(p)).pc = AfterNotify(p)
  <2>1. CASE AfterNotify(p) = "idle"
    BY <2>1, IdleIsLocal DEF To, Idle
  <2>2. CASE AfterNotify(p) = "cleanSubs"
    BY <1>1, <1>2, <1>4, <2>2, ToFields DEF LocalOK, Labels, Base, Updates
  <2> QED BY <1>4, <2>1, <2>2
<1>6. registered \in [Tasks -> SUBSET Subs]
  BY DEF Base, TypeOK
<1>7. /\ registered' \in [Tasks -> SUBSET Subs]
      /\ registered'[me[p].task] = registered[me[p].task] \ me[p].failed
      /\ \A k \in Tasks : k # me[p].task => registered'[k] = registered[k]
  BY <1>1, <1>3, <1>6
<1> QED BY <1>1, <1>3, <1>5, <1>7, GotoTo

LEMMA cleanupFailedKeeps ==
    ASSUME Base, NEW p \in Threads, cleanupFailedSubscribers(p)
    PROVE  Base'
<1> DEFINE x == To(p, AfterNotify(p))
<1>1. /\ me[p].pc = "cleanupFailed" /\ subMu = None
      /\ Become(p, x) /\ x \in Locals /\ LocalOK(p, x) /\ x.pc = AfterNotify(p)
      /\ registered' \in [Tasks -> SUBSET Subs]
      /\ \A k \in Tasks : registered'[k] \subseteq registered[k]
      /\ UNCHANGED <<blocking, redis, cancels, subMu, owner, phase, sender, queued, story,
                     late>>
  BY cleanupFailedEffect
<1>2. x.pc \in {"idle", "cleanSubs"}
  BY <1>1 DEF AfterNotify
<1> HIDE DEF x
<1>3. me' \in [Threads -> Locals]
  BY <1>1, BecomeMoves DEF Base
<1>4. TypeOK'
  BY <1>1, <1>3 DEF Base, TypeOK, redis
<1>5. LocalsOK'
  BY <1>1, BecomeLocalsOK DEF Base
<1>6. Owners'
  BY <1>1, <1>2, OwnersFrame DEF Base, TypeOK
<1>7. \A q \in Threads : q # p /\ me[q].pc = "blocked" =>
          sender'[me[q].sub] = q /\ phase'[me[q].sub] = "open"
  BY <1>1 DEF Base, Locks
<1>8. Locks'
  BY <1>1, <1>2, <1>7, LocksFrame
<1> QED BY <1>4, <1>5, <1>6, <1>8 DEF Base

LEMMA cleanSubscribersEffect ==
    ASSUME Base, NEW p \in Threads, cleanSubscribers(p)
    PROVE  LET x == [me[p] EXCEPT !.pc = "closing",
                                  !.todo = UNION {registered[k] : k \in Closes(p)}] IN
           /\ me[p].pc = "cleanSubs" /\ subMu = None /\ subMu' = p
           /\ Become(p, x) /\ x \in Locals /\ LocalOK(p, x) /\ x.pc = "closing"
           /\ x.does = me[p].does /\ x.task = me[p].task
           /\ x.todo = UNION {registered[k] : k \in Closes(p)}
           /\ Closes(p) \subseteq Tasks
           /\ UNCHANGED <<blocking, redis, cancels, registered, owner, phase, sender, queued,
                          story, late>>
<1> DEFINE todo == UNION {registered[k] : k \in Closes(p)}
           x == [me[p] EXCEPT !.pc = "closing", !.todo = todo]
<1>1. /\ me[p].pc = "cleanSubs" /\ subMu = None /\ subMu' = p /\ Become(p, x)
      /\ UNCHANGED <<blocking, redis, cancels, registered, owner, phase, sender, queued,
                     story, late>>
  BY DEF cleanSubscribers, At
<1>2. me[p] \in Locals /\ LocalOK(p, me[p])
  BY LocalsTyped
<1>3. Closes(p) \subseteq Tasks
  BY <1>1, <1>2 DEF Closes, LocalOK
<1>4. todo \in SUBSET Subs
  BY <1>3 DEF Base, TypeOK
<1> HIDE DEF todo
<1>5. x \in Locals /\ x.pc = "closing" /\ x.does = me[p].does /\ x.task = me[p].task /\ x.todo = todo
  BY <1>2, <1>4 DEF Locals
<1>6. LocalOK(p, x)
  BY <1>1, <1>2 DEF LocalOK, Locals, Updates
<1> USE DEF todo
<1> QED BY <1>1, <1>3, <1>5, <1>6

LEMMA cleanSubscribersKeeps ==
    ASSUME Base, NEW p \in Threads, cleanSubscribers(p)
    PROVE  Base'
<1> DEFINE todo == UNION {registered[k] : k \in Closes(p)}
           x == [me[p] EXCEPT !.pc = "closing", !.todo = todo]
<1>1. /\ me[p].pc = "cleanSubs" /\ subMu = None /\ subMu' = p
      /\ Become(p, x) /\ x \in Locals /\ LocalOK(p, x) /\ x.pc = "closing"
      /\ x.does = me[p].does /\ x.task = me[p].task /\ x.todo = todo
      /\ Closes(p) \subseteq Tasks
      /\ UNCHANGED <<blocking, redis, cancels, registered, owner, phase, sender, queued,
                     story, late>>
  BY cleanSubscribersEffect
<1>2. \A k \in Closes(p) : registered[k] \subseteq todo
  OBVIOUS
<1>3. \A s \in todo : phase[s] \in {"open", "closed"}
  BY <1>1 DEF Base, Owners
<1> HIDE DEF x, todo
<1>4. /\ me' \in [Threads -> Locals] /\ me'[p] = x
      /\ \A q \in Threads : q # p => me'[q] = me[q]
  BY <1>1, BecomeMoves DEF Base
<1>5. TypeOK'
  BY <1>1, <1>4 DEF Base, TypeOK, redis
<1>6. LocalsOK'
  BY <1>1, BecomeLocalsOK DEF Base
<1>7. Owners'
  BY <1>1, OwnersFrame DEF Base, TypeOK
<1>8. Locks'
  <2>1. \A q \in Threads : me'[q].pc = "closing" <=> subMu' = q
    BY <1>1, <1>4, NoneAssumption DEF Base, Locks
  <2>2. \A q \in Threads :
            me'[q].pc = "blocked" => sender'[me'[q].sub] = q /\ phase'[me'[q].sub] = "open"
    BY <1>1, <1>4 DEF Base, Locks
  <2>3. ASSUME NEW q \in Threads, me'[q].pc = "closing"
        PROVE  /\ \A k \in Closes(q)' : \A s \in registered'[k] :
                      phase'[s] = "closed" \/ s \in me'[q].todo
               /\ \A s \in me'[q].todo : phase'[s] \in {"open", "closed"}
    <3>1. q = p
      BY <1>1, <2>1, <2>3
    <3>2. Closes(p)' = Closes(p)
      BY <1>1, <1>4 DEF Closes
    <3> QED BY <1>1, <1>2, <1>3, <1>4, <3>1, <3>2
  <2> QED BY <2>1, <2>2, <2>3 DEF Locks
<1> QED BY <1>5, <1>6, <1>7, <1>8 DEF Base

LEMMA CloseSubEffect ==
    ASSUME Base, NEW p \in Threads, NEW s \in Subs, CloseSub(p, s)
    PROVE  LET x == [me[p] EXCEPT !.todo = @ \ {s}] IN
           /\ me[p].pc = "closing" /\ s \in me[p].todo /\ sender[s] = None
           /\ phase[s] \in {"open", "closed"}
           /\ phase' \in [Subs -> {"unused", "new", "open", "closed"}]
           /\ phase'[s] = "closed" /\ \A r \in Subs : r # s => phase'[r] = phase[r]
           /\ Become(p, x) /\ x \in Locals /\ LocalOK(p, x) /\ x.pc = "closing"
           /\ x.does = me[p].does /\ x.task = me[p].task /\ x.todo = me[p].todo \ {s}
           /\ UNCHANGED <<blocking, redis, cancels, subMu, registered, owner, sender, queued,
                          story, late>>
<1> DEFINE x == [me[p] EXCEPT !.todo = @ \ {s}]
<1>1. /\ me[p].pc = "closing" /\ s \in me[p].todo /\ sender[s] = None
      /\ phase' = [phase EXCEPT ![s] = "closed"]
      /\ Become(p, x)
      /\ UNCHANGED <<blocking, redis, cancels, subMu, registered, owner, sender, queued,
                     story, late>>
  BY DEF CloseSub, At
<1>2. me[p] \in Locals /\ LocalOK(p, me[p])
  BY LocalsTyped
<1>3. /\ x \in Locals /\ x.pc = "closing" /\ x.does = me[p].does /\ x.task = me[p].task
      /\ x.todo = me[p].todo \ {s}
  BY <1>1, <1>2 DEF Locals
<1>4. LocalOK(p, x)
  BY <1>1, <1>2 DEF LocalOK, Locals, Updates
<1>5. phase[s] \in {"open", "closed"}
  BY <1>1 DEF Base, Locks
<1>6. phase \in [Subs -> {"unused", "new", "open", "closed"}]
  BY DEF Base, TypeOK
<1>7. /\ phase' \in [Subs -> {"unused", "new", "open", "closed"}]
      /\ phase'[s] = "closed" /\ \A r \in Subs : r # s => phase'[r] = phase[r]
  BY <1>1, <1>6
<1> HIDE DEF x
<1>8. x = [me[p] EXCEPT !.todo = @ \ {s}]
  BY DEF x
<1> QED BY <1>1, <1>3, <1>4, <1>5, <1>7, <1>8

LEMMA CloseSubKeeps ==
    ASSUME Base, NEW p \in Threads, NEW s \in Subs, CloseSub(p, s)
    PROVE  Base'
<1> DEFINE x == [me[p] EXCEPT !.todo = @ \ {s}]
<1>1. /\ me[p].pc = "closing" /\ s \in me[p].todo /\ sender[s] = None
      /\ phase[s] \in {"open", "closed"}
      /\ phase' \in [Subs -> {"unused", "new", "open", "closed"}]
      /\ phase'[s] = "closed" /\ \A r \in Subs : r # s => phase'[r] = phase[r]
      /\ Become(p, x) /\ x \in Locals /\ LocalOK(p, x) /\ x.pc = "closing"
      /\ x.does = me[p].does /\ x.task = me[p].task /\ x.todo = me[p].todo \ {s}
      /\ UNCHANGED <<blocking, redis, cancels, subMu, registered, owner, sender, queued,
                     story, late>>
  BY CloseSubEffect
<1> HIDE DEF x
<1>2. /\ me' \in [Threads -> Locals] /\ me'[p] = x
      /\ \A q \in Threads : q # p => me'[q] = me[q]
  BY <1>1, BecomeMoves DEF Base
<1>3. \A r \in Subs : phase'[r] = phase[r] \/ (phase[r] \in {"open", "closed"} /\ phase'[r] = "closed")
  BY <1>1
<1>4. TypeOK'
  BY <1>1, <1>2 DEF Base, TypeOK, redis
<1>5. LocalsOK'
  BY <1>1, BecomeLocalsOK DEF Base
<1>6. Owners'
  BY <1>1, <1>3, OwnersFrame
<1>7. Locks'
  <2>1. \A q \in Threads : me'[q].pc = "closing" <=> subMu' = q
    BY <1>1, <1>2 DEF Base, Locks
  <2>2. \A q \in Threads :
            me'[q].pc = "blocked" => sender'[me'[q].sub] = q /\ phase'[me'[q].sub] = "open"
    <3> SUFFICES ASSUME NEW q \in Threads, me'[q].pc = "blocked"
                 PROVE  sender'[me'[q].sub] = q /\ phase'[me'[q].sub] = "open"
      OBVIOUS
    <3>1. me'[q] = me[q] /\ me[q].pc = "blocked"
      BY <1>1, <1>2
    <3>2. sender[me[q].sub] = q /\ phase[me[q].sub] = "open" /\ me[q].sub \in Subs
      BY <3>1, LocalsTyped DEF LocalOK, Base, Locks
    <3>3. me[q].sub # s
      BY <1>1, <3>2, NoneAssumption
    <3> QED BY <1>1, <3>1, <3>2, <3>3
  <2>3. ASSUME NEW q \in Threads, me'[q].pc = "closing"
        PROVE  /\ \A k \in Closes(q)' : \A r \in registered'[k] :
                      phase'[r] = "closed" \/ r \in me'[q].todo
               /\ \A r \in me'[q].todo : phase'[r] \in {"open", "closed"}
    <3>1. q = p
      BY <1>1, <2>1, <2>3 DEF Base, Locks
    <3>2. Closes(p)' = Closes(p)
      BY <1>1, <1>2 DEF Closes
    <3>3. me[p] \in Locals /\ LocalOK(p, me[p])
      BY LocalsTyped
    <3>4. Closes(p) \subseteq Tasks /\ me[p].todo \subseteq Subs
      BY <1>1, <3>3 DEF Closes, LocalOK, Locals
    <3>5. \A k \in Tasks : registered[k] \subseteq Subs
      BY DEF Base, TypeOK
    <3>6. \A k \in Closes(p) : \A r \in registered[k] : phase'[r] = "closed" \/ r \in x.todo
      BY <1>1, <3>4, <3>5 DEF Base, Locks
    <3>7. \A r \in x.todo : phase'[r] \in {"open", "closed"}
      BY <1>1, <3>4 DEF Base, Locks
    <3> QED BY <1>1, <1>2, <3>1, <3>2, <3>6, <3>7
  <2> QED BY <2>1, <2>2, <2>3 DEF Locks
<1> QED BY <1>4, <1>5, <1>6, <1>7 DEF Base

LEMMA EndClosingEffect ==
    ASSUME Base, NEW p \in Threads, EndClosing(p)
    PROVE  /\ me[p].pc = "closing" /\ Closes(p) \subseteq Tasks
           /\ \A k \in Closes(p) : \A s \in registered[k] : phase[s] = "closed"
           /\ registered' \in [Tasks -> SUBSET Subs]
           /\ \A k \in Closes(p) : registered'[k] = {}
           /\ \A k \in Tasks \ Closes(p) : registered'[k] = registered[k]
           /\ subMu = p /\ subMu' = None
           /\ AfterClosing(p) \in {"dropCancel", "del", "disconnect", "idle"}
           /\ Become(p, To(p, AfterClosing(p)))
           /\ To(p, AfterClosing(p)) \in Locals /\ LocalOK(p, To(p, AfterClosing(p)))
           /\ To(p, AfterClosing(p)).pc = AfterClosing(p)
           /\ UNCHANGED <<blocking, redis, cancels, owner, phase, sender, queued, story, late>>
<1>1. /\ me[p].pc = "closing" /\ me[p].todo = {}
      /\ registered' = [k \in Tasks |-> IF k \in Closes(p) THEN {} ELSE registered[k]]
      /\ subMu' = None
      /\ Goto(p, AfterClosing(p))
      /\ UNCHANGED <<blocking, redis, cancels, owner, phase, sender, queued, story, late>>
  BY DEF EndClosing, At
<1>2. me[p] \in Locals /\ LocalOK(p, me[p])
  BY LocalsTyped
<1>3. Closes(p) \subseteq Tasks
  BY <1>1, <1>2 DEF Closes, LocalOK
<1>4. subMu = p /\ \A k \in Closes(p) : \A s \in registered[k] : phase[s] = "closed"
  BY <1>1 DEF Base, Locks
<1>5. registered \in [Tasks -> SUBSET Subs]
  BY DEF Base, TypeOK
<1>6. /\ registered' \in [Tasks -> SUBSET Subs]
      /\ \A k \in Closes(p) : registered'[k] = {}
      /\ \A k \in Tasks \ Closes(p) : registered'[k] = registered[k]
  BY <1>1, <1>3, <1>5
<1>7. /\ AfterClosing(p) \in {"dropCancel", "del", "disconnect", "idle"}
      /\ AfterClosing(p) = "dropCancel" => me[p].does = "final"
      /\ AfterClosing(p) = "del" => me[p].does = "clean"
      /\ AfterClosing(p) = "disconnect" => me[p].does = "close"
  BY DEF AfterClosing
<1>8. /\ To(p, AfterClosing(p)) \in Locals /\ LocalOK(p, To(p, AfterClosing(p)))
      /\ To(p, AfterClosing(p)).pc = AfterClosing(p)
  <2>1. CASE AfterClosing(p) = "idle"
    BY <2>1, IdleIsLocal DEF To, Idle
  <2>2. CASE AfterClosing(p) # "idle"
    BY <1>1, <1>2, <1>7, <2>2, ToFields DEF LocalOK, Labels, Base, Updates
  <2> QED BY <2>1, <2>2
<1> QED BY <1>1, <1>3, <1>4, <1>6, <1>7, <1>8, GotoTo

LEMMA EndClosingKeeps == ASSUME Base, NEW p \in Threads, EndClosing(p) PROVE Base'
<1> DEFINE x == To(p, AfterClosing(p))
<1>1. /\ me[p].pc = "closing" /\ Closes(p) \subseteq Tasks
      /\ registered' \in [Tasks -> SUBSET Subs]
      /\ \A k \in Closes(p) : registered'[k] = {}
      /\ \A k \in Tasks \ Closes(p) : registered'[k] = registered[k]
      /\ subMu = p /\ subMu' = None
      /\ Become(p, x) /\ x \in Locals /\ LocalOK(p, x)
      /\ x.pc \in {"dropCancel", "del", "disconnect", "idle"}
      /\ UNCHANGED <<blocking, redis, cancels, owner, phase, sender, queued, story, late>>
  BY EndClosingEffect
<1> HIDE DEF x
<1>2. /\ me' \in [Threads -> Locals] /\ me'[p] = x
      /\ \A q \in Threads : q # p => me'[q] = me[q]
  BY <1>1, BecomeMoves DEF Base
<1>3. TypeOK'
  BY <1>1, <1>2 DEF Base, TypeOK, redis
<1>4. LocalsOK'
  BY <1>1, BecomeLocalsOK DEF Base
<1>5. \A k \in Tasks : registered'[k] \subseteq registered[k]
  BY <1>1
<1>6. Owners'
  BY <1>1, <1>5, OwnersFrame DEF Base, TypeOK
<1>7. Locks'
  <2>1. \A q \in Threads : me'[q].pc # "closing" /\ subMu' # q
    BY <1>1, <1>2, NoneAssumption DEF Base, Locks
  <2>2. \A q \in Threads :
            me'[q].pc = "blocked" => sender'[me'[q].sub] = q /\ phase'[me'[q].sub] = "open"
    BY <1>1, <1>2 DEF Base, Locks
  <2> QED BY <2>1, <2>2 DEF Locks
<1> QED BY <1>3, <1>4, <1>6, <1>7 DEF Base

LEMMA CrashKeeps == ASSUME Base, Crash PROVE Base'
<1>1. /\ connected' = TRUE /\ cancels' = {} /\ subMu' = None
      /\ registered' = [k \in Tasks |-> {}]
      /\ phase' = [s \in Subs |-> IF phase[s] = "unused" THEN "unused" ELSE "closed"]
      /\ sender' = [s \in Subs |-> None]
      /\ queued' = [s \in Subs |-> 0]
      /\ silent' = {}
      /\ me' = [p \in Threads |-> Idle]
      /\ UNCHANGED <<blocking, stored, acked, raced, owner, story, late>>
  BY DEF Crash
<1>2. TypeOK'
  BY <1>1, IdleIsLocal, BufSizeAssumption DEF Base, TypeOK
<1>3. LocalsOK'
  BY <1>1, IdleIsLocal DEF LocalsOK
<1>4. \A p \in Threads : me'[p].pc = "idle" /\ subMu' # p
  BY <1>1, NoneAssumption DEF Idle
<1>5. \A k \in Tasks : registered'[k] = {}
  BY <1>1
<1>6. \A s \in Subs : phase'[s] # "open"
  BY <1>1
<1>7. Owners'
  BY <1>4, <1>5, <1>6 DEF Owners
<1>8. Locks'
  BY <1>4 DEF Locks
<1> QED BY <1>2, <1>3, <1>7, <1>8 DEF Base

-----------------------------------------------------------------------------
LEMMA BaseInit == Init => Base
<1> SUFFICES ASSUME Init PROVE Base
  OBVIOUS
<1>1. TypeOK
  BY IdleIsLocal, BufSizeAssumption DEF Init, TypeOK, NoTask, Task
<1>2. LocalsOK
  BY IdleIsLocal DEF Init, LocalsOK
<1>3. \A p \in Threads : me[p].pc = "idle" /\ subMu # p
  BY NoneAssumption DEF Init, Idle
<1>4. Owners
  BY <1>3 DEF Init, Owners
<1>5. Locks
  BY <1>3 DEF Locks
<1> QED BY <1>1, <1>2, <1>4, <1>5 DEF Base

LEMMA CallKeeps == ASSUME Base, NEW p \in Threads, Call(p) PROVE Base'
<1>1. ASSUME NEW k \in Tasks, BuildTask(p, k) PROVE Base'
  BY <1>1, BuildTaskKeeps
<1>2. ASSUME NEW k \in Tasks, NEW final \in BOOLEAN, UpdateTaskState(p, k, final) PROVE Base'
  <2> DEFINE does == IF final THEN "final" ELSE "update"
  <2>1. does \in {"update", "final"} /\ p \in Writers[k] /\ Get(p, k, does)
    BY <1>2 DEF UpdateTaskState
  <2> HIDE DEF does
  <2> QED BY <2>1, GetKeeps
<1>3. ASSUME NEW k \in Tasks, NEW a \in Artifacts, AddArtifact(p, k, a) PROVE Base'
  BY <1>3, AddArtifactKeeps
<1>4. ASSUME NEW k \in Tasks, OnCancelTask(p, k) PROVE Base'
  BY <1>4, GetKeeps DEF OnCancelTask
<1>5. ASSUME NEW k \in Tasks, CleanTask(p, k) PROVE Base'
  BY <1>5, CleanTaskKeeps
<1>6. ASSUME NEW k \in Tasks, NEW s \in Subs, SubscribeTask(p, k, s) PROVE Base'
  BY <1>6, SubscribeTaskKeeps
<1>7. ASSUME NEW s \in Subs, Send(p, s) PROVE Base'
  BY <1>7, SendKeeps
<1>8. ASSUME NEW s \in Subs, CloseSubscriber(p, s) PROVE Base'
  BY <1>8, CloseSubscriberKeeps
<1>9. CASE Close(p)
  BY <1>9, CloseKeeps
<1> QED BY <1>1, <1>2, <1>3, <1>4, <1>5, <1>6, <1>7, <1>8, <1>9 DEF Call

LEMMA StepKeeps == ASSUME Base, NEW p \in Threads, Step(p) PROVE Base'
<1>1. CASE Locking(p)
  BY <1>1, addSubscriberKeeps, SnapshotKeeps, cleanupFailedKeeps, cleanSubscribersKeeps,
     CloseOwnKeeps, AcceptKeeps, BlockKeeps, RefuseKeeps, CloseSubKeeps DEF Locking
<1>2. CASE ~Locking(p)
  BY <1>2, storeTaskKeeps, SetReplyLostKeeps, CommandFailsKeeps, KeepCancelKeeps, DropCancelKeeps, deleteTaskKeeps,
     EndNotifyKeeps, EndClosingKeeps, DisconnectKeeps, NotifyKeeps DEF Step
<1> QED BY <1>1, <1>2

LEMMA BaseStep == Base /\ [Next]_vars => Base'
<1> SUFFICES ASSUME Base, [Next]_vars PROVE Base'
  OBVIOUS
<1>1. ASSUME NEW p \in Threads, Call(p) \/ Step(p) PROVE Base'
  BY <1>1, CallKeeps, StepKeeps
<1>2. ASSUME NEW k \in Tasks, ExpireTask(k) PROVE Base'
  BY <1>2, ExpireTaskKeeps
<1>3. ASSUME NEW s \in Subs, Receive(s) PROVE Base'
  BY <1>3, ReceiveKeeps
<1>4. CASE Crash
  BY <1>4, CrashKeeps
<1>5. CASE UNCHANGED vars
  <2>1. /\ UNCHANGED <<me, blocking, connected, cancels, raced, silent, stored, acked>>
        /\ UNCHANGED <<subMu, registered, owner, phase, sender, queued, story, late>>
    BY <1>5 DEF vars, redis, streams
  <2> QED BY <2>1, OthersKeep DEF Base, TypeOK
<1> QED BY <1>1, <1>2, <1>3, <1>4, <1>5 DEF Next

LEMMA BaseInvariant == Spec => []Base
  BY BaseInit, BaseStep, PTL DEF Spec

(* Every variable of the Redis task manager keeps its type: no queue outgrows *)
(* its size, and every list holds streams.                                  *)
THEOREM RedisTypesOK == Spec => []TypeOK
<1>1. Base => TypeOK
  BY DEF Base
<1> QED BY BaseInvariant, <1>1, PTL

-----------------------------------------------------------------------------
(* What a step can do to the keys. *)

Finishes(p, k) ==
    /\ me[p].task = k /\ me[p].does \in {"final", "cancel"}
    /\ me[p].pc \notin {"set", "dropCancel"}

(* What a Set does to the task, whether or not its reply arrives. *)
LEMMA SetEffect ==
    ASSUME Base, NEW p \in Threads, storeTask(p) \/ SetReplyLost(p)
    PROVE  LET k == me[p].task
               more == IF me[p].does = "artifact" THEN {me[p].artifact} ELSE {} IN
           /\ k \in Tasks /\ me[p].pc = "set"
           /\ stored'[k] = Changed(p) /\ \A j \in Tasks : j # k => stored'[j] = stored[j]
           /\ acked'[k] \subseteq acked[k] \cup more
           /\ \A j \in Tasks : j # k => acked'[j] = acked[j]
           /\ Changed(p).artifacts = me[p].read.artifacts \cup more
           /\ raced \subseteq raced' /\ (k \notin raced' => stored[k] = me[p].read)
           /\ \A j \in Tasks : j # k => (j \in silent' <=> j \in silent)
<1> DEFINE k == me[p].task
           more == IF me[p].does = "artifact" THEN {me[p].artifact} ELSE {}
<1>1. /\ me[p].pc = "set"
      /\ stored' = [stored EXCEPT ![k] = Changed(p)]
      /\ raced' = IF stored[k] # me[p].read THEN raced \cup {k} ELSE raced
  BY DEF storeTask, SetReplyLost, Applied, At
<1>2. k \in Tasks
  BY storeTaskTypes
<1>3. Changed(p).artifacts = me[p].read.artifacts \cup more
  BY DEF Changed
<1>4. stored \in [Tasks -> Task] /\ acked \in [Tasks -> SUBSET Artifacts]
  BY DEF Base, TypeOK
<1>5. acked' = [acked EXCEPT ![k] = @ \cup more] \/ acked' = acked
  BY DEF storeTask, SetReplyLost
<1>6. silent' \in {silent, silent \ {k}, silent \cup {k}}
  BY DEF storeTask, SetReplyLost
<1> HIDE DEF k, more
<1>7. stored'[k] = Changed(p) /\ \A j \in Tasks : j # k => stored'[j] = stored[j]
  BY <1>1, <1>2, <1>4
<1>8. acked'[k] \subseteq acked[k] \cup more /\ \A j \in Tasks : j # k => acked'[j] = acked[j]
  BY <1>2, <1>4, <1>5
<1>9. raced \subseteq raced' /\ (k \notin raced' => stored[k] = me[p].read)
  BY <1>1
<1> QED BY <1>1, <1>2, <1>3, <1>6, <1>7, <1>8, <1>9 DEF k, more

LEMMA VanishEffect ==
    ASSUME Base, NEW k \in Tasks, Vanish(k)
    PROVE  /\ stored'[k] = NoTask /\ acked'[k] = {} /\ raced' = raced
           /\ silent' = silent \ {k}
           /\ \A j \in Tasks : j # k => stored'[j] = stored[j] /\ acked'[j] = acked[j]
  BY DEF Vanish, Base, TypeOK

(* Only these steps write a key. *)
Unwritten == UNCHANGED <<stored, acked, raced>> /\ (Crash \/ silent' = silent)

LEMMA RedisSteps ==
    ASSUME [Next]_vars
    PROVE  \/ Unwritten
           \/ \E p \in Threads : storeTask(p) \/ SetReplyLost(p)
           \/ \E p \in Threads : deleteTask(p)
           \/ \E k \in Tasks : ExpireTask(k)
<1>1. ASSUME NEW p \in Threads, Call(p) PROVE Unwritten
  <2>1. ASSUME NEW k \in Tasks, BuildTask(p, k) PROVE UNCHANGED redis
    BY <2>1 DEF BuildTask, Quiet
  <2>2. ASSUME NEW k \in Tasks, NEW final \in BOOLEAN, UpdateTaskState(p, k, final)
        PROVE  UNCHANGED redis
    BY <2>2 DEF UpdateTaskState, Get, Quiet
  <2>3. ASSUME NEW k \in Tasks, NEW a \in Artifacts, AddArtifact(p, k, a) PROVE UNCHANGED redis
    BY <2>3 DEF AddArtifact, Quiet
  <2>4. ASSUME NEW k \in Tasks, OnCancelTask(p, k) \/ CleanTask(p, k) PROVE UNCHANGED redis
    BY <2>4 DEF OnCancelTask, CleanTask, Get, Quiet
  <2>5. ASSUME NEW k \in Tasks, NEW s \in Subs, SubscribeTask(p, k, s) PROVE UNCHANGED redis
    BY <2>5 DEF SubscribeTask
  <2>6. ASSUME NEW s \in Subs, Send(p, s) \/ CloseSubscriber(p, s) PROVE UNCHANGED redis
    BY <2>6 DEF Send, CloseSubscriber, Quiet
  <2>7. CASE Close(p)
    BY <2>7 DEF Close, redis, Unwritten
  <2> QED BY <1>1, <2>1, <2>2, <2>3, <2>4, <2>5, <2>6, <2>7 DEF Call, redis, Unwritten
<1>2. ASSUME NEW p \in Threads, Locking(p) PROVE Unwritten
  <2>1. ASSUME addSubscriber(p) \/ Snapshot(p) \/ cleanupFailedSubscribers(p) \/ cleanSubscribers(p)
        PROVE  UNCHANGED redis
    BY <2>1 DEF addSubscriber, Snapshot, cleanupFailedSubscribers, cleanSubscribers, Quiet
  <2>2. ASSUME CloseOwn(p) \/ Accept(p) \/ Block(p) \/ Refuse(p) PROVE UNCHANGED redis
    BY <2>2 DEF CloseOwn, Accept, Block, Refuse
  <2>3. ASSUME NEW s \in Subs, CloseSub(p, s) PROVE UNCHANGED redis
    BY <2>3 DEF CloseSub
  <2> QED BY <1>2, <2>1, <2>2, <2>3 DEF Locking, redis, Unwritten
<1>3. ASSUME NEW p \in Threads, Step(p), ~storeTask(p), ~SetReplyLost(p), ~deleteTask(p)
      PROVE  Unwritten
  <2>1. ASSUME CommandFails(p) \/ KeepCancel(p) \/ DropCancel(p) PROVE UNCHANGED redis
    BY <2>1 DEF CommandFails, KeepCancel, DropCancel, Quiet
  <2>2. ASSUME EndNotify(p) \/ EndClosing(p) PROVE UNCHANGED redis
    BY <2>2 DEF EndNotify, EndClosing, Quiet
  <2>3. CASE Disconnect(p)
    BY <2>3 DEF Disconnect, Unwritten
  <2>4. ASSUME NEW s \in Subs, Notify(p, s) PROVE UNCHANGED redis
    BY <2>4 DEF Notify, Quiet
  <2> QED BY <1>2, <1>3, <2>1, <2>2, <2>3, <2>4 DEF Step, redis, Unwritten
<1>4. ASSUME NEW s \in Subs, Receive(s) PROVE Unwritten
  BY <1>4 DEF Receive, redis, Unwritten
<1>5. CASE Crash
  BY <1>5 DEF Crash, Unwritten
<1>6. CASE UNCHANGED vars
  BY <1>6 DEF vars, redis, Unwritten
<1> QED BY <1>1, <1>3, <1>4, <1>5, <1>6 DEF Next

LEMMA KeptStep == Base /\ KeptUnlessRaced /\ [Next]_vars => KeptUnlessRaced'
<1> SUFFICES ASSUME Base, KeptUnlessRaced, [Next]_vars PROVE KeptUnlessRaced'
  OBVIOUS
<1>1. CASE Unwritten
  BY <1>1 DEF KeptUnlessRaced, Unwritten
<1>2. ASSUME NEW p \in Threads, storeTask(p) \/ SetReplyLost(p) PROVE KeptUnlessRaced'
  BY <1>2, SetEffect DEF KeptUnlessRaced
<1>3. ASSUME NEW k \in Tasks, Vanish(k) PROVE KeptUnlessRaced'
  BY <1>3, VanishEffect DEF KeptUnlessRaced
<1>4. ASSUME NEW p \in Threads, deleteTask(p) PROVE KeptUnlessRaced'
  <2>1. Vanish(me[p].task) /\ me[p].task \in Tasks
    BY <1>4, LocalsTyped DEF deleteTask, At, LocalOK
  <2> QED BY <1>3, <2>1
<1>5. ASSUME NEW k \in Tasks, ExpireTask(k) PROVE KeptUnlessRaced'
  BY <1>3, <1>5 DEF ExpireTask
<1> QED BY <1>1, <1>2, <1>4, <1>5, RedisSteps

(* An artifact that AddArtifact stored is there as long as its task is, unless *)
(* updates of the task overlap: through commands that fail, tasks that expire *)
(* and crashes, and whoever updates the task.                               *)
THEOREM ArtifactsKept == Spec => []KeptUnlessRaced
<1>1. Init => KeptUnlessRaced
  BY DEF Init, KeptUnlessRaced
<1> QED BY BaseInvariant, <1>1, KeptStep, PTL DEF Spec

-----------------------------------------------------------------------------
(* What a step can do to the lists.  A goroutine at one of these labels is    *)
(* neither notifying nor closing, and afterwards it is not either.           *)

Plain == {"idle", "set", "keepCancel", "dropCancel", "del", "disconnect", "add", "closeSub"}

Apart(l) ==
    \/ l.pc \in Plain \cup {"snapshot", "cleanSubs"}
    \/ l.pc = "send" /\ l.does = "send"

(* p alone moves, from such a label, and at most one stream changes its phase. *)
Aside(p) ==
    /\ UNCHANGED <<registered, owner, story, late>>
    /\ \A s \in Subs : \/ phase'[s] = phase[s]
                       \/ phase[s] \in {"open", "closed"} /\ phase'[s] = "closed"
                       \/ phase[s] = "unused" /\ phase'[s] = "new"
    /\ \A q \in Threads : q # p => me'[q] = me[q]
    /\ me[p].pc \in Plain /\ Apart(me'[p])

LEMMA MovesAside ==
    ASSUME Base, NEW p \in Threads, NEW x \in Locals, Become(p, x), me[p].pc \in Plain, Apart(x),
           UNCHANGED streams
    PROVE  Aside(p)
<1>1. me'[p] = x /\ \A q \in Threads : q # p => me'[q] = me[q]
  BY BecomeMoves DEF Base
<1>2. UNCHANGED <<registered, owner, story, late, phase>>
  BY DEF streams
<1> QED BY <1>1, <1>2 DEF Aside

LEMMA CallAside == ASSUME Base, NEW p \in Threads, Call(p) PROVE Aside(p)
<1>1. ASSUME NEW k \in Tasks, NEW does \in {"update", "final", "cancel"}, Get(p, k, does)
      PROVE  Aside(p)
  <2> DEFINE x == [Idle EXCEPT !.pc = "set", !.does = does, !.task = k, !.read = stored[k]]
  <2>1. stored[k] \in Task
    BY DEF Base, TypeOK
  <2>2. x \in Locals /\ Apart(x)
    BY <2>1 DEF Idle, Locals, Apart, Plain
  <2>3. Become(p, x) /\ me[p].pc \in Plain /\ UNCHANGED streams
    BY <1>1 DEF Get, At, Quiet, Plain
  <2> QED BY <2>2, <2>3, MovesAside
<1>2. ASSUME NEW k \in Tasks, BuildTask(p, k) PROVE Aside(p)
  <2> DEFINE x == [Idle EXCEPT !.pc = "set", !.does = "build", !.task = k]
  <2>1. x \in Locals /\ Apart(x)
    BY IdleIsLocal DEF Idle, Locals, Apart, Plain
  <2>2. Become(p, x) /\ me[p].pc \in Plain /\ UNCHANGED streams
    BY <1>2 DEF BuildTask, At, Quiet, Plain
  <2> QED BY <2>1, <2>2, MovesAside
<1>3. ASSUME NEW k \in Tasks, NEW final \in BOOLEAN, UpdateTaskState(p, k, final) PROVE Aside(p)
  <2> DEFINE does == IF final THEN "final" ELSE "update"
  <2>1. does \in {"update", "final"} /\ Get(p, k, does)
    BY <1>3 DEF UpdateTaskState
  <2> HIDE DEF does
  <2> QED BY <1>1, <2>1
<1>4. ASSUME NEW k \in Tasks, NEW a \in Artifacts, AddArtifact(p, k, a) PROVE Aside(p)
  <2> DEFINE x == [Idle EXCEPT !.pc = "set", !.does = "artifact", !.task = k,
                               !.read = stored[k], !.artifact = a]
  <2>1. stored[k] \in Task
    BY DEF Base, TypeOK
  <2>2. x \in Locals /\ Apart(x)
    BY <2>1 DEF Idle, Locals, Apart, Plain
  <2>3. Become(p, x) /\ me[p].pc \in Plain /\ UNCHANGED streams
    BY <1>4 DEF AddArtifact, At, Quiet, Plain
  <2> QED BY <2>2, <2>3, MovesAside
<1>5. ASSUME NEW k \in Tasks, OnCancelTask(p, k) \/ CleanTask(p, k) PROVE Aside(p)
  <2> DEFINE x == [Idle EXCEPT !.pc = "dropCancel", !.does = "clean", !.task = k]
  <2>1. CASE OnCancelTask(p, k)
    BY <1>1, <2>1 DEF OnCancelTask
  <2>2. x \in Locals /\ Apart(x)
    BY IdleIsLocal DEF Idle, Locals, Apart, Plain
  <2>3. CASE CleanTask(p, k)
    <3>1. Become(p, x) /\ me[p].pc \in Plain /\ UNCHANGED streams
      BY <2>3 DEF CleanTask, At, Quiet, Plain
    <3> QED BY <2>2, <3>1, MovesAside
  <2> QED BY <1>5, <2>1, <2>3
<1>6. ASSUME NEW k \in Tasks, NEW s \in Subs, SubscribeTask(p, k, s) PROVE Aside(p)
  <2> DEFINE x == [Idle EXCEPT !.pc = "add", !.task = k, !.sub = s]
  <2>1. /\ me[p].pc \in Plain /\ Become(p, x) /\ phase[s] = "unused"
        /\ phase' = [phase EXCEPT ![s] = "new"]
        /\ UNCHANGED <<registered, owner, story, late>>
    BY <1>6 DEF SubscribeTask, At, Plain
  <2>2. x \in Locals /\ Apart(x)
    BY IdleIsLocal DEF Idle, Locals, Apart, Plain
  <2> HIDE DEF x
  <2>3. me'[p] = x /\ \A q \in Threads : q # p => me'[q] = me[q]
    BY <2>1, <2>2, BecomeMoves DEF Base
  <2>4. phase \in [Subs -> {"unused", "new", "open", "closed"}]
    BY DEF Base, TypeOK
  <2>5. phase'[s] = "new" /\ \A r \in Subs : r # s => phase'[r] = phase[r]
    BY <2>1, <2>4
  <2> QED BY <2>1, <2>2, <2>3, <2>5 DEF Aside
<1>7. ASSUME NEW s \in Subs, Send(p, s) PROVE Aside(p)
  <2> DEFINE x == [Idle EXCEPT !.pc = "send", !.does = "send", !.sub = s]
  <2>1. x \in Locals /\ Apart(x)
    BY IdleIsLocal DEF Idle, Locals, Apart
  <2>2. Become(p, x) /\ me[p].pc \in Plain /\ UNCHANGED streams
    BY <1>7 DEF Send, At, Quiet, Plain
  <2> QED BY <2>1, <2>2, MovesAside
<1>8. ASSUME NEW s \in Subs, CloseSubscriber(p, s) PROVE Aside(p)
  <2> DEFINE x == [Idle EXCEPT !.pc = "closeSub", !.sub = s]
  <2>1. x \in Locals /\ Apart(x)
    BY IdleIsLocal DEF Idle, Locals, Apart, Plain
  <2>2. Become(p, x) /\ me[p].pc \in Plain /\ UNCHANGED streams
    BY <1>8 DEF CloseSubscriber, At, Quiet, Plain
  <2> QED BY <2>1, <2>2, MovesAside
<1>9. CASE Close(p)
  <2> DEFINE x == [Idle EXCEPT !.pc = "cleanSubs", !.does = "close"]
  <2>1. x \in Locals /\ Apart(x)
    BY IdleIsLocal DEF Idle, Locals, Apart
  <2>2. Become(p, x) /\ me[p].pc \in Plain /\ UNCHANGED streams
    BY <1>9 DEF Close, At, Plain
  <2> QED BY <2>1, <2>2, MovesAside
<1> QED BY <1>2, <1>3, <1>4, <1>5, <1>6, <1>7, <1>8, <1>9 DEF Call

LEMMA GotoAside ==
    ASSUME Base, NEW p \in Threads, NEW label \in Labels, Goto(p, label), me[p].pc \in Plain,
           label \in Plain \cup {"snapshot", "cleanSubs"}, UNCHANGED streams
    PROVE  Aside(p)
<1>1. To(p, label) \in Locals /\ To(p, label).pc = label
  <2>1. CASE label = "idle"
    BY <2>1, IdleIsLocal DEF To, Idle
  <2>2. CASE label # "idle"
    BY <2>2, ToFields DEF Base
  <2> QED BY <2>1, <2>2
<1> QED BY <1>1, GotoTo, MovesAside DEF Apart

LEMMA CloseOwnAside == ASSUME Base, NEW p \in Threads, CloseOwn(p) PROVE Aside(p)
<1> DEFINE s == me[p].sub
<1>1. /\ me[p].pc = "closeSub" /\ Goto(p, "idle")
      /\ phase' = [phase EXCEPT ![s] = "closed"]
      /\ UNCHANGED <<registered, owner, story, late>>
  BY DEF CloseOwn, At
<1>2. s \in Subs /\ phase[s] \in {"open", "closed"}
  BY <1>1, LocalsTyped DEF LocalOK, Base, Owners
<1>3. me'[p] = Idle /\ \A q \in Threads : q # p => me'[q] = me[q]
  BY <1>1, GotoTo, IdleIsLocal, BecomeMoves DEF To, Base
<1>4. phase \in [Subs -> {"unused", "new", "open", "closed"}]
  BY DEF Base, TypeOK
<1> HIDE DEF s
<1>5. phase'[s] = "closed" /\ \A r \in Subs : r # s => phase'[r] = phase[r]
  BY <1>1, <1>2, <1>4
<1>6. me[p].pc \in Plain /\ Apart(me'[p])
  BY <1>1, <1>3 DEF Plain, Apart, Idle
<1> QED BY <1>1, <1>2, <1>3, <1>5, <1>6 DEF Aside

LEMMA PlainAside ==
    ASSUME Base, NEW p \in Threads,
           storeTask(p) \/ SetReplyLost(p) \/ CommandFails(p) \/ KeepCancel(p)
             \/ DropCancel(p) \/ deleteTask(p) \/ Disconnect(p)
    PROVE  Aside(p)
<1>1. CASE storeTask(p)
  <2>1. me[p].pc = "set" /\ Become(p, Stored(p)) /\ UNCHANGED streams
    BY <1>1 DEF storeTask, At, Stored
  <2>2. Stored(p) \in Locals /\ Apart(Stored(p))
    BY <2>1, StoredFields DEF Apart, Plain
  <2> QED BY <2>1, <2>2, MovesAside DEF Plain
<1>2. CASE SetReplyLost(p) \/ CommandFails(p)
  <2>1. me[p].pc \in Plain /\ Goto(p, "idle") /\ UNCHANGED streams
    BY <1>2 DEF SetReplyLost, CommandFails, At, Quiet, Plain
  <2> QED BY <2>1, GotoAside DEF Labels, Plain
<1>3. CASE KeepCancel(p)
  <2>1. me[p].pc \in Plain /\ Goto(p, "idle") /\ UNCHANGED streams
    BY <1>3 DEF KeepCancel, At, Plain
  <2> QED BY <2>1, GotoAside DEF Labels, Plain
<1>4. CASE DropCancel(p)
  <2> DEFINE label == IF me[p].does = "clean" THEN "cleanSubs" ELSE "idle"
  <2>1. me[p].pc \in Plain /\ Goto(p, label) /\ UNCHANGED streams
    BY <1>4 DEF DropCancel, At, Plain
  <2>2. label \in {"cleanSubs", "idle"}
    OBVIOUS
  <2> HIDE DEF label
  <2> QED BY <2>1, <2>2, GotoAside DEF Labels, Plain
<1>5. CASE deleteTask(p)
  <2>1. me[p].pc \in Plain /\ Goto(p, "idle") /\ UNCHANGED streams
    BY <1>5 DEF deleteTask, Vanish, At, Plain
  <2> QED BY <2>1, GotoAside DEF Labels, Plain
<1>6. CASE Disconnect(p)
  <2>1. me[p].pc \in Plain /\ Goto(p, "idle") /\ UNCHANGED streams
    BY <1>6 DEF Disconnect, At, Plain
  <2> QED BY <2>1, GotoAside DEF Labels, Plain
<1> QED BY <1>1, <1>2, <1>3, <1>4, <1>5, <1>6

-----------------------------------------------------------------------------
(* A task that is over. *)

(* OverMeansClosed, also while a goroutine that is going to finish the task    *)
(* has not stored it yet, or has closed the streams and drops the context.    *)
OverInv ==
    \A k \in Tasks \ (raced \cup silent) :
        stored[k].status = "final" /\ (\A p \in Threads : ~Finishes(p, k))
        => \A s \in registered[k] : phase[s] = "open" => s \in late

LEMMA PlainNeverFinishes ==
    ASSUME Base, NEW p \in Threads, me[p].pc \in Plain, NEW k
    PROVE  ~Finishes(p, k)
<1>1. LocalOK(p, me[p])
  BY LocalsTyped
<1>2. Idle.does = "none"
  BY DEF Idle
<1> QED BY <1>1, <1>2 DEF LocalOK, Plain, Finishes, Updates

(* Who stores a final state goes on to close the streams. *)
LEMMA StoredStep ==
    ASSUME Base, [Next]_vars, ~Crash, NEW k \in Tasks \ (raced' \cup silent'),
           stored'[k].status = "final"
    PROVE  /\ k \notin raced
           /\ \/ stored[k].status = "final" /\ k \notin silent
              \/ \E p \in Threads : Finishes(p, k)'
<1>1. CASE Unwritten
  BY <1>1 DEF Unwritten
<1>2. ASSUME NEW p \in Threads, storeTask(p) \/ SetReplyLost(p)
      PROVE  /\ k \notin raced
             /\ \/ stored[k].status = "final" /\ k \notin silent
                \/ \E q \in Threads : Finishes(q, k)'
  <2>1. /\ me[p].task \in Tasks /\ me[p].pc = "set"
        /\ stored'[me[p].task] = Changed(p)
        /\ \A j \in Tasks : j # me[p].task => stored'[j] = stored[j]
        /\ raced \subseteq raced' /\ (me[p].task \notin raced' => stored[me[p].task] = me[p].read)
        /\ \A j \in Tasks : j # me[p].task => (j \in silent' <=> j \in silent)
    BY <1>2, SetEffect
  <2>2. CASE k = me[p].task /\ me[p].does \in {"final", "cancel"} /\ storeTask(p)
    <3>1. AfterSet(p) \in {"snapshot", "cleanSubs"}
      BY <2>2 DEF AfterSet
    <3>2. /\ Stored(p) \in Locals /\ Stored(p).pc = AfterSet(p)
          /\ Stored(p).does = me[p].does /\ Stored(p).task = me[p].task
      BY <2>1, StoredFields
    <3>3. Become(p, Stored(p))
      BY <2>2 DEF storeTask, Stored
    <3>4. me'[p] = Stored(p)
      BY <3>2, <3>3, BecomeMoves DEF Base
    <3>5. Finishes(p, k)'
      BY <2>2, <3>1, <3>2, <3>4 DEF Finishes
    <3> QED BY <2>1, <3>5
  <2>3. CASE k = me[p].task /\ me[p].does \notin {"final", "cancel"} /\ storeTask(p)
    <3>1. me[p].does \in Updates \cup {"build"}
      BY <2>1, <2>3, LocalsTyped DEF LocalOK
    <3>2. Changed(p).status = "final"
      BY <2>1, <2>3
    <3>3. me[p].does = "artifact" /\ me[p].read.status = "final"
      BY <2>3, <3>1, <3>2 DEF Changed, Updates
    <3>4. silent' = silent
      BY <2>3, <3>2, <3>3 DEF storeTask
    <3> QED BY <2>1, <2>3, <3>3, <3>4
  <2>4. CASE k = me[p].task /\ SetReplyLost(p)
    <3>1. Changed(p).status = "final"
      BY <2>1, <2>4
    <3>2. stored[k].status = "final" /\ silent' = silent
      BY <2>4, <3>1 DEF SetReplyLost
    <3> QED BY <2>1, <3>2
  <2>5. CASE k # me[p].task
    BY <2>1, <2>5
  <2> QED BY <1>2, <2>2, <2>3, <2>4, <2>5
<1>3. ASSUME NEW j \in Tasks, Vanish(j)
      PROVE  k \notin raced /\ stored[k].status = "final" /\ k \notin silent
  <2>1. NoTask.status = "absent"
    BY DEF NoTask
  <2>2. /\ stored'[j] = NoTask /\ raced' = raced /\ silent' = silent \ {j}
        /\ \A i \in Tasks : i # j => stored'[i] = stored[i]
    BY <1>3, VanishEffect
  <2> QED BY <2>1, <2>2
<1>4. ASSUME NEW p \in Threads, deleteTask(p)
      PROVE  k \notin raced /\ stored[k].status = "final" /\ k \notin silent
  <2>1. Vanish(me[p].task) /\ me[p].task \in Tasks
    BY <1>4, LocalsTyped DEF deleteTask, At, LocalOK
  <2> QED BY <1>3, <2>1
<1>5. ASSUME NEW j \in Tasks, ExpireTask(j)
      PROVE  k \notin raced /\ stored[k].status = "final" /\ k \notin silent
  BY <1>3, <1>5 DEF ExpireTask
<1> QED BY <1>1, <1>2, <1>4, <1>5, RedisSteps

(* Such a goroutine goes on until it has emptied the list, unless it crashes,  *)
(* and an open stream on a list was there and open before.                   *)
Onward(k) ==
    /\ \A q \in Threads : Finishes(q, k) => Finishes(q, k)' \/ registered'[k] = {}
    /\ \A s \in registered'[k] : phase'[s] = "open" => s \in registered[k] /\ phase[s] = "open"
    /\ late \subseteq late'

LEMMA OnwardBecome ==
    ASSUME Base, NEW p \in Threads, NEW x \in Locals, Become(p, x), NEW k \in Tasks,
           Finishes(p, k) => x.task = k /\ x.does = me[p].does /\ x.pc \notin {"set", "dropCancel"},
           UNCHANGED <<registered, phase, late>>
    PROVE  Onward(k)
<1>1. me'[p] = x /\ \A q \in Threads : q # p => me'[q] = me[q]
  BY BecomeMoves DEF Base
<1> QED BY <1>1 DEF Onward, Finishes

LEMMA OnwardSteps ==
    ASSUME Base, NEW p \in Threads, Call(p) \/ Step(p), ~addSubscriber(p), NEW k \in Tasks
    PROVE  Onward(k)
<1>0. me[p] \in Locals /\ LocalOK(p, me[p])
  BY LocalsTyped
<1>a. registered[k] \subseteq Subs
  BY DEF Base, TypeOK
<1>1. CASE Aside(p)
  <2>1. \A q \in Threads : Finishes(q, k) => Finishes(q, k)'
    BY <1>1, PlainNeverFinishes DEF Aside, Finishes
  <2>2. \A s \in registered'[k] : phase'[s] = "open" => s \in registered[k] /\ phase[s] = "open"
    BY <1>1, <1>a DEF Aside
  <2> QED BY <1>1, <2>1, <2>2 DEF Onward, Aside
<1>2. CASE Snapshot(p)
  <2> DEFINE x == [me[p] EXCEPT !.pc = "notify", !.todo = registered[me[p].task]]
  <2>1. me[p].pc = "snapshot" /\ Become(p, x) /\ UNCHANGED <<registered, phase, late>>
    BY <1>2 DEF Snapshot, At, Quiet, streams
  <2>2. registered[me[p].task] \in SUBSET Subs
    BY <1>0, <2>1 DEF LocalOK, Base, TypeOK, Updates
  <2>3. x \in Locals /\ x.pc = "notify" /\ x.task = me[p].task /\ x.does = me[p].does
    BY <1>0, <2>2 DEF Locals
  <2> HIDE DEF x
  <2> QED BY <2>1, <2>3, OnwardBecome DEF Finishes
<1>3. ASSUME NEW s \in Subs, Notify(p, s) PROVE Onward(k)
  <2> DEFINE x == IF phase[s] = "open" THEN [me[p] EXCEPT !.pc = "send", !.todo = @ \ {s}, !.sub = s]
                  ELSE [me[p] EXCEPT !.todo = @ \ {s}, !.failed = @ \cup {s}]
  <2>1. me[p].pc = "notify" /\ Become(p, x) /\ UNCHANGED <<registered, phase, late>>
    BY <1>3 DEF Notify, At, Quiet, streams
  <2>2. x \in Locals /\ x.pc \in {"send", "notify"} /\ x.task = me[p].task /\ x.does = me[p].does
    BY <1>0, <2>1 DEF Locals
  <2> HIDE DEF x
  <2> QED BY <2>1, <2>2, OnwardBecome DEF Finishes
<1>4. ASSUME NEW failed \in SUBSET Subs, me[p].pc \in {"send", "blocked"},
             Become(p, AfterSend(p, failed)), UNCHANGED <<registered, phase, late>>
      PROVE  Onward(k)
  <2> DEFINE x == AfterSend(p, failed)
  <2>1. x \in Locals /\ x.pc \in {"idle", "notify"}
    BY <1>4, AfterSendOK
  <2>2. Direct(p) \/ (x.task = me[p].task /\ x.does = me[p].does)
    BY <1>0 DEF AfterSend, Locals
  <2>3. Become(p, x)
    BY <1>4
  <2> HIDE DEF x
  <2> QED BY <1>4, <2>1, <2>2, <2>3, OnwardBecome DEF Finishes, Direct
<1>5. CASE Accept(p)
  BY <1>4, <1>5, AcceptEffect
<1>6. CASE Refuse(p)
  <2>1. /\ me[p].pc = "send" /\ {me[p].sub} \in SUBSET Subs
        /\ Become(p, AfterSend(p, {me[p].sub})) /\ UNCHANGED <<registered, phase, late>>
    BY <1>6, RefuseEffect
  <2> QED BY <1>4, <2>1
<1>7. CASE Block(p)
  <2>1. /\ Become(p, To(p, "blocked")) /\ To(p, "blocked") \in Locals
        /\ UNCHANGED <<registered, phase, late>>
    BY <1>7, BlockEffect
  <2>2. /\ To(p, "blocked").pc = "blocked" /\ To(p, "blocked").task = me[p].task
        /\ To(p, "blocked").does = me[p].does
    BY ToFields DEF Base, Labels
  <2> QED BY <2>1, <2>2, OnwardBecome DEF Finishes
<1>8. CASE EndNotify(p)
  <2> DEFINE label == IF me[p].failed # {} THEN "cleanupFailed" ELSE AfterNotify(p)
  <2>1. me[p].pc = "notify" /\ Goto(p, label) /\ UNCHANGED <<registered, phase, late>>
    BY <1>8 DEF EndNotify, At, Quiet, streams
  <2>2. label \in {"idle", "cleanupFailed", "cleanSubs"} /\ (label = "idle" => me[p].does # "final")
    BY DEF AfterNotify
  <2>3. me[p].does # "cancel"
    BY <1>0, <2>1 DEF LocalOK, Updates
  <2> HIDE DEF label
  <2>4. CASE label = "idle"
    <3>1. Become(p, Idle)
      BY <2>1, <2>4, GotoTo DEF To
    <3> QED BY <2>1, <2>2, <2>3, <2>4, <3>1, IdleIsLocal, OnwardBecome DEF Finishes
  <2>5. CASE label # "idle"
    <3>1. /\ To(p, label) \in Locals /\ To(p, label).pc = label
          /\ To(p, label).task = me[p].task /\ To(p, label).does = me[p].does
      BY <2>2, <2>5, ToFields DEF Base, Labels
    <3> QED BY <2>1, <2>2, <2>5, <3>1, GotoTo, OnwardBecome DEF Finishes
  <2> QED BY <2>4, <2>5
<1>9. CASE cleanupFailedSubscribers(p)
  <2> DEFINE x == To(p, AfterNotify(p))
  <2>1. /\ me[p].does \in Updates /\ Become(p, x) /\ x \in Locals /\ x.pc = AfterNotify(p)
        /\ registered'[k] \subseteq registered[k]
        /\ UNCHANGED <<phase, late>>
    BY <1>9, cleanupFailedEffect
  <2>2. AfterNotify(p) \in {"idle", "cleanSubs"} /\ (AfterNotify(p) = "idle" => me[p].does # "final")
    BY DEF AfterNotify
  <2>3. AfterNotify(p) # "idle" => x.task = me[p].task /\ x.does = me[p].does
    BY <2>2, ToFields DEF Base, Labels
  <2> HIDE DEF x
  <2>4. me'[p] = x /\ \A q \in Threads : q # p => me'[q] = me[q]
    BY <2>1, BecomeMoves DEF Base
  <2>5. Finishes(p, k) => Finishes(p, k)'
    BY <2>1, <2>2, <2>3, <2>4 DEF Finishes, Updates
  <2>6. \A q \in Threads : Finishes(q, k) => Finishes(q, k)'
    BY <2>4, <2>5 DEF Finishes
  <2> QED BY <2>1, <2>6 DEF Onward
<1>10. CASE cleanSubscribers(p)
  <2> DEFINE x == [me[p] EXCEPT !.pc = "closing",
                                !.todo = UNION {registered[j] : j \in Closes(p)}]
  <2>1. /\ Become(p, x) /\ x \in Locals /\ x.pc = "closing"
        /\ x.does = me[p].does /\ x.task = me[p].task
        /\ UNCHANGED <<registered, phase, late>>
    BY <1>10, cleanSubscribersEffect
  <2> HIDE DEF x
  <2> QED BY <2>1, OnwardBecome DEF Finishes
<1>11. ASSUME NEW s \in Subs, CloseSub(p, s) PROVE Onward(k)
  <2> DEFINE x == [me[p] EXCEPT !.todo = @ \ {s}]
  <2>1. /\ phase'[s] = "closed" /\ \A r \in Subs : r # s => phase'[r] = phase[r]
        /\ Become(p, x) /\ x \in Locals /\ x.pc = "closing"
        /\ x.does = me[p].does /\ x.task = me[p].task
        /\ UNCHANGED <<registered, late>>
    BY <1>11, CloseSubEffect
  <2> HIDE DEF x
  <2>2. me'[p] = x /\ \A q \in Threads : q # p => me'[q] = me[q]
    BY <2>1, BecomeMoves DEF Base
  <2>3. \A q \in Threads : Finishes(q, k) => Finishes(q, k)'
    BY <2>1, <2>2 DEF Finishes
  <2> QED BY <1>a, <2>1, <2>3 DEF Onward
<1>12. CASE EndClosing(p)
  <2> DEFINE x == To(p, AfterClosing(p))
  <2>1. /\ me[p].pc = "closing"
        /\ \A j \in Closes(p) : registered'[j] = {}
        /\ \A j \in Tasks \ Closes(p) : registered'[j] = registered[j]
        /\ Become(p, x) /\ x \in Locals /\ UNCHANGED <<phase, late>>
    BY <1>12, EndClosingEffect
  <2> HIDE DEF x
  <2>2. \A q \in Threads : q # p => me'[q] = me[q]
    BY <2>1, BecomeMoves DEF Base
  <2>3. Finishes(p, k) => registered'[k] = {}
    BY <2>1 DEF Finishes, Closes
  <2>4. \A q \in Threads : Finishes(q, k) => Finishes(q, k)' \/ registered'[k] = {}
    BY <2>2, <2>3 DEF Finishes
  <2>5. registered'[k] \subseteq registered[k]
    BY <2>1
  <2> QED BY <2>1, <2>4, <2>5 DEF Onward
<1>13. CASE Call(p)
  BY <1>1, <1>13, CallAside
<1>14. CASE Locking(p)
  BY <1>1, <1>2, <1>5, <1>6, <1>7, <1>9, <1>10, <1>11, <1>14, CloseOwnAside DEF Locking
<1>15. CASE Step(p) /\ ~Locking(p)
  BY <1>1, <1>3, <1>8, <1>12, <1>15, PlainAside DEF Step
<1> QED BY <1>13, <1>14, <1>15

LEMMA OverFromOnward ==
    ASSUME Base, OverInv, [Next]_vars, ~Crash, \A k \in Tasks : Onward(k)
    PROVE  OverInv'
<1> SUFFICES ASSUME NEW k \in Tasks \ (raced' \cup silent'), stored'[k].status = "final",
                    \A p \in Threads : ~Finishes(p, k)', NEW s \in registered'[k],
                    phase'[s] = "open"
             PROVE  s \in late'
  BY DEF OverInv
<1>1. k \notin raced /\ stored[k].status = "final" /\ k \notin silent
  BY StoredStep
<1>2. \A p \in Threads : ~Finishes(p, k)
  BY DEF Onward
<1>3. s \in registered[k] /\ phase[s] = "open" /\ late \subseteq late'
  BY DEF Onward
<1> QED BY <1>1, <1>2, <1>3 DEF OverInv

LEMMA OverStep == Base /\ OverInv /\ [Next]_vars => OverInv'
<1> SUFFICES ASSUME Base, OverInv, [Next]_vars PROVE OverInv'
  OBVIOUS
<1>1. ASSUME NEW p \in Threads, addSubscriber(p) PROVE OverInv'
  <2>1. /\ me[p].pc = "add" /\ me[p].task \in Tasks /\ me[p].sub \in Subs
        /\ phase[me[p].sub] = "new"
        /\ me'[p] = Idle /\ \A q \in Threads : q # p => me'[q] = me[q]
        /\ registered'[me[p].task] = registered[me[p].task] \cup {me[p].sub}
        /\ \A k \in Tasks : k # me[p].task => registered'[k] = registered[k]
    BY <1>1, addSubscriberEffect
  <2>2. /\ \A s \in Subs : s # me[p].sub => phase'[s] = phase[s]
        /\ late \subseteq late'
        /\ stored[me[p].task].status # "active" => me[p].sub \in late'
        /\ UNCHANGED redis
    BY <1>1, addSubscriberEffect
  <2> SUFFICES ASSUME NEW k \in Tasks \ (raced' \cup silent'), stored'[k].status = "final",
                      \A q \in Threads : ~Finishes(q, k)', NEW s \in registered'[k],
                      phase'[s] = "open"
               PROVE  s \in late'
    BY DEF OverInv
  <2>3. k \notin raced /\ k \notin silent /\ stored[k].status = "final"
    BY <2>2 DEF redis
  <2>4. \A q \in Threads : ~Finishes(q, k)
    BY <2>1, PlainNeverFinishes DEF Finishes, Plain
  <2>5. CASE s = me[p].sub /\ k = me[p].task
    BY <2>2, <2>3, <2>5
  <2>6. CASE s \in registered[k]
    <3>1. s \in Subs /\ phase[s] # "new"
      BY <2>6 DEF Base, TypeOK, Owners
    <3>2. phase[s] = "open"
      BY <2>1, <2>2, <3>1
    <3> QED BY <2>2, <2>3, <2>4, <2>6, <3>2 DEF OverInv
  <2> QED BY <2>1, <2>5, <2>6
<1>2. ASSUME ~Crash, NEW p \in Threads, Call(p) \/ Step(p), ~addSubscriber(p) PROVE OverInv'
  BY <1>2, OnwardSteps, OverFromOnward
<1>3. ASSUME ~Crash, UNCHANGED <<registered, phase, late, me>> PROVE OverInv'
  <2>1. \A k \in Tasks : Onward(k)
    BY <1>3 DEF Onward, Finishes
  <2> QED BY <1>3, <2>1, OverFromOnward
<1>4. ASSUME ~Crash, NEW k \in Tasks, ExpireTask(k) PROVE OverInv'
  BY <1>3, <1>4 DEF ExpireTask, Vanish, streams
<1>5. ASSUME ~Crash, NEW s \in Subs, Receive(s) PROVE OverInv'
  BY <1>3, <1>5 DEF Receive
<1>6. CASE Crash
  BY <1>6 DEF Crash, OverInv
<1>7. CASE ~Crash /\ UNCHANGED vars
  BY <1>3, <1>7 DEF vars, streams
<1> QED BY <1>1, <1>2, <1>4, <1>5, <1>6, <1>7 DEF Next

(* When a task is in a final state and nobody is on the way to clean its       *)
(* subscribers, the streams still open on its list were opened on a task that *)
(* was over: through the races of AddSubscriber with the two cleanups, and    *)
(* whoever updates the task.  A Set that failed or was overwritten does not    *)
(* matter; one that made the task final with its reply lost does, until an     *)
(* update that is tried again gets its reply.                               *)
THEOREM OverTasksAreClosed == Spec => []OverMeansClosed
<1>1. Init => OverInv
  BY DEF Init, OverInv
<1>2. OverInv => OverMeansClosed
  BY DEF OverInv, OverMeansClosed, Finishes
<1> QED BY BaseInvariant, <1>1, <1>2, OverStep, PTL DEF Spec

-----------------------------------------------------------------------------
(* What the streams hand out, when one goroutine updates each task. *)

SingleWriter == \A k \in Tasks : \A p, q \in Writers[k] : p = q

(* In notifySubscribers; Ahead are the streams it has not sent on yet. *)
Notifying(l) ==
    l.pc \in {"notify", "send", "blocked", "cleanupFailed"} /\ l.does # "send"

Ahead(l) == l.todo \cup IF l.pc \in {"send", "blocked"} THEN {l.sub} ELSE {}

(* A round of notifySubscribers: what it has to send on has not missed an event *)
(* and has not got its final one, and what failed is closed or full.         *)
RoundOK(l) ==
    /\ \A s \in l.failed : owner[s] = l.task /\ (phase[s] = "closed" \/ story[s] = "missed")
    /\ \A s \in Ahead(l) :
          /\ owner[s] = l.task /\ phase[s] \in {"open", "closed"}
          /\ phase[s] = "open" => story[s] \in {"none", "update"}
    /\ l.pc \in {"send", "blocked"} => l.sub \notin l.todo

Rounds == \A p \in Threads : Notifying(me[p]) => RoundOK(me[p])

(* The goroutine that sent the final event on s and is going to close it. *)
Ending(l, k, s) ==
    /\ l.does = "final" /\ l.task = k
    /\ \/ Notifying(l) /\ s \notin Ahead(l)
       \/ l.pc \in {"cleanSubs", "closing"}

(* An open stream that missed an event has left its list, or is about to; one *)
(* that got its final event is about to be closed.                          *)
Stories ==
    \A s \in Subs :
        /\ phase[s] \in {"unused", "new"} => story[s] = "none"
        /\ story[s] \notin {"gap", "afterFinal"}
        /\ phase[s] = "open" /\ story[s] = "missed" /\ s \in registered[owner[s]] =>
              \E p \in Writers[owner[s]] : Notifying(me[p]) /\ s \in me[p].failed
        /\ phase[s] = "open" /\ story[s] = "final" =>
              \E p \in Writers[owner[s]] : Ending(me[p], owner[s], s)

SInv == Rounds /\ Stories /\ OnlyFullStreamsDropped

LEMMA NotifyingFacts ==
    ASSUME Base, NEW p \in Threads, Notifying(me[p])
    PROVE  /\ me[p].task \in Tasks /\ p \in Writers[me[p].task]
           /\ Ahead(me[p]) \subseteq Subs /\ me[p].failed \subseteq Subs
<1>1. me[p] \in Locals /\ LocalOK(p, me[p])
  BY LocalsTyped
<1>2. me[p].does \in Updates
  BY <1>1 DEF LocalOK, Notifying, Updates
<1>3. me[p].task \in Tasks /\ p \in Writers[me[p].task]
  BY <1>1, <1>2 DEF LocalOK, Updates
<1>4. me[p].pc \in {"send", "blocked"} => me[p].sub \in Subs
  BY <1>1 DEF LocalOK
<1>5. me[p].todo \subseteq Subs /\ me[p].failed \subseteq Subs
  BY <1>1 DEF Locals
<1> QED BY <1>3, <1>4, <1>5 DEF Ahead

LEMMA OpenHasOwner ==
    ASSUME Base, NEW s \in Subs, phase[s] = "open"
    PROVE  owner[s] \in Tasks /\ Writers[owner[s]] \subseteq Threads
  BY WritersAssumption DEF Base, Owners

(* Nobody else notifies about the task of a stream. *)
LEMMA OneNotifies ==
    ASSUME Base, SInv, SingleWriter, NEW p \in Threads, NEW q \in Threads,
           Notifying(me[q]), p \in Writers[me[q].task]
    PROVE  q = p
  BY NotifyingFacts DEF SingleWriter

-----------------------------------------------------------------------------
(* A step that tells no stream's story further: streams may be closed, and the *)
(* full ones may leave their list.                                          *)
LEMMA StoriesFrame ==
    ASSUME Base, SInv, UNCHANGED <<owner, story>>,
           \A s \in Subs : \/ phase'[s] = phase[s]
                           \/ phase'[s] = "closed"
                           \/ phase[s] = "unused" /\ phase'[s] = "new",
           \A s \in Subs : phase'[s] = "open" =>
               /\ s \in registered'[owner[s]] => s \in registered[owner[s]]
               /\ s \in registered[owner[s]] /\ story[s] # "missed" => s \in registered'[owner[s]],
           \A q \in Threads : Notifying(me'[q]) =>
               /\ Notifying(me[q]) /\ me'[q].task = me[q].task
               /\ Ahead(me'[q]) \subseteq Ahead(me[q])
               /\ \A s \in me'[q].failed :
                     s \in me[q].failed \/ (owner[s] = me[q].task /\ phase'[s] = "closed")
               /\ me'[q].pc \in {"send", "blocked"} => me'[q].sub \notin me'[q].todo,
           \A q \in Threads : \A s \in Subs :
               Notifying(me[q]) /\ s \in me[q].failed /\ phase'[s] = "open"
                 /\ s \in registered'[owner[s]] => Notifying(me'[q]) /\ s \in me'[q].failed,
           \A q \in Threads : \A s \in Subs :
               Ending(me[q], owner[s], s) /\ phase'[s] = "open" /\ story[s] = "final"
               => Ending(me'[q], owner[s], s)
    PROVE  SInv'
<1>1. Rounds'
  <2> SUFFICES ASSUME NEW q \in Threads, Notifying(me'[q])
               PROVE  RoundOK(me[q])'
    BY DEF Rounds, Notifying
  <2>1. /\ Notifying(me[q]) /\ me'[q].task = me[q].task
        /\ Ahead(me'[q]) \subseteq Ahead(me[q])
        /\ \A s \in me'[q].failed :
              s \in me[q].failed \/ (owner[s] = me[q].task /\ phase'[s] = "closed")
        /\ me'[q].pc \in {"send", "blocked"} => me'[q].sub \notin me'[q].todo
    OBVIOUS
  <2>2. RoundOK(me[q]) /\ Ahead(me[q]) \subseteq Subs /\ me[q].failed \subseteq Subs
    BY <2>1, NotifyingFacts DEF SInv, Rounds
  <2>3. \A s \in me'[q].failed :
            owner'[s] = me'[q].task /\ (phase'[s] = "closed" \/ story'[s] = "missed")
    BY <2>1, <2>2 DEF RoundOK
  <2>4. \A s \in Ahead(me'[q]) :
            /\ owner'[s] = me'[q].task /\ phase'[s] \in {"open", "closed"}
            /\ phase'[s] = "open" => story'[s] \in {"none", "update"}
    BY <2>1, <2>2 DEF RoundOK
  <2> QED BY <2>1, <2>3, <2>4 DEF RoundOK, Ahead
<1>2. Stories'
  <2> SUFFICES ASSUME NEW s \in Subs
               PROVE  /\ phase'[s] \in {"unused", "new"} => story'[s] = "none"
                      /\ story'[s] \notin {"gap", "afterFinal"}
                      /\ phase'[s] = "open" /\ story'[s] = "missed" /\ s \in registered'[owner'[s]] =>
                            \E p \in Writers[owner'[s]] : Notifying(me'[p]) /\ s \in me'[p].failed
                      /\ phase'[s] = "open" /\ story'[s] = "final" =>
                            \E p \in Writers[owner'[s]] : Ending(me'[p], owner'[s], s)
    BY DEF Stories, Notifying, Ending, Ahead
  <2>1. phase'[s] \in {"unused", "new"} => story'[s] = "none"
    BY DEF SInv, Stories
  <2>2. story'[s] \notin {"gap", "afterFinal"}
    BY DEF SInv, Stories
  <2>3. ASSUME phase'[s] = "open", story'[s] = "missed", s \in registered'[owner'[s]]
        PROVE  \E p \in Writers[owner'[s]] : Notifying(me'[p]) /\ s \in me'[p].failed
    <3>1. phase[s] = "open" /\ story[s] = "missed" /\ s \in registered[owner[s]]
      BY <2>3
    <3>2. PICK p \in Writers[owner[s]] : Notifying(me[p]) /\ s \in me[p].failed
      BY <3>1 DEF SInv, Stories
    <3>3. p \in Threads
      BY <3>1, OpenHasOwner
    <3> QED BY <2>3, <3>2, <3>3
  <2>4. ASSUME phase'[s] = "open", story'[s] = "final"
        PROVE  \E p \in Writers[owner'[s]] : Ending(me'[p], owner'[s], s)
    <3>1. phase[s] = "open" /\ story[s] = "final"
      BY <2>4
    <3>2. PICK p \in Writers[owner[s]] : Ending(me[p], owner[s], s)
      BY <3>1 DEF SInv, Stories
    <3>3. p \in Threads
      BY <3>1, OpenHasOwner
    <3> QED BY <2>4, <3>1, <3>2, <3>3
  <2> QED BY <2>1, <2>2, <2>3, <2>4
<1>3. OnlyFullStreamsDropped'
  BY DEF SInv, OnlyFullStreamsDropped
<1> QED BY <1>1, <1>2, <1>3 DEF SInv

(* The step of one goroutine, over the same stories. *)
LEMMA MovesOn ==
    ASSUME Base, SInv, NEW p \in Threads, NEW x \in Locals, Become(p, x),
           UNCHANGED <<owner, story, phase, registered>>,
           Notifying(x) =>
               /\ Notifying(me[p]) /\ x.task = me[p].task
               /\ Ahead(x) \subseteq Ahead(me[p])
               /\ \A s \in x.failed :
                     s \in me[p].failed \/ (owner[s] = me[p].task /\ phase[s] = "closed")
               /\ x.pc \in {"send", "blocked"} => x.sub \notin x.todo,
           Notifying(me[p]) => me[p].failed = {} \/ (Notifying(x) /\ me[p].failed \subseteq x.failed),
           \A s \in Subs : Ending(me[p], owner[s], s) => Ending(x, owner[s], s)
    PROVE  SInv'
<1>1. me'[p] = x /\ \A q \in Threads : q # p => me'[q] = me[q]
  BY BecomeMoves DEF Base
<1>2. \A q \in Threads : Notifying(me'[q]) =>
         /\ Notifying(me[q]) /\ me'[q].task = me[q].task
         /\ Ahead(me'[q]) \subseteq Ahead(me[q])
         /\ \A s \in me'[q].failed :
               s \in me[q].failed \/ (owner[s] = me[q].task /\ phase'[s] = "closed")
         /\ me'[q].pc \in {"send", "blocked"} => me'[q].sub \notin me'[q].todo
  BY <1>1 DEF SInv, Rounds, RoundOK
<1>3. \A q \in Threads : \A s \in Subs :
         Notifying(me[q]) /\ s \in me[q].failed /\ phase'[s] = "open"
           /\ s \in registered'[owner[s]] => Notifying(me'[q]) /\ s \in me'[q].failed
  BY <1>1
<1>4. \A q \in Threads : \A s \in Subs :
         Ending(me[q], owner[s], s) => Ending(me'[q], owner[s], s)
  BY <1>1
<1> QED BY <1>2, <1>3, <1>4, StoriesFrame

LEMMA AsideTells == ASSUME Base, SInv, NEW p \in Threads, Aside(p) PROVE SInv'
<1>1. ~Notifying(me[p]) /\ ~Notifying(me'[p])
  BY DEF Aside, Plain, Apart, Notifying
<1>2. \A s \in Subs : ~Ending(me[p], owner[s], s)
  BY <1>1 DEF Aside, Plain, Ending
<1>3. \A q \in Threads : q # p => me'[q] = me[q]
  BY DEF Aside
<1>4. \A q \in Threads : Notifying(me'[q]) => me'[q] = me[q] /\ Notifying(me[q])
  BY <1>1, <1>3
<1>5. \A q \in Threads : Notifying(me'[q]) =>
         /\ Notifying(me[q]) /\ me'[q].task = me[q].task
         /\ Ahead(me'[q]) \subseteq Ahead(me[q])
         /\ \A s \in me'[q].failed :
               s \in me[q].failed \/ (owner[s] = me[q].task /\ phase'[s] = "closed")
         /\ me'[q].pc \in {"send", "blocked"} => me'[q].sub \notin me'[q].todo
  BY <1>4 DEF SInv, Rounds, RoundOK
<1>6. \A q \in Threads : \A s \in Subs :
         Notifying(me[q]) /\ s \in me[q].failed /\ phase'[s] = "open"
           /\ s \in registered'[owner[s]] => Notifying(me'[q]) /\ s \in me'[q].failed
  BY <1>1, <1>3
<1>7. \A q \in Threads : \A s \in Subs :
         Ending(me[q], owner[s], s) => Ending(me'[q], owner[s], s)
  BY <1>2, <1>3
<1>8. UNCHANGED <<owner, story, registered>>
      /\ \A s \in Subs : \/ phase'[s] = phase[s]
                         \/ phase'[s] = "closed"
                         \/ phase[s] = "unused" /\ phase'[s] = "new"
  BY DEF Aside
<1> QED BY <1>5, <1>6, <1>7, <1>8, StoriesFrame

LEMMA NotifyTells == ASSUME Base, SInv, NEW p \in Threads, NEW s \in Subs, Notify(p, s) PROVE SInv'
<1> DEFINE y == [me[p] EXCEPT !.pc = "send", !.todo = @ \ {s}, !.sub = s]
           z == [me[p] EXCEPT !.todo = @ \ {s}, !.failed = @ \cup {s}]
<1>1. /\ me[p].pc = "notify" /\ s \in me[p].todo
      /\ UNCHANGED <<owner, story, phase, registered>>
      /\ Become(p, IF phase[s] = "open" THEN y ELSE z)
  BY DEF Notify, At, Quiet, streams
<1>2. me[p] \in Locals /\ LocalOK(p, me[p])
  BY LocalsTyped
<1>3. me[p].does \in Updates /\ Notifying(me[p]) /\ Ahead(me[p]) = me[p].todo
  BY <1>1, <1>2 DEF LocalOK, Notifying, Ahead, Updates
<1>4. RoundOK(me[p])
  BY <1>3 DEF SInv, Rounds
<1>5. CASE phase[s] = "open"
  <2>1. /\ y \in Locals /\ y.pc = "send" /\ y.sub = s /\ y.todo = me[p].todo \ {s}
        /\ y.task = me[p].task /\ y.does = me[p].does /\ y.failed = me[p].failed
    BY <1>2 DEF Locals
  <2>2. Become(p, y)
    BY <1>1, <1>5
  <2> HIDE DEF y
  <2>3. Notifying(y) /\ Ahead(y) = me[p].todo
    BY <1>1, <1>3, <2>1 DEF Notifying, Ahead
  <2>4. \A r \in Subs : Ending(me[p], owner[r], r) => Ending(y, owner[r], r)
    BY <1>1, <1>3, <2>1, <2>3 DEF Ending
  <2> QED BY <1>1, <1>3, <2>1, <2>2, <2>3, <2>4, MovesOn
<1>6. CASE phase[s] # "open"
  <2>1. /\ z \in Locals /\ z.pc = "notify" /\ z.todo = me[p].todo \ {s}
        /\ z.task = me[p].task /\ z.does = me[p].does /\ z.failed = me[p].failed \cup {s}
    BY <1>1, <1>2 DEF Locals
  <2>2. Become(p, z)
    BY <1>1, <1>6
  <2> HIDE DEF z
  <2>3. Notifying(z) /\ Ahead(z) = me[p].todo \ {s}
    BY <1>3, <2>1 DEF Notifying, Ahead, Updates
  <2>4. \A r \in Subs : Ending(me[p], owner[r], r) => Ending(z, owner[r], r)
    BY <1>1, <1>3, <2>1, <2>3 DEF Ending
  <2>5. owner[s] = me[p].task /\ phase[s] = "closed"
    BY <1>1, <1>3, <1>4, <1>6 DEF RoundOK
  <2> QED BY <1>1, <1>3, <2>1, <2>2, <2>3, <2>4, <2>5, MovesOn
<1> QED BY <1>5, <1>6

LEMMA BlockTells == ASSUME Base, SInv, NEW p \in Threads, Block(p) PROVE SInv'
<1> DEFINE x == To(p, "blocked")
<1>1. /\ me[p].pc = "send" /\ Become(p, x) /\ x \in Locals
      /\ UNCHANGED <<owner, story, phase, registered>>
  BY BlockEffect
<1>2. /\ x.pc = "blocked" /\ x.sub = me[p].sub /\ x.todo = me[p].todo /\ x.task = me[p].task
      /\ x.does = me[p].does /\ x.failed = me[p].failed
  BY ToFields DEF Base, Labels
<1> HIDE DEF x
<1>3. Notifying(x) <=> Notifying(me[p])
  BY <1>1, <1>2 DEF Notifying
<1>4. Ahead(x) = Ahead(me[p])
  BY <1>1, <1>2 DEF Ahead
<1>5. \A r \in Subs : Ending(me[p], owner[r], r) => Ending(x, owner[r], r)
  BY <1>1, <1>2, <1>3, <1>4 DEF Ending
<1>6. Notifying(me[p]) => me[p].sub \notin me[p].todo
  BY <1>1 DEF SInv, Rounds, RoundOK
<1> QED BY <1>1, <1>2, <1>3, <1>4, <1>5, <1>6, MovesOn

LEMMA EndNotifyTells == ASSUME Base, SInv, NEW p \in Threads, EndNotify(p) PROVE SInv'
<1> DEFINE label == IF me[p].failed # {} THEN "cleanupFailed" ELSE AfterNotify(p)
           x == To(p, label)
<1>1. /\ me[p].pc = "notify" /\ me[p].todo = {} /\ Goto(p, label)
      /\ UNCHANGED <<owner, story, phase, registered>>
  BY DEF EndNotify, At, Quiet, streams
<1>2. /\ label \in {"idle", "cleanupFailed", "cleanSubs"}
      /\ label = "idle" => me[p].does # "final"
      /\ me[p].failed # {} <=> label = "cleanupFailed"
  BY DEF AfterNotify
<1>3. Become(p, x)
  BY <1>1, GotoTo
<1>4. Ahead(me[p]) = {} /\ (Notifying(me[p]) <=> me[p].does # "send")
  BY <1>1 DEF Ahead, Notifying
<1> HIDE DEF label
<1>5. CASE label = "idle"
  <2>1. x = Idle /\ ~Notifying(x)
    BY <1>5 DEF To, Notifying, Idle
  <2>2. \A r \in Subs : ~Ending(me[p], owner[r], r)
    BY <1>2, <1>5 DEF Ending
  <2>3. me[p].failed = {}
    BY <1>2, <1>5
  <2> QED BY <1>1, <1>3, <2>1, <2>2, <2>3, IdleIsLocal, MovesOn
<1>6. CASE label # "idle"
  <2>1. /\ x \in Locals /\ x.pc = label /\ x.todo = {} /\ x.task = me[p].task
        /\ x.does = me[p].does /\ x.failed = me[p].failed
    BY <1>1, <1>2, <1>6, ToFields DEF Base, Labels
  <2> HIDE DEF x
  <2>2. Ahead(x) = {} /\ (Notifying(x) <=> label = "cleanupFailed" /\ x.does # "send")
    BY <1>2, <2>1 DEF Ahead, Notifying
  <2>3. \A r \in Subs : Ending(me[p], owner[r], r) => Ending(x, owner[r], r)
    BY <1>1, <1>2, <1>4, <1>6, <2>1, <2>2 DEF Ending
  <2> QED BY <1>1, <1>2, <1>3, <1>4, <1>6, <2>1, <2>2, <2>3, MovesOn
<1> QED BY <1>5, <1>6

LEMMA cleanupFailedTells ==
    ASSUME Base, SInv, NEW p \in Threads, cleanupFailedSubscribers(p)
    PROVE  SInv'
<1> DEFINE x == To(p, AfterNotify(p))
<1>1. /\ me[p].pc = "cleanupFailed" /\ me[p].task \in Tasks /\ me[p].does \in Updates
      /\ Become(p, x) /\ x \in Locals /\ x.pc = AfterNotify(p)
      /\ registered'[me[p].task] = registered[me[p].task] \ me[p].failed
      /\ \A k \in Tasks : k # me[p].task => registered'[k] = registered[k]
      /\ UNCHANGED <<owner, phase, story>>
  BY cleanupFailedEffect
<1>2. /\ AfterNotify(p) \in {"idle", "cleanSubs"}
      /\ me[p].does = "final" => AfterNotify(p) = "cleanSubs"
  BY DEF AfterNotify
<1>3. AfterNotify(p) # "idle" => x.task = me[p].task /\ x.does = me[p].does
  BY <1>2, ToFields DEF Base, Labels
<1> HIDE DEF x
<1>4. me'[p] = x /\ \A q \in Threads : q # p => me'[q] = me[q]
  BY <1>1, BecomeMoves DEF Base
<1>5. Notifying(me[p]) /\ ~Notifying(x)
  BY <1>1, <1>2 DEF Notifying, Updates
<1>6. RoundOK(me[p])
  BY <1>5 DEF SInv, Rounds
<1>7. \A s \in Subs : phase'[s] = "open" =>
         /\ s \in registered'[owner[s]] => s \in registered[owner[s]]
         /\ s \in registered[owner[s]] /\ story[s] # "missed" => s \in registered'[owner[s]]
  <2> SUFFICES ASSUME NEW s \in Subs, phase[s] = "open"
               PROVE  /\ s \in registered'[owner[s]] => s \in registered[owner[s]]
                      /\ s \in registered[owner[s]] /\ story[s] # "missed" =>
                            s \in registered'[owner[s]]
    BY <1>1
  <2>1. owner[s] \in Tasks
    BY OpenHasOwner
  <2>2. s \in me[p].failed => story[s] = "missed"
    BY <1>6 DEF RoundOK
  <2> QED BY <1>1, <2>1, <2>2
<1>8. \A q \in Threads : Notifying(me'[q]) =>
         /\ Notifying(me[q]) /\ me'[q].task = me[q].task
         /\ Ahead(me'[q]) \subseteq Ahead(me[q])
         /\ \A s \in me'[q].failed :
               s \in me[q].failed \/ (owner[s] = me[q].task /\ phase'[s] = "closed")
         /\ me'[q].pc \in {"send", "blocked"} => me'[q].sub \notin me'[q].todo
  BY <1>4, <1>5 DEF SInv, Rounds, RoundOK
<1>9. \A q \in Threads : \A s \in Subs :
         Notifying(me[q]) /\ s \in me[q].failed /\ phase'[s] = "open"
           /\ s \in registered'[owner[s]] => Notifying(me'[q]) /\ s \in me'[q].failed
  <2>1. \A s \in me[p].failed : s \notin registered'[owner[s]]
    BY <1>1, <1>6 DEF RoundOK
  <2> QED BY <1>4, <2>1
<1>10. \A q \in Threads : \A s \in Subs :
         Ending(me[q], owner[s], s) => Ending(me'[q], owner[s], s)
  <2>1. \A s \in Subs : Ending(me[p], owner[s], s) => Ending(x, owner[s], s)
    BY <1>1, <1>2, <1>3 DEF Ending
  <2> QED BY <1>4, <2>1
<1> QED BY <1>1, <1>7, <1>8, <1>9, <1>10, StoriesFrame

LEMMA cleanSubscribersTells ==
    ASSUME Base, SInv, NEW p \in Threads, cleanSubscribers(p)
    PROVE  SInv'
<1> DEFINE x == [me[p] EXCEPT !.pc = "closing",
                              !.todo = UNION {registered[k] : k \in Closes(p)}]
<1>1. /\ me[p].pc = "cleanSubs" /\ Become(p, x) /\ x \in Locals /\ x.pc = "closing"
      /\ x.does = me[p].does /\ x.task = me[p].task
      /\ UNCHANGED <<registered, owner, phase, story>>
  BY cleanSubscribersEffect
<1> HIDE DEF x
<1>2. ~Notifying(x) /\ ~Notifying(me[p])
  BY <1>1 DEF Notifying
<1>3. \A s \in Subs : Ending(me[p], owner[s], s) => Ending(x, owner[s], s)
  BY <1>1, <1>2 DEF Ending
<1> QED BY <1>1, <1>2, <1>3, MovesOn

(* The steps of the closing loop. *)
LEMMA ClosingTells ==
    ASSUME Base, SInv, NEW p \in Threads, NEW x \in Locals, Become(p, x),
           me[p].pc = "closing", ~Notifying(x), UNCHANGED <<owner, story>>,
           \A s \in Subs : phase'[s] = phase[s] \/ phase'[s] = "closed",
           \A s \in Subs : phase'[s] = "open" =>
               (s \in registered'[owner[s]] <=> s \in registered[owner[s]]),
           \A s \in Subs : Ending(me[p], owner[s], s) /\ phase'[s] = "open" /\ story[s] = "final"
               => Ending(x, owner[s], s)
    PROVE  SInv'
<1>1. me'[p] = x /\ \A q \in Threads : q # p => me'[q] = me[q]
  BY BecomeMoves DEF Base
<1>2. ~Notifying(me[p])
  BY DEF Notifying
<1>3. \A q \in Threads : Notifying(me'[q]) =>
         /\ Notifying(me[q]) /\ me'[q].task = me[q].task
         /\ Ahead(me'[q]) \subseteq Ahead(me[q])
         /\ \A s \in me'[q].failed :
               s \in me[q].failed \/ (owner[s] = me[q].task /\ phase'[s] = "closed")
         /\ me'[q].pc \in {"send", "blocked"} => me'[q].sub \notin me'[q].todo
  BY <1>1, <1>2 DEF SInv, Rounds, RoundOK
<1>4. \A q \in Threads : \A s \in Subs :
         Notifying(me[q]) /\ s \in me[q].failed /\ phase'[s] = "open"
           /\ s \in registered'[owner[s]] => Notifying(me'[q]) /\ s \in me'[q].failed
  BY <1>1, <1>2
<1>5. \A q \in Threads : \A s \in Subs :
         Ending(me[q], owner[s], s) /\ phase'[s] = "open" /\ story[s] = "final"
         => Ending(me'[q], owner[s], s)
  BY <1>1
<1> QED BY <1>3, <1>4, <1>5, StoriesFrame

LEMMA CloseSubTells ==
    ASSUME Base, SInv, NEW p \in Threads, NEW s \in Subs, CloseSub(p, s)
    PROVE  SInv'
<1> DEFINE x == [me[p] EXCEPT !.todo = @ \ {s}]
<1>1. /\ me[p].pc = "closing"
      /\ phase'[s] = "closed" /\ \A r \in Subs : r # s => phase'[r] = phase[r]
      /\ Become(p, x) /\ x \in Locals /\ x.pc = "closing"
      /\ x.does = me[p].does /\ x.task = me[p].task
      /\ UNCHANGED <<registered, owner, story>>
  BY CloseSubEffect
<1> HIDE DEF x
<1>2. ~Notifying(x)
  BY <1>1 DEF Notifying
<1>3. \A r \in Subs : Ending(me[p], owner[r], r) => Ending(x, owner[r], r)
  BY <1>1 DEF Ending, Notifying
<1> QED BY <1>1, <1>2, <1>3, ClosingTells

LEMMA EndClosingTells == ASSUME Base, SInv, NEW p \in Threads, EndClosing(p) PROVE SInv'
<1> DEFINE x == To(p, AfterClosing(p))
<1>1. /\ me[p].pc = "closing" /\ Closes(p) \subseteq Tasks
      /\ \A k \in Closes(p) : \A s \in registered[k] : phase[s] = "closed"
      /\ \A k \in Closes(p) : registered'[k] = {}
      /\ \A k \in Tasks \ Closes(p) : registered'[k] = registered[k]
      /\ Become(p, x) /\ x \in Locals
      /\ x.pc \in {"dropCancel", "del", "disconnect", "idle"}
      /\ UNCHANGED <<owner, phase, story>>
  BY EndClosingEffect
<1> HIDE DEF x
<1>2. ~Notifying(x)
  BY <1>1 DEF Notifying
<1>3. \A s \in Subs : phase[s] = "open" =>
          (s \in registered'[owner[s]] <=> s \in registered[owner[s]])
  BY <1>1, OpenHasOwner
<1>4. ASSUME NEW s \in Subs, Ending(me[p], owner[s], s), phase[s] = "open", story[s] = "final"
      PROVE  FALSE
  <2>1. s \in registered[owner[s]]
    BY <1>4 DEF SInv, OnlyFullStreamsDropped
  <2>2. owner[s] \in Closes(p)
    BY <1>4 DEF Ending, Closes
  <2> QED BY <1>1, <1>4, <2>1, <2>2
<1> QED BY <1>1, <1>2, <1>3, <1>4, ClosingTells

LEMMA CrashTells == ASSUME Base, SInv, Crash PROVE SInv'
<1>1. /\ \A p \in Threads : me'[p] = Idle
      /\ \A s \in Subs : phase'[s] = (IF phase[s] = "unused" THEN "unused" ELSE "closed")
      /\ UNCHANGED story
  BY DEF Crash
<1>2. \A p \in Threads : ~Notifying(me'[p])
  BY <1>1 DEF Notifying, Idle
<1>3. Rounds'
  BY <1>2 DEF Rounds, Notifying
<1>4. Stories'
  BY <1>1 DEF SInv, Stories
<1>5. OnlyFullStreamsDropped'
  BY <1>1 DEF OnlyFullStreamsDropped
<1> QED BY <1>3, <1>4, <1>5 DEF SInv

LEMMA addSubscriberTells == ASSUME Base, SInv, NEW p \in Threads, addSubscriber(p) PROVE SInv'
<1> DEFINE new == me[p].sub
<1>1. /\ me[p].pc = "add" /\ me[p].task \in Tasks /\ new \in Subs /\ phase[new] = "new"
      /\ me'[p] = Idle /\ \A q \in Threads : q # p => me'[q] = me[q]
      /\ story' = story
  BY addSubscriberEffect
<1>2. /\ registered'[me[p].task] = registered[me[p].task] \cup {new}
      /\ \A k \in Tasks : k # me[p].task => registered'[k] = registered[k]
  BY addSubscriberEffect
<1>3. /\ owner'[new] = me[p].task /\ phase'[new] = "open"
      /\ \A s \in Subs : s # new => owner'[s] = owner[s] /\ phase'[s] = phase[s]
  BY addSubscriberEffect
<1>4. story[new] = "none"
  BY <1>1 DEF SInv, Stories
<1>5. ~Notifying(me[p]) /\ ~Notifying(Idle)
  BY <1>1 DEF Notifying, Idle
<1> HIDE DEF new
<1>6. Rounds'
  <2> SUFFICES ASSUME NEW q \in Threads, Notifying(me'[q])
               PROVE  RoundOK(me[q])'
    BY DEF Rounds, Notifying
  <2>1. me'[q] = me[q] /\ Notifying(me[q])
    BY <1>1, <1>5
  <2>2. RoundOK(me[q]) /\ Ahead(me[q]) \subseteq Subs /\ me[q].failed \subseteq Subs
    BY <2>1, NotifyingFacts DEF SInv, Rounds
  <2>3. \A s \in Ahead(me[q]) : s # new
    BY <1>1, <2>2 DEF RoundOK
  <2>4. \A s \in me[q].failed : s # new
    BY <1>1, <1>4, <2>2 DEF RoundOK
  <2>5. \A s \in Ahead(me[q]) :
            /\ owner'[s] = me[q].task /\ phase'[s] \in {"open", "closed"}
            /\ phase'[s] = "open" => story'[s] \in {"none", "update"}
    BY <1>1, <1>3, <2>2, <2>3 DEF RoundOK
  <2>6. \A s \in me[q].failed :
            owner'[s] = me[q].task /\ (phase'[s] = "closed" \/ story'[s] = "missed")
    BY <1>1, <1>3, <2>2, <2>4 DEF RoundOK
  <2> QED BY <2>1, <2>2, <2>5, <2>6 DEF RoundOK, Ahead
<1>7. Stories'
  <2> SUFFICES ASSUME NEW s \in Subs
               PROVE  /\ phase'[s] \in {"unused", "new"} => story'[s] = "none"
                      /\ story'[s] \notin {"gap", "afterFinal"}
                      /\ phase'[s] = "open" /\ story'[s] = "missed" /\ s \in registered'[owner'[s]] =>
                            \E q \in Writers[owner'[s]] : Notifying(me'[q]) /\ s \in me'[q].failed
                      /\ phase'[s] = "open" /\ story'[s] = "final" =>
                            \E q \in Writers[owner'[s]] : Ending(me'[q], owner'[s], s)
    BY DEF Stories, Notifying, Ending, Ahead
  <2>1. CASE s = new
    BY <1>1, <1>3, <1>4, <2>1
  <2>2. CASE s # new
    <3>1. owner'[s] = owner[s] /\ phase'[s] = phase[s] /\ story'[s] = story[s]
      BY <1>1, <1>3, <2>2
    <3>2. ASSUME phase[s] = "open", story[s] = "missed", s \in registered'[owner[s]]
          PROVE  \E q \in Writers[owner[s]] : Notifying(me'[q]) /\ s \in me'[q].failed
      <4>1. s \in registered[owner[s]] /\ Writers[owner[s]] \subseteq Threads
        BY <1>1, <1>2, <2>2, <3>2, OpenHasOwner
      <4>2. PICK q \in Writers[owner[s]] : Notifying(me[q]) /\ s \in me[q].failed
        BY <3>2, <4>1 DEF SInv, Stories
      <4> QED BY <1>1, <1>5, <4>1, <4>2
    <3>3. ASSUME phase[s] = "open", story[s] = "final"
          PROVE  \E q \in Writers[owner[s]] : Ending(me'[q], owner[s], s)
      <4>1. PICK q \in Writers[owner[s]] : Ending(me[q], owner[s], s)
        BY <3>3 DEF SInv, Stories
      <4>2. q \in Threads
        BY <3>3, OpenHasOwner
      <4>3. q # p
        BY <1>1, <1>5, <4>1 DEF Ending
      <4> QED BY <1>1, <4>1, <4>2, <4>3
    <3>4. /\ phase[s] \in {"unused", "new"} => story[s] = "none"
          /\ story[s] \notin {"gap", "afterFinal"}
      BY DEF SInv, Stories
    <3> QED BY <3>1, <3>2, <3>3, <3>4
  <2> QED BY <2>1, <2>2
<1>8. OnlyFullStreamsDropped'
  <2> SUFFICES ASSUME NEW s \in Subs, phase'[s] = "open"
               PROVE  s \in registered'[owner'[s]] \/ story'[s] = "missed"
    BY DEF OnlyFullStreamsDropped
  <2>1. CASE s = new
    BY <1>2, <1>3, <2>1
  <2>2. CASE s # new
    <3>1. phase[s] = "open" /\ owner'[s] = owner[s]
      BY <1>3, <2>2
    <3>2. owner[s] \in Tasks /\ (s \in registered[owner[s]] \/ story[s] = "missed")
      BY <3>1, OpenHasOwner DEF SInv, OnlyFullStreamsDropped
    <3> QED BY <1>1, <1>2, <3>1, <3>2
  <2> QED BY <2>1, <2>2
<1> QED BY <1>6, <1>7, <1>8 DEF SInv

LEMMA SnapshotTells ==
    ASSUME Base, SInv, SingleWriter, NEW p \in Threads, Snapshot(p)
    PROVE  SInv'
<1> DEFINE k == me[p].task
           x == [me[p] EXCEPT !.pc = "notify", !.todo = registered[k]]
<1>1. /\ me[p].pc = "snapshot" /\ Become(p, x)
      /\ UNCHANGED <<owner, story, phase, registered>>
  BY DEF Snapshot, At, Quiet, streams
<1>2. me[p] \in Locals /\ LocalOK(p, me[p])
  BY LocalsTyped
<1>3. k \in Tasks /\ p \in Writers[k] /\ me[p].failed = {} /\ me[p].does \in Updates
  BY <1>1, <1>2 DEF LocalOK, Updates
<1>4. registered[k] \in SUBSET Subs
  BY <1>3 DEF Base, TypeOK
<1>5. /\ x \in Locals /\ x.pc = "notify" /\ x.todo = registered[k] /\ x.task = k
      /\ x.failed = {}
  BY <1>2, <1>3, <1>4 DEF Locals
<1> HIDE DEF x, k
<1>6. me'[p] = x /\ \A q \in Threads : q # p => me'[q] = me[q]
  BY <1>1, <1>5, BecomeMoves DEF Base
<1>7. ~Notifying(me[p]) /\ \A j, s : ~Ending(me[p], j, s)
  BY <1>1 DEF Notifying, Ending
<1>8. \A s \in registered[k] :
          /\ owner[s] = k /\ phase[s] \in {"open", "closed"}
          /\ phase[s] = "open" => story[s] \in {"none", "update"}
  <2> SUFFICES ASSUME NEW s \in registered[k]
               PROVE  /\ owner[s] = k /\ phase[s] \in {"open", "closed"}
                      /\ phase[s] = "open" => story[s] \in {"none", "update"}
    OBVIOUS
  <2>1. owner[s] = k /\ phase[s] \in {"open", "closed"} /\ s \in Subs
    BY <1>3, <1>4 DEF Base, Owners
  <2>2. \A q \in Writers[k] : q = p
    BY <1>3 DEF SingleWriter
  <2>3. phase[s] = "open" => story[s] \notin {"missed", "final", "gap", "afterFinal"}
    BY <1>7, <2>1, <2>2 DEF SInv, Stories
  <2>4. story[s] \in {"none", "update", "final", "missed", "afterFinal", "gap"}
    BY <2>1 DEF Base, TypeOK
  <2> QED BY <2>1, <2>3, <2>4
<1>9. Rounds'
  <2> SUFFICES ASSUME NEW q \in Threads, Notifying(me'[q])
               PROVE  RoundOK(me[q])'
    BY DEF Rounds, Notifying
  <2>1. CASE q = p
    <3>1. Ahead(x) = registered[k]
      BY <1>5 DEF Ahead
    <3> QED BY <1>1, <1>5, <1>6, <1>8, <2>1, <3>1 DEF RoundOK, Ahead
  <2>2. CASE q # p
    <3>1. me'[q] = me[q] /\ RoundOK(me[q])
      BY <1>6, <2>2 DEF SInv, Rounds
    <3> QED BY <1>1, <3>1 DEF RoundOK, Ahead
  <2> QED BY <2>1, <2>2
<1>10. Stories'
  <2> SUFFICES ASSUME NEW s \in Subs
               PROVE  /\ phase[s] \in {"unused", "new"} => story[s] = "none"
                      /\ story[s] \notin {"gap", "afterFinal"}
                      /\ phase[s] = "open" /\ story[s] = "missed" /\ s \in registered[owner[s]] =>
                            \E q \in Writers[owner[s]] : Notifying(me'[q]) /\ s \in me'[q].failed
                      /\ phase[s] = "open" /\ story[s] = "final" =>
                            \E q \in Writers[owner[s]] : Ending(me'[q], owner[s], s)
    BY <1>1 DEF Stories, Notifying, Ending, Ahead
  <2>1. \A q \in Threads : Notifying(me[q]) => me'[q] = me[q]
    BY <1>6, <1>7
  <2>2. \A q \in Threads : Ending(me[q], owner[s], s) => me'[q] = me[q]
    BY <1>6, <1>7
  <2>3. phase[s] = "open" => Writers[owner[s]] \subseteq Threads
    BY OpenHasOwner
  <2> QED BY <2>1, <2>2, <2>3 DEF SInv, Stories
<1>11. OnlyFullStreamsDropped'
  BY <1>1 DEF SInv, OnlyFullStreamsDropped
<1> QED BY <1>9, <1>10, <1>11 DEF SInv

(* A message processor's own Send tells no story. *)
LEMMA DirectTells ==
    ASSUME Base, SInv, NEW p \in Threads, me[p].pc \in {"send", "blocked"}, Direct(p),
           Become(p, Idle), UNCHANGED <<owner, story, phase, registered>>
    PROVE  SInv'
<1>1. ~Notifying(me[p]) /\ ~Notifying(Idle)
  BY DEF Notifying, Direct, Idle
<1>2. \A s \in Subs : ~Ending(me[p], owner[s], s)
  BY DEF Ending, Direct
<1> QED BY <1>1, <1>2, IdleIsLocal, MovesOn

LEMMA AcceptTells ==
    ASSUME Base, SInv, SingleWriter, NEW p \in Threads, Accept(p)
    PROVE  SInv'
<1> DEFINE to == me[p].sub
           x == AfterSend(p, {})
<1>1. /\ me[p].pc \in {"send", "blocked"} /\ to \in Subs /\ phase[to] = "open" /\ Become(p, x)
      /\ story'[to] = IF Direct(p) THEN story[to] ELSE Follow(story[to], me[p].does)
      /\ story' \in [Subs -> {"none", "update", "final", "missed", "afterFinal", "gap"}]
      /\ \A s \in Subs : s # to => story'[s] = story[s]
      /\ UNCHANGED <<registered, owner, phase>>
  BY AcceptEffect
<1>2. CASE Direct(p)
  <2>1. story' = story
    BY <1>1, <1>2 DEF Base, TypeOK
  <2>2. Become(p, Idle)
    BY <1>1, <1>2 DEF AfterSend
  <2> QED BY <1>1, <1>2, <2>1, <2>2, DirectTells
<1>3. CASE ~Direct(p)
  <2>1. me[p] \in Locals
    BY LocalsTyped
  <2>2. x = [me[p] EXCEPT !.pc = "notify", !.sub = None, !.failed = @ \cup {}]
    BY <1>3 DEF AfterSend
  <2>a. x \in Locals
    BY <1>1, AfterSendOK
  <2>b. me[p].failed \cup {} = me[p].failed
    OBVIOUS
  <2>c. x = [me[p] EXCEPT !.pc = "notify", !.sub = None, !.failed = me[p].failed]
    BY <2>2, <2>b
  <2>3. /\ x \in Locals /\ x.pc = "notify" /\ x.todo = me[p].todo /\ x.failed = me[p].failed
        /\ x.task = me[p].task /\ x.does = me[p].does
    BY <2>1, <2>a, <2>c DEF Locals
  <2> HIDE DEF x, to
  <2>4. me'[p] = x /\ \A q \in Threads : q # p => me'[q] = me[q]
    BY <1>1, <2>3, BecomeMoves DEF Base
  <2>5. Notifying(me[p]) /\ Notifying(x)
    BY <1>1, <1>3, <2>3 DEF Notifying, Direct
  <2>6. /\ me[p].task \in Tasks /\ p \in Writers[me[p].task]
        /\ RoundOK(me[p])
    BY <2>5, NotifyingFacts DEF SInv, Rounds
  <2>7. Ahead(me[p]) = me[p].todo \cup {to} /\ to \notin me[p].todo /\ Ahead(x) = me[p].todo
    BY <1>1, <2>3, <2>6 DEF Ahead, RoundOK, to
  <2>8. owner[to] = me[p].task /\ story[to] \in {"none", "update"}
    BY <1>1, <2>6, <2>7 DEF RoundOK
  <2>9. story'[to] \in {"update", "final"} /\ (story'[to] = "final" => me[p].does = "final")
    BY <1>1, <1>3, <2>8 DEF Follow
  <2>10. ASSUME NEW q \in Threads, q # p, Notifying(me[q])
         PROVE  to \notin Ahead(me[q]) /\ to \notin me[q].failed
    <3>1. RoundOK(me[q])
      BY <2>10 DEF SInv, Rounds
    <3>2. me[q].task # me[p].task
      BY <2>6, <2>10, OneNotifies
    <3> QED BY <2>8, <3>1, <3>2 DEF RoundOK
  <2>11. to \notin me[p].failed
    BY <1>1, <2>6, <2>8 DEF RoundOK
  <2>12. Rounds'
    <3> SUFFICES ASSUME NEW q \in Threads, Notifying(me'[q])
                 PROVE  RoundOK(me[q])'
      BY DEF Rounds, Notifying
    <3>1. CASE q = p
      <4>1. me[p].todo \subseteq Subs /\ me[p].failed \subseteq Subs
        BY <2>1 DEF Locals
      <4>2. \A s \in x.failed :
                owner'[s] = x.task /\ (phase'[s] = "closed" \/ story'[s] = "missed")
        BY <1>1, <2>3, <2>6, <2>11, <4>1 DEF RoundOK
      <4>3. \A s \in Ahead(x) :
                /\ owner'[s] = x.task /\ phase'[s] \in {"open", "closed"}
                /\ phase'[s] = "open" => story'[s] \in {"none", "update"}
        BY <1>1, <2>3, <2>6, <2>7, <4>1 DEF RoundOK
      <4> QED BY <2>3, <2>4, <3>1, <4>2, <4>3 DEF RoundOK, Ahead
    <3>2. CASE q # p
      <4>1. /\ me'[q] = me[q] /\ Notifying(me[q]) /\ RoundOK(me[q])
            /\ Ahead(me[q]) \subseteq Subs /\ me[q].failed \subseteq Subs
        BY <2>4, <3>2, NotifyingFacts DEF SInv, Rounds
      <4>2. \A s \in me[q].failed :
                owner'[s] = me[q].task /\ (phase'[s] = "closed" \/ story'[s] = "missed")
        BY <1>1, <2>10, <3>2, <4>1 DEF RoundOK
      <4>3. \A s \in Ahead(me[q]) :
                /\ owner'[s] = me[q].task /\ phase'[s] \in {"open", "closed"}
                /\ phase'[s] = "open" => story'[s] \in {"none", "update"}
        BY <1>1, <2>10, <3>2, <4>1 DEF RoundOK
      <4> QED BY <4>1, <4>2, <4>3 DEF RoundOK, Ahead
    <3> QED BY <3>1, <3>2
  <2>13. Stories'
    <3> SUFFICES ASSUME NEW s \in Subs
                 PROVE  /\ phase[s] \in {"unused", "new"} => story'[s] = "none"
                        /\ story'[s] \notin {"gap", "afterFinal"}
                        /\ phase[s] = "open" /\ story'[s] = "missed" /\ s \in registered[owner[s]] =>
                              \E q \in Writers[owner[s]] : Notifying(me'[q]) /\ s \in me'[q].failed
                        /\ phase[s] = "open" /\ story'[s] = "final" =>
                              \E q \in Writers[owner[s]] : Ending(me'[q], owner[s], s)
      BY <1>1 DEF Stories, Notifying, Ending, Ahead
    <3>1. CASE s = to
      <4>1. Ending(x, owner[to], to) \/ story'[to] # "final"
        BY <2>3, <2>5, <2>7, <2>8, <2>9 DEF Ending
      <4> QED BY <1>1, <2>4, <2>6, <2>8, <2>9, <3>1, <4>1
    <3>2. CASE s # to
      <4>1. story'[s] = story[s]
        BY <1>1, <3>2
      <4>2. \A q \in Threads : Notifying(me[q]) => Notifying(me'[q]) /\ me'[q].failed = me[q].failed
        BY <2>3, <2>4, <2>5
      <4>3. \A q \in Threads : Ending(me[q], owner[s], s) => Ending(me'[q], owner[s], s)
        <5>1. Ending(me[p], owner[s], s) => Ending(x, owner[s], s)
          BY <1>1, <2>3, <2>5, <2>7 DEF Ending
        <5> QED BY <2>4, <5>1
      <4>4. phase[s] = "open" => Writers[owner[s]] \subseteq Threads
        BY OpenHasOwner
      <4> QED BY <4>1, <4>2, <4>3, <4>4 DEF SInv, Stories
    <3> QED BY <3>1, <3>2
  <2>14. OnlyFullStreamsDropped'
    BY <1>1, <2>8 DEF SInv, OnlyFullStreamsDropped
  <2> QED BY <2>12, <2>13, <2>14 DEF SInv
<1> QED BY <1>2, <1>3

LEMMA RefuseTells ==
    ASSUME Base, SInv, SingleWriter, NEW p \in Threads, Refuse(p)
    PROVE  SInv'
<1> DEFINE to == me[p].sub
           x == AfterSend(p, {to})
<1>1. /\ me[p].pc = "send" /\ to \in Subs /\ phase[to] \in {"open", "closed"} /\ Become(p, x)
      /\ story' \in [Subs -> {"none", "update", "final", "missed", "afterFinal", "gap"}]
      /\ \A s \in Subs : s # to => story'[s] = story[s]
      /\ UNCHANGED <<registered, owner, phase>>
  BY RefuseEffect
<1>2. story'[to] = IF Direct(p) \/ phase[to] = "closed" \/ story[to] \in {"afterFinal", "gap"}
                   THEN story[to] ELSE "missed"
  BY RefuseEffect
<1>3. CASE Direct(p)
  <2>1. story' = story
    BY <1>1, <1>2, <1>3 DEF Base, TypeOK
  <2>2. Become(p, Idle)
    BY <1>1, <1>3 DEF AfterSend
  <2> QED BY <1>1, <1>3, <2>1, <2>2, DirectTells
<1>4. CASE ~Direct(p)
  <2>1. me[p] \in Locals
    BY LocalsTyped
  <2>2. x = [me[p] EXCEPT !.pc = "notify", !.sub = None, !.failed = @ \cup {to}]
    BY <1>4 DEF AfterSend
  <2>3. x \in Locals
    BY <1>1, AfterSendOK
  <2> HIDE DEF to
  <2>4. /\ x.pc = "notify" /\ x.todo = me[p].todo /\ x.failed = me[p].failed \cup {to}
        /\ x.task = me[p].task /\ x.does = me[p].does
    BY <2>1, <2>2 DEF Locals
  <2> HIDE DEF x
  <2>5. me'[p] = x /\ \A q \in Threads : q # p => me'[q] = me[q]
    BY <1>1, <2>3, BecomeMoves DEF Base
  <2>6. Notifying(me[p]) /\ Notifying(x)
    BY <1>1, <1>4, <2>4 DEF Notifying, Direct
  <2>7. me[p].task \in Tasks /\ p \in Writers[me[p].task] /\ RoundOK(me[p])
    BY <2>6, NotifyingFacts DEF SInv, Rounds
  <2>8. Ahead(me[p]) = me[p].todo \cup {to} /\ to \notin me[p].todo /\ Ahead(x) = me[p].todo
    BY <1>1, <2>4, <2>7 DEF Ahead, RoundOK, to
  <2>9. owner[to] = me[p].task /\ (phase[to] = "open" => story[to] \in {"none", "update"})
    BY <2>7, <2>8 DEF RoundOK
  <2>10. /\ phase[to] = "open" => story'[to] = "missed"
         /\ phase[to] = "closed" => story'[to] = story[to]
    BY <1>2, <1>4, <2>9
  <2>11. ASSUME NEW q \in Threads, q # p, Notifying(me[q])
         PROVE  to \notin Ahead(me[q]) /\ to \notin me[q].failed
    <3>1. RoundOK(me[q])
      BY <2>11 DEF SInv, Rounds
    <3>2. me[q].task # me[p].task
      BY <2>7, <2>11, OneNotifies
    <3> QED BY <2>9, <3>1, <3>2 DEF RoundOK
  <2>12. Rounds'
    <3> SUFFICES ASSUME NEW q \in Threads, Notifying(me'[q])
                 PROVE  RoundOK(me[q])'
      BY DEF Rounds, Notifying
    <3>1. CASE q = p
      <4>1. me[p].todo \subseteq Subs /\ me[p].failed \subseteq Subs
        BY <2>1 DEF Locals
      <4>2. \A s \in x.failed :
                owner'[s] = x.task /\ (phase'[s] = "closed" \/ story'[s] = "missed")
        <5>1. owner[to] = x.task /\ (phase[to] = "closed" \/ story'[to] = "missed")
          BY <1>1, <2>4, <2>9, <2>10
        <5>2. \A s \in me[p].failed : s # to =>
                  owner[s] = x.task /\ (phase[s] = "closed" \/ story'[s] = "missed")
          BY <1>1, <2>4, <2>7, <4>1 DEF RoundOK
        <5> QED BY <1>1, <2>4, <5>1, <5>2
      <4>3. \A s \in Ahead(x) :
                /\ owner'[s] = x.task /\ phase'[s] \in {"open", "closed"}
                /\ phase'[s] = "open" => story'[s] \in {"none", "update"}
        BY <1>1, <2>4, <2>7, <2>8, <4>1 DEF RoundOK
      <4> QED BY <2>4, <2>5, <3>1, <4>2, <4>3 DEF RoundOK, Ahead
    <3>2. CASE q # p
      <4>1. /\ me'[q] = me[q] /\ Notifying(me[q]) /\ RoundOK(me[q])
            /\ Ahead(me[q]) \subseteq Subs /\ me[q].failed \subseteq Subs
        BY <2>5, <3>2, NotifyingFacts DEF SInv, Rounds
      <4>2. \A s \in me[q].failed :
                owner'[s] = me[q].task /\ (phase'[s] = "closed" \/ story'[s] = "missed")
        BY <1>1, <2>11, <3>2, <4>1 DEF RoundOK
      <4>3. \A s \in Ahead(me[q]) :
                /\ owner'[s] = me[q].task /\ phase'[s] \in {"open", "closed"}
                /\ phase'[s] = "open" => story'[s] \in {"none", "update"}
        BY <1>1, <2>11, <3>2, <4>1 DEF RoundOK
      <4> QED BY <4>1, <4>2, <4>3 DEF RoundOK, Ahead
    <3> QED BY <3>1, <3>2
  <2>13. Stories'
    <3> SUFFICES ASSUME NEW s \in Subs
                 PROVE  /\ phase[s] \in {"unused", "new"} => story'[s] = "none"
                        /\ story'[s] \notin {"gap", "afterFinal"}
                        /\ phase[s] = "open" /\ story'[s] = "missed" /\ s \in registered[owner[s]] =>
                              \E q \in Writers[owner[s]] : Notifying(me'[q]) /\ s \in me'[q].failed
                        /\ phase[s] = "open" /\ story'[s] = "final" =>
                              \E q \in Writers[owner[s]] : Ending(me'[q], owner[s], s)
      BY <1>1 DEF Stories, Notifying, Ending, Ahead
    <3>1. CASE s = to /\ phase[to] = "open"
      BY <2>4, <2>5, <2>6, <2>7, <2>9, <2>10, <3>1
    <3>2. CASE s = to /\ phase[to] = "closed"
      BY <2>10, <3>2 DEF SInv, Stories
    <3>3. CASE s # to
      <4>1. story'[s] = story[s]
        BY <1>1, <3>3
      <4>2. \A q \in Threads : Notifying(me[q]) => Notifying(me'[q]) /\ me[q].failed \subseteq me'[q].failed
        BY <2>4, <2>5, <2>6
      <4>3. \A q \in Threads : Ending(me[q], owner[s], s) => Ending(me'[q], owner[s], s)
        <5>1. Ending(me[p], owner[s], s) => Ending(x, owner[s], s)
          BY <1>1, <2>4, <2>6, <2>8 DEF Ending
        <5> QED BY <2>5, <5>1
      <4>4. phase[s] = "open" => Writers[owner[s]] \subseteq Threads
        BY OpenHasOwner
      <4> QED BY <4>1, <4>2, <4>3, <4>4 DEF SInv, Stories
    <3> QED BY <1>1, <3>1, <3>2, <3>3
  <2>14. OnlyFullStreamsDropped'
    <3> SUFFICES ASSUME NEW s \in Subs, phase[s] = "open"
                 PROVE  s \in registered[owner[s]] \/ story'[s] = "missed"
      BY <1>1 DEF OnlyFullStreamsDropped
    <3>1. s \in registered[owner[s]] \/ story[s] = "missed"
      BY DEF SInv, OnlyFullStreamsDropped
    <3> QED BY <1>1, <2>10, <3>1
  <2> QED BY <2>12, <2>13, <2>14 DEF SInv
<1> QED BY <1>3, <1>4

LEMMA StillTells ==
    ASSUME Base, SInv, UNCHANGED <<registered, owner, phase, story, me>>
    PROVE  SInv'
<1>1. Rounds'
  BY DEF SInv, Rounds, RoundOK, Notifying, Ahead
<1>2. Stories' /\ OnlyFullStreamsDropped'
  BY DEF SInv, Stories, OnlyFullStreamsDropped, Notifying, Ending, Ahead
<1> QED BY <1>1, <1>2 DEF SInv

LEMMA StoriesStep ==
    ASSUME SingleWriter
    PROVE  Base /\ SInv /\ [Next]_vars => SInv'
<1> SUFFICES ASSUME Base, SInv, [Next]_vars PROVE SInv'
  OBVIOUS
<1>1. ASSUME NEW p \in Threads, Call(p) PROVE SInv'
  BY <1>1, CallAside, AsideTells
<1>2. ASSUME NEW p \in Threads, Locking(p) PROVE SInv'
  <2>1. CASE CloseOwn(p)
    BY <2>1, CloseOwnAside, AsideTells
  <2> QED BY <1>2, <2>1, addSubscriberTells, SnapshotTells, cleanupFailedTells,
             cleanSubscribersTells, AcceptTells, BlockTells, RefuseTells, CloseSubTells DEF Locking
<1>3. ASSUME NEW p \in Threads, Step(p) PROVE SInv'
  <2>1. ASSUME storeTask(p) \/ SetReplyLost(p) \/ CommandFails(p) \/ KeepCancel(p)
                 \/ DropCancel(p) \/ deleteTask(p) \/ Disconnect(p)
        PROVE  SInv'
    BY <2>1, PlainAside, AsideTells
  <2> QED BY <1>2, <1>3, <2>1, EndNotifyTells, EndClosingTells, NotifyTells DEF Step
<1>4. ASSUME NEW k \in Tasks, ExpireTask(k) PROVE SInv'
  BY <1>4, StillTells DEF ExpireTask, Vanish, streams
<1>5. ASSUME NEW s \in Subs, Receive(s) PROVE SInv'
  BY <1>5, StillTells DEF Receive
<1>6. CASE Crash
  BY <1>6, CrashTells
<1>7. CASE UNCHANGED vars
  BY <1>7, StillTells DEF vars, streams
<1> QED BY <1>1, <1>3, <1>4, <1>5, <1>6, <1>7 DEF Next

LEMMA StoriesInit == Init => SInv
<1> SUFFICES ASSUME Init PROVE SInv
  OBVIOUS
<1>1. \A p \in Threads : ~Notifying(me[p])
  BY DEF Init, Idle, Notifying
<1>2. \A s \in Subs : phase[s] = "unused" /\ story[s] = "none"
  BY DEF Init
<1> QED BY <1>1, <1>2 DEF SInv, Rounds, Stories, OnlyFullStreamsDropped

LEMMA StoriesInvariant == ASSUME SingleWriter PROVE Spec => []SInv
<1>1. Base /\ SInv /\ [Next]_vars => SInv'
  BY StoriesStep
<1> QED BY BaseInvariant, StoriesInit, <1>1, PTL DEF Spec

(* With one goroutine that updates each task, no stream misses an event and    *)
(* then gets a later one, and nothing follows its final event, through full   *)
(* queues, blocked sends, failed commands, cancels, Close and crashes.       *)
THEOREM RedisStreamsAreSound == ASSUME SingleWriter PROVE Spec => []StreamsAreSound
<1>1. SInv => StreamsAreSound
  BY DEF SInv, Stories, StreamsAreSound, NoGap, FinalIsLast
<1> QED BY StoriesInvariant, <1>1, PTL

(* With one goroutine that updates each task, an open stream leaves the list of *)
(* its task, so that nobody will close it, only when it was full.            *)
THEOREM RedisStreamsDropped == ASSUME SingleWriter PROVE Spec => []OnlyFullStreamsDropped
<1>1. SInv => OnlyFullStreamsDropped
  BY DEF SInv
<1> QED BY StoriesInvariant, <1>1, PTL

-----------------------------------------------------------------------------
(* What the readers of the streams are promised. *)

Untouched == UNCHANGED <<blocking, phase, queued, story>>

LEMMA QuietPromise == ASSUME Untouched PROVE UNCHANGED Promise!vars
  BY DEF Untouched, Promise!vars

LEMMA PlainPromise ==
    ASSUME NEW p \in Threads,
           \/ storeTask(p) \/ SetReplyLost(p) \/ CommandFails(p) \/ KeepCancel(p)
           \/ DropCancel(p) \/ deleteTask(p) \/ EndNotify(p) \/ EndClosing(p)
           \/ Disconnect(p) \/ \E s \in Subs : Notify(p, s)
    PROVE  Untouched
<1>1. CASE storeTask(p) \/ SetReplyLost(p)
  BY <1>1 DEF storeTask, SetReplyLost, streams, Untouched
<1>2. CASE CommandFails(p) \/ EndNotify(p) \/ \E s \in Subs : Notify(p, s)
  <2>1. CommandFails(p) \/ EndNotify(p) => Quiet
    BY DEF CommandFails, EndNotify
  <2>2. ASSUME NEW s \in Subs, Notify(p, s) PROVE Quiet
    BY <2>2 DEF Notify
  <2> QED BY <1>2, <2>1, <2>2 DEF Quiet, streams, Untouched
<1>3. CASE KeepCancel(p) \/ DropCancel(p)
  BY <1>3 DEF KeepCancel, DropCancel, streams, Untouched
<1>4. CASE deleteTask(p)
  BY <1>4 DEF deleteTask, Vanish, streams, Untouched
<1>5. CASE EndClosing(p) \/ Disconnect(p)
  BY <1>5 DEF EndClosing, Disconnect, streams, Untouched
<1> QED BY <1>1, <1>2, <1>3, <1>4, <1>5

LEMMA CallPromise ==
    ASSUME NEW p \in Threads, Call(p)
    PROVE  Untouched \/ \E s \in Subs : Promise!Make(s)
<1>1. ASSUME NEW k \in Tasks, NEW does, Get(p, k, does) PROVE Untouched
  BY <1>1 DEF Get, Quiet, streams, Untouched
<1>2. ASSUME NEW k \in Tasks, BuildTask(p, k) PROVE Untouched
  BY <1>2 DEF BuildTask, Quiet, streams, Untouched
<1>3. ASSUME NEW k \in Tasks, NEW final \in BOOLEAN, UpdateTaskState(p, k, final) PROVE Untouched
  BY <1>3, <1>1 DEF UpdateTaskState
<1>4. ASSUME NEW k \in Tasks, NEW a \in Artifacts, AddArtifact(p, k, a) PROVE Untouched
  BY <1>4 DEF AddArtifact, Quiet, streams, Untouched
<1>5. ASSUME NEW k \in Tasks, OnCancelTask(p, k) \/ CleanTask(p, k) PROVE Untouched
  <2>1. CASE OnCancelTask(p, k)
    BY <2>1, <1>1 DEF OnCancelTask
  <2>2. CASE CleanTask(p, k)
    BY <2>2 DEF CleanTask, Quiet, streams, Untouched
  <2> QED BY <1>5, <2>1, <2>2
<1>6. ASSUME NEW k \in Tasks, NEW s \in Subs, SubscribeTask(p, k, s) PROVE Promise!Make(s)
  BY <1>6 DEF SubscribeTask, Promise!Make
<1>7. ASSUME NEW s \in Subs, Send(p, s) \/ CloseSubscriber(p, s) PROVE Untouched
  BY <1>7 DEF Send, CloseSubscriber, Quiet, streams, Untouched
<1>8. CASE Close(p)
  BY <1>8 DEF Close, streams, Untouched
<1> QED BY <1>2, <1>3, <1>4, <1>5, <1>6, <1>7, <1>8 DEF Call

(* A stream that is open closes; one that is closed stays as it is. *)
LEMMA ClosesPromise ==
    ASSUME Base, NEW s \in Subs, phase[s] \in {"open", "closed"},
           phase' = [phase EXCEPT ![s] = "closed"], UNCHANGED <<blocking, queued, story>>
    PROVE  Promise!Close(s) \/ Untouched
<1>1. CASE phase[s] = "open"
  BY <1>1 DEF Promise!Close
<1>2. CASE phase[s] = "closed"
  BY <1>2 DEF Untouched, Base, TypeOK
<1> QED BY <1>1, <1>2

(* The writer sends on a stream that has missed nothing and has not got its     *)
(* final event.                                                             *)
LEMMA SendsAhead ==
    ASSUME Base, SInv, NEW p \in Threads, me[p].pc \in {"send", "blocked"}, ~Direct(p),
           phase[me[p].sub] = "open"
    PROVE  Promise!GoesOn(me[p].sub)
<1>1. Notifying(me[p]) /\ me[p].sub \in Ahead(me[p])
  BY DEF Notifying, Ahead, Direct
<1> QED BY <1>1 DEF SInv, Rounds, RoundOK, Promise!GoesOn

LEMMA AcceptPromise ==
    ASSUME Base, SInv, NEW p \in Threads, Accept(p)
    PROVE  \/ \E event \in {"update", "final"} : Promise!Deliver(me[p].sub, event)
           \/ Promise!SendDirect(me[p].sub)
<1> DEFINE s == me[p].sub
<1>1. s \in Subs /\ phase[s] = "open" /\ me[p].pc \in {"send", "blocked"}
  BY AcceptEffect
<1>2. /\ queued[s] < BufSize
      /\ queued' = [queued EXCEPT ![s] = @ + 1]
      /\ story' = [story EXCEPT ![s] = IF Direct(p) THEN @ ELSE Follow(@, me[p].does)]
      /\ UNCHANGED <<blocking, phase>>
  BY DEF Accept
<1>3. Promise!Room(s)
  BY <1>1, <1>2 DEF Promise!Room
<1>4. CASE Direct(p)
  <2>1. story' = story
    BY <1>2, <1>4 DEF Base, TypeOK
  <2> QED BY <1>2, <1>3, <2>1 DEF Promise!SendDirect
<1>5. CASE ~Direct(p)
  <2>1. Promise!GoesOn(s)
    BY <1>1, <1>5, SendsAhead
  <2>2. Follow(story[s], me[p].does) \in {"update", "final"}
    BY <2>1 DEF Promise!GoesOn, Follow
  <2>3. story' = [story EXCEPT ![s] = Follow(story[s], me[p].does)]
    BY <1>2, <1>5
  <2>4. Promise!Deliver(s, Follow(story[s], me[p].does))
    BY <1>2, <1>3, <2>1, <2>3 DEF Promise!Deliver
  <2> QED BY <2>2, <2>4
<1> QED BY <1>4, <1>5

LEMMA RefusePromise ==
    ASSUME Base, SInv, NEW p \in Threads, Refuse(p)
    PROVE  Promise!Miss(me[p].sub) \/ Untouched
<1> DEFINE s == me[p].sub
<1>1. s \in Subs /\ phase[s] \in {"open", "closed"} /\ me[p].pc = "send"
  BY RefuseEffect
<1>2. /\ phase[s] = "closed" \/ (~blocking /\ queued[s] = BufSize)
      /\ story' = [story EXCEPT ![s] =
                      IF Direct(p) \/ phase[s] = "closed" \/ @ \in {"afterFinal", "gap"}
                      THEN @ ELSE "missed"]
      /\ UNCHANGED <<blocking, phase, queued>>
  BY DEF Refuse
<1>3. CASE Direct(p) \/ phase[s] = "closed"
  <2>1. story' = story
    BY <1>2, <1>3 DEF Base, TypeOK
  <2> QED BY <1>2, <2>1 DEF Untouched
<1>4. CASE ~Direct(p) /\ phase[s] = "open"
  <2>1. Promise!GoesOn(s)
    BY <1>1, <1>4, SendsAhead
  <2>2. story' = [story EXCEPT ![s] = "missed"]
    BY <1>2, <1>4, <2>1 DEF Promise!GoesOn
  <2> QED BY <1>2, <1>4, <2>1, <2>2 DEF Promise!Miss
<1> QED BY <1>1, <1>3, <1>4

LEMMA LockingPromise ==
    ASSUME Base, SInv, NEW p \in Threads, Locking(p)
    PROVE  Untouched \/ \E s \in Subs :
              \/ Promise!Open(s) \/ Promise!Close(s) \/ Promise!Miss(s) \/ Promise!SendDirect(s)
              \/ \E event \in {"update", "final"} : Promise!Deliver(s, event)
<1>1. CASE addSubscriber(p)
  <2>1. me[p].sub \in Subs /\ phase[me[p].sub] = "new"
    BY <1>1, addSubscriberEffect
  <2>2. Promise!Open(me[p].sub)
    BY <1>1, <2>1 DEF addSubscriber, Promise!Open
  <2> QED BY <2>1, <2>2
<1>2. CASE Snapshot(p) \/ cleanupFailedSubscribers(p) \/ cleanSubscribers(p) \/ Block(p)
  <2>1. CASE Snapshot(p)
    BY <2>1 DEF Snapshot, Quiet, streams, Untouched
  <2>2. CASE cleanupFailedSubscribers(p) \/ cleanSubscribers(p) \/ Block(p)
    BY <2>2 DEF cleanupFailedSubscribers, cleanSubscribers, Block, Untouched
  <2> QED BY <1>2, <2>1, <2>2
<1>3. CASE CloseOwn(p)
  <2>1. me[p].sub \in Subs /\ phase[me[p].sub] \in {"open", "closed"}
    BY <1>3, LocalsTyped DEF CloseOwn, At, LocalOK, Base, Owners
  <2>2. phase' = [phase EXCEPT ![me[p].sub] = "closed"] /\ UNCHANGED <<blocking, queued, story>>
    BY <1>3 DEF CloseOwn
  <2> QED BY <2>1, <2>2, ClosesPromise
<1>4. CASE Accept(p)
  BY <1>4, AcceptPromise, AcceptEffect
<1>5. CASE Refuse(p)
  BY <1>5, RefusePromise, RefuseEffect
<1>6. ASSUME NEW s \in Subs, CloseSub(p, s) PROVE Promise!Close(s) \/ Untouched
  <2>1. phase[s] \in {"open", "closed"}
    BY <1>6 DEF CloseSub, At, Base, Locks
  <2>2. phase' = [phase EXCEPT ![s] = "closed"] /\ UNCHANGED <<blocking, queued, story>>
    BY <1>6 DEF CloseSub
  <2> QED BY <2>1, <2>2, ClosesPromise
<1> QED BY <1>1, <1>2, <1>3, <1>4, <1>5, <1>6 DEF Locking

LEMMA PromiseStep == Base /\ SInv /\ [Next]_vars => [Promise!Next]_(Promise!vars)
<1> SUFFICES ASSUME Base, SInv, [Next]_vars PROVE Promise!Next \/ Untouched
  BY QuietPromise
<1>1. ASSUME NEW p \in Threads, Call(p) PROVE Promise!Next \/ Untouched
  BY <1>1, CallPromise DEF Promise!Next
<1>2. ASSUME NEW p \in Threads, Step(p) PROVE Promise!Next \/ Untouched
  BY <1>2, PlainPromise, LockingPromise DEF Step, Promise!Next
<1>3. ASSUME NEW k \in Tasks, ExpireTask(k) PROVE Untouched
  BY <1>3 DEF ExpireTask, Vanish, streams, Untouched
<1>4. ASSUME NEW s \in Subs, Receive(s) PROVE Promise!Receive(s)
  BY <1>4 DEF Receive, Promise!Receive
<1>5. ASSUME Crash PROVE Promise!Crash
  BY <1>5 DEF Crash, Promise!Crash
<1>6. CASE UNCHANGED vars
  BY <1>6 DEF vars, streams, Untouched
<1> QED BY <1>1, <1>2, <1>3, <1>4, <1>5, <1>6 DEF Next, Promise!Next

(* With one goroutine that updates each task, the Redis manager keeps what       *)
(* TaskStreams promises to the readers: through full queues, senders that wait  *)
(* with the lock of their stream, failing commands and crashes, each of its    *)
(* steps is a step of it or leaves it unchanged.                             *)
THEOREM RedisKeepsPromise == ASSUME SingleWriter PROVE Spec => ImplementsTaskStreams
<1>1. Init => Promise!Init
  BY DEF Init, Promise!Init
<1>2. Base /\ SInv /\ [Next]_vars => [Promise!Next]_(Promise!vars)
  BY PromiseStep
<1> QED BY <1>1, <1>2, BaseInvariant, StoriesInvariant, PTL
           DEF Spec, ImplementsTaskStreams, Promise!SafeSpec

=============================================================================
