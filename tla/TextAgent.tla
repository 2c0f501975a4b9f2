------------------------------ MODULE TextAgent ------------------------------
(***************************************************************************)
(* The text processing agent and its interactive clients (examples/basic): a  *)
(* dialogue over several messages is kept in a session of the context, every   *)
(* message is worked on by a goroutine of its own, and a streamed answer goes  *)
(* through the subscriber's queue and the forwarder of pushNotificationSender. *)
(*                                                                          *)
(* A client types its script in one context, and waits for the end of each     *)
(* answer or gives up.  The messages of a context are numbered.  The task       *)
(* manager is as in MemoryTaskManager, its queues never full.                 *)
(***************************************************************************)
EXTENDS Naturals, Sequences

CONSTANTS
    Contexts,
    Scripts,   \* what may be typed in each context
    Longest,   \* a bound on the length of a script
    Hooked     \* the scripts beside which webhooks are registered

Texts == {"multi", "example", "word"}

ASSUME ScriptsAssumption ==
    /\ Longest \in Nat
    /\ Scripts \in [Contexts -> SUBSET Seq(Texts)]
    /\ \A c \in Contexts : \A s \in Scripts[c] : Len(s) <= Longest

Messages == Contexts \X (1..Longest)

VARIABLES
    script,     \* what is typed in each context
    typed,      \* how much of it was
    told,       \* how the client's wait for each message ended
    ended,      \* the context of each request is over
    sessions,   \* multiTurnSessions
    at,         \* where the goroutine of each message is
    session,    \* its copy of the session
    task,       \* the task of each message
    artifact,   \* its artifact: the mode it was made with
    queue,      \* the events in the channel of its subscriber
    closed,     \* the channel is closed
    forward,    \* the forwarder: "off" if the message is not streamed
    got,        \* the artifact its client has read
    hooks,      \* the tasks with a push configuration
    notes,      \* the goroutines that notify a webhook: task and status
    due,        \* history: the notifications for which there was a webhook
    notified,   \* what the webhooks were told
    failed,     \* history: the notifications that were logged as failed
    orderly     \* history: no two turns of the context overlapped, and none was
                \* cancelled before it came to the session

clients == <<script, typed, told, ended>>
turns == <<sessions, at, session, orderly>>
manager == <<task, artifact, queue, closed>>
pipe == <<forward, got>>
web == <<hooks, notes, due, notified, failed>>
agentVars == <<clients, turns, manager, pipe, web>>

(* The mode of a session is the number of the message it was typed in, or     *)
(* Reverse, or NoMode.                                                       *)
NoMode == Longest + 1
Reverse == 0
Modes == 0..NoMode

NoSession == [stage |-> 0, mode |-> NoMode, complete |-> TRUE]
Session == [stage : 0..3, mode : Modes, complete : BOOLEAN]
Events == {"working", "input", "artifact", "completed", "canceled"}
States == {"none", "submitted", "working", "input", "completed", "canceled", "removed"}

AgentTypeOK ==
    /\ script \in [Contexts -> Seq(Texts)] /\ typed \in [Contexts -> 0..Longest]
    /\ \A c \in Contexts : script[c] \in Scripts[c] /\ typed[c] <= Len(script[c])
    /\ told \in [Messages -> {"none", "waiting", "answered", "prompted", "final", "cut", "left"}]
    /\ ended \in [Messages -> BOOLEAN]
    /\ sessions \in [Contexts -> Session]
    /\ at \in [Messages -> {"none", "async", "decide", "turn", "new", "prompt",
                            "complete", "store", "done"}]
    /\ session \in [Messages -> Session]
    /\ task \in [Messages -> States]
    /\ artifact \in [Messages -> Modes]
    /\ queue \in [Messages -> Seq(Events)] /\ \A m \in Messages : Len(queue[m]) <= 3
    /\ closed \in [Messages -> BOOLEAN]
    /\ forward \in [Messages -> {"off", "on", "ended", "abandoned"}]
    /\ got \in [Messages -> BOOLEAN]
    /\ hooks \subseteq Messages
    /\ notes \cup due \cup notified \cup failed \subseteq Messages \X (Events \ {"artifact"})
    /\ orderly \in [Contexts -> BOOLEAN]

AgentInit ==
    /\ script \in {s \in [Contexts -> UNION {Scripts[c] : c \in Contexts}] :
                      \A c \in Contexts : s[c] \in Scripts[c]}
    /\ typed = [c \in Contexts |-> 0]
    /\ told = [m \in Messages |-> "none"]
    /\ ended = [m \in Messages |-> FALSE]
    /\ sessions = [c \in Contexts |-> NoSession]
    /\ at = [m \in Messages |-> "none"]
    /\ session = [m \in Messages |-> NoSession]
    /\ task = [m \in Messages |-> "none"]
    /\ artifact = [m \in Messages |-> NoMode]
    /\ queue = [m \in Messages |-> <<>>]
    /\ closed = [m \in Messages |-> FALSE]
    /\ forward = [m \in Messages |-> "off"]
    /\ got = [m \in Messages |-> FALSE]
    /\ hooks = {} /\ notes = {} /\ due = {} /\ notified = {} /\ failed = {}
    /\ orderly = [c \in Contexts |-> TRUE]

-----------------------------------------------------------------------------
(* The task manager, as far as this agent uses it. *)

Stored(m) == task[m] \notin {"none", "removed"}
Subscribed(m) == forward[m] = "on" /\ ~closed[m]
Notify(m, event) == queue' = IF Subscribed(m) THEN [queue EXCEPT ![m] = Append(@, event)] ELSE queue

BuildTask(m) == task' = [task EXCEPT ![m] = "submitted"]
SubscribeTask(m) == forward' = [forward EXCEPT ![m] = "on"]

UpdateTaskState(m, state) ==
    IF Stored(m)
    THEN /\ task' = [task EXCEPT ![m] = state]
         /\ Notify(m, state)
         /\ closed' = [closed EXCEPT ![m] = @ \/ state \in {"completed", "canceled"}]
    ELSE UNCHANGED <<task, queue, closed>>

(* Mutant of AddArtifact: the artifact goes out in two chunks. *)
AddChunks(m, mode) ==
    IF Stored(m)
    THEN /\ artifact' = [artifact EXCEPT ![m] = mode]
         /\ queue' = IF Subscribed(m) THEN [queue EXCEPT ![m] = @ \o <<"artifact", "artifact">>]
                     ELSE queue
    ELSE UNCHANGED <<artifact, queue>>

AddArtifact(m, mode) ==
    IF Stored(m)
    THEN artifact' = [artifact EXCEPT ![m] = mode] /\ Notify(m, "artifact")
    ELSE UNCHANGED <<artifact, queue>>

-----------------------------------------------------------------------------
(* The agent. *)

Text(m) == script[m[1]][m[2]]
Open(s) == s.stage # 0 /\ ~s.complete
Running(c) == {m \in Messages : m[1] = c /\ at[m] \notin {"none", "done"}}
Goes(m, to) == at' = [at EXCEPT ![m] = to]

processSimpleCommand(m) == Goes(m, "done") /\ UNCHANGED <<task, session>>
processMultiTurnSession(m) ==
    BuildTask(m) /\ session' = [session EXCEPT ![m] = sessions[m[1]]] /\ Goes(m, "turn")

(* A streamed message has its answer made by a goroutine; any other is         *)
(* answered at once, and the goroutine, if it needs one, takes the session as  *)
(* it is now.                                                                *)
ProcessMessage(m, streamed) ==
    IF streamed
    THEN BuildTask(m) /\ SubscribeTask(m) /\ Goes(m, "async") /\ session' = session
    ELSE /\ IF Open(sessions[m[1]]) THEN processMultiTurnSession(m)
            ELSE IF Text(m) = "word" THEN processSimpleCommand(m)
            ELSE BuildTask(m) /\ Goes(m, "async") /\ session' = session
         /\ forward' = forward

processMessageAsync(m) ==
    /\ at[m] = "async"
    /\ UpdateTaskState(m, "working")
    /\ Goes(m, IF Stored(m) THEN "decide" ELSE "done")
    /\ orderly' = [orderly EXCEPT ![m[1]] = @ /\ Stored(m)]
    /\ UNCHANGED <<web, clients, sessions, session, artifact, pipe>>

Decide(m) ==
    /\ at[m] = "decide"
    /\ session' = [session EXCEPT ![m] = sessions[m[1]]]
    /\ Goes(m, IF Open(sessions[m[1]]) THEN "turn" ELSE "new")
    /\ UNCHANGED <<web, clients, sessions, orderly, manager, pipe>>

(* The first turn is the mode: the client is asked for the text before the      *)
(* session is stored, and it is not stored when the task is gone.              *)
SelectMode(m) ==
    /\ at[m] = "turn" /\ session[m].stage = 1
    /\ session' = [session EXCEPT ![m] = [stage |-> 2, mode |-> m[2], complete |-> FALSE]]
    /\ UpdateTaskState(m, "input")
    /\ Goes(m, IF Stored(m) THEN "store" ELSE "done")
    /\ orderly' = [orderly EXCEPT ![m[1]] = @ /\ Stored(m)]
    /\ UNCHANGED <<web, clients, sessions, artifact, pipe>>

ProcessText(m) ==
    /\ at[m] = "turn" /\ session[m].stage = 2
    /\ session' = [session EXCEPT ![m].stage = 3, ![m].complete = TRUE]
    /\ AddArtifact(m, session[m].mode)
    /\ Goes(m, "complete")
    /\ UNCHANGED <<web, clients, sessions, orderly, task, closed, pipe>>

(* Mutant of Complete: a completed session is not stored. *)
CompleteOnly(m) ==
    /\ at[m] = "complete"
    /\ UpdateTaskState(m, "completed")
    /\ Goes(m, "done")
    /\ UNCHANGED <<web, clients, sessions, session, orderly, artifact, pipe>>

Complete(m) ==
    /\ at[m] = "complete"
    /\ UpdateTaskState(m, "completed")
    /\ Goes(m, IF session[m].stage = 3 THEN "store" ELSE "done")
    /\ UNCHANGED <<web, clients, sessions, session, orderly, artifact, pipe>>

Store(m) ==
    /\ at[m] = "store"
    /\ sessions' = [sessions EXCEPT ![m[1]] = session[m]]
    /\ Goes(m, "done")
    /\ UNCHANGED <<web, clients, session, orderly, manager, pipe>>

(* handleNewInteractionAsync, for a request that is over, for each of the two   *)
(* commands that begin a session and for a command that needs none.            *)
Cancelled(m) ==
    /\ at[m] = "new" /\ ended[m]
    /\ UpdateTaskState(m, "canceled")
    /\ Goes(m, "done")
    /\ orderly' = [orderly EXCEPT ![m[1]] = FALSE]
    /\ UNCHANGED <<web, clients, sessions, session, artifact, pipe>>

MultiStep(m) ==
    /\ at[m] = "new" /\ ~ended[m] /\ Text(m) = "multi"
    /\ sessions' = [sessions EXCEPT ![m[1]] = [stage |-> 1, mode |-> NoMode, complete |-> FALSE]]
    /\ Goes(m, "prompt")
    /\ UNCHANGED <<web, clients, session, orderly, manager, pipe>>

Prompt(m) ==
    /\ at[m] = "prompt"
    /\ UpdateTaskState(m, "input")
    /\ Goes(m, "done")
    /\ UNCHANGED <<web, clients, sessions, session, orderly, artifact, pipe>>

InputExample(m) ==
    /\ at[m] = "new" /\ ~ended[m] /\ Text(m) = "example"
    /\ UpdateTaskState(m, "input")
    /\ session' = [session EXCEPT ![m] = [stage |-> 2, mode |-> Reverse, complete |-> FALSE]]
    /\ Goes(m, "store")
    /\ UNCHANGED <<web, clients, sessions, orderly, artifact, pipe>>

Direct(m) ==
    /\ at[m] = "new" /\ ~ended[m] /\ Text(m) = "word"
    /\ AddArtifact(m, m[2])
    /\ session' = [session EXCEPT ![m] = NoSession]
    /\ Goes(m, "complete")
    /\ UNCHANGED <<web, clients, sessions, orderly, task, closed, pipe>>

-----------------------------------------------------------------------------
(* The forwarder hands one event after the other to the handler of the answer   *)
(* and closes its own channel at the end.  When nobody reads any more it holds   *)
(* the next event for ever: the events of an abandoned stream are not followed.  *)

Abandons(m) ==
    /\ forward' = [forward EXCEPT ![m] = "abandoned"]
    /\ queue' = [queue EXCEPT ![m] = <<>>]

(* Mutant of ForwardEnds: the channel it makes is not closed. *)
ForwardLeaves(m) ==
    /\ forward[m] = "on" /\ queue[m] = <<>> /\ closed[m]
    /\ Abandons(m)
    /\ UNCHANGED <<web, clients, turns, task, artifact, closed, got>>

ForwardEnds(m) ==
    /\ forward[m] = "on" /\ queue[m] = <<>> /\ closed[m]
    /\ forward' = [forward EXCEPT ![m] = "ended"]
    /\ UNCHANGED <<web, clients, turns, manager, got>>

-----------------------------------------------------------------------------
(* The clients. *)

Turn(c) == <<c, typed[c] + 1>>
AtPrompt(c) == typed[c] < Len(script[c]) /\ (typed[c] > 0 => told[<<c, typed[c]>>] # "waiting")

processUserInput(c) ==
    LET m == Turn(c)
    IN  /\ AtPrompt(c)
        /\ typed' = [typed EXCEPT ![c] = @ + 1]
        /\ \E streamed \in BOOLEAN :
              /\ ProcessMessage(m, streamed)
              /\ told' = [told EXCEPT ![m] = IF streamed THEN "waiting" ELSE "answered"]
        /\ orderly' = [orderly EXCEPT ![c] = @ /\ Running(c) = {}]
        /\ UNCHANGED <<web, script, ended, sessions, artifact, queue, closed, got>>

(* The forwarder starts a goroutine for every status it has handed on. *)
Notes(m, status) ==
    /\ notes' = IF script[m[1]] \in Hooked THEN notes \cup {<<m, status>>} ELSE notes
    /\ due' = IF m \in hooks THEN due \cup {<<m, status>>} ELSE due

(* What the client does with an event: an artifact is shown, a question and a   *)
(* final status end its wait, and its request with it.                       *)
processStreamResponse(m) ==
    /\ told[m] = "waiting" /\ forward[m] = "on" /\ queue[m] # <<>>
    /\ LET event == Head(queue[m])
       IN  /\ got' = [got EXCEPT ![m] = @ \/ event = "artifact"]
           /\ IF event \in {"input", "completed", "canceled"}
              THEN /\ told' = [told EXCEPT ![m] = IF event = "input" THEN "prompted" ELSE "final"]
                   /\ Abandons(m)
              ELSE /\ queue' = [queue EXCEPT ![m] = Tail(@)]
                   /\ UNCHANGED <<told, forward>>
    /\ IF Head(queue[m]) = "artifact" THEN UNCHANGED <<notes, due>> ELSE Notes(m, Head(queue[m]))
    /\ UNCHANGED <<script, typed, ended, turns, task, artifact, closed, hooks, notified,
                   failed>>

StreamClosed(m) ==
    /\ told[m] = "waiting" /\ forward[m] = "ended"
    /\ told' = [told EXCEPT ![m] = "cut"]
    /\ UNCHANGED <<web, script, typed, ended, turns, manager, pipe>>

(* The client's own timeout. *)
GivesUp(m) ==
    /\ told[m] = "waiting"
    /\ told' = [told EXCEPT ![m] = "left"]
    /\ Abandons(m)
    /\ UNCHANGED <<web, script, typed, ended, turns, task, artifact, closed, got>>

(* The request ends some time after its client has gone, or was answered; only   *)
(* a new interaction looks at that.                                           *)
RequestEnds(m) ==
    /\ told[m] \notin {"none", "waiting"} /\ ~ended[m]
    /\ at[m] \in {"async", "decide", "new"}
    /\ ended' = [ended EXCEPT ![m] = TRUE]
    /\ UNCHANGED <<web, script, typed, told, turns, manager, pipe>>

(* A client cancels a task that is or was streamed: its own last one, which it   *)
(* knows from the events, or one that is named to it.  To remove one whose        *)
(* goroutine has ended and that nobody reads makes no difference any more.        *)
(* The task goes with its push configuration, and then the webhook is to be told. *)
cancelTask(m) ==
    /\ told[m] \notin {"none", "answered"} /\ Stored(m)
    /\ at[m] # "done" \/ forward[m] = "on" \/ m \in hooks
    /\ task' = [task EXCEPT ![m] = "removed"]
    /\ closed' = [closed EXCEPT ![m] = TRUE]
    /\ hooks' = hooks \ {m}
    /\ notes' = IF script[m[1]] \in Hooked THEN notes \cup {<<m, "canceled">>} ELSE notes
    /\ UNCHANGED <<clients, turns, artifact, queue, pipe, due, notified, failed>>

(* A client registers a webhook for a task it has the ID of. *)
setPushNotification(m) ==
    /\ script[m[1]] \in Hooked /\ told[m] \notin {"none", "answered"}
    /\ hooks' = hooks \cup {m}
    /\ UNCHANGED <<clients, turns, manager, pipe, notes, due, notified, failed>>

(* The webhook prints what it is sent, whatever the order. *)
PushNotificationHandler(m, status) == notified' = notified \cup {<<m, status>>}

(* Mutant of sendStatus: the webhook is told once of each task. *)
sendOnce(m, status) ==
    /\ notified' = IF \E n \in notified : n[1] = m THEN notified ELSE notified \cup {<<m, status>>}
    /\ failed' = failed

(* One POST.  When it fails, is not answered within its timeout or is answered   *)
(* with a status of 400 or more, that is logged and it is not tried again; the   *)
(* webhook may have been told all the same.                                   *)
sendStatus(m, status) ==
    \/ PushNotificationHandler(m, status) /\ failed' \in {failed, failed \cup {<<m, status>>}}
    \/ failed' = failed \cup {<<m, status>>} /\ notified' = notified

(* What is sent depends on the configuration as it is when the goroutine runs. *)
maybeSendStatusPushNotification(m, status) ==
    /\ <<m, status>> \in notes
    /\ notes' = notes \ {<<m, status>>}
    /\ IF m \in hooks THEN sendStatus(m, status) ELSE UNCHANGED <<notified, failed>>
    /\ UNCHANGED <<clients, turns, manager, pipe, hooks, due>>

TurnStep(m) ==
    \/ processMessageAsync(m) \/ Decide(m) \/ SelectMode(m) \/ ProcessText(m) \/ Complete(m)
    \/ Store(m) \/ Cancelled(m) \/ MultiStep(m) \/ Prompt(m) \/ InputExample(m) \/ Direct(m)
AnswerStep(m) == ForwardEnds(m) \/ processStreamResponse(m) \/ StreamClosed(m)
NotifyStep(m) == \E status \in Events : maybeSendStatusPushNotification(m, status)

AgentNext ==
    \/ \E c \in Contexts : processUserInput(c)
    \/ \E m \in Messages :
          \/ TurnStep(m) \/ AnswerStep(m) \/ NotifyStep(m)
          \/ GivesUp(m) \/ RequestEnds(m) \/ cancelTask(m) \/ setPushNotification(m)

AgentSafeSpec == AgentInit /\ [][AgentNext]_agentVars

(* The goroutines do not all stop while one can go on; clients need not give up,  *)
(* type on or cancel.  No goroutine runs for ever, so no more is needed.       *)
AgentFairness == WF_agentVars(\E m \in Messages : TurnStep(m) \/ AnswerStep(m) \/ NotifyStep(m))

AgentSpec == AgentSafeSpec /\ AgentFairness

-----------------------------------------------------------------------------
(* Properties. *)

(* The dialogue as its messages have it: the session after the i-th of them,    *)
(* if that is the text and s was the session before; and after the first n.     *)
Turned(s, i, text) ==
    IF Open(s)
    THEN IF s.stage = 1 THEN [stage |-> 2, mode |-> i, complete |-> FALSE]
         ELSE [s EXCEPT !.stage = 3, !.complete = TRUE]
    ELSE IF text = "multi" THEN [stage |-> 1, mode |-> NoMode, complete |-> FALSE]
    ELSE IF text = "example" THEN [stage |-> 2, mode |-> Reverse, complete |-> FALSE]
    ELSE s

After(texts, n) ==
    LET after[i \in 0..Longest] ==
            IF i = 0 THEN NoSession ELSE Turned(after[i - 1], i, texts[i])
    IN  after[n]

Dialogue(c) == After(script[c], typed[c])

(* What a client is told is so: a completed answer comes after its artifact,    *)
(* made with a mode typed in the same context; a question is that of a task      *)
(* that waits for input or was cancelled since; and in a context whose turns     *)
(* did not overlap the session is the one its messages describe.               *)
TurnsAreHonest ==
    /\ \A m \in Messages :
          /\ told[m] = "final" /\ task[m] = "completed" => got[m]
          /\ told[m] = "prompted" => task[m] \in {"input", "removed"}
          /\ got[m] /\ artifact[m] \notin {m[2], Reverse} =>
                \E i \in 1..typed[m[1]] : script[m[1]][i] = "multi"
    /\ \A c \in Contexts : orderly[c] /\ Running(c) = {} => sessions[c] = Dialogue(c)

(* A client that does not give up is not left waiting: an answer comes to a      *)
(* question, a final status or its end, through the queue and the forwarder,    *)
(* whatever the other turns do to the session.  And a webhook registered before   *)
(* its task's status was streamed is told of it, unless the task is cancelled or  *)
(* the failure of its notification is logged: none is skipped in silence.       *)
InteractionsEnd ==
    /\ \A m \in Messages : (told[m] = "waiting") ~> (told[m] # "waiting")
    /\ (due # {}) ~> (\A n \in due : n \in notified \cup failed \/ task[n[1]] = "removed")
=============================================================================
