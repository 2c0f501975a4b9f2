# A verification project for trpc-a2a-go

TLA+ models of the A2A (agent-to-agent) protocol library in this repository and of
two of its example agents: the task managers that keep tasks, streams and
conversations, the server and the client around them, authentication, and signed push
notifications. TLC checks the models on small instances; TLAPS proves the
theorems of the `*_proofs` modules for every value of the constants.

## The system

A client sends a message by JSON-RPC over HTTP. The server (`server/`) authenticates the
request, checks it and hands it to a task manager (`taskmanager/`), which stores it, calls the
agent's `MessageProcessor` and gives it a `TaskHandler`, with which the agent builds
tasks, updates their state, adds artifacts and subscribes to them. Every update
is sent to the *subscribers* of the task: bounded queues whose readers are the
SSE writers of the server, which encode the events in batches for the client. A task may have a
push configuration, and an agent tells its webhook, with a signed token, how the task ended.

| Component | State | Operations | Correct when | Module |
|---|---|---|---|---|
| Memory task subscriber (`memory.go`) | closed flag, `done`, `mu`, `eventQueue` | Send, Close, Channel | no panic; FIFO; a Close always completes; nothing accepted after it | `MemorySubscriber` |
| Memory task manager (`memory.go`, `memory_handler.go`) | Tasks, Subscribers under `taskMu`; PushNotifications under `mu`; the cleanup goroutine | BuildTask, UpdateTaskState, AddArtifact, SubscribeTask, CleanTask, OnCancelTask, OnResubscribe, push get/set, reaper, Close | no stream, context or configuration left behind; streams complete and end with the final event | `MemoryTaskManager` |
| Messages and conversations (`memory.go`) | Messages, Conversations under `conversationMu` | storeMessage, history, expiry, the send hook | a window of the last messages, in order, none missing | `ConversationStore` |
| Message processing (both managers) | none of its own | OnSendMessage, OnSendMessageStream | request stored before, reply after the processor; the stream is the processor's subscriber | `ConversationStore`, `RedisConversations` |
| Redis task manager and subscriber (`taskmanager/redis/`) | tasks, messages, lists in Redis; cancels, subscribers in the process | as above | as above, with other processes, failures and expiring keys | `RedisTaskManager`, `RedisConversations` |
| Server lifecycle (`server/server.go`, `telemetry_api.go`) | httpServer, telemetry | Start, Stop, Handler | what was acquired is released when Stop returns, which reports success only when nothing runs | `A2AServer` |
| JSON-RPC routing (`server/server.go`) | none | one handler for each method | each request gets one answer, which says what happened to it | `A2AServer` |
| SSE tunnel and tracker (`server/sse_tunnel.go`, `tracker.go`) | a batch, a ticker, a channel, the metrics of the stream | start, flushBatch, trackStreamEvents | events in order, none twice, none lost before the end; nothing left running | `StreamPipeline` |
| SSE codec (`internal/sse/`) | none | FormatEvent, the reader | an event cut short is not delivered | `StreamPipeline` |
| Client (`client/`) | the response body, the reader goroutine | calls, streams, agent card | events in order, the channel is closed | `StreamPipeline`, `A2AServer` |
| Authentication (`auth/provider.go`) | none | providers, chain, middleware | an operation runs only in the name of a user whose credentials were shown | `A2AServer` |
| Push notification authentication (`auth/push_notification.go`) | key pair and published keys; cached key set | GenerateKeyPair, HandleJWKS, sign, verify, the JWKS cache | a verdict is right for keys that are recent enough | `PushNotifications` |
| Example: signed push notifications (`examples/jwks/`) | the agent's goroutines; the webhook's task tracker and key set | process, notify, verify, track | a task is released once its notification is answered or its caller gone | `PushNotifications` |
| Example: text processing agent and its client (`examples/basic/`) | sessions, tasks, the forwarder, webhooks | a turn of a dialogue, streamed or not, cancel | a client learns how its turn ended and what it learns is so | `TextAgent` |
| Protocol types and JSON (`protocol/`) | none | decoding an event by its kind | | partly, in `StreamPipeline` |
| Telemetry (`telemetry/`) | an external library's | | | what is recorded, in `StreamPipeline` and `A2AServer` |
| JSON-RPC types, log, options, errors, other examples | none | | | not modelled |

### How they interact

* The server calls the task manager from one goroutine per request; the manager
  calls the agent, on that goroutine or on one the agent starts, and the agent
  calls back through `TaskHandler`.
* Handlers share `taskMu` (tasks and subscriber lists) and `mu` (push
  configurations). They let go of both before they send to a subscriber or close
  one, since a blocking send must never hold `taskMu`.
* A subscriber's queue joins the updating goroutines to the server's SSE
  goroutine; for `message/stream` the goroutine of `trackStreamEvents` stands between. Either side
  can go away first.
* The client's goroutine reads the body, parses events and hands them to its caller over
  a channel; the caller's context closes the body under it.
* The cleanup goroutine removes terminal tasks after `TaskTTL`; `Close` stops it,
  waits for it and empties the manager.
* Stop drains the HTTP server up to its deadline, closes the task manager and flushes telemetry.
* A Redis manager shares its keys with other processes, and the keys expire by themselves.
* The sender of push notifications serves its public keys over HTTP; receivers cache them.

### What is hard

Send against Close on one subscriber (a send on a closed channel panics; a
blocked sender holds the lock Close needs); lists of subscribers that are copied
or taken under a lock and used after it; events sent after the critical section
that stored the state; a task and its push configuration that live under
different locks; three ways to remove a task; requests that outlive Close;
readers that stop reading; a connection that is cut inside an event; a `select` that picks
at random between an event, a tick and a disconnection; a key that is rotated while a token is
under way; several Redis commands where one was meant; a command that was applied though its reply is lost; a dialogue whose turns overlap.
`PROJECT.json` lists the hazards by line.

## Modules

| Module | What it is |
|---|---|
| `EventStream` | the abstract specification of a subscriber: a bounded FIFO stream, open, closing, closed |
| `MemorySubscriber` | `MemoryTaskSubscriber` step by step; implements `EventStream` |
| `MemoryTaskManager`, `MC_MemoryTaskManager` | the task manager, its handler and its cleanup goroutine, with streams as `EventStream` gives them; implements `TaskStreams` |
| `TaskStreams` | the abstract specification of what a manager's streams promise their readers |
| `ConversationStore`, `MC_ConversationStore` | messages, conversations and the requests that store them, in memory |
| `RedisTaskManager`, `MC_RedisTaskManager` | the Redis task manager and its subscriber, over keys that expire; implements `TaskStreams` |
| `RedisConversations`, `MC_RedisConversations` | messages and conversations in Redis, command by command |
| `Delivery` | the abstract specification of an event stream from an agent to a remote caller |
| `Selection` | the events of some kinds in a sequence, for the two next to it |
| `StreamPipeline` | tracker, tunnel, connection and client reader; implements `Delivery` |
| `A2AServer`, `MC_A2AServer` | the server's life, authentication, JSON-RPC handlers and the caller of each call |
| `PushNotifications`, `MC_PushNotifications` | signing, key publication, the two kinds of receivers, the example agent |
| `TextAgent`, `MC_TextAgent` | the text processing example with its clients |
| `MemorySubscriber_proofs`, `MemoryTaskManager_proofs`, `ConversationStore_proofs`, `RedisTaskManager_proofs`, `RedisConversations_proofs`, `StreamPipeline_proofs`, `A2AServer_proofs` | theorems about them |
| `Examples_proofs` | theorems about `PushNotifications` and `TextAgent`, which share nothing else |

### MemorySubscriber

A step is one access to shared state: the two looks at the closed flag, the
read lock, the hook, the `select`; in Close the compare-and-swap, `close(done)`, the
write lock in its two halves (a waiting writer keeps new readers out),
`close(eventQueue)`. A send on a closed channel and a second close of one go to
"panicked". `blocking` is the option `blockingSend`; the runs take both values.
The refinement maps `phase` to closed / queueClosed; `queue`, `received`, `ended` and
`verdict` are the same in both. In `EventStream` a call that was made when the stream was open may be
accepted until it is closed, since the `select` of Go picks at random when both
room and `done` are ready.

### MemoryTaskManager

`status`, `live` (uncancelled contexts) and `registered` are `Tasks` and `Subscribers`, under
`taskMu`; `push` is `PushNotifications`; `me` holds each goroutine's place and local
variables. A step is one critical section, or one step of Send or Close on a
subscriber. What one goroutine took off a list and has still to close is its
local `toClose`, what it has still to notify `todo`. The events are not kept: `queued`
counts them, and the history `story` tells per stream whether an event followed a
final one, or followed one that was refused for want of room.

Any state may follow any other in `UpdateTaskState`, because the code checks
none. `Writers` says which goroutines update a task. `TaskStreams` says what the readers are promised, without
tasks, lists, locks or goroutines: a stream is opened once, its events go on until one is final or there was no room
for one, only a full stream misses an event, and a closed one gets none. That the manager implements it
(`ImplementsTaskStreams`, of which `StreamsAreSound` is the part about gaps and final events) is claimed for one writer of
each task, as when an agent processes a message on one goroutine; two
writers can store their states in one order and send the events in the other, so that an event
follows the one marked final. The variables of `TaskStreams` are those of the same name here, so that the mapping is the
identity; what a processor sends on its stream by itself (`SendDirect`) is part of the promise.

A task ID may be built again after its task is removed; the deletion of its
push configuration and the cleanup of its subscribers are by ID, and the model
lets them hit the new task as the code does.

`SubscribeTask` looks for the task and adds the subscriber in two critical sections. When the
task is removed in between, a stream is listed that nothing but `Close` ends (`Stranded`). `OnlySubscribeStrands` says
that this is the only way: no removal leaves a stream behind, and what gets onto the list of a task that is gone comes from a
`SubscribeTask` that looked before. `StreamsEnd` excepts the stranded streams, and what a handler opens after `Close`, which
keeps no handler out. `CallsReturn` obliges every call to return, a blocking send too unless it waits for room in
an open stream that nobody is about to close (`WaitsForRoom`): when the task is removed, the stream closed or the manager emptied
around it, it must get out.

### ConversationStore

`messages` and `conversations` are the two maps under `conversationMu`; a message is its ID and the
context it was stored in, a conversation the IDs in its window. A step is one critical
section; `me` holds what a request keeps between them: its message, its context, and
the context that the hook of its stream captured in `SubscribeTask`. The agent may do
anything in between: open its stream, read the history, send replies, return one. `log`, `used` and
`stray` are history. The client may use a message ID again when `retries` is TRUE, chosen at
the start; `HistoryIsRecent` and `RepliesStayInContext` need unique IDs (`protocol/types.go:365`), since the
code deletes a trimmed message by its ID. The caller's loop over
`CleanExpiredConversations` is not part of the library: the step may happen at any time.

### RedisTaskManager

`stored` is what Redis keeps under the task keys, an external component whose commands are
atomic; every other variable belongs to the process. A step is one Redis command or one critical
section of `subMu`, `cancelMu` or a subscriber's `mu`. Two sections need more than one step: `cleanSubscribers` and
Close hold `subMu` while they close one stream after another, and a blocking Send holds the
stream's lock (`sender`) while it waits for room. An operation keeps the task as it read it
(`read`) and stores it with its change (`Changed`); `raced` remembers the tasks that changed in
between. `Faults` lets any command fail, and a Set be applied though its reply is lost (`SetReplyLost`); `Crash` replaces the process and its manager; `ExpireTask`
is the TTL of a key.

It implements `TaskStreams` as the manager in memory does, for one writer of each task. A sender that waits for room does
not look at the closed flag again when there is some; nothing gets into a closed stream because Close needs the
lock that this sender holds. A crash ends all streams at once.

A Set that makes a task final and loses its reply ends the operation with an error before it cleans up: the task is
over and its streams stay. `silent` remembers those tasks and `OverMeansClosed` excepts them until an update stores the task
with a reply; a cancel cannot be tried again, since `OnCancelTask` refuses a task that is final. go-redis's own
retries, and a Set that Redis applies only after its caller gave up, are left out.

SubscribeTask and OnResubscribe take the same steps and are one action. The cancel functions are a
set: the context they cancel is not kept by anybody. Push configurations are left out.
`KeptUnlessRaced` excepts the tasks that changed between a read and its write: two operations on one
task at once do lose one another's change.

### RedisConversations

`messages` and `lives` are the message keys and how long they live, `conversations` and `remains` the lists; Redis is
external, its commands atomic. Storing a message is four steps (Set, RPush, Expire, LTrim), reading a history is
LLen, LRange and one Get for each message, after which the loop goes on whether or not there was one (`Skip`); `missed`
holds the places of the run that were passed over because no message was found, and what is returned is the messages of the others that
were tried, but for those whose Get failed. A Set or an RPush that fails may have been applied all the same
(what Expire and LTrim reply decides nothing). Other requests, the clock (`Tick`) and failing commands (`FaultBound`; a
crash looks the same from here) come in between. `log` is what was pushed to each conversation and
`lost` how much of that was in a list that expired; `raced` are the conversations two stores of which overlapped.

`ConversationsAreSound` has the two exceptions that the code has: a reader that counted an empty list
asks for 0 to -1, which is the whole list if somebody pushed since; and a reader that counted
between another store's RPush and its LTrim may find its range shifted off the end, and gets
nothing. A list whose Expire failed has no expiry, which `ListsExpireLast` allows only after a failure.

`HistoriesLackOnlyTheExpired` is about what the reader gets of the run: a message is missing only because it has expired or its own Get failed,
and all that is older than an expired one has expired too, so that a history is cut at its old end only. The second part needs that the Sets
and the pushes of a conversation come in the same order, and leaves out those where stores overlapped: there the newest message may go first.
A message that cannot be decoded does not occur, since the manager alone writes the keys.

### StreamPipeline

One stream, from the channel that the agent's subscriber filled to the channel the caller reads. The
steps are those of five parties: the agent, the goroutine of `trackStreamEvents` (present for
`message/stream`, absent for `tasks/resubscribe`), the request's goroutine with its tunnel and batch, the client's
reader goroutine, and the caller. `wire` and `conn` are the connection, external: it may break at any point and cut the
last event short of the blank line that ends it. Events have kinds: one the first-token policy looks for, one it does
not, one that cannot be encoded (it ends the stream and its batch), one of a type the client
does not know (dropped), one that fails to decode, one too long for the reader's buffer.

`Delivery` says what all this is for: what can be carried arrives in order, each event once, and
a clean end means that nothing is missing. In the refinement `delivered` is what the caller
has read and what waits in its channel, and `outcome` comes from how the reader ended.

### A2AServer

`starter`, `httpServer`, `listening`, `closing`, `telemetry`, `stopper`, `failed` and `closed` are the life of the server:
Start and Stop run in goroutines of their own and share `httpServer` without a lock, as in the code.
Per call, `caller` is what `client.go` does and `place` where the request is in the server; a request is a
method, a set of flaws and the credentials in its headers. Each handler is a record of what it checks, the
errors its operation may come to and whether it streams or keeps metrics; `parse` goes through
the flaws in the order of the code. Middlewares are a sequence of chains of providers, and a provider
is a partial function from tokens to users; `chainAuthenticate` tries them in order. A caller's
second attempt is `GetAgentCard` going back to the old path. `meter` tells whether the request's metrics
were kept, counted or lost because telemetry was down. A preflight request is one more flaw; where CORS is enabled it is answered
with success, behind the middlewares.

ListenAndServe fails when it gets no port, or when Accept fails for good (`ServeFails`); connections that are kept go on serving
then, and Start shuts telemetry down under their calls (`StartFails`, in a step of its own). A Stop after that drains and closes as ever and may report
success although metrics were lost, which `GracefulStop` excepts. Start's shutdown of telemetry
beside that of Stop is a race without a lock; the model has the order and a failure of the second. A Stop that finds
`httpServer` nil returns "not running" and shuts nothing down.

The deadline of Stop is a step that may come at any time after Shutdown began, and Stop then goes on to
close the task manager under the requests that still run: `GracefulStop` says that it does not
report success in that case. The manager's Close has no context: with the Redis manager it may hang (`redis_close`), and
`CallsAndStopReturn` leaves a Stop alone that stays there, as it does calls that stay in the task manager.

### PushNotifications

The sender: `keySet`, `privateKey` and `keyID` are written in separate steps of `GenerateKeyPair`, and a restart
begins with none. A receiver is either a service built on `VerifyPushNotification`, with the key cache of
`JWKSClient` (shared by concurrent handlers and not synchronised), or the webhook of `examples/jwks/client`, with a key
set that a goroutine refreshes and a verification of its own. `published` is history: when each pair
was served and under which name. Time is discrete and shared; only the network, the agent's sleep and the tickers take
time. Key IDs have the granularity of the clock, so that two pairs may get one name: `WellMade` excludes such
tokens where it must. The POST of a notification has no timeout but its caller's context (`CallerLeaves`, `PostEnds`): it must return when the receiver answers or
the caller goes, and may return with an error at any time. `TasksAreReleased` keeps a task only while neither has happened and no
receiver has taken the notification up.

### TextAgent

The dialogue of `examples/basic`: each message is worked on by a goroutine (`at`) that read the session of its
context and will store it when its turn is over; its task, artifact and subscriber's `queue` belong
to the task manager, which is used as `MemoryTaskManager` has it but with queues that are never full;
`forward` is the goroutine of `pushNotificationSender` between the stream and the client, and `notes` the goroutines it
starts to tell a webhook, in one POST (`sendStatus`) that may fail, with or without effect; the failure is logged (`failed`) and not tried again. A client types its script and waits (`told`) or gives up. `orderly` is history: the turns of a
context did not overlap and none was cancelled early; only then is the session the one that the messages
describe. `After` is that dialogue, a recursive function of the number of messages; `Longest` bounds the scripts. The
definitions have names of their own (`AgentInit`, `AgentSpec`, `sendStatus` for the agent's `sendPushNotification`), so that
`Examples_proofs` can extend this module beside `PushNotifications`.

## Runs

| Run | Instance | What it shows |
|---|---|---|
| `subscriber` | 3 goroutines, 2 calls of Send, queue of 1, both send modes | no panic, refinement of `EventStream` with its liveness, Close completes and senders return with no reader |
| `manager` | 2 goroutines of which one updates, 1 task, 2 streams, queue of 1, both modes | no stream, context or push configuration is forgotten; the promise of `TaskStreams` is kept: no gap, nothing after the final event |
| `manager_liveness` | 2 goroutines, 1 task, 1 stream, both modes | only SubscribeTask strands a stream; streams end, calls return, Close completes, with no reader |
| `conversations` | 2 requests, 3 message IDs, 2 contexts, windows of 2, with and without IDs used again | windows are the last messages in order, readers get them all, no message stays behind |
| `redis` | 2 goroutines of which one updates, 1 task, 1 stream, 1 artifact, queue of 1, failing commands, lost replies, crashes | streams are dropped only when full and end with their task, the promise of `TaskStreams` is kept; artifacts are kept unless updates overlap |
| `redis_close` | Close beside an update, nobody reads | refuted: Close closes the client and cleans up (`redis_manager.go:691`) |
| `redis_conversations` | 2 requests, 1 reader, 3 message IDs, 2 contexts, lists of 2, keys that live 2 ticks, 1 failing command, applied or not | lists are the end of what was pushed and outlive their messages, readers take a run that reaches to the newest they counted and miss of it only what has expired |
| `stream` | 3 events of 3 kinds, queue of 1, batches of 2, caller's channel of 1, with and without tracker | `Delivery` is implemented, the metrics blame the right side, no goroutine is left |
| `server` | 2 calls beside Start and Stop, 2 middlewares of one and two providers, Accept and Close that may fail or hang | Stop takes everything down, is graceful or says it was not, callers are told the truth, what does not hang in the manager ends |
| `server_errors` | the same | refuted: a JSON-RPC error in a response reaches the caller (`client.go:363`) |
| `push` | 2 tasks and 2 handlers with the library's cache, or 1 with the webhook; 2 key pairs, clock to 4 | verdicts are right, a task is released when its notification can end |
| `agent` | 1 context with a dialogue of three messages, one of two, or single messages with a webhook | turns are honest, clients hear their end, and webhooks too or the failure is logged |

The two refuted statements are findings: `PROJECT.json` quotes them.

### Bounds

One goroutine can fill the queue while a second is blocked in Send and a
third closes: that is every role a subscriber knows, and a queue of one event is
full and empty soonest. One task is enough for the manager because no operation
touches two, except the reaper and Close, which treat them alike; two streams are
enough for a list to have one that fails and one that does not. Two handlers and
the reaper give every pair of operations that race. `manager` leaves out AddArtifact (an
update that stores no state), OnCancelTask (a look, then CleanTask) and the direct
Send of an agent; `manager_liveness` has them. A window of two with three messages in a
conversation's life (`LogBound`) is filled and then trimmed, and two contexts let an
ID that is used again stand in two windows. The Redis manager has no operation on two
streams at once except its loops, which treat them alike, so that one stream, which is
listed, full, blocked, dropped or closed, meets every other step; one artifact is enough to be
lost by an update of the state, two by a second artifact.

In `redis_conversations` two stores and a reader meet between any two commands; three messages overflow
a list of two by one; two ticks let a list's expiry be renewed halfway, and one failure is enough to
leave a list that is too long or does not expire, or one entry without its message (the theorems have no such bounds). In
`stream` three events fill a batch and leave one, and keep the queue, the batch and the channel all occupied;
the kinds are one that arrives, one that is dropped and one that ends the stream, which make every path
of tunnel and reader but two ends, and those end the reader as a broken connection does. In `server` one call takes
every kind of request the checks tell apart, sound ones among them, which Stop may have to wait for, and the other asks an older server for
its card, twice, on a connection that may be kept.
In `push` the clock runs over the life of a cache and of a token with a rotation in between, and the second
handler uses the cache that the first refreshes. In `agent` three messages are the longest dialogue the
agent has.

Every instance of the manager has its cleanup goroutine, as `EnableCleanup` with a positive
`TaskTTL` (the default) gives it; without it `StreamsEnd` could not be claimed for
readers that are gone.

### Fairness

A goroutine that can run is eventually run (weak fairness of its
steps), which the Go scheduler gives. The ticker of the cleanup goroutine ticks
and time passes. Its `select` over the tick and the stop signal picks at random when both are
ready, hence strong fairness of the stop. The mutexes of Go let no waiter starve, hence strong
fairness of the locking steps of the Redis manager. In `StreamPipeline` the tunnel's goroutine, the tracker, the
client's reader and the notice of a lost connection are fair; the connection itself never owes its loss, and the
caller owes only the reading of what it is given. In `A2AServer` the deadline of Stop comes; streams
that the agent never ends do not end by themselves, and neither a handler's call of the task manager nor the manager's Close is obliged to
return. In `PushNotifications` a fetch ends by its timeout, and a POST when it is answered or its caller has gone; no receiver is obliged to answer. In `TextAgent` one weak fairness over all goroutines is enough,
because every step of theirs is taken once per message. Nothing is assumed of the readers of subscribers, and
nothing says that any operation is ever called.

## Proofs

`MemorySubscriber_proofs` proves, for any set of goroutines and calls and any queue
size, type correctness, `LockDiscipline`, `NoPanic`, `CallsHaveOneOwner` and that every step is a step of `EventStream`
or leaves it unchanged (`RefinesEventStream`). Panic freedom is not inductive: that a sender at
the `select` has the queue open needs that it holds the read lock, that the
closer at `close(eventQueue)` has seen no reader, and that there is one closer, which
needs the order of the flags. `LockDiscipline` is the conjunction of these facts and
is inductive with the type invariant. That a late call is never accepted
needs `CallsHaveOneOwner`: past the second look at the flag every call is an early one.
The assumptions are `BufSizeAssumption` and `NoneAssumption`.

`MemoryTaskManager_proofs` proves, for any number of goroutines, tasks and streams, any
queue size, any choice of `Writers` and any set of operations, type
correctness, `NoForgottenStream`, `NoLeakedContext` and `NoOrphanConfig`. The inductive invariant
`IInv` joins them with `LocalsOK`, which says what a goroutine holds where: streams to close
only in the closing loop, configurations to delete only until it has deleted
them, a task or a subscriber where it uses one. Without it a goroutine could drop
what it has in hand. `NoForgottenStream` needs the type of `owner` for open streams, and type
correctness of `live` needs `NoLeakedContext`, so that a removed task has a context to
cancel: that is why the parts are proved together. Most steps touch the local variables of one
goroutine only and share the lemma `LocalStep`; taking streams off a list
(`TakeOffKeeps`, `RemoveTasksKeeps`) and the two halves of a Close have proofs of their own. The assumptions are
the four of the module.

With one goroutine that updates each task (`SingleWriter`, as a message processor does for its own task) it proves
`StreamsAreSound`, on top of `IInv`. `SInv` follows that goroutine through `notifySubscribers`: what it has still to send
on has missed nothing and has not got its final event (`Rounds`), and a listed stream that has is in its
`failed`, or about to be taken off by its `cleanSubscribers` (`Stories`). When it takes the next snapshot it is in neither place, so that the
list holds sound streams only. Handlers that close or remove streams beside it only shorten the lists (`StoriesFrame`);
that a new subscriber is nobody else's, and has no story, is `Fresh`. For any writers it proves `OnlySubscribeStrands`:
`OnResubscribe` registers in the critical section in which it finds the task, and each removal of tasks empties their lists.

`ManagerKeepsPromise` proves, also for `SingleWriter`, that the manager implements `TaskStreams`. Most of the steps touch no stream; an
update's event is a `Deliver` because `SInv` says that a stream in `todo` has missed nothing and is not over, and a refusal
is a `Miss` or hits a stream that is closed. `SendsOK` adds that a sender at its `select` has an event to send and that the stream
it sends on has been opened.

`ConversationStore_proofs` proves, for any number of requests, message IDs and contexts and any history length, `TypeOK`,
`WindowOfLog`, `NothingLeaked` and `HistoryIsRecent`. The second and third are inductive once it is
known that a request between two steps has its message and its context (`RequestsOK`). A reader's history
needs more, which holds for unique IDs only (`UniqueIds`, when `~retries`): an ID stands at one place of one conversation
and its message is stored, so that trimming takes no message from another window. `getConversationHistory` collects its messages in a loop, which the model has as a recursive
function: its result is proved by induction over the loop. The library's induction theorems cannot be
used, so `UpTo` proves induction for sets of numbers from the pigeonhole theorem: if some number were missing, adding 1
would map the finite set of the numbers below it into itself without 0. The assumptions are those of the module.

`RedisTaskManager_proofs` proves, for any number of goroutines, tasks, streams and artifacts, any queue size, with failing
commands, expiry and crashes, `TypeOK`, `KeptUnlessRaced` and `OverMeansClosed` for any set of writers, and with one
goroutine that updates each task (`SingleWriter`, the hypothesis under which the run checks streams too) `StreamsAreSound`,
`OnlyFullStreamsDropped` and that it implements `TaskStreams` (`RedisKeepsPromise`). `Base` says who is where: what a goroutine holds at each label, that the lock of a stream has one holder,
that a goroutine that closes streams holds `subMu`. `OverInv` is `OverMeansClosed` with
the goroutines that are on their way to clean up (`Finishes`). `SInv` follows the one writer through its loop: the streams it has still to send on
have missed nothing and have not got a final event, those that failed are closed or full (`Rounds`), an open stream that
missed an event has left its list or is about to, and one that got its final event is about to be closed (`Stories`).
The refinement needs no more: an event that gets in late, from a sender that waited, finds its stream open because `Base` says
(`Locks`) that the stream of a waiting sender is open until it lets go of the lock.

`RedisConversations_proofs` proves, for any number of requests and readers, any history length and expiry and any number of
failures, `TypeOK`, `ConversationsAreSound` and `HistoriesLackOnlyTheExpired`. The first invariant adds to the second of these what a request holds between its commands
(`RequestOK`), the bounds of a list and what was lost of it (`ListOK`), and, for a reader between LLen and LRange, how what it counted
relates to what was pushed since (`CountOK`): `ElementsTaken` is the arithmetic of the range. The second, `HInv`, is about the keys of messages: one is stored as long
as it lives (`KeysOK`), what was pushed has been used (`LogOK`), and in a conversation whose stores did not overlap what is
older in the log lives no longer, the message on its way to the log longest of all (`OrderOK`); `GotOK` carries this to a reader, for
whom the messages passed over as missing have expired.

`StreamPipeline_proofs` proves, for every number of events and every size of queue, batch and channel, `TypeOK`,
`HonestMetrics` and that the pipeline implements the safety of `Delivery` (`StreamKeepsPromise`): its initial states are initial there, and
each step is a delivery, an end or a stutter. The invariant is about order: what has been delivered, what the reader
holds, what is on the wire, in the batch, in the tracker's hands and in the queue is, one after the other, what was sent, without the events
that cannot be carried (`OrderOK`, while the stream flows; when it is cut, what is on the caller's side of the cut begins what
was sent). `PlacesOK` tells where the goroutines of server and client can be together, and `MetricsOK` what the metrics know.
The lemmas are about `OfKinds`, a recursive function: induction over sequences (`BySequence`) comes from the induction for sets of numbers.

`Examples_proofs` proves of the push notifications, for any tasks and receivers, any times and any number of key pairs, `TypeOK` and
`VerdictsAreRight`. The invariant says of every set of keys, whether it is cached or on its way in a response, that it is
what was published at the time it was served (`Served`, in `SetsOK`): each key in it was published by then and not yet withdrawn, and what
was published before and after is in it. A rotation only adds what is newer than every such set, and a restart withdraws at `now`, when
every set was already served (`ServedKept`). `TimesOK` bounds the age of what is cached: a fetch ends by its timeout,
and no time passes between the installing of the keys and the stamp. A verdict takes the first key with the token's name, so that `FoundKey` needs
that a set of numbers has a least one.

Of the text processing agent it proves, for any contexts, scripts and choice of what is streamed, `AgentTypeOK` and
`TurnsAreHonest`. What the client was told depends on an event that the goroutine of the turn sent long before, so that
`AgentIInv` speaks of the whole way: of each event in a queue, what the goroutine and the task must have reached for it
(`EventOK`; a completion has an artifact before it in the queue or already read, `ShownBefore`), how many events
there can be at each of the goroutine's places (`Room`, from which the bound of three follows), and what the client was told (`ToldOK`). An
artifact's mode must come from what was typed (`Made`); since the session that carries it is stored by one turn
and read by another, `ModesOK` says it of every session stored or held, also of turns that overlap.
In an orderly context one message at most is worked on, the last one typed, and at each place of its goroutine
it is known which of the two sessions, the stored or the held one, is what the dialogue says before or after the
message (`TurnOK`). A step changes one message, whose turn goes on (`TurnKeeps`) or whose session stays (`QuietKeeps`); `OthersKept` carries the rest. That `After`
is a function from numbers to sessions is induction over the script (`AllUpTo`, from the well-foundedness of the numbers).
The assumption is `ScriptsAssumption`.

The theorems of `A2AServer_proofs` and `StreamPipeline_proofs` are about `SafeSpec`, those of `Examples_proofs` about
`SafeSpec` and `AgentSafeSpec`, the specifications without their fairness; no theorem uses fairness. The hypotheses are the assumptions of the modules, and `SingleWriter` where it is named.

Only model-checked: liveness (`CloseCompletes`, `SendReturns`, the fairness of `EventStream` and `Delivery`,
`StreamsEnd`, `CallsReturn`, `CloseEndsStreams`, `NoLeak`, `CallsAndStopReturn`, `TasksAreReleased`, `InteractionsEnd`), which the
prover does not treat. Every safety property that a run checks and that holds is a theorem.

## What the models show besides

Met while modelling and stated by no property; each is what the code does:

* Two goroutines that update one task can send an event after the one marked final.
* A stream that subscribes to a task while it is removed is listed under no task until Close.
* `GetContextID` has no context to give once the request's message was trimmed or expired; the replies of that
  stream then start conversations of their own.
* The newest message of a Redis conversation may expire before an older one when stores overlap: a history then lacks its end.
* A Set that makes a task final and loses its reply leaves the task's streams open, and `OnCancelTask` cannot be tried again.
* Two operations on one task in Redis lose one another's change (an artifact, a state).
* Nothing sends `EventClose`, which `protocol/protocol.go:37` describes as the signal of closure: a stream ends with its body.
* Stop that runs before Start has stored `httpServer` shuts nothing down, and the server goes on.
* When Accept fails, Start shuts telemetry down under the calls that still run: their metrics are lost, and a Stop after that returns nil.
* A receiver that accepts a notification and never answers keeps the task of `examples/jwks/server` as long as its caller stays.
* `JWKSClient` does not fetch again when a key is missing from a cached set, only when the set is old.
* In `examples/basic` a notification that fails is logged and not sent again; the webhook of a cancelled task is not told, since `CleanTask` has deleted its configuration; and a
  task that asks for input never becomes terminal, since each turn builds a new task.

## Plan

1. Push configurations of the Redis manager.
2. `TextAgent` and `A2AServer` composed with `MemoryTaskManager` in place of what they assume of it.

## Not modelled

Encodings (JSON but for the kind of an event, the fields of events), logging, the instruments of telemetry, HTTP
itself, signatures and the flows of OAuth2, CORS headers, option functions, and the display and
session commands of the example clients: they hold no state that the properties tell apart. The two
remaining examples use the library as the modelled ones do. Getters that change no state are left
out. The write of `lastAccessTime` in `Send` under the read lock is a data race on a value nothing reads; the unsynchronised
session map of `examples/basic`, whose data race may end the process, is modelled as a map with atomic reads and writes.
