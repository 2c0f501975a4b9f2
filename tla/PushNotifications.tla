------------------------- MODULE PushNotifications -------------------------
(***************************************************************************)
(* Signed push notifications: the authenticator that signs them and serves   *)
(* its keys (auth/push_notification.go), the agent that sends one at the end  *)
(* of a task (examples/jwks/server) and who receives it: either a service     *)
(* built on VerifyPushNotification with its key cache, or the webhook of      *)
(* examples/jwks/client with its refreshed key set and its task tracker.      *)
(*                                                                          *)
(* Time is discrete: only the network, a sleep and the tickers take time, and  *)
(* a fetch of keys at most Timeout.  All hosts share the clock.               *)
(***************************************************************************)
EXTENDS Naturals, Sequences, FiniteSetsExt

CONSTANTS
    Tasks,
    Receivers,    \* the tasks notified to each kind of receiver there is:
                  \* "library", "webhook"
    Agents,       \* what message/send answers: "message", "task"
    TTL,          \* JWKSClient.cacheTTL of the library
    Refresh,      \* jwksRefreshInterval of the webhook
    Timeout,      \* the timeout of both HTTP clients
    MaxAge,       \* the age of a token the library accepts
    MaxTime,      \* bound: the clock stops here
    MaxKeys       \* bound: key pairs generated, over all restarts

ASSUME TimesAssumption == {TTL, Refresh, Timeout, MaxAge, MaxTime, MaxKeys} \subseteq Nat \ {0}
ASSUME ReceiversAssumption ==
    /\ DOMAIN Receivers \subseteq {"library", "webhook"}
    /\ \A v \in DOMAIN Receivers : Receivers[v] \subseteq Tasks
ASSUME AgentsAssumption == Agents \subseteq {"message", "task"}
ASSUME TasksAssumption == "refresher" \notin Tasks

Times == 0..MaxTime                  \* 0 stands for never
Pairs == 0..MaxKeys                  \* key pairs, numbered; 0 stands for none
Key == [kid : Times, pair : Pairs \ {0}]
Fetchers == Tasks \cup {"refresher"}

VARIABLES
    now,
    verifier,    \* the receiver of this behaviour
    keySet,      \* authenticator: the keys HandleJWKS serves, in order
    privateKey,  \* authenticator: the pair it signs with
    keyID,       \* authenticator: the kid it signs with
    generating,  \* authenticator: where GenerateKeyPair is
    published,   \* history: when each pair was served, and under which kid
    agent,       \* agent: the goroutine of each task
    config,      \* task manager: PushNotifications has the task
    client,      \* the caller of each task
    tracker,     \* webhook: taskMap
    token,       \* the token of the notification of each task
    handler,     \* receiver: the handler of each notification, its verdict at last
    fetch,       \* the fetch of keys in flight of each handler, of the refresher
    cache,       \* receiver: the cached key set
    cachedAt,    \* history: when the cached set was served
    lastFetch,   \* library: lastFetch
    tickAt       \* webhook: when the ticker fires next

signer == <<keySet, privateKey, keyID, generating, published>>
work == <<agent, config, client, token>>
receiver == <<handler, fetch, cache, cachedAt, lastFetch, tickAt>>
vars == <<now, verifier, signer, work, tracker, receiver>>

NoToken == [kid |-> 0, pair |-> 0, iat |-> 0]
NoFetch == [at |-> "no", since |-> 0, keys |-> <<>>, served |-> 0]
Verdicts == {"ok", "fetch", "key", "signature", "age"}
Unpublished == [kid |-> 0, from |-> 0, to |-> 0]

KeySets == UNION {[1..n -> Key] : n \in 0..MaxKeys}

TypeOK ==
    /\ now \in Times \ {0} /\ verifier \in DOMAIN Receivers
    /\ keySet \in Seq(Key) /\ privateKey \in Pairs /\ keyID \in Times
    /\ generating \in {"idle", "start", "id", "add"}
    /\ published \in [Pairs -> [kid : Times, from : Times, to : Times]]
    /\ agent \in [Tasks -> {"none", "working", "post", "cut", "done", "lost"}]
    /\ config \in [Tasks -> BOOLEAN]
    /\ client \in [Tasks -> {"idle", "track", "configure", "done"}]
    /\ tracker \in [Tasks -> {"unknown", "pending", "completed"}]
    /\ token \in [Tasks -> [kid : Times, pair : Pairs, iat : Times]]
    /\ handler \in [Tasks -> {"none", "fetching", "lookup"} \cup Verdicts]
    /\ \A f \in Fetchers :
          /\ fetch[f].at \in {"no", "request", "response", "stamp"}
          /\ fetch[f].since \in Times /\ fetch[f].served \in Times
          /\ fetch[f].keys \in Seq(Key)
    /\ cache \in Seq(Key) /\ cachedAt \in Times /\ lastFetch \in Times
    /\ tickAt \in 0..(MaxTime + Refresh)

(* The server generates its keys before it serves; NewJWKSClient of the        *)
(* webhook begins with a refresh.                                            *)
Init ==
    /\ now = 1 /\ verifier \in DOMAIN Receivers
    /\ keySet = <<>> /\ privateKey = 0 /\ keyID = 0 /\ generating = "start"
    /\ published = [p \in Pairs |-> Unpublished]
    /\ agent = [t \in Tasks |-> "none"] /\ config = [t \in Tasks |-> FALSE]
    /\ client = [t \in Tasks |-> "idle"] /\ tracker = [t \in Tasks |-> "unknown"]
    /\ token = [t \in Tasks |-> NoToken]
    /\ handler = [t \in Tasks |-> "none"]
    /\ fetch = [f \in Fetchers |-> IF f = "refresher" /\ verifier = "webhook"
                                   THEN [NoFetch EXCEPT !.at = "request", !.since = now]
                                   ELSE NoFetch]
    /\ cache = <<>> /\ cachedAt = 0 /\ lastFetch = 0 /\ tickAt = 0

-----------------------------------------------------------------------------
(* The authenticator.  Pairs are numbered in the order of their generation;    *)
(* a kid is the second at which it was made.                                 *)

Serving == keySet # <<>>
NextPair == privateKey + 1

(* A key pair is generated at the start, and again when the service rotates    *)
(* its keys while it serves; SetKeyID and AddKey are the rest of it.           *)
GenerateKeyPair ==
    /\ generating = "start" \/ (generating = "idle" /\ NextPair <= MaxKeys)
    /\ privateKey' = NextPair /\ generating' = "id"
    /\ UNCHANGED <<now, verifier, keySet, keyID, published, work, tracker, receiver>>

SetKeyID ==
    /\ generating = "id"
    /\ keyID' = now /\ generating' = "add"
    /\ UNCHANGED <<now, verifier, keySet, privateKey, published,
                   work, tracker, receiver>>

AddKey ==
    /\ generating = "add"
    /\ keySet' = Append(keySet, [kid |-> keyID, pair |-> privateKey])
    /\ published' = [published EXCEPT ![privateKey] =
                        [kid |-> keyID, from |-> now, to |-> MaxTime]]
    /\ generating' = "idle"
    /\ UNCHANGED <<now, verifier, privateKey, keyID, work, tracker, receiver>>

(* The server's process ends and another takes its place: its tasks, their     *)
(* configurations and its keys are gone.                                     *)
Restart ==
    /\ Serving /\ generating = "idle" /\ NextPair <= MaxKeys
    /\ keySet' = <<>> /\ keyID' = 0 /\ generating' = "start"
    /\ published' = [p \in Pairs |-> IF \E i \in 1..Len(keySet) : keySet[i].pair = p
                                     THEN [published[p] EXCEPT !.to = now] ELSE published[p]]
    /\ agent' = [t \in Tasks |-> IF agent[t] \in {"none", "done"} THEN agent[t] ELSE "lost"]
    /\ config' = [t \in Tasks |-> FALSE]
    /\ UNCHANGED <<now, verifier, privateKey, client, token, tracker, receiver>>

-----------------------------------------------------------------------------
(* The callers and the agent. *)

(* The webhook's process sets itself up before it sends its messages. *)
Ready == Serving /\ (verifier = "webhook" => tickAt # 0)

(* message/send of the webhook's main: the example agent answers with a message *)
(* and builds no task, another may answer with a task.                        *)
processDirectly(t) ==
    "message" \in Agents /\ client' = [client EXCEPT ![t] = "done"] /\ agent' = agent

sendMessage(t) ==
    /\ verifier = "webhook" /\ Ready /\ client[t] = "idle"
    /\ \/ processDirectly(t)
       \/ /\ "task" \in Agents
          /\ client' = [client EXCEPT ![t] = "track"]
          /\ agent' = [agent EXCEPT ![t] = "working"]
    /\ UNCHANGED <<now, verifier, signer, config, token, tracker, receiver>>

(* message/stream of any caller, which then registers the receiver. *)
StreamMessage(t) ==
    /\ Ready /\ client[t] = "idle"
    /\ client' = [client EXCEPT ![t] = "configure"]
    /\ agent' = [agent EXCEPT ![t] = "working"]
    /\ UNCHANGED <<now, verifier, signer, config, token, tracker, receiver>>

TrackTask(t) ==
    /\ client[t] = "track"
    /\ tracker' = [tracker EXCEPT ![t] = "pending"]
    /\ client' = [client EXCEPT ![t] = "configure"]
    /\ UNCHANGED <<now, verifier, signer, agent, config, token, receiver>>

(* The configuration is stored whether the task is still there or not; a caller *)
(* whose request fails is one that never makes it.                            *)
SetPushNotification(t) ==
    /\ client[t] = "configure"
    /\ client' = [client EXCEPT ![t] = "done"]
    /\ Serving /\ config' = [config EXCEPT ![t] = TRUE]
    /\ UNCHANGED <<now, verifier, signer, agent, token, tracker, receiver>>

CleanTask(t) == config' = [config EXCEPT ![t] = FALSE]

(* Nothing orders these reads after the writes of GenerateKeyPair. *)
SignPayload(t) ==
    token' = [token EXCEPT ![t] = [kid |-> keyID, pair |-> privateKey, iat |-> now]]

(* processTaskAsync: the work is done and its completion sent to the stream;   *)
(* the notification is signed if there is a configuration by now.            *)
sendPushNotification(t) ==
    /\ agent[t] = "working"
    /\ IF config[t]
       THEN agent' = [agent EXCEPT ![t] = "post"] /\ SignPayload(t) /\ config' = config
       ELSE agent' = [agent EXCEPT ![t] = "done"] /\ CleanTask(t) /\ token' = token
    /\ UNCHANGED <<now, verifier, signer, client, tracker, receiver>>

(* The caller goes away, or its connection does, and with it the context of the *)
(* notification.  (Before the POST or after its arrival that is one more reason  *)
(* for it to fail.)                                                           *)
CallerLeaves(t) ==
    /\ agent[t] = "post" /\ handler[t] = "none" /\ agent' = [agent EXCEPT ![t] = "cut"]
    /\ UNCHANGED <<now, verifier, signer, config, client, token, tracker, receiver>>

(* The POST has no timeout of its own: it must return when it is answered or   *)
(* its context has ended, and may return with an error at any other time.      *)
(* Then the task is cleaned up.                                              *)
PostEnds(t) == handler[t] \in Verdicts \/ agent[t] = "cut"

SendPushNotification(t) ==
    /\ agent[t] \in {"post", "cut"}
    /\ agent' = [agent EXCEPT ![t] = "done"] /\ CleanTask(t)
    /\ UNCHANGED <<now, verifier, signer, client, token, tracker, receiver>>

-----------------------------------------------------------------------------
(* Fetching the keys: FetchKeys in each handler of the library, without a lock, *)
(* RefreshJWKS in the webhook, one at a time.                                 *)

Requesting == [NoFetch EXCEPT !.at = "request", !.since = now]

(* Mutant of Cached: the age of the cache is not looked at. *)
CachedOnce == lastFetch # 0

Cached == lastFetch # 0 /\ now - lastFetch < TTL

FetchKeys(t) ==
    IF Cached
    THEN handler' = [handler EXCEPT ![t] = "lookup"] /\ fetch' = fetch
    ELSE /\ handler' = [handler EXCEPT ![t] = "fetching"]
         /\ fetch' = [fetch EXCEPT ![t] = Requesting]

(* Mutant of StartPeriodicRefresh: it does not wait for its ticker. *)
RefreshesAtOnce ==
    /\ tickAt # 0 /\ fetch["refresher"].at = "no"
    /\ tickAt' = tickAt + Refresh
    /\ fetch' = [fetch EXCEPT !["refresher"] = Requesting]
    /\ UNCHANGED <<now, verifier, signer, work, tracker, handler,
                   cache, cachedAt, lastFetch>>

StartPeriodicRefresh ==
    /\ tickAt # 0 /\ now >= tickAt /\ fetch["refresher"].at = "no"
    /\ tickAt' = tickAt + Refresh
    /\ fetch' = [fetch EXCEPT !["refresher"] = Requesting]
    /\ UNCHANGED <<now, verifier, signer, work, tracker, handler,
                   cache, cachedAt, lastFetch>>

HandleJWKS(f) ==
    /\ fetch[f].at = "request" /\ Serving
    /\ fetch' = [fetch EXCEPT ![f] = [@ EXCEPT !.at = "response", !.keys = keySet, !.served = now]]
    /\ UNCHANGED <<now, verifier, signer, work, tracker, handler,
                   cache, cachedAt, lastFetch, tickAt>>

(* The ticker of the webhook starts once the first refresh is over. *)
Ticking == IF tickAt = 0 THEN now + Refresh ELSE tickAt
Decided(t, why) ==
    /\ handler' = [handler EXCEPT ![t] = why]
    /\ token' = [token EXCEPT ![t] = NoToken]

(* Mutant of FetchFails: the HTTP client has no timeout. *)
FetchWaits(t) == fetch[t].at = "request" /\ Serving /\ UNCHANGED vars

(* A fetch of the library fails: GetKey returns its error. *)
FetchFails(t) ==
    /\ fetch[t].at \in {"request", "response"}
    /\ fetch' = [fetch EXCEPT ![t] = NoFetch] /\ Decided(t, "fetch")
    /\ UNCHANGED <<now, verifier, signer, agent, config, client, tracker,
                   cache, cachedAt, lastFetch, tickAt>>

InstallKeys(t) ==
    /\ fetch[t].at = "response"
    /\ cache' = fetch[t].keys /\ cachedAt' = fetch[t].served
    /\ fetch' = [fetch EXCEPT ![t].at = "stamp"]
    /\ UNCHANGED <<now, verifier, signer, work, tracker, handler, lastFetch, tickAt>>

(* The end of a refresh: the new key set, or the one before after a failure. *)
RefreshJWKS ==
    LET refresh == fetch["refresher"]
    IN  /\ \/ refresh.at = "response" /\ cache' = refresh.keys /\ cachedAt' = refresh.served
           \/ refresh.at \in {"request", "response"} /\ UNCHANGED <<cache, cachedAt>>
        /\ tickAt' = Ticking
        /\ fetch' = [fetch EXCEPT !["refresher"] = NoFetch]
        /\ UNCHANGED <<now, verifier, signer, work, tracker, handler, lastFetch>>

StampFetch(t) ==
    /\ fetch[t].at = "stamp"
    /\ lastFetch' = now
    /\ fetch' = [fetch EXCEPT ![t] = NoFetch]
    /\ handler' = [handler EXCEPT ![t] = "lookup"]
    /\ UNCHANGED <<now, verifier, signer, work, tracker,
                   cache, cachedAt, tickAt>>

-----------------------------------------------------------------------------
(* A notification arrives and is verified. *)

(* GetKey makes sure of the keys, the webhook takes the set it has. *)
ServeHTTP(t) ==
    /\ agent[t] = "post" /\ handler[t] = "none"
    /\ IF verifier = "library" THEN FetchKeys(t)
       ELSE handler' = [handler EXCEPT ![t] = "lookup"] /\ fetch' = fetch
    /\ UNCHANGED <<now, verifier, signer, work, tracker,
                   cache, cachedAt, lastFetch, tickAt>>

LookupKeyID(kid) == {i \in 1..Len(cache) : cache[i].kid = kid}
Missing(t) == LookupKeyID(token[t].kid) = {}
Signed(t) == cache[Min(LookupKeyID(token[t].kid))].pair = token[t].pair
Age(t) == now - token[t].iat

VerifyPushNotification(t) ==
    IF Missing(t) THEN "key" ELSE IF ~Signed(t) THEN "signature"
    ELSE IF Age(t) > MaxAge THEN "age" ELSE "ok"

(* The second try, with every key, ends in a refusal whatever it finds. *)
SecondTry(t) == IF Missing(t) THEN "key" ELSE "signature"
ClaimsOf(t) == IF Age(t) > 2 * MaxAge THEN "age" ELSE "ok"
verifyJWT(t) == IF Missing(t) \/ ~Signed(t) THEN SecondTry(t) ELSE ClaimsOf(t)

UpdateTaskStatus(t) == tracker' = [tracker EXCEPT ![t] = "completed"]

Verify(t) ==
    /\ handler[t] = "lookup"
    /\ IF verifier = "library" THEN Decided(t, VerifyPushNotification(t)) /\ tracker' = tracker
       ELSE /\ Decided(t, verifyJWT(t))
            /\ IF verifyJWT(t) = "ok" THEN UpdateTaskStatus(t) ELSE tracker' = tracker
    /\ UNCHANGED <<now, verifier, signer, agent, config, client, fetch,
                   cache, cachedAt, lastFetch, tickAt>>

-----------------------------------------------------------------------------
(* The computing steps take no time, a fetch ends by its timeout and the       *)
(* ticker is not late.                                                       *)
Urgent ==
    \/ generating # "idle"
    \/ \E t \in Tasks : handler[t] = "lookup"
    \/ \E f \in Fetchers :
          \/ fetch[f].at = "stamp"
          \/ fetch[f].at # "no" /\ now = fetch[f].since + Timeout
    \/ (tickAt # 0 /\ now >= tickAt /\ fetch["refresher"].at = "no")

Tick ==
    /\ now < MaxTime /\ ~Urgent
    /\ now' = now + 1
    /\ UNCHANGED <<verifier, signer, work, tracker, receiver>>

KeyStep == SetKeyID \/ AddKey
AgentStep(t) == sendPushNotification(t) \/ SendPushNotification(t)
ClientStep(t) == TrackTask(t) \/ SetPushNotification(t)
HandlerStep(t) == FetchFails(t) \/ InstallKeys(t) \/ StampFetch(t) \/ Verify(t)

Next ==
    \/ Tick \/ GenerateKeyPair \/ KeyStep \/ Restart \/ StartPeriodicRefresh \/ RefreshJWKS
    \/ \E t \in Receivers[verifier] :
          \/ sendMessage(t) \/ StreamMessage(t) \/ ClientStep(t) \/ CallerLeaves(t)
          \/ AgentStep(t) \/ ServeHTTP(t) \/ HandlerStep(t)
    \/ \E f \in Fetchers : HandleJWKS(f)

SafeSpec == Init /\ [][Next]_vars

(* Goroutines run, a sleep ends, a fetch ends, and so does a POST that must.     *)
(* Nothing obliges a receiver to serve a notification, or a caller to leave.    *)
Fairness ==
    /\ WF_vars(KeyStep)
    /\ \A t \in Tasks :
          /\ WF_vars(sendPushNotification(t) \/ (PostEnds(t) /\ SendPushNotification(t)))
          /\ WF_vars(HandlerStep(t))
    /\ \A f \in Fetchers : WF_vars(HandleJWKS(f))

Spec == SafeSpec /\ Fairness

-----------------------------------------------------------------------------
(* Properties. *)

(* Whether the token of t names the pair that signed it and no other pair was  *)
(* ever served under that name.                                              *)
WellMade(t) ==
    \A p \in Pairs \ {0} : published[p] # Unpublished =>
        (published[p].kid = token[t].kid <=> p = token[t].pair)

(* A verdict is right whatever fetches, rotations and restarts go on beside it: *)
(* accepted is only what a pair signed that the server served when the cached   *)
(* keys were fetched, and that is young enough; a well-made token is refused    *)
(* for its key only if that key came or went since the fetch, and for its age   *)
(* only if it is too old.  The library judges by keys served within TTL plus    *)
(* the time of a fetch.                                                      *)
VerdictsAreRight ==
    [][\A t \in Tasks :
        LET why == handler'[t]
            pair == published[token[t].pair]
            age == now - token[t].iat
            limit == IF verifier = "library" THEN MaxAge ELSE 2 * MaxAge
        IN  why # handler[t] =>
            /\ why = "ok" =>
                  /\ pair # Unpublished /\ pair.from <= cachedAt /\ cachedAt <= pair.to
                  /\ age <= limit
            /\ why \in {"key", "signature"} /\ WellMade(t) =>
                  pair = Unpublished \/ cachedAt <= pair.from \/ cachedAt >= pair.to
            /\ why = "age" => age > limit
            /\ verifier = "library" /\ why \in {"ok", "key", "signature", "age"} =>
                  cachedAt # 0 /\ now - cachedAt < TTL + Timeout]_vars

(* A notification keeps its task only while the receiver has not taken it up    *)
(* and the caller stays (its POST has no timeout): otherwise, whatever becomes   *)
(* of the receiver, the keys and the server, every task that is begun is cleaned *)
(* up or lost with its server, and whoever was notified comes to a verdict.     *)
(* What a receiver takes up, or a caller leaves, is owed the rest from there.   *)
TasksAreReleased ==
    \A t \in Tasks :
        (agent[t] \in {"working", "post", "cut"} \/ handler[t] \in {"fetching", "lookup"}) ~>
            \/ agent[t] \in {"done", "lost"} /\ handler[t] \in {"none"} \cup Verdicts
            \/ agent[t] = "post" /\ handler[t] = "none"
=============================================================================
