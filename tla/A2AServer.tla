------------------------------ MODULE A2AServer ------------------------------
(***************************************************************************)
(* The server's life (Start, Stop and telemetry, server.go) beside the calls *)
(* in flight: what a caller does (client.go), the authentication middlewares  *)
(* (auth/provider.go), the JSON-RPC checks and handlers, and the answer.      *)
(*                                                                          *)
(* A request is a method, the flaws it has and the credentials it carries.    *)
(* The task manager is seen through what it returns; the events of a stream   *)
(* are in StreamPipeline, so a stream here only opens and closes.             *)
(***************************************************************************)
EXTENDS Naturals, Sequences

CONSTANTS
    Calls,        \* calls of this instance, each made at most once
    Requests,     \* for each call, the requests it may send
    Middlewares,  \* a sequence of chains of authentication providers
    Tokens,       \* what an Authorization header or an API key header may carry
    Users,        \* who they may stand for
    Nothing       \* an absent header, and no user

(* What tells one handler from another: the flaws it looks for itself, the     *)
(* statuses of the errors its operation of the task manager may come to (a    *)
(* typed error keeps its code, any other is internal), whether it keeps       *)
(* metrics and whether it answers with a stream.                              *)
Handler(checks, errors, tracked, streams) ==
    [checks |-> checks, errors |-> errors, tracked |-> tracked, streams |-> streams]

handleMessageSend == Handler({"params"}, {400, 500}, TRUE, FALSE)
handleMessageStream == Handler({"params", "fields"}, {500}, TRUE, TRUE)
handleTasksGet == Handler({"params"}, {400, 500}, FALSE, FALSE)
handleTasksCancel == Handler({"params"}, {400, 500}, FALSE, FALSE)
handleTasksResubscribe == Handler({"params", "fields"}, {400, 500}, FALSE, TRUE)
handleTasksPushNotificationGet == Handler({"params", "fields"}, {400, 500}, FALSE, FALSE)
handleTasksPushNotificationSet == Handler({"params", "fields"}, {400, 500}, FALSE, FALSE)
handleAgentGetAuthenticatedExtendedCard == Handler({}, {500}, FALSE, FALSE)

routeJSONRPCMethod ==
    [m \in {"message/send", "message/stream", "tasks/get", "tasks/cancel", "tasks/resubscribe",
            "tasks/pushNotificationConfig/get", "tasks/pushNotificationConfig/set",
            "agent/getAuthenticatedExtendedCard"} |->
        CASE m = "message/send" -> handleMessageSend
          [] m = "message/stream" -> handleMessageStream
          [] m = "tasks/get" -> handleTasksGet
          [] m = "tasks/cancel" -> handleTasksCancel
          [] m = "tasks/resubscribe" -> handleTasksResubscribe
          [] m = "tasks/pushNotificationConfig/get" -> handleTasksPushNotificationGet
          [] m = "tasks/pushNotificationConfig/set" -> handleTasksPushNotificationSet
          [] m = "agent/getAuthenticatedExtendedCard" -> handleAgentGetAuthenticatedExtendedCard]

AllMethods == DOMAIN routeJSONRPCMethod \cup {"agent card", "unknown"}
AllFlaws == {"verb", "content", "body", "json", "version", "params", "fields", "path"}
                \cup {"preflight"}              \* OPTIONS, where CORS is enabled

(* The headers a request carries. *)
Credentials == [authorization : Tokens \cup {Nothing}, apiKey : Tokens \cup {Nothing}]
Request == [method : AllMethods, flaws : SUBSET AllFlaws, credentials : Credentials]
NoRequest == [method |-> "none", flaws |-> {},
              credentials |-> [authorization |-> Nothing, apiKey |-> Nothing]]

(* A provider knows tokens: those signed with its secret for its audience and *)
(* issuer, the keys of its map, or those its userinfo endpoint knows.         *)
Provider == [kind : {"jwt", "apiKey", "oauth2"},
             grants : UNION {[known -> Users] : known \in SUBSET Tokens}]

ASSUME RequestsAssumption == Requests \in [Calls -> SUBSET Request]
ASSUME MiddlewaresAssumption == Middlewares \in Seq(Seq(Provider) \ {<<>>})
ASSUME NothingAssumption == Nothing \notin Tokens \cup Users

VARIABLES
    closer,      \* the task manager implements io.Closer
    exports,     \* a meter provider is configured, owned by the server
    starter,     \* the goroutine in Start
    httpServer,  \* A2AServer.httpServer is set
    listening,   \* the listener accepts connections
    closing,     \* http.Server.Shutdown has been called
    telemetry,   \* "off", "on" or "down" (shutdownTelemetry has run)
    stopper,     \* the goroutine in Stop
    failed,      \* shutdownErrs is not empty
    closed,      \* the task manager has been closed
    asked,       \* what each call sends
    caller,      \* where the caller of each call is
    attempt,     \* how many requests it has made: GetAgentCard tries two paths
    up,          \* its connection carries data
    place,       \* where its request is in the server
    user,        \* AuthUserKey in the context of its request
    reply,       \* what the server answers, "none" before it is known
    answered,    \* the answer is written
    effect,      \* what the task manager did for the request
    meter        \* the request's metrics

life == <<closer, exports, starter, httpServer, listening, closing, telemetry,
          stopper, failed, closed>>
calls == <<asked, caller, attempt, up, place, user, reply, answered, effect, meter>>
vars == <<life, calls>>

OK == [status |-> 200, error |-> FALSE]
Error(status) == [status |-> status, error |-> TRUE]
Replies == {OK, Error(400), Error(401), Error(404), Error(405), Error(500)}
NoReply == [status |-> 0, error |-> FALSE]

TypeOK ==
    /\ closer \in BOOLEAN /\ exports \in BOOLEAN /\ httpServer \in BOOLEAN
    /\ listening \in BOOLEAN /\ closing \in BOOLEAN /\ closed \in BOOLEAN
    /\ starter \in {"idle", "create", "listen", "serve", "abort", "failed", "done"}
    /\ telemetry \in {"off", "on", "down"}
    /\ stopper \in {"idle", "shutdown", "close", "telemetry", "ok", "error", "notRunning"}
    /\ failed \in BOOLEAN
    /\ asked \in [Calls -> Request \cup {NoRequest}]
    /\ \A c \in Calls : asked[c] \in Requests[c] \cup {NoRequest}
    /\ caller \in [Calls -> {"idle", "waiting", "streaming", "ok", "rpcError", "failed"}]
    /\ attempt \in [Calls -> 0..2]
    /\ up \in [Calls -> BOOLEAN]
    /\ place \in [Calls -> {"none", "queued", "parse", "handle", "manager",
                            "stream", "record", "answer", "done"}]
    /\ user \in [Calls -> Users \cup {Nothing}]
    /\ reply \in [Calls -> Replies \cup {NoReply}]
    /\ answered \in [Calls -> BOOLEAN]
    /\ effect \in [Calls -> {"none", "ok", "error"}]
    /\ meter \in [Calls -> {"none", "held", "blind", "counted", "lost"}]

Init ==
    /\ closer \in BOOLEAN /\ exports \in BOOLEAN
    /\ starter = "idle" /\ httpServer = FALSE /\ listening = FALSE /\ closing = FALSE
    /\ telemetry = "off" /\ stopper = "idle" /\ failed = FALSE /\ closed = FALSE
    /\ asked = [c \in Calls |-> NoRequest]
    /\ caller = [c \in Calls |-> "idle"]
    /\ attempt = [c \in Calls |-> 0]
    /\ up = [c \in Calls |-> FALSE]
    /\ place = [c \in Calls |-> "none"]
    /\ user = [c \in Calls |-> Nothing]
    /\ reply = [c \in Calls |-> NoReply]
    /\ answered = [c \in Calls |-> FALSE]
    /\ effect = [c \in Calls |-> "none"]
    /\ meter = [c \in Calls |-> "none"]

-----------------------------------------------------------------------------
(* Start and Stop. *)

initTelemetry ==
    /\ starter = "idle"
    /\ \/ /\ telemetry' = IF exports THEN "on" ELSE "off"
          /\ starter' = "create"
       \/ /\ exports                           \* the provider cannot be made
          /\ starter' = "failed" /\ telemetry' = telemetry
    /\ UNCHANGED <<closer, exports, httpServer, listening, closing, stopper,
                   failed, closed, calls>>

CreateServer ==
    /\ starter = "create"
    /\ starter' = "listen" /\ httpServer' = TRUE
    /\ UNCHANGED <<closer, exports, listening, closing, telemetry, stopper,
                   failed, closed, calls>>

(* ListenAndServe returns ErrServerClosed once Shutdown was called, and another *)
(* error when it does not get its port.                                       *)
Listen ==
    /\ starter = "listen"
    /\ IF closing
       THEN starter' = "done" /\ listening' = listening
       ELSE \/ starter' = "serve" /\ listening' = TRUE
            \/ starter' = "abort" /\ listening' = listening
    /\ UNCHANGED <<closer, exports, httpServer, closing, telemetry, stopper,
                   failed, closed, calls>>

ServeReturns ==
    /\ starter = "serve" /\ closing
    /\ starter' = "done"
    /\ UNCHANGED <<closer, exports, httpServer, listening, closing, telemetry,
                   stopper, failed, closed, calls>>

(* Accept fails for good: the listener is closed, the connections stay. *)
ServeFails ==
    /\ starter = "serve" /\ ~closing
    /\ starter' = "abort" /\ listening' = FALSE
    /\ UNCHANGED <<closer, exports, httpServer, closing, telemetry, stopper,
                   failed, closed, calls>>

(* Start then shuts telemetry down itself, whatever runs. *)
StartFails ==
    /\ starter = "abort"
    /\ starter' = "failed" /\ telemetry' = "down"
    /\ UNCHANGED <<closer, exports, httpServer, listening, closing, stopper,
                   failed, closed, calls>>

(* Nothing orders this read of httpServer after Start's write. *)
Stop ==
    /\ stopper = "idle"
    /\ \/ stopper' = "notRunning" /\ UNCHANGED <<listening, closing>>
       \/ /\ httpServer
          /\ stopper' = "shutdown"
          /\ closing' = TRUE /\ listening' = FALSE
    /\ UNCHANGED <<closer, exports, starter, httpServer, telemetry, failed, closed, calls>>

Busy == {c \in Calls : place[c] \notin {"none", "done"}}

(* Mutant of Drained: the connections are closed and nothing is waited for. *)
ClosedAtOnce ==
    /\ stopper = "shutdown"
    /\ stopper' = "close"
    /\ UNCHANGED <<closer, exports, starter, httpServer, listening, closing,
                   telemetry, failed, closed, calls>>

(* Shutdown waits until no connection has a request, or its context ends. *)
Drained ==
    /\ stopper = "shutdown" /\ Busy = {}
    /\ stopper' = "close"
    /\ UNCHANGED <<closer, exports, starter, httpServer, listening, closing,
                   telemetry, failed, closed, calls>>

(* Mutant of DeadlinePasses: Shutdown is not given Stop's context. *)
NoDeadline == stopper = "shutdown" /\ Busy = {Nothing} /\ UNCHANGED vars

DeadlinePasses ==
    /\ stopper = "shutdown" /\ Busy # {}
    /\ stopper' = "close" /\ failed' = TRUE
    /\ UNCHANGED <<closer, exports, starter, httpServer, listening, closing,
                   telemetry, closed, calls>>

(* Close is given no context: it may hang. *)
CloseManager ==
    /\ stopper = "close" /\ stopper' = "telemetry"
    /\ closed' = closer
    /\ failed' \in {failed, failed \/ closer}
    /\ UNCHANGED <<closer, exports, starter, httpServer, listening, closing, telemetry, calls>>

(* It may fail; so may a second one beside Start's own. *)
shutdownTelemetry ==
    /\ stopper = "telemetry"
    /\ telemetry' = "down"
    /\ failed' \in {failed, failed \/ exports}
    /\ stopper' = IF failed' THEN "error" ELSE "ok"
    /\ UNCHANGED <<closer, exports, starter, httpServer, listening, closing, closed, calls>>

-----------------------------------------------------------------------------
(* The caller's side of a call. *)

(* A connection that was kept serves new requests, also when Accept has failed, *)
(* until Shutdown closes it.                                                 *)
Kept == ~closing /\ \E d \in Calls : up[d]

Sends(c) ==
    /\ attempt' = [attempt EXCEPT ![c] = @ + 1]
    /\ \/ /\ listening \/ Kept
          /\ caller' = [caller EXCEPT ![c] = "waiting"]
          /\ up' = [up EXCEPT ![c] = TRUE]
          /\ place' = [place EXCEPT ![c] = "queued"]
       \/ /\ ~listening
          /\ caller' = [caller EXCEPT ![c] = "failed"]
          /\ UNCHANGED <<up, place>>

Call(c) ==
    /\ caller[c] = "idle"
    /\ \E r \in Requests[c] : asked' = [asked EXCEPT ![c] = r]
    /\ Sends(c)
    /\ UNCHANGED <<life, user, reply, answered, effect, meter>>

(* Mutant of Retries: the old path is tried again and again. *)
RetriesForever(c) == asked[c].method = "agent card"

(* GetAgentCard tries the old path after any failure at the new one. *)
Retries(c) == asked[c].method = "agent card" /\ attempt[c] = 1

Reads(c, success) ==
    /\ caller[c] = "waiting" /\ up[c] /\ answered[c]
    /\ caller' = [caller EXCEPT ![c] = IF reply[c].status # 200 THEN "failed"
                                       ELSE IF reply[c].error THEN "rpcError" ELSE success]
    /\ UNCHANGED <<life, asked, attempt, up, place, user, reply, answered, effect, meter>>

Streams(c) ==
    asked[c].method \in DOMAIN routeJSONRPCMethod /\ routeJSONRPCMethod[asked[c].method].streams

doRequest(c) == ~Streams(c) /\ Reads(c, "ok")
sendA2AStreamRequest(c) == Streams(c) /\ Reads(c, "streaming")

(* The caller's context ends or the connection is lost, before the answer or  *)
(* in the middle of it; the request goes on in the server.                   *)
ConnectionLost(c) ==
    /\ caller[c] \in {"waiting", "streaming"} /\ up[c]
    /\ up' = [up EXCEPT ![c] = FALSE]
    /\ caller' = [caller EXCEPT ![c] = "failed"]
    /\ UNCHANGED <<life, asked, attempt, place, user, reply, answered, effect, meter>>

Fallback(c) ==
    /\ caller[c] = "failed" /\ Retries(c) /\ place[c] \in {"none", "done"}
    /\ Sends(c)
    /\ reply' = [reply EXCEPT ![c] = NoReply]
    /\ answered' = [answered EXCEPT ![c] = FALSE]
    /\ UNCHANGED <<life, asked, user, effect, meter>>

-----------------------------------------------------------------------------
(* The server's side: middlewares, checks, handlers. *)

Goes(c, to) == place' = [place EXCEPT ![c] = to]
Replying(c, r) == reply' = [reply EXCEPT ![c] = r] /\ Goes(c, "answer")
Has(c, flaw) == flaw \in asked[c].flaws

(* What a provider may find: the user its token stands for, or Nothing.  A    *)
(* JWT may have expired on its way and the userinfo endpoint may fail.        *)
Granted(p, token) == IF token \in DOMAIN p.grants THEN {p.grants[token]} ELSE {}
jwtAuthenticate(p, headers) == Granted(p, headers.authorization) \cup {Nothing}
oauth2Authenticate(p, headers) == Granted(p, headers.authorization) \cup {Nothing}
apiKeyAuthenticate(p, headers) ==
    IF headers.apiKey \in DOMAIN p.grants THEN Granted(p, headers.apiKey) ELSE {Nothing}

providerAuthenticate(p, headers) ==
    CASE p.kind = "jwt" -> jwtAuthenticate(p, headers)
      [] p.kind = "oauth2" -> oauth2Authenticate(p, headers)
      [] p.kind = "apiKey" -> apiKeyAuthenticate(p, headers)

(* ChainAuthProvider: the first provider that finds a user. *)
chainAuthenticate(chain, headers) ==
    LET found(i) == providerAuthenticate(chain[i], headers)
        unknownTo(n) == \A i \in 1..n : Nothing \in found(i)
    IN  (UNION {found(i) \ {Nothing} : i \in {j \in 1..Len(chain) : unknownTo(j - 1)}})
        \cup (IF unknownTo(Len(chain)) THEN {Nothing} ELSE {})

(* Each middleware puts its user into the context, the innermost one last; one *)
(* that finds none answers for the handler.  They wrap the JSON-RPC endpoint.  *)
MayRefuse(headers) ==
    \E i \in 1..Len(Middlewares) : Nothing \in chainAuthenticate(Middlewares[i], headers)
(* Mutant of Identities: the innermost middleware decides alone. *)
IdentitiesOfLast(headers) ==
    IF Middlewares = <<>> THEN {Nothing}
    ELSE chainAuthenticate(Middlewares[Len(Middlewares)], headers) \ {Nothing}

Identities(headers) ==
    IF Middlewares = <<>> THEN {Nothing}
    ELSE IF \A i \in 1..Len(Middlewares) :
               chainAuthenticate(Middlewares[i], headers) # {Nothing}
    THEN chainAuthenticate(Middlewares[Len(Middlewares)], headers) \ {Nothing}
    ELSE {}

Wrap(c) ==
    /\ place[c] = "queued" /\ asked[c].method # "agent card"
    /\ \/ MayRefuse(asked[c].credentials) /\ Replying(c, Error(401)) /\ user' = user
       \/ \E u \in Identities(asked[c].credentials) :
             user' = [user EXCEPT ![c] = u] /\ Goes(c, "parse") /\ reply' = reply
    /\ UNCHANGED <<life, asked, caller, attempt, up, answered, effect, meter>>

handleAgentCard(c) ==
    /\ place[c] = "queued" /\ asked[c].method = "agent card"
    /\ Replying(c, IF Has(c, "path") /\ attempt[c] = 1 THEN Error(404)
                   ELSE IF Has(c, "verb") \/ Has(c, "preflight") THEN Error(405) ELSE OK)
    /\ UNCHANGED <<life, asked, caller, attempt, up, user, answered, effect, meter>>

(* handleJSONRPC up to routeJSONRPCMethod.  A preflight request is answered at  *)
(* once, but only behind the middlewares.                                     *)
parseJSONRPCRequest(c) ==
    /\ place[c] = "parse"
    /\ IF Has(c, "preflight") THEN Replying(c, OK)
       ELSE IF \E flaw \in {"verb", "content", "body", "json", "version"} : Has(c, flaw)
       THEN Replying(c, Error(400))
       ELSE IF asked[c].method \notin DOMAIN routeJSONRPCMethod THEN Replying(c, Error(404))
       ELSE Goes(c, "handle") /\ reply' = reply
    /\ UNCHANGED <<life, asked, caller, attempt, up, user, answered, effect, meter>>

(* newMetricsTracker keeps the instruments there are when the request begins. *)
Instruments == IF telemetry = "on" THEN "held" ELSE "blind"
Route(c) == routeJSONRPCMethod[asked[c].method]

(* A streaming handler records its refusal before it writes it, message/send  *)
(* writes its answer first.                                                  *)
Finishes(c, r) ==
    /\ reply' = [reply EXCEPT ![c] = r]
    /\ Goes(c, IF Route(c).tracked /\ Route(c).streams THEN "record" ELSE "answer")

(* A handler decodes and checks the parameters, then calls the task manager. *)
Handle(c) ==
    /\ place[c] = "handle"
    /\ meter' = IF Route(c).tracked THEN [meter EXCEPT ![c] = Instruments] ELSE meter
    /\ IF Route(c).checks \cap asked[c].flaws # {}
       THEN Finishes(c, Error(400))
       ELSE Goes(c, "manager") /\ reply' = reply
    /\ UNCHANGED <<life, asked, caller, attempt, up, user, answered, effect>>

ManagerReturns(c) ==
    /\ place[c] = "manager"
    /\ \/ /\ effect' = [effect EXCEPT ![c] = "ok"]
          /\ IF Route(c).streams
             THEN /\ reply' = [reply EXCEPT ![c] = OK]
                  /\ answered' = [answered EXCEPT ![c] = TRUE]
                  /\ Goes(c, "stream")
             ELSE Finishes(c, OK) /\ answered' = answered
       \/ /\ effect' = [effect EXCEPT ![c] = "error"]
          /\ \E status \in Route(c).errors : Finishes(c, Error(status))
          /\ answered' = answered
    /\ UNCHANGED <<life, asked, caller, attempt, up, user, meter>>

(* handleSSEStream returns: its channel is closed by the agent or by the      *)
(* manager's Close, or its connection is lost.                               *)
StreamEnds(c) ==
    /\ place[c] = "stream"
    /\ Goes(c, IF Route(c).tracked THEN "record" ELSE "done")
    /\ UNCHANGED <<life, asked, caller, attempt, up, user, reply, answered, effect, meter>>

record(c) ==
    /\ place[c] = "record"
    /\ meter' = [meter EXCEPT ![c] =
          IF @ = "held" THEN IF telemetry = "on" THEN "counted" ELSE "lost" ELSE @]
    /\ Goes(c, IF ~answered[c] THEN "answer" ELSE "done")
    /\ UNCHANGED <<life, asked, caller, attempt, up, user, reply, answered, effect>>

Answer(c) ==
    /\ place[c] = "answer"
    /\ answered' = [answered EXCEPT ![c] = TRUE]
    /\ Goes(c, IF meter[c] \in {"held", "blind"} /\ ~Streams(c) THEN "record" ELSE "done")
    /\ UNCHANGED <<life, asked, caller, attempt, up, user, reply, effect, meter>>

-----------------------------------------------------------------------------
Starting == initTelemetry \/ CreateServer \/ Listen \/ ServeReturns
Failing == ServeFails \/ StartFails
Stopping == Drained \/ DeadlinePasses \/ shutdownTelemetry
Serving(c) ==
    \/ Wrap(c) \/ handleAgentCard(c) \/ parseJSONRPCRequest(c) \/ Handle(c)
    \/ record(c) \/ Answer(c)
Calling(c) == doRequest(c) \/ sendA2AStreamRequest(c) \/ Fallback(c)

Next ==
    \/ Starting \/ Failing \/ Stop \/ Stopping \/ CloseManager
    \/ \E c \in Calls :
          \/ Call(c) \/ Calling(c) \/ ConnectionLost(c)
          \/ Serving(c) \/ ManagerReturns(c) \/ StreamEnds(c)

SafeSpec == Init /\ [][Next]_vars

(* Goroutines run and Stop's context has a deadline.  Nothing obliges Close or  *)
(* another operation of the task manager, a stream or its connection to end.   *)
Fairness ==
    /\ WF_vars(Starting) /\ WF_vars(Stopping \/ (~closer /\ CloseManager))
    /\ \A c \in Calls : WF_vars(Serving(c)) /\ WF_vars(Calling(c))

Spec == SafeSpec /\ Fairness

-----------------------------------------------------------------------------
(* Properties. *)

(* When Stop returns, but for the "not running" of a server it found not begun, *)
(* the listener, the task manager and telemetry are down, whichever of the     *)
(* three steps failed.  When it reports success no handler runs besides, none    *)
(* will, and no request that had instruments lost its metrics, unless Start     *)
(* had failed and taken telemetry down itself.  Stop never closes the manager   *)
(* under a request without reporting an error.                               *)
GracefulStop ==
    /\ stopper \in {"ok", "error"} =>
          ~listening /\ telemetry = "down" /\ closed = closer
    /\ stopper = "ok" =>
          /\ Busy = {}
          /\ starter # "failed" => \A c \in Calls : meter[c] # "lost"
    /\ closed /\ Busy # {} => failed /\ stopper # "ok"

(* What a caller is told is what happened to this request: success means that  *)
(* its operation succeeded in the name of a user whose credentials it carried, *)
(* and what the checks refused never reached the task manager.                *)
HonestAnswers ==
    \A c \in Calls :
        /\ caller[c] \in {"ok", "streaming"} /\ asked[c].method # "agent card" =>
              effect[c] = "ok" \/ Has(c, "preflight")
        /\ effect[c] # "none" =>
              /\ \A i \in 1..Len(Middlewares) :
                    \E u \in Users : u \in chainAuthenticate(Middlewares[i], asked[c].credentials)
              /\ Middlewares # <<>> =>
                    user[c] \in chainAuthenticate(Middlewares[Len(Middlewares)],
                                                 asked[c].credentials) \ {Nothing}
              /\ asked[c].flaws \cap (Route(c).checks \cup {"preflight", "verb", "content",
                                                          "body", "json", "version"}) = {}

(* What client.go:364 says of a JSON-RPC error in a response: it is returned   *)
(* to the caller as that error.                                               *)
ErrorsReachCallers ==
    \A c \in Calls :
        caller[c] = "failed" /\ up[c] /\ asked[c].method \in DOMAIN routeJSONRPCMethod
            => reply[c].status = 401

(* Whatever the callers, the streams and the connections do: Stop returns unless *)
(* it stays in the manager's Close, Start leaves ListenAndServe once Stop has     *)
(* begun, even when it had not entered it, and every call is answered or fails,  *)
(* in the middle of a shutdown too, unless it stays in the task manager.  (What   *)
(* leaves the manager is owed the rest anew: a leads-to holds of every state.)   *)
CallsAndStopReturn ==
    /\ stopper # "idle" ~>
          /\ stopper \in {"ok", "error", "notRunning"} \/ (stopper = "close" /\ closer)
          /\ closing => starter \in {"done", "abort", "failed"}
    /\ \A c \in Calls : caller[c] = "waiting" ~> (caller[c] # "waiting" \/ place[c] = "manager")
=============================================================================
