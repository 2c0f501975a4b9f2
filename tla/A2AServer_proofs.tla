-------------------------- MODULE A2AServer_proofs --------------------------
(***************************************************************************)
(* For any number of calls, any requests and any middlewares: the server's  *)
(* Stop is graceful when it says so, and no caller is told of a success that  *)
(* did not happen or that its credentials do not allow.                     *)
(***************************************************************************)
EXTENDS A2AServer, WellFoundedInduction, TLAPS

-----------------------------------------------------------------------------
(* What the providers and their chains find. *)

(* A provider finds a known user or none, and it always comes to one of them. *)
LEMMA ProviderFinds ==
    ASSUME NEW p \in Provider, NEW h
    PROVE  /\ providerAuthenticate(p, h) \subseteq Users \cup {Nothing}
           /\ providerAuthenticate(p, h) # {}
<1>1. p.kind \in {"jwt", "apiKey", "oauth2"}
  BY DEF Provider
<1>2. PICK known \in SUBSET Tokens : p.grants \in [known -> Users]
  BY DEF Provider
<1>3. \A token : Granted(p, token) \subseteq Users
  BY <1>2 DEF Granted
<1>4. CASE p.kind = "jwt"
  BY <1>3, <1>4 DEF providerAuthenticate, jwtAuthenticate
<1>5. CASE p.kind = "oauth2"
  BY <1>3, <1>5 DEF providerAuthenticate, oauth2Authenticate
<1>6. CASE p.kind = "apiKey"
  BY <1>3, <1>6 DEF providerAuthenticate, apiKeyAuthenticate, Granted
<1> QED BY <1>1, <1>4, <1>5, <1>6

LEMMA HasLeast ==
    ASSUME NEW S \in SUBSET Nat, S # {}
    PROVE  \E n \in S : \A m \in S : n <= m
<1>1. PICK n \in S : \A m \in S : ~ (<<m, n>> \in OpToRel(<, Nat))
  BY NatLessThanWellFounded, WFMin, Zenon
<1>2. \A m \in S : ~ (m < n)
  BY <1>1 DEF OpToRel
<1> QED BY <1>2

(* So does a chain: the first provider that cannot but find a user ends it. *)
LEMMA ChainFinds ==
    ASSUME NEW chain \in Seq(Provider), NEW h
    PROVE  /\ chainAuthenticate(chain, h) \subseteq Users \cup {Nothing}
           /\ chainAuthenticate(chain, h) # {}
<1> DEFINE found(i) == providerAuthenticate(chain[i], h)
           unknownTo(n) == \A i \in 1..n : Nothing \in found(i)
<1>1. /\ Len(chain) \in Nat
      /\ \A i \in 1..Len(chain) : chain[i] \in Provider
  OBVIOUS
<1>2. \A i \in 1..Len(chain) : found(i) \subseteq Users \cup {Nothing} /\ found(i) # {}
  BY <1>1, ProviderFinds
<1> DEFINE U == UNION {found(i) \ {Nothing} : i \in {j \in 1..Len(chain) : unknownTo(j - 1)}}
<1>4. U \subseteq Users
  <2> SUFFICES ASSUME NEW u \in U PROVE u \in Users
    OBVIOUS
  <2>1. PICK i \in 1..Len(chain) : u \in found(i) \ {Nothing}
    OBVIOUS
  <2> QED BY <1>2, <2>1
<1>5. U # {} \/ unknownTo(Len(chain))
  <2> SUFFICES ASSUME ~unknownTo(Len(chain)) PROVE U # {}
    OBVIOUS
  <2> DEFINE S == {i \in 1..Len(chain) : Nothing \notin found(i)}
  <2>1. S # {} /\ S \in SUBSET Nat
    BY <1>1
  <2>2. PICK n \in S : \A m \in S : n <= m
    BY <2>1, HasLeast
  <2>3. unknownTo(n - 1)
    BY <1>1, <2>2
  <2>4. n \in {j \in 1..Len(chain) : unknownTo(j - 1)} /\ Nothing \notin found(n)
    BY <2>2, <2>3
  <2>5. PICK u : u \in found(n) \ {Nothing}
    BY <1>2, <2>4
  <2>6. u \in U
    BY <2>4, <2>5
  <2> QED BY <2>6
<1>6. chainAuthenticate(chain, h) = U \cup (IF unknownTo(Len(chain)) THEN {Nothing} ELSE {})
  BY DEF chainAuthenticate
<1> HIDE DEF U, unknownTo
<1>7. CASE unknownTo(Len(chain))
  <2>1. chainAuthenticate(chain, h) = U \cup {Nothing}
    BY <1>6, <1>7
  <2> QED BY <1>4, <2>1
<1>8. CASE ~unknownTo(Len(chain))
  <2>1. chainAuthenticate(chain, h) = U
    BY <1>6, <1>8
  <2> QED BY <1>4, <1>5, <1>8, <2>1
<1> QED BY <1>7, <1>8

(* Whoever gets through the middlewares is known to each of them. *)
LEMMA IdentitiesAreKnown ==
    ASSUME NEW h, NEW u \in Identities(h)
    PROVE  /\ u \in Users \cup {Nothing}
           /\ \A i \in 1..Len(Middlewares) :
                  \E v \in Users : v \in chainAuthenticate(Middlewares[i], h)
           /\ Middlewares # <<>> =>
                  u \in chainAuthenticate(Middlewares[Len(Middlewares)], h) \ {Nothing}
<1> DEFINE found(i) == chainAuthenticate(Middlewares[i], h)
<1>1. \A i \in 1..Len(Middlewares) : Middlewares[i] \in Seq(Provider)
  BY MiddlewaresAssumption
<1>2. \A i \in 1..Len(Middlewares) : found(i) \subseteq Users \cup {Nothing} /\ found(i) # {}
  BY <1>1, ChainFinds
<1>3. CASE Middlewares = <<>>
  BY <1>3 DEF Identities
<1>4. CASE Middlewares # <<>>
  <2>1. Len(Middlewares) \in 1..Len(Middlewares)
    BY <1>4
  <2>2. /\ \A i \in 1..Len(Middlewares) : found(i) # {Nothing}
        /\ u \in found(Len(Middlewares)) \ {Nothing}
    BY <1>4 DEF Identities
  <2> HIDE DEF found
  <2>3. \A i \in 1..Len(Middlewares) : \E v \in Users : v \in found(i)
    BY <1>2, <2>2
  <2>4. u \in Users
    BY <1>2, <2>1, <2>2
  <2> QED BY <2>2, <2>3, <2>4 DEF found
<1> QED BY <1>3, <1>4

Typed(h) == h.errors \subseteq {400, 500} /\ h.tracked \in BOOLEAN /\ h.streams \in BOOLEAN

LEMMA HandlersAreTyped ==
    /\ "agent card" \notin DOMAIN routeJSONRPCMethod
    /\ \A m \in DOMAIN routeJSONRPCMethod : Typed(routeJSONRPCMethod[m])
<1> USE DEF routeJSONRPCMethod
<1>1. "agent card" \notin DOMAIN routeJSONRPCMethod
  OBVIOUS
<1>2. /\ Typed(handleMessageSend) /\ Typed(handleMessageStream) /\ Typed(handleTasksGet)
      /\ Typed(handleTasksCancel) /\ Typed(handleTasksResubscribe)
      /\ Typed(handleTasksPushNotificationGet) /\ Typed(handleTasksPushNotificationSet)
      /\ Typed(handleAgentGetAuthenticatedExtendedCard)
  BY DEF Typed, Handler, handleMessageSend, handleMessageStream, handleTasksGet,
         handleTasksCancel, handleTasksResubscribe, handleTasksPushNotificationGet,
         handleTasksPushNotificationSet, handleAgentGetAuthenticatedExtendedCard
<1>3. ASSUME NEW m \in DOMAIN routeJSONRPCMethod PROVE Typed(routeJSONRPCMethod[m])
  <2>0. m \in {"message/send", "message/stream", "tasks/get", "tasks/cancel", "tasks/resubscribe",
            "tasks/pushNotificationConfig/get", "tasks/pushNotificationConfig/set",
            "agent/getAuthenticatedExtendedCard"}
    OBVIOUS
  <2>1. CASE m = "message/send"
    <3>1. routeJSONRPCMethod[m] = handleMessageSend
      BY <2>1
    <3> QED BY <1>2, <3>1
  <2>2. CASE m = "message/stream"
    <3>1. routeJSONRPCMethod[m] = handleMessageStream
      BY <2>2
    <3> QED BY <1>2, <3>1
  <2>3. CASE m = "tasks/get"
    <3>1. routeJSONRPCMethod[m] = handleTasksGet
      BY <2>3
    <3> QED BY <1>2, <3>1
  <2>4. CASE m = "tasks/cancel"
    <3>1. routeJSONRPCMethod[m] = handleTasksCancel
      BY <2>4
    <3> QED BY <1>2, <3>1
  <2>5. CASE m = "tasks/resubscribe"
    <3>1. routeJSONRPCMethod[m] = handleTasksResubscribe
      BY <2>5
    <3> QED BY <1>2, <3>1
  <2>6. CASE m = "tasks/pushNotificationConfig/get"
    <3>1. routeJSONRPCMethod[m] = handleTasksPushNotificationGet
      BY <2>6
    <3> QED BY <1>2, <3>1
  <2>7. CASE m = "tasks/pushNotificationConfig/set"
    <3>1. routeJSONRPCMethod[m] = handleTasksPushNotificationSet
      BY <2>7
    <3> QED BY <1>2, <3>1
  <2>8. CASE m = "agent/getAuthenticatedExtendedCard"
    <3>1. routeJSONRPCMethod[m] = handleAgentGetAuthenticatedExtendedCard
      BY <2>8
    <3> QED BY <1>2, <3>1
  <2> QED BY <2>0, <2>1, <2>2, <2>3, <2>4, <2>5, <2>6, <2>7, <2>8
<1> HIDE DEF routeJSONRPCMethod
<1>4. \A m \in DOMAIN routeJSONRPCMethod : Typed(routeJSONRPCMethod[m])
  BY <1>3
<1> QED BY <1>1, <1>4, Zenon

LEMMA Statuses ==
    /\ OK \in Replies /\ OK.status = 200 /\ NoReply.status = 0
    /\ \A s \in {400, 401, 404, 405, 500} : Error(s) \in Replies /\ Error(s).status = s
  BY DEF OK, Error, NoReply, Replies

-----------------------------------------------------------------------------
(* The inductive invariant. *)

(* The server takes no request before it serves and none after Shutdown began, *)
(* and telemetry goes down last of all, unless Start failed and took it down.   *)
LifeOK ==
    /\ stopper \in {"shutdown", "close", "telemetry", "ok", "error"} => closing
    /\ closing => ~listening /\ httpServer
    /\ httpServer => starter \notin {"idle", "create"}
    /\ starter \in {"idle", "create", "listen"} =>
          /\ ~listening
          /\ \A c \in Calls : place[c] = "none" /\ meter[c] = "none" /\ up[c] = FALSE
    /\ telemetry = "down" => starter = "failed" \/ stopper \in {"ok", "error"}
    /\ stopper \in {"close", "telemetry", "ok"} /\ ~failed => Busy = {}
    /\ stopper \in {"telemetry", "ok", "error"} => closed = closer
    /\ stopper \in {"ok", "error"} => telemetry = "down"
    /\ closed => closing /\ stopper \in {"telemetry", "ok", "error"}
    /\ closed /\ ~failed => Busy = {}
    /\ stopper = "ok" => ~failed
    /\ \A c \in Calls : meter[c] = "lost" => stopper = "error" \/ starter = "failed"
    /\ \A c \in Calls : meter[c] = "held" => telemetry # "off"

Envelope == {"preflight", "verb", "content", "body", "json", "version"}

(* The request has passed the middlewares, the checks of its envelope, and all *)
(* those of its handler.                                                     *)
Authentic(c) ==
    /\ \A i \in 1..Len(Middlewares) :
          \E u \in Users : u \in chainAuthenticate(Middlewares[i], asked[c].credentials)
    /\ Middlewares # <<>> =>
          user[c] \in chainAuthenticate(Middlewares[Len(Middlewares)], asked[c].credentials)
                        \ {Nothing}
WellFormed(c) ==
    asked[c].method \in DOMAIN routeJSONRPCMethod /\ asked[c].flaws \cap Envelope = {}
Checked(c) == WellFormed(c) /\ asked[c].flaws \cap Route(c).checks = {}

(* A well-formed request comes to a handler. *)
LEMMA RouteIsTyped ==
    ASSUME NEW c, WellFormed(c)
    PROVE  Route(c).errors \subseteq {400, 500}
<1>1. asked[c].method \in DOMAIN routeJSONRPCMethod
  BY DEF WellFormed
<1>2. Typed(routeJSONRPCMethod[asked[c].method])
  BY <1>1, HandlersAreTyped, Zenon
<1> QED BY <1>2, Zenon DEF Typed, Route

(* The manager is called once, with what was checked, and nothing is said of    *)
(* success before.                                                          *)
CallOK(c) ==
    /\ caller[c] = "idle" => place[c] = "none" /\ attempt[c] = 0 /\ meter[c] = "none"
    /\ caller[c] = "idle" \/ place[c] \in {"queued", "parse", "handle", "manager"} =>
          reply[c] = NoReply /\ effect[c] = "none"
    /\ place[c] \in {"parse", "handle", "manager"} => Authentic(c)
    /\ place[c] \in {"handle", "manager", "stream", "record"} => WellFormed(c)
    /\ meter[c] # "none" => WellFormed(c)
    /\ place[c] = "manager" => Checked(c)
    /\ effect[c] # "none" => Authentic(c) /\ Checked(c)
    /\ reply[c].status = 200 /\ asked[c].method # "agent card" =>
          effect[c] = "ok" \/ Has(c, "preflight")
    /\ caller[c] \in {"ok", "streaming"} => reply[c].status = 200

IInv == TypeOK /\ LifeOK /\ \A c \in Calls : CallOK(c)

LifeTypeOK ==
    /\ closer \in BOOLEAN /\ exports \in BOOLEAN /\ httpServer \in BOOLEAN
    /\ listening \in BOOLEAN /\ closing \in BOOLEAN /\ closed \in BOOLEAN
    /\ starter \in {"idle", "create", "listen", "serve", "abort", "failed", "done"}
    /\ telemetry \in {"off", "on", "down"}
    /\ stopper \in {"idle", "shutdown", "close", "telemetry", "ok", "error", "notRunning"}
    /\ failed \in BOOLEAN

CallTypeOK ==
    /\ asked \in [Calls -> Request \cup {NoRequest}]
    /\ \A c \in Calls : asked[c] \in Requests[c] \cup {NoRequest}
    /\ caller \in [Calls -> {"idle", "waiting", "streaming", "ok", "rpcError", "failed"}]
    /\ attempt \in [Calls -> 0..2]
    /\ up \in [Calls -> BOOLEAN]
    /\ place \in [Calls -> {"none", "queued", "parse", "handle", "manager",
                            "stream", "record", "answer", "done"}]
    /\ user \in [Calls -> Users \cup {Nothing}]
    /\ reply \in [Calls -> Replies \cup {NoReply}]
    /\ answered \in [Calls -> BOOLEAN]
    /\ effect \in [Calls -> {"none", "ok", "error"}]
    /\ meter \in [Calls -> {"none", "held", "blind", "counted", "lost"}]

LEMMA TypesSplit == TypeOK <=> LifeTypeOK /\ CallTypeOK
  BY DEF TypeOK, LifeTypeOK, CallTypeOK

LEMMA InitIInv == Init => IInv
<1> SUFFICES ASSUME Init PROVE IInv
  OBVIOUS
<1>1. TypeOK
  <2>1. LifeTypeOK
    BY DEF Init, LifeTypeOK
  <2>2. CallTypeOK
    BY DEF Init, CallTypeOK
  <2> QED BY <2>1, <2>2, TypesSplit
<1>2. LifeOK
  BY DEF Init, LifeOK, Busy
<1>3. ASSUME NEW c \in Calls PROVE CallOK(c)
  <2>1. /\ caller[c] = "idle" /\ place[c] = "none" /\ attempt[c] = 0
        /\ reply[c] = NoReply /\ effect[c] = "none" /\ meter[c] = "none"
    BY DEF Init
  <2>2. NoReply.status # 200
    BY DEF NoReply
  <2> QED BY <2>1, <2>2 DEF CallOK
<1> QED BY <1>1, <1>2, <1>3 DEF IInv

(* What does not change a call keeps what is said of it. *)
LEMMA Frame ==
    ASSUME NEW d \in Calls, CallOK(d), asked'[d] = asked[d], caller'[d] = caller[d],
           attempt'[d] = attempt[d], place'[d] = place[d], user'[d] = user[d],
           reply'[d] = reply[d], effect'[d] = effect[d], meter'[d] = meter[d]
    PROVE  CallOK(d)'
<1>1. /\ Authentic(d)' <=> Authentic(d)
      /\ WellFormed(d)' <=> WellFormed(d)
      /\ Checked(d)' <=> Checked(d)
  BY DEF Authentic, WellFormed, Checked, Route
<1>2. (/\ caller[d] = "idle" => place[d] = "none" /\ attempt[d] = 0 /\ meter[d] = "none")'
  BY DEF CallOK
<1>3. (/\ caller[d] = "idle" \/ place[d] \in {"queued", "parse", "handle", "manager"} =>
          reply[d] = NoReply /\ effect[d] = "none")'
  BY DEF CallOK
<1>4. (/\ place[d] \in {"parse", "handle", "manager"} => Authentic(d)
       /\ place[d] \in {"handle", "manager", "stream", "record"} => WellFormed(d)
       /\ meter[d] # "none" => WellFormed(d)
       /\ place[d] = "manager" => Checked(d)
       /\ effect[d] # "none" => Authentic(d) /\ Checked(d))'
  BY <1>1 DEF CallOK
<1>5. (/\ reply[d].status = 200 /\ asked[d].method # "agent card" =>
            effect[d] = "ok" \/ Has(d, "preflight")
       /\ caller[d] \in {"ok", "streaming"} => reply[d].status = 200)'
  BY ZenonT(40) DEF CallOK, Has
<1> QED BY <1>2, <1>3, <1>4, <1>5 DEF CallOK

(* Start and Stop. *)
LEMMA LifeSteps ==
    ASSUME IInv, Starting \/ Failing \/ Stop \/ Stopping \/ CloseManager
    PROVE  IInv'
<1> USE DEF IInv
<1>1. calls' = calls
  BY DEF Starting, Failing, Stopping, initTelemetry, CreateServer, Listen, ServeReturns,
         ServeFails, StartFails, Stop, Drained,
         DeadlinePasses, CloseManager, shutdownTelemetry, calls
<1>2. ASSUME NEW c \in Calls PROVE CallOK(c)'
  <2>1. /\ UNCHANGED <<asked, caller, attempt, up, place, user, reply, answered, effect, meter>>
        /\ CallOK(c)
    BY <1>1 DEF calls
  <2> QED BY <2>1, Frame
<1>3. TypeOK'
  <2>1. CallTypeOK'
    BY <1>1, TypesSplit DEF calls, CallTypeOK
  <2>2. LifeTypeOK'
    <3> LifeTypeOK
      BY TypesSplit
    <3> USE DEF LifeTypeOK
    <3>1. CASE Starting
      <4>1. CASE initTelemetry
        BY <4>1 DEF initTelemetry
      <4>2. CASE CreateServer
        BY <4>2 DEF CreateServer
      <4>3. CASE Listen
        BY <4>3 DEF Listen
      <4>4. CASE ServeReturns
        BY <4>4 DEF ServeReturns
      <4> QED BY <3>1, <4>1, <4>2, <4>3, <4>4 DEF Starting
    <3>7. CASE Failing
      BY <3>7 DEF Failing, ServeFails, StartFails
    <3>2. CASE Stop
      BY <3>2, ZenonT(40) DEF Stop
    <3>3. CASE Drained
      BY <3>3 DEF Drained
    <3>6. CASE DeadlinePasses
      BY <3>6 DEF DeadlinePasses
    <3>4. CASE CloseManager
      <4>1. closed' \in BOOLEAN /\ failed' \in BOOLEAN
        BY <3>4, Zenon DEF CloseManager
      <4> QED BY <3>4, <4>1 DEF CloseManager
    <3>5. CASE shutdownTelemetry
      <4>1. failed' \in BOOLEAN
        BY <3>5, Zenon DEF shutdownTelemetry
      <4> QED BY <3>5, <4>1 DEF shutdownTelemetry
    <3> QED BY <3>1, <3>2, <3>3, <3>4, <3>5, <3>6, <3>7 DEF Stopping
  <2> QED BY <2>1, <2>2 DEF TypeOK, LifeTypeOK, CallTypeOK
<1>4. LifeOK'
  <2> USE <1>1 DEF LifeOK, TypeOK, Busy, calls
  <2>1. CASE initTelemetry
    BY <2>1 DEF initTelemetry
  <2>2. CASE CreateServer
    BY <2>2 DEF CreateServer
  <2>3. CASE Listen
    BY <2>3 DEF Listen
  <2>4. CASE ServeReturns
    BY <2>4 DEF ServeReturns
  <2>5. CASE Stop
    BY <2>5 DEF Stop
  <2>6. CASE Drained
    BY <2>6 DEF Drained
  <2>7. CASE DeadlinePasses
    BY <2>7 DEF DeadlinePasses
  <2>8. CASE CloseManager
    BY <2>8 DEF CloseManager
  <2>9. CASE shutdownTelemetry
    BY <2>9 DEF shutdownTelemetry
  <2>10. CASE ServeFails
    BY <2>10 DEF ServeFails
  <2>11. CASE StartFails
    BY <2>11 DEF StartFails
  <2> QED BY <2>1, <2>2, <2>3, <2>4, <2>5, <2>6, <2>7, <2>8, <2>9, <2>10, <2>11
       DEF Starting, Failing, Stopping
<1> QED BY <1>2, <1>3, <1>4

-----------------------------------------------------------------------------
(* The steps of a call. *)

(* One step of c changes the entries of c and no others. *)
Step(c) ==
    /\ asked' = [asked EXCEPT ![c] = asked'[c]] /\ caller' = [caller EXCEPT ![c] = caller'[c]]
    /\ attempt' = [attempt EXCEPT ![c] = attempt'[c]] /\ up' = [up EXCEPT ![c] = up'[c]]
    /\ place' = [place EXCEPT ![c] = place'[c]] /\ user' = [user EXCEPT ![c] = user'[c]]
    /\ reply' = [reply EXCEPT ![c] = reply'[c]]
    /\ answered' = [answered EXCEPT ![c] = answered'[c]]
    /\ effect' = [effect EXCEPT ![c] = effect'[c]] /\ meter' = [meter EXCEPT ![c] = meter'[c]]

EntryOK(c) ==
    /\ asked[c] \in Request \cup {NoRequest} /\ asked[c] \in Requests[c] \cup {NoRequest}
    /\ caller[c] \in {"idle", "waiting", "streaming", "ok", "rpcError", "failed"}
    /\ attempt[c] \in 0..2
    /\ up[c] \in BOOLEAN
    /\ place[c] \in {"none", "queued", "parse", "handle", "manager",
                     "stream", "record", "answer", "done"}
    /\ user[c] \in Users \cup {Nothing}
    /\ reply[c] \in Replies \cup {NoReply}
    /\ answered[c] \in BOOLEAN
    /\ effect[c] \in {"none", "ok", "error"}
    /\ meter[c] \in {"none", "held", "blind", "counted", "lost"}

LEMMA StepKeepsTypes ==
    ASSUME CallTypeOK, NEW c \in Calls, Step(c), EntryOK(c)'
    PROVE  CallTypeOK'
<1>1. (/\ asked \in [Calls -> Request \cup {NoRequest}]
       /\ \A d \in Calls : asked[d] \in Requests[d] \cup {NoRequest})'
  BY DEF CallTypeOK, Step, EntryOK
<1>2. (/\ caller \in [Calls -> {"idle", "waiting", "streaming", "ok", "rpcError", "failed"}]
       /\ attempt \in [Calls -> 0..2]
       /\ up \in [Calls -> BOOLEAN])'
  BY DEF CallTypeOK, Step, EntryOK
<1>3. (/\ place \in [Calls -> {"none", "queued", "parse", "handle", "manager",
                               "stream", "record", "answer", "done"}]
       /\ user \in [Calls -> Users \cup {Nothing}]
       /\ reply \in [Calls -> Replies \cup {NoReply}])'
  <2> HIDE DEF Replies, NoReply
  <2> QED BY DEF CallTypeOK, Step, EntryOK
<1>4. (/\ answered \in [Calls -> BOOLEAN]
       /\ effect \in [Calls -> {"none", "ok", "error"}]
       /\ meter \in [Calls -> {"none", "held", "blind", "counted", "lost"}])'
  BY DEF CallTypeOK, Step, EntryOK
<1> QED BY <1>1, <1>2, <1>3, <1>4 DEF CallTypeOK

(* The other calls, seen from c. *)
Others(c) ==
    \A d \in Calls \ {c} :
        /\ asked'[d] = asked[d] /\ caller'[d] = caller[d] /\ attempt'[d] = attempt[d]
        /\ place'[d] = place[d] /\ user'[d] = user[d] /\ reply'[d] = reply[d]
        /\ effect'[d] = effect[d] /\ meter'[d] = meter[d] /\ up'[d] = up[d]

LEMMA StepKeepsOthers ==
    ASSUME CallTypeOK, NEW c \in Calls, Step(c)
    PROVE  Others(c)
  BY DEF CallTypeOK, Step, Others

(* Before the manager's answer nothing is said and nothing was done. *)
LEMMA NotAnswered ==
    ASSUME NEW c \in Calls, CallOK(c), place[c] \in {"queued", "parse", "handle", "manager"}
    PROVE  /\ reply[c] = NoReply /\ NoReply.status = 0 /\ effect[c] = "none"
           /\ caller[c] \notin {"idle", "ok", "streaming"}
<1>1. NoReply.status = 0
  BY Statuses
<1>2. reply[c] = NoReply /\ effect[c] = "none"
  BY DEF CallOK
<1>3. caller[c] # "idle"
  BY DEF CallOK
<1>4. caller[c] \notin {"ok", "streaming"}
  <2>1. reply[c].status # 200
    BY <1>1, <1>2
  <2> QED BY <2>1 DEF CallOK
<1> QED BY <1>1, <1>2, <1>3, <1>4

(* What remains to be shown of a step of c. *)
LEMMA StepKeeps ==
    ASSUME IInv, NEW c \in Calls, Step(c), UNCHANGED life, EntryOK(c)', CallOK(c)', LifeOK'
    PROVE  IInv'
<1>1. CallTypeOK /\ LifeTypeOK
  BY TypesSplit DEF IInv
<1>2. CallTypeOK' /\ Others(c)
  BY <1>1, StepKeepsTypes, StepKeepsOthers
<1>3. LifeTypeOK'
  BY <1>1 DEF life, LifeTypeOK
<1>4. ASSUME NEW d \in Calls \ {c} PROVE CallOK(d)'
  BY <1>2, Frame DEF Others, IInv
<1>5. TypeOK'
  BY <1>2, <1>3 DEF TypeOK, LifeTypeOK, CallTypeOK
<1> QED BY <1>4, <1>5 DEF IInv

(* A request that does not begin and records no metrics does not disturb the   *)
(* life of the server.                                                       *)
LEMMA LifeKept ==
    ASSUME IInv, NEW c \in Calls, Step(c), UNCHANGED life,
           place[c] \in {"none", "done"} => place'[c] = place[c],
           meter'[c] = meter[c], up'[c] \in {up[c], FALSE}
    PROVE  LifeOK'
<1> Others(c)
  BY TypesSplit, StepKeepsOthers DEF IInv
<1>1. Busy' \subseteq Busy
  BY DEF Busy, Others
<1>2. /\ \A d \in Calls : meter'[d] = meter[d] /\ up'[d] \in {up[d], FALSE}
      /\ \A d \in Calls : place[d] = "none" => place'[d] = "none"
  BY DEF Others
<1>3. UNCHANGED <<closer, exports, starter, httpServer, listening, closing, telemetry,
                  stopper, failed, closed>>
  BY DEF life
<1>4. LifeOK
  BY DEF IInv
<1> QED BY <1>1, <1>2, <1>3, <1>4 DEF LifeOK

(* A request begins only while the server listens. *)
LEMMA LifeOfSends ==
    ASSUME IInv, NEW c \in Calls, Step(c), UNCHANGED life, meter'[c] = meter[c],
           (place'[c] = place[c] /\ up'[c] = up[c]) \/ listening \/ Kept
    PROVE  LifeOK'
<1> Others(c)
  BY TypesSplit, StepKeepsOthers DEF IInv
<1>1. Busy' = Busy \/ listening \/ Kept
  BY DEF Busy, Others
<1>2. /\ \A d \in Calls : meter'[d] = meter[d]
      /\ ~listening /\ ~Kept => \A d \in Calls : place'[d] = place[d] /\ up'[d] = up[d]
  BY DEF Others
<1>3. UNCHANGED <<closer, exports, starter, httpServer, listening, closing, telemetry,
                  stopper, failed, closed>>
  BY DEF life
<1>4. LifeOK
  BY DEF IInv
<1> QED BY <1>1, <1>2, <1>3, <1>4 DEF LifeOK, Kept

(* The first request of a call. *)
LEMMA CallKeeps ==
    ASSUME IInv, NEW c \in Calls, Call(c)
    PROVE  IInv'
<1>1. CallTypeOK /\ CallOK(c) /\ EntryOK(c)
  <2>1. CallTypeOK
    BY TypesSplit DEF IInv
  <2> QED BY <2>1 DEF IInv, CallTypeOK, EntryOK
<1>2. Step(c) /\ UNCHANGED life
  BY <1>1 DEF Call, Sends, CallTypeOK, Step
<1>3. /\ caller[c] = "idle" /\ asked'[c] \in Requests[c] /\ attempt'[c] = attempt[c] + 1
      /\ \/ /\ listening \/ Kept
            /\ caller'[c] = "waiting" /\ up'[c] = TRUE /\ place'[c] = "queued"
         \/ caller'[c] = "failed" /\ up'[c] = up[c] /\ place'[c] = place[c]
      /\ user'[c] = user[c] /\ reply'[c] = reply[c] /\ answered'[c] = answered[c]
      /\ effect'[c] = effect[c] /\ meter'[c] = meter[c]
  BY <1>1 DEF Call, Sends, CallTypeOK
<1>4. EntryOK(c)'
  <2>1. attempt[c] = 0
    BY <1>1, <1>3 DEF CallOK
  <2>2. attempt'[c] \in 0..2
    BY <1>3, <2>1
  <2>3. asked'[c] \in Request
    BY <1>3, RequestsAssumption
  <2> QED BY <1>1, <1>3, <2>2, <2>3 DEF EntryOK
<1>5. CallOK(c)'
  <2>9. meter'[c] # "none" => WellFormed(c)'
    BY <1>1, <1>3 DEF CallOK, WellFormed
  <2>0. reply[c] = NoReply /\ effect[c] = "none"
    BY <1>1, <1>3 DEF CallOK
  <2>1. NoReply.status = 0
    BY Statuses
  <2>2. place[c] = "none"
    BY <1>1, <1>3 DEF CallOK
  <2> QED BY <1>3, <2>9, <2>0, <2>1, <2>2 DEF CallOK
<1>6. LifeOK'
  BY <1>2, <1>3, LifeOfSends
<1> QED BY <1>2, <1>4, <1>5, <1>6, StepKeeps

(* The second one. *)
LEMMA FallbackKeeps ==
    ASSUME IInv, NEW c \in Calls, Fallback(c)
    PROVE  IInv'
<1>1. CallTypeOK /\ CallOK(c) /\ EntryOK(c)
  <2>1. CallTypeOK
    BY TypesSplit DEF IInv
  <2> QED BY <2>1 DEF IInv, CallTypeOK, EntryOK
<1>2. Step(c) /\ UNCHANGED life
  BY <1>1 DEF Fallback, Sends, Retries, CallTypeOK, Step
<1>3. /\ caller[c] = "failed" /\ asked[c].method = "agent card" /\ attempt[c] = 1
      /\ place[c] \in {"none", "done"} /\ attempt'[c] = attempt[c] + 1
      /\ \/ /\ listening \/ Kept
            /\ caller'[c] = "waiting" /\ up'[c] = TRUE /\ place'[c] = "queued"
         \/ caller'[c] = "failed" /\ up'[c] = up[c] /\ place'[c] = place[c]
      /\ asked'[c] = asked[c] /\ user'[c] = user[c] /\ reply'[c] = NoReply
      /\ answered'[c] = FALSE /\ effect'[c] = effect[c] /\ meter'[c] = meter[c]
  BY <1>1, ZenonT(40) DEF Fallback, Sends, Retries, CallTypeOK
<1>4. EntryOK(c)'
  <2>0. attempt[c] = 1 /\ attempt'[c] = attempt[c] + 1
    BY <1>3, Zenon
  <2>1. attempt'[c] \in 0..2
    BY <2>0
  <2> QED BY <1>1, <1>3, <2>1 DEF EntryOK
<1>5. CallOK(c)'
  <2>9. meter'[c] # "none" => WellFormed(c)'
    BY <1>1, <1>3 DEF CallOK, WellFormed
  <2>1. effect[c] = "none"
    BY <1>1, <1>3, HandlersAreTyped DEF CallOK, Checked, WellFormed
  <2>2. NoReply.status = 0
    BY Statuses
  <2> QED BY <1>3, <2>9, <2>1, <2>2 DEF CallOK
<1>6. LifeOK'
  BY <1>2, <1>3, LifeOfSends
<1> QED BY <1>2, <1>4, <1>5, <1>6, StepKeeps

(* The caller reads its answer. *)
LEMMA ReadKeeps ==
    ASSUME IInv, NEW c \in Calls, doRequest(c) \/ sendA2AStreamRequest(c)
    PROVE  IInv'
<1>1. CallTypeOK /\ CallOK(c) /\ EntryOK(c)
  <2>1. CallTypeOK
    BY TypesSplit DEF IInv
  <2> QED BY <2>1 DEF IInv, CallTypeOK, EntryOK
<1>2. Step(c) /\ UNCHANGED life
  BY <1>1 DEF doRequest, sendA2AStreamRequest, Reads, CallTypeOK, Step
<1>3. /\ asked'[c] = asked[c] /\ attempt'[c] = attempt[c]
      /\ caller[c] = "waiting"
      /\ \/ caller'[c] \in {"failed", "rpcError"}
         \/ caller'[c] \in {"ok", "streaming"} /\ reply[c].status = 200
      /\ up'[c] = up[c] /\ place'[c] = place[c] /\ user'[c] = user[c] /\ reply'[c] = reply[c]
      /\ answered'[c] = answered[c] /\ effect'[c] = effect[c] /\ meter'[c] = meter[c]
  BY <1>1 DEF doRequest, sendA2AStreamRequest, Reads, CallTypeOK
<1>4. EntryOK(c)'
  BY <1>1, <1>3 DEF EntryOK
<1>5. CallOK(c)'
  <2>1. (Authentic(c)' <=> Authentic(c)) /\ (WellFormed(c)' <=> WellFormed(c))
        /\ (Checked(c)' <=> Checked(c))
    BY <1>3 DEF Authentic, WellFormed, Checked, Route
  <2>2. (/\ caller[c] = "idle" => place[c] = "none" /\ attempt[c] = 0 /\ meter[c] = "none")'
    BY <1>1, <1>3 DEF CallOK
  <2>3. (/\ caller[c] = "idle" \/ place[c] \in {"queued", "parse", "handle", "manager"} =>
            reply[c] = NoReply /\ effect[c] = "none")'
    BY <1>1, <1>3 DEF CallOK
  <2>4. (/\ place[c] \in {"parse", "handle", "manager"} => Authentic(c)
         /\ place[c] \in {"handle", "manager", "stream", "record"} => WellFormed(c)
         /\ meter[c] # "none" => WellFormed(c)
         /\ place[c] = "manager" => Checked(c)
         /\ effect[c] # "none" => Authentic(c) /\ Checked(c))'
    BY <1>1, <1>3, <2>1, ZenonT(40) DEF CallOK
  <2>5. (/\ reply[c].status = 200 /\ asked[c].method # "agent card" =>
            effect[c] = "ok" \/ Has(c, "preflight")
         /\ caller[c] \in {"ok", "streaming"} => reply[c].status = 200)'
    BY <1>1, <1>3, ZenonT(40) DEF CallOK, Has
  <2> QED BY <2>2, <2>3, <2>4, <2>5 DEF CallOK
<1>6. LifeOK'
  BY <1>1, <1>2, <1>3, LifeKept
<1> QED BY <1>2, <1>4, <1>5, <1>6, StepKeeps

(* It is lost. *)
LEMMA ConnectionLostKeeps ==
    ASSUME IInv, NEW c \in Calls, ConnectionLost(c)
    PROVE  IInv'
<1>1. CallTypeOK /\ CallOK(c) /\ EntryOK(c)
  <2>1. CallTypeOK
    BY TypesSplit DEF IInv
  <2> QED BY <2>1 DEF IInv, CallTypeOK, EntryOK
<1>2. Step(c) /\ UNCHANGED life
  BY <1>1 DEF ConnectionLost, CallTypeOK, Step
<1>3. /\ asked'[c] = asked[c] /\ attempt'[c] = attempt[c]
      /\ caller[c] \in {"waiting", "streaming"} /\ caller'[c] = "failed" /\ up'[c] = FALSE
      /\ place'[c] = place[c] /\ user'[c] = user[c] /\ reply'[c] = reply[c]
      /\ answered'[c] = answered[c] /\ effect'[c] = effect[c] /\ meter'[c] = meter[c]
  BY <1>1 DEF ConnectionLost, CallTypeOK
<1>4. EntryOK(c)'
  BY <1>1, <1>3 DEF EntryOK
<1>5. CallOK(c)'
  <2>1. (Authentic(c)' <=> Authentic(c)) /\ (WellFormed(c)' <=> WellFormed(c))
        /\ (Checked(c)' <=> Checked(c))
    BY <1>3 DEF Authentic, WellFormed, Checked, Route
  <2>2. (/\ caller[c] = "idle" => place[c] = "none" /\ attempt[c] = 0 /\ meter[c] = "none")'
    BY <1>1, <1>3 DEF CallOK
  <2>3. (/\ caller[c] = "idle" \/ place[c] \in {"queued", "parse", "handle", "manager"} =>
            reply[c] = NoReply /\ effect[c] = "none")'
    BY <1>1, <1>3 DEF CallOK
  <2>4. (/\ place[c] \in {"parse", "handle", "manager"} => Authentic(c)
         /\ place[c] \in {"handle", "manager", "stream", "record"} => WellFormed(c)
         /\ meter[c] # "none" => WellFormed(c)
         /\ place[c] = "manager" => Checked(c)
         /\ effect[c] # "none" => Authentic(c) /\ Checked(c))'
    BY <1>1, <1>3, <2>1, ZenonT(40) DEF CallOK
  <2>5. (/\ reply[c].status = 200 /\ asked[c].method # "agent card" =>
            effect[c] = "ok" \/ Has(c, "preflight")
         /\ caller[c] \in {"ok", "streaming"} => reply[c].status = 200)'
    BY <1>1, <1>3, ZenonT(40) DEF CallOK, Has
  <2> QED BY <2>2, <2>3, <2>4, <2>5 DEF CallOK
<1>6. LifeOK'
  BY <1>1, <1>2, <1>3, LifeKept
<1> QED BY <1>2, <1>4, <1>5, <1>6, StepKeeps

(* The middlewares. *)
LEMMA WrapKeeps ==
    ASSUME IInv, NEW c \in Calls, Wrap(c)
    PROVE  IInv'
<1>1. CallTypeOK /\ CallOK(c) /\ EntryOK(c)
  <2>1. CallTypeOK
    BY TypesSplit DEF IInv
  <2> QED BY <2>1 DEF IInv, CallTypeOK, EntryOK
<1>2. Step(c) /\ UNCHANGED life
  <2>1. /\ UNCHANGED life /\ asked' = asked /\ caller' = caller /\ attempt' = attempt
        /\ up' = up /\ answered' = answered /\ effect' = effect /\ meter' = meter
    BY DEF Wrap
  <2>2. place' = [place EXCEPT ![c] = place'[c]]
    BY <1>1, ZenonT(40) DEF Wrap, Replying, Goes, CallTypeOK
  <2>3. reply' = [reply EXCEPT ![c] = reply'[c]]
    BY <1>1, ZenonT(40) DEF Wrap, Replying, Goes, CallTypeOK
  <2>4. user' = [user EXCEPT ![c] = user'[c]]
    BY <1>1, ZenonT(40) DEF Wrap, Replying, Goes, CallTypeOK
  <2> QED BY <1>1, <2>1, <2>2, <2>3, <2>4 DEF Step, CallTypeOK
<1>3. /\ place[c] = "queued"
      /\ asked'[c] = asked[c] /\ caller'[c] = caller[c] /\ attempt'[c] = attempt[c]
      /\ up'[c] = up[c]
      /\ \/ place'[c] = "answer" /\ reply'[c] = Error(401) /\ user'[c] = user[c]
         \/ /\ place'[c] = "parse" /\ reply'[c] = reply[c]
            /\ user'[c] \in Identities(asked[c].credentials)
      /\ answered'[c] = answered[c] /\ effect'[c] = effect[c] /\ meter'[c] = meter[c]
  BY <1>1, ZenonT(40) DEF Wrap, Replying, Goes, CallTypeOK
<1>4. EntryOK(c)'
  <2>1. reply'[c] \in Replies \cup {NoReply}
    BY <1>1, <1>3, Statuses DEF EntryOK
  <2>2. user'[c] \in Users \cup {Nothing}
    BY <1>1, <1>3, IdentitiesAreKnown DEF EntryOK
  <2> QED BY <1>1, <1>3, <2>1, <2>2 DEF EntryOK
<1>5. CallOK(c)'
  <2>9. meter'[c] # "none" => WellFormed(c)'
    BY <1>1, <1>3 DEF CallOK, WellFormed
  <2>1. reply[c] = NoReply /\ effect[c] = "none" /\ caller[c] \notin {"idle", "ok", "streaming"}
    BY <1>1, <1>3, NotAnswered DEF CallOK
  <2>2. CASE place'[c] = "answer"
    <3>1. reply'[c].status = 401
      BY <1>3, <2>2, Statuses
    <3> QED BY <1>3, <2>9, <2>1, <2>2, <3>1 DEF CallOK
  <2>3. CASE place'[c] = "parse"
    <3>1. user'[c] \in Identities(asked[c].credentials) /\ asked'[c] = asked[c]
          /\ reply'[c] = reply[c]
      BY <1>3, <2>3
    <3>2. Authentic(c)'
      BY <3>1, IdentitiesAreKnown DEF Authentic
    <3>3. NoReply.status = 0
      BY Statuses
    <3> QED BY <1>3, <2>9, <2>1, <2>3, <3>1, <3>2, <3>3 DEF CallOK
  <2> QED BY <1>3, <2>2, <2>3
<1>6. LifeOK'
  BY <1>1, <1>2, <1>3, LifeKept
<1> QED BY <1>2, <1>4, <1>5, <1>6, StepKeeps

(* The agent card. *)
LEMMA AgentCardKeeps ==
    ASSUME IInv, NEW c \in Calls, handleAgentCard(c)
    PROVE  IInv'
<1>1. CallTypeOK /\ CallOK(c) /\ EntryOK(c)
  <2>1. CallTypeOK
    BY TypesSplit DEF IInv
  <2> QED BY <2>1 DEF IInv, CallTypeOK, EntryOK
<1>2. Step(c) /\ UNCHANGED life
  BY <1>1, ZenonT(40) DEF handleAgentCard, Replying, Goes, CallTypeOK, Step
<1>3. /\ place[c] = "queued" /\ asked[c].method = "agent card"
      /\ asked'[c] = asked[c] /\ caller'[c] = caller[c] /\ attempt'[c] = attempt[c]
      /\ up'[c] = up[c]
      /\ place'[c] = "answer" /\ user'[c] = user[c] /\ answered'[c] = answered[c]
      /\ reply'[c] = OK \/ \E s \in {404, 405} : reply'[c] = Error(s)
      /\ effect'[c] = effect[c] /\ meter'[c] = meter[c]
  <2> DEFINE r == IF Has(c, "path") /\ attempt[c] = 1 THEN Error(404)
                   ELSE IF Has(c, "verb") \/ Has(c, "preflight") THEN Error(405) ELSE OK
  <2>1. r = OK \/ \E s \in {404, 405} : r = Error(s)
    <3>1. CASE Has(c, "path") /\ attempt[c] = 1
      <4>1. r = Error(404)
        BY <3>1
      <4> QED BY <4>1
    <3>2. CASE ~(Has(c, "path") /\ attempt[c] = 1) /\ (Has(c, "verb") \/ Has(c, "preflight"))
      <4>1. r = Error(405)
        BY <3>2
      <4> QED BY <4>1
    <3>3. CASE ~(Has(c, "path") /\ attempt[c] = 1) /\ ~(Has(c, "verb") \/ Has(c, "preflight"))
      <4>1. r = OK
        BY <3>3
      <4> QED BY <4>1
    <3> QED BY <3>1, <3>2, <3>3
  <2>2. /\ place[c] = "queued" /\ asked[c].method = "agent card"
        /\ reply' = [reply EXCEPT ![c] = r] /\ place' = [place EXCEPT ![c] = "answer"]
        /\ UNCHANGED <<asked, caller, attempt, up, user, answered, effect, meter>>
    BY DEF handleAgentCard, Replying, Goes
  <2> HIDE DEF r
  <2>3. reply'[c] = r
    BY <1>1, <2>2 DEF CallTypeOK
  <2>4. reply'[c] = OK \/ \E s \in {404, 405} : reply'[c] = Error(s)
    BY <2>1, <2>3
  <2>5. /\ place'[c] = "answer" /\ user'[c] = user[c] /\ answered'[c] = answered[c]
        /\ asked'[c] = asked[c] /\ caller'[c] = caller[c] /\ attempt'[c] = attempt[c]
        /\ up'[c] = up[c] /\ effect'[c] = effect[c] /\ meter'[c] = meter[c]
    BY <1>1, <2>2 DEF CallTypeOK
  <2> QED BY <2>2, <2>4, <2>5
<1>4. EntryOK(c)'
  <2>1. reply'[c] \in Replies
    <3>1. reply'[c] = OK \/ \E s \in {404, 405} : reply'[c] = Error(s)
      BY <1>3
    <3>2. CASE reply'[c] = OK
      BY <3>2, Statuses
    <3>3. ASSUME NEW s \in {404, 405}, reply'[c] = Error(s) PROVE reply'[c] \in Replies
      BY <3>3, Statuses
    <3> QED BY <3>1, <3>2, <3>3
  <2> QED BY <1>1, <1>3, <2>1, ZenonT(40) DEF EntryOK
<1>5. CallOK(c)'
  <2>9. meter'[c] # "none" => WellFormed(c)'
    BY <1>1, <1>3, ZenonT(40) DEF CallOK, WellFormed
  <2>1. effect[c] = "none" /\ caller[c] \notin {"idle", "ok", "streaming"}
    BY <1>1, <1>3, NotAnswered DEF CallOK
  <2>2. /\ place'[c] = "answer" /\ asked'[c].method = "agent card"
        /\ caller'[c] = caller[c] /\ effect'[c] = effect[c]
    BY <1>3
  <2> QED BY <2>9, <2>1, <2>2 DEF CallOK
<1>6. LifeOK'
  BY <1>1, <1>2, <1>3, LifeKept
<1> QED BY <1>2, <1>4, <1>5, <1>6, StepKeeps

(* The envelope of a JSON-RPC request. *)
LEMMA ParseKeeps ==
    ASSUME IInv, NEW c \in Calls, parseJSONRPCRequest(c)
    PROVE  IInv'
<1>1. CallTypeOK /\ CallOK(c) /\ EntryOK(c)
  <2>1. CallTypeOK
    BY TypesSplit DEF IInv
  <2> QED BY <2>1 DEF IInv, CallTypeOK, EntryOK
<1>2. Step(c) /\ UNCHANGED life
  BY <1>1 DEF parseJSONRPCRequest, Replying, Goes, CallTypeOK, Step
<1>3. /\ place[c] = "parse"
      /\ asked'[c] = asked[c] /\ caller'[c] = caller[c] /\ attempt'[c] = attempt[c]
      /\ up'[c] = up[c]
      /\ \/ place'[c] = "answer" /\ reply'[c] = OK /\ Has(c, "preflight")
         \/ place'[c] = "answer" /\ reply'[c] \in {Error(400), Error(404)}
         \/ /\ place'[c] = "handle" /\ reply'[c] = reply[c]
            /\ asked[c].method \in DOMAIN routeJSONRPCMethod
            /\ ~Has(c, "preflight")
            /\ ~ \E flaw \in {"verb", "content", "body", "json", "version"} : Has(c, flaw)
      /\ user'[c] = user[c] /\ answered'[c] = answered[c]
      /\ effect'[c] = effect[c] /\ meter'[c] = meter[c]
  BY <1>1 DEF parseJSONRPCRequest, Replying, Goes, CallTypeOK
<1>4. EntryOK(c)'
  <2>1. reply'[c] \in Replies \cup {NoReply}
    BY <1>1, <1>3, Statuses DEF EntryOK
  <2> QED BY <1>1, <1>3, <2>1 DEF EntryOK
<1>5. CallOK(c)'
  <2>9. meter'[c] # "none" => WellFormed(c)'
    BY <1>1, <1>3 DEF CallOK, WellFormed
  <2>1. /\ reply[c] = NoReply /\ effect[c] = "none" /\ Authentic(c)
        /\ caller[c] \notin {"idle", "ok", "streaming"}
    BY <1>1, <1>3, NotAnswered DEF CallOK
  <2>2. CASE place'[c] = "answer"
    <3>1. reply'[c].status # 200 \/ Has(c, "preflight")'
      BY <1>3, <2>2, Statuses DEF Has
    <3>2. place'[c] = "answer" /\ caller'[c] = caller[c] /\ effect'[c] = effect[c]
      BY <1>3, <2>2
    <3> QED BY <2>9, <2>1, <3>1, <3>2 DEF CallOK
  <2>3. CASE place'[c] = "handle"
    <3>1. WellFormed(c)'
      BY <1>3, <2>3 DEF WellFormed, Envelope, Has
    <3>2. Authentic(c)'
      BY <1>3, <2>1 DEF Authentic
    <3>3. reply'[c] = NoReply /\ NoReply.status = 0
      BY <1>3, <2>1, <2>3, Statuses
    <3> QED BY <1>3, <2>9, <2>1, <2>3, <3>1, <3>2, <3>3 DEF CallOK
  <2> QED BY <1>3, <2>2, <2>3
<1>6. LifeOK'
  BY <1>1, <1>2, <1>3, LifeKept
<1> QED BY <1>2, <1>4, <1>5, <1>6, StepKeeps

(* A handler checks the parameters. *)
LEMMA HandleKeeps ==
    ASSUME IInv, NEW c \in Calls, Handle(c)
    PROVE  IInv'
<1>1. CallTypeOK /\ CallOK(c) /\ EntryOK(c)
  <2>1. CallTypeOK
    BY TypesSplit DEF IInv
  <2> QED BY <2>1 DEF IInv, CallTypeOK, EntryOK
<1>2. Step(c) /\ UNCHANGED life
  <2>1. /\ UNCHANGED life /\ asked' = asked /\ caller' = caller /\ attempt' = attempt
        /\ up' = up /\ user' = user /\ answered' = answered /\ effect' = effect
    BY DEF Handle
  <2>2. meter' = [meter EXCEPT ![c] = meter'[c]]
    BY <1>1 DEF Handle, CallTypeOK
  <2>3. reply' = [reply EXCEPT ![c] = reply'[c]] /\ place' = [place EXCEPT ![c] = place'[c]]
    BY <1>1 DEF Handle, Finishes, Goes, CallTypeOK
  <2> QED BY <1>1, <2>1, <2>2, <2>3 DEF Step, CallTypeOK
<1>3. /\ place[c] = "handle"
      /\ asked'[c] = asked[c] /\ caller'[c] = caller[c] /\ attempt'[c] = attempt[c]
      /\ up'[c] = up[c]
      /\ \/ place'[c] \in {"answer", "record"} /\ reply'[c] = Error(400)
         \/ /\ place'[c] = "manager" /\ reply'[c] = reply[c]
            /\ Route(c).checks \cap asked[c].flaws = {}
      /\ user'[c] = user[c] /\ answered'[c] = answered[c] /\ effect'[c] = effect[c]
      /\ meter'[c] \in {meter[c], "held", "blind"}
      /\ meter'[c] = "held" => meter[c] = "held" \/ telemetry = "on"
  BY <1>1 DEF Handle, Finishes, Goes, Instruments, CallTypeOK
<1>4. EntryOK(c)'
  <2>1. reply'[c] \in Replies \cup {NoReply}
    BY <1>1, <1>3, Statuses DEF EntryOK
  <2> QED BY <1>1, <1>3, <2>1 DEF EntryOK
<1>5. CallOK(c)'
  <2>9. meter'[c] # "none" => WellFormed(c)'
    BY <1>1, <1>3 DEF CallOK, WellFormed
  <2>1. /\ reply[c] = NoReply /\ effect[c] = "none" /\ Authentic(c) /\ WellFormed(c)
        /\ caller[c] \notin {"idle", "ok", "streaming"}
    BY <1>1, <1>3, NotAnswered DEF CallOK
  <2>2. WellFormed(c)' /\ Authentic(c)'
    BY <1>3, <2>1 DEF WellFormed, Authentic
  <2>3. CASE place'[c] \in {"answer", "record"}
    <3>1. reply'[c].status # 200
      BY <1>3, <2>3, Statuses
    <3> QED BY <1>3, <2>9, <2>1, <2>2, <2>3, <3>1, ZenonT(40) DEF CallOK
  <2>4. CASE place'[c] = "manager"
    <3>1. Checked(c)'
      BY <1>3, <2>2, <2>4 DEF Checked, Route
    <3>2. reply'[c] = NoReply /\ NoReply.status = 0
      BY <1>3, <2>1, <2>4, Statuses
    <3> QED BY <1>3, <2>9, <2>1, <2>2, <2>4, <3>1, <3>2 DEF CallOK
  <2> QED BY <1>3, <2>3, <2>4
<1>6. LifeOK'
  <2> Others(c)
    BY <1>1, <1>2, StepKeepsOthers
  <2>1. /\ Busy' \subseteq Busy /\ c \in Busy
        /\ \A d \in Calls \ {c} :
              meter'[d] = meter[d] /\ place'[d] = place[d] /\ up'[d] = up[d]
    BY <1>3 DEF Busy, Others
  <2>2. LifeOK
    BY DEF IInv
  <2>3. starter \notin {"idle", "create", "listen"} /\ stopper # "ok"
    BY <1>3, <2>1, <2>2 DEF LifeOK
  <2>4. meter'[c] = "held" => telemetry # "off"
    BY <1>3, <2>2 DEF LifeOK
  <2>5. UNCHANGED <<closer, exports, starter, httpServer, listening, closing, telemetry,
                    stopper, failed, closed>>
    BY <1>2 DEF life
  <2>6. (/\ stopper \in {"shutdown", "close", "telemetry", "ok", "error"} => closing
         /\ closing => ~listening /\ httpServer
         /\ httpServer => starter \notin {"idle", "create"}
         /\ stopper \in {"ok", "error"} => telemetry = "down"
         /\ telemetry = "down" => starter = "failed" \/ stopper \in {"ok", "error"})'
    BY <2>2, <2>5 DEF LifeOK
  <2>7. (starter \notin {"idle", "create", "listen"} /\ stopper # "ok")'
    BY <2>3, <2>5
  <2>8. (/\ stopper \in {"close", "telemetry", "ok"} /\ ~failed => Busy = {}
         /\ closed /\ ~failed => Busy = {}
         /\ closed => closing /\ stopper \in {"telemetry", "ok", "error"}
         /\ stopper \in {"telemetry", "ok", "error"} => closed = closer)'
    BY <2>1, <2>2, <2>5 DEF LifeOK
  <2>9. (/\ \A d \in Calls : meter[d] = "lost" => stopper = "error" \/ starter = "failed"
         /\ \A d \in Calls : meter[d] = "held" => telemetry # "off")'
    BY <1>3, <2>1, <2>2, <2>4, <2>5 DEF LifeOK
  <2> QED BY <2>6, <2>7, <2>8, <2>9 DEF LifeOK
<1> QED BY <1>2, <1>4, <1>5, <1>6, StepKeeps

(* The operation of the task manager returns. *)
LEMMA ManagerReturnsKeeps ==
    ASSUME IInv, NEW c \in Calls, ManagerReturns(c)
    PROVE  IInv'
<1>1. CallTypeOK /\ CallOK(c) /\ EntryOK(c)
  <2>1. CallTypeOK
    BY TypesSplit DEF IInv
  <2> QED BY <2>1 DEF IInv, CallTypeOK, EntryOK
<1>2. Step(c) /\ UNCHANGED life
  BY <1>1 DEF ManagerReturns, Finishes, Goes, CallTypeOK, Step
<1>3. /\ place[c] = "manager" /\ place'[c] \in {"stream", "record", "answer"}
      /\ asked'[c] = asked[c] /\ caller'[c] = caller[c] /\ attempt'[c] = attempt[c]
      /\ up'[c] = up[c]
      /\ \/ effect'[c] = "ok" /\ reply'[c] = OK
         \/ /\ effect'[c] = "error"
            /\ \E status \in Route(c).errors : reply'[c] = Error(status)
      /\ user'[c] = user[c] /\ (answered'[c] = answered[c] \/ answered'[c] = TRUE)
      /\ meter'[c] = meter[c]
  <2>1. /\ place[c] = "manager"
        /\ UNCHANGED <<asked, caller, attempt, up, user, meter>>
    BY DEF ManagerReturns
  <2>2. /\ place'[c] \in {"stream", "record", "answer"}
        /\ answered'[c] = answered[c] \/ answered'[c] = TRUE
    <3>1. \/ place' = [place EXCEPT ![c] = "stream"]
          \/ place' = [place EXCEPT ![c] = "record"]
          \/ place' = [place EXCEPT ![c] = "answer"]
      BY DEF ManagerReturns, Finishes, Goes
    <3>2. answered' = [answered EXCEPT ![c] = TRUE] \/ answered' = answered
      BY DEF ManagerReturns
    <3> QED BY <1>1, <3>1, <3>2 DEF CallTypeOK
  <2>3. CASE effect' = [effect EXCEPT ![c] = "ok"]
    <3>1. reply' = [reply EXCEPT ![c] = OK]
      BY <1>1, <2>3 DEF ManagerReturns, Finishes, Goes, CallTypeOK
    <3> QED BY <1>1, <2>1, <2>2, <2>3, <3>1 DEF CallTypeOK
  <2>4. CASE effect' = [effect EXCEPT ![c] = "error"]
    <3>1. PICK status \in Route(c).errors : reply' = [reply EXCEPT ![c] = Error(status)]
      BY <1>1, <2>4 DEF ManagerReturns, Finishes, Goes, CallTypeOK
    <3>2. effect'[c] = "error" /\ reply'[c] = Error(status)
      BY <1>1, <2>4, <3>1 DEF CallTypeOK
    <3> QED BY <1>1, <2>1, <2>2, <3>2 DEF CallTypeOK
  <2> QED BY <2>3, <2>4 DEF ManagerReturns
<1>4. EntryOK(c)'
  <2>1. reply'[c] \in Replies
    <3>1. Route(c).errors \subseteq {400, 500}
      BY <1>1, <1>3, NotAnswered, RouteIsTyped, ZenonT(40) DEF CallOK
    <3> QED BY <1>3, <3>1, Statuses
  <2>2. answered'[c] \in BOOLEAN
    BY <1>1, <1>3 DEF EntryOK
  <2> QED BY <1>1, <1>3, <2>1, <2>2 DEF EntryOK
<1>5. CallOK(c)'
  <2>9. meter'[c] # "none" => WellFormed(c)'
    BY <1>1, <1>3 DEF CallOK, WellFormed
  <2>1. /\ reply[c] = NoReply /\ Authentic(c) /\ WellFormed(c) /\ Checked(c)
        /\ caller[c] \notin {"idle", "ok", "streaming"}
    BY <1>1, <1>3, NotAnswered DEF CallOK
  <2>2. WellFormed(c)' /\ Authentic(c)' /\ Checked(c)'
    BY <1>3, <2>1 DEF WellFormed, Authentic, Checked, Route
  <2>3. effect'[c] = "ok" \/ reply'[c].status # 200
    <3>1. Route(c).errors \subseteq {400, 500}
      BY <2>1, RouteIsTyped
    <3> QED BY <1>3, <3>1, Statuses
  <2> QED BY <1>3, <2>9, <2>1, <2>2, <2>3 DEF CallOK
<1>6. LifeOK'
  BY <1>1, <1>2, <1>3, LifeKept
<1> QED BY <1>2, <1>4, <1>5, <1>6, StepKeeps

(* The end of a stream. *)
LEMMA StreamEndsKeeps ==
    ASSUME IInv, NEW c \in Calls, StreamEnds(c)
    PROVE  IInv'
<1>1. CallTypeOK /\ CallOK(c) /\ EntryOK(c)
  <2>1. CallTypeOK
    BY TypesSplit DEF IInv
  <2> QED BY <2>1 DEF IInv, CallTypeOK, EntryOK
<1>2. Step(c) /\ UNCHANGED life
  BY <1>1 DEF StreamEnds, Goes, CallTypeOK, Step
<1>3. /\ place[c] = "stream" /\ place'[c] \in {"record", "done"}
      /\ asked'[c] = asked[c] /\ caller'[c] = caller[c] /\ attempt'[c] = attempt[c]
      /\ up'[c] = up[c]
      /\ reply'[c] = reply[c] /\ effect'[c] = effect[c]
      /\ user'[c] = user[c] /\ answered'[c] = answered[c] /\ meter'[c] = meter[c]
  BY <1>1 DEF StreamEnds, Goes, CallTypeOK
<1>4. EntryOK(c)'
  BY <1>1, <1>3 DEF EntryOK
<1>5. CallOK(c)'
  <2>1. (Authentic(c)' <=> Authentic(c)) /\ (WellFormed(c)' <=> WellFormed(c))
        /\ (Checked(c)' <=> Checked(c))
    BY <1>3 DEF Authentic, WellFormed, Checked, Route
  <2>2. (/\ caller[c] = "idle" => place[c] = "none" /\ attempt[c] = 0 /\ meter[c] = "none")'
    BY <1>1, <1>3 DEF CallOK
  <2>3. (/\ caller[c] = "idle" \/ place[c] \in {"queued", "parse", "handle", "manager"} =>
            reply[c] = NoReply /\ effect[c] = "none")'
    BY <1>1, <1>3 DEF CallOK
  <2>4. (/\ place[c] \in {"parse", "handle", "manager"} => Authentic(c)
         /\ place[c] \in {"handle", "manager", "stream", "record"} => WellFormed(c)
         /\ meter[c] # "none" => WellFormed(c)
         /\ place[c] = "manager" => Checked(c)
         /\ effect[c] # "none" => Authentic(c) /\ Checked(c))'
    BY <1>1, <1>3, <2>1 DEF CallOK
  <2>5. (/\ reply[c].status = 200 /\ asked[c].method # "agent card" =>
            effect[c] = "ok" \/ Has(c, "preflight")
         /\ caller[c] \in {"ok", "streaming"} => reply[c].status = 200)'
    BY <1>1, <1>3, ZenonT(40) DEF CallOK, Has
  <2> QED BY <2>2, <2>3, <2>4, <2>5 DEF CallOK
<1>6. LifeOK'
  BY <1>1, <1>2, <1>3, LifeKept
<1> QED BY <1>2, <1>4, <1>5, <1>6, StepKeeps

(* The answer. *)
LEMMA AnswerKeeps ==
    ASSUME IInv, NEW c \in Calls, Answer(c)
    PROVE  IInv'
<1>1. CallTypeOK /\ CallOK(c) /\ EntryOK(c)
  <2>1. CallTypeOK
    BY TypesSplit DEF IInv
  <2> QED BY <2>1 DEF IInv, CallTypeOK, EntryOK
<1>2. Step(c) /\ UNCHANGED life
  BY <1>1 DEF Answer, Goes, CallTypeOK, Step
<1>3. /\ place[c] = "answer" /\ place'[c] \in {"record", "done"}
      /\ asked'[c] = asked[c] /\ caller'[c] = caller[c] /\ attempt'[c] = attempt[c]
      /\ up'[c] = up[c]
      /\ place'[c] = "record" => meter[c] \in {"held", "blind"}
      /\ reply'[c] = reply[c] /\ effect'[c] = effect[c]
      /\ user'[c] = user[c] /\ answered'[c] = TRUE /\ meter'[c] = meter[c]
  BY <1>1 DEF Answer, Goes, CallTypeOK
<1>4. EntryOK(c)'
  BY <1>1, <1>3 DEF EntryOK
<1>5. CallOK(c)'
  <2>1. (Authentic(c)' <=> Authentic(c)) /\ (WellFormed(c)' <=> WellFormed(c))
        /\ (Checked(c)' <=> Checked(c))
    BY <1>3 DEF Authentic, WellFormed, Checked, Route
  <2>2. (/\ caller[c] = "idle" => place[c] = "none" /\ attempt[c] = 0 /\ meter[c] = "none")'
    BY <1>1, <1>3 DEF CallOK
  <2>3. (/\ caller[c] = "idle" \/ place[c] \in {"queued", "parse", "handle", "manager"} =>
            reply[c] = NoReply /\ effect[c] = "none")'
    BY <1>1, <1>3 DEF CallOK
  <2>4. (/\ place[c] \in {"parse", "handle", "manager"} => Authentic(c)
         /\ place[c] \in {"handle", "manager", "stream", "record"} => WellFormed(c)
         /\ meter[c] # "none" => WellFormed(c)
         /\ place[c] = "manager" => Checked(c)
         /\ effect[c] # "none" => Authentic(c) /\ Checked(c))'
    BY <1>1, <1>3, <2>1 DEF CallOK
  <2>5. (/\ reply[c].status = 200 /\ asked[c].method # "agent card" =>
            effect[c] = "ok" \/ Has(c, "preflight")
         /\ caller[c] \in {"ok", "streaming"} => reply[c].status = 200)'
    BY <1>1, <1>3, ZenonT(40) DEF CallOK, Has
  <2> QED BY <2>2, <2>3, <2>4, <2>5 DEF CallOK
<1>6. LifeOK'
  BY <1>1, <1>2, <1>3, LifeKept
<1> QED BY <1>2, <1>4, <1>5, <1>6, StepKeeps

(* The metrics of a request. *)
LEMMA RecordKeeps ==
    ASSUME IInv, NEW c \in Calls, record(c)
    PROVE  IInv'
<1>1. CallTypeOK /\ CallOK(c) /\ EntryOK(c)
  <2>1. CallTypeOK
    BY TypesSplit DEF IInv
  <2> QED BY <2>1 DEF IInv, CallTypeOK, EntryOK
<1>2. Step(c) /\ UNCHANGED life
  BY <1>1 DEF record, Goes, CallTypeOK, Step
<1>3. /\ place[c] = "record" /\ place'[c] \in {"answer", "done"}
      /\ asked'[c] = asked[c] /\ caller'[c] = caller[c] /\ attempt'[c] = attempt[c]
      /\ up'[c] = up[c]
      /\ reply'[c] = reply[c] /\ effect'[c] = effect[c]
      /\ user'[c] = user[c] /\ answered'[c] = answered[c]
      /\ \/ meter'[c] = meter[c] \/ meter'[c] = "counted"
         \/ meter'[c] = "lost" /\ meter[c] = "held" /\ telemetry # "on"
  BY <1>1 DEF record, Goes, CallTypeOK
<1>4. EntryOK(c)'
  BY <1>1, <1>3 DEF EntryOK
<1>5. CallOK(c)'
  <2>1. (Authentic(c)' <=> Authentic(c)) /\ (WellFormed(c)' <=> WellFormed(c))
        /\ (Checked(c)' <=> Checked(c))
    BY <1>3 DEF Authentic, WellFormed, Checked, Route
  <2>2. (/\ caller[c] = "idle" => place[c] = "none" /\ attempt[c] = 0 /\ meter[c] = "none")'
    BY <1>1, <1>3 DEF CallOK
  <2>3. (/\ caller[c] = "idle" \/ place[c] \in {"queued", "parse", "handle", "manager"} =>
            reply[c] = NoReply /\ effect[c] = "none")'
    BY <1>1, <1>3 DEF CallOK
  <2>4. (/\ place[c] \in {"parse", "handle", "manager"} => Authentic(c)
         /\ place[c] \in {"handle", "manager", "stream", "record"} => WellFormed(c)
         /\ meter[c] # "none" => WellFormed(c)
         /\ place[c] = "manager" => Checked(c)
         /\ effect[c] # "none" => Authentic(c) /\ Checked(c))'
    BY <1>1, <1>3, <2>1 DEF CallOK
  <2>5. (/\ reply[c].status = 200 /\ asked[c].method # "agent card" =>
            effect[c] = "ok" \/ Has(c, "preflight")
         /\ caller[c] \in {"ok", "streaming"} => reply[c].status = 200)'
    BY <1>1, <1>3, ZenonT(40) DEF CallOK, Has
  <2> QED BY <2>2, <2>3, <2>4, <2>5 DEF CallOK
<1>6. LifeOK'
  <2> Others(c)
    BY <1>1, <1>2, StepKeepsOthers
  <2>1. /\ Busy' \subseteq Busy /\ c \in Busy
        /\ \A d \in Calls \ {c} :
              meter'[d] = meter[d] /\ place'[d] = place[d] /\ up'[d] = up[d]
    BY <1>3 DEF Busy, Others
  <2>2. LifeOK
    BY DEF IInv
  <2>3. starter \notin {"idle", "create", "listen"} /\ stopper # "ok"
    BY <1>3, <2>1, <2>2 DEF LifeOK
  <2>4. meter'[c] = "lost" => stopper = "error" \/ starter = "failed"
    <3>1. telemetry \in {"on", "off", "down"}
      BY TypesSplit DEF IInv, LifeTypeOK
    <3> QED BY <1>3, <2>2, <2>3, <3>1 DEF LifeOK
  <2>5. UNCHANGED <<closer, exports, starter, httpServer, listening, closing, telemetry,
                    stopper, failed, closed>>
    BY <1>2 DEF life
  <2>6. (/\ stopper \in {"shutdown", "close", "telemetry", "ok", "error"} => closing
         /\ closing => ~listening /\ httpServer
         /\ httpServer => starter \notin {"idle", "create"}
         /\ stopper \in {"ok", "error"} => telemetry = "down"
         /\ telemetry = "down" => starter = "failed" \/ stopper \in {"ok", "error"})'
    BY <2>2, <2>5 DEF LifeOK
  <2>7. (starter \notin {"idle", "create", "listen"} /\ stopper # "ok")'
    BY <2>3, <2>5
  <2>8. (/\ stopper \in {"close", "telemetry", "ok"} /\ ~failed => Busy = {}
         /\ closed /\ ~failed => Busy = {}
         /\ closed => closing /\ stopper \in {"telemetry", "ok", "error"}
         /\ stopper \in {"telemetry", "ok", "error"} => closed = closer)'
    BY <2>1, <2>2, <2>5 DEF LifeOK
  <2>9. (/\ \A d \in Calls : meter[d] = "lost" => stopper = "error" \/ starter = "failed"
         /\ \A d \in Calls : meter[d] = "held" => telemetry # "off")'
    BY <1>3, <2>1, <2>2, <2>4, <2>5 DEF LifeOK
  <2> QED BY <2>6, <2>7, <2>8, <2>9 DEF LifeOK
<1> QED BY <1>2, <1>4, <1>5, <1>6, StepKeeps

-----------------------------------------------------------------------------
(* The theorems. *)

LEMMA Stutter ==
    ASSUME IInv, UNCHANGED vars
    PROVE  IInv'
<1>1. /\ UNCHANGED <<closer, exports, starter, httpServer, listening, closing, telemetry,
                     stopper, failed, closed>>
      /\ UNCHANGED <<asked, caller, attempt, up, place, user, reply, answered, effect, meter>>
  BY DEF vars, life, calls
<1>2. LifeTypeOK'
  BY <1>1, TypesSplit DEF IInv, LifeTypeOK
<1>3. CallTypeOK'
  <2>1. CallTypeOK
    BY TypesSplit DEF IInv
  <2> QED BY <1>1, <2>1 DEF CallTypeOK
<1>4. LifeOK'
  BY <1>1 DEF IInv, LifeOK, Busy
<1>5. ASSUME NEW d \in Calls PROVE CallOK(d)'
  BY <1>1, Frame DEF IInv
<1>6. TypeOK'
  BY <1>2, <1>3 DEF TypeOK, LifeTypeOK, CallTypeOK
<1> QED BY <1>4, <1>5, <1>6 DEF IInv

LEMMA NextIInv == IInv /\ [Next]_vars => IInv'
<1> SUFFICES ASSUME IInv, [Next]_vars PROVE IInv'
  OBVIOUS
<1>1. CASE Starting \/ Failing \/ Stop \/ Stopping \/ CloseManager
  BY <1>1, LifeSteps
<1>2. ASSUME NEW c \in Calls, Call(c) PROVE IInv'
  BY <1>2, CallKeeps
<1>3. ASSUME NEW c \in Calls, Calling(c) PROVE IInv'
  BY <1>3, ReadKeeps, FallbackKeeps DEF Calling
<1>4. ASSUME NEW c \in Calls, ConnectionLost(c) PROVE IInv'
  BY <1>4, ConnectionLostKeeps
<1>5. ASSUME NEW c \in Calls, Serving(c) PROVE IInv'
  BY <1>5, WrapKeeps, AgentCardKeeps, ParseKeeps, HandleKeeps, RecordKeeps, AnswerKeeps
     DEF Serving
<1>6. ASSUME NEW c \in Calls, ManagerReturns(c) \/ StreamEnds(c) PROVE IInv'
  BY <1>6, ManagerReturnsKeeps, StreamEndsKeeps
<1>7. CASE UNCHANGED vars
  BY <1>7, Stutter
<1> QED BY <1>1, <1>2, <1>3, <1>4, <1>5, <1>6, <1>7 DEF Next

(* The invariant holds in every state of the server, whatever its scheduling. *)
THEOREM ServerInvariant == SafeSpec => []IInv
<1>1. Init => IInv
  BY InitIInv
<1>2. IInv /\ [Next]_vars => IInv'
  BY NextIInv
<1> QED BY <1>1, <1>2, PTL DEF SafeSpec

(* Every variable of the server keeps its type: in particular, a card is asked *)
(* for twice at most and a user in a request's context is one a provider knows.*)
THEOREM ServerTypeCorrect == SafeSpec => []TypeOK
<1>1. IInv => TypeOK
  BY DEF IInv
<1> QED BY <1>1, ServerInvariant, PTL

(* For any number of calls: Stop (server.go), unless it found no server, leaves *)
(* listener, task manager and telemetry down whichever step failed; when it     *)
(* reports success nothing runs, and no metrics are lost but those that a failed *)
(* Start lost; when it closed the manager under a running request it reports an  *)
(* error.                                                                    *)
THEOREM StopIsGraceful == SafeSpec => []GracefulStop
<1>1. IInv => GracefulStop
  <2> SUFFICES ASSUME LifeOK PROVE GracefulStop
    BY DEF IInv
  <2>1. stopper \in {"ok", "error"} => ~listening /\ telemetry = "down" /\ closed = closer
    BY DEF LifeOK
  <2>2. stopper = "ok" =>
           Busy = {} /\ (starter # "failed" => \A c \in Calls : meter[c] # "lost")
    BY DEF LifeOK
  <2>3. closed /\ Busy # {} => failed /\ stopper # "ok"
    BY DEF LifeOK
  <2> QED BY <2>1, <2>2, <2>3 DEF GracefulStop
<1> QED BY <1>1, ServerInvariant, PTL

(* For any requests and any middlewares: a caller that is told of a success had *)
(* its operation done, and the task manager only acts for a user whose         *)
(* credentials each middleware knows, on a request that passed every check.   *)
THEOREM AnswersAreHonest == SafeSpec => []HonestAnswers
<1>1. IInv => HonestAnswers
  <2> SUFFICES ASSUME NEW c \in Calls, CallOK(c)
               PROVE  /\ caller[c] \in {"ok", "streaming"} /\ asked[c].method # "agent card" =>
                            effect[c] = "ok" \/ Has(c, "preflight")
                      /\ effect[c] # "none" =>
                            /\ \A i \in 1..Len(Middlewares) :
                                  \E u \in Users :
                                     u \in chainAuthenticate(Middlewares[i], asked[c].credentials)
                            /\ Middlewares # <<>> =>
                                  user[c] \in chainAuthenticate(Middlewares[Len(Middlewares)],
                                                               asked[c].credentials) \ {Nothing}
                            /\ asked[c].flaws \cap (Route(c).checks \cup {"preflight", "verb",
                                                       "content", "body", "json", "version"}) = {}
    BY DEF IInv, HonestAnswers
  <2>1. caller[c] \in {"ok", "streaming"} /\ asked[c].method # "agent card" =>
            effect[c] = "ok" \/ Has(c, "preflight")
    BY DEF CallOK
  <2>2. effect[c] # "none" => Authentic(c) /\ Checked(c)
    BY DEF CallOK
  <2>3. Checked(c) => asked[c].flaws \cap (Route(c).checks \cup {"preflight", "verb", "content",
                                            "body", "json", "version"}) = {}
    BY DEF Checked, WellFormed, Envelope
  <2> QED BY <2>1, <2>2, <2>3 DEF Authentic
<1> QED BY <1>1, ServerInvariant, PTL

=============================================================================
