-------------------------- MODULE Examples_proofs --------------------------
(***************************************************************************)
(* What is proved of the two example programs, which share nothing but this  *)
(* module.  Of the push notifications, for any tasks, times and numbers of   *)
(* keys: a notification is judged rightly whatever fetches, rotations and    *)
(* restarts go on beside it, and a completed task stays completed.  Of the   *)
(* text processing agent and its clients, for any contexts and scripts: what *)
(* was said to a message, what its stream still holds and how far the turn   *)
(* on it has come agree at every step, so that an orderly context gets the   *)
(* dialogue its client typed.                                                *)
(***************************************************************************)
EXTENDS PushNotifications, TextAgent, WellFoundedInduction, TLAPS

-----------------------------------------------------------------------------
(* The push notifications. *)

(* A fetch, and what the variables hold. *)
FetchState ==
    [at : {"no", "request", "response", "stamp"}, since : Times, keys : Seq(Key), served : Times]

Typed == TypeOK /\ fetch \in [Fetchers -> FetchState]

(* What the pairs were published as agrees with what the server serves: a pair  *)
(* is published once, by the AddKey that ends its generation, and a pair that   *)
(* is served no more went by now.                                             *)
Held(keys) == {keys[i].pair : i \in 1..Len(keys)}

KeysOK ==
    /\ generating = "start" => privateKey < MaxKeys
    /\ generating \in {"id", "add"} => privateKey # 0 /\ published[privateKey] = Unpublished
    /\ published[0] = Unpublished
    /\ \A p \in Pairs : p > privateKey => published[p] = Unpublished
    /\ \A p \in Pairs : published[p] # Unpublished =>
          /\ 1 <= published[p].from /\ published[p].from <= now
          /\ p \notin Held(keySet) => published[p].to <= now
    /\ \A i \in 1..Len(keySet) :
          /\ published[keySet[i].pair] # Unpublished
          /\ published[keySet[i].pair].kid = keySet[i].kid
          /\ published[keySet[i].pair].to = MaxTime

(* A set of keys that was served at some time holds what was published then. *)
Served(keys, when, time, pub) ==
    /\ when <= time
    /\ \A i \in 1..Len(keys) :
          /\ pub[keys[i].pair] # Unpublished
          /\ pub[keys[i].pair].kid = keys[i].kid
          /\ pub[keys[i].pair].from <= when /\ when <= pub[keys[i].pair].to
    /\ \A q \in Pairs :
          pub[q] # Unpublished /\ pub[q].from < when /\ when < pub[q].to
              => q \in Held(keys)

SetsOK ==
    /\ Served(cache, cachedAt, now, published)
    /\ \A f \in Fetchers : Served(fetch[f].keys, fetch[f].served, now, published)

(* A fetch is as old as its timeout at most, so the cache was served at most    *)
(* that long before it was stamped.                                           *)
FetchTimes(f) ==
    /\ fetch[f].at \in {"request", "response"} =>
          fetch[f].since <= now /\ now <= fetch[f].since + Timeout
    /\ fetch[f].at = "response" => fetch[f].since <= fetch[f].served /\ fetch[f].served # 0
    /\ fetch[f].at = "stamp" => cachedAt # 0 /\ now <= cachedAt + Timeout

CacheTimes ==
    /\ lastFetch # 0 => cachedAt # 0 /\ lastFetch <= cachedAt + Timeout
    /\ lastFetch <= now
    /\ verifier = "library" =>
          \A t \in Tasks : handler[t] = "lookup" =>
              cachedAt # 0 /\ now < cachedAt + TTL + Timeout

TimesOK == CacheTimes /\ \A f \in Fetchers : FetchTimes(f)

IInv == Typed /\ KeysOK /\ SetsOK /\ TimesOK

LEMMA Constants ==
    /\ TTL \in Nat /\ Refresh \in Nat /\ Timeout \in Nat /\ MaxAge \in Nat
    /\ MaxTime \in Nat /\ MaxKeys \in Nat
    /\ TTL >= 1 /\ Timeout >= 1 /\ MaxTime >= 1 /\ MaxKeys >= 1
  BY TimesAssumption

LEMMA Recipients == \A v \in DOMAIN Receivers : \A t \in Receivers[v] : t \in Tasks /\ t \in Fetchers
  BY ReceiversAssumption DEF Fetchers

LEMMA NoFetchTyped ==
    /\ NoFetch \in FetchState
    /\ NoFetch.at = "no" /\ NoFetch.keys = <<>> /\ NoFetch.served = 0
  BY Constants DEF NoFetch, FetchState, Times

LEMMA RequestingTyped ==
    now \in Times =>
        /\ Requesting \in FetchState
        /\ Requesting.at = "request" /\ Requesting.since = now
        /\ Requesting.keys = <<>> /\ Requesting.served = 0
  BY NoFetchTyped DEF Requesting, NoFetch, FetchState

-----------------------------------------------------------------------------
(* Types *)

LEMMA InitTyped == Init => Typed
<1> SUFFICES ASSUME Init PROVE Typed
  OBVIOUS
<1>1. now = 1 /\ now \in Times /\ now \in Times \ {0} /\ 0 \in Times /\ 0 \in Pairs
  BY Constants DEF Init, Times, Pairs
<1>2. fetch \in [Fetchers -> FetchState]
  BY <1>1, NoFetchTyped, RequestingTyped DEF Init, Requesting
<1>3. NoToken \in [kid : Times, pair : Pairs, iat : Times]
  BY <1>1 DEF NoToken
<1>4. Unpublished \in [kid : Times, from : Times, to : Times]
  BY <1>1 DEF Unpublished
<1>5. tickAt \in 0..(MaxTime + Refresh)
  BY Constants DEF Init
<1>6. TypeOK
  <2>1. \A f \in Fetchers :
          /\ fetch[f].at \in {"no", "request", "response", "stamp"}
          /\ fetch[f].since \in Times /\ fetch[f].served \in Times
          /\ fetch[f].keys \in Seq(Key)
    BY <1>2 DEF FetchState
  <2> QED BY <1>1, <1>3, <1>4, <1>5, <2>1 DEF Init, TypeOK
<1> QED BY <1>2, <1>6 DEF Typed

(* The types of the variables the keys, the work and the receiver keep. *)
SignerTyped ==
    /\ keySet \in Seq(Key) /\ privateKey \in Pairs /\ keyID \in Times
    /\ generating \in {"idle", "start", "id", "add"}
    /\ published \in [Pairs -> [kid : Times, from : Times, to : Times]]
WorkTyped ==
    /\ agent \in [Tasks -> {"none", "working", "post", "cut", "done", "lost"}]
    /\ config \in [Tasks -> BOOLEAN]
    /\ client \in [Tasks -> {"idle", "track", "configure", "done"}]
    /\ token \in [Tasks -> [kid : Times, pair : Pairs, iat : Times]]
    /\ tracker \in [Tasks -> {"unknown", "pending", "completed"}]
ReceiverTyped ==
    /\ handler \in [Tasks -> {"none", "fetching", "lookup"} \cup Verdicts]
    /\ fetch \in [Fetchers -> FetchState]
    /\ cache \in Seq(Key) /\ cachedAt \in Times /\ lastFetch \in Times
    /\ tickAt \in 0..(MaxTime + Refresh)
ClockTyped == now \in Times \ {0} /\ verifier \in DOMAIN Receivers

LEMMA TypedParts == Typed <=> ClockTyped /\ SignerTyped /\ WorkTyped /\ ReceiverTyped
<1>1. fetch \in [Fetchers -> FetchState] =>
          \A f \in Fetchers :
             /\ fetch[f].at \in {"no", "request", "response", "stamp"}
             /\ fetch[f].since \in Times /\ fetch[f].served \in Times
             /\ fetch[f].keys \in Seq(Key)
  BY DEF FetchState
<1>2. Typed => ClockTyped /\ SignerTyped /\ WorkTyped /\ ReceiverTyped
  BY DEF Typed, TypeOK, ClockTyped, SignerTyped, WorkTyped, ReceiverTyped
<1>3. ClockTyped /\ SignerTyped /\ WorkTyped /\ ReceiverTyped => Typed
  BY <1>1 DEF Typed, TypeOK, ClockTyped, SignerTyped, WorkTyped, ReceiverTyped
<1> QED BY <1>2, <1>3

LEMMA TypedPartsNext == Typed' <=> ClockTyped' /\ SignerTyped' /\ WorkTyped' /\ ReceiverTyped'
  BY TypedParts, PTL

LEMMA TypedNext == Typed /\ KeysOK /\ [Next]_vars => Typed'
<1> SUFFICES ASSUME Typed, KeysOK, [Next]_vars PROVE Typed'
  OBVIOUS
<1>0. ClockTyped /\ SignerTyped /\ WorkTyped /\ ReceiverTyped
  BY TypedParts
<1>1. SignerTyped'
  <2>1. CASE GenerateKeyPair
    <3>1. NextPair \in Pairs
      BY <1>0, <2>1, Constants DEF GenerateKeyPair, NextPair, KeysOK, SignerTyped, Pairs
    <3> QED BY <1>0, <2>1, <3>1 DEF GenerateKeyPair, SignerTyped
  <2>2. CASE SetKeyID
    BY <1>0, <2>2 DEF SetKeyID, SignerTyped, ClockTyped
  <2>3. CASE AddKey
    <3>1. [kid |-> keyID, pair |-> privateKey] \in Key
      BY <1>0, <2>3 DEF AddKey, SignerTyped, KeysOK, Key
    <3>2. [kid |-> keyID, from |-> now, to |-> MaxTime] \in [kid : Times, from : Times, to : Times]
      BY <1>0, Constants DEF SignerTyped, ClockTyped, Times
    <3> QED BY <1>0, <2>3, <3>1, <3>2 DEF AddKey, SignerTyped
  <2>4. CASE Restart
    <3>1. \A p \in Pairs : [published[p] EXCEPT !.to = now] \in [kid : Times, from : Times, to : Times]
      BY <1>0 DEF SignerTyped, ClockTyped
    <3>2. 0 \in Times
      BY Constants DEF Times
    <3> QED BY <1>0, <2>4, <3>1, <3>2 DEF Restart, SignerTyped
  <2>5. CASE UNCHANGED signer
    BY <1>0, <2>5 DEF SignerTyped, signer
  <2> QED BY <2>1, <2>2, <2>3, <2>4, <2>5 DEF Next, KeyStep, AgentStep, ClientStep, HandlerStep,
        Tick, StartPeriodicRefresh, RefreshJWKS, sendMessage, StreamMessage, TrackTask,
        SetPushNotification, sendPushNotification, SendPushNotification, CallerLeaves, ServeHTTP, FetchFails,
        InstallKeys, StampFetch, Verify, HandleJWKS, vars
<1>2. ClockTyped'
  <2>1. CASE Tick
    BY <1>0, <2>1, Constants DEF Tick, ClockTyped, Times
  <2>2. CASE now' = now /\ verifier' = verifier
    BY <1>0, <2>2 DEF ClockTyped
  <2> QED BY <2>1, <2>2 DEF Next, KeyStep, AgentStep, ClientStep, HandlerStep, GenerateKeyPair,
        SetKeyID, AddKey, Restart, StartPeriodicRefresh, RefreshJWKS, sendMessage, StreamMessage,
        TrackTask, SetPushNotification, sendPushNotification, SendPushNotification, CallerLeaves, ServeHTTP,
        FetchFails, InstallKeys, StampFetch, Verify, HandleJWKS, vars
<1>3. WorkTyped'
  <2>1. verifier \in DOMAIN Receivers
    BY <1>0 DEF ClockTyped
  <2>2. ASSUME NEW t \in Tasks, sendMessage(t) \/ StreamMessage(t) \/ ClientStep(t) PROVE WorkTyped'
    BY <1>0, <2>2 DEF sendMessage, processDirectly, StreamMessage, ClientStep, TrackTask,
          SetPushNotification, WorkTyped
  <2>3. ASSUME NEW t \in Tasks, AgentStep(t) PROVE WorkTyped'
    <3>1. [kid |-> keyID, pair |-> privateKey, iat |-> now] \in [kid : Times, pair : Pairs, iat : Times]
      BY <1>0 DEF SignerTyped, ClockTyped
    <3>2. CASE sendPushNotification(t)
      <4>1. CASE config[t]
        BY <1>0, <3>1, <3>2, <4>1 DEF sendPushNotification, SignPayload, WorkTyped
      <4>2. CASE ~config[t]
        BY <1>0, <3>2, <4>2 DEF sendPushNotification, CleanTask, WorkTyped
      <4> QED BY <4>1, <4>2
    <3>3. CASE SendPushNotification(t)
      <4>1. UNCHANGED <<client, token, tracker>>
        BY <3>3 DEF SendPushNotification
      <4>2. /\ agent' = [agent EXCEPT ![t] = "done"]
            /\ config' = [config EXCEPT ![t] = FALSE]
        BY <3>3 DEF SendPushNotification, CleanTask
      <4> QED BY <1>0, <4>1, <4>2 DEF WorkTyped
    <3> QED BY <2>3, <3>2, <3>3 DEF AgentStep
  <2>4. ASSUME NEW t \in Tasks, HandlerStep(t) PROVE WorkTyped'
    <3>0. NoToken \in [kid : Times, pair : Pairs, iat : Times]
      BY Constants DEF NoToken, Times, Pairs
    <3>1. /\ UNCHANGED <<agent, config, client>>
          /\ token' = token \/ token' = [token EXCEPT ![t] = NoToken]
      <4>1. CASE FetchFails(t)
        BY <4>1 DEF FetchFails, Decided
      <4>2. CASE InstallKeys(t) \/ StampFetch(t)
        BY <4>2 DEF InstallKeys, StampFetch, work
      <4>3. CASE Verify(t)
        BY <4>3 DEF Verify, Decided
      <4> QED BY <2>4, <4>1, <4>2, <4>3 DEF HandlerStep
    <3>4. token' \in [Tasks -> [kid : Times, pair : Pairs, iat : Times]]
      BY <1>0, <3>0, <3>1 DEF WorkTyped
    <3>2. tracker' = tracker \/ UpdateTaskStatus(t)
      BY <2>4 DEF HandlerStep, FetchFails, InstallKeys, StampFetch, Verify
    <3>3. tracker' \in [Tasks -> {"unknown", "pending", "completed"}]
      BY <1>0, <3>2 DEF UpdateTaskStatus, WorkTyped
    <3> QED BY <1>0, <3>1, <3>3, <3>4 DEF WorkTyped
  <2>5. ASSUME NEW t \in Tasks, ServeHTTP(t) PROVE WorkTyped'
    BY <1>0, <2>5 DEF ServeHTTP, WorkTyped, work
  <2>8. ASSUME NEW t \in Tasks, CallerLeaves(t) PROVE WorkTyped'
    BY <1>0, <2>8 DEF CallerLeaves, WorkTyped
  <2>6. CASE Restart
    BY <1>0, <2>6 DEF Restart, WorkTyped
  <2>7. CASE UNCHANGED <<work, tracker>>
    BY <1>0, <2>7 DEF WorkTyped, work
  <2> QED BY <2>1, <2>2, <2>3, <2>4, <2>5, <2>6, <2>7, <2>8, Recipients DEF Next, KeyStep, Tick,
        GenerateKeyPair, SetKeyID, AddKey, StartPeriodicRefresh, RefreshJWKS, HandleJWKS, vars
<1>4. ReceiverTyped'
  <2>1. verifier \in DOMAIN Receivers /\ now \in Times
    BY <1>0 DEF ClockTyped
  <2>2. /\ NoFetch \in FetchState /\ Requesting \in FetchState
    BY <2>1, NoFetchTyped, RequestingTyped
  <2>3. ASSUME NEW t \in Tasks, ServeHTTP(t) PROVE ReceiverTyped'
    BY <1>0, <2>2, <2>3 DEF ServeHTTP, FetchKeys, ReceiverTyped, Fetchers
  <2>4. ASSUME NEW t \in Tasks, FetchFails(t) \/ InstallKeys(t) \/ StampFetch(t) PROVE ReceiverTyped'
    <3>1. /\ t \in Fetchers /\ fetch[t] \in FetchState
      BY <1>0 DEF ReceiverTyped, Fetchers
    <3>2. [fetch[t] EXCEPT !.at = "stamp"] \in FetchState
      BY <3>1 DEF FetchState
    <3>3. fetch[t].keys \in Seq(Key) /\ fetch[t].served \in Times
      BY <3>1 DEF FetchState
    <3>4. CASE FetchFails(t)
      BY <1>0, <2>2, <3>4 DEF FetchFails, Decided, ReceiverTyped, Verdicts
    <3>5. CASE InstallKeys(t)
      BY <1>0, <3>2, <3>3, <3>5 DEF InstallKeys, ReceiverTyped
    <3>6. CASE StampFetch(t)
      BY <1>0, <2>1, <2>2, <3>6 DEF StampFetch, ReceiverTyped
    <3> QED BY <2>4, <3>4, <3>5, <3>6
  <2>5. ASSUME NEW t \in Tasks, Verify(t) PROVE ReceiverTyped'
    <3>1. VerifyPushNotification(t) \in Verdicts /\ verifyJWT(t) \in Verdicts
      BY DEF VerifyPushNotification, verifyJWT, SecondTry, ClaimsOf, Verdicts
    <3> QED BY <1>0, <2>5, <3>1 DEF Verify, Decided, ReceiverTyped
  <2>6. ASSUME NEW f \in Fetchers, HandleJWKS(f) PROVE ReceiverTyped'
    <3>1. fetch[f] \in FetchState
      BY <1>0 DEF ReceiverTyped
    <3>2. [fetch[f] EXCEPT !.at = "response", !.keys = keySet, !.served = now] \in FetchState
      BY <1>0, <2>1, <3>1 DEF FetchState, SignerTyped
    <3> QED BY <1>0, <2>6, <3>2 DEF HandleJWKS, ReceiverTyped
  <2>7. CASE StartPeriodicRefresh
    <3>1. tickAt + Refresh \in 0..(MaxTime + Refresh)
      BY <1>0, <2>1, <2>7, Constants DEF StartPeriodicRefresh, ReceiverTyped, Times
    <3> QED BY <1>0, <2>2, <2>7, <3>1 DEF StartPeriodicRefresh, ReceiverTyped
  <2>8. CASE RefreshJWKS
    <3>1. Ticking \in 0..(MaxTime + Refresh)
      BY <1>0, <2>1, Constants DEF Ticking, ReceiverTyped, Times
    <3>2. fetch["refresher"].keys \in Seq(Key) /\ fetch["refresher"].served \in Times
      BY <1>0 DEF ReceiverTyped, Fetchers, FetchState
    <3> QED BY <1>0, <2>2, <2>8, <3>1, <3>2 DEF RefreshJWKS, ReceiverTyped
  <2>9. CASE UNCHANGED receiver
    BY <1>0, <2>9 DEF ReceiverTyped, receiver
  <2> QED BY <2>1, <2>3, <2>4, <2>5, <2>6, <2>7, <2>8, <2>9, Recipients DEF Next, KeyStep, AgentStep,
        ClientStep, HandlerStep, Tick, GenerateKeyPair, SetKeyID, AddKey, Restart, sendMessage,
        StreamMessage, TrackTask, SetPushNotification, sendPushNotification,
        SendPushNotification, CallerLeaves, vars
<1> QED BY <1>1, <1>2, <1>3, <1>4, TypedPartsNext


-----------------------------------------------------------------------------
(* The keys the server publishes *)

LEMMA KeysNext == Typed /\ KeysOK /\ [Next]_vars => KeysOK'
<1> SUFFICES ASSUME Typed, KeysOK, [Next]_vars PROVE KeysOK'
  OBVIOUS
<1>0. ClockTyped /\ SignerTyped
  BY TypedParts
<1>1. /\ privateKey \in Pairs /\ privateKey \in Nat /\ now \in Nat /\ now >= 1 /\ now <= MaxTime
      /\ keySet \in Seq(Key) /\ Len(keySet) \in Nat
      /\ published \in [Pairs -> [kid : Times, from : Times, to : Times]]
      /\ \A i \in 1..Len(keySet) : keySet[i] \in Key /\ keySet[i].pair \in Pairs \ {0}
  <2>1. keySet \in Seq(Key) /\ Len(keySet) \in Nat /\ privateKey \in Pairs
    BY <1>0 DEF SignerTyped
  <2>2. \A i \in 1..Len(keySet) : keySet[i] \in Key
    BY <2>1
  <2>3. \A i \in 1..Len(keySet) : keySet[i].pair \in Pairs \ {0}
    BY <2>2 DEF Key
  <2>4. privateKey \in Nat /\ now \in Nat /\ now >= 1 /\ now <= MaxTime
    BY <1>0, <2>1, Constants DEF ClockTyped, Times, Pairs
  <2> QED BY <1>0, <2>1, <2>2, <2>3, <2>4 DEF SignerTyped
<1>2. CASE UNCHANGED <<signer, now>>
  BY <1>2 DEF KeysOK, signer, Held
<1>3. CASE Tick
  <2>1. UNCHANGED signer /\ now' = now + 1
    BY <1>3 DEF Tick
  <2>2. \A p \in Pairs : published[p].from \in Nat /\ published[p].to \in Nat
    BY <1>1, Constants DEF Times
  <2> QED BY <1>1, <2>1, <2>2 DEF KeysOK, signer, Held
<1>4. CASE GenerateKeyPair
  <2>1. /\ privateKey' = privateKey + 1 /\ generating' = "id" /\ privateKey' \in Pairs
        /\ UNCHANGED <<now, keySet, published>>
    BY <1>1, <1>4, Constants DEF GenerateKeyPair, NextPair, KeysOK, Pairs
  <2>2. published[privateKey'] = Unpublished
    BY <1>1, <2>1 DEF KeysOK
  <2>3. Held(keySet') = Held(keySet)
    BY <2>1
  <2> QED BY <1>1, <2>1, <2>2, <2>3 DEF KeysOK, Pairs
<1>5. CASE SetKeyID
  <2>1. generating = "id" /\ generating' = "add" /\ UNCHANGED <<now, keySet, privateKey, published>>
    BY <1>5 DEF SetKeyID
  <2>2. Held(keySet') = Held(keySet)
    BY <2>1
  <2> QED BY <2>1, <2>2 DEF KeysOK
<1>6. CASE AddKey
  <2> DEFINE k == [kid |-> keyID, pair |-> privateKey]
             pub == [kid |-> keyID, from |-> now, to |-> MaxTime]
  <2>1. /\ generating = "add" /\ generating' = "idle" /\ keySet' = Append(keySet, k)
        /\ published' = [published EXCEPT ![privateKey] = pub]
        /\ UNCHANGED <<now, privateKey>>
    BY <1>6 DEF AddKey
  <2>2. privateKey # 0 /\ published[privateKey] = Unpublished
    BY <2>1 DEF KeysOK
  <2>3. k \in Key
    BY <1>0, <2>2 DEF SignerTyped, Key
  <2>4. /\ Len(keySet') = Len(keySet) + 1 /\ keySet'[Len(keySet) + 1] = k
        /\ \A i \in 1..Len(keySet) : keySet'[i] = keySet[i]
    BY <1>1, <2>1, <2>3
  <2>5. pub # Unpublished /\ pub.from = now /\ pub.to = MaxTime /\ pub.kid = keyID
    BY <1>1 DEF Unpublished
  <2>6. published'[privateKey] = pub /\ \A p \in Pairs \ {privateKey} : published'[p] = published[p]
    BY <1>1, <2>1
  <2>7. k.kid = keyID /\ k.pair = privateKey
    OBVIOUS
  <2> HIDE DEF k, pub
  <2>8. \A i \in 1..Len(keySet) : keySet[i].pair # privateKey
    BY <2>2 DEF KeysOK
  <2>9. \A p \in Pairs : p \in Held(keySet) => p \in Held(keySet')
    <3>1. Len(keySet) + 1 \in 1..Len(keySet')
      BY <1>1, <2>4
    <3>2. \A i \in 1..Len(keySet) : i \in 1..Len(keySet') /\ keySet'[i].pair = keySet[i].pair
      BY <1>1, <2>4
    <3> QED BY <3>2 DEF Held
  <2>10. privateKey \in Held(keySet')
    <3>1. Len(keySet) + 1 \in 1..Len(keySet')
      BY <1>1, <2>4
    <3> QED BY <2>4, <2>7, <3>1 DEF Held
  <2>11. ASSUME NEW i \in 1..Len(keySet')
         PROVE  /\ published'[keySet'[i].pair] # Unpublished
                /\ published'[keySet'[i].pair].kid = keySet'[i].kid
                /\ published'[keySet'[i].pair].to = MaxTime
    <3>1. CASE i = Len(keySet) + 1
      BY <2>4, <2>5, <2>6, <2>7, <3>1
    <3>2. CASE i # Len(keySet) + 1
      <4>1. i \in 1..Len(keySet)
        BY <1>1, <2>4, <3>2
      <4>2. keySet'[i] = keySet[i] /\ keySet[i].pair \in Pairs \ {privateKey}
        BY <1>1, <2>4, <2>8, <4>1
      <4> QED BY <2>6, <4>1, <4>2 DEF KeysOK
    <3> QED BY <3>1, <3>2
  <2>12. ASSUME NEW p \in Pairs, published'[p] # Unpublished
         PROVE  /\ 1 <= published'[p].from /\ published'[p].from <= now
                /\ p \notin Held(keySet') => published'[p].to <= now
    <3>1. CASE p = privateKey
      BY <1>1, <2>5, <2>6, <2>10, <3>1
    <3>2. CASE p # privateKey
      BY <2>6, <2>9, <2>12, <3>2 DEF KeysOK
    <3> QED BY <3>1, <3>2
  <2>13. \A p \in Pairs : p > privateKey => published'[p] = Unpublished
    BY <1>1, <2>6 DEF KeysOK, Pairs
  <2>14. published'[0] = Unpublished
    BY <2>2, <2>6, Constants DEF KeysOK, Pairs
  <2> QED BY <2>1, <2>11, <2>12, <2>13, <2>14 DEF KeysOK
<1>7. CASE Restart
  <2>1. /\ NextPair <= MaxKeys /\ keySet' = <<>> /\ generating' = "start"
        /\ published' = [p \in Pairs |-> IF \E i \in 1..Len(keySet) : keySet[i].pair = p
                                         THEN [published[p] EXCEPT !.to = now] ELSE published[p]]
        /\ UNCHANGED <<now, privateKey>>
    BY <1>7 DEF Restart
  <2>2. ASSUME NEW p \in Pairs, p \in Held(keySet)
        PROVE  /\ published[p] # Unpublished
               /\ published'[p].from = published[p].from /\ published'[p].to = now
    <3>1. PICK i \in 1..Len(keySet) : keySet[i].pair = p
      BY <2>2 DEF Held
    <3>2. published[p] # Unpublished
      BY <3>1 DEF KeysOK
    <3>3. published[p] \in [kid : Times, from : Times, to : Times]
      BY <1>1
    <3>4. published'[p] = [published[p] EXCEPT !.to = now]
      BY <2>1, <3>1
    <3> QED BY <3>2, <3>3, <3>4
  <2>3. ASSUME NEW p \in Pairs, p \notin Held(keySet) PROVE published'[p] = published[p]
    <3>1. ~ \E i \in 1..Len(keySet) : keySet[i].pair = p
      BY <2>3 DEF Held
    <3> QED BY <2>1, <3>1
  <2>4. Len(keySet') = 0
    BY <2>1
  <2>5. privateKey < MaxKeys
    BY <1>1, <2>1, Constants DEF NextPair
  <2>6. ASSUME NEW p \in Pairs, published'[p] # Unpublished
        PROVE  /\ 1 <= published'[p].from /\ published'[p].from <= now /\ published'[p].to <= now
    <3>1. CASE p \in Held(keySet)
      BY <1>1, <2>2, <3>1 DEF KeysOK
    <3>2. CASE p \notin Held(keySet)
      BY <2>3, <2>6, <3>2 DEF KeysOK
    <3> QED BY <3>1, <3>2
  <2>7. \A p \in Pairs : published[p] = Unpublished => published'[p] = Unpublished
    BY <2>2, <2>3
  <2>8. published'[0] = Unpublished /\ \A p \in Pairs : p > privateKey => published'[p] = Unpublished
    BY <2>7, Constants DEF KeysOK, Pairs
  <2> QED BY <2>1, <2>4, <2>5, <2>6, <2>8 DEF KeysOK
<1> QED BY <1>2, <1>3, <1>4, <1>5, <1>6, <1>7 DEF Next, KeyStep, AgentStep, ClientStep, HandlerStep,
      StartPeriodicRefresh, RefreshJWKS, sendMessage, StreamMessage, TrackTask,
      SetPushNotification, sendPushNotification, SendPushNotification, CallerLeaves, ServeHTTP, FetchFails,
      InstallKeys, StampFetch, Verify, HandleJWKS, vars

-----------------------------------------------------------------------------
(* The key sets that were served *)

(* Serving keeps true as long as the keys are published the way they were, or  *)
(* for longer than the set is old.                                           *)
LEMMA ServedKept ==
    ASSUME Typed, KeysOK, [Next]_vars, NEW keys \in Seq(Key), NEW when \in Times,
           Served(keys, when, now, published)
    PROVE  Served(keys, when, now', published')
<1>0. ClockTyped /\ SignerTyped
  BY TypedParts
<1>1. /\ now \in Nat /\ when \in Nat /\ when <= now /\ now <= MaxTime
      /\ published \in [Pairs -> [kid : Times, from : Times, to : Times]]
      /\ \A p \in Pairs : published[p].from \in Nat /\ published[p].to \in Nat
      /\ privateKey \in Pairs
  BY <1>0, Constants DEF SignerTyped, ClockTyped, Times, Served
<1>2. \A i \in 1..Len(keys) : keys[i].pair \in Pairs
  <2>1. \A i \in 1..Len(keys) : keys[i] \in Key
    OBVIOUS
  <2> QED BY <2>1 DEF Key
<1>3. CASE UNCHANGED <<published, now>>
  BY <1>3 DEF Served
<1>4. CASE Tick
  <2>1. published' = published /\ now' = now + 1
    BY <1>4 DEF Tick, signer
  <2> QED BY <1>1, <2>1 DEF Served
<1>5. CASE AddKey
  <2>1. /\ now' = now /\ published[privateKey] = Unpublished
        /\ published'[privateKey].from = now
        /\ \A p \in Pairs \ {privateKey} : published'[p] = published[p]
    BY <1>1, <1>5 DEF AddKey, KeysOK
  <2>2. \A i \in 1..Len(keys) : keys[i].pair \in Pairs \ {privateKey}
    BY <1>2, <2>1 DEF Served
  <2>3. \A q \in Pairs \ {privateKey} :
            published'[q] # Unpublished /\ published'[q].from < when /\ when < published'[q].to
                => q \in Held(keys)
    BY <2>1 DEF Served
  <2>4. ~(published'[privateKey].from < when)
    BY <1>1, <2>1
  <2> QED BY <1>1, <2>1, <2>2, <2>3, <2>4 DEF Served
<1>6. CASE Restart
  <2>1. /\ now' = now
        /\ published' = [p \in Pairs |-> IF \E i \in 1..Len(keySet) : keySet[i].pair = p
                                         THEN [published[p] EXCEPT !.to = now] ELSE published[p]]
    BY <1>6 DEF Restart
  <2>2. ASSUME NEW p \in Pairs
        PROVE  \/ published'[p] = published[p]
               \/ /\ published[p] # Unpublished /\ published[p].to = MaxTime
                  /\ published'[p].from = published[p].from /\ published'[p].kid = published[p].kid
                  /\ published'[p].to = now /\ published[p].from >= 1
    <3>1. CASE \E i \in 1..Len(keySet) : keySet[i].pair = p
      <4>1. published[p] # Unpublished /\ published[p].to = MaxTime
        BY <3>1 DEF KeysOK
      <4>2. published[p] \in [kid : Times, from : Times, to : Times]
        BY <1>1
      <4>3. published'[p] = [published[p] EXCEPT !.to = now]
        BY <2>1, <3>1
      <4>4. published[p].from >= 1
        BY <4>1 DEF KeysOK
      <4> QED BY <4>1, <4>2, <4>3, <4>4
    <3>2. CASE ~ \E i \in 1..Len(keySet) : keySet[i].pair = p
      BY <2>1, <3>2
    <3> QED BY <3>1, <3>2
  <2>3. \A p \in Pairs : published'[p].from >= 1 => published'[p] # Unpublished
    BY DEF Unpublished
  <2>4. ASSUME NEW i \in 1..Len(keys)
        PROVE  /\ published'[keys[i].pair] # Unpublished
               /\ published'[keys[i].pair].kid = keys[i].kid
               /\ published'[keys[i].pair].from <= when /\ when <= published'[keys[i].pair].to
    <3>1. keys[i].pair \in Pairs
      BY <1>2
    <3>2. /\ published[keys[i].pair] # Unpublished
          /\ published[keys[i].pair].kid = keys[i].kid
          /\ published[keys[i].pair].from <= when /\ when <= published[keys[i].pair].to
      BY DEF Served
    <3> QED BY <1>1, <2>2, <2>3, <3>1, <3>2
  <2>5. ASSUME NEW q \in Pairs, published'[q] # Unpublished, published'[q].from < when,
               when < published'[q].to
        PROVE  q \in Held(keys)
    <3>1. published[q] # Unpublished /\ published[q].from < when /\ when < published[q].to
      BY <1>1, <2>2, <2>5
    <3> QED BY <3>1 DEF Served
  <2> QED BY <1>1, <2>1, <2>4, <2>5 DEF Served
<1> QED BY <1>3, <1>4, <1>5, <1>6 DEF Next, KeyStep, AgentStep, ClientStep, HandlerStep,
      GenerateKeyPair, SetKeyID,
      StartPeriodicRefresh, RefreshJWKS, sendMessage, StreamMessage, TrackTask,
      SetPushNotification, sendPushNotification, SendPushNotification, CallerLeaves, ServeHTTP, FetchFails,
      InstallKeys, StampFetch, Verify, HandleJWKS, vars, signer

(* No keys were served before there was a time to. *)
LEMMA NoneServed ==
    ASSUME Typed, KeysOK
    PROVE  Served(<<>>, 0, now, published)
<1>1. \A q \in Pairs : published[q] # Unpublished => ~(published[q].from < 0)
  <2>1. \A q \in Pairs : published[q].from \in Nat
    BY TypedParts DEF SignerTyped, Times
  <2> QED BY <2>1
<1>2. 0 <= now
  BY Constants DEF Typed, TypeOK, Times
<1> QED BY <1>1, <1>2 DEF Served

(* The keys that are served now. *)
LEMMA ServedNow ==
    ASSUME Typed, KeysOK
    PROVE  Served(keySet, now, now, published)
<1>0. ClockTyped /\ SignerTyped
  BY TypedParts
<1>1. /\ now \in Nat /\ now <= MaxTime
      /\ \A p \in Pairs : published[p].from \in Nat /\ published[p].to \in Nat
  BY <1>0, Constants DEF SignerTyped, ClockTyped, Times
<1>2. ASSUME NEW i \in 1..Len(keySet) PROVE keySet[i].pair \in Pairs
  <2>1. keySet[i] \in Key
    BY <1>0 DEF SignerTyped
  <2> QED BY <2>1 DEF Key
<1> QED BY <1>1, <1>2 DEF Served, KeysOK

(* What a step makes of a fetch. *)
LEMMA FetchMoves ==
    ASSUME Typed, [Next]_vars, NEW f \in Fetchers
    PROVE  \/ fetch'[f] = fetch[f]
           \/ fetch'[f] = NoFetch
           \/ fetch'[f] = Requesting /\ UNCHANGED <<now, cachedAt>>
           \/ /\ fetch[f].at = "request" /\ UNCHANGED <<now, cachedAt>>
              /\ fetch'[f] = [fetch[f] EXCEPT !.at = "response", !.keys = keySet, !.served = now]
           \/ /\ fetch[f].at = "response" /\ now' = now
              /\ fetch'[f] = [fetch[f] EXCEPT !.at = "stamp"]
              /\ cache' = fetch[f].keys /\ cachedAt' = fetch[f].served
<1>0. fetch \in [Fetchers -> FetchState] /\ verifier \in DOMAIN Receivers
  BY TypedParts DEF ReceiverTyped, ClockTyped
<1>1. ASSUME NEW t \in Tasks, ServeHTTP(t)
      PROVE  fetch'[f] = fetch[f] \/ (fetch'[f] = Requesting /\ UNCHANGED <<now, cachedAt>>)
  BY <1>0, <1>1 DEF ServeHTTP, FetchKeys
<1>2. ASSUME NEW t \in Tasks, FetchFails(t) \/ StampFetch(t)
      PROVE  fetch'[f] = fetch[f] \/ fetch'[f] = NoFetch
  BY <1>0, <1>2 DEF FetchFails, StampFetch
<1>3. ASSUME NEW t \in Tasks, InstallKeys(t)
      PROVE  \/ fetch'[f] = fetch[f]
             \/ /\ fetch[f].at = "response" /\ now' = now
                /\ fetch'[f] = [fetch[f] EXCEPT !.at = "stamp"]
                /\ cache' = fetch[f].keys /\ cachedAt' = fetch[f].served
  BY <1>0, <1>3 DEF InstallKeys
<1>4. ASSUME NEW g \in Fetchers, HandleJWKS(g)
      PROVE  \/ fetch'[f] = fetch[f]
             \/ /\ fetch[f].at = "request" /\ UNCHANGED <<now, cachedAt>>
                /\ fetch'[f] = [fetch[f] EXCEPT !.at = "response", !.keys = keySet, !.served = now]
  BY <1>0, <1>4 DEF HandleJWKS
<1>5. CASE StartPeriodicRefresh
  BY <1>0, <1>5 DEF StartPeriodicRefresh
<1>6. CASE RefreshJWKS
  BY <1>0, <1>6 DEF RefreshJWKS
<1>7. CASE fetch' = fetch
  BY <1>7
<1> QED BY <1>0, <1>1, <1>2, <1>3, <1>4, <1>5, <1>6, <1>7, Recipients DEF Next, KeyStep, AgentStep,
      ClientStep, HandlerStep, Tick, GenerateKeyPair, SetKeyID, AddKey, Restart, sendMessage,
      StreamMessage, TrackTask, SetPushNotification, sendPushNotification, SendPushNotification, CallerLeaves,
      Verify, vars, receiver

LEMMA SetsNext == Typed /\ KeysOK /\ SetsOK /\ [Next]_vars => SetsOK'
<1> SUFFICES ASSUME Typed, KeysOK, SetsOK, [Next]_vars PROVE SetsOK'
  OBVIOUS
<1>0. ClockTyped /\ SignerTyped /\ ReceiverTyped
  BY TypedParts
<1>1. Typed' /\ KeysOK'
  BY TypedNext, KeysNext
<1>2. ASSUME NEW keys, NEW when,
             \/ keys = cache /\ when = cachedAt
             \/ keys = keySet /\ when = now
             \/ keys = <<>> /\ when = 0
             \/ \E f \in Fetchers : keys = fetch[f].keys /\ when = fetch[f].served
      PROVE  Served(keys, when, now', published')
  <2>1. Served(keys, when, now, published)
    BY <1>2, NoneServed, ServedNow DEF SetsOK
  <2>2. keys \in Seq(Key) /\ when \in Times
    <3>1. \A f \in Fetchers : fetch[f].keys \in Seq(Key) /\ fetch[f].served \in Times
      BY <1>0 DEF ReceiverTyped, FetchState
    <3>2. <<>> \in Seq(Key) /\ 0 \in Times
      BY Constants DEF Times
    <3> QED BY <1>0, <1>2, <3>1, <3>2 DEF ReceiverTyped, SignerTyped, ClockTyped
  <2> QED BY <2>1, <2>2, ServedKept
<1>3. \/ cache' = cache /\ cachedAt' = cachedAt
      \/ \E f \in Fetchers : cache' = fetch[f].keys /\ cachedAt' = fetch[f].served
  BY Recipients, <1>0 DEF Next, KeyStep, AgentStep, ClientStep, HandlerStep,
      Tick, GenerateKeyPair, SetKeyID, AddKey, Restart,
      StartPeriodicRefresh, RefreshJWKS, sendMessage, StreamMessage, TrackTask,
      SetPushNotification, sendPushNotification, SendPushNotification, CallerLeaves, ServeHTTP, FetchFails,
      InstallKeys, StampFetch, Verify, HandleJWKS, vars, receiver, ClockTyped, Fetchers
<1>4. ASSUME NEW f \in Fetchers
      PROVE  \/ fetch'[f].keys = fetch[f].keys /\ fetch'[f].served = fetch[f].served
             \/ fetch'[f].keys = keySet /\ fetch'[f].served = now
             \/ fetch'[f].keys = <<>> /\ fetch'[f].served = 0
  <2>1. fetch[f] \in FetchState
    BY <1>0 DEF ReceiverTyped
  <2>2. now \in Times
    BY <1>0 DEF ClockTyped
  <2> QED BY <2>1, <2>2, FetchMoves, NoFetchTyped, RequestingTyped DEF FetchState
<1>5. Served(cache', cachedAt', now', published')
  BY <1>2, <1>3
<1>6. ASSUME NEW f \in Fetchers PROVE Served(fetch'[f].keys, fetch'[f].served, now', published')
  BY <1>2, <1>4
<1> QED BY <1>5, <1>6 DEF SetsOK

-----------------------------------------------------------------------------
(* The times of the fetches and of the cache *)

(* The times are numbers. *)
LEMMA Numbers ==
    ASSUME Typed
    PROVE  /\ now \in Nat /\ cachedAt \in Nat /\ lastFetch \in Nat /\ now >= 1
           /\ TTL \in Nat /\ Timeout \in Nat /\ TTL >= 1 /\ Timeout >= 1
           /\ \A f \in Fetchers : fetch[f].since \in Nat /\ fetch[f].served \in Nat
<1>1. \A f \in Fetchers : fetch[f].since \in Nat /\ fetch[f].served \in Nat
  BY DEF Typed, TypeOK, Times
<1> QED BY <1>1, Constants DEF Typed, TypeOK, Times

(* A cache changes for what a response brought, in no time. *)
LEMMA CacheMoves ==
    ASSUME Typed, TimesOK, [Next]_vars
    PROVE  \/ cachedAt' = cachedAt
           \/ now' = now /\ cachedAt' # 0 /\ cachedAt' \in Nat /\ now <= cachedAt' + Timeout
<1>1. \/ cachedAt' = cachedAt
      \/ now' = now /\ \E f \in Fetchers : fetch[f].at = "response" /\ cachedAt' = fetch[f].served
  <2>1. verifier \in DOMAIN Receivers
    BY TypedParts DEF ClockTyped
  <2> QED BY <2>1, Recipients DEF Next, KeyStep, AgentStep, ClientStep, HandlerStep,
        Tick, GenerateKeyPair, SetKeyID, AddKey, Restart,
        StartPeriodicRefresh, RefreshJWKS, sendMessage, StreamMessage, TrackTask,
        SetPushNotification, sendPushNotification, SendPushNotification, CallerLeaves, ServeHTTP, FetchFails,
        InstallKeys, StampFetch, Verify, HandleJWKS, vars, receiver, Fetchers
<1>2. ASSUME NEW f \in Fetchers, fetch[f].at = "response"
      PROVE  fetch[f].served # 0 /\ fetch[f].served \in Nat /\ now <= fetch[f].served + Timeout
  <2>1. /\ fetch[f].since <= fetch[f].served /\ fetch[f].served # 0
        /\ now <= fetch[f].since + Timeout
    BY <1>2 DEF TimesOK, FetchTimes
  <2> QED BY <2>1, Numbers
<1> QED BY <1>1, <1>2

LEMMA FetchTimesNext ==
    ASSUME Typed, TimesOK, [Next]_vars, NEW f \in Fetchers
    PROVE  FetchTimes(f)'
<1>0. fetch[f] \in FetchState
  BY TypedParts DEF ReceiverTyped
<1>1. CASE Tick
  <2>1. now' = now + 1 /\ fetch' = fetch /\ cachedAt' = cachedAt /\ ~Urgent
    BY <1>1 DEF Tick, receiver
  <2>2. fetch[f].at # "stamp" /\ (fetch[f].at # "no" => now # fetch[f].since + Timeout)
    BY <2>1 DEF Urgent
  <2> QED BY <2>1, <2>2, Numbers DEF TimesOK, FetchTimes
<1>2. CASE now' = now
  <2>1. CASE fetch'[f] = fetch[f]
    <3>1. CASE fetch[f].at = "stamp"
      BY <1>2, <2>1, <3>1, CacheMoves DEF TimesOK, FetchTimes
    <3>2. CASE fetch[f].at # "stamp"
      BY <1>2, <2>1, <3>2 DEF TimesOK, FetchTimes
    <3> QED BY <3>1, <3>2
  <2>2. CASE fetch'[f] = NoFetch
    BY <2>2, NoFetchTyped DEF FetchTimes
  <2>3. CASE fetch'[f] = Requesting
    <3>1. now \in Times
      BY DEF Typed, TypeOK
    <3> QED BY <1>2, <2>3, <3>1, RequestingTyped, Numbers DEF FetchTimes
  <2>4. CASE fetch[f].at = "request" /\ fetch'[f] = [fetch[f] EXCEPT !.at = "response", !.keys = keySet, !.served = now]
    <3>1. fetch'[f].at = "response" /\ fetch'[f].served = now /\ fetch'[f].since = fetch[f].since
      BY <1>0, <2>4 DEF FetchState
    <3>2. fetch[f].since <= now /\ now <= fetch[f].since + Timeout
      BY <2>4 DEF TimesOK, FetchTimes
    <3> QED BY <1>2, <3>1, <3>2, Numbers DEF FetchTimes
  <2>5. CASE /\ fetch[f].at = "response" /\ fetch'[f] = [fetch[f] EXCEPT !.at = "stamp"]
             /\ cachedAt' = fetch[f].served
    <3>1. fetch'[f].at = "stamp"
      BY <1>0, <2>5 DEF FetchState
    <3>2. /\ fetch[f].since <= fetch[f].served /\ fetch[f].served # 0
          /\ now <= fetch[f].since + Timeout
      BY <2>5 DEF TimesOK, FetchTimes
    <3> QED BY <1>2, <2>5, <3>1, <3>2, Numbers DEF FetchTimes
  <2> QED BY <2>1, <2>2, <2>3, <2>4, <2>5, FetchMoves
<1> QED BY <1>1, <1>2 DEF Next, KeyStep, AgentStep, ClientStep, HandlerStep,
      GenerateKeyPair, SetKeyID, AddKey, Restart,
      StartPeriodicRefresh, RefreshJWKS, sendMessage, StreamMessage, TrackTask,
      SetPushNotification, sendPushNotification, SendPushNotification, CallerLeaves, ServeHTTP, FetchFails,
      InstallKeys, StampFetch, Verify, HandleJWKS, vars

(* A handler looks its key up in keys that were served a moment ago. *)
LEMMA LookupMoves ==
    ASSUME Typed, TimesOK, [Next]_vars, NEW t \in Tasks, handler'[t] = "lookup", verifier = "library"
    PROVE  \/ handler[t] = "lookup" /\ now' = now
           \/ Cached /\ UNCHANGED <<now, cachedAt>>
           \/ cachedAt # 0 /\ now <= cachedAt + Timeout /\ UNCHANGED <<now, cachedAt>>
<1>0. handler \in [Tasks -> {"none", "fetching", "lookup"} \cup Verdicts] /\ verifier \in DOMAIN Receivers
  BY DEF Typed, TypeOK
<1>1. CASE handler'[t] = handler[t] /\ now' = now
  BY <1>1
<1>2. CASE Tick
  BY <1>2 DEF Tick, receiver, Urgent
<1>3. ASSUME NEW u \in Tasks, ServeHTTP(u)
      PROVE  now' = now /\ cachedAt' = cachedAt /\ (handler'[t] = handler[t] \/ Cached)
  BY <1>0, <1>3 DEF ServeHTTP, FetchKeys
<1>4. ASSUME NEW u \in Tasks, FetchFails(u) \/ Verify(u) PROVE handler'[t] = handler[t] /\ now' = now
  <2>1. VerifyPushNotification(u) # "lookup" /\ verifyJWT(u) # "lookup"
    BY DEF VerifyPushNotification, verifyJWT, SecondTry, ClaimsOf
  <2> QED BY <1>0, <1>4, <2>1 DEF FetchFails, Verify, Decided
<1>5. ASSUME NEW u \in Tasks, StampFetch(u)
      PROVE  cachedAt # 0 /\ now <= cachedAt + Timeout /\ UNCHANGED <<now, cachedAt>>
  BY <1>5 DEF StampFetch, TimesOK, FetchTimes, Fetchers
<1> QED BY <1>0, <1>1, <1>2, <1>3, <1>4, <1>5, Recipients DEF Next, KeyStep, AgentStep, ClientStep,
      HandlerStep, GenerateKeyPair, SetKeyID, AddKey, Restart,
      StartPeriodicRefresh, RefreshJWKS, sendMessage, StreamMessage, TrackTask,
      SetPushNotification, sendPushNotification, SendPushNotification, CallerLeaves,
      InstallKeys, HandleJWKS, vars, receiver

LEMMA CacheTimesNext ==
    ASSUME Typed, TimesOK, [Next]_vars
    PROVE  CacheTimes'
<1>0. verifier \in DOMAIN Receivers
  BY DEF Typed, TypeOK
<1>1. verifier' = verifier
  BY <1>0, Recipients DEF Next, KeyStep, AgentStep, ClientStep, HandlerStep, Tick,
      GenerateKeyPair, SetKeyID, AddKey, Restart,
      StartPeriodicRefresh, RefreshJWKS, sendMessage, StreamMessage, TrackTask,
      SetPushNotification, sendPushNotification, SendPushNotification, CallerLeaves, ServeHTTP, FetchFails,
      InstallKeys, StampFetch, Verify, HandleJWKS, vars
<1>2. ASSUME NEW t \in Tasks, verifier = "library", handler'[t] = "lookup"
      PROVE  cachedAt' # 0 /\ now' < cachedAt' + TTL + Timeout
  <2>1. CASE handler[t] = "lookup" /\ now' = now
    <3>1. cachedAt # 0 /\ now < cachedAt + TTL + Timeout
      BY <1>2, <2>1 DEF TimesOK, CacheTimes
    <3> QED BY <2>1, <3>1, CacheMoves, Numbers
  <2>2. CASE Cached /\ UNCHANGED <<now, cachedAt>>
    <3>1. lastFetch # 0 /\ now - lastFetch < TTL
      BY <2>2 DEF Cached
    <3>2. cachedAt # 0 /\ lastFetch <= cachedAt + Timeout
      BY <3>1 DEF TimesOK, CacheTimes
    <3> QED BY <2>2, <3>1, <3>2, Numbers
  <2>3. CASE cachedAt # 0 /\ now <= cachedAt + Timeout /\ UNCHANGED <<now, cachedAt>>
    BY <2>3, Numbers
  <2> QED BY <1>2, <2>1, <2>2, <2>3, LookupMoves
<1>3. \/ lastFetch' = lastFetch /\ now' \in {now, now + 1}
      \/ lastFetch' = now /\ cachedAt # 0 /\ now <= cachedAt + Timeout /\ UNCHANGED <<now, cachedAt>>
  <2>1. ASSUME NEW u \in Tasks, StampFetch(u)
        PROVE  lastFetch' = now /\ cachedAt # 0 /\ now <= cachedAt + Timeout /\ UNCHANGED <<now, cachedAt>>
    BY <2>1 DEF StampFetch, TimesOK, FetchTimes, Fetchers
  <2> QED BY <1>0, <2>1, Recipients DEF Next, KeyStep, AgentStep, ClientStep, HandlerStep, Tick,
      GenerateKeyPair, SetKeyID, AddKey, Restart,
      StartPeriodicRefresh, RefreshJWKS, sendMessage, StreamMessage, TrackTask,
      SetPushNotification, sendPushNotification, SendPushNotification, CallerLeaves, ServeHTTP, FetchFails,
      InstallKeys, Verify, HandleJWKS, vars, receiver
<1>4. lastFetch' <= now' /\ (lastFetch' # 0 => cachedAt' # 0 /\ lastFetch' <= cachedAt' + Timeout)
  <2>1. lastFetch <= now /\ (lastFetch # 0 => cachedAt # 0 /\ lastFetch <= cachedAt + Timeout)
    BY DEF TimesOK, CacheTimes
  <2>2. CASE lastFetch' = lastFetch /\ now' \in {now, now + 1}
    BY <2>1, <2>2, CacheMoves, Numbers
  <2>3. CASE lastFetch' = now /\ cachedAt # 0 /\ now <= cachedAt + Timeout /\ UNCHANGED <<now, cachedAt>>
    BY <2>3, Numbers
  <2> QED BY <1>3, <2>2, <2>3
<1> QED BY <1>1, <1>2, <1>4 DEF CacheTimes

LEMMA TimesNext == Typed /\ TimesOK /\ [Next]_vars => TimesOK'
  BY FetchTimesNext, CacheTimesNext DEF TimesOK

-----------------------------------------------------------------------------
(* The invariant *)

LEMMA InitIInv == Init => IInv
<1> SUFFICES ASSUME Init PROVE IInv
  OBVIOUS
<1>1. Typed
  BY InitTyped
<1>2. KeysOK
  <2>1. /\ generating = "start" /\ privateKey = 0 /\ keySet = <<>>
        /\ published = [p \in Pairs |-> Unpublished]
    BY DEF Init
  <2>2. 0 \in Pairs
    BY Constants DEF Pairs
  <2> QED BY <2>1, <2>2, Constants DEF KeysOK
<1>3. /\ cache = <<>> /\ cachedAt = 0 /\ lastFetch = 0 /\ now = 1
      /\ \A f \in Fetchers : \/ fetch[f] = NoFetch
                             \/ fetch[f] = Requesting
  BY DEF Init, Requesting
<1>4. now \in Times
  BY <1>1 DEF Typed, TypeOK
<1>5. SetsOK
  <2>1. Served(<<>>, 0, now, published)
    BY <1>1, <1>2, NoneServed
  <2>2. \A f \in Fetchers : fetch[f].keys = <<>> /\ fetch[f].served = 0
    BY <1>3, <1>4, NoFetchTyped, RequestingTyped
  <2> QED BY <1>3, <2>1, <2>2 DEF SetsOK
<1>6. TimesOK
  <2>1. \A f \in Fetchers : \/ fetch[f].at = "no"
                            \/ fetch[f].at = "request" /\ fetch[f].since = now
    BY <1>3, <1>4, NoFetchTyped, RequestingTyped
  <2>2. \A t \in Tasks : handler[t] # "lookup"
    BY DEF Init
  <2>3. \A f \in Fetchers : FetchTimes(f)
    BY <1>3, <2>1, Constants DEF FetchTimes
  <2>4. CacheTimes
    BY <1>3, <2>2 DEF CacheTimes
  <2> QED BY <2>3, <2>4 DEF TimesOK
<1> QED BY <1>1, <1>2, <1>5, <1>6 DEF IInv

LEMMA NextIInv == IInv /\ [Next]_vars => IInv'
  BY TypedNext, KeysNext, SetsNext, TimesNext DEF IInv
-----------------------------------------------------------------------------
(* The verdicts *)

(* A set of numbers that holds one has a least one. *)
LEMMA LeastNumber ==
    ASSUME NEW S, S \subseteq Nat, S # {}
    PROVE  Min(S) \in S
<1> DEFINE R == {ss \in Nat \X Nat : ss[1] < ss[2]}
<1>1. IsWellFoundedOn(R, Nat)
  BY NatLessThanWellFounded DEF OpToRel
<1>2. PICK x \in S : \A y \in S : ~ (<<y, x>> \in R)
  <2> HIDE DEF R
  <2> QED BY <1>1, WFMin
<1>3. ASSUME NEW y \in S PROVE x <= y
  <2>1. <<y, x>> \in Nat \X Nat /\ <<y, x>>[1] = y /\ <<y, x>>[2] = x
    OBVIOUS
  <2>2. ~(y < x)
    BY <1>2, <2>1
  <2> QED BY <2>2
<1> QED BY <1>3 DEF Min

(* The key a token is verified with is one of the cache. *)
LEMMA FoundKey ==
    ASSUME Typed, NEW t \in Tasks, ~Missing(t)
    PROVE  \E i \in 1..Len(cache) :
              cache[i].kid = token[t].kid /\ (Signed(t) <=> cache[i].pair = token[t].pair)
<1> DEFINE i == Min(LookupKeyID(token[t].kid))
<1>1. Len(cache) \in Nat
  BY DEF Typed, TypeOK
<1>2. LookupKeyID(token[t].kid) \subseteq Nat /\ LookupKeyID(token[t].kid) # {}
  BY <1>1 DEF LookupKeyID, Missing
<1>3. i \in LookupKeyID(token[t].kid)
  BY <1>2, LeastNumber
<1>4. i \in 1..Len(cache) /\ cache[i].kid = token[t].kid
  BY <1>3 DEF LookupKeyID
<1> QED BY <1>4 DEF Signed

(* What is signed by a key of the cache is signed by a pair that was served    *)
(* when the cache was.                                                       *)
LEMMA SignedWasServed ==
    ASSUME IInv, NEW t \in Tasks, ~Missing(t), Signed(t)
    PROVE  /\ published[token[t].pair] # Unpublished
           /\ published[token[t].pair].from <= cachedAt
           /\ cachedAt <= published[token[t].pair].to
<1>1. PICK i \in 1..Len(cache) : cache[i].pair = token[t].pair
  BY FoundKey DEF IInv
<1> QED BY <1>1 DEF IInv, SetsOK, Served

(* A well-made token of a pair that was served before and after the cache was  *)
(* finds its key there.                                                      *)
LEMMA ServedIsFound ==
    ASSUME IInv, NEW t \in Tasks, WellMade(t),
           published[token[t].pair] # Unpublished,
           published[token[t].pair].from < cachedAt, cachedAt < published[token[t].pair].to
    PROVE  ~Missing(t) /\ Signed(t)
<1>0. Typed /\ token[t].pair \in Pairs /\ published[0] = Unpublished /\ cache \in Seq(Key)
  BY DEF IInv, Typed, TypeOK, KeysOK
<1>1. ASSUME NEW i \in 1..Len(cache)
      PROVE  /\ cache[i].pair \in Pairs \ {0}
             /\ published[cache[i].pair] # Unpublished
             /\ published[cache[i].pair].kid = cache[i].kid
  <2>1. cache[i] \in Key
    BY <1>0
  <2> QED BY <2>1 DEF Key, IInv, SetsOK, Served
<1>2. published[token[t].pair].kid = token[t].kid
  BY <1>0 DEF WellMade
<1>3. ~Missing(t)
  <2>1. token[t].pair \in Held(cache)
    BY <1>0 DEF IInv, SetsOK, Served
  <2>2. PICK i \in 1..Len(cache) : cache[i].pair = token[t].pair
    BY <2>1 DEF Held
  <2>3. cache[i].kid = token[t].kid
    BY <1>1, <1>2, <2>2
  <2> QED BY <2>3 DEF Missing, LookupKeyID
<1>4. Signed(t)
  <2>1. PICK i \in 1..Len(cache) :
            cache[i].kid = token[t].kid /\ (Signed(t) <=> cache[i].pair = token[t].pair)
    BY <1>0, <1>3, FoundKey
  <2> QED BY <1>1, <2>1 DEF WellMade
<1> QED BY <1>3, <1>4

Limit == IF verifier = "library" THEN MaxAge ELSE 2 * MaxAge

(* Where a verdict other than that no keys came is from. *)
LEMMA VerdictMoves ==
    ASSUME Typed, [Next]_vars, NEW t \in Tasks, handler'[t] # handler[t],
           handler'[t] \in {"ok", "key", "signature", "age"}
    PROVE  /\ handler[t] = "lookup"
           /\ handler'[t] = "ok" => ~Missing(t) /\ Signed(t) /\ now - token[t].iat <= Limit
           /\ handler'[t] \in {"key", "signature"} => Missing(t) \/ ~Signed(t)
           /\ handler'[t] = "age" => now - token[t].iat > Limit
<1>0. ReceiverTyped /\ verifier \in DOMAIN Receivers
  BY TypedParts DEF ClockTyped
<1>1. Verify(t)
  <2>1. ASSUME NEW u \in Tasks, ServeHTTP(u) \/ FetchFails(u) \/ InstallKeys(u) \/ StampFetch(u)
        PROVE  FALSE
    BY <1>0, <2>1 DEF ServeHTTP, FetchKeys, FetchFails, Decided, InstallKeys, StampFetch, ReceiverTyped
  <2>2. ASSUME NEW u \in Tasks, Verify(u) PROVE u = t
    BY <1>0, <2>2 DEF Verify, Decided, ReceiverTyped
  <2> QED BY <1>0, <2>1, <2>2, Recipients DEF Next, KeyStep, AgentStep, ClientStep, HandlerStep, Tick,
        GenerateKeyPair, SetKeyID, AddKey, Restart, StartPeriodicRefresh, RefreshJWKS, sendMessage,
        StreamMessage, TrackTask, SetPushNotification, sendPushNotification,
        SendPushNotification, CallerLeaves, HandleJWKS, vars, receiver
<1>2. now \in Nat /\ token[t].iat \in Nat /\ MaxAge \in Nat
  BY Constants DEF Typed, TypeOK, Times
<1>3. CASE verifier = "library"
  <2>1. handler'[t] = VerifyPushNotification(t)
    BY <1>0, <1>1, <1>3 DEF Verify, Decided, ReceiverTyped
  <2>2. Limit = MaxAge
    BY <1>3 DEF Limit
  <2> QED BY <1>1, <1>2, <2>1, <2>2 DEF Verify, VerifyPushNotification, Age
<1>4. CASE verifier # "library"
  <2>1. handler'[t] = verifyJWT(t)
    BY <1>0, <1>1, <1>4 DEF Verify, Decided, ReceiverTyped
  <2>2. Limit = 2 * MaxAge
    BY <1>4 DEF Limit
  <2> QED BY <1>1, <1>2, <2>1, <2>2 DEF Verify, verifyJWT, SecondTry, ClaimsOf, Age
<1> QED BY <1>3, <1>4

(* A step gives no verdict that is wrong. *)
LEMMA VerdictStep ==
    ASSUME IInv, [Next]_vars, NEW t \in Tasks, handler'[t] # handler[t]
    PROVE  /\ handler'[t] = "ok" =>
                 /\ published[token[t].pair] # Unpublished
                 /\ published[token[t].pair].from <= cachedAt
                 /\ cachedAt <= published[token[t].pair].to
                 /\ now - token[t].iat <= Limit
           /\ handler'[t] \in {"key", "signature"} /\ WellMade(t) =>
                 \/ published[token[t].pair] = Unpublished
                 \/ cachedAt <= published[token[t].pair].from
                 \/ cachedAt >= published[token[t].pair].to
           /\ handler'[t] = "age" => now - token[t].iat > Limit
           /\ verifier = "library" /\ handler'[t] \in {"ok", "key", "signature", "age"} =>
                 cachedAt # 0 /\ now - cachedAt < TTL + Timeout
<1> SUFFICES ASSUME handler'[t] \in {"ok", "key", "signature", "age"}
             PROVE  /\ handler'[t] = "ok" =>
                         /\ published[token[t].pair] # Unpublished
                         /\ published[token[t].pair].from <= cachedAt
                         /\ cachedAt <= published[token[t].pair].to
                         /\ now - token[t].iat <= Limit
                    /\ handler'[t] \in {"key", "signature"} /\ WellMade(t) =>
                         \/ published[token[t].pair] = Unpublished
                         \/ cachedAt <= published[token[t].pair].from
                         \/ cachedAt >= published[token[t].pair].to
                    /\ handler'[t] = "age" => now - token[t].iat > Limit
                    /\ verifier = "library" => cachedAt # 0 /\ now - cachedAt < TTL + Timeout
  OBVIOUS
<1>0. Typed
  BY DEF IInv
<1>1. /\ handler[t] = "lookup"
      /\ handler'[t] = "ok" => ~Missing(t) /\ Signed(t) /\ now - token[t].iat <= Limit
      /\ handler'[t] \in {"key", "signature"} => Missing(t) \/ ~Signed(t)
      /\ handler'[t] = "age" => now - token[t].iat > Limit
  BY <1>0, VerdictMoves
<1>2. ASSUME handler'[t] = "ok"
      PROVE  /\ published[token[t].pair] # Unpublished
             /\ published[token[t].pair].from <= cachedAt
             /\ cachedAt <= published[token[t].pair].to
             /\ now - token[t].iat <= Limit
  BY <1>1, <1>2, SignedWasServed
<1>3. ASSUME handler'[t] \in {"key", "signature"}, WellMade(t)
      PROVE  \/ published[token[t].pair] = Unpublished
             \/ cachedAt <= published[token[t].pair].from
             \/ cachedAt >= published[token[t].pair].to
  <2>1. /\ published[token[t].pair].from \in Nat /\ published[token[t].pair].to \in Nat
        /\ cachedAt \in Nat
    <3>1. token[t].pair \in Pairs
      BY <1>0 DEF Typed, TypeOK
    <3>2. published \in [Pairs -> [kid : Times, from : Times, to : Times]]
      BY <1>0, TypedParts DEF SignerTyped
    <3>3. published[token[t].pair] \in [kid : Times, from : Times, to : Times]
      BY <3>1, <3>2
    <3>4. cachedAt \in Nat
      BY <1>0, Numbers
    <3> QED BY <3>3, <3>4 DEF Times
  <2> QED BY <1>1, <1>3, <2>1, ServedIsFound
<1>4. ASSUME verifier = "library" PROVE cachedAt # 0 /\ now - cachedAt < TTL + Timeout
  <2>1. cachedAt # 0 /\ now < cachedAt + TTL + Timeout
    BY <1>1, <1>4 DEF IInv, TimesOK, CacheTimes
  <2> QED BY <1>0, <2>1, Numbers
<1> QED BY <1>1, <1>2, <1>3, <1>4

-----------------------------------------------------------------------------
(* The theorems *)

(* The clocks, keys, fetches and tasks agree with each other throughout. *)
THEOREM NotificationInvariant == SafeSpec => []IInv
<1>1. Init => IInv
  BY InitIInv
<1>2. IInv /\ [Next]_vars => IInv'
  BY NextIInv
<1> QED BY <1>1, <1>2, PTL DEF SafeSpec

(* Every variable of the notifications keeps its type. *)
THEOREM NotificationsTypeCorrect == SafeSpec => []TypeOK
<1>1. IInv => TypeOK
  BY DEF IInv, Typed
<1> QED BY <1>1, NotificationInvariant, PTL

(* Whatever fetches, rotations and restarts go on beside it, a notification is *)
(* accepted only for a key that was served when the cache was filled and while *)
(* it is young, a well-made one is refused for its key only if that key came   *)
(* or went since, and the library judges by keys no older than its cache may   *)
(* be (verify and FetchKeys of auth/push_notification.go, verifyJWT of the     *)
(* webhook).                                                                 *)
THEOREM VerdictsRight == SafeSpec => VerdictsAreRight
<1>1. IInv /\ [Next]_vars =>
        [\A t \in Tasks :
            LET why == handler'[t]
                pair == published[token[t].pair]
                age == now - token[t].iat
                limit == IF verifier = "library" THEN MaxAge ELSE 2 * MaxAge
            IN  why # handler[t] =>
                /\ why = "ok" =>
                      /\ pair # Unpublished /\ pair.from <= cachedAt /\ cachedAt <= pair.to
                      /\ age <= limit
                /\ why \in {"key", "signature"} /\ WellMade(t) =>
                      pair = Unpublished \/ cachedAt <= pair.from \/ cachedAt >= pair.to
                /\ why = "age" => age > limit
                /\ verifier = "library" /\ why \in {"ok", "key", "signature", "age"} =>
                      cachedAt # 0 /\ now - cachedAt < TTL + Timeout]_vars
  BY VerdictStep DEF Limit
<1> QED BY <1>1, NotificationInvariant, PTL DEF SafeSpec, VerdictsAreRight

-----------------------------------------------------------------------------
(* The inductive invariant of the text processing agent. *)

(* What was typed in the context is enough for an artifact made in this mode. *)
MultiTyped(c) == \E i \in 1..typed[c] : script[c][i] = "multi"
Made(m) == artifact[m] \in {m[2], Reverse} \/ MultiTyped(m[1])
SessionOK(s, c) == s.stage = 1 \/ (s.stage = 2 /\ s.mode # Reverse) => MultiTyped(c)

ModesOK ==
    /\ \A c \in Contexts : SessionOK(sessions[c], c)
    /\ \A m \in Messages : SessionOK(session[m], m[1])

(* A message is worked on after it was typed and until its task is to change no *)
(* more; and a task is removed with its subscribers.                          *)
Past(m) == at[m] \in {"store", "done"}

TurnTyped(m) ==
    /\ at[m] # "none" => m[2] <= typed[m[1]]
    /\ at[m] \notin {"none", "done"} => task[m] # "none"
    /\ task[m] = "removed" => closed[m]

(* How much of an answer is in the queue, and what an event of it says. *)
Room(m) ==
    /\ at[m] \in {"none", "async"} => queue[m] = <<>>
    /\ at[m] \in {"decide", "turn", "new", "prompt"} => Len(queue[m]) <= 1
    /\ at[m] = "complete" => Len(queue[m]) <= 2

ShownBefore(m, i) == got[m] \/ \E j \in 1..(i - 1) : queue[m][j] = "artifact"

EventOK(m, i) ==
    /\ queue[m][i] = "artifact" => Made(m)
    /\ queue[m][i] = "input" => Past(m) /\ task[m] \in {"input", "removed"}
    /\ queue[m][i] = "canceled" => Past(m) /\ task[m] \in {"canceled", "removed"}
    /\ queue[m][i] = "completed" =>
          Past(m) /\ task[m] \in {"completed", "removed"} /\ ShownBefore(m, i)

(* And what the client was told before it. *)
ToldOK(m) ==
    /\ got[m] => Made(m)
    /\ told[m] = "final" => Past(m) /\ (task[m] = "completed" => got[m])
    /\ told[m] = "prompted" => Past(m) /\ task[m] \in {"input", "removed"}
    /\ at[m] = "complete" /\ Subscribed(m) => ShownBefore(m, Len(queue[m]) + 1)

AnswerOK(m) ==
    TurnTyped(m) /\ Room(m) /\ ToldOK(m) /\ \A i \in 1..Len(queue[m]) : EventOK(m, i)

(* In an orderly context one message is worked on at most, the last one, and it *)
(* takes the session from what it was before to what the dialogue says.         *)
Before(c) == After(script[c], typed[c] - 1)

TurnOK(m, c) ==
    /\ m[2] = typed[c]
    /\ at[m] \in {"async", "decide", "turn", "new"} => sessions[c] = Before(c)
    /\ at[m] = "turn" => session[m] = Before(c) /\ Open(Before(c))
    /\ at[m] = "new" => ~Open(Before(c))
    /\ at[m] = "prompt" => sessions[c] = Dialogue(c)
    /\ at[m] = "store" => session[m] = Dialogue(c)
    /\ at[m] = "complete" =>
          IF session[m].stage = 3 THEN session[m] = Dialogue(c) ELSE sessions[c] = Dialogue(c)

DialogueOK(c) ==
    orderly[c] =>
        /\ Running(c) = {} => sessions[c] = Dialogue(c)
        /\ \A m \in Running(c) : TurnOK(m, c)

AgentIInv ==
    /\ AgentTypeOK /\ ModesOK
    /\ \A m \in Messages : AnswerOK(m)
    /\ \A c \in Contexts : DialogueOK(c)

-----------------------------------------------------------------------------
(* The dialogue, message by message. *)

LEMMA MessageFacts ==
    ASSUME NEW m \in Messages
    PROVE  m[1] \in Contexts /\ m[2] \in 1..Longest /\ m = <<m[1], m[2]>>
  BY DEF Messages

LEMMA MessagesEqual ==
    ASSUME NEW m \in Messages, NEW n \in Messages, m[1] = n[1], m[2] = n[2]
    PROVE  m = n
  BY MessageFacts

(* What holds of the first number and of the next one of each holds of them all. *)
LEMMA AllUpTo ==
    ASSUME NEW n \in Nat, NEW P, 0 \in P, \A i \in P : i \in Nat /\ i < n => i + 1 \in P
    PROVE  n \in P
<1> SUFFICES ASSUME n \notin P PROVE FALSE
  OBVIOUS
<1> DEFINE Q == {i \in 0..n : i \notin P}
<1>1. PICK k \in Q : \A j \in Q : ~ (<<j, k>> \in OpToRel(<, Nat))
  <2>1. Q \subseteq Nat /\ Q # {}
    OBVIOUS
  <2> HIDE DEF Q
  <2> QED BY <2>1, NatLessThanWellFounded, WFMin, Zenon
<1>2. k \in Nat /\ k # 0 /\ k <= n /\ k - 1 \in Nat /\ k - 1 < k /\ (k - 1) + 1 = k
  OBVIOUS
<1>3. k - 1 \notin Q
  <2> HIDE DEF Q
  <2>1. k - 1 \in Q => <<k - 1, k>> \in OpToRel(<, Nat)
    BY <1>2 DEF OpToRel
  <2> QED BY <1>1, <2>1
<1>4. k - 1 \in P /\ k - 1 < n
  BY <1>2, <1>3
<1>5. k \in P
  <2>1. (k - 1) + 1 \in P
    BY <1>2, <1>4
  <2> QED BY <1>2, <2>1
<1> QED BY <1>5

(* The sessions of a dialogue follow one another as its texts say. *)
LEMMA AfterFacts ==
    ASSUME NEW texts
    PROVE  /\ After(texts, 0) = NoSession
           /\ \A i \in 1..Longest : After(texts, i) = Turned(After(texts, i - 1), i, texts[i])
<1> DEFINE Step(h) == [i \in 0..Longest |-> IF i = 0 THEN NoSession ELSE Turned(h[i - 1], i, texts[i])]
           Upto(h, n) == h[0] = NoSession /\ \A i \in 1..n : h[i] = Turned(h[i - 1], i, texts[i])
           P == {n \in Nat : \E h : Upto(h, n)}
           after == CHOOSE h : h = Step(h)
<1>1. Longest \in Nat
  BY ScriptsAssumption
<1>2. \A n : After(texts, n) = after[n]
  BY DEF After
<1>3. 0 \in P
  <2>1. Upto([i \in {0} |-> NoSession], 0)
    OBVIOUS
  <2> QED BY <2>1
<1>4. ASSUME NEW n \in P PROVE n + 1 \in P
  <2>1. n \in Nat
    OBVIOUS
  <2>2. PICK h : Upto(h, n)
    OBVIOUS
  <2> DEFINE g == [i \in 0..(n + 1) |-> IF i = n + 1 THEN Turned(h[n], n + 1, texts[n + 1]) ELSE h[i]]
  <2>3. g[0] = NoSession
    BY <2>1, <2>2
  <2>4. ASSUME NEW i \in 1..(n + 1) PROVE g[i] = Turned(g[i - 1], i, texts[i])
    <3>1. i - 1 \in 0..(n + 1) /\ i - 1 # n + 1 /\ i \in 0..(n + 1)
      BY <2>1
    <3>2. g[i - 1] = h[i - 1]
      BY <3>1
    <3>3. CASE i = n + 1
      <4>1. i - 1 = n
        BY <2>1, <3>3
      <4>2. g[i] = Turned(h[n], n + 1, texts[n + 1])
        BY <3>1, <3>3
      <4> HIDE DEF g
      <4> QED BY <3>2, <3>3, <4>1, <4>2
    <3>4. CASE i # n + 1
      <4>1. i \in 1..n /\ g[i] = h[i]
        BY <2>1, <3>1, <3>4
      <4> HIDE DEF g
      <4> QED BY <2>2, <3>2, <4>1
    <3> QED BY <3>3, <3>4
  <2>5. Upto(g, n + 1)
    <3> HIDE DEF g
    <3> QED BY <2>3, <2>4
  <2> HIDE DEF Upto, g
  <2> QED BY <2>1, <2>5
<1>5. Longest \in P
  <2> HIDE DEF P
  <2> QED BY <1>1, <1>3, <1>4, AllUpTo
<1>6. PICK h : Upto(h, Longest)
  BY <1>5
<1> DEFINE f == [i \in 0..Longest |-> h[i]]
<1>7. f = Step(f)
  <2>1. ASSUME NEW i \in 0..Longest PROVE f[i] = Step(f)[i]
    <3>1. CASE i = 0
      BY <1>6, <3>1
    <3>2. CASE i # 0
      <4>1. i \in 1..Longest /\ i - 1 \in 0..Longest
        BY <1>1, <3>2
      <4>2. f[i] = h[i] /\ f[i - 1] = h[i - 1]
        BY <4>1
      <4>3. Step(f)[i] = Turned(f[i - 1], i, texts[i])
        <5> HIDE DEF f
        <5> QED BY <3>2
      <4> HIDE DEF f, Step
      <4> QED BY <1>6, <4>1, <4>2, <4>3
    <3> QED BY <3>1, <3>2
  <2>2. f = [i \in 0..Longest |-> f[i]] /\ Step(f) = [i \in 0..Longest |-> Step(f)[i]]
    OBVIOUS
  <2> HIDE DEF f, Step
  <2> QED BY <2>1, <2>2
<1>8. after = Step(after)
  <2> HIDE DEF f, Step
  <2> QED BY <1>7
<1>9. \A i \in 0..Longest : after[i] = Step(after)[i]
  <2> HIDE DEF after, Step
  <2> QED BY <1>8
<1> HIDE DEF after
<1>10. after[0] = NoSession
  <2>1. 0 \in 0..Longest
    BY <1>1
  <2> QED BY <1>9, <2>1
<1>11. \A i \in 1..Longest : after[i] = Turned(after[i - 1], i, texts[i])
  <2> TAKE i \in 1..Longest
  <2>1. i \in 0..Longest /\ i # 0
    BY <1>1
  <2>2. Step(after)[i] = Turned(after[i - 1], i, texts[i])
    BY <2>1
  <2> HIDE DEF Step
  <2> QED BY <1>9, <2>1, <2>2
<1> QED BY <1>2, <1>10, <1>11

LEMMA DialogueSteps ==
    ASSUME AgentTypeOK, NEW c \in Contexts
    PROVE  /\ typed[c] = 0 => Dialogue(c) = NoSession
           /\ typed[c] # 0 =>
                 /\ typed[c] \in 1..Longest
                 /\ Dialogue(c) = Turned(Before(c), typed[c], script[c][typed[c]])
<1>1. Longest \in Nat /\ typed[c] \in 0..Longest
  BY ScriptsAssumption DEF AgentTypeOK
<1> QED BY <1>1, AfterFacts DEF Dialogue, Before

LEMMA Sessions ==
    /\ NoSession \in Session /\ ~Open(NoSession) /\ NoSession.stage = 0
    /\ Reverse \in Modes /\ NoMode \in Modes /\ \A i \in 1..Longest : i \in Modes
  BY ScriptsAssumption DEF NoSession, Session, Open, Modes, NoMode, Reverse

-----------------------------------------------------------------------------
(* What a step leaves alone: the messages it does not touch, and the contexts. *)

Same(n) ==
    /\ at'[n] = at[n] /\ session'[n] = session[n] /\ task'[n] = task[n]
    /\ artifact'[n] = artifact[n] /\ queue'[n] = queue[n] /\ closed'[n] = closed[n]
    /\ forward'[n] = forward[n] /\ told'[n] = told[n] /\ got'[n] = got[n]

Typing == script' = script /\ \A c \in Contexts : typed[c] <= typed'[c]

LEMMA MultiStays ==
    ASSUME AgentTypeOK, AgentTypeOK', Typing, NEW c \in Contexts, MultiTyped(c)
    PROVE  MultiTyped(c)'
<1>1. typed[c] \in Nat /\ typed'[c] \in Nat /\ typed[c] <= typed'[c]
  BY DEF AgentTypeOK, Typing
<1> QED BY <1>1 DEF MultiTyped, Typing

LEMMA MadeStays ==
    ASSUME AgentTypeOK, AgentTypeOK', Typing, NEW m \in Messages, artifact'[m] = artifact[m], Made(m)
    PROVE  Made(m)'
  BY MessageFacts, MultiStays DEF Made

LEMMA OthersKept ==
    ASSUME AgentTypeOK, AgentTypeOK', Typing, NEW n \in Messages, AnswerOK(n), Same(n)
    PROVE  AnswerOK(n)'
<1>1. n[1] \in Contexts /\ n[2] \in 1..Longest
  BY MessageFacts
<1>2. TurnTyped(n)'
  <2>1. typed[n[1]] \in Nat /\ typed'[n[1]] \in Nat /\ typed[n[1]] <= typed'[n[1]]
    BY <1>1 DEF AgentTypeOK, Typing
  <2> QED BY <1>1, <2>1 DEF AnswerOK, TurnTyped, Same
<1>3. Room(n)'
  BY DEF AnswerOK, Room, Same
<1>4. ToldOK(n)'
  BY MadeStays DEF AnswerOK, ToldOK, Same, Past, Subscribed, ShownBefore
<1>5. \A i \in 1..Len(queue[n]) : EventOK(n, i)'
  BY MadeStays DEF AnswerOK, EventOK, Same, Past, ShownBefore
<1> QED BY <1>2, <1>3, <1>4, <1>5 DEF AnswerOK, Same

LEMMA ModesKept ==
    ASSUME AgentTypeOK, AgentTypeOK', Typing, ModesOK,
           \A c \in Contexts : sessions'[c] = sessions[c] \/ SessionOK(sessions[c], c)',
           \A m \in Messages : session'[m] = session[m] \/ SessionOK(session[m], m[1])'
    PROVE  ModesOK'
<1>1. \A c \in Contexts : SessionOK(sessions[c], c)'
  BY MultiStays DEF ModesOK, SessionOK
<1>2. \A m \in Messages : SessionOK(session[m], m[1])'
  BY MultiStays, MessageFacts DEF ModesOK, SessionOK
<1> QED BY <1>1, <1>2 DEF ModesOK

LEMMA DialogueKept ==
    ASSUME NEW c \in Contexts, DialogueOK(c), script' = script, typed'[c] = typed[c],
           sessions'[c] = sessions[c], orderly'[c] => orderly[c],
           \A n \in Messages : n[1] = c => at'[n] = at[n] /\ session'[n] = session[n]
    PROVE  DialogueOK(c)'
<1> SUFFICES ASSUME orderly'[c]
             PROVE  /\ Running(c)' = {} => sessions'[c] = Dialogue(c)'
                    /\ \A m \in Running(c)' : TurnOK(m, c)'
  BY DEF DialogueOK
<1>1. Running(c)' = Running(c)
  BY DEF Running
<1>2. Dialogue(c)' = Dialogue(c) /\ Before(c)' = Before(c)
  BY DEF Dialogue, Before
<1>3. ASSUME NEW m \in Running(c) PROVE TurnOK(m, c)'
  <2>1. m \in Messages /\ m[1] = c /\ TurnOK(m, c)
    BY <1>3 DEF Running, DialogueOK
  <2> QED BY <1>2, <2>1 DEF TurnOK
<1> QED BY <1>1, <1>2, <1>3 DEF DialogueOK

(* A message that is worked on goes on, alone. *)
LEMMA DialogueGoesOn ==
    ASSUME AgentTypeOK, NEW m \in Messages, NEW c \in Contexts, m[1] = c,
           DialogueOK(c), at[m] \notin {"none", "done"}, at'[m] # "none",
           script' = script, typed' = typed, orderly'[c] => orderly[c],
           \A n \in Messages : n # m => at'[n] = at[n] /\ session'[n] = session[n],
           orderly'[c] /\ TurnOK(m, c) /\ at'[m] # "done" => TurnOK(m, c)',
           orderly'[c] /\ TurnOK(m, c) /\ at'[m] = "done" => sessions'[c] = Dialogue(c)
    PROVE  DialogueOK(c)'
<1> SUFFICES ASSUME orderly'[c]
             PROVE  /\ Running(c)' = {} => sessions'[c] = Dialogue(c)'
                    /\ \A n \in Running(c)' : TurnOK(n, c)'
  BY DEF DialogueOK
<1>1. m \in Running(c) /\ TurnOK(m, c)
  BY DEF Running, DialogueOK
<1>2. \A n \in Running(c) : n = m
  <2> TAKE n \in Running(c)
  <2>1. n \in Messages /\ n[1] = c /\ n[2] = typed[c] /\ m[2] = typed[c]
    BY <1>1 DEF Running, DialogueOK, TurnOK
  <2> QED BY <2>1, MessagesEqual
<1>3. \A n \in Running(c)' : n = m /\ at'[m] # "done"
  BY <1>2 DEF Running
<1>4. Dialogue(c)' = Dialogue(c)
  BY DEF Dialogue
<1>5. CASE at'[m] = "done"
  BY <1>1, <1>3, <1>4, <1>5
<1>6. CASE at'[m] # "done"
  <2>1. m \in Running(c)'
    BY <1>6 DEF Running
  <2>2. TurnOK(m, c)'
    BY <1>1, <1>6
  <2> QED BY <1>3, <2>1, <2>2
<1> QED BY <1>5, <1>6

-----------------------------------------------------------------------------
(* What the task manager does with a status and with an artifact. *)

Statuses == {"working", "input", "completed", "canceled"}

LEMMA StatusFacts ==
    ASSUME AgentTypeOK, NEW m \in Messages, NEW status \in Statuses, UpdateTaskState(m, status)
    PROVE  /\ task' \in [Messages -> States]
           /\ queue' \in [Messages -> Seq(Events)]
           /\ closed' \in [Messages -> BOOLEAN]
           /\ \A n \in Messages : n # m =>
                 task'[n] = task[n] /\ queue'[n] = queue[n] /\ closed'[n] = closed[n]
           /\ Stored(m) => task'[m] = status /\ (closed[m] => closed'[m])
           /\ ~Stored(m) => task'[m] = task[m] /\ closed'[m] = closed[m]
           /\ Stored(m) /\ Subscribed(m) => queue'[m] = Append(queue[m], status)
           /\ ~Stored(m) \/ ~Subscribed(m) => queue'[m] = queue[m]
<1>1. status \in Events /\ status \in States
  BY DEF Statuses, Events, States
<1>2. CASE ~Stored(m)
  BY <1>2 DEF UpdateTaskState, AgentTypeOK
<1>3. CASE Stored(m)
  <2>1. /\ task' = [task EXCEPT ![m] = status] /\ Notify(m, status)
        /\ closed' = [closed EXCEPT ![m] = @ \/ status \in {"completed", "canceled"}]
    BY <1>3 DEF UpdateTaskState
  <2>2. /\ task' \in [Messages -> States] /\ task'[m] = status
        /\ \A n \in Messages : n # m => task'[n] = task[n]
    BY <1>1, <2>1 DEF AgentTypeOK
  <2>3. /\ closed' \in [Messages -> BOOLEAN] /\ (closed[m] => closed'[m])
        /\ \A n \in Messages : n # m => closed'[n] = closed[n]
    BY <2>1 DEF AgentTypeOK
  <2>4. /\ queue' \in [Messages -> Seq(Events)]
        /\ \A n \in Messages : n # m => queue'[n] = queue[n]
        /\ Subscribed(m) => queue'[m] = Append(queue[m], status)
        /\ ~Subscribed(m) => queue'[m] = queue[m]
    BY <1>1, <2>1 DEF Notify, AgentTypeOK
  <2> QED BY <1>3, <2>2, <2>3, <2>4
<1> QED BY <1>2, <1>3

LEMMA ArtifactFacts ==
    ASSUME AgentTypeOK, NEW m \in Messages, NEW mode \in Modes, AddArtifact(m, mode)
    PROVE  /\ artifact' \in [Messages -> Modes]
           /\ queue' \in [Messages -> Seq(Events)]
           /\ \A n \in Messages : n # m => artifact'[n] = artifact[n] /\ queue'[n] = queue[n]
           /\ Stored(m) => artifact'[m] = mode
           /\ ~Stored(m) => artifact'[m] = artifact[m]
           /\ Stored(m) /\ Subscribed(m) => queue'[m] = Append(queue[m], "artifact")
           /\ ~Stored(m) \/ ~Subscribed(m) => queue'[m] = queue[m]
<1>1. "artifact" \in Events
  BY DEF Events
<1>2. CASE ~Stored(m)
  BY <1>2 DEF AddArtifact, AgentTypeOK
<1>3. CASE Stored(m)
  <2>1. artifact' = [artifact EXCEPT ![m] = mode] /\ Notify(m, "artifact")
    BY <1>3 DEF AddArtifact
  <2>2. /\ queue' \in [Messages -> Seq(Events)]
        /\ \A n \in Messages : n # m => queue'[n] = queue[n]
        /\ Subscribed(m) => queue'[m] = Append(queue[m], "artifact")
        /\ ~Subscribed(m) => queue'[m] = queue[m]
    BY <1>1, <2>1 DEF Notify, AgentTypeOK
  <2> QED BY <1>3, <2>1, <2>2 DEF AgentTypeOK
<1> QED BY <1>2, <1>3

(* The last status of a turn, in the queue behind the artifact if it completes it. *)
LEMMA LastStatusKept ==
    ASSUME AgentTypeOK, AgentTypeOK', NEW m \in Messages, AnswerOK(m), Typing,
           NEW status \in {"input", "completed", "canceled"}, UpdateTaskState(m, status),
           at[m] \in {"turn", "new", "prompt", "complete"},
           status = "completed" => at[m] = "complete", Past(m)',
           UNCHANGED <<artifact, forward, told, got>>
    PROVE  AnswerOK(m)'
<1>1. /\ Stored(m) => task'[m] = status /\ (closed[m] => closed'[m])
      /\ ~Stored(m) => task'[m] = task[m] /\ closed'[m] = closed[m]
      /\ Stored(m) /\ Subscribed(m) => queue'[m] = Append(queue[m], status)
      /\ ~Stored(m) \/ ~Subscribed(m) => queue'[m] = queue[m]
  BY StatusFacts DEF Statuses
<1>2. at'[m] \in {"store", "done"} /\ ~Past(m) /\ queue[m] \in Seq(Events)
  BY DEF Past, AgentTypeOK
<1>3. TurnTyped(m)'
  <2>1. m[1] \in Contexts /\ m[2] \in Nat
    BY MessageFacts
  <2>2. typed[m[1]] \in Nat /\ typed'[m[1]] \in Nat /\ typed[m[1]] <= typed'[m[1]]
    BY <2>1 DEF AgentTypeOK, Typing
  <2>3. task'[m] # "none"
    BY <1>1 DEF AnswerOK, TurnTyped
  <2>4. task'[m] = "removed" => closed'[m]
    BY <1>1 DEF AnswerOK, TurnTyped
  <2>5. m[2] <= typed'[m[1]]
    BY <2>1, <2>2 DEF AnswerOK, TurnTyped
  <2> QED BY <2>3, <2>4, <2>5 DEF TurnTyped
<1>4. Room(m)'
  BY <1>2 DEF Room
<1>5. ToldOK(m)'
  BY <1>2, MadeStays DEF AnswerOK, ToldOK
<1>6. ASSUME NEW i \in 1..Len(queue[m]), queue'[m][i] = queue[m][i] PROVE EventOK(m, i)'
  BY <1>2, <1>6, MadeStays DEF AnswerOK, EventOK
<1>7. CASE Stored(m) /\ Subscribed(m)
  <2>1. /\ Len(queue'[m]) = Len(queue[m]) + 1 /\ queue'[m][Len(queue[m]) + 1] = status
        /\ \A i \in 1..Len(queue[m]) : queue'[m][i] = queue[m][i]
    <3>1. status \in Events
      BY DEF Events
    <3>2. queue'[m] = Append(queue[m], status)
      BY <1>1, <1>7
    <3> QED BY <1>2, <3>1, <3>2
  <2>2. ASSUME NEW i \in 1..Len(queue'[m]) PROVE EventOK(m, i)'
    <3>1. CASE i \in 1..Len(queue[m])
      BY <1>6, <2>1, <3>1
    <3>2. CASE i \notin 1..Len(queue[m])
      <4>1. i = Len(queue[m]) + 1 /\ i - 1 = Len(queue[m])
        BY <1>2, <2>1, <3>2
      <4>2. status = "completed" => ShownBefore(m, i)
        BY <1>7, <4>1 DEF AnswerOK, ToldOK
      <4>3. status = "completed" => ShownBefore(m, i)'
        BY <2>1, <4>1, <4>2 DEF ShownBefore
      <4> QED BY <1>1, <1>2, <1>7, <2>1, <4>1, <4>3 DEF EventOK, Past
    <3> QED BY <3>1, <3>2
  <2> QED BY <1>3, <1>4, <1>5, <2>2 DEF AnswerOK
<1>8. CASE ~Stored(m) \/ ~Subscribed(m)
  BY <1>1, <1>3, <1>4, <1>5, <1>6, <1>8 DEF AnswerOK
<1> QED BY <1>7, <1>8

LEMMA ArtifactKept ==
    ASSUME AgentTypeOK, AgentTypeOK', NEW m \in Messages, AnswerOK(m), Typing,
           NEW mode \in Modes, AddArtifact(m, mode),
           mode \in {m[2], Reverse} \/ MultiTyped(m[1]),
           at[m] \in {"turn", "new"}, at'[m] = "complete",
           UNCHANGED <<task, closed, forward, told, got>>
    PROVE  AnswerOK(m)'
<1>1. /\ Stored(m) => artifact'[m] = mode
      /\ ~Stored(m) => artifact'[m] = artifact[m]
      /\ Stored(m) /\ Subscribed(m) => queue'[m] = Append(queue[m], "artifact")
      /\ ~Stored(m) \/ ~Subscribed(m) => queue'[m] = queue[m]
  BY ArtifactFacts
<1>2. ~Past(m) /\ queue[m] \in Seq(Events) /\ Len(queue[m]) <= 1
  BY DEF Past, AgentTypeOK, AnswerOK, Room
<1>3. m[1] \in Contexts /\ m[2] \in Nat
  BY MessageFacts
<1>4. TurnTyped(m)'
  <2>1. typed[m[1]] \in Nat /\ typed'[m[1]] \in Nat /\ typed[m[1]] <= typed'[m[1]]
    BY <1>3 DEF AgentTypeOK, Typing
  <2> QED BY <1>3, <2>1 DEF AnswerOK, TurnTyped
<1>5. Stored(m) => Made(m)'
  BY <1>1, <1>3, MultiStays DEF Made
<1>6. ~Stored(m) /\ Made(m) => Made(m)'
  BY <1>1, MadeStays
<1>7. got[m] => Made(m)'
  BY <1>5, <1>6 DEF AnswerOK, ToldOK
<1>8. ASSUME NEW i \in 1..Len(queue[m]), queue'[m][i] = queue[m][i] PROVE EventOK(m, i)'
  BY <1>2, <1>5, <1>6, <1>8 DEF AnswerOK, EventOK
<1>9. Subscribed(m) => Stored(m)
  BY DEF Subscribed, Stored, AnswerOK, TurnTyped
<1>10. CASE Subscribed(m)
  <2>1. /\ Len(queue'[m]) = Len(queue[m]) + 1 /\ queue'[m][Len(queue[m]) + 1] = "artifact"
        /\ \A i \in 1..Len(queue[m]) : queue'[m][i] = queue[m][i]
    <3>1. "artifact" \in Events /\ queue'[m] = Append(queue[m], "artifact")
      BY <1>1, <1>9, <1>10 DEF Events
    <3> QED BY <1>2, <3>1
  <2>2. ASSUME NEW i \in 1..Len(queue'[m]) PROVE EventOK(m, i)'
    <3>1. CASE i \in 1..Len(queue[m])
      BY <1>8, <2>1, <3>1
    <3>2. CASE i \notin 1..Len(queue[m])
      <4>1. i = Len(queue[m]) + 1
        BY <1>2, <2>1, <3>2
      <4> QED BY <1>5, <1>9, <1>10, <2>1, <4>1 DEF EventOK
    <3> QED BY <3>1, <3>2
  <2>3. Room(m)'
    BY <1>2, <2>1 DEF Room
  <2>4. ShownBefore(m, Len(queue[m]) + 1)'
    <3>1. Len(queue[m]) + 1 \in 1..((Len(queue'[m]) + 1) - 1)
      BY <1>2, <2>1
    <3> QED BY <2>1, <3>1 DEF ShownBefore
  <2>5. ToldOK(m)'
    BY <1>2, <1>7, <2>4 DEF AnswerOK, ToldOK
  <2> QED BY <1>4, <2>2, <2>3, <2>5 DEF AnswerOK
<1>11. CASE ~Subscribed(m)
  <2>1. queue'[m] = queue[m]
    BY <1>1, <1>11
  <2>2. Room(m)'
    BY <1>2, <2>1 DEF Room
  <2>3. ToldOK(m)'
    BY <1>2, <1>7, <1>11 DEF AnswerOK, ToldOK, Subscribed
  <2>4. \A i \in 1..Len(queue'[m]) : EventOK(m, i)'
    BY <1>8, <2>1
  <2> QED BY <1>4, <2>2, <2>3, <2>4 DEF AnswerOK
<1> QED BY <1>10, <1>11

(* A turn that moves on without a word to the task manager. *)
LEMMA MoveKept ==
    ASSUME AgentTypeOK, AgentTypeOK', NEW m \in Messages, AnswerOK(m), Typing,
           UNCHANGED <<task, closed, artifact, queue, forward, told, got>>,
           \/ at[m] \in {"decide", "turn", "new", "prompt"} /\ at'[m] \in {"turn", "new", "prompt"}
           \/ at[m] = "store" /\ at'[m] = "done"
           \/ at[m] = "async" /\ at'[m] = "done"
    PROVE  AnswerOK(m)'
<1>1. m[1] \in Contexts /\ m[2] \in Nat
  BY MessageFacts
<1>2. TurnTyped(m)'
  <2>1. typed[m[1]] \in Nat /\ typed'[m[1]] \in Nat /\ typed[m[1]] <= typed'[m[1]]
    BY <1>1 DEF AgentTypeOK, Typing
  <2> QED BY <1>1, <2>1 DEF AnswerOK, TurnTyped
<1>3. Past(m) => Past(m)'
  BY DEF Past
<1>4. Room(m)'
  BY DEF AnswerOK, Room
<1>5. ToldOK(m)'
  BY <1>3, MadeStays DEF AnswerOK, ToldOK
<1>6. \A i \in 1..Len(queue[m]) : EventOK(m, i)'
  BY <1>3, MadeStays DEF AnswerOK, EventOK, ShownBefore
<1> QED BY <1>2, <1>4, <1>5, <1>6 DEF AnswerOK

LEMMA TurnKeeps ==
    ASSUME AgentIInv, AgentTypeOK', NEW m \in Messages, NEW c \in Contexts, m[1] = c,
           UNCHANGED <<script, typed>>,
           \A n \in Messages : n # m => Same(n),
           \A d \in Contexts : d # c => sessions'[d] = sessions[d] /\ orderly'[d] = orderly[d],
           sessions'[c] = sessions[c] \/ SessionOK(sessions[c], c)',
           session'[m] = session[m] \/ SessionOK(session[m], c)',
           AnswerOK(m)', DialogueOK(c)'
    PROVE  AgentIInv'
<1>1. Typing
  BY DEF Typing, AgentIInv, AgentTypeOK
<1>2. \A n \in Messages : AnswerOK(n)'
  BY <1>1, OthersKept DEF AgentIInv
<1>3. ModesOK'
  BY <1>1, ModesKept DEF AgentIInv, Same
<1>4. ASSUME NEW d \in Contexts, d # c PROVE DialogueOK(d)'
  <2>1. \A n \in Messages : n[1] = d => at'[n] = at[n] /\ session'[n] = session[n]
    BY <1>4 DEF Same
  <2> QED BY <1>4, <2>1, DialogueKept DEF AgentIInv
<1> QED BY <1>2, <1>3, <1>4 DEF AgentIInv

LEMMA QuietKeeps ==
    ASSUME AgentIInv, AgentTypeOK', UNCHANGED <<script, typed, turns>>, NEW m \in Messages,
           \A n \in Messages : n # m => Same(n), AnswerOK(m)'
    PROVE  AgentIInv'
<1>1. m[1] \in Contexts
  BY MessageFacts
<1>2. DialogueOK(m[1])'
  BY <1>1, DialogueKept DEF turns, AgentIInv
<1> QED BY <1>1, <1>2, TurnKeeps DEF turns

-----------------------------------------------------------------------------
(* The turns. *)

LEMMA GoesFacts ==
    ASSUME AgentTypeOK, NEW m \in Messages,
           NEW to \in {"async", "decide", "turn", "new", "prompt", "complete", "store", "done"},
           Goes(m, to)
    PROVE  /\ at' \in [Messages -> {"none", "async", "decide", "turn", "new", "prompt",
                                    "complete", "store", "done"}]
           /\ at'[m] = to /\ \A n \in Messages : n # m => at'[n] = at[n]
  BY DEF Goes, AgentTypeOK

(* An orderly context whose message m is worked on. *)
LEMMA TurnFacts ==
    ASSUME AgentIInv, NEW m \in Messages, at[m] \notin {"none", "done"}
    PROVE  /\ m[1] \in Contexts /\ m[2] \in 1..Longest
           /\ AnswerOK(m) /\ AgentTypeOK
           /\ orderly[m[1]] => TurnOK(m, m[1])
           /\ TurnOK(m, m[1]) =>
                 Dialogue(m[1]) = Turned(Before(m[1]), m[2], Text(m))
  <1>1. m[1] \in Contexts /\ m[2] \in 1..Longest
    BY MessageFacts
  <1>2. orderly[m[1]] => TurnOK(m, m[1])
    BY <1>1 DEF AgentIInv, DialogueOK, Running
  <1>3. ASSUME TurnOK(m, m[1]) PROVE Dialogue(m[1]) = Turned(Before(m[1]), m[2], Text(m))
    <2>1. m[2] = typed[m[1]] /\ typed[m[1]] # 0
      BY <1>1, <1>3 DEF TurnOK
    <2> QED BY <1>1, <2>1, DialogueSteps DEF AgentIInv, Text
  <1> QED BY <1>1, <1>2, <1>3 DEF AgentIInv

LEMMA AsyncKeeps ==
    ASSUME AgentIInv, NEW m \in Messages, processMessageAsync(m)
    PROVE  AgentIInv'
<1> DEFINE c == m[1]
<1>1. /\ at[m] = "async" /\ UpdateTaskState(m, "working")
      /\ Goes(m, IF Stored(m) THEN "decide" ELSE "done")
      /\ orderly' = [orderly EXCEPT ![c] = @ /\ Stored(m)]
      /\ UNCHANGED <<web, clients, sessions, session, artifact, pipe>>
  BY DEF processMessageAsync
<1>2. /\ c \in Contexts /\ m[2] \in 1..Longest /\ AnswerOK(m) /\ AgentTypeOK
      /\ orderly[c] => TurnOK(m, c)
  BY <1>1, TurnFacts
<1>3. /\ task' \in [Messages -> States] /\ queue' \in [Messages -> Seq(Events)]
      /\ closed' \in [Messages -> BOOLEAN]
      /\ \A n \in Messages : n # m =>
            task'[n] = task[n] /\ queue'[n] = queue[n] /\ closed'[n] = closed[n]
      /\ Stored(m) => task'[m] = "working" /\ (closed[m] => closed'[m])
      /\ ~Stored(m) => task'[m] = task[m] /\ closed'[m] = closed[m]
      /\ Stored(m) /\ Subscribed(m) => queue'[m] = Append(queue[m], "working")
      /\ ~Stored(m) \/ ~Subscribed(m) => queue'[m] = queue[m]
  BY <1>1, <1>2, StatusFacts DEF Statuses
<1>4. /\ at' \in [Messages -> {"none", "async", "decide", "turn", "new", "prompt",
                               "complete", "store", "done"}]
      /\ \A n \in Messages : n # m => at'[n] = at[n]
      /\ Stored(m) => at'[m] = "decide"
      /\ ~Stored(m) => at'[m] = "done"
  <2>1. CASE Stored(m)
    BY <1>1, <1>2, <2>1, GoesFacts
  <2>2. CASE ~Stored(m)
    BY <1>1, <1>2, <2>2, GoesFacts
  <2> QED BY <2>1, <2>2
<1>5. /\ orderly' \in [Contexts -> BOOLEAN] /\ \A d \in Contexts : d # c => orderly'[d] = orderly[d]
      /\ orderly'[c] => orderly[c] /\ Stored(m)
  <2>1. orderly' = [orderly EXCEPT ![c] = @ /\ Stored(m)] /\ orderly \in [Contexts -> BOOLEAN]
    BY <1>1, <1>2 DEF AgentTypeOK
  <2>2. Stored(m) \in BOOLEAN
    BY DEF Stored
  <2> HIDE DEF c
  <2> QED BY <1>2, <2>1, <2>2
<1>6. queue[m] = <<>>
  BY <1>1, <1>2 DEF AnswerOK, Room
<1>7. Len(queue'[m]) <= 1 /\ \A i \in 1..Len(queue'[m]) : queue'[m][i] = "working"
  <2>1. Append(queue[m], "working") = <<"working">>
    BY <1>6
  <2>2. queue'[m] = <<>> \/ queue'[m] = <<"working">>
    BY <1>3, <1>6, <2>1
  <2>3. Len(<<>>) = 0 /\ Len(<<"working">>) = 1 /\ <<"working">>[1] = "working"
    OBVIOUS
  <2>4. CASE queue'[m] = <<>>
    <3>1. Len(queue'[m]) = 0
      BY <2>3, <2>4
    <3> QED BY <3>1
  <2>5. CASE queue'[m] = <<"working">>
    <3>1. Len(queue'[m]) = 1 /\ queue'[m][1] = "working"
      BY <2>3, <2>5
    <3>2. \A i \in 1..1 : i = 1
      OBVIOUS
    <3> QED BY <3>1, <3>2
  <2> QED BY <2>2, <2>4, <2>5
<1>8. AgentTypeOK'
  <2>1. ASSUME NEW n \in Messages PROVE Len(queue'[n]) <= 3
    <3>1. CASE n = m
      <4>1. Len(queue'[m]) \in Nat
        BY <1>3
      <4> QED BY <1>7, <3>1, <4>1
    <3>2. CASE n # m
      BY <1>2, <1>3, <3>2 DEF AgentTypeOK
    <3> QED BY <3>1, <3>2
  <2> QED BY <1>1, <1>2, <1>3, <1>4, <1>5, <2>1 DEF AgentTypeOK, web, clients, pipe
<1>9. AnswerOK(m)'
  <2>1. m[2] <= typed'[m[1]]
    BY <1>1, <1>2 DEF AnswerOK, TurnTyped, clients
  <2>2. TurnTyped(m)'
    BY <1>1, <1>2, <1>3, <2>1 DEF AnswerOK, TurnTyped, Stored
  <2>3. Room(m)'
    BY <1>4, <1>7 DEF Room
  <2>4. Typing
    BY <1>1, <1>2 DEF Typing, clients, AgentTypeOK
  <2>5. ToldOK(m)'
    BY <1>1, <1>2, <1>4, <1>8, <2>4, MadeStays DEF AnswerOK, ToldOK, Past, clients, pipe
  <2>6. \A i \in 1..Len(queue'[m]) : EventOK(m, i)'
    BY <1>7 DEF EventOK
  <2> QED BY <2>2, <2>3, <2>5, <2>6 DEF AnswerOK
<1>10. \A n \in Messages : n # m => Same(n)
  BY <1>1, <1>3, <1>4 DEF Same, clients, pipe
<1>11. DialogueOK(c)'
  <2>1. TurnOK(m, c) /\ Stored(m) => TurnOK(m, c)'
    BY <1>1, <1>4 DEF TurnOK, Before, clients
  <2>2. DialogueOK(c)
    BY <1>2 DEF AgentIInv
  <2> HIDE DEF c
  <2> QED BY <1>1, <1>2, <1>4, <1>5, <2>1, <2>2, DialogueGoesOn DEF clients, c
<1> HIDE DEF c
<1> QED BY <1>1, <1>2, <1>5, <1>8, <1>9, <1>10, <1>11, TurnKeeps DEF clients, c

(* A turn that ends with a status, but for what it does to the dialogue. *)
LEMMA LastStatusTurn ==
    ASSUME AgentIInv, NEW m \in Messages,
           NEW status \in {"input", "completed", "canceled"}, UpdateTaskState(m, status),
           at[m] \in {"turn", "new", "prompt", "complete"},
           status = "completed" => at[m] = "complete",
           NEW to \in {"store", "done"}, Goes(m, to),
           UNCHANGED <<web, clients, sessions, artifact, pipe>>,
           session' \in [Messages -> Session], orderly' \in [Contexts -> BOOLEAN],
           \A n \in Messages : n # m => session'[n] = session[n]
    PROVE  AgentTypeOK' /\ AnswerOK(m)' /\ \A n \in Messages : n # m => Same(n)
<1>1. AgentTypeOK /\ AnswerOK(m)
  BY DEF AgentIInv
<1>2. /\ task' \in [Messages -> States] /\ queue' \in [Messages -> Seq(Events)]
      /\ closed' \in [Messages -> BOOLEAN]
      /\ \A n \in Messages : n # m =>
            task'[n] = task[n] /\ queue'[n] = queue[n] /\ closed'[n] = closed[n]
      /\ queue'[m] = Append(queue[m], status) \/ queue'[m] = queue[m]
  <2>1. status \in Statuses
    BY DEF Statuses
  <2> QED BY <1>1, <2>1, StatusFacts
<1>3. /\ at' \in [Messages -> {"none", "async", "decide", "turn", "new", "prompt",
                               "complete", "store", "done"}]
      /\ at'[m] = to /\ \A n \in Messages : n # m => at'[n] = at[n]
  BY <1>1, GoesFacts
<1>4. Len(queue'[m]) <= 3
  <2>1. status \in Events /\ queue[m] \in Seq(Events) /\ Len(queue[m]) <= 2
    BY <1>1 DEF Events, AgentTypeOK, AnswerOK, Room
  <2> QED BY <1>2, <2>1
<1>5. AgentTypeOK'
  <2>1. \A n \in Messages : Len(queue'[n]) <= 3
    BY <1>1, <1>2, <1>4 DEF AgentTypeOK
  <2> QED BY <1>1, <1>2, <1>3, <2>1 DEF AgentTypeOK, web, clients, pipe
<1>6. Typing
  BY <1>1 DEF Typing, clients, AgentTypeOK
<1>7. AnswerOK(m)'
  BY <1>1, <1>3, <1>5, <1>6, LastStatusKept DEF Past, pipe, clients
<1>8. \A n \in Messages : n # m => Same(n)
  BY <1>2, <1>3 DEF Same, clients, pipe
<1> QED BY <1>5, <1>7, <1>8

LEMMA SelectModeKeeps ==
    ASSUME AgentIInv, NEW m \in Messages, SelectMode(m)
    PROVE  AgentIInv'
<1> DEFINE c == m[1]
           s == [stage |-> 2, mode |-> m[2], complete |-> FALSE]
<1>1. /\ at[m] = "turn" /\ session[m].stage = 1
      /\ session' = [session EXCEPT ![m] = s]
      /\ UpdateTaskState(m, "input")
      /\ Goes(m, IF Stored(m) THEN "store" ELSE "done")
      /\ orderly' = [orderly EXCEPT ![c] = @ /\ Stored(m)]
      /\ UNCHANGED <<web, clients, sessions, artifact, pipe>>
  BY DEF SelectMode
<1>2. /\ c \in Contexts /\ m[2] \in 1..Longest /\ AnswerOK(m) /\ AgentTypeOK
      /\ orderly[c] => TurnOK(m, c)
      /\ TurnOK(m, c) => Dialogue(c) = Turned(Before(c), m[2], Text(m))
  BY <1>1, TurnFacts
<1>3. PICK to \in {"store", "done"} : Goes(m, to) /\ (Stored(m) <=> to = "store")
  BY <1>1
<1>4. s \in Session
  BY <1>2, Sessions DEF Session
<1>5. /\ session' \in [Messages -> Session] /\ session'[m] = s
      /\ \A n \in Messages : n # m => session'[n] = session[n]
  <2> HIDE DEF s
  <2> QED BY <1>1, <1>2, <1>4 DEF AgentTypeOK
<1>6. /\ orderly' \in [Contexts -> BOOLEAN] /\ \A d \in Contexts : d # c => orderly'[d] = orderly[d]
      /\ orderly'[c] => orderly[c] /\ Stored(m)
  <2>1. orderly' = [orderly EXCEPT ![c] = @ /\ Stored(m)] /\ orderly \in [Contexts -> BOOLEAN]
    BY <1>1, <1>2 DEF AgentTypeOK
  <2>2. Stored(m) \in BOOLEAN
    BY DEF Stored
  <2> HIDE DEF c
  <2> QED BY <1>2, <2>1, <2>2
<1>7. AgentTypeOK' /\ AnswerOK(m)' /\ \A n \in Messages : n # m => Same(n)
  <2> HIDE DEF s, c
  <2> QED BY <1>1, <1>3, <1>5, <1>6, LastStatusTurn
<1>8. at'[m] = to
  BY <1>2, <1>3, GoesFacts
<1>9. SessionOK(session[m], c)'
  <2>1. MultiTyped(c)
    BY <1>1, <1>2 DEF AgentIInv, ModesOK, SessionOK
  <2>2. MultiTyped(c)'
    BY <1>1, <2>1 DEF MultiTyped, clients
  <2> QED BY <2>2 DEF SessionOK
<1>10. DialogueOK(c)'
  <2>1. Stored(m) /\ TurnOK(m, c) => TurnOK(m, c)'
    <3> SUFFICES ASSUME Stored(m), TurnOK(m, c) PROVE TurnOK(m, c)'
      OBVIOUS
    <3>1. session[m] = Before(c) /\ Open(Before(c)) /\ m[2] = typed[c]
      BY <1>1 DEF TurnOK
    <3>2. Dialogue(c) = s
      BY <1>1, <1>2, <3>1 DEF Turned
    <3>3. Dialogue(c)' = Dialogue(c) /\ typed' = typed
      BY <1>1 DEF Dialogue, clients
    <3> HIDE DEF s, c
    <3> QED BY <1>3, <1>5, <1>8, <3>1, <3>2, <3>3 DEF TurnOK
  <2>2. DialogueOK(c)
    BY <1>2 DEF AgentIInv
  <2> HIDE DEF c, s
  <2> QED BY <1>1, <1>2, <1>3, <1>6, <1>7, <1>8, <2>1, <2>2, DialogueGoesOn DEF clients, c, Same
<1> HIDE DEF c, s
<1> QED BY <1>1, <1>2, <1>6, <1>7, <1>9, <1>10, TurnKeeps DEF clients, c

LEMMA CompleteKeeps ==
    ASSUME AgentIInv, NEW m \in Messages, Complete(m)
    PROVE  AgentIInv'
<1> DEFINE c == m[1]
<1>1. /\ at[m] = "complete" /\ UpdateTaskState(m, "completed")
      /\ Goes(m, IF session[m].stage = 3 THEN "store" ELSE "done")
      /\ UNCHANGED <<web, clients, sessions, session, orderly, artifact, pipe>>
  BY DEF Complete
<1>2. c \in Contexts /\ AnswerOK(m) /\ AgentTypeOK
  BY <1>1, TurnFacts
<1>3. PICK to \in {"store", "done"} : Goes(m, to) /\ (session[m].stage = 3 <=> to = "store")
  BY <1>1
<1>4. AgentTypeOK' /\ AnswerOK(m)' /\ \A n \in Messages : n # m => Same(n)
  <2>1. /\ session' \in [Messages -> Session] /\ orderly' \in [Contexts -> BOOLEAN]
        /\ \A n \in Messages : session'[n] = session[n]
    BY <1>1, <1>2 DEF AgentTypeOK
  <2> QED BY <1>1, <1>3, <2>1, LastStatusTurn
<1>5. at'[m] = to
  BY <1>2, <1>3, GoesFacts
<1>6. DialogueOK(c)'
  <2>1. Dialogue(c)' = Dialogue(c)
    BY <1>1 DEF Dialogue, clients
  <2>2. TurnOK(m, c) /\ to = "store" => TurnOK(m, c)'
    BY <1>1, <1>3, <1>5, <2>1 DEF TurnOK, clients
  <2>3. TurnOK(m, c) /\ to = "done" => sessions'[c] = Dialogue(c)
    BY <1>1, <1>3 DEF TurnOK
  <2>4. DialogueOK(c)
    BY <1>2 DEF AgentIInv
  <2> HIDE DEF c
  <2> QED BY <1>1, <1>2, <1>3, <1>4, <1>5, <2>2, <2>3, <2>4, DialogueGoesOn DEF clients, c, Same
<1> HIDE DEF c
<1> QED BY <1>1, <1>2, <1>4, <1>6, TurnKeeps DEF clients, c

LEMMA CancelledKeeps ==
    ASSUME AgentIInv, NEW m \in Messages, Cancelled(m)
    PROVE  AgentIInv'
<1> DEFINE c == m[1]
<1>1. /\ at[m] = "new" /\ UpdateTaskState(m, "canceled") /\ Goes(m, "done")
      /\ orderly' = [orderly EXCEPT ![c] = FALSE]
      /\ UNCHANGED <<web, clients, sessions, session, artifact, pipe>>
  BY DEF Cancelled
<1>2. c \in Contexts /\ AnswerOK(m) /\ AgentTypeOK
  BY <1>1, TurnFacts
<1>3. /\ orderly' \in [Contexts -> BOOLEAN] /\ ~orderly'[c]
      /\ \A d \in Contexts : d # c => orderly'[d] = orderly[d]
  <2> HIDE DEF c
  <2> QED BY <1>1, <1>2 DEF AgentTypeOK
<1>4. AgentTypeOK' /\ AnswerOK(m)' /\ \A n \in Messages : n # m => Same(n)
  <2>1. session' \in [Messages -> Session] /\ \A n \in Messages : session'[n] = session[n]
    BY <1>1, <1>2 DEF AgentTypeOK
  <2> QED BY <1>1, <1>3, <2>1, LastStatusTurn
<1>5. DialogueOK(c)'
  BY <1>3 DEF DialogueOK
<1> HIDE DEF c
<1> QED BY <1>1, <1>2, <1>3, <1>4, <1>5, TurnKeeps DEF clients, c

LEMMA PromptKeeps ==
    ASSUME AgentIInv, NEW m \in Messages, Prompt(m)
    PROVE  AgentIInv'
<1> DEFINE c == m[1]
<1>1. /\ at[m] = "prompt" /\ UpdateTaskState(m, "input") /\ Goes(m, "done")
      /\ UNCHANGED <<web, clients, sessions, session, orderly, artifact, pipe>>
  BY DEF Prompt
<1>2. c \in Contexts /\ AnswerOK(m) /\ AgentTypeOK
  BY <1>1, TurnFacts
<1>3. AgentTypeOK' /\ AnswerOK(m)' /\ \A n \in Messages : n # m => Same(n)
  <2>1. /\ session' \in [Messages -> Session] /\ orderly' \in [Contexts -> BOOLEAN]
        /\ \A n \in Messages : session'[n] = session[n]
    BY <1>1, <1>2 DEF AgentTypeOK
  <2> QED BY <1>1, <2>1, LastStatusTurn
<1>4. at'[m] = "done"
  BY <1>1, <1>2, GoesFacts
<1>5. DialogueOK(c)'
  <2>1. TurnOK(m, c) => sessions'[c] = Dialogue(c)
    BY <1>1 DEF TurnOK
  <2>2. DialogueOK(c)
    BY <1>2 DEF AgentIInv
  <2> HIDE DEF c
  <2> QED BY <1>1, <1>2, <1>3, <1>4, <2>1, <2>2, DialogueGoesOn DEF clients, c, Same
<1> HIDE DEF c
<1> QED BY <1>1, <1>2, <1>3, <1>5, TurnKeeps DEF clients, c

LEMMA InputExampleKeeps ==
    ASSUME AgentIInv, NEW m \in Messages, InputExample(m)
    PROVE  AgentIInv'
<1> DEFINE c == m[1]
           s == [stage |-> 2, mode |-> Reverse, complete |-> FALSE]
<1>1. /\ at[m] = "new" /\ Text(m) = "example" /\ UpdateTaskState(m, "input") /\ Goes(m, "store")
      /\ session' = [session EXCEPT ![m] = s]
      /\ UNCHANGED <<web, clients, sessions, orderly, artifact, pipe>>
  BY DEF InputExample
<1>2. /\ c \in Contexts /\ AnswerOK(m) /\ AgentTypeOK
      /\ TurnOK(m, c) => Dialogue(c) = Turned(Before(c), m[2], Text(m))
  BY <1>1, TurnFacts
<1>3. s \in Session
  BY Sessions DEF Session
<1>4. /\ session' \in [Messages -> Session] /\ session'[m] = s
      /\ \A n \in Messages : n # m => session'[n] = session[n]
  <2> HIDE DEF s
  <2> QED BY <1>1, <1>2, <1>3 DEF AgentTypeOK
<1>5. AgentTypeOK' /\ AnswerOK(m)' /\ \A n \in Messages : n # m => Same(n)
  <2>1. orderly' \in [Contexts -> BOOLEAN]
    BY <1>1, <1>2 DEF AgentTypeOK
  <2> HIDE DEF s
  <2> QED BY <1>1, <1>4, <2>1, LastStatusTurn
<1>6. at'[m] = "store"
  BY <1>1, <1>2, GoesFacts
<1>7. SessionOK(session[m], c)'
  BY <1>4 DEF SessionOK
<1>8. DialogueOK(c)'
  <2>1. TurnOK(m, c) => TurnOK(m, c)'
    <3> SUFFICES ASSUME TurnOK(m, c) PROVE TurnOK(m, c)'
      OBVIOUS
    <3>1. ~Open(Before(c)) /\ m[2] = typed[c]
      BY <1>1 DEF TurnOK
    <3>2. Dialogue(c) = s
      BY <1>1, <1>2, <3>1 DEF Turned
    <3>3. Dialogue(c)' = Dialogue(c) /\ typed' = typed
      BY <1>1 DEF Dialogue, clients
    <3> HIDE DEF s, c
    <3> QED BY <1>4, <1>6, <3>1, <3>2, <3>3 DEF TurnOK
  <2>2. DialogueOK(c)
    BY <1>2 DEF AgentIInv
  <2> HIDE DEF c, s
  <2> QED BY <1>1, <1>2, <1>5, <1>6, <2>1, <2>2, DialogueGoesOn DEF clients, c, Same
<1> HIDE DEF c, s
<1> QED BY <1>1, <1>2, <1>5, <1>7, <1>8, TurnKeeps DEF clients, c

(* A turn that says nothing to the task manager, but for what it does to the      *)
(* dialogue.                                                                *)
LEMMA MoveTurn ==
    ASSUME AgentIInv, NEW m \in Messages, NEW to \in {"turn", "new", "prompt", "done"}, Goes(m, to),
           \/ at[m] \in {"decide", "new"} /\ to # "done"
           \/ at[m] = "store" /\ to = "done",
           UNCHANGED <<web, clients, orderly, manager, pipe>>,
           session' \in [Messages -> Session], sessions' \in [Contexts -> Session],
           \A n \in Messages : n # m => session'[n] = session[n]
    PROVE  AgentTypeOK' /\ AnswerOK(m)' /\ \A n \in Messages : n # m => Same(n)
<1>1. AgentTypeOK /\ AnswerOK(m)
  BY DEF AgentIInv
<1>2. /\ at' \in [Messages -> {"none", "async", "decide", "turn", "new", "prompt",
                               "complete", "store", "done"}]
      /\ at'[m] = to /\ \A n \in Messages : n # m => at'[n] = at[n]
  BY <1>1, GoesFacts
<1>3. AgentTypeOK'
  BY <1>1, <1>2 DEF AgentTypeOK, web, clients, pipe, manager
<1>4. Typing
  BY <1>1 DEF Typing, clients, AgentTypeOK
<1>5. AnswerOK(m)'
  BY <1>1, <1>2, <1>3, <1>4, MoveKept DEF pipe, clients, manager
<1>6. \A n \in Messages : n # m => Same(n)
  BY <1>2 DEF Same, clients, pipe, manager
<1> QED BY <1>3, <1>5, <1>6

LEMMA DecideKeeps ==
    ASSUME AgentIInv, NEW m \in Messages, Decide(m)
    PROVE  AgentIInv'
<1> DEFINE c == m[1]
<1>1. /\ at[m] = "decide" /\ session' = [session EXCEPT ![m] = sessions[c]]
      /\ Goes(m, IF Open(sessions[c]) THEN "turn" ELSE "new")
      /\ UNCHANGED <<web, clients, sessions, orderly, manager, pipe>>
  BY DEF Decide
<1>2. c \in Contexts /\ AnswerOK(m) /\ AgentTypeOK
  BY <1>1, TurnFacts
<1>3. PICK to \in {"turn", "new"} : Goes(m, to) /\ (Open(sessions[c]) <=> to = "turn")
  BY <1>1
<1>4. /\ session' \in [Messages -> Session] /\ session'[m] = sessions[c]
      /\ \A n \in Messages : n # m => session'[n] = session[n]
  BY <1>1, <1>2 DEF AgentTypeOK
<1>5. AgentTypeOK' /\ AnswerOK(m)' /\ \A n \in Messages : n # m => Same(n)
  <2>1. sessions' \in [Contexts -> Session]
    BY <1>1, <1>2 DEF AgentTypeOK
  <2> QED BY <1>1, <1>3, <1>4, <2>1, MoveTurn
<1>6. at'[m] = to
  BY <1>2, <1>3, GoesFacts
<1>7. SessionOK(session[m], c)'
  BY <1>1, <1>2, <1>4 DEF AgentIInv, ModesOK, SessionOK, MultiTyped, clients
<1>8. DialogueOK(c)'
  <2>1. TurnOK(m, c) => TurnOK(m, c)'
    BY <1>1, <1>3, <1>4, <1>6 DEF TurnOK, Before, clients
  <2>2. DialogueOK(c)
    BY <1>2 DEF AgentIInv
  <2> HIDE DEF c
  <2> QED BY <1>1, <1>2, <1>3, <1>5, <1>6, <2>1, <2>2, DialogueGoesOn DEF clients, c, Same
<1> HIDE DEF c
<1> QED BY <1>1, <1>2, <1>5, <1>7, <1>8, TurnKeeps DEF clients, c

LEMMA StoreKeeps ==
    ASSUME AgentIInv, NEW m \in Messages, Store(m)
    PROVE  AgentIInv'
<1> DEFINE c == m[1]
<1>1. /\ at[m] = "store" /\ sessions' = [sessions EXCEPT ![c] = session[m]] /\ Goes(m, "done")
      /\ UNCHANGED <<web, clients, session, orderly, manager, pipe>>
  BY DEF Store
<1>2. c \in Contexts /\ AnswerOK(m) /\ AgentTypeOK
  BY <1>1, TurnFacts
<1>3. /\ sessions' \in [Contexts -> Session] /\ sessions'[c] = session[m]
      /\ \A d \in Contexts : d # c => sessions'[d] = sessions[d]
  <2> HIDE DEF c
  <2> QED BY <1>1, <1>2 DEF AgentTypeOK
<1>4. AgentTypeOK' /\ AnswerOK(m)' /\ \A n \in Messages : n # m => Same(n)
  <2>1. session' \in [Messages -> Session] /\ \A n \in Messages : session'[n] = session[n]
    BY <1>1, <1>2 DEF AgentTypeOK
  <2> QED BY <1>1, <1>3, <2>1, MoveTurn
<1>5. at'[m] = "done"
  BY <1>1, <1>2, GoesFacts
<1>6. SessionOK(sessions[c], c)'
  BY <1>1, <1>3 DEF AgentIInv, ModesOK, SessionOK, MultiTyped, clients
<1>7. DialogueOK(c)'
  <2>1. TurnOK(m, c) => sessions'[c] = Dialogue(c)
    BY <1>1, <1>3 DEF TurnOK
  <2>2. DialogueOK(c)
    BY <1>2 DEF AgentIInv
  <2> HIDE DEF c
  <2> QED BY <1>1, <1>2, <1>4, <1>5, <2>1, <2>2, DialogueGoesOn DEF clients, c, Same
<1> HIDE DEF c
<1> QED BY <1>1, <1>2, <1>3, <1>4, <1>6, <1>7, TurnKeeps DEF clients, c

LEMMA MultiStepKeeps ==
    ASSUME AgentIInv, NEW m \in Messages, MultiStep(m)
    PROVE  AgentIInv'
<1> DEFINE c == m[1]
           s == [stage |-> 1, mode |-> NoMode, complete |-> FALSE]
<1>1. /\ at[m] = "new" /\ Text(m) = "multi" /\ sessions' = [sessions EXCEPT ![c] = s]
      /\ Goes(m, "prompt")
      /\ UNCHANGED <<web, clients, session, orderly, manager, pipe>>
  BY DEF MultiStep
<1>2. /\ c \in Contexts /\ AnswerOK(m) /\ AgentTypeOK /\ m[2] \in 1..Longest
      /\ TurnOK(m, c) => Dialogue(c) = Turned(Before(c), m[2], Text(m))
  BY <1>1, TurnFacts
<1>3. s \in Session
  BY Sessions DEF Session
<1>4. /\ sessions' \in [Contexts -> Session] /\ sessions'[c] = s
      /\ \A d \in Contexts : d # c => sessions'[d] = sessions[d]
  <2> HIDE DEF c, s
  <2> QED BY <1>1, <1>2, <1>3 DEF AgentTypeOK
<1>5. AgentTypeOK' /\ AnswerOK(m)' /\ \A n \in Messages : n # m => Same(n)
  <2>1. session' \in [Messages -> Session] /\ \A n \in Messages : session'[n] = session[n]
    BY <1>1, <1>2 DEF AgentTypeOK
  <2> HIDE DEF s
  <2> QED BY <1>1, <1>4, <2>1, MoveTurn
<1>6. at'[m] = "prompt"
  BY <1>1, <1>2, GoesFacts
<1>7. SessionOK(sessions[c], c)'
  <2>1. m[2] <= typed[c] /\ typed[c] \in Nat
    BY <1>1, <1>2 DEF AnswerOK, TurnTyped, AgentTypeOK
  <2>2. script[c][m[2]] = "multi"
    BY <1>1 DEF Text
  <2>3. MultiTyped(c)
    BY <1>2, <2>1, <2>2 DEF MultiTyped
  <2> QED BY <1>1, <2>3 DEF SessionOK, MultiTyped, clients
<1>8. DialogueOK(c)'
  <2>1. TurnOK(m, c) => TurnOK(m, c)'
    <3> SUFFICES ASSUME TurnOK(m, c) PROVE TurnOK(m, c)'
      OBVIOUS
    <3>1. ~Open(Before(c)) /\ m[2] = typed[c]
      BY <1>1 DEF TurnOK
    <3>2. Dialogue(c) = s
      BY <1>1, <1>2, <3>1 DEF Turned
    <3>3. Dialogue(c)' = Dialogue(c) /\ typed' = typed
      BY <1>1 DEF Dialogue, clients
    <3> HIDE DEF s, c
    <3> QED BY <1>4, <1>6, <3>1, <3>2, <3>3 DEF TurnOK
  <2>2. DialogueOK(c)
    BY <1>2 DEF AgentIInv
  <2> HIDE DEF c, s
  <2> QED BY <1>1, <1>2, <1>5, <1>6, <2>1, <2>2, DialogueGoesOn DEF clients, c, Same
<1> HIDE DEF c, s
<1> QED BY <1>1, <1>2, <1>4, <1>5, <1>7, <1>8, TurnKeeps DEF clients, c

(* A turn that makes an artifact, but for what it does to the dialogue. *)
LEMMA ArtifactTurn ==
    ASSUME AgentIInv, NEW m \in Messages, NEW mode \in Modes, AddArtifact(m, mode),
           mode \in {m[2], Reverse} \/ MultiTyped(m[1]),
           at[m] \in {"turn", "new"}, Goes(m, "complete"),
           UNCHANGED <<web, clients, sessions, orderly, task, closed, pipe>>,
           session' \in [Messages -> Session],
           \A n \in Messages : n # m => session'[n] = session[n]
    PROVE  AgentTypeOK' /\ AnswerOK(m)' /\ \A n \in Messages : n # m => Same(n)
<1>1. AgentTypeOK /\ AnswerOK(m)
  BY DEF AgentIInv
<1>2. /\ artifact' \in [Messages -> Modes] /\ queue' \in [Messages -> Seq(Events)]
      /\ \A n \in Messages : n # m => artifact'[n] = artifact[n] /\ queue'[n] = queue[n]
      /\ queue'[m] = Append(queue[m], "artifact") \/ queue'[m] = queue[m]
  BY <1>1, ArtifactFacts
<1>3. /\ at' \in [Messages -> {"none", "async", "decide", "turn", "new", "prompt",
                               "complete", "store", "done"}]
      /\ at'[m] = "complete" /\ \A n \in Messages : n # m => at'[n] = at[n]
  BY <1>1, GoesFacts
<1>4. Len(queue'[m]) <= 3
  <2>1. "artifact" \in Events /\ queue[m] \in Seq(Events) /\ Len(queue[m]) <= 2
    BY <1>1 DEF Events, AgentTypeOK, AnswerOK, Room
  <2> QED BY <1>2, <2>1
<1>5. AgentTypeOK'
  <2>1. \A n \in Messages : Len(queue'[n]) <= 3
    BY <1>1, <1>2, <1>4 DEF AgentTypeOK
  <2> QED BY <1>1, <1>2, <1>3, <2>1 DEF AgentTypeOK, web, clients, pipe
<1>6. Typing
  BY <1>1 DEF Typing, clients, AgentTypeOK
<1>7. AnswerOK(m)'
  BY <1>1, <1>3, <1>5, <1>6, ArtifactKept DEF pipe, clients
<1>8. \A n \in Messages : n # m => Same(n)
  BY <1>2, <1>3 DEF Same, clients, pipe
<1> QED BY <1>5, <1>7, <1>8

LEMMA SessionEnds ==
    ASSUME NEW s \in Session
    PROVE  /\ s.mode \in Modes
           /\ [s EXCEPT !.stage = 3, !.complete = TRUE]
                 = [stage |-> 3, mode |-> s.mode, complete |-> TRUE]
<1>1. s.mode \in Modes /\ s = [stage |-> s.stage, mode |-> s.mode, complete |-> s.complete]
  BY DEF Session
<1>2. \A r, k : [r EXCEPT !.stage = 3, !.complete = k] = [[r EXCEPT !.stage = 3] EXCEPT !.complete = k]
  OBVIOUS
<1>4. \A x, y, z, k : [[stage |-> x, mode |-> y, complete |-> z] EXCEPT !.complete = k]
                         = [stage |-> x, mode |-> y, complete |-> k]
  OBVIOUS
<1>5. [s EXCEPT !.stage = 3] = [stage |-> 3, mode |-> s.mode, complete |-> s.complete]
  <2>1. [[stage |-> s.stage, mode |-> s.mode, complete |-> s.complete] EXCEPT !.stage = 3]
           = [stage |-> 3, mode |-> s.mode, complete |-> s.complete]
    OBVIOUS
  <2> QED BY <1>1, <2>1, Zenon
<1>6. [[stage |-> 3, mode |-> s.mode, complete |-> s.complete] EXCEPT !.complete = TRUE]
         = [stage |-> 3, mode |-> s.mode, complete |-> TRUE]
  BY <1>4, Zenon
<1>7. [s EXCEPT !.stage = 3, !.complete = TRUE] = [[s EXCEPT !.stage = 3] EXCEPT !.complete = TRUE]
  BY <1>2, Zenon
<1>8. [[s EXCEPT !.stage = 3] EXCEPT !.complete = TRUE]
         = [[stage |-> 3, mode |-> s.mode, complete |-> s.complete] EXCEPT !.complete = TRUE]
  BY <1>5, Zenon
<1> QED BY <1>1, <1>6, <1>7, <1>8, Zenon

LEMMA ProcessTextKeeps ==
    ASSUME AgentIInv, NEW m \in Messages, ProcessText(m)
    PROVE  AgentIInv'
<1> DEFINE c == m[1]
           s == [session[m] EXCEPT !.stage = 3, !.complete = TRUE]
<1>1. /\ at[m] = "turn" /\ session[m].stage = 2
      /\ session' = [session EXCEPT ![m].stage = 3, ![m].complete = TRUE]
      /\ AddArtifact(m, session[m].mode) /\ Goes(m, "complete")
      /\ UNCHANGED <<web, clients, sessions, orderly, task, closed, pipe>>
  BY DEF ProcessText
<1>2. /\ c \in Contexts /\ AnswerOK(m) /\ AgentTypeOK
      /\ TurnOK(m, c) => Dialogue(c) = Turned(Before(c), m[2], Text(m))
  BY <1>1, TurnFacts
<1>3. session[m] \in Session /\ session[m].mode \in Modes /\ s \in Session /\ s.stage = 3
  <2>1. session[m] \in Session
    BY <1>2 DEF AgentTypeOK
  <2>2. session[m].mode \in Modes /\ s = [stage |-> 3, mode |-> session[m].mode, complete |-> TRUE]
    BY <2>1, SessionEnds
  <2>3. [stage |-> 3, mode |-> session[m].mode, complete |-> TRUE] \in Session
    BY <2>2 DEF Session
  <2> HIDE DEF s
  <2> QED BY <2>1, <2>2, <2>3
<1>4. /\ session' \in [Messages -> Session] /\ session'[m] = s
      /\ \A n \in Messages : n # m => session'[n] = session[n]
  <2>1. session \in [Messages -> Session]
    BY <1>2 DEF AgentTypeOK
  <2>2. session' = [session EXCEPT ![m] = s]
    BY <1>1, <2>1
  <2> HIDE DEF s
  <2> QED BY <1>3, <2>1, <2>2
<1>5. AgentTypeOK' /\ AnswerOK(m)' /\ \A n \in Messages : n # m => Same(n)
  <2>1. session[m].mode \in {m[2], Reverse} \/ MultiTyped(m[1])
    BY <1>1 DEF AgentIInv, ModesOK, SessionOK
  <2> HIDE DEF s, c
  <2> QED BY <1>1, <1>3, <1>4, <2>1, ArtifactTurn
<1>6. at'[m] = "complete"
  BY <1>1, <1>2, GoesFacts
<1>7. SessionOK(session[m], c)'
  BY <1>3, <1>4 DEF SessionOK
<1>8. DialogueOK(c)'
  <2>1. TurnOK(m, c) => TurnOK(m, c)'
    <3> SUFFICES ASSUME TurnOK(m, c) PROVE TurnOK(m, c)'
      OBVIOUS
    <3>1. session[m] = Before(c) /\ Open(Before(c)) /\ m[2] = typed[c]
      BY <1>1 DEF TurnOK
    <3>2. Dialogue(c) = s
      BY <1>1, <1>2, <3>1 DEF Turned
    <3>3. Dialogue(c)' = Dialogue(c) /\ typed' = typed
      BY <1>1 DEF Dialogue, clients
    <3> HIDE DEF s, c
    <3> QED BY <1>3, <1>4, <1>6, <3>1, <3>2, <3>3 DEF TurnOK
  <2>2. DialogueOK(c)
    BY <1>2 DEF AgentIInv
  <2> HIDE DEF c, s
  <2> QED BY <1>1, <1>2, <1>5, <1>6, <2>1, <2>2, DialogueGoesOn DEF clients, c, Same
<1> HIDE DEF c, s
<1> QED BY <1>1, <1>2, <1>5, <1>7, <1>8, TurnKeeps DEF clients, c

LEMMA DirectKeeps ==
    ASSUME AgentIInv, NEW m \in Messages, Direct(m)
    PROVE  AgentIInv'
<1> DEFINE c == m[1]
<1>1. /\ at[m] = "new" /\ Text(m) = "word" /\ AddArtifact(m, m[2]) /\ Goes(m, "complete")
      /\ session' = [session EXCEPT ![m] = NoSession]
      /\ UNCHANGED <<web, clients, sessions, orderly, task, closed, pipe>>
  BY DEF Direct
<1>2. /\ c \in Contexts /\ AnswerOK(m) /\ AgentTypeOK /\ m[2] \in Modes
      /\ TurnOK(m, c) => Dialogue(c) = Turned(Before(c), m[2], Text(m))
  BY <1>1, TurnFacts, Sessions
<1>3. /\ session' \in [Messages -> Session] /\ session'[m] = NoSession
      /\ \A n \in Messages : n # m => session'[n] = session[n]
  BY <1>1, <1>2, Sessions DEF AgentTypeOK
<1>4. AgentTypeOK' /\ AnswerOK(m)' /\ \A n \in Messages : n # m => Same(n)
  BY <1>1, <1>2, <1>3, ArtifactTurn
<1>5. at'[m] = "complete"
  BY <1>1, <1>2, GoesFacts
<1>6. SessionOK(session[m], c)'
  BY <1>3, Sessions DEF SessionOK
<1>7. DialogueOK(c)'
  <2>1. TurnOK(m, c) => TurnOK(m, c)'
    <3> SUFFICES ASSUME TurnOK(m, c) PROVE TurnOK(m, c)'
      OBVIOUS
    <3>1. ~Open(Before(c)) /\ m[2] = typed[c] /\ sessions[c] = Before(c)
      BY <1>1 DEF TurnOK
    <3>2. Dialogue(c) = sessions[c]
      BY <1>1, <1>2, <3>1 DEF Turned
    <3>3. Dialogue(c)' = Dialogue(c) /\ typed' = typed
      BY <1>1 DEF Dialogue, clients
    <3> HIDE DEF c
    <3> QED BY <1>1, <1>3, <1>5, <3>1, <3>2, <3>3, Sessions DEF TurnOK
  <2>2. DialogueOK(c)
    BY <1>2 DEF AgentIInv
  <2> HIDE DEF c
  <2> QED BY <1>1, <1>2, <1>4, <1>5, <2>1, <2>2, DialogueGoesOn DEF clients, c, Same
<1> HIDE DEF c
<1> QED BY <1>1, <1>2, <1>4, <1>6, <1>7, TurnKeeps DEF clients, c

-----------------------------------------------------------------------------
(* The stream of an answer, its client and its webhook. *)

LEMMA AbandonFacts ==
    ASSUME AgentTypeOK, NEW m \in Messages, Abandons(m)
    PROVE  /\ forward' \in [Messages -> {"off", "on", "ended", "abandoned"}]
           /\ queue' \in [Messages -> Seq(Events)] /\ \A n \in Messages : Len(queue'[n]) <= 3
           /\ forward'[m] = "abandoned" /\ queue'[m] = <<>>
           /\ \A n \in Messages : n # m => forward'[n] = forward[n] /\ queue'[n] = queue[n]
<1>1. /\ forward' = [forward EXCEPT ![m] = "abandoned"]
      /\ queue' = [queue EXCEPT ![m] = <<>>]
      /\ <<>> \in Seq(Events)
  BY DEF Abandons
<1>2. /\ queue' \in [Messages -> Seq(Events)] /\ queue'[m] = <<>>
      /\ \A n \in Messages : n # m => queue'[n] = queue[n]
  BY <1>1 DEF AgentTypeOK
<1>3. \A n \in Messages : Len(queue'[n]) <= 3
  <2>1. Len(<<>>) = 0
    OBVIOUS
  <2> QED BY <1>2, <2>1 DEF AgentTypeOK
<1> QED BY <1>1, <1>2, <1>3 DEF AgentTypeOK

(* A client that has given up, been answered or been told of the end: nothing is  *)
(* in the queue, and nothing that was said of the answer changes.               *)
LEMMA ReadKept ==
    ASSUME AgentTypeOK, NEW m \in Messages, AnswerOK(m),
           UNCHANGED <<script, typed, turns, task, artifact, closed>>,
           got'[m] => Made(m), got[m] => got'[m],
           queue'[m] = <<>> \/ queue'[m] = queue[m],
           \/ queue'[m] = queue[m] /\ forward'[m] = forward[m]
           \/ forward'[m] \in {"ended", "abandoned"},
           told'[m] = "final" =>
              \/ told[m] = "final"
              \/ Past(m) /\ (task[m] = "completed" => got[m]),
           told'[m] = "prompted" =>
              \/ told[m] = "prompted"
              \/ Past(m) /\ task[m] \in {"input", "removed"}
    PROVE  AnswerOK(m)'
<1>1. TurnTyped(m)'
  BY DEF AnswerOK, TurnTyped, turns
<1>2. Room(m)'
  <2>1. Len(<<>>) = 0
    OBVIOUS
  <2> QED BY <2>1 DEF AnswerOK, Room, turns
<1>3. Past(m)' = Past(m) /\ Made(m)' = Made(m)
  BY DEF Past, Made, MultiTyped, turns
<1>4. ToldOK(m)'
  <2>1. Subscribed(m)' => Subscribed(m) /\ queue'[m] = queue[m]
    BY DEF Subscribed
  <2>2. ShownBefore(m, Len(queue[m]) + 1) /\ queue'[m] = queue[m] => ShownBefore(m, Len(queue[m]) + 1)'
    BY DEF ShownBefore
  <2> QED BY <1>3, <2>1, <2>2 DEF AnswerOK, ToldOK, turns
<1>5. \A i \in 1..Len(queue'[m]) : EventOK(m, i)'
  <2>1. CASE queue'[m] = <<>>
    <3>1. Len(queue'[m]) = 0
      BY <2>1
    <3> QED BY <3>1
  <2>2. CASE queue'[m] = queue[m]
    BY <1>3, <2>2 DEF AnswerOK, EventOK, ShownBefore
  <2> QED BY <2>1, <2>2
<1> QED BY <1>1, <1>2, <1>4, <1>5 DEF AnswerOK

LEMMA ForwardEndsKeeps ==
    ASSUME AgentIInv, NEW m \in Messages, ForwardEnds(m)
    PROVE  AgentIInv'
<1>1. /\ forward' = [forward EXCEPT ![m] = "ended"]
      /\ UNCHANGED <<web, clients, turns, manager, got>>
  BY DEF ForwardEnds
<1>2. AgentTypeOK /\ AnswerOK(m)
  BY DEF AgentIInv
<1>3. /\ forward' \in [Messages -> {"off", "on", "ended", "abandoned"}] /\ forward'[m] = "ended"
      /\ \A n \in Messages : n # m => forward'[n] = forward[n]
  BY <1>1, <1>2 DEF AgentTypeOK
<1>4. AgentTypeOK'
  BY <1>1, <1>2, <1>3 DEF AgentTypeOK, web, clients, turns, manager
<1>5. AnswerOK(m)'
  <2>1. got[m] => Made(m)
    BY <1>2 DEF AnswerOK, ToldOK
  <2> QED BY <1>1, <1>2, <1>3, <2>1, ReadKept DEF clients, turns, manager
<1>6. \A n \in Messages : n # m => Same(n)
  BY <1>1, <1>3 DEF Same, clients, turns, manager
<1> QED BY <1>1, <1>4, <1>5, <1>6, QuietKeeps DEF clients

LEMMA StreamClosedKeeps ==
    ASSUME AgentIInv, NEW m \in Messages, StreamClosed(m)
    PROVE  AgentIInv'
<1>1. /\ told' = [told EXCEPT ![m] = "cut"]
      /\ UNCHANGED <<web, script, typed, ended, turns, manager, pipe>>
  BY DEF StreamClosed
<1>2. AgentTypeOK /\ AnswerOK(m)
  BY DEF AgentIInv
<1>3. /\ told' \in [Messages -> {"none", "waiting", "answered", "prompted", "final", "cut", "left"}]
      /\ told'[m] = "cut" /\ \A n \in Messages : n # m => told'[n] = told[n]
  BY <1>1, <1>2 DEF AgentTypeOK
<1>4. AgentTypeOK'
  BY <1>1, <1>2, <1>3 DEF AgentTypeOK, web, pipe, turns, manager
<1>5. AnswerOK(m)'
  <2>1. got[m] => Made(m)
    BY <1>2 DEF AnswerOK, ToldOK
  <2> QED BY <1>1, <1>2, <1>3, <2>1, ReadKept DEF pipe, turns, manager
<1>6. \A n \in Messages : n # m => Same(n)
  BY <1>1, <1>3 DEF Same, pipe, turns, manager
<1> QED BY <1>1, <1>4, <1>5, <1>6, QuietKeeps

LEMMA GivesUpKeeps ==
    ASSUME AgentIInv, NEW m \in Messages, GivesUp(m)
    PROVE  AgentIInv'
<1>1. /\ told' = [told EXCEPT ![m] = "left"] /\ Abandons(m)
      /\ UNCHANGED <<web, script, typed, ended, turns, task, artifact, closed, got>>
  BY DEF GivesUp
<1>2. AgentTypeOK /\ AnswerOK(m)
  BY DEF AgentIInv
<1>3. /\ told' \in [Messages -> {"none", "waiting", "answered", "prompted", "final", "cut", "left"}]
      /\ told'[m] = "left" /\ \A n \in Messages : n # m => told'[n] = told[n]
  BY <1>1, <1>2 DEF AgentTypeOK
<1>4. /\ forward' \in [Messages -> {"off", "on", "ended", "abandoned"}]
      /\ queue' \in [Messages -> Seq(Events)] /\ \A n \in Messages : Len(queue'[n]) <= 3
      /\ forward'[m] = "abandoned" /\ queue'[m] = <<>>
      /\ \A n \in Messages : n # m => forward'[n] = forward[n] /\ queue'[n] = queue[n]
  BY <1>1, <1>2, AbandonFacts
<1>5. AgentTypeOK'
  BY <1>1, <1>2, <1>3, <1>4 DEF AgentTypeOK, web, turns
<1>6. AnswerOK(m)'
  <2>1. got[m] => Made(m)
    BY <1>2 DEF AnswerOK, ToldOK
  <2> QED BY <1>1, <1>2, <1>3, <1>4, <2>1, ReadKept DEF turns
<1>7. \A n \in Messages : n # m => Same(n)
  BY <1>1, <1>3, <1>4 DEF Same, turns
<1> QED BY <1>1, <1>5, <1>6, <1>7, QuietKeeps

LEMMA RequestEndsKeeps ==
    ASSUME AgentIInv, NEW m \in Messages, RequestEnds(m)
    PROVE  AgentIInv'
<1>1. /\ ended' = [ended EXCEPT ![m] = TRUE]
      /\ UNCHANGED <<web, script, typed, told, turns, manager, pipe>>
  BY DEF RequestEnds
<1>2. AgentTypeOK /\ AnswerOK(m)
  BY DEF AgentIInv
<1>3. ended' \in [Messages -> BOOLEAN]
  BY <1>1, <1>2 DEF AgentTypeOK
<1>4. AgentTypeOK'
  BY <1>1, <1>2, <1>3 DEF AgentTypeOK, web, pipe, turns, manager
<1>5. \A n \in Messages : Same(n)
  BY <1>1 DEF Same, pipe, turns, manager
<1>6. Typing
  BY <1>1, <1>2 DEF Typing, AgentTypeOK
<1>7. AnswerOK(m)'
  BY <1>2, <1>4, <1>5, <1>6, OthersKept
<1> QED BY <1>1, <1>4, <1>5, <1>7, QuietKeeps

LEMMA CancelKeeps ==
    ASSUME AgentIInv, NEW m \in Messages, cancelTask(m)
    PROVE  AgentIInv'
<1>1. /\ Stored(m)
      /\ task' = [task EXCEPT ![m] = "removed"] /\ closed' = [closed EXCEPT ![m] = TRUE]
      /\ hooks' = hooks \ {m}
      /\ notes' = IF script[m[1]] \in Hooked THEN notes \cup {<<m, "canceled">>} ELSE notes
      /\ UNCHANGED <<clients, turns, artifact, queue, pipe, due, notified, failed>>
  BY DEF cancelTask
<1>2. AgentTypeOK /\ AnswerOK(m)
  BY DEF AgentIInv
<1>3. /\ task' \in [Messages -> States] /\ task'[m] = "removed"
      /\ closed' \in [Messages -> BOOLEAN] /\ closed'[m] = TRUE
      /\ \A n \in Messages : n # m => task'[n] = task[n] /\ closed'[n] = closed[n]
  BY <1>1, <1>2 DEF AgentTypeOK, States
<1>4. /\ notes' \subseteq Messages \X (Events \ {"artifact"}) /\ hooks' \subseteq Messages
  BY <1>1, <1>2 DEF AgentTypeOK, Events
<1>5. AgentTypeOK'
  BY <1>1, <1>2, <1>3, <1>4 DEF AgentTypeOK, clients, turns, pipe
<1>6. AnswerOK(m)'
  <2>1. TurnTyped(m)'
    BY <1>1, <1>2, <1>3 DEF AnswerOK, TurnTyped, turns, clients
  <2>2. Room(m)'
    BY <1>1, <1>2 DEF AnswerOK, Room, turns
  <2>3. Past(m)' = Past(m) /\ Made(m)' = Made(m)
    BY <1>1 DEF Past, Made, MultiTyped, turns, clients
  <2>4. ToldOK(m)'
    BY <1>1, <1>2, <1>3, <2>3 DEF AnswerOK, ToldOK, Subscribed, clients, pipe, turns
  <2>5. \A i \in 1..Len(queue[m]) : EventOK(m, i)'
    BY <1>1, <1>2, <1>3, <2>3 DEF AnswerOK, EventOK, ShownBefore, pipe
  <2> QED BY <1>1, <2>1, <2>2, <2>4, <2>5 DEF AnswerOK
<1>7. \A n \in Messages : n # m => Same(n)
  BY <1>1, <1>3 DEF Same, turns, clients, pipe
<1> QED BY <1>1, <1>5, <1>6, <1>7, QuietKeeps DEF clients

(* The client reads an event that does not end its wait. *)
LEMMA TailKept ==
    ASSUME AgentTypeOK, NEW m \in Messages, AnswerOK(m), queue[m] # <<>>,
           UNCHANGED <<script, typed, told, turns, task, artifact, closed>>,
           forward'[m] = forward[m], queue'[m] = Tail(queue[m]),
           got'[m] <=> got[m] \/ Head(queue[m]) = "artifact"
    PROVE  AnswerOK(m)'
<1>1. /\ Len(queue[m]) \in Nat \ {0} /\ Len(queue'[m]) = Len(queue[m]) - 1
      /\ Head(queue[m]) = queue[m][1]
      /\ \A i \in 1..Len(queue'[m]) : queue'[m][i] = queue[m][i + 1] /\ i + 1 \in 1..Len(queue[m])
  <2>1. queue[m] \in Seq(Events)
    BY DEF AgentTypeOK
  <2> QED BY <2>1
<1>2. TurnTyped(m)'
  BY DEF AnswerOK, TurnTyped, turns
<1>3. Room(m)'
  <2>1. at[m] \notin {"none", "async"}
    BY DEF AnswerOK, Room
  <2> QED BY <1>1, <2>1 DEF AnswerOK, Room, turns
<1>4. Past(m)' = Past(m) /\ Made(m)' = Made(m)
  BY DEF Past, Made, MultiTyped, turns
<1>5. ASSUME NEW i \in 1..(Len(queue'[m]) + 1), ShownBefore(m, i + 1) PROVE ShownBefore(m, i)'
  <2>1. CASE got[m]
    BY <2>1 DEF ShownBefore
  <2>2. CASE ~got[m]
    <3>1. PICK j \in 1..((i + 1) - 1) : queue[m][j] = "artifact"
      BY <1>5, <2>2 DEF ShownBefore
    <3>2. CASE j = 1
      BY <1>1, <3>1, <3>2 DEF ShownBefore
    <3>3. CASE j # 1
      <4>1. /\ j - 1 \in 1..(i - 1) /\ j - 1 \in 1..Len(queue'[m]) /\ (j - 1) + 1 = j
        BY <1>1, <3>3
      <4>2. queue'[m][j - 1] = "artifact"
        BY <1>1, <3>1, <4>1
      <4> QED BY <4>1, <4>2 DEF ShownBefore
    <3> QED BY <3>2, <3>3
  <2> QED BY <2>1, <2>2
<1>6. ASSUME NEW i \in 1..Len(queue'[m]) PROVE EventOK(m, i)'
  <2>1. /\ queue'[m][i] = queue[m][i + 1] /\ i + 1 \in 1..Len(queue[m])
        /\ i \in 1..(Len(queue'[m]) + 1)
    BY <1>1
  <2>2. EventOK(m, i + 1)
    BY <2>1 DEF AnswerOK
  <2>3. ShownBefore(m, i + 1) => ShownBefore(m, i)'
    BY <1>5, <2>1
  <2> QED BY <1>4, <2>1, <2>2, <2>3 DEF EventOK
<1>7. ToldOK(m)'
  <2>1. got'[m] => Made(m)
    <3>1. Head(queue[m]) = "artifact" => EventOK(m, 1) /\ queue[m][1] = "artifact"
      BY <1>1 DEF AnswerOK
    <3> QED BY <3>1 DEF AnswerOK, ToldOK, EventOK
  <2>2. ASSUME NEW k, k = Len(queue'[m]) + 1, ShownBefore(m, Len(queue[m]) + 1)
        PROVE  ShownBefore(m, k)'
    <3>1. k \in 1..(Len(queue'[m]) + 1) /\ Len(queue[m]) + 1 = k + 1
      BY <1>1, <2>2
    <3> QED BY <1>5, <2>2, <3>1
  <2>3. ShownBefore(m, Len(queue[m]) + 1) => ShownBefore(m, Len(queue[m]) + 1)'
    BY <2>2 DEF ShownBefore
  <2> QED BY <1>4, <2>1, <2>3 DEF AnswerOK, ToldOK, Subscribed, turns
<1> QED BY <1>2, <1>3, <1>6, <1>7 DEF AnswerOK

LEMMA ResponseKeeps ==
    ASSUME AgentIInv, NEW m \in Messages, processStreamResponse(m)
    PROVE  AgentIInv'
<1> DEFINE event == Head(queue[m])
<1>1. /\ told[m] = "waiting" /\ queue[m] # <<>>
      /\ got' = [got EXCEPT ![m] = @ \/ event = "artifact"]
      /\ IF event \in {"input", "completed", "canceled"}
         THEN /\ told' = [told EXCEPT ![m] = IF event = "input" THEN "prompted" ELSE "final"]
              /\ Abandons(m)
         ELSE /\ queue' = [queue EXCEPT ![m] = Tail(@)]
              /\ UNCHANGED <<told, forward>>
      /\ IF event = "artifact" THEN UNCHANGED <<notes, due>> ELSE Notes(m, event)
      /\ UNCHANGED <<script, typed, ended, turns, task, artifact, closed, hooks, notified, failed>>
  BY DEF processStreamResponse
<1>2. AgentTypeOK /\ AnswerOK(m)
  BY DEF AgentIInv
<1>3. event \in Events /\ EventOK(m, 1) /\ event = queue[m][1]
  <2>1. queue[m] \in Seq(Events)
    BY <1>2 DEF AgentTypeOK
  <2>2. 1 \in 1..Len(queue[m]) /\ event \in Events /\ event = queue[m][1]
    BY <1>1, <2>1
  <2> QED BY <1>2, <2>2 DEF AnswerOK
<1>4. /\ got' \in [Messages -> BOOLEAN] /\ (got'[m] <=> got[m] \/ event = "artifact")
      /\ \A n \in Messages : n # m => got'[n] = got[n]
  <2>1. (event = "artifact") \in BOOLEAN
    OBVIOUS
  <2> HIDE DEF event
  <2> QED BY <1>1, <1>2, <2>1 DEF AgentTypeOK
<1>5. notes' \cup due' \cup notified' \cup failed' \subseteq Messages \X (Events \ {"artifact"})
  <2>1. event # "artifact" => <<m, event>> \in Messages \X (Events \ {"artifact"})
    BY <1>3
  <2> HIDE DEF event
  <2> QED BY <1>1, <1>2, <2>1 DEF Notes, AgentTypeOK
<1> HIDE DEF event
<1>6. CASE event \in {"input", "completed", "canceled"}
  <2>1. /\ told' = [told EXCEPT ![m] = IF event = "input" THEN "prompted" ELSE "final"]
        /\ Abandons(m)
    BY <1>1, <1>6
  <2>2. /\ forward' \in [Messages -> {"off", "on", "ended", "abandoned"}]
        /\ queue' \in [Messages -> Seq(Events)] /\ \A n \in Messages : Len(queue'[n]) <= 3
        /\ forward'[m] = "abandoned" /\ queue'[m] = <<>>
        /\ \A n \in Messages : n # m => forward'[n] = forward[n] /\ queue'[n] = queue[n]
    BY <1>2, <2>1, AbandonFacts
  <2>3. /\ told' \in [Messages -> {"none", "waiting", "answered", "prompted", "final", "cut", "left"}]
        /\ event = "input" => told'[m] = "prompted"
        /\ event # "input" => told'[m] = "final"
        /\ \A n \in Messages : n # m => told'[n] = told[n]
    BY <1>2, <2>1 DEF AgentTypeOK
  <2>4. AgentTypeOK'
    BY <1>1, <1>2, <1>4, <1>5, <2>2, <2>3 DEF AgentTypeOK, turns
  <2>5. AnswerOK(m)'
    <3>1. got'[m] <=> got[m]
      BY <1>4, <1>6
    <3>2. got[m] => Made(m)
      BY <1>2 DEF AnswerOK, ToldOK
    <3>3. event = "completed" => Past(m) /\ (task[m] = "completed" => got[m])
      <4>1. ShownBefore(m, 1) => got[m]
        BY DEF ShownBefore
      <4> QED BY <1>3, <4>1 DEF EventOK
    <3>4. event = "canceled" => Past(m) /\ task[m] # "completed"
      BY <1>3 DEF EventOK
    <3>5. event = "input" => Past(m) /\ task[m] \in {"input", "removed"}
      BY <1>3 DEF EventOK
    <3> QED BY <1>1, <1>2, <1>6, <2>2, <2>3, <3>1, <3>2, <3>3, <3>4, <3>5, ReadKept
  <2>6. \A n \in Messages : n # m => Same(n)
    BY <1>1, <1>4, <2>2, <2>3 DEF Same, turns
  <2> QED BY <1>1, <2>4, <2>5, <2>6, QuietKeeps
<1>7. CASE event \notin {"input", "completed", "canceled"}
  <2>1. queue' = [queue EXCEPT ![m] = Tail(@)] /\ UNCHANGED <<told, forward>>
    BY <1>1, <1>7
  <2>2. /\ queue' \in [Messages -> Seq(Events)] /\ queue'[m] = Tail(queue[m])
        /\ \A n \in Messages : n # m => queue'[n] = queue[n]
        /\ Len(queue'[m]) <= 3
    <3>1. queue[m] \in Seq(Events) /\ Len(queue[m]) <= 3
      BY <1>2 DEF AgentTypeOK
    <3>2. Tail(queue[m]) \in Seq(Events) /\ Len(Tail(queue[m])) <= 3
      BY <1>1, <3>1
    <3> QED BY <1>2, <2>1, <3>2 DEF AgentTypeOK
  <2>3. AgentTypeOK'
    <3>1. \A n \in Messages : Len(queue'[n]) <= 3
      BY <1>2, <2>2 DEF AgentTypeOK
    <3> QED BY <1>1, <1>2, <1>4, <1>5, <2>1, <2>2, <3>1 DEF AgentTypeOK, turns
  <2>4. AnswerOK(m)'
    BY <1>1, <1>2, <1>4, <2>1, <2>2, TailKept DEF event
  <2>5. \A n \in Messages : n # m => Same(n)
    BY <1>1, <1>4, <2>1, <2>2 DEF Same, turns
  <2> QED BY <1>1, <2>3, <2>4, <2>5, QuietKeeps
<1> QED BY <1>6, <1>7

LEMMA WebhookKeeps ==
    ASSUME AgentIInv, NEW m \in Messages,
           setPushNotification(m) \/ \E status \in Events : maybeSendStatusPushNotification(m, status)
    PROVE  AgentIInv'
<1>1. UNCHANGED <<clients, turns, manager, pipe>>
  BY DEF setPushNotification, maybeSendStatusPushNotification
<1>2. AgentTypeOK /\ AnswerOK(m)
  BY DEF AgentIInv
<1>3. /\ hooks' \subseteq Messages
      /\ notes' \cup due' \cup notified' \cup failed' \subseteq Messages \X (Events \ {"artifact"})
  <2>1. CASE setPushNotification(m)
    BY <1>2, <2>1 DEF AgentTypeOK, setPushNotification
  <2>2. ASSUME NEW status \in Events, maybeSendStatusPushNotification(m, status)
        PROVE  /\ hooks' \subseteq Messages
               /\ notes' \cup due' \cup notified' \cup failed' \subseteq Messages \X (Events \ {"artifact"})
    <3>1. /\ <<m, status>> \in notes /\ notes' \subseteq notes /\ UNCHANGED <<hooks, due>>
          /\ notified' \subseteq notified \cup {<<m, status>>}
          /\ failed' \subseteq failed \cup {<<m, status>>}
      BY <2>2 DEF maybeSendStatusPushNotification, sendStatus, PushNotificationHandler
    <3>2. /\ hooks \subseteq Messages
          /\ notes \cup due \cup notified \cup failed \subseteq Messages \X (Events \ {"artifact"})
      BY <1>2 DEF AgentTypeOK
    <3> QED BY <3>1, <3>2
  <2> QED BY <2>1, <2>2
<1>4. AgentTypeOK'
  BY <1>1, <1>2, <1>3 DEF AgentTypeOK, clients, turns, manager, pipe
<1>5. \A n \in Messages : Same(n)
  BY <1>1 DEF Same, clients, turns, manager, pipe
<1>6. Typing
  BY <1>1, <1>2 DEF Typing, clients, AgentTypeOK
<1>7. AnswerOK(m)'
  BY <1>2, <1>4, <1>5, <1>6, OthersKept
<1> QED BY <1>1, <1>4, <1>5, <1>7, QuietKeeps DEF clients

(* The next message of a context. *)
LEMMA InputKeeps ==
    ASSUME AgentIInv, NEW c \in Contexts, processUserInput(c)
    PROVE  AgentIInv'
<1>1. AgentTypeOK /\ Longest \in Nat /\ typed[c] \in Nat
      /\ typed[c] < Len(script[c]) /\ Len(script[c]) <= Longest /\ Len(script[c]) \in Nat
  <2>1. AgentTypeOK /\ Longest \in Nat
    BY ScriptsAssumption DEF AgentIInv
  <2>2. typed[c] \in Nat /\ script[c] \in Seq(Texts) /\ script[c] \in Scripts[c]
    BY <2>1 DEF AgentTypeOK
  <2> QED BY <2>1, <2>2, ScriptsAssumption DEF processUserInput, AtPrompt
<1>0. PICK m \in Messages : m = Turn(c)
  <2>1. typed[c] + 1 \in 1..Longest
    BY <1>1
  <2>2. Turn(c) \in Messages
    BY <2>1 DEF Turn, Messages
  <2> QED BY <2>2
<1>2. m[1] = c /\ m[2] = typed[c] + 1 /\ m[2] \in 1..Longest
  BY <1>0, <1>1 DEF Turn
<1>3. at[m] = "none" /\ queue[m] = <<>> /\ AnswerOK(m)
  <2>1. AnswerOK(m)
    BY <1>2 DEF AgentIInv
  <2>2. ~ (m[2] <= typed[m[1]])
    BY <1>1, <1>2
  <2> QED BY <2>1, <2>2 DEF AnswerOK, TurnTyped, Room
<1>4. PICK streamed \in BOOLEAN :
         /\ ProcessMessage(m, streamed)
         /\ told' = [told EXCEPT ![m] = IF streamed THEN "waiting" ELSE "answered"]
  BY <1>0 DEF processUserInput
<1>5. /\ typed' = [typed EXCEPT ![c] = @ + 1]
      /\ orderly' = [orderly EXCEPT ![c] = @ /\ Running(c) = {}]
      /\ UNCHANGED <<web, script, ended, sessions, artifact, queue, closed, got>>
  BY DEF processUserInput
<1>6. /\ typed' \in [Contexts -> 0..Longest] /\ typed'[c] = typed[c] + 1
      /\ \A d \in Contexts : d # c => typed'[d] = typed[d]
      /\ \A d \in Contexts : typed'[d] <= Len(script[d])
  BY <1>1, <1>5 DEF AgentTypeOK
<1>7. /\ told' \in [Messages -> {"none", "waiting", "answered", "prompted", "final", "cut", "left"}]
      /\ told'[m] \in {"waiting", "answered"}
      /\ \A n \in Messages : n # m => told'[n] = told[n]
  BY <1>1, <1>2, <1>4 DEF AgentTypeOK
<1>8. /\ orderly' \in [Contexts -> BOOLEAN] /\ \A d \in Contexts : d # c => orderly'[d] = orderly[d]
      /\ orderly'[c] => orderly[c] /\ Running(c) = {}
  <2>1. (Running(c) = {}) \in BOOLEAN
    OBVIOUS
  <2> QED BY <1>1, <1>5, <2>1 DEF AgentTypeOK
<1>9. \/ Goes(m, "async") /\ BuildTask(m) /\ session' = session
      \/ Goes(m, "turn") /\ BuildTask(m) /\ session' = [session EXCEPT ![m] = sessions[c]] /\ Open(sessions[c])
      \/ Goes(m, "done") /\ UNCHANGED <<task, session>> /\ ~Open(sessions[c]) /\ Text(m) = "word"
  BY <1>2, <1>4 DEF ProcessMessage, processMultiTurnSession, processSimpleCommand
<1>10. forward' \in [Messages -> {"off", "on", "ended", "abandoned"}]
       /\ \A n \in Messages : n # m => forward'[n] = forward[n]
  BY <1>1, <1>2, <1>4 DEF ProcessMessage, SubscribeTask, AgentTypeOK
<1>11. PICK to \in {"async", "turn", "done"} : Goes(m, to)
  BY <1>9
<1>12. /\ at' \in [Messages -> {"none", "async", "decide", "turn", "new", "prompt",
                                "complete", "store", "done"}]
       /\ at'[m] = to /\ \A n \in Messages : n # m => at'[n] = at[n]
  BY <1>1, <1>2, <1>11, GoesFacts
<1>13. \A s : Goes(m, s) => at'[m] = s
  BY <1>1, <1>2 DEF Goes, AgentTypeOK
<1>14. /\ task' \in [Messages -> States] /\ \A n \in Messages : n # m => task'[n] = task[n]
       /\ at'[m] # "done" => task'[m] = "submitted"
       /\ at'[m] = "done" => task'[m] = task[m]
  <2>1. CASE BuildTask(m) /\ at'[m] # "done"
    BY <1>1, <1>2, <2>1 DEF BuildTask, AgentTypeOK, States
  <2>2. CASE UNCHANGED task /\ at'[m] = "done"
    BY <1>1, <2>2 DEF AgentTypeOK
  <2> QED BY <1>9, <1>13, <2>1, <2>2
<1>15. /\ session' \in [Messages -> Session] /\ \A n \in Messages : n # m => session'[n] = session[n]
       /\ at'[m] = "turn" => session'[m] = sessions[c] /\ Open(sessions[c])
       /\ at'[m] # "turn" => session'[m] = session[m]
  <2>1. CASE session' = [session EXCEPT ![m] = sessions[c]] /\ Open(sessions[c]) /\ at'[m] = "turn"
    BY <1>1, <1>2, <2>1 DEF AgentTypeOK
  <2>2. CASE session' = session /\ at'[m] # "turn"
    BY <1>1, <2>2 DEF AgentTypeOK
  <2> QED BY <1>9, <1>13, <2>1, <2>2
<1>16. AgentTypeOK'
  BY <1>1, <1>5, <1>6, <1>7, <1>8, <1>10, <1>12, <1>14, <1>15 DEF AgentTypeOK, web
<1>17. Typing
  <2>1. \A d \in Contexts : typed[d] \in Nat
    BY <1>1 DEF AgentTypeOK
  <2> QED BY <1>5, <1>6, <2>1 DEF Typing
<1>18. AnswerOK(m)'
  <2>1. TurnTyped(m)'
    BY <1>1, <1>2, <1>3, <1>5, <1>6, <1>14 DEF AnswerOK, TurnTyped
  <2>2. queue'[m] = <<>> /\ Len(<<>>) = 0
    BY <1>3, <1>5
  <2>3. Room(m)'
    BY <2>2 DEF Room
  <2>4. got[m] => Made(m)'
    BY <1>1, <1>2, <1>3, <1>5, <1>16, <1>17, MadeStays DEF AnswerOK, ToldOK
  <2>5. ToldOK(m)'
    BY <1>5, <1>7, <1>12, <2>4 DEF ToldOK
  <2>6. Len(queue'[m]) = 0
    BY <2>2
  <2> QED BY <2>1, <2>3, <2>5, <2>6 DEF AnswerOK
<1>19. \A n \in Messages : n # m => Same(n)
  BY <1>5, <1>7, <1>10, <1>12, <1>14, <1>15 DEF Same
<1>20. \A n \in Messages : AnswerOK(n)'
  BY <1>1, <1>16, <1>17, <1>18, <1>19, OthersKept DEF AgentIInv
<1>21. ModesOK'
  <2>1. ModesOK
    BY DEF AgentIInv
  <2>2. session'[m] = session[m] \/ SessionOK(session[m], c)'
    BY <1>1, <1>15, <1>16, <1>17, <2>1, MultiStays DEF ModesOK, SessionOK
  <2> QED BY <1>1, <1>2, <1>5, <1>15, <1>16, <1>17, <2>1, <2>2, ModesKept
<1>22. ASSUME NEW d \in Contexts, d # c PROVE DialogueOK(d)'
  <2>1. \A n \in Messages : n[1] = d => at'[n] = at[n] /\ session'[n] = session[n]
    BY <1>2, <1>12, <1>15, <1>22
  <2> QED BY <1>5, <1>6, <1>8, <1>22, <2>1, DialogueKept DEF AgentIInv
<1>23. DialogueOK(c)'
  <2> SUFFICES ASSUME orderly'[c]
               PROVE  /\ Running(c)' = {} => sessions'[c] = Dialogue(c)'
                      /\ \A n \in Running(c)' : TurnOK(n, c)'
    BY DEF DialogueOK
  <2>1. Running(c) = {} /\ sessions[c] = Dialogue(c)
    BY <1>8 DEF AgentIInv, DialogueOK
  <2>2. \A n \in Running(c)' : n = m /\ at'[m] # "done"
    BY <1>12, <2>1 DEF Running
  <2>3. Before(c)' = sessions[c]
    <3>1. typed'[c] - 1 = typed[c]
      BY <1>1, <1>6
    <3> QED BY <1>5, <2>1, <3>1 DEF Before, Dialogue
  <2>4. CASE at'[m] = "done"
    <3>1. ~Open(sessions[c]) /\ Text(m) = "word"
      BY <1>9, <1>13, <2>4
    <3>2. Dialogue(c)' = Turned(After(script[c], typed[c]), m[2], Text(m))
      <4>1. m[2] - 1 = typed[c] /\ typed'[c] = m[2]
        BY <1>1, <1>2, <1>6
      <4>2. Dialogue(c)' = After(script[c], m[2])
        BY <1>5, <4>1 DEF Dialogue
      <4> QED BY <1>2, <4>1, <4>2, AfterFacts DEF Text
    <3>3. Dialogue(c)' = sessions[c]
      BY <2>1, <3>1, <3>2 DEF Turned, Dialogue
    <3> QED BY <1>5, <2>2, <2>4, <3>3
  <2>5. CASE at'[m] # "done"
    <3>1. TurnOK(m, c)'
      BY <1>2, <1>5, <1>6, <1>12, <1>15, <2>3, <2>5 DEF TurnOK
    <3>2. m \in Running(c)'
      BY <1>2, <1>12, <2>5 DEF Running
    <3> QED BY <2>2, <3>1, <3>2
  <2> QED BY <2>4, <2>5
<1> QED BY <1>16, <1>20, <1>21, <1>22, <1>23 DEF AgentIInv

LEMMA InitAgentIInv == AgentInit => AgentIInv
<1> SUFFICES ASSUME AgentInit PROVE AgentIInv
  OBVIOUS
<1>1. Longest \in Nat
  BY ScriptsAssumption
<1>2. <<>> \in Seq(Events) /\ Len(<<>>) = 0
  OBVIOUS
<1>3. \A c \in Contexts : script[c] \in Scripts[c] /\ script[c] \in Seq(Texts) /\ Len(script[c]) \in Nat
  <2>1. \A c \in Contexts : script[c] \in Scripts[c]
    BY DEF AgentInit
  <2>2. \A c \in Contexts : \A s \in Scripts[c] : s \in Seq(Texts)
    BY ScriptsAssumption
  <2>3. \A s \in Seq(Texts) : Len(s) \in Nat
    OBVIOUS
  <2> QED BY <2>1, <2>2, <2>3
<1>4. AgentTypeOK
  <2>1. script \in [Contexts -> Seq(Texts)]
    BY <1>3 DEF AgentInit
  <2>2. typed \in [Contexts -> 0..Longest] /\ \A c \in Contexts : typed[c] <= Len(script[c])
    BY <1>1, <1>3 DEF AgentInit
  <2>3. queue \in [Messages -> Seq(Events)] /\ \A m \in Messages : Len(queue[m]) <= 3
    BY <1>2 DEF AgentInit
  <2>4. session \in [Messages -> Session] /\ sessions \in [Contexts -> Session]
        /\ artifact \in [Messages -> Modes]
    BY Sessions DEF AgentInit
  <2> QED BY <1>3, <2>1, <2>2, <2>3, <2>4 DEF AgentInit, AgentTypeOK, States
<1>5. ModesOK
  BY Sessions, MessageFacts DEF AgentInit, ModesOK, SessionOK
<1>6. ASSUME NEW m \in Messages PROVE AnswerOK(m)
  <2>1. queue[m] = <<>> /\ Len(queue[m]) = 0
    BY <1>2 DEF AgentInit
  <2>2. TurnTyped(m) /\ ToldOK(m)
    BY DEF AgentInit, TurnTyped, ToldOK
  <2> QED BY <2>1, <2>2 DEF AnswerOK, Room
<1>7. ASSUME NEW c \in Contexts PROVE DialogueOK(c)
  <2>1. typed[c] = 0 /\ sessions[c] = NoSession /\ Running(c) = {}
    BY DEF AgentInit, Running
  <2> QED BY <1>4, <2>1, DialogueSteps DEF DialogueOK
<1> QED BY <1>4, <1>5, <1>6, <1>7 DEF AgentIInv

LEMMA NextAgentIInv == AgentIInv /\ [AgentNext]_agentVars => AgentIInv'
<1> SUFFICES ASSUME AgentIInv, [AgentNext]_agentVars PROVE AgentIInv'
  OBVIOUS
<1>1. CASE UNCHANGED agentVars
  <2>1. AgentTypeOK'
    BY <1>1 DEF AgentIInv, AgentTypeOK, agentVars, clients, turns, manager, pipe, web
  <2>2. UNCHANGED <<clients, turns, manager, pipe, web>>
    BY <1>1 DEF agentVars
  <2>3. Typing /\ \A n \in Messages : Same(n)
    BY <2>2 DEF AgentIInv, AgentTypeOK, Typing, Same, clients, turns, manager, pipe
  <2>4. \A n \in Messages : AnswerOK(n)'
    BY <2>1, <2>3, OthersKept DEF AgentIInv
  <2>5. ModesOK'
    BY <2>1, <2>2, <2>3, ModesKept DEF AgentIInv, turns
  <2>6. \A c \in Contexts : DialogueOK(c)'
    BY <2>2, DialogueKept DEF AgentIInv, clients, turns
  <2> QED BY <2>1, <2>4, <2>5, <2>6 DEF AgentIInv
<1>2. ASSUME NEW c \in Contexts, processUserInput(c) PROVE AgentIInv'
  BY <1>2, InputKeeps
<1>3. ASSUME NEW m \in Messages, TurnStep(m) PROVE AgentIInv'
  BY <1>3, AsyncKeeps, DecideKeeps, SelectModeKeeps, ProcessTextKeeps, CompleteKeeps, StoreKeeps,
     CancelledKeeps, MultiStepKeeps, PromptKeeps, InputExampleKeeps, DirectKeeps
     DEF TurnStep
<1>4. ASSUME NEW m \in Messages, AnswerStep(m) PROVE AgentIInv'
  BY <1>4, ForwardEndsKeeps, ResponseKeeps, StreamClosedKeeps DEF AnswerStep
<1>5. ASSUME NEW m \in Messages, NotifyStep(m) \/ setPushNotification(m) PROVE AgentIInv'
  BY <1>5, WebhookKeeps DEF NotifyStep
<1>6. ASSUME NEW m \in Messages, GivesUp(m) \/ RequestEnds(m) \/ cancelTask(m) PROVE AgentIInv'
  BY <1>6, GivesUpKeeps, RequestEndsKeeps, CancelKeeps
<1> QED BY <1>1, <1>2, <1>3, <1>4, <1>5, <1>6 DEF AgentNext

(* The inductive invariant of the text processing agent: what is in the queue of  *)
(* an answer, where its turn is and what its client was told agree; and in an      *)
(* orderly context the one turn there is takes the session where its dialogue has it. *)
THEOREM TurnsInvariant == AgentSafeSpec => []AgentIInv
<1> QED BY InitAgentIInv, NextAgentIInv, PTL DEF AgentSafeSpec

(* The type invariant: whatever is typed and however turns overlap, no answer has  *)
(* more than three events in its queue, and no session or mode is out of range.   *)
THEOREM AgentTypeCorrect == AgentSafeSpec => []AgentTypeOK
<1>1. AgentIInv => AgentTypeOK
  BY DEF AgentIInv
<1> QED BY <1>1, TurnsInvariant, PTL

(* What a client of the example is told is so: a completed answer comes after its  *)
(* artifact, made with a mode typed in the same context; a question is that of a     *)
(* task that waits for input or was cancelled since; and in a context whose turns    *)
(* did not overlap the session is the one its messages describe.                  *)
THEOREM DialoguesAreHonest == AgentSafeSpec => []TurnsAreHonest
<1>1. AgentIInv => TurnsAreHonest
  <2> SUFFICES ASSUME AgentIInv PROVE TurnsAreHonest
    OBVIOUS
  <2>1. ASSUME NEW m \in Messages
        PROVE  /\ told[m] = "final" /\ task[m] = "completed" => got[m]
               /\ told[m] = "prompted" => task[m] \in {"input", "removed"}
               /\ got[m] /\ artifact[m] \notin {m[2], Reverse} =>
                     \E i \in 1..typed[m[1]] : script[m[1]][i] = "multi"
    BY DEF AgentIInv, AnswerOK, ToldOK, Made, MultiTyped
  <2>2. \A c \in Contexts : orderly[c] /\ Running(c) = {} => sessions[c] = Dialogue(c)
    BY DEF AgentIInv, DialogueOK
  <2> QED BY <2>1, <2>2 DEF TurnsAreHonest
<1> QED BY <1>1, TurnsInvariant, PTL

=============================================================================
