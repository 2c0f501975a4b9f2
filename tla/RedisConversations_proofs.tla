----------------------- MODULE RedisConversations_proofs -----------------------
(***************************************************************************)
(* For any number of requests, readers, messages and contexts, any history   *)
(* length, expiry and number of failing commands: the conversations in Redis  *)
(* stay sound between the commands that store and read them.                 *)
(***************************************************************************)
EXTENDS RedisConversations, SequenceTheorems, TLAPS

-----------------------------------------------------------------------------
(* Sequences *)

LEMMA AppendFacts ==
    ASSUME NEW S, NEW s \in Seq(S), NEW x \in S
    PROVE  /\ Append(s, x) \in Seq(S) /\ Len(Append(s, x)) = Len(s) + 1
           /\ \A i \in 1..Len(s) : Append(s, x)[i] = s[i]
           /\ Append(s, x)[Len(s) + 1] = x
  OBVIOUS

(* SubSeq takes the elements between its bounds. *)
LEMMA SubSeqFacts ==
    ASSUME NEW S, NEW s \in Seq(S), NEW i \in Nat, NEW j \in Nat,
           1 <= i, j <= Len(s), i <= j + 1
    PROVE  /\ SubSeq(s, i, j) \in Seq(S)
           /\ Len(SubSeq(s, i, j)) = j - i + 1
           /\ \A k \in 1..(j - i + 1) : SubSeq(s, i, j)[k] = s[i + k - 1]
  OBVIOUS

(* LTrim keeps the newest MaxHistoryLength elements, and one of a list that has any. *)
LEMMA TrimFacts ==
    ASSUME NEW s \in Seq(Messages)
    PROVE  /\ Trim(s) \in Seq(Messages)
           /\ Len(Trim(s)) = Least(Len(s), MaxHistoryLength)
           /\ \A i \in 1..Len(Trim(s)) : Trim(s)[i] = s[Len(s) - Len(Trim(s)) + i]
           /\ Len(Trim(s)) <= Len(s) /\ Len(Trim(s)) <= MaxHistoryLength
           /\ Len(Trim(s)) = 0 <=> Len(s) = 0
<1> DEFINE n == Least(Len(s), MaxHistoryLength)
           first == Len(s) - n + 1
<1>1. /\ n \in Nat /\ n <= Len(s) /\ n <= MaxHistoryLength /\ Len(s) \in Nat
      /\ n = 0 <=> Len(s) = 0
  BY LengthAssumption DEF Least
<1>2. first \in Nat /\ 1 <= first /\ first <= Len(s) + 1 /\ Len(s) - first + 1 = n
  BY <1>1
<1>3. Trim(s) = SubSeq(s, first, Len(s))
  BY DEF Trim
<1> HIDE DEF n, first
<1>4. /\ Trim(s) \in Seq(Messages) /\ Len(Trim(s)) = n
      /\ \A k \in 1..n : Trim(s)[k] = s[first + k - 1]
  BY <1>1, <1>2, <1>3, SubSeqFacts
<1> QED BY <1>1, <1>2, <1>4 DEF n, first

-----------------------------------------------------------------------------
(* The inductive invariant *)

(* Some store on c is between its push and its trim. *)
InTransit(c, pcs) == \E p \in Requests : me[p].to = c /\ me[p].pc \in pcs

(* A list is the end of its log.  It loses elements to a trim, which leaves     *)
(* MaxHistoryLength, and to its expiry, which lost counts.                     *)
ListOK(c) ==
    /\ Len(conversations[c]) + lost[c] <= Len(log[c])
    /\ \A i \in 1..Len(conversations[c]) :
          /\ conversations[c][i] = log[c][Len(log[c]) - Len(conversations[c]) + i]
          /\ conversations[c][i] \in used
    /\ Len(conversations[c]) >= Least(MaxHistoryLength, Len(log[c]) - lost[c])
    /\ Len(conversations[c]) > MaxHistoryLength =>
          faults > 0 \/ InTransit(c, {"expire", "trim"})

(* A message outlives its list only until the Expire of its own store. *)
ExpiryOK(c) ==
    /\ Len(conversations[c]) = 0 <=> remains[c] = 0
    /\ remains[c] = Never => faults > 0 \/ InTransit(c, {"expire"})
    /\ \A i \in 1..Len(conversations[c]) :
          lives[conversations[c][i]] > remains[c] =>
              \/ faults > 0
              \/ \E p \in Requests : /\ me[p].to = c /\ me[p].pc = "expire"
                                     /\ me[p].message = conversations[c][i]

(* Of the list that was counted only what was pushed since is beyond the count, *)
(* and it was a part of what did not expire before.                           *)
CountOK(r, c) ==
    /\ reader[r].since <= Len(log[c])
    /\ reader[r].count > 0 => /\ reader[r].start < reader[r].count
                              /\ reader[r].count - reader[r].start <= MaxHistoryLength
    /\ lost[c] < reader[r].since => reader[r].count <= reader[r].since - lost[c]
    /\ reader[r].count = 0 => reader[r].start = 0 /\ lost[c] >= reader[r].since
    /\ Len(conversations[c]) + reader[r].since <= Len(log[c]) + reader[r].count

RunOf(ids, since, c) ==
    \E last \in since..Len(log[c]) :
        /\ last >= Len(ids)
        /\ \A i \in 1..Len(ids) : ids[i] = log[c][last - Len(ids) + i]

ReadOK(r) ==
    /\ reader[r].pc # "idle" => reader[r].context \in Contexts
    /\ reader[r].pc = "range" => CountOK(r, reader[r].context)

(* A request that is going on, or will when its message is stored, has a context, *)
(* and its message until it subscribes.                                     *)
RequestOK(p) ==
    /\ me[p].pc \in {"processing", "streaming"} => me[p].context \in Contexts
    /\ me[p].pc = "processing" => me[p].request \in Messages
    /\ me[p].pc \in {"push", "expire", "trim"} /\ me[p].then # "idle" =>
          me[p].context \in Contexts
    /\ me[p].pc \in {"push", "expire", "trim"} /\ me[p].then = "processing" =>
          me[p].request \in Messages
    /\ me[p].pc \in {"push", "expire", "trim"} => me[p].message \in used

IInv ==
    /\ TypeOK
    /\ \A c \in Contexts : ListOK(c) /\ ExpiryOK(c)
    /\ \A r \in Readers : ReadOK(r)
    /\ \A p \in Requests : RequestOK(p)

LEMMA NotReadingFacts == NotReading \in Readings /\ NotReading.pc = "idle"
<1>1. <<>> \in Seq(Messages) /\ {} \in SUBSET Nat
  OBVIOUS
<1> QED BY <1>1 DEF NotReading, Readings

LEMMA InitIInv == Init => IInv
<1> SUFFICES ASSUME Init PROVE IInv
  OBVIOUS
<1>1. TypeOK
  <2>1. /\ faults \in 0..FaultBound
        /\ messages \in [Messages -> Contexts \cup {None}]
        /\ lives \in [Messages -> 0..ExpireTime]
        /\ conversations \in [Contexts -> Seq(Messages)]
        /\ remains \in [Contexts -> 0..Never]
        /\ used \subseteq Messages \cup Contexts
        /\ log \in [Contexts -> Seq(Messages)]
        /\ lost \in [Contexts -> Nat]
        /\ raced \subseteq Contexts
    BY FaultAssumption, ExpireAssumption DEF Init, Never
  <2>2. me \in [Requests -> Locals] /\ Storing = {}
    BY DEF Init, Locals, Waiting, Storing
  <2>3. reader \in [Readers -> Readings]
    BY NotReadingFacts DEF Init
  <2> QED BY <2>1, <2>2, <2>3 DEF TypeOK
<1>2. ASSUME NEW c \in Contexts PROVE ListOK(c) /\ ExpiryOK(c)
  BY LengthAssumption, ExpireAssumption DEF Init, ListOK, ExpiryOK, Never, Least
<1>3. \A r \in Readers : ReadOK(r)
  BY DEF Init, ReadOK, NotReading
<1>4. \A p \in Requests : RequestOK(p)
  BY DEF Init, RequestOK, Waiting
<1> QED BY <1>1, <1>2, <1>3, <1>4 DEF IInv

-----------------------------------------------------------------------------
(* What a step leaves alone *)

(* The stores on c that were between push and trim still are. *)
TransitKept(c) ==
    \A p \in Requests : me[p].to = c /\ me[p].pc \in {"expire", "trim"} =>
        me'[p].to = c /\ me'[p].pc = me[p].pc /\ me'[p].message = me[p].message

LEMMA ListFrame ==
    ASSUME TypeOK, NEW c \in Contexts, ListOK(c), ExpiryOK(c),
           faults' \in Nat, faults' >= faults, TransitKept(c), used \subseteq used',
           conversations'[c] = conversations[c], log'[c] = log[c], lost'[c] = lost[c],
           remains'[c] = remains[c], \A m \in used : lives'[m] = lives[m]
    PROVE  ListOK(c)' /\ ExpiryOK(c)'
<1>1. faults \in Nat
  BY FaultAssumption DEF TypeOK
<1>2. faults > 0 => faults' > 0
  BY <1>1
<1>3. /\ InTransit(c, {"expire", "trim"}) => InTransit(c, {"expire", "trim"})'
      /\ InTransit(c, {"expire"}) => InTransit(c, {"expire"})'
  BY DEF InTransit, TransitKept
<1>4. ListOK(c)'
  BY <1>2, <1>3 DEF ListOK
<1>5. ExpiryOK(c)'
  <2>1. ASSUME NEW i \in 1..Len(conversations[c]), lives'[conversations[c][i]] > remains[c]
        PROVE  \/ faults' > 0
               \/ \E p \in Requests : /\ me'[p].to = c /\ me'[p].pc = "expire"
                                      /\ me'[p].message = conversations[c][i]
    <3>1. lives[conversations[c][i]] > remains[c]
      BY <2>1 DEF ListOK
    <3> QED BY <1>2, <2>1, <3>1 DEF ExpiryOK, TransitKept
  <2> QED BY <1>2, <1>3, <2>1 DEF ExpiryOK
<1> QED BY <1>4, <1>5

(* A log only grows, a list gains no more than its log, and what is lost is what  *)
(* was pushed so far.                                                        *)
Grows(c) ==
    /\ Len(log'[c]) >= Len(log[c])
    /\ \A i \in 1..Len(log[c]) : log'[c][i] = log[c][i]
    /\ Len(conversations'[c]) + Len(log[c]) <= Len(conversations[c]) + Len(log'[c])
    /\ lost'[c] = lost[c] \/ lost'[c] = Len(log[c])

LEMMA ReadFrame ==
    ASSUME TypeOK, TypeOK', NEW r \in Readers, ReadOK(r), reader'[r] = reader[r],
           \A c \in Contexts : Grows(c) /\ Len(conversations[c]) + lost[c] <= Len(log[c])
    PROVE  ReadOK(r)'
<1>1. CASE reader[r].pc = "idle"
  BY <1>1 DEF ReadOK
<1>2. CASE reader[r].pc = "get"
  BY <1>2 DEF ReadOK
<1>3. CASE reader[r].pc = "range"
  <2> DEFINE c == reader[r].context
             since == reader[r].since
             count == reader[r].count
  <2>1. /\ c \in Contexts /\ Grows(c) /\ CountOK(r, c)
        /\ Len(conversations[c]) + lost[c] <= Len(log[c])
    BY <1>3 DEF ReadOK
  <2>2. /\ since \in Nat /\ count \in Nat
        /\ Len(log[c]) \in Nat /\ Len(log'[c]) \in Nat /\ lost[c] \in Nat /\ lost'[c] \in Nat
        /\ Len(conversations[c]) \in Nat /\ Len(conversations'[c]) \in Nat
    <3>1. since \in Nat /\ count \in Nat
      <4>1. reader[r] \in Readings
        BY DEF TypeOK
      <4> QED BY <4>1 DEF Readings
    <3>2. /\ log[c] \in Seq(Messages) /\ log'[c] \in Seq(Messages)
          /\ conversations[c] \in Seq(Messages) /\ conversations'[c] \in Seq(Messages)
          /\ lost[c] \in Nat /\ lost'[c] \in Nat
      BY <2>1 DEF TypeOK
    <3> HIDE DEF since, count, c
    <3> QED BY <3>1, <3>2
  <2>3. since <= Len(log[c])
    BY <2>1 DEF CountOK
  <2>4. lost'[c] >= lost[c] /\ (lost'[c] # lost[c] => lost'[c] >= since)
    <3>1. /\ lost'[c] = lost[c] \/ lost'[c] = Len(log[c])
          /\ lost[c] <= Len(log[c])
      BY <2>1, <2>2 DEF Grows
    <3> HIDE DEF since, c
    <3> QED BY <2>2, <2>3, <3>1
  <2>5. since <= Len(log'[c])
    BY <2>1, <2>2, <2>3 DEF Grows
  <2>6. Len(conversations'[c]) + since <= Len(log'[c]) + count
    <3> DEFINE list == Len(conversations[c])
               listNext == Len(conversations'[c])
               pushed == Len(log[c])
               pushedNext == Len(log'[c])
    <3>1. /\ list \in Nat /\ listNext \in Nat /\ pushed \in Nat /\ pushedNext \in Nat
          /\ since \in Nat /\ count \in Nat
      BY <2>2
    <3>2. listNext + pushed <= list + pushedNext /\ list + since <= pushed + count
      BY <2>1 DEF Grows, CountOK
    <3> HIDE DEF list, listNext, pushed, pushedNext, since, count
    <3>3. listNext + since <= pushedNext + count
      BY <3>1, <3>2
    <3> QED BY <3>3 DEF listNext, pushedNext
  <2>7. lost'[c] < since => count <= since - lost'[c]
    BY <2>1, <2>2, <2>4 DEF CountOK
  <2>8. count = 0 => lost'[c] >= since
    BY <2>1, <2>2, <2>4 DEF CountOK
  <2>9. CountOK(r, c)'
    BY <2>1, <2>5, <2>6, <2>7, <2>8 DEF CountOK
  <2> QED BY <1>3, <2>1, <2>9 DEF ReadOK
<1>4. reader[r].pc \in {"idle", "range", "get"}
  BY DEF TypeOK, Readings
<1> QED BY <1>1, <1>2, <1>3, <1>4

(* Requests other than p, and p when nothing of it changes. *)
LEMMA RequestFrame ==
    ASSUME NEW p \in Requests, RequestOK(p), me'[p] = me[p], used \subseteq used'
    PROVE  RequestOK(p)'
  BY DEF RequestOK

(* A step that leaves the lists, their logs and the readers as they are. *)
LEMMA NothingMoves ==
    ASSUME IInv, TypeOK', UNCHANGED <<conversations, remains, log, lost>>,
           faults' >= faults, used \subseteq used', \A m \in used : lives'[m] = lives[m],
           \A c \in Contexts : TransitKept(c), \A p \in Requests : RequestOK(p)',
           \A r \in Readers : reader'[r] = reader[r] \/ ReadOK(r)'
    PROVE  IInv'
<1>1. \A c \in Contexts : ListOK(c)' /\ ExpiryOK(c)'
  <2>1. faults' \in Nat
    BY FaultAssumption DEF TypeOK
  <2> QED BY <2>1, ListFrame DEF IInv
<1>2. ASSUME NEW r \in Readers PROVE ReadOK(r)'
  <2>1. ASSUME NEW c \in Contexts
        PROVE  Grows(c) /\ Len(conversations[c]) + lost[c] <= Len(log[c])
    BY DEF Grows, IInv, ListOK, TypeOK
  <2> QED BY <2>1, ReadFrame DEF IInv
<1> QED BY <1>1, <1>2 DEF IInv

(* One step of p on the list of c moves no other list. *)
LEMMA OneMoves ==
    ASSUME IInv, TypeOK', NEW p \in Requests, NEW c \in Contexts, me[p].to = c,
           \A q \in Requests \ {p} : me'[q] = me[q], RequestOK(p)',
           UNCHANGED <<lives, used, reader>>, faults' >= faults,
           \A d \in Contexts \ {c} : /\ conversations'[d] = conversations[d] /\ log'[d] = log[d]
                                     /\ lost'[d] = lost[d] /\ remains'[d] = remains[d],
           Grows(c), ListOK(c)', ExpiryOK(c)'
    PROVE  IInv'
<1>1. ASSUME NEW d \in Contexts PROVE ListOK(d)' /\ ExpiryOK(d)'
  <2>1. CASE d = c
    BY <2>1
  <2>2. CASE d # c
    <3>1. faults' \in Nat
      BY FaultAssumption DEF TypeOK
    <3>2. TransitKept(d)
      BY <2>2 DEF TransitKept
    <3> QED BY <2>2, <3>1, <3>2, ListFrame DEF IInv
  <2> QED BY <2>1, <2>2
<1>2. ASSUME NEW r \in Readers PROVE ReadOK(r)'
  <2>1. ASSUME NEW d \in Contexts PROVE Grows(d)
    <3>1. CASE d = c
      BY <3>1
    <3>2. CASE d # c
      <4>1. /\ conversations'[d] = conversations[d] /\ log'[d] = log[d] /\ lost'[d] = lost[d]
            /\ Len(conversations[d]) \in Nat /\ Len(log[d]) \in Nat
        BY <3>2 DEF IInv, TypeOK
      <4> QED BY <4>1 DEF Grows
    <3> QED BY <3>1, <3>2
  <2>2. \A d \in Contexts : Len(conversations[d]) + lost[d] <= Len(log[d])
    BY DEF IInv, ListOK
  <2> QED BY <2>1, <2>2, ReadFrame DEF IInv
<1>3. ASSUME NEW q \in Requests PROVE RequestOK(q)'
  BY RequestFrame DEF IInv
<1> QED BY <1>1, <1>2, <1>3 DEF IInv

LEMMA TypeOfStep ==
    ASSUME TypeOK, NEW p \in Requests, me' = [me EXCEPT ![p] = me'[p]], me'[p] \in Locals,
           me'[p].pc \in {"push", "expire", "trim"} =>
               me'[p].message \in Messages /\ me'[p].to \in Contexts
    PROVE  /\ me' \in [Requests -> Locals]
           /\ \A q \in Storing' : me'[q].message \in Messages /\ me'[q].to \in Contexts
           /\ \A q \in Requests \ {p} : me'[q] = me[q]
<1>1. me' \in [Requests -> Locals] /\ \A q \in Requests \ {p} : me'[q] = me[q]
  BY DEF TypeOK
<1>2. ASSUME NEW q \in Storing' PROVE me'[q].message \in Messages /\ me'[q].to \in Contexts
  <2>1. CASE q = p
    BY <1>2, <2>1 DEF Storing
  <2>2. CASE q # p
    BY <1>1, <1>2, <2>2 DEF Storing, TypeOK
  <2> QED BY <2>1, <2>2
<1> QED BY <1>1, <1>2

LEMMA CommandsCounted ==
    ASSUME TypeOK, Succeeds \/ Fails
    PROVE  faults' \in 0..FaultBound /\ faults' >= faults /\ (Fails => faults' > 0)
  BY FaultAssumption DEF TypeOK, Succeeds, Fails

-----------------------------------------------------------------------------
(* The steps of a request *)

LEMMA SetKeeps ==
    ASSUME IInv, NEW p \in Requests, NEW m \in Messages, NEW c \in Contexts,
           NEW then \in {"idle", "processing", "streaming"}, NEW local \in Locals,
           me[p].pc \notin {"push", "expire", "trim"},
           then # "idle" => local.context \in Contexts,
           then = "processing" => local.request \in Messages,
           Set(p, m, c, then, local)
    PROVE  IInv'
<1>1. TypeOK
  BY DEF IInv
<1>2. /\ m \notin used /\ used' = used \cup {m, c}
      /\ UNCHANGED <<conversations, remains, reader, log, lost>>
      /\ raced' \in {raced, raced \cup {c}}
  BY DEF Set
<1>3. faults' \in 0..FaultBound /\ faults' >= faults
  BY <1>1, CommandsCounted DEF Set, Applied
<1>4. /\ \/ /\ messages' = [messages EXCEPT ![m] = c]
            /\ lives' = [lives EXCEPT ![m] = ExpireTime]
         \/ UNCHANGED <<messages, lives>>
      /\ \/ me' = [me EXCEPT ![p] = [local EXCEPT !.pc = "push", !.then = then,
                                                  !.message = m, !.to = c]]
         \/ me' = [me EXCEPT ![p] = [local EXCEPT !.pc = then]]
  BY DEF Set
<1>5. /\ me' = [me EXCEPT ![p] = me'[p]] /\ me'[p] \in Locals
      /\ me'[p].pc \in {"push", "expire", "trim"} =>
             me'[p].message = m /\ me'[p].to = c /\ me'[p].then = then
      /\ me'[p].pc \in {"push", then}
      /\ me'[p].request = local.request /\ me'[p].context = local.context
  <2> me \in [Requests -> Locals]
    BY <1>1 DEF TypeOK
  <2> DEFINE pushing == [local EXCEPT !.pc = "push", !.then = then, !.message = m, !.to = c]
             failing == [local EXCEPT !.pc = then]
  <2>1. /\ pushing \in Locals /\ pushing.pc = "push" /\ pushing.message = m /\ pushing.to = c
        /\ pushing.then = then
        /\ pushing.request = local.request /\ pushing.context = local.context
    BY DEF Locals
  <2>2. /\ failing \in Locals /\ failing.pc = then
        /\ failing.request = local.request /\ failing.context = local.context
    BY DEF Locals
  <2>3. me' = [me EXCEPT ![p] = pushing] \/ me' = [me EXCEPT ![p] = failing]
    BY <1>4
  <2> HIDE DEF pushing, failing
  <2>4. CASE me' = [me EXCEPT ![p] = pushing]
    <3>1. me'[p] = pushing
      BY <2>4
    <3> QED BY <2>1, <2>4, <3>1
  <2>5. CASE me' = [me EXCEPT ![p] = failing]
    <3>1. me'[p] = failing
      BY <2>5
    <3> QED BY <2>2, <2>5, <3>1
  <2> QED BY <2>3, <2>4, <2>5
<1>6. /\ me' \in [Requests -> Locals]
      /\ \A q \in Storing' : me'[q].message \in Messages /\ me'[q].to \in Contexts
      /\ \A q \in Requests \ {p} : me'[q] = me[q]
  BY <1>1, <1>5, TypeOfStep
<1>7. /\ messages' \in [Messages -> Contexts \cup {None}]
      /\ lives' \in [Messages -> 0..ExpireTime]
      /\ \A k \in used : lives'[k] = lives[k]
  <2>1. /\ messages \in [Messages -> Contexts \cup {None}]
        /\ lives \in [Messages -> 0..ExpireTime] /\ ExpireTime \in 0..ExpireTime
    BY <1>1, ExpireAssumption DEF TypeOK
  <2>2. CASE messages' = [messages EXCEPT ![m] = c] /\ lives' = [lives EXCEPT ![m] = ExpireTime]
    BY <1>2, <2>1, <2>2
  <2>3. CASE UNCHANGED <<messages, lives>>
    BY <2>1, <2>3
  <2> QED BY <1>4, <2>2, <2>3
<1>8. TypeOK'
  BY <1>1, <1>2, <1>3, <1>6, <1>7 DEF TypeOK
<1>9. \A d \in Contexts : TransitKept(d)
  BY <1>6 DEF TransitKept
<1>10. ASSUME NEW q \in Requests PROVE RequestOK(q)'
  <2>1. CASE q = p
    BY <1>2, <1>5, <2>1 DEF RequestOK
  <2>2. CASE q # p
    BY <1>2, <1>6, <2>2, RequestFrame DEF IInv
  <2> QED BY <2>1, <2>2
<1> QED BY <1>2, <1>3, <1>7, <1>8, <1>9, <1>10, NothingMoves

(* Every store of a message: that of a request, of an event and of a reply. *)
LEMMA StoresKeep ==
    ASSUME IInv, NEW p \in Requests, NEW m \in Messages,
           \/ \E c \in Contexts : processRequestMessage(p, m, c)
           \/ sendStreamingEventHook(p, m)
           \/ processReplyMessage(p, m)
    PROVE  IInv'
<1>1. TypeOK /\ RequestOK(p) /\ me[p] \in Locals
  BY DEF IInv, TypeOK
<1>2. ASSUME NEW c \in Contexts, processRequestMessage(p, m, c) PROVE IInv'
  <2>1. [me[p] EXCEPT !.request = m, !.context = c] \in Locals
    BY <1>1 DEF Locals
  <2>2. /\ [me[p] EXCEPT !.request = m, !.context = c].request = m
        /\ [me[p] EXCEPT !.request = m, !.context = c].context = c
    BY <1>1 DEF Locals
  <2>3. /\ me[p].pc = "idle"
        /\ Set(p, m, c, "processing", [me[p] EXCEPT !.request = m, !.context = c])
    BY <1>2 DEF processRequestMessage
  <2> QED BY <2>1, <2>2, <2>3, SetKeeps
<1>3. CASE sendStreamingEventHook(p, m)
  <2>1. PICK c \in HookContext(p) : Set(p, m, c, "streaming", me[p])
    BY <1>3 DEF sendStreamingEventHook
  <2>2. c \in Contexts
    BY <1>1, <2>1 DEF HookContext, Locals
  <2>3. me[p].pc = "streaming" /\ me[p].context \in Contexts
    BY <1>1, <1>3 DEF sendStreamingEventHook, RequestOK
  <2> QED BY <1>1, <2>1, <2>2, <2>3, SetKeeps
<1>4. CASE processReplyMessage(p, m)
  <2>1. /\ me[p].pc \in {"processing", "streaming"} /\ me[p].context \in Contexts
        /\ Set(p, m, me[p].context, "idle", Waiting)
    BY <1>1, <1>4 DEF processReplyMessage, RequestOK
  <2>2. Waiting \in Locals
    BY DEF Waiting, Locals
  <2> QED BY <2>1, <2>2, SetKeeps
<1> QED BY <1>2, <1>3, <1>4

(* The store is over, well or not. *)
LEMMA StoredFacts ==
    ASSUME TypeOK, NEW p \in Requests, RequestOK(p), me[p].pc \in {"push", "expire", "trim"},
           Stored(p)
    PROVE  /\ me' = [me EXCEPT ![p] = me'[p]] /\ me'[p] \in Locals
           /\ me'[p].pc \notin {"push", "expire", "trim"}
           /\ RequestOK(p)'
<1>1. me \in [Requests -> Locals] /\ me[p] \in Locals
  BY DEF TypeOK
<1> DEFINE on == [me[p] EXCEPT !.pc = me[p].then, !.then = "idle", !.message = None, !.to = None]
<1>2. Waiting \in Locals /\ Waiting.pc = "idle"
  BY DEF Waiting, Locals
<1>3. /\ on \in Locals /\ on.pc = me[p].then /\ on.request = me[p].request
      /\ on.context = me[p].context /\ me[p].then \in {"idle", "processing", "streaming"}
  BY <1>1 DEF Locals
<1>4. CASE me[p].then = "idle"
  <2>1. me' = [me EXCEPT ![p] = Waiting]
    BY <1>4 DEF Stored
  <2>2. me'[p] = Waiting
    BY <1>1, <2>1
  <2>3. RequestOK(p)'
    BY <1>2, <2>2 DEF RequestOK
  <2> QED BY <1>1, <1>2, <2>1, <2>2, <2>3
<1>5. CASE me[p].then # "idle"
  <2>1. me' = [me EXCEPT ![p] = on]
    BY <1>5 DEF Stored
  <2> HIDE DEF on
  <2>2. me'[p] = on
    BY <1>1, <2>1
  <2>3. /\ on.pc \in {"processing", "streaming"} /\ on.context \in Contexts
        /\ on.pc = "processing" => on.request \in Messages
    BY <1>3, <1>5 DEF RequestOK
  <2>4. RequestOK(p)'
    BY <2>2, <2>3 DEF RequestOK
  <2> QED BY <1>1, <1>3, <2>1, <2>2, <2>3, <2>4
<1> QED BY <1>4, <1>5

(* What the three commands after Set have in common: p is storing on c, and a      *)
(* failure leaves the list and its log as they are.                          *)
LEMMA FailureKeeps ==
    ASSUME TypeOK, NEW c \in Contexts, ListOK(c), ExpiryOK(c), faults' > 0,
           used' = used, conversations'[c] = conversations[c], log'[c] = log[c],
           lost'[c] = lost[c], remains'[c] = remains[c]
    PROVE  ListOK(c)' /\ ExpiryOK(c)' /\ Grows(c)
<1>1. Len(conversations[c]) \in Nat /\ Len(log[c]) \in Nat
  BY DEF TypeOK
<1>2. ListOK(c)'
  BY DEF ListOK
<1>3. ExpiryOK(c)'
  BY DEF ExpiryOK
<1>4. Grows(c)
  BY <1>1 DEF Grows
<1> QED BY <1>2, <1>3, <1>4

LEMMA RPushKeeps ==
    ASSUME IInv, NEW p \in Requests, RPush(p)
    PROVE  IInv'
<1>0. PICK c \in Contexts, m \in Messages : me[p].to = c /\ me[p].message = m
  BY DEF RPush, IInv, TypeOK, Storing
<1>1. /\ TypeOK /\ RequestOK(p) /\ me[p].pc = "push" /\ m \in used /\ ListOK(c) /\ ExpiryOK(c)
      /\ me[p].to = c /\ me[p].message = m
  BY <1>0 DEF RPush, IInv, RequestOK
<1>2. UNCHANGED <<messages, lives, reader, used, lost, raced>> /\ (Succeeds \/ Fails)
  BY DEF RPush, Applied
<1>3. faults' \in 0..FaultBound /\ faults' >= faults /\ (Fails => faults' > 0)
  BY <1>1, <1>2, CommandsCounted
<1>4. CASE /\ conversations' = [conversations EXCEPT ![c] = Append(@, m)]
           /\ remains' = [remains EXCEPT ![c] = IF conversations[c] = <<>> THEN Never ELSE @]
           /\ log' = [log EXCEPT ![c] = Append(@, m)]
  <2> DEFINE L == Len(conversations[c])
             N == Len(log[c])
  <2>1. /\ conversations[c] \in Seq(Messages) /\ log[c] \in Seq(Messages)
        /\ L \in Nat /\ N \in Nat /\ lost[c] \in Nat /\ remains[c] \in 0..Never
    BY <1>1 DEF TypeOK
  <2>2. /\ conversations'[c] = Append(conversations[c], m) /\ log'[c] = Append(log[c], m)
        /\ remains'[c] = IF L = 0 THEN Never ELSE remains[c]
    BY <1>1, <1>4, <2>1 DEF TypeOK
  <2>3. /\ me' = [me EXCEPT ![p] = me'[p]] /\ me'[p] \in Locals /\ RequestOK(p)'
        /\ me'[p].pc \in {"push", "expire", "trim"} => me'[p].to = c /\ me'[p].message = m
        /\ me'[p].pc = "expire" \/ faults' > 0
    <3>1. me \in [Requests -> Locals] /\ me[p] \in Locals
      BY <1>1 DEF TypeOK
    <3>2. CASE Succeeds
      <4> DEFINE next == [me[p] EXCEPT !.pc = "expire"]
      <4>1. me' = [me EXCEPT ![p] = next]
        BY <3>2 DEF RPush
      <4>2. /\ next \in Locals /\ next.pc = "expire" /\ next.message = m /\ next.to = c
            /\ next.then = me[p].then /\ next.request = me[p].request
            /\ next.context = me[p].context
        BY <1>1, <3>1 DEF Locals
      <4> HIDE DEF next
      <4>3. me'[p] = next
        BY <3>1, <4>1
      <4>4. RequestOK(p)'
        BY <1>1, <1>2, <4>2, <4>3 DEF RequestOK
      <4> QED BY <4>1, <4>2, <4>3, <4>4
    <3>3. CASE ~Succeeds
      <4>1. Stored(p) /\ Fails
        BY <1>2, <3>3 DEF RPush
      <4> QED BY <1>1, <1>3, <4>1, StoredFacts
    <3> QED BY <3>2, <3>3
  <2>4. /\ me' \in [Requests -> Locals]
        /\ \A q \in Storing' : me'[q].message \in Messages /\ me'[q].to \in Contexts
        /\ \A q \in Requests \ {p} : me'[q] = me[q]
    BY <1>1, <2>3, TypeOfStep
  <2>5. TypeOK'
    <3>1. remains' \in [Contexts -> 0..Never]
      BY <1>1, <1>4, ExpireAssumption, SMTT(30) DEF TypeOK, Never
    <3>2. conversations' \in [Contexts -> Seq(Messages)] /\ log' \in [Contexts -> Seq(Messages)]
      BY <1>1, <1>4, AppendFacts DEF TypeOK
    <3> QED BY <1>1, <1>2, <1>3, <2>4, <3>1, <3>2 DEF TypeOK
  <2>6. RequestOK(p)' /\ (faults > 0 => faults' > 0)
    BY <1>1, <1>3, <2>3, FaultAssumption DEF TypeOK
  <2>7. /\ Len(conversations'[c]) = L + 1 /\ Len(log'[c]) = N + 1
        /\ \A i \in 1..L : conversations'[c][i] = conversations[c][i]
        /\ \A i \in 1..N : log'[c][i] = log[c][i]
        /\ conversations'[c][L + 1] = m /\ log'[c][N + 1] = m
    BY <1>1, <2>1, <2>2, AppendFacts
  <2>8. /\ L + lost[c] <= N /\ L >= Least(MaxHistoryLength, N - lost[c])
        /\ \A i \in 1..L : conversations[c][i] = log[c][N - L + i] /\ conversations[c][i] \in used
    BY <1>1 DEF ListOK
  <2> HIDE DEF L, N
  <2>9. ASSUME NEW i \in 1..(L + 1)
        PROVE  /\ conversations'[c][i] = log'[c][(N + 1) - (L + 1) + i]
               /\ conversations'[c][i] \in used
    <3>1. CASE i = L + 1
      <4>1. (N + 1) - (L + 1) + i = N + 1
        BY <2>1, <3>1
      <4> QED BY <1>1, <2>7, <3>1, <4>1
    <3>2. CASE i # L + 1
      <4>1. i \in 1..L /\ N - L + i \in 1..N /\ (N + 1) - (L + 1) + i = N - L + i
        BY <2>1, <2>8, <3>2, SMTT(20)
      <4> QED BY <2>7, <2>8, <4>1
    <3> QED BY <3>1, <3>2
  <2>10. L + 1 >= Least(MaxHistoryLength, (N + 1) - lost[c]) /\ (L + 1) + lost[c] <= N + 1
    BY <2>1, <2>8, LengthAssumption, SMTT(20) DEF Least
  <2>11. faults' > 0 \/ (InTransit(c, {"expire", "trim"})' /\ InTransit(c, {"expire"})')
    <3>1. CASE me'[p].pc = "expire"
      <4>1. me'[p].to = c /\ me'[p].pc \in {"expire", "trim"} /\ me'[p].pc \in {"expire"}
        BY <2>3, <3>1
      <4>2. InTransit(c, {"expire", "trim"})'
        BY <4>1 DEF InTransit
      <4>3. InTransit(c, {"expire"})'
        BY <4>1 DEF InTransit
      <4> QED BY <4>2, <4>3
    <3> QED BY <2>3, <3>1
  <2>12. ListOK(c)'
    BY <1>2, <2>7, <2>9, <2>10, <2>11 DEF ListOK
  <2>13. Len(conversations'[c]) # 0 /\ remains'[c] # 0
    <3>1. L = 0 <=> remains[c] = 0
      BY <1>1 DEF ExpiryOK, L
    <3> QED BY <2>1, <2>2, <2>7, <3>1, ExpireAssumption DEF Never
  <2>14. ASSUME NEW i \in 1..(L + 1), lives[conversations'[c][i]] > remains'[c]
         PROVE  \/ faults' > 0
                \/ \E q \in Requests : /\ me'[q].to = c /\ me'[q].pc = "expire"
                                       /\ me'[q].message = conversations'[c][i]
    <3>1. CASE i = L + 1
      BY <2>3, <2>7, <3>1
    <3>2. CASE i # L + 1
      <4>1. i \in 1..L /\ L # 0 /\ remains'[c] = remains[c]
            /\ conversations'[c][i] = conversations[c][i]
        BY <2>1, <2>2, <2>7, <3>2
      <4>2. \/ faults > 0
            \/ \E q \in Requests : /\ me[q].to = c /\ me[q].pc = "expire"
                                   /\ me[q].message = conversations[c][i]
        BY <1>1, <2>14, <4>1 DEF ExpiryOK, L
      <4> QED BY <1>1, <2>4, <2>6, <4>1, <4>2
    <3> QED BY <3>1, <3>2
  <2>15. ExpiryOK(c)'
    BY <1>2, <2>7, <2>11, <2>13, <2>14 DEF ExpiryOK
  <2>16. Grows(c)
    <3>1. N + 1 >= N /\ (L + 1) + N <= L + (N + 1)
      BY <2>1
    <3>2. Len(conversations[c]) = L /\ Len(log[c]) = N /\ lost'[c] = lost[c]
      BY <1>2 DEF L, N
    <3> QED BY <2>7, <3>1, <3>2 DEF Grows
  <2>17. \A d \in Contexts \ {c} : /\ conversations'[d] = conversations[d] /\ log'[d] = log[d]
                                   /\ lost'[d] = lost[d] /\ remains'[d] = remains[d]
    BY <1>1, <1>2, <1>4 DEF TypeOK
  <2> QED BY <1>1, <1>2, <1>3, <2>4, <2>5, <2>6, <2>12, <2>15, <2>16, <2>17, OneMoves
<1>5. CASE Fails /\ UNCHANGED <<conversations, remains, log>>
  <2>0. ~Succeeds
    BY <1>1, <1>5, FaultAssumption DEF Succeeds, Fails, TypeOK
  <2>1. /\ me' = [me EXCEPT ![p] = me'[p]] /\ me'[p] \in Locals
        /\ me'[p].pc \notin {"push", "expire", "trim"} /\ RequestOK(p)'
    BY <1>1, <2>0, StoredFacts DEF RPush
  <2>2. /\ me' \in [Requests -> Locals]
        /\ \A q \in Storing' : me'[q].message \in Messages /\ me'[q].to \in Contexts
        /\ \A q \in Requests \ {p} : me'[q] = me[q]
    BY <1>1, <2>1, TypeOfStep
  <2>3. TypeOK'
    BY <1>1, <1>2, <1>3, <1>5, <2>2 DEF TypeOK
  <2>4. ListOK(c)' /\ ExpiryOK(c)' /\ Grows(c)
    BY <1>1, <1>2, <1>3, <1>5, FailureKeeps
  <2> QED BY <1>1, <1>2, <1>3, <1>5, <2>1, <2>2, <2>3, <2>4, OneMoves
<1> QED BY <1>1, <1>4, <1>5 DEF RPush

LEMMA ExpireKeeps ==
    ASSUME IInv, NEW p \in Requests, Expire(p)
    PROVE  IInv'
<1>0. PICK c \in Contexts, m \in Messages : me[p].to = c /\ me[p].message = m
  BY DEF Expire, IInv, TypeOK, Storing
<1>1. /\ TypeOK /\ RequestOK(p) /\ me[p].pc = "expire" /\ m \in used /\ ListOK(c) /\ ExpiryOK(c)
      /\ me[p].to = c /\ me[p].message = m
  BY <1>0 DEF Expire, IInv, RequestOK
<1>2. /\ UNCHANGED <<messages, lives, conversations, reader, used, log, lost, raced>>
      /\ (Succeeds \/ Fails)
      /\ me' = [me EXCEPT ![p].pc = "trim"]
  BY DEF Expire
<1>3. faults' \in 0..FaultBound /\ faults' >= faults /\ (Fails => faults' > 0)
  BY <1>1, <1>2, CommandsCounted
<1>4. /\ me' = [me EXCEPT ![p] = me'[p]] /\ me'[p] \in Locals /\ me'[p].pc = "trim"
      /\ me'[p].message = m /\ me'[p].to = c /\ me'[p].then = me[p].then
      /\ me'[p].request = me[p].request /\ me'[p].context = me[p].context
  <2> DEFINE next == [me[p] EXCEPT !.pc = "trim"]
  <2>1. me \in [Requests -> Locals] /\ me[p] \in Locals
    BY <1>1 DEF TypeOK
  <2>2. /\ next \in Locals /\ next.pc = "trim" /\ next.message = m /\ next.to = c
        /\ next.then = me[p].then /\ next.request = me[p].request /\ next.context = me[p].context
    BY <1>1, <2>1 DEF Locals
  <2>3. me' = [me EXCEPT ![p] = next]
    BY <1>2
  <2> HIDE DEF next
  <2>4. me'[p] = next
    BY <2>1, <2>3
  <2> QED BY <2>2, <2>3, <2>4
<1>5. /\ me' \in [Requests -> Locals]
      /\ \A q \in Storing' : me'[q].message \in Messages /\ me'[q].to \in Contexts
      /\ \A q \in Requests \ {p} : me'[q] = me[q]
  BY <1>1, <1>4, TypeOfStep
<1>6. \/ Succeeds /\ remains' = [remains EXCEPT ![c] = IF conversations[c] = <<>> THEN @
                                                        ELSE ExpireTime]
      \/ Fails /\ remains' = remains
  BY <1>1 DEF Expire
<1>7. TypeOK'
  <2>1. remains' \in [Contexts -> 0..Never]
    <3>1. remains \in [Contexts -> 0..Never] /\ ExpireTime \in 0..Never
      BY <1>1, ExpireAssumption DEF TypeOK, Never
    <3>2. CASE remains' = remains
      BY <3>1, <3>2
    <3>3. CASE remains' = [remains EXCEPT ![c] = IF conversations[c] = <<>> THEN @
                                                 ELSE ExpireTime]
      BY <3>1, <3>3
    <3> QED BY <1>6, <3>2, <3>3
  <2> QED BY <1>1, <1>2, <1>3, <1>5, <2>1 DEF TypeOK
<1>8. RequestOK(p)'
  BY <1>1, <1>2, <1>4 DEF RequestOK
<1>9. \A d \in Contexts \ {c} : /\ conversations'[d] = conversations[d] /\ log'[d] = log[d]
                                /\ lost'[d] = lost[d] /\ remains'[d] = remains[d]
  BY <1>1, <1>2, <1>6 DEF TypeOK
<1>10. ListOK(c)' /\ ExpiryOK(c)' /\ Grows(c)
  <2>1. CASE Fails /\ remains' = remains
    BY <1>1, <1>2, <1>3, <2>1, FailureKeeps
  <2>2. CASE remains' = [remains EXCEPT ![c] = IF conversations[c] = <<>> THEN @ ELSE ExpireTime]
    <3>1. /\ Len(conversations[c]) \in Nat /\ Len(log[c]) \in Nat
          /\ conversations[c] = <<>> <=> Len(conversations[c]) = 0
      BY <1>1 DEF TypeOK
    <3>2. InTransit(c, {"expire", "trim"})'
      BY <1>4 DEF InTransit
    <3>3. ListOK(c)'
      BY <1>1, <1>2, <3>2 DEF ListOK
    <3>4. Grows(c)
      BY <1>2, <3>1 DEF Grows
    <3>5. CASE Len(conversations[c]) = 0
      <4>1. remains'[c] = remains[c] /\ remains[c] = 0 /\ Never # 0
        BY <1>1, <2>2, <3>1, <3>5, ExpireAssumption DEF ExpiryOK, TypeOK, Never
      <4> QED BY <1>2, <3>3, <3>4, <3>5, <4>1 DEF ExpiryOK
    <3>6. CASE Len(conversations[c]) # 0
      <4>1. remains'[c] = ExpireTime /\ ExpireTime # Never /\ ExpireTime # 0
        BY <1>1, <2>2, <3>1, <3>6, ExpireAssumption DEF TypeOK, Never
      <4>2. \A k \in Messages : ~(lives[k] > ExpireTime)
        BY <1>1, ExpireAssumption DEF TypeOK
      <4>3. \A i \in 1..Len(conversations[c]) : conversations[c][i] \in Messages
        BY <1>1 DEF TypeOK
      <4> QED BY <1>2, <3>3, <3>4, <3>6, <4>1, <4>2, <4>3 DEF ExpiryOK
    <3> QED BY <3>5, <3>6
  <2> QED BY <1>6, <2>1, <2>2
<1> QED BY <1>1, <1>2, <1>3, <1>5, <1>7, <1>8, <1>9, <1>10, OneMoves

LEMMA LTrimKeeps ==
    ASSUME IInv, NEW p \in Requests, LTrim(p)
    PROVE  IInv'
<1>0. PICK c \in Contexts : me[p].to = c
  BY DEF LTrim, IInv, TypeOK, Storing
<1>1. TypeOK /\ RequestOK(p) /\ me[p].pc = "trim" /\ ListOK(c) /\ ExpiryOK(c) /\ me[p].to = c
  BY <1>0 DEF LTrim, IInv
<1>2. /\ UNCHANGED <<messages, lives, remains, reader, used, log, lost, raced>>
      /\ (Succeeds \/ Fails)
      /\ Stored(p)
  BY DEF LTrim
<1>3. faults' \in 0..FaultBound /\ faults' >= faults /\ (Fails => faults' > 0)
  BY <1>1, <1>2, CommandsCounted
<1>4. /\ me' = [me EXCEPT ![p] = me'[p]] /\ me'[p] \in Locals
      /\ me'[p].pc \notin {"push", "expire", "trim"} /\ RequestOK(p)'
  BY <1>1, <1>2, StoredFacts
<1>5. /\ me' \in [Requests -> Locals]
      /\ \A q \in Storing' : me'[q].message \in Messages /\ me'[q].to \in Contexts
      /\ \A q \in Requests \ {p} : me'[q] = me[q]
  BY <1>1, <1>4, TypeOfStep
<1>6. \/ Succeeds /\ conversations' = [conversations EXCEPT ![c] = Trim(@)]
      \/ Fails /\ conversations' = conversations
  BY <1>1 DEF LTrim
<1>7. /\ Trim(conversations[c]) \in Seq(Messages) /\ conversations[c] \in Seq(Messages)
      /\ Len(conversations[c]) \in Nat /\ Len(log[c]) \in Nat /\ lost[c] \in Nat
  <2>1. conversations[c] \in Seq(Messages) /\ log[c] \in Seq(Messages) /\ lost[c] \in Nat
    BY <1>1 DEF TypeOK
  <2>2. Len(conversations[c]) \in Nat /\ Len(log[c]) \in Nat
    BY <2>1
  <2>3. Trim(conversations[c]) \in Seq(Messages)
    BY <2>1, TrimFacts
  <2> QED BY <2>1, <2>2, <2>3
<1>8. TypeOK'
  <2>1. conversations' \in [Contexts -> Seq(Messages)]
    BY <1>1, <1>6, <1>7 DEF TypeOK
  <2> QED BY <1>1, <1>2, <1>3, <1>5, <2>1 DEF TypeOK
<1>9. \A d \in Contexts \ {c} : /\ conversations'[d] = conversations[d] /\ log'[d] = log[d]
                                /\ lost'[d] = lost[d] /\ remains'[d] = remains[d]
  BY <1>1, <1>2, <1>6 DEF TypeOK
<1>10. ListOK(c)' /\ ExpiryOK(c)' /\ Grows(c)
  <2>1. CASE Fails /\ conversations' = conversations
    BY <1>1, <1>2, <1>3, <2>1, FailureKeeps
  <2>2. CASE Succeeds /\ conversations' = [conversations EXCEPT ![c] = Trim(@)]
    <3> DEFINE L == Len(conversations[c])
               N == Len(log[c])
               K == Len(conversations'[c])
    <3>1. conversations'[c] = Trim(conversations[c])
      BY <1>1, <2>2 DEF TypeOK
    <3>2. /\ K = Least(L, MaxHistoryLength) /\ K <= L /\ K <= MaxHistoryLength
          /\ K = 0 <=> L = 0
          /\ K \in Nat
          /\ \A i \in 1..K : conversations'[c][i] = conversations[c][L - K + i]
      <4> DEFINE trimmed == Trim(conversations[c])
      <4>1. /\ Len(trimmed) = Least(L, MaxHistoryLength)
            /\ \A i \in 1..Len(trimmed) : trimmed[i] = conversations[c][L - Len(trimmed) + i]
            /\ Len(trimmed) <= L /\ Len(trimmed) <= MaxHistoryLength
            /\ Len(trimmed) = 0 <=> L = 0
        BY <1>7, TrimFacts
      <4>2. Len(trimmed) \in Nat
        BY <1>7
      <4> HIDE DEF trimmed
      <4>3. conversations'[c] = trimmed
        BY <3>1 DEF trimmed
      <4> QED BY <4>1, <4>2, <4>3
    <3>3. /\ L + lost[c] <= N /\ L >= Least(MaxHistoryLength, N - lost[c])
          /\ \A i \in 1..L : conversations[c][i] = log[c][N - L + i] /\ conversations[c][i] \in used
      BY <1>1 DEF ListOK
    <3>4. L \in Nat /\ N \in Nat /\ lost[c] \in Nat
      BY <1>7
    <3> HIDE DEF L, N, K
    <3>5. ASSUME NEW i \in 1..K
          PROVE  /\ conversations'[c][i] = log[c][N - K + i]
                 /\ conversations'[c][i] \in used
                 /\ L - K + i \in 1..L /\ conversations'[c][i] = conversations[c][L - K + i]
      <4>1. L - K + i \in 1..L /\ N - L + (L - K + i) = N - K + i
        BY <3>2, <3>4
      <4> QED BY <3>2, <3>3, <4>1
    <3>6. /\ K + lost[c] <= N /\ K >= Least(MaxHistoryLength, N - lost[c])
          /\ ~(K > MaxHistoryLength) /\ K + N <= L + N
      BY <3>2, <3>3, <3>4, LengthAssumption DEF Least
    <3>7. ListOK(c)'
      BY <1>2, <3>5, <3>6 DEF ListOK, K, N
    <3>8. remains'[c] = Never => faults' > 0 \/ InTransit(c, {"expire"})'
      <4>1. remains[c] = Never => faults > 0 \/ InTransit(c, {"expire"})
        BY <1>1 DEF ExpiryOK
      <4>2. InTransit(c, {"expire"}) => InTransit(c, {"expire"})'
        BY <1>1, <1>5 DEF InTransit
      <4> QED BY <1>2, <2>2, <4>1, <4>2 DEF Succeeds
    <3>9. ASSUME NEW i \in 1..K, lives[conversations'[c][i]] > remains[c]
          PROVE  \/ faults' > 0
                 \/ \E q \in Requests : /\ me'[q].to = c /\ me'[q].pc = "expire"
                                        /\ me'[q].message = conversations'[c][i]
      <4>1. L - K + i \in 1..L /\ conversations'[c][i] = conversations[c][L - K + i]
        BY <3>5
      <4>2. \/ faults > 0
            \/ \E q \in Requests : /\ me[q].to = c /\ me[q].pc = "expire"
                                   /\ me[q].message = conversations'[c][i]
        BY <1>1, <3>9, <4>1 DEF ExpiryOK, L
      <4> QED BY <1>1, <1>5, <2>2, <4>2 DEF Succeeds
    <3>10. K = 0 <=> remains[c] = 0
      BY <1>1, <3>2 DEF ExpiryOK, L
    <3>11. ExpiryOK(c)'
      BY <1>2, <3>8, <3>9, <3>10 DEF ExpiryOK, K
    <3>12. Grows(c)
      BY <1>2, <1>7, <3>6 DEF Grows, L, N, K
    <3> QED BY <3>7, <3>11, <3>12
  <2> QED BY <1>6, <2>1, <2>2
<1> QED BY <1>1, <1>2, <1>3, <1>4, <1>5, <1>8, <1>9, <1>10, OneMoves

LEMMA SubscribeKeeps ==
    ASSUME IInv, NEW p \in Requests, SubscribeTask(p)
    PROVE  IInv'
<1>1. TypeOK /\ RequestOK(p) /\ me[p] \in Locals /\ me[p].pc = "processing"
  BY DEF IInv, TypeOK, SubscribeTask
<1>2. UNCHANGED <<redis, reader, used, log, lost, raced>> /\ (Succeeds \/ Fails)
  BY DEF SubscribeTask
<1>3. faults' \in 0..FaultBound /\ faults' >= faults
  BY <1>1, <1>2, CommandsCounted
<1>4. GetContextID(p) \in Contexts \cup {None}
  BY <1>1 DEF GetContextID, RequestOK, TypeOK
<1>5. /\ me' = [me EXCEPT ![p] = me'[p]] /\ me'[p] \in Locals /\ me'[p].pc = "streaming"
      /\ me'[p].context = me[p].context
  <2> DEFINE holding == [me[p] EXCEPT !.pc = "streaming", !.request = None, !.hook = GetContextID(p)]
             without == [me[p] EXCEPT !.pc = "streaming", !.request = None]
  <2>1. me \in [Requests -> Locals]
    BY <1>1 DEF TypeOK
  <2>2. /\ holding \in Locals /\ holding.pc = "streaming"
        /\ holding.context = me[p].context
    BY <1>1, <1>4 DEF Locals
  <2>3. /\ without \in Locals /\ without.pc = "streaming"
        /\ without.context = me[p].context
    BY <1>1 DEF Locals
  <2>4. me' = [me EXCEPT ![p] = holding] \/ me' = [me EXCEPT ![p] = without]
    BY <1>1, <2>1 DEF SubscribeTask
  <2> HIDE DEF holding, without
  <2>5. me'[p] = holding \/ me'[p] = without
    BY <2>1, <2>4
  <2> QED BY <2>1, <2>2, <2>3, <2>4, <2>5
<1>6. /\ me' \in [Requests -> Locals]
      /\ \A q \in Storing' : me'[q].message \in Messages /\ me'[q].to \in Contexts
      /\ \A q \in Requests \ {p} : me'[q] = me[q]
  BY <1>1, <1>5, TypeOfStep
<1>7. TypeOK'
  BY <1>1, <1>2, <1>3, <1>6 DEF TypeOK, redis
<1>8. \A d \in Contexts : TransitKept(d)
  BY <1>1, <1>6 DEF TransitKept
<1>9. ASSUME NEW q \in Requests PROVE RequestOK(q)'
  <2>1. CASE q = p
    BY <1>1, <1>5, <2>1 DEF RequestOK
  <2>2. CASE q # p
    BY <1>2, <1>6, <2>2, RequestFrame DEF IInv
  <2> QED BY <2>1, <2>2
<1> QED BY <1>2, <1>3, <1>7, <1>8, <1>9, NothingMoves DEF redis

LEMMA EndKeeps ==
    ASSUME IInv, NEW p \in Requests, EndProcessing(p)
    PROVE  IInv'
<1>1. TypeOK /\ me[p].pc \in {"processing", "streaming"} /\ faults \in Nat
  BY FaultAssumption DEF IInv, TypeOK, EndProcessing
<1>2. UNCHANGED <<redis, reader, history>> /\ me' = [me EXCEPT ![p] = Waiting]
  BY DEF EndProcessing
<1>3. Waiting \in Locals /\ Waiting.pc = "idle"
  BY DEF Waiting, Locals
<1>4. me'[p] = Waiting
  BY <1>1, <1>2 DEF TypeOK
<1>5. /\ me' \in [Requests -> Locals]
      /\ \A q \in Storing' : me'[q].message \in Messages /\ me'[q].to \in Contexts
      /\ \A q \in Requests \ {p} : me'[q] = me[q]
  BY <1>1, <1>2, <1>3, <1>4, TypeOfStep
<1>6. TypeOK'
  BY <1>1, <1>2, <1>5 DEF TypeOK, redis, history
<1>7. \A d \in Contexts : TransitKept(d)
  BY <1>1, <1>5 DEF TransitKept
<1>8. ASSUME NEW q \in Requests PROVE RequestOK(q)'
  <2>1. CASE q = p
    BY <1>3, <1>4, <2>1 DEF RequestOK
  <2>2. CASE q # p
    BY <1>2, <1>5, <2>2, RequestFrame DEF IInv, history
  <2> QED BY <2>1, <2>2
<1> QED BY <1>1, <1>2, <1>6, <1>7, <1>8, NothingMoves DEF redis, history

-----------------------------------------------------------------------------
(* The steps of a reader *)

LEMMA ReaderSteps ==
    ASSUME IInv, NEW r \in Readers, UNCHANGED <<redis, me, used, log, lost, raced>>,
           faults' \in 0..FaultBound, faults' >= faults,
           reader' = [reader EXCEPT ![r] = reader'[r]], reader'[r] \in Readings, ReadOK(r)'
    PROVE  IInv'
<1>1. TypeOK
  BY DEF IInv
<1>2. TypeOK'
  <2>1. reader' \in [Readers -> Readings]
    BY <1>1 DEF TypeOK
  <2>2. Storing' = Storing
    BY DEF Storing
  <2> QED BY <1>1, <2>1, <2>2 DEF TypeOK, redis
<1>3. \A q \in Readers : reader'[q] = reader[q] \/ ReadOK(q)'
  BY <1>1 DEF TypeOK
<1>4. \A c \in Contexts : TransitKept(c)
  BY DEF TransitKept
<1>5. \A p \in Requests : RequestOK(p)'
  BY RequestFrame DEF IInv
<1> QED BY <1>2, <1>3, <1>4, <1>5, NothingMoves DEF redis

LEMMA LLenKeeps ==
    ASSUME IInv, NEW r \in Readers, NEW c \in Contexts, NEW n \in 1..MaxHistoryLength,
           LLen(r, c, n)
    PROVE  IInv'
<1>1. TypeOK /\ ListOK(c) /\ faults \in 0..FaultBound
  BY DEF IInv, TypeOK
<1> DEFINE count == Len(conversations[c])
           start == count - Least(count, n)
           reading == [NotReading EXCEPT !.pc = "range", !.context = c, !.count = count,
                                         !.start = start, !.since = Len(log[c])]
<1>2. count \in Nat /\ Len(log[c]) \in Nat /\ lost[c] \in Nat
  BY <1>1 DEF TypeOK
<1>2a. /\ start \in Nat /\ (count = 0 => start = 0)
       /\ count > 0 => start < count /\ count - start <= MaxHistoryLength
  <2> HIDE DEF count
  <2> QED BY <1>2, LengthAssumption DEF Least
<1>4. reader' = [reader EXCEPT ![r] = reading] /\ UNCHANGED <<redis, me, history>>
  BY DEF LLen
<1> HIDE DEF count, start
<1>3. /\ reading \in Readings
      /\ reading.pc = "range" /\ reading.context = c /\ reading.start = start
      /\ reading.count = count /\ reading.since = Len(log[c])
  BY <1>2, <1>2a, NotReadingFacts DEF Readings
<1> HIDE DEF reading
<1>5. reader'[r] = reading
  BY <1>1, <1>4 DEF TypeOK
<1>7. /\ lost[c] < Len(log[c]) => count <= Len(log[c]) - lost[c]
      /\ count = 0 => lost[c] >= Len(log[c])
  <2>1. /\ count + lost[c] <= Len(log[c])
        /\ count >= Least(MaxHistoryLength, Len(log[c]) - lost[c])
    BY <1>1 DEF ListOK, count
  <2>2. MaxHistoryLength \in Nat /\ MaxHistoryLength > 0
    BY LengthAssumption
  <2> QED BY <1>2, <2>1, <2>2 DEF Least
<1>8. ReadOK(r)'
  <2>1. CountOK(r, c)'
    <3>1. /\ Len(log[c]) <= Len(log[c])
          /\ count + Len(log[c]) <= Len(log[c]) + count
      BY <1>2
    <3>2. conversations' = conversations /\ log' = log /\ lost' = lost
      BY <1>4 DEF redis, history
    <3> QED BY <1>2a, <1>3, <1>5, <1>7, <3>1, <3>2 DEF CountOK, count
  <2> QED BY <1>3, <1>5, <2>1 DEF ReadOK
<1>9. faults' \in 0..FaultBound /\ faults' >= faults
  BY <1>1, <1>4, FaultAssumption DEF history
<1>10. UNCHANGED <<redis, me, used, log, lost, raced>>
  BY <1>4 DEF history
<1>11. reader' = [reader EXCEPT ![r] = reader'[r]] /\ reader'[r] \in Readings
  BY <1>3, <1>4, <1>5
<1> QED BY <1>8, <1>9, <1>10, <1>11, ReaderSteps

(* What LRANGE returns to a reader, in terms of the list that it finds now. *)
LEMMA ElementsTaken ==
    ASSUME IInv, NEW r \in Readers, NEW c \in Contexts, reader[r].pc = "range",
           reader[r].context = c, NEW ids, ids = Taken(r)
    PROVE  /\ ids \in Seq(Messages)
           /\ reader[r].count > 0 => Len(ids) <= MaxHistoryLength
           /\ Len(ids) = 0 => lost[c] >= reader[r].since \/ reader[r].count > MaxHistoryLength
           /\ Len(ids) > 0 => RunOf(ids, reader[r].since, c)
<1> DEFINE count == reader[r].count
           since == reader[r].since
           list == conversations[c]
           L == Len(list)
           N == Len(log[c])
           start == reader[r].start
           end == Least(count, L)
<1>1. /\ list \in Seq(Messages) /\ L \in Nat /\ N \in Nat /\ lost[c] \in Nat
      /\ count \in Nat /\ start \in Nat /\ since \in Nat /\ MaxHistoryLength \in Nat \ {0}
  BY LengthAssumption DEF IInv, TypeOK, Readings
<1>2. /\ since <= N
      /\ count > 0 => start < count /\ count - start <= MaxHistoryLength
      /\ lost[c] < since => count <= since - lost[c]
      /\ count = 0 => start = 0 /\ lost[c] >= since
      /\ L + since <= N + count
  BY DEF IInv, ReadOK, CountOK
<1>3. /\ L + lost[c] <= N /\ L >= Least(MaxHistoryLength, N - lost[c])
      /\ \A i \in 1..L : list[i] = log[c][N - L + i]
  BY DEF IInv, ListOK
<1>4. ids = IF count = 0 THEN SubSeq(list, 1, L) ELSE SubSeq(list, start + 1, end)
  <2>0. ids = Elements(list, start, count - 1)
    BY DEF Taken
  <2>1. CASE count = 0
    <3>1. start = 0 /\ count - 1 < 0 /\ L + (count - 1) + 1 = L
      BY <1>1, <1>2, <2>1
    <3> QED BY <2>0, <2>1, <3>1 DEF Elements
  <2>2. CASE count # 0
    <3>1. ~(count - 1 < 0) /\ (count - 1) + 1 = count
      BY <1>1, <2>2
    <3> QED BY <2>0, <2>2, <3>1 DEF Elements
  <2> QED BY <2>1, <2>2
<1>5. /\ end \in Nat /\ end <= L /\ end <= count
      /\ end = L \/ end = count
  BY <1>1 DEF Least
<1> HIDE DEF count, since, list, L, N, start, end
<1>6. CASE count = 0
  <2>1. /\ ids \in Seq(Messages) /\ Len(ids) = L
        /\ \A i \in 1..L : ids[i] = list[i]
    <3>1. ids = SubSeq(list, 1, L)
      BY <1>4, <1>6
    <3>2. 1 <= L + 1 /\ L <= Len(list) /\ L - 1 + 1 = L
      BY <1>1 DEF L
    <3>3. /\ SubSeq(list, 1, L) \in Seq(Messages) /\ Len(SubSeq(list, 1, L)) = L - 1 + 1
          /\ \A k \in 1..(L - 1 + 1) : SubSeq(list, 1, L)[k] = list[1 + k - 1]
      BY <1>1, <3>2, SubSeqFacts
    <3>4. \A k \in 1..L : 1 + k - 1 = k
      OBVIOUS
    <3> QED BY <3>1, <3>2, <3>3, <3>4
  <2>2. N \in since..N /\ N >= Len(ids)
    BY <1>1, <1>2, <1>3, <2>1
  <2>3. \A i \in 1..Len(ids) : ids[i] = log[c][N - Len(ids) + i]
    BY <1>3, <2>1
  <2>4. RunOf(ids, since, c)
    BY <2>2, <2>3 DEF RunOf, N
  <2> QED BY <1>1, <1>2, <1>6, <2>1, <2>4 DEF count, since
<1>7. CASE count # 0 /\ end <= start
  <2>1. ids = <<>>
    BY <1>1, <1>4, <1>5, <1>7, SubSeqEmpty
  <2>2. L < count
    BY <1>1, <1>2, <1>5, <1>7
  <2>3. lost[c] >= since \/ count > MaxHistoryLength
    BY <1>1, <1>2, <1>3, <2>2 DEF Least
  <2>4. Len(ids) = 0 /\ ids \in Seq(Messages)
    <3>1. Len(<<>>) = 0 /\ <<>> \in Seq(Messages)
      OBVIOUS
    <3> QED BY <2>1, <3>1, Zenon
  <2> QED BY <1>1, <2>3, <2>4 DEF count, since
<1>8. CASE count # 0 /\ start < end
  <2>1. /\ ids \in Seq(Messages) /\ Len(ids) = end - start
        /\ \A k \in 1..(end - start) : ids[k] = list[start + k]
    <3>1. ids = SubSeq(list, start + 1, end)
      BY <1>4, <1>8
    <3>2. /\ start + 1 \in Nat /\ 1 <= start + 1 /\ end <= Len(list) /\ start + 1 <= end + 1
          /\ end - (start + 1) + 1 = end - start
      BY <1>1, <1>5, <1>8 DEF L
    <3>3. /\ SubSeq(list, start + 1, end) \in Seq(Messages)
          /\ Len(SubSeq(list, start + 1, end)) = end - (start + 1) + 1
          /\ \A k \in 1..(end - (start + 1) + 1) :
                SubSeq(list, start + 1, end)[k] = list[(start + 1) + k - 1]
      <4> DEFINE first == start + 1
      <4>1. first \in Nat /\ 1 <= first /\ end \in Nat /\ end <= Len(list) /\ first <= end + 1
        BY <1>1, <1>5, <3>2
      <4> HIDE DEF first
      <4>2. /\ SubSeq(list, first, end) \in Seq(Messages)
            /\ Len(SubSeq(list, first, end)) = end - first + 1
            /\ \A k \in 1..(end - first + 1) : SubSeq(list, first, end)[k] = list[first + k - 1]
        BY <1>1, <4>1, SubSeqFacts
      <4> QED BY <4>2 DEF first
    <3>4. \A k \in 1..(end - start) : (start + 1) + k - 1 = start + k
      BY <1>1, <1>5
    <3> QED BY <3>1, <3>2, <3>3, <3>4
  <2> DEFINE last == N - L + end
  <2>2. last \in since..N /\ last >= Len(ids) /\ Len(ids) > 0 /\ Len(ids) <= MaxHistoryLength
    <3>1. Len(ids) = end - start
      BY <2>1
    <3>2. count > 0 /\ end - start > 0 /\ end - start <= count - start
          /\ end - start \in Nat /\ end - start <= end
      BY <1>1, <1>2, <1>5, <1>8
    <3>3. Len(ids) > 0 /\ Len(ids) <= MaxHistoryLength /\ Len(ids) <= end
      BY <1>1, <1>2, <1>5, <3>1, <3>2
    <3>4. last \in Int /\ last <= N /\ last >= end
      BY <1>1, <1>3, <1>5
    <3>5. last >= since
      BY <1>1, <1>2, <1>5
    <3> HIDE DEF last
    <3>6. Len(ids) \in Nat
      BY <3>1, <3>2
    <3> QED BY <1>1, <1>5, <3>3, <3>4, <3>5, <3>6
  <2>3. ASSUME NEW i \in 1..Len(ids) PROVE ids[i] = log[c][last - Len(ids) + i]
    <3>1. start + i \in 1..L /\ N - L + (start + i) = last - Len(ids) + i /\ i \in 1..(end - start)
      <4>1. i \in Int /\ 1 <= i /\ i <= end - start
        <5>1. Len(ids) = end - start
          BY <2>1
        <5> QED BY <1>1, <1>5, <5>1
      <4>2. Len(ids) = end - start
        BY <2>1
      <4> QED BY <1>1, <1>5, <1>8, <4>1, <4>2
    <3> QED BY <1>3, <2>1, <3>1
  <2> HIDE DEF last
  <2>4. RunOf(ids, since, c)
    BY <2>2, <2>3 DEF RunOf, N
  <2> QED BY <1>1, <2>1, <2>2, <2>4 DEF count, since
<1> QED BY <1>1, <1>5, <1>6, <1>7, <1>8

(* A reader that counts nothing any more. *)
LEMMA LateReaderSteps ==
    ASSUME IInv, NEW r \in Readers, UNCHANGED <<redis, me, used, log, lost, raced>>,
           faults' \in 0..FaultBound, faults' >= faults, NEW next \in Readings,
           reader' = [reader EXCEPT ![r] = next],
           next.pc = "idle" \/ (next.pc = "get" /\ next.context \in Contexts)
    PROVE  IInv'
<1>1. reader'[r] = next
  BY DEF IInv, TypeOK
<1>2. ReadOK(r)'
  BY <1>1 DEF ReadOK
<1>3. reader' = [reader EXCEPT ![r] = reader'[r]] /\ reader'[r] \in Readings
  BY <1>1
<1> QED BY <1>2, <1>3, ReaderSteps

LEMMA LRangeKeeps ==
    ASSUME IInv, NEW r \in Readers, LRange(r)
    PROVE  IInv'
<1>1. TypeOK /\ reader[r].pc = "range" /\ reader[r].context \in Contexts
  BY DEF IInv, LRange, ReadOK
<1>2. Taken(r) \in Seq(Messages)
  BY <1>1, ElementsTaken
<1>3. UNCHANGED <<redis, me, used, log, lost, raced>> /\ (Succeeds \/ Fails)
  BY DEF LRange
<1>4. faults' \in 0..FaultBound /\ faults' >= faults
  BY <1>1, <1>3, CommandsCounted
<1> DEFINE next == [NotReading EXCEPT !.pc = "get", !.context = reader[r].context,
                                      !.ids = Taken(r)]
<1>5. next \in Readings /\ next.pc = "get" /\ next.context \in Contexts
  BY <1>1, <1>2, NotReadingFacts DEF Readings
<1>6. reader' = [reader EXCEPT ![r] = next] \/ reader' = [reader EXCEPT ![r] = NotReading]
  BY DEF LRange
<1> HIDE DEF next
<1>7. CASE reader' = [reader EXCEPT ![r] = next]
  BY <1>3, <1>4, <1>5, <1>7, LateReaderSteps
<1>8. CASE reader' = [reader EXCEPT ![r] = NotReading]
  <2>1. PICK idle \in Readings : idle = NotReading /\ idle.pc = "idle"
    BY NotReadingFacts
  <2>2. reader' = [reader EXCEPT ![r] = idle]
    BY <1>8, <2>1
  <2> QED BY <1>3, <1>4, <2>1, <2>2, LateReaderSteps
<1> QED BY <1>6, <1>7, <1>8

(* What a Get makes of the reading. *)
LEMMA GetFacts ==
    ASSUME IInv, NEW r \in Readers, Get(r)
    PROVE  \E next \in Readings :
              /\ reader' = [reader EXCEPT ![r] = next]
              /\ next.pc = "get" /\ next.context = reader[r].context
              /\ next.ids = reader[r].ids /\ next.tried = reader[r].tried + 1
              /\ \/ next.missed = reader[r].missed
                 \/ /\ next.missed = reader[r].missed \cup {next.tried}
                    /\ messages[reader[r].ids[next.tried]] = None
<1>1. reader \in [Readers -> Readings] /\ reader[r] \in Readings /\ reader[r].pc = "get"
  BY DEF IInv, TypeOK, Get
<1> DEFINE i == reader[r].tried + 1
<1>2. i \in Nat
  BY <1>1 DEF Readings
<1> DEFINE on == [reader[r] EXCEPT !.tried = i]
           missing == [reader[r] EXCEPT !.tried = i, !.missed = @ \cup {i}]
<1>3. \/ reader' = [reader EXCEPT ![r] = on]
      \/ reader' = [reader EXCEPT ![r] = missing] /\ messages[reader[r].ids[i]] = None
  <2>1. i..i = {i}
    BY <1>2
  <2>2. /\ [reader EXCEPT ![r].tried = i] = [reader EXCEPT ![r] = on]
        /\ [reader EXCEPT ![r].tried = i, ![r].missed = @ \cup (i..i)]
              = [reader EXCEPT ![r] = missing]
    BY <1>1, <2>1
  <2> QED BY <2>2 DEF Get, Skip
<1>4. /\ on \in Readings /\ on.pc = "get" /\ on.context = reader[r].context
      /\ on.ids = reader[r].ids /\ on.tried = i /\ on.missed = reader[r].missed
  BY <1>1, <1>2 DEF Readings
<1>5. /\ missing \in Readings /\ missing.pc = "get" /\ missing.context = reader[r].context
      /\ missing.ids = reader[r].ids /\ missing.tried = i
      /\ missing.missed = reader[r].missed \cup {i}
  BY <1>1, <1>2 DEF Readings
<1> HIDE DEF on, missing
<1> QED BY <1>3, <1>4, <1>5

LEMMA GetKeeps ==
    ASSUME IInv, NEW r \in Readers, Get(r)
    PROVE  IInv'
<1>1. UNCHANGED <<redis, me, used, log, lost, raced>> /\ (Succeeds \/ Fails)
  BY DEF Get
<1>2. faults' \in 0..FaultBound /\ faults' >= faults
  BY <1>1, CommandsCounted DEF IInv
<1>3. reader[r].context \in Contexts
  BY DEF IInv, ReadOK, Get
<1> QED BY <1>1, <1>2, <1>3, GetFacts, LateReaderSteps

LEMMA ReturnKeeps ==
    ASSUME IInv, NEW r \in Readers, Return(r)
    PROVE  IInv'
<1>1. faults \in 0..FaultBound
  BY DEF IInv, TypeOK
<1>2. reader' = [reader EXCEPT ![r] = NotReading] /\ UNCHANGED <<redis, me, history>>
  BY DEF Return
<1>3. faults' \in 0..FaultBound /\ faults' >= faults
      /\ UNCHANGED <<redis, me, used, log, lost, raced>>
  BY <1>1, <1>2, FaultAssumption DEF history
<1>4. PICK idle \in Readings : idle = NotReading /\ idle.pc = "idle"
  BY NotReadingFacts
<1>5. reader' = [reader EXCEPT ![r] = idle]
  BY <1>2, <1>4
<1> QED BY <1>3, <1>4, <1>5, LateReaderSteps

-----------------------------------------------------------------------------
(* The clock *)

LEMMA TickKeeps ==
    ASSUME IInv, Tick
    PROVE  IInv'
<1>1. TypeOK /\ UNCHANGED <<faults, me, reader, used, log, raced>>
  BY DEF IInv, Tick
<1>2. ASSUME NEW m \in Messages
      PROVE  /\ lives'[m] = IF lives[m] > 0 THEN lives[m] - 1 ELSE 0
             /\ lives[m] \in 0..ExpireTime /\ lives'[m] \in 0..ExpireTime
             /\ messages'[m] \in Contexts \cup {None}
  <2>1. /\ lives'[m] = IF lives[m] > 0 THEN lives[m] - 1 ELSE 0
        /\ messages'[m] = IF lives[m] > 1 THEN messages[m] ELSE None
    BY DEF Tick
  <2>2. lives[m] \in 0..ExpireTime /\ messages[m] \in Contexts \cup {None}
    BY <1>1 DEF TypeOK
  <2> QED BY <2>1, <2>2, ExpireAssumption
<1>3. ASSUME NEW c \in Contexts
      PROVE  /\ remains[c] \in 0..Never /\ remains'[c] \in 0..Never
             /\ remains'[c] = IF remains[c] \in 1..ExpireTime THEN remains[c] - 1 ELSE remains[c]
             /\ conversations[c] \in Seq(Messages) /\ log[c] \in Seq(Messages)
             /\ Len(conversations[c]) \in Nat /\ Len(log[c]) \in Nat
             /\ lost[c] \in Nat /\ lost'[c] \in Nat
             /\ \/ remains[c] = 1 /\ conversations'[c] = <<>> /\ lost'[c] = Len(log[c])
                \/ remains[c] # 1 /\ conversations'[c] = conversations[c] /\ lost'[c] = lost[c]
  <2>1. /\ remains'[c] = IF remains[c] \in 1..ExpireTime THEN remains[c] - 1 ELSE remains[c]
        /\ conversations'[c] = IF remains[c] = 1 THEN <<>> ELSE conversations[c]
        /\ lost'[c] = IF remains[c] = 1 THEN Len(log[c]) ELSE lost[c]
    BY DEF Tick
  <2>2. /\ remains[c] \in 0..Never /\ conversations[c] \in Seq(Messages)
        /\ log[c] \in Seq(Messages) /\ lost[c] \in Nat
    BY <1>1 DEF TypeOK
  <2>3. remains'[c] \in 0..Never
    BY <2>1, <2>2, ExpireAssumption DEF Never
  <2>4. Len(conversations[c]) \in Nat /\ Len(log[c]) \in Nat
    BY <2>2
  <2> QED BY <2>1, <2>2, <2>3, <2>4
<1>4. TypeOK'
  <2>1. lives' \in [Messages -> 0..ExpireTime] /\ messages' \in [Messages -> Contexts \cup {None}]
    <3>1. lives' = [m \in Messages |-> IF lives[m] > 0 THEN lives[m] - 1 ELSE 0]
      BY DEF Tick
    <3>2. messages' = [m \in Messages |-> IF lives[m] > 1 THEN messages[m] ELSE None]
      BY DEF Tick
    <3> QED BY <1>2, <3>1, <3>2
  <2>2. remains' \in [Contexts -> 0..Never]
    <3>1. remains' = [c \in Contexts |-> IF remains[c] \in 1..ExpireTime THEN remains[c] - 1
                                         ELSE remains[c]]
      BY DEF Tick
    <3> QED BY <1>3, <3>1
  <2>3. conversations' \in [Contexts -> Seq(Messages)] /\ lost' \in [Contexts -> Nat]
    <3>1. conversations' = [c \in Contexts |-> IF remains[c] = 1 THEN <<>> ELSE conversations[c]]
      BY DEF Tick
    <3>2. lost' = [c \in Contexts |-> IF remains[c] = 1 THEN Len(log[c]) ELSE lost[c]]
      BY DEF Tick
    <3>3. <<>> \in Seq(Messages)
      OBVIOUS
    <3> QED BY <1>3, <3>1, <3>2, <3>3
  <2>4. Storing' = Storing
    BY <1>1 DEF Storing
  <2> QED BY <1>1, <2>1, <2>2, <2>3, <2>4 DEF TypeOK
<1>5. ASSUME NEW c \in Contexts PROVE ListOK(c)' /\ ExpiryOK(c)' /\ Grows(c)
  <2>1. ListOK(c) /\ ExpiryOK(c)
    BY DEF IInv
  <2>2. CASE remains[c] = 1
    <3>1. /\ conversations'[c] = <<>> /\ lost'[c] = Len(log[c]) /\ log'[c] = log[c]
          /\ Len(<<>>) = 0 /\ remains'[c] = 0 /\ Never # 0
      BY <1>1, <1>3, <2>2, ExpireAssumption DEF Never
    <3>2. /\ 0 + Len(log[c]) <= Len(log[c]) /\ ~(0 > MaxHistoryLength)
          /\ 0 >= Least(MaxHistoryLength, Len(log[c]) - Len(log[c]))
          /\ 0 + Len(log[c]) <= Len(conversations[c]) + Len(log[c])
      <4> DEFINE N == Len(log[c])
                 L == Len(conversations[c])
      <4>1. N \in Nat /\ L \in Nat /\ MaxHistoryLength \in Nat
        BY <1>3, LengthAssumption
      <4> HIDE DEF N, L
      <4>2. 0 + N <= N /\ ~(0 > MaxHistoryLength) /\ 0 + N <= L + N /\ N - N = 0
        BY <4>1
      <4>3. 0 >= Least(MaxHistoryLength, N - N)
        BY <4>1, <4>2 DEF Least
      <4> QED BY <4>2, <4>3 DEF N, L
    <3>3. ListOK(c)'
      BY <3>1, <3>2 DEF ListOK
    <3>4. ExpiryOK(c)'
      BY <3>1 DEF ExpiryOK
    <3>5. Grows(c)
      BY <1>3, <3>1, <3>2 DEF Grows
    <3> QED BY <3>3, <3>4, <3>5
  <2>3. CASE remains[c] # 1
    <3>1. conversations'[c] = conversations[c] /\ lost'[c] = lost[c] /\ log'[c] = log[c]
      BY <1>1, <1>3, <2>3
    <3>2. ListOK(c)'
      BY <1>1, <2>1, <3>1 DEF ListOK, InTransit
    <3>3. /\ remains'[c] = 0 <=> remains[c] = 0
          /\ remains'[c] = Never => remains[c] = Never
      BY <1>3, <2>3, ExpireAssumption DEF Never
    <3>4. ASSUME NEW i \in 1..Len(conversations[c]), lives'[conversations[c][i]] > remains'[c]
          PROVE  lives[conversations[c][i]] > remains[c]
      <4>1. PICK m \in Messages : m = conversations[c][i]
        BY <1>3
      <4>2. remains[c] # 0
        BY <1>3, <2>1 DEF ExpiryOK
      <4>3. /\ lives'[m] = IF lives[m] > 0 THEN lives[m] - 1 ELSE 0
            /\ lives[m] \in 0..ExpireTime /\ lives'[m] \in 0..ExpireTime /\ lives'[m] > remains'[c]
        BY <1>2, <3>4, <4>1
      <4>4. lives[m] > remains[c]
        BY <1>3, <4>2, <4>3, ExpireAssumption DEF Never
      <4> QED BY <4>1, <4>4
    <3>5. ExpiryOK(c)'
      BY <1>1, <2>1, <3>1, <3>3, <3>4 DEF ExpiryOK, InTransit
    <3>6. Grows(c)
      BY <1>3, <3>1 DEF Grows
    <3> QED BY <3>2, <3>5, <3>6
  <2> QED BY <2>2, <2>3
<1>6. ASSUME NEW r \in Readers PROVE ReadOK(r)'
  <2>1. \A c \in Contexts : Len(conversations[c]) + lost[c] <= Len(log[c])
    BY DEF IInv, ListOK
  <2> QED BY <1>1, <1>4, <1>5, <2>1, ReadFrame DEF IInv
<1>7. ASSUME NEW p \in Requests PROVE RequestOK(p)'
  BY <1>1, RequestFrame DEF IInv
<1> QED BY <1>4, <1>5, <1>6, <1>7 DEF IInv

-----------------------------------------------------------------------------
(* The theorems *)

LEMMA NextIInv == IInv /\ [Next]_vars => IInv'
<1> SUFFICES ASSUME IInv, [Next]_vars PROVE IInv'
  OBVIOUS
<1>1. ASSUME NEW p \in Requests, NEW m \in Messages,
             \/ \E c \in Contexts : processRequestMessage(p, m, c)
             \/ sendStreamingEventHook(p, m)
             \/ processReplyMessage(p, m)
      PROVE  IInv'
  BY <1>1, StoresKeep
<1>2. ASSUME NEW p \in Requests,
             RPush(p) \/ Expire(p) \/ LTrim(p) \/ SubscribeTask(p) \/ EndProcessing(p)
      PROVE  IInv'
  BY <1>2, RPushKeeps, ExpireKeeps, LTrimKeeps, SubscribeKeeps, EndKeeps
<1>3. ASSUME NEW r \in Readers, NEW c \in Contexts, NEW n \in 1..MaxHistoryLength, LLen(r, c, n)
      PROVE  IInv'
  BY <1>3, LLenKeeps
<1>4. ASSUME NEW r \in Readers, LRange(r) \/ Get(r) \/ Return(r) PROVE IInv'
  BY <1>4, LRangeKeeps, GetKeeps, ReturnKeeps
<1>5. CASE Tick
  BY <1>5, TickKeeps
<1>6. CASE UNCHANGED vars
  <2>1. UNCHANGED <<redis, me, reader, history>>
    BY <1>6 DEF vars
  <2>2. TypeOK' /\ faults' >= faults
    <3>1. TypeOK /\ faults \in Nat
      BY FaultAssumption DEF IInv, TypeOK
    <3>2. Storing' = Storing
      BY <2>1 DEF Storing
    <3> QED BY <2>1, <3>1, <3>2 DEF TypeOK, redis, history
  <2>3. \A c \in Contexts : TransitKept(c)
    BY <2>1 DEF TransitKept
  <2>4. \A p \in Requests : RequestOK(p)'
    BY <2>1, RequestFrame DEF IInv, history
  <2> QED BY <2>1, <2>2, <2>3, <2>4, NothingMoves DEF redis, history
<1> QED BY <1>1, <1>2, <1>3, <1>4, <1>5, <1>6 DEF Next

(* The invariant holds in every state, between any two commands. *)
THEOREM ConversationsInvariant == Spec => []IInv
<1>1. Init => IInv
  BY InitIInv
<1>2. IInv /\ [Next]_vars => IInv'
  BY NextIInv
<1> QED BY <1>1, <1>2, PTL DEF Spec

(* Every key of Redis, and what each request and reader holds, keeps its type:   *)
(* in particular no message is ever pushed to a list without a context.        *)
THEOREM ConversationsTypeCorrect == Spec => []TypeOK
<1>1. IInv => TypeOK
  BY DEF IInv
<1> QED BY <1>1, ConversationsInvariant, PTL

(* A run of a log is the subsequence that ends at its last element. *)
LEMMA RunIsSubSeq ==
    ASSUME NEW S, NEW s \in Seq(S), NEW t \in Seq(S), NEW last \in Nat, last <= Len(t),
           Len(s) <= last, \A i \in 1..Len(s) : s[i] = t[last - Len(s) + i]
    PROVE  s = SubSeq(t, last - Len(s) + 1, last)
<1> DEFINE first == last - Len(s) + 1
<1>1. first \in Nat /\ 1 <= first /\ first <= last + 1 /\ last - first + 1 = Len(s)
      /\ \A k \in 1..Len(s) : first + k - 1 = last - Len(s) + k
  OBVIOUS
<1> HIDE DEF first
<1>2. /\ SubSeq(t, first, last) \in Seq(S)
      /\ Len(SubSeq(t, first, last)) = last - first + 1
      /\ \A k \in 1..(last - first + 1) : SubSeq(t, first, last)[k] = t[first + k - 1]
  BY <1>1, SubSeqFacts
<1>3. Len(s) = Len(SubSeq(t, first, last))
      /\ \A k \in 1..Len(s) : s[k] = SubSeq(t, first, last)[k]
  BY <1>1, <1>2
<1>4. s = SubSeq(t, first, last)
  BY <1>2, <1>3, SeqEqual
<1> QED BY <1>4 DEF first

(* Whatever the number of stores and reads under way, the length of a history,   *)
(* the expiry and the commands that fail: a list is the end of what was pushed,  *)
(* outlives its messages, and a reader takes a run of it without a gap.        *)
THEOREM ConversationsSound == Spec => []ConversationsAreSound
<1>1. IInv => ConversationsAreSound
  <2> SUFFICES ASSUME IInv PROVE ConversationsAreSound
    OBVIOUS
  <2>1. ASSUME NEW c \in Contexts PROVE WindowOfLog(c)
    <3>1. ListOK(c) /\ conversations[c] \in Seq(Messages) /\ log[c] \in Seq(Messages)
          /\ lost[c] \in Nat
      BY DEF IInv, TypeOK
    <3>2. Len(log[c]) \in Nat /\ Len(conversations[c]) \in Nat
      BY <3>1
    <3>3. Len(conversations[c]) <= Len(log[c])
      BY <3>1, <3>2 DEF ListOK
    <3>4. conversations[c] = SubSeq(log[c], Len(log[c]) - Len(conversations[c]) + 1, Len(log[c]))
      <4>1. Len(log[c]) <= Len(log[c])
        BY <3>2
      <4>2. \A i \in 1..Len(conversations[c]) :
                conversations[c][i] = log[c][Len(log[c]) - Len(conversations[c]) + i]
        BY <3>1, Zenon DEF ListOK
      <4> QED BY <3>1, <3>2, <3>3, <4>1, <4>2, RunIsSubSeq
    <3>5. InTransit(c, {"expire", "trim"}) => StoringIn(c, {"expire", "trim"}) # {}
      BY DEF InTransit, StoringIn
    <3> QED BY <3>1, <3>4, <3>5 DEF WindowOfLog, ListOK
  <2>2. ASSUME NEW c \in Contexts PROVE ListsExpireLast(c)
    <3>1. ExpiryOK(c) /\ conversations[c] \in Seq(Messages)
      BY DEF IInv, TypeOK
    <3>2. conversations[c] = <<>> <=> Len(conversations[c]) = 0
      BY <3>1
    <3>3. InTransit(c, {"expire"}) => StoringIn(c, {"expire"}) # {}
      BY DEF InTransit, StoringIn
    <3>4. ASSUME NEW i \in 1..Len(conversations[c]), lives[conversations[c][i]] > remains[c]
          PROVE  faults > 0 \/ \E p \in StoringIn(c, {"expire"}) : me[p].message = conversations[c][i]
      BY <3>1, <3>4 DEF ExpiryOK, StoringIn
    <3>5. (conversations[c] = <<>>) = (remains[c] = 0)
      BY <3>1, <3>2 DEF ExpiryOK
    <3>6. remains[c] = Never => faults > 0 \/ StoringIn(c, {"expire"}) # {}
      BY <3>1, <3>3 DEF ExpiryOK
    <3> QED BY <3>4, <3>5, <3>6 DEF ListsExpireLast
  <2>3. ASSUME NEW r \in Readers PROVE ReadersSeeRecent(r)
    <3> SUFFICES ASSUME reader[r].pc = "range" PROVE ReadersSeeRecent(r)
      BY DEF ReadersSeeRecent
    <3> DEFINE c == reader[r].context
               ids == Taken(r)
    <3>1. c \in Contexts /\ reader[r].since \in Nat
      BY DEF IInv, ReadOK, TypeOK, Readings
    <3>1a. /\ ids \in Seq(Messages)
           /\ reader[r].count > 0 => Len(ids) <= MaxHistoryLength
           /\ Len(ids) = 0 => lost[c] >= reader[r].since \/ reader[r].count > MaxHistoryLength
           /\ Len(ids) > 0 => RunOf(ids, reader[r].since, c)
      BY <3>1, ElementsTaken
    <3> HIDE DEF ids
    <3>2. log[c] \in Seq(Messages) /\ Len(log[c]) \in Nat /\ Len(ids) \in Nat
          /\ (ids = <<>> <=> Len(ids) = 0)
      BY <3>1, <3>1a DEF IInv, TypeOK
    <3>3. ASSUME Len(ids) > 0
          PROVE  \E last \in reader[r].since..Len(log[c]) :
                     last >= Len(ids) /\ ids = SubSeq(log[c], last - Len(ids) + 1, last)
      <4>1. PICK last \in reader[r].since..Len(log[c]) :
                /\ last >= Len(ids)
                /\ \A i \in 1..Len(ids) : ids[i] = log[c][last - Len(ids) + i]
        BY <3>1a, <3>3 DEF RunOf
      <4>2. last \in Nat /\ last <= Len(log[c]) /\ Len(ids) <= last
        BY <3>1, <3>2, <4>1
      <4>3. ids = SubSeq(log[c], last - Len(ids) + 1, last)
        BY <3>1a, <3>2, <4>1, <4>2, RunIsSubSeq, ZenonT(40)
      <4> QED BY <4>1, <4>3
    <3>5. ids # <<>> => Len(ids) > 0
      BY <3>2
    <3> QED BY <3>1a, <3>2, <3>3, <3>5 DEF ReadersSeeRecent, ids
  <2> QED BY <2>1, <2>2, <2>3 DEF ConversationsAreSound
<1> QED BY <1>1, ConversationsInvariant, PTL

-----------------------------------------------------------------------------
(* What a history lacks: the second invariant. A message of the log is one that  *)
(* was used, so nothing sets its key again; in a conversation whose stores do not  *)
(* overlap one message at most is between its Set and its push, and it outlives    *)
(* all that were pushed before.                                              *)

Pushing(p, c) == me[p].pc = "push" /\ me[p].to = c

KeysOK == \A m \in Messages : messages[m] = None <=> lives[m] = 0

OrderOK(c) ==
    /\ \A i, j \in 1..Len(log[c]) : i <= j => lives[log[c][i]] <= lives[log[c][j]]
    /\ \A p \in Requests : Pushing(p, c) =>
          /\ \A i \in 1..Len(log[c]) : lives[log[c][i]] <= lives[me[p].message]
          /\ \A q \in Requests : Pushing(q, c) => q = p

LogOK(c) == \A i \in 1..Len(log[c]) : log[c][i] \in used

GotOK(r) ==
    reader[r].pc = "get" =>
        /\ reader[r].tried \in 0..Len(reader[r].ids)
        /\ \A i \in 1..Len(reader[r].ids) : reader[r].ids[i] \in used
        /\ reader[r].missed \subseteq 1..reader[r].tried
        /\ \A i \in reader[r].missed : Expired(reader[r].ids[i])
        /\ reader[r].context \notin raced =>
              \A i, j \in 1..Len(reader[r].ids) :
                  i <= j => lives[reader[r].ids[i]] <= lives[reader[r].ids[j]]

HInv ==
    /\ KeysOK
    /\ \A c \in Contexts : LogOK(c) /\ (c \notin raced => OrderOK(c))
    /\ \A r \in Readers : GotOK(r)

LEMMA InitHInv == Init => HInv
<1> SUFFICES ASSUME Init PROVE HInv
  OBVIOUS
<1>1. KeysOK
  BY DEF Init, KeysOK
<1>2. ASSUME NEW c \in Contexts PROVE LogOK(c) /\ OrderOK(c)
  <2>1. log[c] = <<>> /\ \A p \in Requests : ~Pushing(p, c)
    BY DEF Init, Pushing, Waiting
  <2>2. \A i \in 1..Len(<<>>) : FALSE
    OBVIOUS
  <2> QED BY <2>1, <2>2 DEF LogOK, OrderOK
<1>3. \A r \in Readers : GotOK(r)
  BY NotReadingFacts DEF Init, GotOK
<1> QED BY <1>1, <1>2, <1>3 DEF HInv

(* A request that comes to push to c is the first that does, with a new message.  *)
Enters(p, c) ==
    /\ \A q \in Requests : ~Pushing(q, c)
    /\ \A q \in Requests \ {p} : ~Pushing(q, c)'
    /\ lives'[me'[p].message] = ExpireTime

LEMMA OrderFrame ==
    ASSUME IInv, IInv', NEW c \in Contexts, LogOK(c), OrderOK(c),
           log' = log, \A m \in used : lives'[m] = lives[m],
           \A p \in Requests : Pushing(p, c)' =>
               \/ Pushing(p, c) /\ me'[p].message = me[p].message
               \/ Enters(p, c)
    PROVE  OrderOK(c)'
<1> DEFINE pushed == log[c]
<1>1. \A i \in 1..Len(pushed) : pushed[i] \in used /\ lives'[pushed[i]] = lives[pushed[i]]
  BY DEF LogOK
<1>2. \A i \in 1..Len(pushed) : lives'[pushed[i]] <= ExpireTime
  <2>1. pushed \in Seq(Messages) /\ lives' \in [Messages -> 0..ExpireTime]
    BY DEF IInv, TypeOK
  <2>2. \A i \in 1..Len(pushed) : pushed[i] \in Messages
    BY <2>1
  <2> QED BY <2>1, <2>2, ExpireAssumption
<1>3. ASSUME NEW p \in Requests, Pushing(p, c)'
      PROVE  /\ \A i \in 1..Len(pushed) : lives'[pushed[i]] <= lives'[me'[p].message]
             /\ \A q \in Requests : Pushing(q, c)' => q = p
  <2>1. CASE Pushing(p, c) /\ me'[p].message = me[p].message
    <3>1. me[p].message \in used
      BY <2>1 DEF IInv, RequestOK, Pushing
    <3>2. \A q \in Requests : Pushing(q, c)' => q = p
      <4>1. ASSUME NEW q \in Requests, Pushing(q, c)' PROVE q = p
        <5>1. Pushing(q, c)
          BY <2>1, <4>1 DEF Enters
        <5> QED BY <2>1, <5>1 DEF OrderOK
      <4> QED BY <4>1
    <3> QED BY <1>1, <2>1, <3>1, <3>2 DEF OrderOK
  <2>2. CASE Enters(p, c)
    <3>1. \A q \in Requests : Pushing(q, c)' => q = p
      BY <2>2 DEF Enters
    <3> QED BY <1>2, <2>2, <3>1 DEF Enters
  <2> QED BY <1>3, <2>1, <2>2
<1>4. \A i, j \in 1..Len(pushed) : i <= j => lives'[pushed[i]] <= lives'[pushed[j]]
  BY <1>1 DEF OrderOK
<1> QED BY <1>3, <1>4 DEF OrderOK

(* A reading that does not change keeps what it has. *)
LEMMA GotFrame ==
    ASSUME IInv, NEW r \in Readers, GotOK(r), reader'[r] = reader[r],
           used \subseteq used', raced \subseteq raced',
           \A m \in used : lives'[m] = lives[m] /\ messages'[m] = messages[m]
    PROVE  GotOK(r)'
<1> SUFFICES ASSUME reader[r].pc = "get" PROVE GotOK(r)'
  BY DEF GotOK
<1> DEFINE ids == reader[r].ids
<1>1. /\ reader[r].tried \in 0..Len(ids)
      /\ \A i \in 1..Len(ids) : /\ ids[i] \in used /\ lives'[ids[i]] = lives[ids[i]]
                                 /\ messages'[ids[i]] = messages[ids[i]]
  BY DEF GotOK
<1>2. ids \in Seq(Messages) /\ Len(ids) \in Nat
  <2>1. reader[r] \in Readings
    BY DEF IInv, TypeOK
  <2> QED BY <2>1 DEF Readings
<1>3. \A i \in 1..reader[r].tried : i \in 1..Len(ids)
  BY <1>1, <1>2
<1>4. reader[r].missed \subseteq 1..reader[r].tried /\ \A i \in reader[r].missed : Expired(ids[i])'
  BY <1>1, <1>3 DEF GotOK, Expired
<1>5. ASSUME reader[r].context \notin raced', NEW i \in 1..Len(ids), NEW j \in 1..Len(ids), i <= j
      PROVE  lives'[ids[i]] <= lives'[ids[j]]
  BY <1>1, <1>5 DEF GotOK
<1> QED BY <1>1, <1>4, <1>5 DEF GotOK

LEMMA HistoryFrame ==
    ASSUME IInv, IInv', HInv, KeysOK', log' = log, used \subseteq used', raced \subseteq raced',
           \A m \in used : lives'[m] = lives[m] /\ messages'[m] = messages[m],
           \A p \in Requests, c \in Contexts : Pushing(p, c)' =>
               \/ c \in raced'
               \/ Pushing(p, c) /\ me'[p].message = me[p].message
               \/ Enters(p, c),
           \A r \in Readers : reader'[r] = reader[r] \/ GotOK(r)'
    PROVE  HInv'
<1>1. ASSUME NEW c \in Contexts PROVE LogOK(c)'
  BY DEF HInv, LogOK
<1>2. ASSUME NEW c \in Contexts, c \notin raced' PROVE OrderOK(c)'
  <2>1. LogOK(c) /\ OrderOK(c)
    BY <1>2 DEF HInv
  <2> QED BY <1>2, <2>1, OrderFrame
<1>3. ASSUME NEW r \in Readers PROVE GotOK(r)'
  <2>1. GotOK(r)
    BY DEF HInv
  <2> QED BY <2>1, GotFrame
<1> QED BY <1>1, <1>2, <1>3 DEF HInv

-----------------------------------------------------------------------------
(* The steps, once more *)

LEMMA SetKeepsHistories ==
    ASSUME IInv, IInv', HInv, NEW p \in Requests, NEW m \in Messages, NEW c \in Contexts,
           NEW then \in {"idle", "processing", "streaming"}, NEW local \in Locals,
           me[p].pc \notin {"push", "expire", "trim"}, Set(p, m, c, then, local)
    PROVE  HInv'
<1>1. /\ m \notin used /\ used' = used \cup {m, c} /\ reader' = reader /\ log' = log
      /\ raced' = IF Succeeds /\ StoringIn(c, {"push"}) # {} THEN raced \cup {c} ELSE raced
  BY DEF Set
<1>2. me \in [Requests -> Locals] /\ messages \in [Messages -> Contexts \cup {None}]
      /\ lives \in [Messages -> 0..ExpireTime] /\ used \subseteq Messages \cup Contexts
  BY DEF IInv, TypeOK
<1>3. \/ /\ messages' = [messages EXCEPT ![m] = c]
         /\ lives' = [lives EXCEPT ![m] = ExpireTime]
      \/ UNCHANGED <<messages, lives>>
  BY DEF Set
<1>4. KeysOK' /\ \A k \in used : lives'[k] = lives[k] /\ messages'[k] = messages[k]
  <2>1. CASE /\ messages' = [messages EXCEPT ![m] = c]
             /\ lives' = [lives EXCEPT ![m] = ExpireTime]
    <3>1. messages'[m] = c /\ lives'[m] = ExpireTime /\ c # None /\ ExpireTime # 0
      BY <1>2, <2>1, NoneAssumption, ExpireAssumption
    <3>2. \A k : k # m => lives'[k] = lives[k] /\ messages'[k] = messages[k]
      BY <1>2, <2>1
    <3> QED BY <1>1, <3>1, <3>2 DEF HInv, KeysOK
  <2>2. CASE UNCHANGED <<messages, lives>>
    BY <2>2 DEF HInv, KeysOK
  <2> QED BY <1>3, <2>1, <2>2
<1>5. ASSUME NEW q \in Requests, NEW d \in Contexts, Pushing(q, d)'
      PROVE  \/ d \in raced'
             \/ Pushing(q, d) /\ me'[q].message = me[q].message
             \/ Enters(q, d)
  <2>1. CASE q # p
    <3>1. me'[q] = me[q]
      BY <1>2, <2>1 DEF Set
    <3> QED BY <1>5, <3>1 DEF Pushing
  <2>2. CASE q = p
    <3>1. Succeeds
      <4> SUFFICES ASSUME ~Succeeds PROVE FALSE
        OBVIOUS
      <4>1. me' = [me EXCEPT ![p] = [local EXCEPT !.pc = then]]
        BY DEF Set
      <4>2. me'[p].pc = then
        BY <1>2, <4>1 DEF Locals
      <4> QED BY <1>5, <2>2, <4>2 DEF Pushing
    <3> DEFINE pushing == [local EXCEPT !.pc = "push", !.then = then, !.message = m, !.to = c]
    <3>2. me' = [me EXCEPT ![p] = pushing]
      BY <3>1 DEF Set
    <3>3. pushing.pc = "push" /\ pushing.message = m /\ pushing.to = c
      BY DEF Locals
    <3> HIDE DEF pushing
    <3>4. me'[p] = pushing /\ d = c /\ \A k \in Requests \ {p} : me'[k] = me[k]
      BY <1>2, <1>5, <2>2, <3>2, <3>3 DEF Pushing
    <3>5. CASE StoringIn(c, {"push"}) # {}
      BY <1>1, <3>1, <3>4, <3>5
    <3>6. CASE StoringIn(c, {"push"}) = {}
      <4>1. \A k \in Requests : ~Pushing(k, c)
        BY <3>6 DEF StoringIn, Pushing
      <4>2. \A k \in Requests \ {p} : ~Pushing(k, c)'
        BY <3>4, <4>1 DEF Pushing
      <4>3. lives'[m] = ExpireTime
        <5>1. lives' = [lives EXCEPT ![m] = ExpireTime]
          BY <3>1, FaultAssumption DEF Set, Succeeds, Fails, IInv, TypeOK
        <5> QED BY <1>2, <5>1
      <4>4. me'[p].message = m
        BY <3>3, <3>4
      <4> QED BY <2>2, <3>4, <4>1, <4>2, <4>3, <4>4 DEF Enters
    <3> QED BY <3>5, <3>6
  <2> QED BY <2>1, <2>2
<1>6. used \subseteq used' /\ raced \subseteq raced'
  BY <1>1
<1> QED BY <1>1, <1>4, <1>5, <1>6, HistoryFrame

LEMMA StoresKeepHistories ==
    ASSUME IInv, IInv', HInv, NEW p \in Requests, NEW m \in Messages,
           \/ \E c \in Contexts : processRequestMessage(p, m, c)
           \/ sendStreamingEventHook(p, m)
           \/ processReplyMessage(p, m)
    PROVE  HInv'
<1>1. RequestOK(p) /\ me[p] \in Locals
  BY DEF IInv, TypeOK
<1>2. ASSUME NEW c \in Contexts, processRequestMessage(p, m, c) PROVE HInv'
  <2>1. [me[p] EXCEPT !.request = m, !.context = c] \in Locals
    BY <1>1 DEF Locals
  <2>2. /\ me[p].pc = "idle"
        /\ Set(p, m, c, "processing", [me[p] EXCEPT !.request = m, !.context = c])
    BY <1>2 DEF processRequestMessage
  <2> QED BY <2>1, <2>2, SetKeepsHistories
<1>3. CASE sendStreamingEventHook(p, m)
  <2>1. PICK c \in HookContext(p) : Set(p, m, c, "streaming", me[p])
    BY <1>3 DEF sendStreamingEventHook
  <2>2. c \in Contexts
    BY <1>1, <2>1 DEF HookContext, Locals
  <2>3. me[p].pc = "streaming"
    BY <1>3 DEF sendStreamingEventHook
  <2> QED BY <1>1, <2>1, <2>2, <2>3, SetKeepsHistories
<1>4. CASE processReplyMessage(p, m)
  <2>1. /\ me[p].pc \in {"processing", "streaming"} /\ me[p].context \in Contexts
        /\ Set(p, m, me[p].context, "idle", Waiting)
    BY <1>1, <1>4 DEF processReplyMessage, RequestOK
  <2>2. Waiting \in Locals
    BY DEF Waiting, Locals
  <2> QED BY <2>1, <2>2, SetKeepsHistories
<1> QED BY <1>2, <1>3, <1>4

(* A request that leaves its push behind pushes nothing any more. *)
LEMMA NoPush ==
    ASSUME IInv, NEW p \in Requests,
           \/ RPush(p) \/ Expire(p) \/ LTrim(p) \/ SubscribeTask(p) \/ EndProcessing(p)
    PROVE  me'[p].pc # "push" /\ \A q \in Requests \ {p} : me'[q] = me[q]
<1>1. me \in [Requests -> Locals] /\ me[p] \in Locals /\ RequestOK(p) /\ TypeOK
  BY DEF IInv, TypeOK
<1>2. ASSUME Stored(p), me[p].pc \in {"push", "expire", "trim"}
      PROVE  me'[p].pc # "push" /\ \A q \in Requests \ {p} : me'[q] = me[q]
  <2>1. me' = [me EXCEPT ![p] = me'[p]] /\ me'[p].pc \notin {"push", "expire", "trim"}
    BY <1>1, <1>2, StoredFacts
  <2> QED BY <1>1, <2>1
<1>3. CASE RPush(p)
  <2>1. CASE Succeeds
    <3>1. me' = [me EXCEPT ![p].pc = "expire"]
      BY <1>3, <2>1 DEF RPush
    <3> QED BY <1>1, <3>1 DEF Locals
  <2>2. CASE ~Succeeds
    BY <1>2, <1>3, <2>2 DEF RPush
  <2> QED BY <2>1, <2>2
<1>4. CASE Expire(p)
  <2>1. me' = [me EXCEPT ![p].pc = "trim"]
    BY <1>4 DEF Expire
  <2> QED BY <1>1, <2>1 DEF Locals
<1>5. CASE LTrim(p)
  BY <1>2, <1>5 DEF LTrim
<1>6. CASE SubscribeTask(p)
  <2>1. \/ me' = [me EXCEPT ![p] = [@ EXCEPT !.pc = "streaming", !.request = None,
                                              !.hook = GetContextID(p)]]
        \/ me' = [me EXCEPT ![p] = [@ EXCEPT !.pc = "streaming", !.request = None]]
    BY <1>6 DEF SubscribeTask
  <2>2. \A q \in Requests \ {p} : me'[q] = me[q]
    BY <1>1, <2>1
  <2>3. me'[p].pc = "streaming"
    <3>1. \/ me'[p] = [me[p] EXCEPT !.pc = "streaming", !.request = None,
                                     !.hook = GetContextID(p)]
          \/ me'[p] = [me[p] EXCEPT !.pc = "streaming", !.request = None]
      BY <1>1, <2>1
    <3> QED BY <1>1, <3>1 DEF Locals
  <2> QED BY <2>2, <2>3
<1>7. CASE EndProcessing(p)
  <2>1. me' = [me EXCEPT ![p] = Waiting]
    BY <1>7 DEF EndProcessing
  <2> QED BY <1>1, <2>1 DEF Waiting
<1> QED BY <1>3, <1>4, <1>5, <1>6, <1>7

LEMMA RequestKeepsHistories ==
    ASSUME IInv, IInv', HInv, NEW p \in Requests,
           \/ RPush(p) \/ Expire(p) \/ LTrim(p) \/ SubscribeTask(p) \/ EndProcessing(p),
           log' = log
    PROVE  HInv'
<1>1. UNCHANGED <<messages, lives, reader, used, raced>>
  BY DEF RPush, Expire, LTrim, SubscribeTask, EndProcessing, redis, history
<1>2. KeysOK'
  BY <1>1 DEF HInv, KeysOK
<1>3. \A q \in Requests, c \in Contexts : Pushing(q, c)' =>
          Pushing(q, c) /\ me'[q].message = me[q].message
  BY NoPush DEF Pushing
<1> QED BY <1>1, <1>2, <1>3, HistoryFrame

LEMMA PushKeepsHistories ==
    ASSUME IInv, IInv', HInv, NEW p \in Requests, RPush(p), log' # log
    PROVE  HInv'
<1>1. PICK c \in Contexts, m \in Messages : me[p].to = c /\ me[p].message = m
  BY DEF RPush, IInv, TypeOK, Storing
<1>2. /\ Pushing(p, c) /\ m \in used /\ log' = [log EXCEPT ![c] = Append(@, m)]
      /\ UNCHANGED <<messages, lives, reader, used, raced>>
  BY <1>1 DEF RPush, Pushing, IInv, RequestOK
<1>3. KeysOK'
  BY <1>2 DEF HInv, KeysOK
<1>4. ASSUME NEW r \in Readers PROVE GotOK(r)'
  BY <1>2, GotFrame DEF HInv
<1>5. log \in [Contexts -> Seq(Messages)] /\ log[c] \in Seq(Messages) /\ Len(log[c]) \in Nat
      /\ lives \in [Messages -> 0..ExpireTime]
  <2>1. log \in [Contexts -> Seq(Messages)] /\ lives \in [Messages -> 0..ExpireTime]
    BY DEF IInv, TypeOK
  <2>2. log[c] \in Seq(Messages)
    BY <2>1
  <2> QED BY <2>1, <2>2
<1>6. /\ log'[c] = Append(log[c], m)
      /\ \A d \in Contexts \ {c} : log'[d] = log[d]
  BY <1>2, <1>5
<1>7. /\ Len(log'[c]) = Len(log[c]) + 1
      /\ \A i \in 1..Len(log[c]) : log'[c][i] = log[c][i]
      /\ log'[c][Len(log[c]) + 1] = m
  BY <1>5, <1>6, AppendFacts
<1>8. ASSUME NEW d \in Contexts PROVE LogOK(d)' /\ (d \notin raced' => OrderOK(d)')
  <2>1. LogOK(d) /\ (d \notin raced => OrderOK(d))
    BY DEF HInv
  <2>2. CASE d # c
    <3>1. \A q \in Requests : Pushing(q, d)' =>
              Pushing(q, d) /\ me'[q].message = me[q].message
      BY NoPush DEF Pushing
    <3>2. OrderOK(d) => OrderOK(d)'
      BY <1>2, <1>6, <2>2, <3>1 DEF OrderOK
    <3>3. LogOK(d)'
      BY <1>2, <1>6, <2>1, <2>2 DEF LogOK
    <3> QED BY <1>2, <2>1, <3>2, <3>3
  <2>3. CASE d = c
    <3> DEFINE N == Len(log[c])
    <3>1. \A i \in 1..(N + 1) : i = N + 1 \/ i \in 1..N
      BY <1>5
    <3> HIDE DEF N
    <3>2. LogOK(c)'
      BY <1>2, <1>7, <2>1, <2>3, <3>1 DEF LogOK, N
    <3>3. ASSUME OrderOK(c) PROVE OrderOK(c)'
      <4>1. \A q \in Requests : ~Pushing(q, c)'
        <5>1. ASSUME NEW q \in Requests, Pushing(q, c)' PROVE FALSE
          <6>1. q # p /\ Pushing(q, c)
            BY <5>1, NoPush DEF Pushing
          <6> QED BY <1>2, <3>3, <6>1 DEF OrderOK
        <5> QED BY <5>1
      <4>2. \A i \in 1..N : lives[log[c][i]] <= lives[m]
        BY <1>1, <1>2, <3>3 DEF OrderOK, N
      <4>3. ASSUME NEW i \in 1..(N + 1), NEW j \in 1..(N + 1), i <= j
            PROVE  lives[log'[c][i]] <= lives[log'[c][j]]
        <5>1. CASE j = N + 1
          <6>1. CASE i \in 1..N
            BY <1>7, <4>2, <5>1, <6>1 DEF N
          <6>2. CASE i = N + 1
            BY <1>5, <1>7, <5>1, <6>2 DEF N
          <6> QED BY <3>1, <6>1, <6>2
        <5>2. CASE j # N + 1
          <6>1. i \in 1..N /\ j \in 1..N
            BY <1>5, <4>3, <5>2 DEF N
          <6> QED BY <1>7, <3>3, <4>3, <6>1 DEF OrderOK, N
        <5> QED BY <5>1, <5>2
      <4> QED BY <1>2, <1>7, <4>1, <4>3 DEF OrderOK, N
    <3> QED BY <1>2, <2>1, <2>3, <3>2, <3>3
  <2> QED BY <2>2, <2>3
<1> QED BY <1>3, <1>4, <1>8 DEF HInv

LEMMA ReaderKeepsHistories ==
    ASSUME IInv, IInv', HInv, NEW r \in Readers,
           \/ \E c \in Contexts, n \in 1..MaxHistoryLength : LLen(r, c, n)
           \/ LRange(r) \/ Get(r) \/ Return(r)
    PROVE  HInv'
<1>1. UNCHANGED <<messages, lives, me, used, log, raced>>
  BY DEF LLen, LRange, Get, Return, redis, history
<1>2. reader \in [Readers -> Readings] /\ reader[r] \in Readings
  BY DEF IInv, TypeOK
<1>3. \A q \in Readers \ {r} : reader'[q] = reader[q]
  <2>1. CASE Get(r)
    <3>1. PICK next \in Readings : reader' = [reader EXCEPT ![r] = next]
      BY <2>1, GetFacts
    <3> QED BY <1>2, <3>1
  <2>2. CASE ~Get(r)
    BY <1>2, <2>2 DEF LLen, LRange, Return
  <2> QED BY <2>1, <2>2
<1>4. GotOK(r)'
  <2>1. CASE \E c \in Contexts, n \in 1..MaxHistoryLength : LLen(r, c, n)
    <3>1. PICK c \in Contexts, n \in 1..MaxHistoryLength : LLen(r, c, n)
      BY <2>1
    <3>2. reader'[r].pc = "range"
      BY <1>2, <3>1 DEF LLen, NotReading
    <3> QED BY <3>2 DEF GotOK
  <2>2. CASE Return(r)
    <3>1. reader'[r] = NotReading
      BY <1>2, <2>2 DEF Return
    <3> QED BY <3>1, NotReadingFacts DEF GotOK
  <2>3. CASE LRange(r)
    <3> DEFINE ids == Taken(r)
               c == reader[r].context
               next == [NotReading EXCEPT !.pc = "get", !.context = c, !.ids = ids]
    <3>1. reader[r].pc = "range" /\ c \in Contexts
      BY <2>3 DEF LRange, IInv, ReadOK
    <3>2. ids \in Seq(Messages) /\ (Len(ids) > 0 => RunOf(ids, reader[r].since, c))
      BY <3>1, ElementsTaken
    <3>3. reader'[r] = next \/ reader'[r] = NotReading
      BY <1>2, <2>3 DEF LRange
    <3>4. /\ next.pc = "get" /\ next.context = c /\ next.ids = ids /\ next.tried = 0
          /\ next.missed = {}
      BY DEF NotReading
    <3>5. Len(ids) \in Nat /\ log[c] \in Seq(Messages) /\ Len(log[c]) \in Nat
          /\ reader[r].since \in Nat
      <4> HIDE DEF ids, c
      <4>1. log[c] \in Seq(Messages)
        BY <3>1 DEF IInv, TypeOK
      <4>2. reader[r].since \in Nat
        BY <1>2 DEF Readings
      <4> QED BY <3>2, <4>1, <4>2
    <3> HIDE DEF ids, c, next
    <3>6. CASE reader'[r] = next
      <4>1. /\ reader'[r].context = c /\ reader'[r].ids = ids /\ reader'[r].tried = 0
            /\ reader'[r].missed = {} /\ 0 \in 0..Len(ids)
        BY <3>4, <3>5, <3>6
      <4>2. CASE Len(ids) = 0
        <5>1. \A i \in 1..Len(ids) : FALSE
          BY <4>2
        <5> QED BY <4>1, <5>1 DEF GotOK
      <4>3. CASE Len(ids) > 0
        <5>1. PICK last \in reader[r].since..Len(log[c]) :
                  /\ last >= Len(ids)
                  /\ \A i \in 1..Len(ids) : ids[i] = log[c][last - Len(ids) + i]
          BY <3>2, <4>3 DEF RunOf
        <5>2. \A i \in 1..Len(ids) : last - Len(ids) + i \in 1..Len(log[c])
          BY <3>5, <5>1
        <5>3. \A i \in 1..Len(ids) : ids[i] \in used
          BY <3>1, <5>1, <5>2 DEF HInv, LogOK
        <5>4. ASSUME c \notin raced, NEW i \in 1..Len(ids), NEW j \in 1..Len(ids), i <= j
              PROVE  lives[ids[i]] <= lives[ids[j]]
          <6>1. last - Len(ids) + i <= last - Len(ids) + j
            BY <3>5, <5>1, <5>4
          <6>2. OrderOK(c)
            BY <3>1, <5>4 DEF HInv
          <6> QED BY <5>1, <5>2, <6>1, <6>2 DEF OrderOK
        <5> QED BY <1>1, <4>1, <5>3, <5>4 DEF GotOK
      <4> QED BY <3>5, <4>2, <4>3
    <3>7. CASE reader'[r] = NotReading
      BY <3>7, NotReadingFacts DEF GotOK
    <3> QED BY <3>3, <3>6, <3>7
  <2>4. CASE Get(r)
    <3> DEFINE ids == reader[r].ids
               i == reader[r].tried + 1
    <3>1. reader[r].pc = "get" /\ i <= Len(ids) /\ GotOK(r)
      BY <2>4 DEF Get, HInv
    <3>2. PICK next \in Readings :
              /\ reader' = [reader EXCEPT ![r] = next]
              /\ next.pc = "get" /\ next.context = reader[r].context
              /\ next.ids = reader[r].ids /\ next.tried = reader[r].tried + 1
              /\ \/ next.missed = reader[r].missed
                 \/ /\ next.missed = reader[r].missed \cup {next.tried}
                    /\ messages[reader[r].ids[next.tried]] = None
      BY <2>4, GetFacts
    <3>3. reader'[r] = next
      BY <1>2, <3>2
    <3>4. reader[r].tried \in Nat /\ Len(ids) \in Nat /\ i \in 0..Len(ids)
      <4>1. reader[r].tried \in Nat /\ ids \in Seq(Messages)
        BY <1>2 DEF Readings
      <4> QED BY <3>1, <4>1
    <3>5. ASSUME NEW k \in next.missed
          PROVE  k \in 1..i /\ Expired(ids[k])
      <4>1. CASE k \in reader[r].missed
        <5>1. k \in 1..reader[r].tried /\ Expired(ids[k])
          BY <3>1, <4>1 DEF GotOK
        <5> QED BY <3>4, <5>1
      <4>2. CASE k \notin reader[r].missed
        <5>1. k = i /\ messages[ids[i]] = None
          BY <3>2, <3>5, <4>2
        <5>2. i \in 1..i
          BY <3>4
        <5> QED BY <5>1, <5>2 DEF Expired
      <4> QED BY <4>1, <4>2
    <3>6. next.tried = i /\ next.ids = ids /\ next.context = reader[r].context
      BY <3>2
    <3>7. next.missed \subseteq 1..i /\ \A k \in next.missed : Expired(next.ids[k])'
      BY <1>1, <3>5, <3>6 DEF Expired
    <3>8. /\ \A k \in 1..Len(ids) : ids[k] \in used'
          /\ reader[r].context \notin raced' =>
                \A k, j \in 1..Len(ids) : k <= j => lives'[ids[k]] <= lives'[ids[j]]
      BY <1>1, <3>1 DEF GotOK
    <3> QED BY <3>3, <3>4, <3>6, <3>7, <3>8 DEF GotOK
  <2> QED BY <2>1, <2>2, <2>3, <2>4
<1>5. KeysOK'
  BY <1>1 DEF HInv, KeysOK
<1>6. \A p \in Requests, c \in Contexts : Pushing(p, c)' =>
          Pushing(p, c) /\ me'[p].message = me[p].message
  BY <1>1 DEF Pushing
<1> QED BY <1>1, <1>3, <1>4, <1>5, <1>6, HistoryFrame

(* The clock takes as much from every message, so their order stays. *)
LEMMA TickKeepsHistories ==
    ASSUME IInv, IInv', HInv, Tick
    PROVE  HInv'
<1>1. UNCHANGED <<me, reader, used, log, raced>>
  BY DEF Tick
<1>2. lives \in [Messages -> 0..ExpireTime] /\ log \in [Contexts -> Seq(Messages)]
      /\ reader \in [Readers -> Readings] /\ me \in [Requests -> Locals]
  BY DEF IInv, TypeOK
<1>3. ASSUME NEW m \in Messages
      PROVE  /\ lives[m] \in Nat /\ lives'[m] = IF lives[m] > 0 THEN lives[m] - 1 ELSE 0
             /\ messages'[m] = IF lives[m] > 1 THEN messages[m] ELSE None
             /\ messages[m] = None <=> lives[m] = 0
  BY <1>2, ExpireAssumption DEF Tick, HInv, KeysOK
<1>4. KeysOK' /\ \A m \in Messages : Expired(m) => Expired(m)'
  BY <1>3 DEF KeysOK, Expired
<1>5. \A m, k \in Messages : lives[m] <= lives[k] => lives'[m] <= lives'[k]
  BY <1>3
<1>6. ASSUME NEW c \in Contexts PROVE LogOK(c)' /\ (c \notin raced' => OrderOK(c)')
  <2>1. LogOK(c) /\ (c \notin raced => OrderOK(c)) /\ \A i \in 1..Len(log[c]) : log[c][i] \in Messages
    BY <1>2 DEF HInv
  <2>2. \A p \in Requests : Pushing(p, c) => me[p].message \in Messages
    BY DEF IInv, TypeOK, Storing, Pushing
  <2>3. OrderOK(c) => OrderOK(c)'
    BY <1>1, <1>5, <2>1, <2>2 DEF OrderOK, Pushing
  <2> QED BY <1>1, <2>1, <2>3 DEF LogOK
<1>7. ASSUME NEW r \in Readers PROVE GotOK(r)'
  <2> SUFFICES ASSUME reader[r].pc = "get" PROVE GotOK(r)'
    BY <1>1 DEF GotOK
  <2> DEFINE ids == reader[r].ids
  <2>1. GotOK(r) /\ reader[r].tried \in 0..Len(ids) /\ ids \in Seq(Messages)
    BY <1>2 DEF HInv, GotOK, Readings
  <2>2. \A i \in 1..Len(ids) : ids[i] \in Messages
    BY <2>1
  <2>3. \A i \in 1..reader[r].tried : i \in 1..Len(ids)
    BY <2>1
  <2>4. reader[r].missed \subseteq 1..reader[r].tried /\ \A i \in reader[r].missed : Expired(ids[i])'
    <3>1. reader[r].missed \subseteq 1..reader[r].tried
      BY <2>1 DEF GotOK
    <3>2. ASSUME NEW i \in reader[r].missed PROVE Expired(ids[i])'
      <4>1. Expired(ids[i])
        BY <2>1 DEF GotOK
      <4>2. ids[i] \in Messages
        BY <2>2, <2>3, <3>1
      <4>3. messages'[ids[i]] = None
        BY <1>4, <4>1, <4>2 DEF Expired
      <4> QED BY <1>1, <4>3 DEF Expired
    <3> QED BY <3>1, <3>2
  <2>5. reader[r].context \notin raced =>
            \A i, j \in 1..Len(ids) : i <= j => lives'[ids[i]] <= lives'[ids[j]]
    BY <1>5, <2>1, <2>2 DEF GotOK
  <2> QED BY <1>1, <2>1, <2>4, <2>5 DEF GotOK
<1> QED BY <1>4, <1>6, <1>7 DEF HInv

LEMMA NextHInv == IInv /\ IInv' /\ HInv /\ [Next]_vars => HInv'
<1> SUFFICES ASSUME IInv, IInv', HInv, [Next]_vars PROVE HInv'
  OBVIOUS
<1>1. ASSUME NEW p \in Requests, NEW m \in Messages,
             \/ \E c \in Contexts : processRequestMessage(p, m, c)
             \/ sendStreamingEventHook(p, m)
             \/ processReplyMessage(p, m)
      PROVE  HInv'
  BY <1>1, StoresKeepHistories
<1>2. ASSUME NEW p \in Requests,
             RPush(p) \/ Expire(p) \/ LTrim(p) \/ SubscribeTask(p) \/ EndProcessing(p)
      PROVE  HInv'
  <2>1. CASE log' = log
    BY <1>2, <2>1, RequestKeepsHistories
  <2>2. CASE log' # log
    <3>1. RPush(p)
      BY <1>2, <2>2 DEF Expire, LTrim, SubscribeTask, EndProcessing, history
    <3> QED BY <2>2, <3>1, PushKeepsHistories
  <2> QED BY <2>1, <2>2
<1>3. ASSUME NEW r \in Readers,
             \/ \E c \in Contexts, n \in 1..MaxHistoryLength : LLen(r, c, n)
             \/ LRange(r) \/ Get(r) \/ Return(r)
      PROVE  HInv'
  BY <1>3, ReaderKeepsHistories
<1>4. CASE Tick
  BY <1>4, TickKeepsHistories
<1>5. CASE UNCHANGED vars
  <2>1. UNCHANGED <<messages, lives, me, reader, used, log, raced>>
    BY <1>5 DEF vars, redis, history
  <2>2. KeysOK'
    BY <2>1 DEF HInv, KeysOK
  <2>3. \A p \in Requests, c \in Contexts : Pushing(p, c)' =>
            Pushing(p, c) /\ me'[p].message = me[p].message
    BY <2>1 DEF Pushing
  <2> QED BY <2>1, <2>2, <2>3, HistoryFrame
<1> QED BY <1>1, <1>2, <1>3, <1>4, <1>5 DEF Next

(* What a history passes over as missing, of the run it is to return, has expired;   *)
(* and where no two stores overlapped, so has all that is older.                  *)
THEOREM HistoriesAreComplete == Spec => []HistoriesLackOnlyTheExpired
<1>1. Init => HInv
  BY InitHInv
<1>2. IInv /\ IInv' /\ HInv /\ [Next]_vars => HInv'
  BY NextHInv
<1>3. IInv /\ HInv => HistoriesLackOnlyTheExpired
  <2> SUFFICES ASSUME IInv, HInv, NEW r \in Readers, reader[r].pc = "get",
                      NEW i \in reader[r].missed
               PROVE  /\ Expired(reader[r].ids[i])
                      /\ reader[r].context \notin raced =>
                            \A j \in 1..i : Expired(reader[r].ids[j])
    BY DEF HistoriesLackOnlyTheExpired
  <2> DEFINE ids == reader[r].ids
  <2>0. reader[r] \in Readings /\ lives \in [Messages -> 0..ExpireTime] /\ GotOK(r)
    BY DEF HInv, IInv, TypeOK
  <2>0a. ids \in Seq(Messages)
    BY <2>0 DEF Readings
  <2>0b. reader[r].tried \in 0..Len(ids)
    BY <2>0 DEF GotOK
  <2>1. /\ reader[r].tried \in 0..Len(ids) /\ ids \in Seq(Messages) /\ Len(ids) \in Nat
        /\ lives \in [Messages -> 0..ExpireTime] /\ GotOK(r)
    BY <2>0, <2>0a, <2>0b
  <2>2. Expired(ids[i])
    BY <2>1 DEF GotOK
  <2>3. ASSUME reader[r].context \notin raced, NEW j \in 1..i PROVE Expired(ids[j])
    <3>0. i \in 1..reader[r].tried
      BY <2>1 DEF GotOK
    <3>1. i \in 1..Len(ids) /\ j \in 1..Len(ids) /\ j <= i
      BY <2>1, <2>3, <3>0
    <3>2. ids[i] \in Messages /\ ids[j] \in Messages
      BY <2>1, <3>1
    <3>3. lives[ids[j]] <= lives[ids[i]] /\ lives[ids[i]] = 0
      BY <2>1, <2>2, <2>3, <3>1, <3>2 DEF GotOK, HInv, KeysOK, Expired
    <3>4. lives[ids[j]] = 0
      BY <2>1, <3>2, <3>3
    <3> QED BY <3>2, <3>4 DEF HInv, KeysOK, Expired
  <2> QED BY <2>2, <2>3
<1> QED BY <1>1, <1>2, <1>3, ConversationsInvariant, PTL DEF Spec
=============================================================================
