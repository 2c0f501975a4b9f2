-------------------------- MODULE RedisConversations --------------------------
(***************************************************************************)
(* The messages and conversations of the Redis task manager: a message is a *)
(* key of its own, a conversation a list of message IDs, and both expire     *)
(* ExpireTime after they were last set.  Storing a message takes four         *)
(* commands and reading a history one for the list's length, one for the     *)
(* list and one for every message; other processes and the clock come in     *)
(* between, and any command may fail (which is also what a crash of the       *)
(* process looks like from here).                                           *)
(*                                                                          *)
(* Message IDs are unique (protocol/types.go).                              *)
(***************************************************************************)
EXTENDS Integers, Sequences

CONSTANTS
    Requests,           \* goroutines that process a message
    Readers,            \* goroutines that read a history
    Messages,           \* message IDs
    Contexts,           \* context IDs
    MaxHistoryLength,
    ExpireTime,         \* in ticks of the clock
    FaultBound,         \* bound: the commands that fail
    None                \* no message, no context (the code's "")

ASSUME LengthAssumption == MaxHistoryLength \in Nat \ {0}   \* WithMaxHistoryLength
ASSUME ExpireAssumption == ExpireTime \in Nat \ {0}         \* WithExpireTime
ASSUME FaultAssumption == FaultBound \in Nat
ASSUME NoneAssumption == None \notin Messages /\ None \notin Contexts

VARIABLES
    faults,         \* history: how many commands have failed
    messages,       \* Redis: the context of the message under each message key
    lives,          \* how long each message key still lives; 0 if there is none
    conversations,  \* Redis: the list under each conversation key
    remains,        \* how long each list still lives
    me,             \* where each request is
    reader,         \* where each reader is
    used,           \* history: the message IDs and context IDs that occurred
    log,            \* history: the IDs pushed to each conversation
    lost,           \* history: how many of them were in a list that expired
    raced           \* history: the conversations two stores of which overlapped

redis == <<messages, lives, conversations, remains>>
history == <<faults, used, log, lost, raced>>
vars == <<redis, me, reader, history>>

Never == ExpireTime + 1     \* of a key that has no expiry
Least(i, j) == IF i < j THEN i ELSE j

(* then: where a request goes on when its message is stored; hook: the context  *)
(* its stream's hook holds.                                                  *)
Locals ==
    [pc : {"idle", "processing", "streaming", "push", "expire", "trim"},
     then : {"idle", "processing", "streaming"},
     message : Messages \cup {None}, to : Contexts \cup {None},
     request : Messages \cup {None}, context : Contexts \cup {None}, hook : Contexts \cup {None}]

Waiting == [pc |-> "idle", then |-> "idle", message |-> None, to |-> None,
            request |-> None, context |-> None, hook |-> None]

(* since: the length of the log when the list was counted; tried: how many of the   *)
(* IDs have been looked up; missed: the positions of those passed over as missing.   *)
(* What is returned is the messages of the others, but for those whose Get failed,   *)
(* in the order of the IDs.                                                  *)
Readings ==
    [pc : {"idle", "range", "get"}, context : Contexts \cup {None},
     start : Nat, count : Nat, since : Nat,
     ids : Seq(Messages), tried : Nat, missed : SUBSET Nat]

NotReading ==
    [pc |-> "idle", context |-> None, start |-> 0, count |-> 0, since |-> 0,
     ids |-> <<>>, tried |-> 0, missed |-> {}]

Storing == {p \in Requests : me[p].pc \in {"push", "expire", "trim"}}

TypeOK ==
    /\ faults \in 0..FaultBound
    /\ messages \in [Messages -> Contexts \cup {None}]
    /\ lives \in [Messages -> 0..ExpireTime]
    /\ conversations \in [Contexts -> Seq(Messages)]
    /\ remains \in [Contexts -> 0..Never]
    /\ me \in [Requests -> Locals]
    /\ \A p \in Storing : me[p].message \in Messages /\ me[p].to \in Contexts
    /\ reader \in [Readers -> Readings]
    /\ used \subseteq Messages \cup Contexts
    /\ log \in [Contexts -> Seq(Messages)]
    /\ lost \in [Contexts -> Nat]
    /\ raced \subseteq Contexts

Init ==
    /\ faults = 0
    /\ messages = [m \in Messages |-> None]
    /\ lives = [m \in Messages |-> 0]
    /\ conversations = [c \in Contexts |-> <<>>]
    /\ remains = [c \in Contexts |-> 0]
    /\ me = [p \in Requests |-> Waiting]
    /\ reader = [r \in Readers |-> NotReading]
    /\ used = {}
    /\ log = [c \in Contexts |-> <<>>]
    /\ lost = [c \in Contexts |-> 0]
    /\ raced = {}

-----------------------------------------------------------------------------
Succeeds == faults' = faults
Fails == faults < FaultBound /\ faults' = faults + 1

(* A command that takes effect; when its reply is lost it fails all the same. (What    *)
(* Expire and LTrim reply decides nothing, so there it makes no difference.)      *)
Applied == Succeeds \/ Fails

StoringIn(c, pcs) == {p \in Requests : me[p].to = c /\ me[p].pc \in pcs}

(* storeMessage: what fails is logged, and the request goes on. *)

Set(p, m, c, then, local) ==
    /\ m \notin used
    /\ used' = used \cup {m, c}
    /\ \/ /\ Applied
          /\ messages' = [messages EXCEPT ![m] = c]
          /\ lives' = [lives EXCEPT ![m] = ExpireTime]
       \/ Fails /\ UNCHANGED <<messages, lives>>
    /\ me' = [me EXCEPT ![p] =
                IF Succeeds THEN [local EXCEPT !.pc = "push", !.then = then, !.message = m, !.to = c]
                ELSE [local EXCEPT !.pc = then]]
    /\ raced' = IF Succeeds /\ StoringIn(c, {"push"}) # {} THEN raced \cup {c} ELSE raced
    /\ UNCHANGED <<conversations, remains, reader, log, lost>>

Stored(p) ==
    me' = [me EXCEPT ![p] =
              IF me[p].then = "idle" THEN Waiting
              ELSE [@ EXCEPT !.pc = me[p].then, !.then = "idle", !.message = None, !.to = None]]

(* A list that a push makes has no expiry yet. *)
RPush(p) ==
    LET c == me[p].to IN
    /\ me[p].pc = "push"
    /\ \/ /\ Applied
          /\ conversations' = [conversations EXCEPT ![c] = Append(@, me[p].message)]
          /\ remains' = [remains EXCEPT ![c] = IF conversations[c] = <<>> THEN Never ELSE @]
          /\ log' = [log EXCEPT ![c] = Append(@, me[p].message)]
       \/ Fails /\ UNCHANGED <<conversations, remains, log>>
    /\ IF Succeeds THEN me' = [me EXCEPT ![p].pc = "expire"] ELSE Stored(p)
    /\ UNCHANGED <<messages, lives, reader, used, lost, raced>>

(* The list may have expired since the push. *)
Expire(p) ==
    LET c == me[p].to IN
    /\ me[p].pc = "expire"
    /\ me' = [me EXCEPT ![p].pc = "trim"]
    /\ \/ /\ Succeeds
          /\ remains' = [remains EXCEPT ![c] = IF conversations[c] = <<>> THEN @ ELSE ExpireTime]
       \/ Fails /\ remains' = remains
    /\ UNCHANGED <<messages, lives, conversations, reader, used, log, lost, raced>>

(* Mutant of Trim: the oldest messages are kept. *)
KeepOldest(ids) == SubSeq(ids, 1, Least(Len(ids), MaxHistoryLength))

Trim(ids) == SubSeq(ids, Len(ids) - Least(Len(ids), MaxHistoryLength) + 1, Len(ids))

LTrim(p) ==
    LET c == me[p].to IN
    /\ me[p].pc = "trim"
    /\ \/ Succeeds /\ conversations' = [conversations EXCEPT ![c] = Trim(@)]
       \/ Fails /\ conversations' = conversations
    /\ Stored(p)
    /\ UNCHANGED <<messages, lives, remains, reader, used, log, lost, raced>>

-----------------------------------------------------------------------------
(* A request *)

(* The message is stored in the client's context or in a new one, and the      *)
(* processor is called, whether or not that succeeded.                       *)
processRequestMessage(p, m, c) ==
    /\ me[p].pc = "idle"
    /\ Set(p, m, c, "processing", [me[p] EXCEPT !.request = m, !.context = c])

(* SubscribeTask gives the stream a hook that holds the context for good; it     *)
(* reads it from the request's message, if that can be read, which nobody needs *)
(* from then on.                                                             *)
GetContextID(p) == messages[me[p].request]

SubscribeTask(p) ==
    /\ me[p].pc = "processing"
    /\ \/ Succeeds /\ me' = [me EXCEPT ![p] = [@ EXCEPT !.pc = "streaming", !.request = None,
                                                      !.hook = GetContextID(p)]]
       \/ Fails /\ me' = [me EXCEPT ![p] = [@ EXCEPT !.pc = "streaming", !.request = None]]
    /\ UNCHANGED <<redis, reader, used, log, lost, raced>>

(* Mutant of HookContext: no new context is generated. *)
HookItself(p) == {me[p].hook}

(* The conversation a reply on the stream is stored in: a new one when the hook  *)
(* holds none.                                                               *)
HookContext(p) == IF me[p].hook = None THEN Contexts \ used ELSE {me[p].hook}

sendStreamingEventHook(p, m) ==
    /\ me[p].pc = "streaming"
    /\ \E c \in HookContext(p) : Set(p, m, c, "streaming", me[p])

(* The processor returns a message as its result. *)
processReplyMessage(p, m) ==
    /\ me[p].pc \in {"processing", "streaming"}
    /\ Set(p, m, me[p].context, "idle", Waiting)

EndProcessing(p) ==
    /\ me[p].pc \in {"processing", "streaming"}
    /\ me' = [me EXCEPT ![p] = Waiting]
    /\ UNCHANGED <<redis, reader, history>>

-----------------------------------------------------------------------------
(* getConversationHistory, for the history of a task or of a request: it counts   *)
(* the list and then takes the elements that were the last n.                  *)

LLen(r, c, n) ==
    LET count == Len(conversations[c]) IN
    /\ reader[r].pc = "idle"
    /\ reader' = [reader EXCEPT ![r] =
          [NotReading EXCEPT !.pc = "range", !.context = c, !.count = count,
                             !.start = count - Least(count, n), !.since = Len(log[c])]]
    /\ UNCHANGED <<redis, me, history>>

(* Redis counts from 0, and the last element is -1: of a conversation that was    *)
(* empty when it was counted the whole list is read.                          *)
Elements(ids, start, stop) ==
    SubSeq(ids, start + 1, IF stop < 0 THEN Len(ids) + stop + 1 ELSE Least(stop + 1, Len(ids)))

(* What the reader takes of the list as it is now. *)
Taken(r) ==
    Elements(conversations[reader[r].context], reader[r].start, reader[r].count - 1)

(* With no IDs the history is empty at once. *)
LRange(r) ==
    /\ reader[r].pc = "range"
    /\ \/ /\ Succeeds
          /\ reader' = [reader EXCEPT ![r] =
                IF Taken(r) = <<>> THEN NotReading
                ELSE [NotReading EXCEPT !.pc = "get", !.context = reader[r].context,
                                        !.ids = Taken(r)]]
       \/ Fails /\ reader' = [reader EXCEPT ![r] = NotReading]
    /\ UNCHANGED <<redis, me, used, log, lost, raced>>

(* Mutant of Skip: the first ID without a message ends the loop. *)
StopAt(i, ids) == Len(ids)

(* How far the loop is after an ID without a message: it goes on with the next one. *)
Skip(i, ids) == i

(* Then it gets the messages one by one, oldest first, and leaves out those that     *)
(* have expired or cannot be read.                                           *)
Get(r) ==
    LET ids == reader[r].ids
        i == reader[r].tried + 1
    IN  /\ reader[r].pc = "get" /\ i <= Len(ids)
        /\ \/ /\ Succeeds /\ messages[ids[i]] # None
              /\ reader' = [reader EXCEPT ![r].tried = i]
           \/ /\ Succeeds /\ messages[ids[i]] = None
              /\ reader' = [reader EXCEPT ![r].tried = Skip(i, ids),
                                          ![r].missed = @ \cup (i..Skip(i, ids))]
           \/ /\ Fails
              /\ reader' = [reader EXCEPT ![r].tried = Skip(i, ids)]
        /\ UNCHANGED <<redis, me, used, log, lost, raced>>

Return(r) ==
    /\ reader[r].pc = "get" /\ reader[r].tried = Len(reader[r].ids)
    /\ reader' = [reader EXCEPT ![r] = NotReading]
    /\ UNCHANGED <<redis, me, history>>

-----------------------------------------------------------------------------
(* The clock of Redis. *)

Tick ==
    LET Ends(c) == remains[c] = 1 IN
    /\ \/ \E m \in Messages : lives[m] > 0
       \/ \E c \in Contexts : remains[c] \in 1..ExpireTime
    /\ lives' = [m \in Messages |-> IF lives[m] > 0 THEN lives[m] - 1 ELSE 0]
    /\ messages' = [m \in Messages |-> IF lives[m] > 1 THEN messages[m] ELSE None]
    /\ remains' = [c \in Contexts |-> IF remains[c] \in 1..ExpireTime THEN remains[c] - 1
                                     ELSE remains[c]]
    /\ conversations' = [c \in Contexts |-> IF Ends(c) THEN <<>> ELSE conversations[c]]
    /\ lost' = [c \in Contexts |-> IF Ends(c) THEN Len(log[c]) ELSE lost[c]]
    /\ UNCHANGED <<faults, me, reader, used, log, raced>>

-----------------------------------------------------------------------------
Next ==
    \/ \E p \in Requests :
          \/ \E m \in Messages :
                \/ \E c \in Contexts : processRequestMessage(p, m, c)
                \/ sendStreamingEventHook(p, m)
                \/ processReplyMessage(p, m)
          \/ RPush(p) \/ Expire(p) \/ LTrim(p) \/ SubscribeTask(p) \/ EndProcessing(p)
    \/ \E r \in Readers :
          \/ \E c \in Contexts, n \in 1..MaxHistoryLength : LLen(r, c, n)
          \/ LRange(r) \/ Get(r) \/ Return(r)
    \/ Tick

Spec == Init /\ [][Next]_vars

-----------------------------------------------------------------------------
(* Properties *)

(* The list holds the last messages that were pushed, in order, and never fewer   *)
(* than MaxHistoryLength of those that did not expire with an earlier list; it is  *)
(* longer only while stores are under way or because a trim failed.            *)
WindowOfLog(c) ==
    LET list == conversations[c]
        pushed == Len(log[c])
    IN  /\ list = SubSeq(log[c], pushed - Len(list) + 1, pushed)
        /\ Len(list) >= Least(MaxHistoryLength, pushed - lost[c])
        /\ Len(list) > MaxHistoryLength => faults > 0 \/ StoringIn(c, {"expire", "trim"}) # {}

(* Every list expires, and not before its messages, but for one that is pushed at  *)
(* that moment; only a failure leaves a list behind for ever.                  *)
ListsExpireLast(c) ==
    /\ (conversations[c] = <<>>) = (remains[c] = 0)
    /\ remains[c] = Never => faults > 0 \/ StoringIn(c, {"expire"}) # {}
    /\ \A i \in 1..Len(conversations[c]) :
          LET m == conversations[c][i]
          IN  lives[m] > remains[c] =>
                  faults > 0 \/ \E p \in StoringIn(c, {"expire"}) : me[p].message = m

(* Whatever happened since it counted, what a reader takes is a run of messages     *)
(* without a gap that reaches at least to the newest it counted, and is no more     *)
(* than a history holds unless it counted none. It takes nothing only if all it     *)
(* counted has expired or it counted more than there should be, in which case a     *)
(* trim may shift the list under it.                                          *)
ReadersSeeRecent(r) ==
    LET c == reader[r].context
        ids == Taken(r)
    IN  reader[r].pc = "range" =>
          /\ reader[r].count > 0 => Len(ids) <= MaxHistoryLength
          /\ IF ids = <<>>
             THEN lost[c] >= reader[r].since \/ reader[r].count > MaxHistoryLength
             ELSE \E last \in reader[r].since..Len(log[c]) :
                     last >= Len(ids) /\ ids = SubSeq(log[c], last - Len(ids) + 1, last)

(* The conversations stay sound between the commands of several stores and reads,  *)
(* with messages and lists expiring and commands failing.                      *)
ConversationsAreSound ==
    /\ \A c \in Contexts : WindowOfLog(c) /\ ListsExpireLast(c)
    /\ \A r \in Readers : ReadersSeeRecent(r)

Expired(m) == messages[m] = None

(* A history lacks a message of the run it took only when that message has expired  *)
(* or its Get failed: a list entry without its message costs no other message.   *)
(* And it lacks none that is newer than one that still lives, unless two stores   *)
(* in the conversation overlapped, so that the pushes may be in another order    *)
(* than the Sets, and the newest message expires first.                       *)
HistoriesLackOnlyTheExpired ==
    \A r \in Readers :
        LET ids == reader[r].ids
        IN  reader[r].pc = "get" =>
              \A i \in reader[r].missed :
                  /\ Expired(ids[i])
                  /\ reader[r].context \notin raced => \A j \in 1..i : Expired(ids[j])
=============================================================================
