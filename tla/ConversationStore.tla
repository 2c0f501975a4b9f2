------------------------- MODULE ConversationStore -------------------------
(***************************************************************************)
(* The messages and conversations of taskmanager/memory.go: requests that   *)
(* store their message and process it, replies that are stored when they    *)
(* are returned or sent on a stream, the window of MaxHistoryLength         *)
(* messages of each conversation, and the expiry of conversations.          *)
(*                                                                          *)
(* A step is one critical section of conversationMu; message processors     *)
(* (the agent's code) run between them.  Two readers that write             *)
(* LastAccessTime under the read lock race, but both write the present time. *)
(***************************************************************************)
EXTENDS Naturals, SequencesExt

CONSTANTS
    Requests,           \* goroutines that process a message
    Messages,           \* message IDs
    Contexts,           \* context IDs
    MaxHistoryLength,
    LogBound,           \* bound: the messages stored in a conversation's life
    None                \* no message, no context (the code's "")

ASSUME WindowAssumption == MaxHistoryLength \in Nat \ {0}   \* WithMaxHistoryLength
ASSUME NoneAssumption == None \notin Messages /\ None \notin Contexts

VARIABLES
    retries,        \* whether a client may use a message ID again
    messages,       \* Messages: the context of the message stored under an ID
    conversations,  \* Conversations: the message IDs of each context, oldest first
    idle,           \* contexts whose LastAccessTime is older than ConversationTTL
    me,             \* each request: its message and context, and its stream's
    used,           \* history: the IDs and contexts that occurred
    log             \* history: what was stored in each conversation since it began

vars == <<retries, messages, conversations, idle, me, used, log>>

(* A processor's local state; hook is the context its stream's hook holds. *)
Locals ==
    [pc: {"idle", "processing", "streaming"},
     request: Messages \cup {None},
     context: Contexts \cup {None},
     hook: Contexts \cup {None}]

Waiting == [pc |-> "idle", request |-> None, context |-> None, hook |-> None]

TypeOK ==
    /\ retries \in BOOLEAN
    /\ messages \in [Messages -> Contexts \cup {None}]
    /\ conversations \in [Contexts -> Seq(Messages)]
    /\ \A c \in Contexts : Len(conversations[c]) <= MaxHistoryLength
    /\ idle \subseteq {c \in Contexts : conversations[c] # <<>>}
    /\ me \in [Requests -> Locals]
    /\ used \subseteq Messages \cup Contexts
    /\ log \in [Contexts -> Seq(Messages)]

Init ==
    /\ retries \in BOOLEAN
    /\ messages = [m \in Messages |-> None]
    /\ conversations = [c \in Contexts |-> <<>>]
    /\ idle = {}
    /\ me = [p \in Requests |-> Waiting]
    /\ used = {}
    /\ log = [c \in Contexts |-> <<>>]

(* The last n elements of a sequence, or all of it. *)
LastOf(s, n) == SubSeq(s, IF Len(s) > n THEN Len(s) - n + 1 ELSE 1, Len(s))

-----------------------------------------------------------------------------
(* storeMessage *)

(* Mutant of Trim: it makes room a message too early. *)
TrimEarly(ids) == IF Len(ids) >= MaxHistoryLength THEN Tail(ids) ELSE ids

(* Mutant of Trim: it makes room a message too late. *)
TrimLate(ids) == IF Len(ids) > MaxHistoryLength + 1 THEN Tail(ids) ELSE ids

Trim(ids) == IF Len(ids) > MaxHistoryLength THEN Tail(ids) ELSE ids

(* Mutant of TrimmedMessages: the newest message is deleted. *)
DeleteNewest(ids) == IF Len(ids) > MaxHistoryLength THEN {Last(ids)} ELSE {}

(* Mutant of TrimmedMessages: the message pushed out is kept. *)
KeepMessages(ids) == {}

(* The message whose ID Trim removes is deleted, whichever was stored last  *)
(* under that ID.                                                           *)
TrimmedMessages(ids) == IF Len(ids) > MaxHistoryLength THEN {Head(ids)} ELSE {}

Stored(m, c, trimmed) ==
    [i \in Messages |-> IF i \in trimmed THEN None ELSE IF i = m THEN c ELSE messages[i]]

storeMessage(m, c) ==
    LET ids == Append(conversations[c], m) IN
    /\ Len(log[c]) < LogBound
    /\ retries \/ m \notin used
    /\ messages' = Stored(m, c, TrimmedMessages(ids))
    /\ conversations' = [conversations EXCEPT ![c] = Trim(ids)]
    /\ idle' = idle \ {c}
    /\ used' = used \cup {m, c}
    /\ log' = [log EXCEPT ![c] = Append(@, m)]
    /\ UNCHANGED retries

-----------------------------------------------------------------------------
(* A request *)

(* OnSendMessage and OnSendMessageStream store the message, with the         *)
(* client's context ID or a new one, and call the processor.                *)
processRequestMessage(p, m, c) ==
    /\ me[p].pc = "idle"
    /\ storeMessage(m, c)
    /\ me' = [me EXCEPT ![p] = [pc |-> "processing", request |-> m, context |-> c,
                                hook |-> None]]

(* The context of the message that is stored now under the request's ID. *)
GetContextID(p) == messages[me[p].request]

(* SubscribeTask gives the stream a hook that holds the context for good. *)
SubscribeTask(p) ==
    /\ me[p].pc = "processing"
    /\ me' = [me EXCEPT ![p].pc = "streaming", ![p].hook = GetContextID(p)]
    /\ UNCHANGED <<retries, messages, conversations, idle, used, log>>

(* A message sent on the stream goes through its hook, which stores it in    *)
(* the context it holds, or in a new one when it holds none.                *)
sendStreamingEventHook(p, m) ==
    /\ me[p].pc = "streaming"
    /\ \E c \in Contexts :
          /\ c = me[p].hook \/ (me[p].hook = None /\ c \notin used)
          /\ storeMessage(m, c)
    /\ UNCHANGED me

(* The processor returns a message as its result. *)
processReplyMessage(p, m) ==
    /\ me[p].pc # "idle"
    /\ storeMessage(m, me[p].context)
    /\ me' = [me EXCEPT ![p] = Waiting]

(* It returns a task or an error, or is done with its stream. *)
EndProcessing(p) ==
    /\ me[p].pc # "idle"
    /\ me' = [me EXCEPT ![p] = Waiting]
    /\ UNCHANGED <<retries, messages, conversations, idle, used, log>>

-----------------------------------------------------------------------------
(* Reading and expiry *)

(* What getConversationHistory returns: the IDs whose message is stored. *)
getConversationHistory(c, length) ==
    LET ids == LastOf(conversations[c], length)
        history[i \in 0..Len(ids)] ==
            IF i = 0 THEN <<>>
            ELSE IF messages[ids[i]] = None THEN history[i - 1]
            ELSE Append(history[i - 1], ids[i])
    IN  history[Len(ids)]

(* Reading a conversation, for the history of a task or of the request that  *)
(* is processed (GetMessageHistory), counts as an access to it.             *)
Read(c) ==
    /\ c \in idle
    /\ idle' = idle \ {c}
    /\ UNCHANGED <<retries, messages, conversations, me, used, log>>

OnGetTask(c) == Read(c)

GetMessageHistory(p) ==
    /\ me[p].pc # "idle"
    /\ GetContextID(p) # None
    /\ Read(GetContextID(p))

(* Time passes and nobody uses the conversation. *)
Age(c) ==
    /\ conversations[c] # <<>> /\ c \notin idle
    /\ idle' = idle \cup {c}
    /\ UNCHANGED <<retries, messages, conversations, me, used, log>>

CleanExpiredConversations ==
    LET expired == UNION {ToSet(conversations[c]) : c \in idle} IN
    /\ idle # {}
    /\ messages' = [m \in Messages |-> IF m \in expired THEN None ELSE messages[m]]
    /\ conversations' = [c \in Contexts |-> IF c \in idle THEN <<>> ELSE conversations[c]]
    /\ log' = [c \in Contexts |-> IF c \in idle THEN <<>> ELSE log[c]]
    /\ idle' = {}
    /\ UNCHANGED <<retries, me, used>>

-----------------------------------------------------------------------------
Next ==
    \/ \E p \in Requests :
          \/ \E m \in Messages :
                \/ \E c \in Contexts : processRequestMessage(p, m, c)
                \/ sendStreamingEventHook(p, m)
                \/ processReplyMessage(p, m)
          \/ SubscribeTask(p) \/ GetMessageHistory(p) \/ EndProcessing(p)
    \/ \E c \in Contexts : OnGetTask(c) \/ Age(c)
    \/ CleanExpiredConversations

Spec == Init /\ [][Next]_vars

-----------------------------------------------------------------------------
(* Properties *)

(* A conversation is the window of the last MaxHistoryLength message IDs      *)
(* stored in it, in order, whether or not clients use an ID again.          *)
WindowOfLog ==
    \A c \in Contexts : conversations[c] = LastOf(log[c], MaxHistoryLength)

(* When message IDs are unique (protocol/types.go:365) a reader gets exactly *)
(* the last messages of the conversation, as many as it asked for: none was  *)
(* deleted with another conversation or by another trim.                    *)
HistoryIsRecent ==
    retries \/ \A c \in Contexts, n \in 1 .. MaxHistoryLength :
                  getConversationHistory(c, n) = LastOf(log[c], n)

(* Every stored message is still in the window of some conversation, from    *)
(* which trimming or expiry deletes it in the end; this holds although an ID  *)
(* that is used again moves to another conversation.                        *)
NothingLeaked ==
    \A m \in Messages :
        messages[m] # None => \E c \in Contexts : m \in ToSet(conversations[c])
=============================================================================
