-------------------------- MODULE MemorySubscriber --------------------------
(***************************************************************************)
(* MemoryTaskSubscriber of taskmanager/memory.go: any number of goroutines  *)
(* call Send and Close on one subscriber, step by step through the closed   *)
(* flag, the done channel, the RWMutex mu and the buffered channel          *)
(* eventQueue, while one reader drains the channel.                         *)
(*                                                                          *)
(* A step is one access to shared state.  The RWMutex is Go's: a writer     *)
(* first announces itself, which keeps new readers out, and then waits for  *)
(* the readers that are in.                                                 *)
(***************************************************************************)
EXTENDS Naturals, Sequences, FiniteSets

CONSTANTS
    Threads,      \* the goroutines that call Send and Close
    Calls,        \* one element for every call of Send, which is also its event
    BufSize,      \* capacity of eventQueue
    None          \* no thread, no call

ASSUME BufSizeAssumption == BufSize \in Nat \ {0}
ASSUME NoneAssumption == None \notin Threads /\ None \notin Calls

VARIABLES
    blocking,     \* the option blockingSend, fixed when the subscriber is made
    closed,       \* the atomic flag
    done,         \* close(done) has happened
    queueClosed,  \* close(eventQueue) has happened
    queue,        \* the contents of eventQueue
    readers,      \* threads that hold mu for reading
    writer,       \* the thread that holds mu, or waits for it, for writing
    pc,           \* where each thread is
    call,         \* the event each thread is sending
    verdict,      \* history: what became of each call of Send
    received,     \* history: the events the reader got
    ended         \* history: the reader saw the channel closed

lock == <<readers, writer>>
reader == <<received, ended>>
vars == <<blocking, closed, done, queueClosed, queue, lock, pc, call, verdict, reader>>

Unanswered == {"check", "rlock", "recheck", "hook", "select"}
UnderRLock == {"recheck", "hook", "select", "runlock"}
Sending == {"check", "rlock"} \cup UnderRLock
Closing == {"closeDone", "lock", "acquire", "closeQueue", "unlock"}
PCs == {"idle", "cas", "panicked"} \cup Sending \cup Closing

TypeOK ==
    /\ blocking \in BOOLEAN
    /\ closed \in BOOLEAN /\ done \in BOOLEAN /\ queueClosed \in BOOLEAN
    /\ queue \in Seq(Calls) /\ Len(queue) <= BufSize
    /\ readers \subseteq Threads
    /\ writer \in Threads \cup {None}
    /\ pc \in [Threads -> PCs]
    /\ call \in [Threads -> Calls \cup {None}]
    /\ verdict \in [Calls -> {"unused", "early", "late", "accepted", "refused", "hookFailed"}]
    /\ received \in Seq(Calls)
    /\ ended \in BOOLEAN
    /\ \A t \in Threads : pc[t] \in Unanswered => call[t] \in Calls

(* NewMemoryTaskSubscriber *)
Init ==
    /\ blocking \in BOOLEAN
    /\ closed = FALSE /\ done = FALSE /\ queueClosed = FALSE
    /\ queue = <<>>
    /\ readers = {} /\ writer = None
    /\ pc = [t \in Threads |-> "idle"]
    /\ call = [t \in Threads |-> None]
    /\ verdict = [c \in Calls |-> "unused"]
    /\ received = <<>> /\ ended = FALSE

Goto(t, from, to) == pc[t] = from /\ pc' = [pc EXCEPT ![t] = to]

Answer(t, v) == verdict' = [verdict EXCEPT ![call[t]] = v]

-----------------------------------------------------------------------------
(* Send *)

CallSend(t, c) ==
    /\ Goto(t, "idle", "check")
    /\ verdict[c] = "unused"
    /\ call' = [call EXCEPT ![t] = c]
    /\ verdict' = [verdict EXCEPT ![c] = IF closed THEN "late" ELSE "early"]
    /\ UNCHANGED <<blocking, closed, done, queueClosed, queue, lock, reader>>

(* The first look at the closed flag, without the lock. *)
Check(t) ==
    /\ \/ closed /\ Goto(t, "check", "idle") /\ Answer(t, "refused")
       \/ ~closed /\ Goto(t, "check", "rlock") /\ UNCHANGED verdict
    /\ UNCHANGED <<blocking, closed, done, queueClosed, queue, lock, call, reader>>

RLock(t) ==
    /\ Goto(t, "rlock", "recheck")
    /\ writer = None
    /\ readers' = readers \cup {t}
    /\ UNCHANGED <<blocking, closed, done, queueClosed, queue, writer, call, verdict, reader>>

(* Mutant of Recheck: the flag is not looked at again under the lock. *)
RecheckSkipped(t) ==
    /\ Goto(t, "recheck", "hook")
    /\ UNCHANGED <<blocking, closed, done, queueClosed, queue, lock, call, verdict, reader>>

(* The second look, under the read lock. *)
Recheck(t) ==
    /\ \/ closed /\ Goto(t, "recheck", "runlock") /\ Answer(t, "refused")
       \/ ~closed /\ Goto(t, "recheck", "hook") /\ UNCHANGED verdict
    /\ UNCHANGED <<blocking, closed, done, queueClosed, queue, lock, call, reader>>

(* The write of lastAccessTime and the send hook. *)
Hook(t) ==
    /\ \/ Goto(t, "hook", "runlock") /\ Answer(t, "hookFailed")
       \/ Goto(t, "hook", "select") /\ UNCHANGED verdict
    /\ UNCHANGED <<blocking, closed, done, queueClosed, queue, lock, call, reader>>

(* Mutant of SelectSend: the queue grows without bound. *)
SelectSendUnbounded(t) ==
    /\ Goto(t, "select", IF queueClosed THEN "panicked" ELSE "runlock")
    /\ queue' = IF queueClosed THEN queue ELSE Append(queue, call[t])
    /\ Answer(t, "accepted")
    /\ UNCHANGED <<blocking, closed, done, queueClosed, lock, call, reader>>

(* The select: among the cases that are ready Go picks any.  A send on a    *)
(* closed channel is ready, and panics.                                     *)
SelectSend(t) ==
    /\ Goto(t, "select", IF queueClosed THEN "panicked" ELSE "runlock")
    /\ IF queueClosed
       THEN UNCHANGED <<queue, verdict>>
       ELSE /\ Len(queue) < BufSize
            /\ queue' = Append(queue, call[t])
            /\ Answer(t, "accepted")
    /\ UNCHANGED <<blocking, closed, done, queueClosed, lock, call, reader>>

(* Mutant of SelectDone: the send that Close interrupts returns nil. *)
SelectDoneReturnsNil(t) ==
    /\ Goto(t, "select", "runlock")
    /\ done
    /\ Answer(t, "accepted")
    /\ UNCHANGED <<blocking, closed, done, queueClosed, queue, lock, call, reader>>

SelectDone(t) ==
    /\ Goto(t, "select", "runlock")
    /\ done
    /\ Answer(t, "refused")
    /\ UNCHANGED <<blocking, closed, done, queueClosed, queue, lock, call, reader>>

(* Mutant of SelectDefault: the select has no default case. *)
SelectWithoutDefault(t) == FALSE /\ UNCHANGED vars

SelectDefault(t) ==
    /\ Goto(t, "select", "runlock")
    /\ ~blocking /\ ~done /\ ~queueClosed /\ Len(queue) = BufSize
    /\ Answer(t, "refused")
    /\ UNCHANGED <<blocking, closed, done, queueClosed, queue, lock, call, reader>>

RUnlock(t) ==
    /\ Goto(t, "runlock", "idle")
    /\ readers' = readers \ {t}
    /\ UNCHANGED <<blocking, closed, done, queueClosed, queue, writer, call, verdict, reader>>

-----------------------------------------------------------------------------
(* Close *)

CallClose(t) ==
    /\ Goto(t, "idle", "cas")
    /\ UNCHANGED <<blocking, closed, done, queueClosed, queue, lock, call, verdict, reader>>

(* Mutant of CompareAndSwap: the flag is stored without being compared. *)
StoreOnly(t) ==
    /\ Goto(t, "cas", "closeDone")
    /\ closed' = TRUE
    /\ UNCHANGED <<blocking, done, queueClosed, queue, lock, call, verdict, reader>>

CompareAndSwap(t) ==
    /\ Goto(t, "cas", IF closed THEN "idle" ELSE "closeDone")
    /\ closed' = TRUE
    /\ UNCHANGED <<blocking, done, queueClosed, queue, lock, call, verdict, reader>>

(* Mutant of CloseDone: Close goes for the lock with done still open. *)
SkipDone(t) ==
    /\ Goto(t, "closeDone", "lock")
    /\ UNCHANGED <<blocking, closed, done, queueClosed, queue, lock, call, verdict, reader>>

CloseDone(t) ==
    /\ Goto(t, "closeDone", IF done THEN "panicked" ELSE "lock")
    /\ done' = TRUE
    /\ UNCHANGED <<blocking, closed, queueClosed, queue, lock, call, verdict, reader>>

(* mu.Lock, first half: the writer announces itself. *)
Lock(t) ==
    /\ Goto(t, "lock", "acquire")
    /\ writer = None
    /\ writer' = t
    /\ UNCHANGED <<blocking, closed, done, queueClosed, queue, readers, call, verdict, reader>>

(* mu.Lock, second half: the readers have left. *)
Acquire(t) ==
    /\ Goto(t, "acquire", "closeQueue")
    /\ readers = {}
    /\ UNCHANGED <<blocking, closed, done, queueClosed, queue, lock, call, verdict, reader>>

CloseQueue(t) ==
    /\ Goto(t, "closeQueue", IF queueClosed THEN "panicked" ELSE "unlock")
    /\ queueClosed' = TRUE
    /\ UNCHANGED <<blocking, closed, done, queue, lock, call, verdict, reader>>

Unlock(t) ==
    /\ Goto(t, "unlock", "idle")
    /\ writer' = None
    /\ UNCHANGED <<blocking, closed, done, queueClosed, queue, readers, call, verdict, reader>>

-----------------------------------------------------------------------------
(* The reader of Channel(). *)

Receive ==
    /\ queue # <<>>
    /\ received' = Append(received, Head(queue))
    /\ queue' = Tail(queue)
    /\ UNCHANGED <<blocking, closed, done, queueClosed, lock, pc, call, verdict, ended>>

ReceiveEnd ==
    /\ queueClosed /\ queue = <<>> /\ ~ended
    /\ ended' = TRUE
    /\ UNCHANGED <<blocking, closed, done, queueClosed, queue, lock, pc, call, verdict, received>>

-----------------------------------------------------------------------------
SendStep(t) ==
    \/ Check(t) \/ RLock(t) \/ Recheck(t) \/ Hook(t)
    \/ SelectSend(t) \/ SelectDone(t) \/ SelectDefault(t)
    \/ RUnlock(t)

CloseStep(t) ==
    \/ CompareAndSwap(t) \/ CloseDone(t) \/ Lock(t) \/ Acquire(t)
    \/ CloseQueue(t) \/ Unlock(t)

Next ==
    \/ \E t \in Threads :
          \/ \E c \in Calls : CallSend(t, c)
          \/ CallClose(t)
          \/ SendStep(t)
          \/ CloseStep(t)
    \/ Receive \/ ReceiveEnd

(* A goroutine that can run is eventually run.  Nothing is assumed of the   *)
(* reader, nor that anyone ever calls Send or Close.                        *)
Fairness == \A t \in Threads : WF_vars(SendStep(t) \/ CloseStep(t))

Spec == Init /\ [][Next]_vars /\ Fairness

-----------------------------------------------------------------------------
(* Properties *)

(* No interleaving of Send and Close sends on a closed channel or closes a  *)
(* channel twice, either of which would panic and end the process.          *)
NoPanic == \A t \in Threads : pc[t] # "panicked"

(* Why there is no panic: the lock discipline of Send and Close.  The first *)
(* three parts say who holds mu; the others, what the flags then are.       *)
ReadersHoldLock == readers = {t \in Threads : pc[t] \in UnderRLock}

WriterHoldsLock ==
    \A t \in Threads : writer = t <=> pc[t] \in {"acquire", "closeQueue", "unlock"}

OneCloser == \A t, u \in Threads : pc[t] \in Closing /\ pc[u] \in Closing => t = u

FlagOrder == (queueClosed => done) /\ (done => closed)

CloserSeesFlags ==
    \A t \in Threads :
        /\ pc[t] \in Closing => closed
        /\ pc[t] = "closeDone" => ~done
        /\ pc[t] \in {"lock", "acquire", "closeQueue"} => done /\ ~queueClosed
        /\ pc[t] = "closeQueue" => readers = {}

(* A sender past its second look at the flag has the queue open until it    *)
(* leaves, even though the flag may be set and done closed meanwhile.       *)
SenderSeesOpenQueue == \A t \in Threads : pc[t] \in {"hook", "select"} => ~queueClosed

LockDiscipline ==
    /\ ReadersHoldLock /\ WriterHoldsLock /\ OneCloser
    /\ FlagOrder /\ CloserSeesFlags /\ SenderSeesOpenQueue

(* Why no call is answered twice or accepted too late: a call belongs to    *)
(* one thread until it is answered, and the threads that went past the      *)
(* second look at the flag carry calls made while the stream was open.      *)
CallsHaveOneOwner ==
    /\ \A t \in Threads : pc[t] \in Unanswered =>
          /\ verdict[call[t]] \in {"early", "late"}
          /\ ~closed \/ pc[t] \in {"hook", "select"} => verdict[call[t]] = "early"
    /\ \A t, u \in Threads :
          pc[t] \in Unanswered /\ pc[u] \in Unanswered /\ call[t] = call[u] => t = u

Stream ==
    INSTANCE EventStream WITH
        Capacity <- BufSize,
        phase <- IF queueClosed THEN "closed" ELSE IF closed THEN "closing" ELSE "open"

StreamSafe == Stream!SafeSpec

(* The subscriber implements the stream of EventStream: FIFO, bounded, with *)
(* no acceptance of a call made after Close had begun, and with a Close     *)
(* that completes and releases blocked senders when the reader is gone.     *)
ImplementsEventStream == Stream!Spec

(* Close always completes, although senders may be blocked on a full queue  *)
(* that no one reads (TestMemoryTaskSubscriber_CloseUnblocksBlockingSend).  *)
CloseCompletes == \A t \in Threads : pc[t] \in Closing ~> pc[t] = "idle"

(* A Send that does not block returns, whatever the reader does.            *)
SendReturns == \A t \in Threads : pc[t] \in Sending /\ ~blocking ~> pc[t] = "idle"
=============================================================================
