----------------------- MODULE MemorySubscriber_proofs -----------------------
(***************************************************************************)
(* For every set of goroutines, every buffer size and both send modes:     *)
(* MemoryTaskSubscriber never panics, and it implements EventStream.       *)
(***************************************************************************)
EXTENDS MemorySubscriber, TLAPS

USE BufSizeAssumption, NoneAssumption

(* The type invariant: every variable of the subscriber keeps its type, and *)
(* eventQueue never holds more than its capacity.                           *)
THEOREM TypeCorrect == Spec => []TypeOK
<1>1. Init => TypeOK
  <2> SUFFICES ASSUME Init PROVE TypeOK
    OBVIOUS
  <2>1. queue \in Seq(Calls) /\ Len(queue) <= BufSize /\ received \in Seq(Calls)
    BY DEF Init
  <2>2. pc \in [Threads -> PCs] /\ \A t \in Threads : pc[t] \notin Unanswered
    BY DEF Init, PCs, Unanswered
  <2> QED BY <2>1, <2>2 DEF Init, TypeOK
<1>2. TypeOK /\ [Next]_vars => TypeOK'
  <2> SUFFICES ASSUME TypeOK, [Next]_vars PROVE TypeOK'
    OBVIOUS
  <2>1. CASE UNCHANGED vars
    BY <2>1 DEF TypeOK, Unanswered, vars, lock, reader
  <2>2. ASSUME NEW t \in Threads, NEW c \in Calls, CallSend(t, c) PROVE TypeOK'
    BY <2>2 DEF CallSend, Goto, TypeOK, PCs, Unanswered, Sending, lock, reader
  <2>3. ASSUME NEW t \in Threads, CallClose(t) PROVE TypeOK'
    BY <2>3 DEF CallClose, Goto, TypeOK, PCs, Unanswered, lock, reader
  <2>4. ASSUME NEW t \in Threads, SendStep(t) PROVE TypeOK'
    <3>1. CASE Check(t)
      BY <3>1 DEF Check, Goto, Answer, TypeOK, PCs, Unanswered, Sending, lock, reader
    <3>2. CASE RLock(t)
      BY <3>2 DEF RLock, Goto, TypeOK, PCs, Unanswered, Sending, UnderRLock, reader
    <3>3. CASE Recheck(t)
      BY <3>3 DEF Recheck, Goto, Answer, TypeOK, PCs, Unanswered, Sending, UnderRLock, lock, reader
    <3>4. CASE Hook(t)
      BY <3>4 DEF Hook, Goto, Answer, TypeOK, PCs, Unanswered, Sending, UnderRLock, lock, reader
    <3>5. CASE SelectSend(t)
      <4>0. pc' \in [Threads -> PCs] /\ UNCHANGED <<blocking, closed, done, queueClosed, readers, writer, call, received, ended>>
        BY <3>5 DEF SelectSend, Goto, TypeOK, PCs, Unanswered, Sending, UnderRLock, lock, reader
      <4>1. CASE queueClosed
        BY <3>5, <4>0, <4>1 DEF SelectSend, Goto, TypeOK, Unanswered
      <4>2. CASE ~queueClosed
        <5>1. call[t] \in Calls /\ queue' = Append(queue, call[t]) /\ Len(queue) < BufSize
          BY <3>5, <4>2 DEF SelectSend, Goto, TypeOK, Unanswered
        <5>2. queue' \in Seq(Calls) /\ Len(queue') <= BufSize
          BY <5>1 DEF TypeOK
        <5>3. verdict' \in [Calls -> {"unused", "early", "late", "accepted", "refused", "hookFailed"}]
          BY <3>5, <4>2, <5>1 DEF SelectSend, Answer, TypeOK
        <5>4. \A u \in Threads : pc'[u] \in Unanswered => call'[u] \in Calls
          BY <3>5, <4>0, <4>2 DEF SelectSend, Goto, TypeOK, Unanswered
        <5> QED BY <4>0, <5>2, <5>3, <5>4 DEF TypeOK
      <4> QED BY <4>1, <4>2
    <3>6. CASE SelectDone(t)
      BY <3>6 DEF SelectDone, Goto, Answer, TypeOK, PCs, Unanswered, Sending, UnderRLock, lock, reader
    <3>7. CASE SelectDefault(t)
      BY <3>7 DEF SelectDefault, Goto, Answer, TypeOK, PCs, Unanswered, Sending, UnderRLock, lock, reader
    <3>8. CASE RUnlock(t)
      BY <3>8 DEF RUnlock, Goto, TypeOK, PCs, Unanswered, reader
    <3> QED BY <2>4, <3>1, <3>2, <3>3, <3>4, <3>5, <3>6, <3>7, <3>8 DEF SendStep
  <2>5. ASSUME NEW t \in Threads, CloseStep(t) PROVE TypeOK'
    BY <2>5, ZenonT(40) DEF CloseStep, CompareAndSwap, CloseDone, Lock, Acquire, CloseQueue, Unlock,
                Goto, TypeOK, PCs, Unanswered, Closing, lock, reader
  <2>6. CASE Receive
    BY <2>6 DEF Receive, TypeOK, lock
  <2>7. CASE ReceiveEnd
    BY <2>7 DEF ReceiveEnd, TypeOK, lock
  <2> QED BY <2>1, <2>2, <2>3, <2>4, <2>5, <2>6, <2>7 DEF Next
<1> QED BY <1>1, <1>2, PTL DEF Spec

-----------------------------------------------------------------------------
(* The lock discipline of Send and Close holds in every reachable state:    *)
(* who holds mu, at most one closer gets past the compare-and-swap, and a   *)
(* sender past its second look at the flag finds eventQueue open.           *)
THEOREM LockDisciplineHolds == Spec => []LockDiscipline
<1> USE DEF UnderRLock, Closing
<1>1. Init => LockDiscipline
  BY DEF Init, LockDiscipline, ReadersHoldLock, WriterHoldsLock, OneCloser,
         FlagOrder, CloserSeesFlags, SenderSeesOpenQueue
<1>2. TypeOK /\ LockDiscipline /\ [Next]_vars => LockDiscipline'
  <2> SUFFICES ASSUME TypeOK, LockDiscipline, [Next]_vars PROVE LockDiscipline'
    OBVIOUS
  <2> USE DEF LockDiscipline, ReadersHoldLock, WriterHoldsLock, OneCloser,
              FlagOrder, CloserSeesFlags, SenderSeesOpenQueue, TypeOK, Goto, lock, reader
  <2>1. CASE UNCHANGED vars
    BY <2>1 DEF vars
  <2>2. ASSUME NEW t \in Threads, NEW c \in Calls, CallSend(t, c) PROVE LockDiscipline'
    BY <2>2 DEF CallSend
  <2>3. ASSUME NEW t \in Threads, CallClose(t) PROVE LockDiscipline'
    BY <2>3 DEF CallClose
  <2>4. ASSUME NEW t \in Threads, Check(t) PROVE LockDiscipline'
    BY <2>4 DEF Check
  <2>5. ASSUME NEW t \in Threads, RLock(t) PROVE LockDiscipline'
    BY <2>5 DEF RLock
  <2>6. ASSUME NEW t \in Threads, Recheck(t) PROVE LockDiscipline'
    BY <2>6 DEF Recheck
  <2>7. ASSUME NEW t \in Threads, Hook(t) PROVE LockDiscipline'
    BY <2>7 DEF Hook
  <2>8. ASSUME NEW t \in Threads, SelectSend(t) PROVE LockDiscipline'
    BY <2>8 DEF SelectSend
  <2>9. ASSUME NEW t \in Threads, SelectDone(t) PROVE LockDiscipline'
    BY <2>9 DEF SelectDone
  <2>10. ASSUME NEW t \in Threads, SelectDefault(t) PROVE LockDiscipline'
    BY <2>10 DEF SelectDefault
  <2>11. ASSUME NEW t \in Threads, RUnlock(t) PROVE LockDiscipline'
    BY <2>11 DEF RUnlock
  <2>12. ASSUME NEW t \in Threads, CompareAndSwap(t) PROVE LockDiscipline'
    BY <2>12 DEF CompareAndSwap
  <2>13. ASSUME NEW t \in Threads, CloseDone(t) PROVE LockDiscipline'
    BY <2>13 DEF CloseDone
  <2>14. ASSUME NEW t \in Threads, Lock(t) PROVE LockDiscipline'
    BY <2>14 DEF Lock
  <2>15. ASSUME NEW t \in Threads, Acquire(t) PROVE LockDiscipline'
    BY <2>15 DEF Acquire
  <2>16. ASSUME NEW t \in Threads, CloseQueue(t) PROVE LockDiscipline'
    BY <2>16 DEF CloseQueue
  <2>17. ASSUME NEW t \in Threads, Unlock(t) PROVE LockDiscipline'
    BY <2>17 DEF Unlock
  <2>18. CASE Receive
    BY <2>18 DEF Receive
  <2>19. CASE ReceiveEnd
    BY <2>19 DEF ReceiveEnd
  <2> QED BY <2>1, <2>2, <2>3, <2>4, <2>5, <2>6, <2>7, <2>8, <2>9, <2>10, <2>11, <2>12, <2>13, <2>14, <2>15, <2>16, <2>17, <2>18, <2>19 DEF Next, SendStep, CloseStep
<1> QED BY <1>1, <1>2, TypeCorrect, PTL DEF Spec

(* No interleaving of Send and Close panics: for any number of goroutines,  *)
(* none sends on the closed eventQueue and none closes a channel twice.     *)
THEOREM PanicFree == Spec => []NoPanic
<1>1. Init => NoPanic
  BY DEF Init, NoPanic
<1>2. TypeOK /\ LockDiscipline /\ NoPanic /\ [Next]_vars => NoPanic'
  <2> SUFFICES ASSUME TypeOK, LockDiscipline, NoPanic, [Next]_vars PROVE NoPanic'
    OBVIOUS
  <2> USE DEF NoPanic, TypeOK, Goto
  <2>1. CASE UNCHANGED vars
    BY <2>1 DEF vars
  <2>2. ASSUME NEW t \in Threads, NEW c \in Calls, CallSend(t, c) PROVE NoPanic'
    BY <2>2 DEF CallSend
  <2>3. ASSUME NEW t \in Threads, CallClose(t) PROVE NoPanic'
    BY <2>3 DEF CallClose
  <2>4. ASSUME NEW t \in Threads, SelectSend(t) PROVE NoPanic'
    BY <2>4 DEF SelectSend, LockDiscipline, SenderSeesOpenQueue
  <2>5. ASSUME NEW t \in Threads, SendStep(t), ~SelectSend(t) PROVE NoPanic'
    BY <2>5 DEF SendStep, Check, RLock, Recheck, Hook, SelectDone, SelectDefault, RUnlock
  <2>6. ASSUME NEW t \in Threads, CloseDone(t) \/ CloseQueue(t) PROVE NoPanic'
    BY <2>6 DEF CloseDone, CloseQueue, LockDiscipline, CloserSeesFlags
  <2>7. ASSUME NEW t \in Threads, CompareAndSwap(t) \/ Lock(t) \/ Acquire(t) \/ Unlock(t)
        PROVE  NoPanic'
    BY <2>7 DEF CompareAndSwap, Lock, Acquire, Unlock
  <2>8. CASE Receive \/ ReceiveEnd
    BY <2>8 DEF Receive, ReceiveEnd
  <2> QED BY <2>1, <2>2, <2>3, <2>4, <2>5, <2>6, <2>7, <2>8 DEF Next, CloseStep
<1> QED BY <1>1, <1>2, TypeCorrect, LockDisciplineHolds, PTL DEF Spec

-----------------------------------------------------------------------------
(* A call of Send belongs to one goroutine until it is answered, and only   *)
(* calls made while the subscriber was open get past the second look.       *)
THEOREM CallsOwned == Spec => []CallsHaveOneOwner
<1> USE DEF Unanswered
<1>1. Init => CallsHaveOneOwner
  BY DEF Init, CallsHaveOneOwner
<1>2. TypeOK /\ CallsHaveOneOwner /\ [Next]_vars => CallsHaveOneOwner'
  <2> SUFFICES ASSUME TypeOK, CallsHaveOneOwner, [Next]_vars PROVE CallsHaveOneOwner'
    OBVIOUS
  <2> USE DEF CallsHaveOneOwner, TypeOK, Goto, Answer, lock, reader
  <2>1. CASE UNCHANGED vars
    BY <2>1 DEF vars
  <2>2. ASSUME NEW t \in Threads, NEW c \in Calls, CallSend(t, c) PROVE CallsHaveOneOwner'
    BY <2>2 DEF CallSend
  <2>3. ASSUME NEW t \in Threads, CallClose(t) PROVE CallsHaveOneOwner'
    BY <2>3 DEF CallClose
  <2>4. ASSUME NEW t \in Threads, Check(t) PROVE CallsHaveOneOwner'
    BY <2>4 DEF Check
  <2>5. ASSUME NEW t \in Threads, RLock(t) PROVE CallsHaveOneOwner'
    BY <2>5 DEF RLock
  <2>6. ASSUME NEW t \in Threads, Recheck(t) PROVE CallsHaveOneOwner'
    BY <2>6 DEF Recheck
  <2>7. ASSUME NEW t \in Threads, Hook(t) PROVE CallsHaveOneOwner'
    BY <2>7 DEF Hook
  <2>8. ASSUME NEW t \in Threads, SelectSend(t) PROVE CallsHaveOneOwner'
    BY <2>8 DEF SelectSend
  <2>9. ASSUME NEW t \in Threads, SelectDone(t) PROVE CallsHaveOneOwner'
    BY <2>9 DEF SelectDone
  <2>10. ASSUME NEW t \in Threads, SelectDefault(t) PROVE CallsHaveOneOwner'
    BY <2>10 DEF SelectDefault
  <2>11. ASSUME NEW t \in Threads, RUnlock(t) PROVE CallsHaveOneOwner'
    BY <2>11 DEF RUnlock
  <2>12. ASSUME NEW t \in Threads, CompareAndSwap(t) PROVE CallsHaveOneOwner'
    BY <2>12 DEF CompareAndSwap
  <2>13. ASSUME NEW t \in Threads, CloseDone(t) PROVE CallsHaveOneOwner'
    BY <2>13 DEF CloseDone
  <2>14. ASSUME NEW t \in Threads, Lock(t) PROVE CallsHaveOneOwner'
    BY <2>14 DEF Lock
  <2>15. ASSUME NEW t \in Threads, Acquire(t) PROVE CallsHaveOneOwner'
    BY <2>15 DEF Acquire
  <2>16. ASSUME NEW t \in Threads, CloseQueue(t) PROVE CallsHaveOneOwner'
    BY <2>16 DEF CloseQueue
  <2>17. ASSUME NEW t \in Threads, Unlock(t) PROVE CallsHaveOneOwner'
    BY <2>17 DEF Unlock
  <2>18. CASE Receive \/ ReceiveEnd
    BY <2>18 DEF Receive, ReceiveEnd
  <2> QED BY <2>1, <2>2, <2>3, <2>4, <2>5, <2>6, <2>7, <2>8, <2>9, <2>10, <2>11, <2>12, <2>13, <2>14, <2>15, <2>16, <2>17, <2>18
           DEF Next, SendStep, CloseStep
<1> QED BY <1>1, <1>2, TypeCorrect, PTL DEF Spec

(* Every step of the subscriber is a step of the abstract stream or leaves  *)
(* it unchanged: FIFO, bounded, no event accepted after the close, and a    *)
(* reader that sees the end has been given everything that was accepted.    *)
THEOREM RefinesEventStream == Spec => StreamSafe
<1> USE DEF Stream!Next, Stream!vars, Stream!Pending
<1>1. Init => Stream!Init
  BY DEF Init, Stream!Init
<1>2. TypeOK /\ LockDiscipline /\ CallsHaveOneOwner /\ [Next]_vars => [Stream!Next]_(Stream!vars)
  <2> SUFFICES ASSUME TypeOK, LockDiscipline, CallsHaveOneOwner, [Next]_vars
               PROVE  [Stream!Next]_(Stream!vars)
    OBVIOUS
  <2> USE DEF TypeOK, Goto, lock, reader
  <2>1. CASE UNCHANGED vars
    BY <2>1 DEF vars
  <2>2. ASSUME NEW t \in Threads, NEW c \in Calls, CallSend(t, c) PROVE Stream!Call(c)
    BY <2>2 DEF CallSend, Stream!Call, LockDiscipline, FlagOrder
  <2>3. ASSUME NEW t \in Threads, CallClose(t) PROVE UNCHANGED Stream!vars
    BY <2>3 DEF CallClose
  <2>4. ASSUME NEW t \in Threads, Check(t) 
        PROVE  \/ call[t] \in Calls /\ Stream!Refuse(call[t])
               \/ UNCHANGED Stream!vars
    BY <2>4 DEF Check, Answer, Unanswered, CallsHaveOneOwner, LockDiscipline, FlagOrder, SenderSeesOpenQueue,
             Stream!Refuse
  <2>5. ASSUME NEW t \in Threads, RLock(t) PROVE UNCHANGED Stream!vars
    BY <2>5 DEF RLock
  <2>6. ASSUME NEW t \in Threads, Recheck(t) 
        PROVE  \/ call[t] \in Calls /\ Stream!Refuse(call[t])
               \/ UNCHANGED Stream!vars
    BY <2>6 DEF Recheck, Answer, Unanswered, CallsHaveOneOwner, LockDiscipline, FlagOrder, SenderSeesOpenQueue,
             Stream!Refuse
  <2>7. ASSUME NEW t \in Threads, Hook(t) 
        PROVE  \/ call[t] \in Calls /\ Stream!HookFails(call[t])
               \/ UNCHANGED Stream!vars
    BY <2>7 DEF Hook, Answer, Unanswered, CallsHaveOneOwner, LockDiscipline, FlagOrder, SenderSeesOpenQueue,
             Stream!HookFails
  <2>8. ASSUME NEW t \in Threads, SelectSend(t) 
        PROVE  call[t] \in Calls /\ Stream!Accept(call[t])
    BY <2>8 DEF SelectSend, Answer, Unanswered, CallsHaveOneOwner, LockDiscipline, FlagOrder, SenderSeesOpenQueue,
             Stream!Accept
  <2>9. ASSUME NEW t \in Threads, SelectDone(t) 
        PROVE  call[t] \in Calls /\ Stream!Refuse(call[t])
    BY <2>9 DEF SelectDone, Answer, Unanswered, CallsHaveOneOwner, LockDiscipline, FlagOrder, SenderSeesOpenQueue,
             Stream!Refuse
  <2>10. ASSUME NEW t \in Threads, SelectDefault(t) 
        PROVE  call[t] \in Calls /\ Stream!Refuse(call[t])
    BY <2>10 DEF SelectDefault, Answer, Unanswered, CallsHaveOneOwner, LockDiscipline, FlagOrder, SenderSeesOpenQueue,
             Stream!Refuse
  <2>11. ASSUME NEW t \in Threads, RUnlock(t) PROVE UNCHANGED Stream!vars
    BY <2>11 DEF RUnlock
  <2>12. ASSUME NEW t \in Threads, CompareAndSwap(t) PROVE Stream!StartClose \/ UNCHANGED Stream!vars
    BY <2>12 DEF CompareAndSwap, LockDiscipline, FlagOrder, CloserSeesFlags, Closing, Stream!StartClose
  <2>13. ASSUME NEW t \in Threads, CloseDone(t) PROVE UNCHANGED Stream!vars
    BY <2>13 DEF CloseDone
  <2>14. ASSUME NEW t \in Threads, Lock(t) PROVE UNCHANGED Stream!vars
    BY <2>14 DEF Lock
  <2>15. ASSUME NEW t \in Threads, Acquire(t) PROVE UNCHANGED Stream!vars
    BY <2>15 DEF Acquire
  <2>16. ASSUME NEW t \in Threads, CloseQueue(t) PROVE Stream!FinishClose
    BY <2>16 DEF CloseQueue, LockDiscipline, FlagOrder, CloserSeesFlags, Closing, Stream!FinishClose
  <2>17. ASSUME NEW t \in Threads, Unlock(t) PROVE UNCHANGED Stream!vars
    BY <2>17 DEF Unlock
  <2>18. Receive => Stream!Receive
    BY DEF Receive, Stream!Receive
  <2>19. ReceiveEnd => Stream!ReceiveEnd
    BY DEF ReceiveEnd, Stream!ReceiveEnd
  <2> HIDE DEF TypeOK, Goto, Stream!vars
  <2> QED BY <2>1, <2>2, <2>3, <2>4, <2>5, <2>6, <2>7, <2>8, <2>9, <2>10,
           <2>11, <2>12, <2>13, <2>14, <2>15, <2>16, <2>17, <2>18, <2>19
           DEF Next, SendStep, CloseStep
<1> QED BY <1>1, <1>2, TypeCorrect, LockDisciplineHolds, CallsOwned, PTL
        DEF Spec, StreamSafe, Stream!SafeSpec
=============================================================================
