---------------------------- MODULE EventStream ----------------------------
(***************************************************************************)
(* What a task subscriber promises to the goroutines that send to it, to   *)
(* those that close it and to the reader of its channel (the TaskSubscriber *)
(* interface of taskmanager/interface.go), with no lock and no Go channel:  *)
(* a bounded FIFO stream that is open, then closing, then closed.           *)
(***************************************************************************)
EXTENDS Naturals, Sequences

CONSTANTS
    Calls,        \* one element for every call of Send, which is also its event
    Capacity      \* how many events the stream holds for a slow reader

VARIABLES
    blocking,     \* a call waits for room (TRUE) or fails when there is none
    phase,        \* "open", "closing" (Closed() is true) or "closed"
    queue,        \* events accepted and not yet read
    received,     \* events read, in order
    ended,        \* the reader has seen the end of the stream
    verdict       \* what became of each call

vars == <<blocking, phase, queue, received, ended, verdict>>

(* "late" is a call made when the stream was no longer open. *)
Pending == {"early", "late"}
Verdicts == Pending \cup {"unused", "accepted", "refused", "hookFailed"}

TypeOK ==
    /\ blocking \in BOOLEAN
    /\ phase \in {"open", "closing", "closed"}
    /\ queue \in Seq(Calls) /\ Len(queue) <= Capacity
    /\ received \in Seq(Calls)
    /\ ended \in BOOLEAN
    /\ verdict \in [Calls -> Verdicts]

Init ==
    /\ blocking \in BOOLEAN
    /\ phase = "open"
    /\ queue = <<>>
    /\ received = <<>>
    /\ ended = FALSE
    /\ verdict = [c \in Calls |-> "unused"]

Call(c) ==
    /\ verdict[c] = "unused"
    /\ verdict' = [verdict EXCEPT ![c] = IF phase = "open" THEN "early" ELSE "late"]
    /\ UNCHANGED <<blocking, phase, queue, received, ended>>

(* Only a call that found the stream open can still be accepted, and none is *)
(* accepted once the stream is closed.                                       *)
Accept(c) ==
    /\ verdict[c] = "early"
    /\ phase # "closed"
    /\ Len(queue) < Capacity
    /\ queue' = Append(queue, c)
    /\ verdict' = [verdict EXCEPT ![c] = "accepted"]
    /\ UNCHANGED <<blocking, phase, received, ended>>

Refuse(c) ==
    /\ verdict[c] \in Pending
    /\ \/ phase # "open"
       \/ ~blocking /\ Len(queue) = Capacity
    /\ verdict' = [verdict EXCEPT ![c] = "refused"]
    /\ UNCHANGED <<blocking, phase, queue, received, ended>>

(* The send hook of the subscriber returned an error. *)
HookFails(c) ==
    /\ verdict[c] = "early"
    /\ verdict' = [verdict EXCEPT ![c] = "hookFailed"]
    /\ UNCHANGED <<blocking, phase, queue, received, ended>>

StartClose ==
    /\ phase = "open"
    /\ phase' = "closing"
    /\ UNCHANGED <<blocking, queue, received, ended, verdict>>

FinishClose ==
    /\ phase = "closing"
    /\ phase' = "closed"
    /\ UNCHANGED <<blocking, queue, received, ended, verdict>>

Receive ==
    /\ queue # <<>>
    /\ received' = Append(received, Head(queue))
    /\ queue' = Tail(queue)
    /\ UNCHANGED <<blocking, phase, ended, verdict>>

(* The end of the stream is behind every event that was accepted. *)
ReceiveEnd ==
    /\ phase = "closed" /\ queue = <<>> /\ ~ended
    /\ ended' = TRUE
    /\ UNCHANGED <<blocking, phase, queue, received, verdict>>

Next ==
    \/ \E c \in Calls : Call(c) \/ Accept(c) \/ Refuse(c) \/ HookFails(c)
    \/ StartClose \/ FinishClose
    \/ Receive \/ ReceiveEnd

SafeSpec == Init /\ [][Next]_vars

(* Once closing has begun it completes and every pending call is answered,  *)
(* whether or not the reader still reads.                                   *)
Spec ==
    /\ SafeSpec
    /\ WF_vars(FinishClose)
    /\ \A c \in Calls : WF_vars(phase # "open" /\ (Accept(c) \/ Refuse(c) \/ HookFails(c)))
=============================================================================
