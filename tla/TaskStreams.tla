----------------------------- MODULE TaskStreams -----------------------------
(***************************************************************************)
(* What a task manager promises to the readers of the streams it opens on    *)
(* its tasks, with no task, list, lock or goroutine: a stream is opened once, *)
(* gets updates while it has room, nothing after the event that is marked    *)
(* final or after one it had no room for, and nothing at all when it is      *)
(* closed.  What a message processor sends on it by itself comes between.    *)
(***************************************************************************)
EXTENDS Naturals

CONSTANTS
    Subs,        \* subscribers, each created at most once
    BufSize      \* how many events a stream holds for a slow reader

VARIABLES
    blocking,    \* a send waits for room (TRUE) or fails when there is none
    phase,       \* each stream: "unused", "new", "open", "closing", "closed"
    queued,      \* how many events wait in it
    story        \* what was sent on it last: "none", "update", "final" or "missed"

vars == <<blocking, phase, queued, story>>

Init ==
    /\ blocking \in BOOLEAN
    /\ phase = [s \in Subs |-> "unused"]
    /\ queued = [s \in Subs |-> 0]
    /\ story = [s \in Subs |-> "none"]

(* A stream may be made before it is opened. *)
Make(s) ==
    /\ phase[s] = "unused"
    /\ phase' = [phase EXCEPT ![s] = "new"]
    /\ UNCHANGED <<blocking, queued, story>>

Open(s) ==
    /\ phase[s] \in {"unused", "new"}
    /\ phase' = [phase EXCEPT ![s] = "open"]
    /\ UNCHANGED <<blocking, queued, story>>

(* An event that was on its way when the closing began may still get in. *)
Room(s) == phase[s] \in {"open", "closing"} /\ queued[s] < BufSize

(* The events of the manager go on until one is final or one was missed. *)
GoesOn(s) == story[s] \in {"none", "update"}

Deliver(s, event) ==
    /\ Room(s) /\ GoesOn(s)
    /\ queued' = [queued EXCEPT ![s] = @ + 1]
    /\ story' = [story EXCEPT ![s] = event]
    /\ UNCHANGED <<blocking, phase>>

(* A message processor sends an event of its own. *)
SendDirect(s) ==
    /\ Room(s)
    /\ queued' = [queued EXCEPT ![s] = @ + 1]
    /\ UNCHANGED <<blocking, phase, story>>

(* Only a full stream misses an event, and only where nobody waits for room. *)
Miss(s) ==
    /\ ~blocking /\ phase[s] = "open" /\ queued[s] = BufSize /\ GoesOn(s)
    /\ story' = [story EXCEPT ![s] = "missed"]
    /\ UNCHANGED <<blocking, phase, queued>>

Receive(s) ==
    /\ queued[s] > 0
    /\ queued' = [queued EXCEPT ![s] = @ - 1]
    /\ UNCHANGED <<blocking, phase, story>>

(* A stream is closed in one step or in two. *)
Close(s) ==
    /\ \/ phase[s] = "open" /\ phase' = [phase EXCEPT ![s] = "closing"]
       \/ phase[s] \in {"open", "closing"} /\ phase' = [phase EXCEPT ![s] = "closed"]
    /\ UNCHANGED <<blocking, queued, story>>

(* The process ends, and with it every stream and what was not read of it. *)
Crash ==
    /\ phase' = [s \in Subs |-> IF phase[s] = "unused" THEN "unused" ELSE "closed"]
    /\ queued' = [s \in Subs |-> 0]
    /\ UNCHANGED <<blocking, story>>

Next ==
    \/ \E s \in Subs :
          \/ Make(s) \/ Open(s)
          \/ \E event \in {"update", "final"} : Deliver(s, event)
          \/ SendDirect(s) \/ Miss(s) \/ Receive(s) \/ Close(s)
    \/ Crash

SafeSpec == Init /\ [][Next]_vars
=============================================================================
