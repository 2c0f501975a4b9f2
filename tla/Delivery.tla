------------------------------ MODULE Delivery ------------------------------
(***************************************************************************)
(* What a stream promises to the agent that produces its events and to the  *)
(* caller that consumes them, with no goroutine, batch or connection: the    *)
(* events that can be carried arrive in order, each once and none invented,  *)
(* and the consumer hears an end.                                            *)
(***************************************************************************)
EXTENDS SequencesExt, Selection

CONSTANTS
    Events,        \* what is sent: records with the fields id and kind
    Carried,       \* the kinds that reach the consumer
    Fatal          \* the kinds that may end the stream at the sender's side

VARIABLES
    sent,          \* the events the producer has sent, in order
    finished,      \* the producer has ended the stream
    delivered,     \* the events the consumer has been given, in order
    outcome        \* "open", or how the consumer's stream ended

vars == <<sent, finished, delivered, outcome>>

CarriedEvents == OfKinds(sent, Carried)
SomeFatal == \E i \in 1..Len(sent) : sent[i].kind \in Fatal

Init ==
    /\ sent = <<>> /\ finished = FALSE
    /\ delivered = <<>> /\ outcome = "open"

Send(e) ==
    /\ ~finished
    /\ sent' = Append(sent, e)
    /\ UNCHANGED <<finished, delivered, outcome>>

Finish ==
    /\ ~finished /\ finished' = TRUE
    /\ UNCHANGED <<sent, delivered, outcome>>

Deliver ==
    /\ outcome = "open"
    /\ Len(delivered) < Len(CarriedEvents)
    /\ delivered' = Append(delivered, CarriedEvents[Len(delivered) + 1])
    /\ UNCHANGED <<sent, finished, outcome>>

(* A clean end says that nothing is missing, unless an event was fatal. *)
EndComplete ==
    /\ outcome = "open"
    /\ (finished /\ delivered = CarriedEvents) \/ SomeFatal
    /\ outcome' = "complete"
    /\ UNCHANGED <<sent, finished, delivered>>

(* The consumer gave up, or the connection failed. *)
EndCut ==
    /\ outcome = "open" /\ outcome' = "cut"
    /\ UNCHANGED <<sent, finished, delivered>>

Next == (\E e \in Events : Send(e)) \/ Finish \/ Deliver \/ EndComplete \/ EndCut

SafeSpec == Init /\ [][Next]_vars

Spec ==
    /\ SafeSpec
    /\ WF_vars(finished /\ (EndComplete \/ EndCut))
=============================================================================
