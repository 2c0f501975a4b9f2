--------------------------- MODULE StreamPipeline ---------------------------
(***************************************************************************)
(* One event stream between an agent and a remote caller: the subscriber's   *)
(* channel, the goroutine of trackStreamEvents, the SSE tunnel that batches   *)
(* events (server), the connection (external), and the goroutine of           *)
(* processSSEStream that parses them into the caller's channel (client).      *)
(*                                                                          *)
(* message/stream goes through the tracker, whose metrics are part of the    *)
(* state; tasks/resubscribe gives its channel to the tunnel directly.        *)
(***************************************************************************)
EXTENDS Naturals, SequencesExt, Selection

CONSTANTS
    Kinds,        \* the kinds of events the agent sends in this instance
    MaxEvents,    \* bound: how many events the agent sends
    QueueSize,    \* capacity of the task subscriber's channel
    BatchSize,    \* defaultSSEBatchSize
    ChanSize      \* capacity of the channel the client hands to its caller

(* "token" is the kind the first-token policy looks for, "plain" any other   *)
(* that reaches the caller.  "unknown" has no result of a known type, "bad"   *)
(* fails to encode, "kindless" fails to decode and "long" does not fit in     *)
(* the client's buffer.                                                      *)
AllKinds == {"token", "plain", "unknown", "bad", "kindless", "long"}
Carried == {"token", "plain"}

ASSUME KindsAssumption == Kinds \subseteq AllKinds
ASSUME BoundsAssumption ==
    /\ MaxEvents \in Nat
    /\ QueueSize \in Nat \ {0} /\ BatchSize \in Nat \ {0} /\ ChanSize \in Nat \ {0}

VARIABLES
    traced,      \* a metricsTracker is in use: message/stream
    sent,        \* history: the events the subscriber accepted, in order
    queue,       \* events in the subscriber's channel
    over,        \* the subscriber's channel is closed
    tracker,     \* the goroutine of trackStreamEvents: its place and its event
    errType,     \* metricsTracker.errType is "client_disconnected"
    firstToken,  \* the event at which metricsTracker took firstTokenTime, or 0
    batch,       \* sseTunnel.batch
    handler,     \* the request's goroutine: "serve", "record", "finish" or "done"
    recorded,    \* what metricsTracker.record has reported, in order
    ctxDone,     \* the request's context is cancelled
    wire,        \* events written and not yet read by the client
    conn,        \* the response: "open", "ended" cleanly, or "broken"
    cancelled,   \* the caller's context is cancelled
    bodyClosed,  \* cancelStreamBody.Close has run
    reader,      \* the goroutine of processSSEStream: its place and its event
    chan,        \* events in the channel the caller reads
    received,    \* the events the caller has read, in order
    ending       \* how processSSEStream ended, "none" before it does

agent == <<traced, sent, over>>
metrics == <<errType, firstToken, recorded>>
server == <<tracker, batch, handler>>
network == <<wire, conn>>
client == <<cancelled, bodyClosed, reader, chan, received, ending>>
vars == <<agent, queue, metrics, server, ctxDone, network, client>>

Event == [id : 1..MaxEvents, kind : Kinds]
NoEvent == [id |-> 0, kind |-> "none"]

(* An event on the wire; a connection that breaks may cut the last one short *)
(* of the blank line that ends it.                                           *)
Whole(e) == [event |-> e, whole |-> TRUE]
Cut(w) == [w EXCEPT !.whole = FALSE]

TypeOK ==
    /\ traced \in BOOLEAN /\ over \in BOOLEAN /\ errType \in BOOLEAN
    /\ sent \in Seq(Event) /\ queue \in Seq(Event) /\ Len(queue) <= QueueSize
    /\ tracker \in [at : {"off", "receive", "send", "done"}, held : Event \cup {NoEvent}]
    /\ firstToken \in 0..MaxEvents
    /\ batch \in Seq(Event) /\ Len(batch) <= BatchSize
    /\ handler \in {"serve", "record", "finish", "done"}
    /\ recorded \in Seq([error : BOOLEAN, firstToken : 0..MaxEvents])
    /\ ctxDone \in BOOLEAN
    /\ wire \in Seq([event : Event, whole : BOOLEAN])
    /\ conn \in {"open", "ended", "broken"}
    /\ cancelled \in BOOLEAN /\ bodyClosed \in BOOLEAN
    /\ reader \in [at : {"check", "read", "deliver", "done"}, held : Event \cup {NoEvent}]
    /\ chan \in Seq(Event) /\ Len(chan) <= ChanSize
    /\ received \in Seq(Event)
    /\ ending \in {"none", "eof", "error", "cancelled"}

Init ==
    /\ traced \in BOOLEAN
    /\ sent = <<>> /\ queue = <<>> /\ over = FALSE
    /\ tracker = [at |-> IF traced THEN "receive" ELSE "off", held |-> NoEvent]
    /\ errType = FALSE /\ firstToken = 0 /\ recorded = <<>>
    /\ batch = <<>> /\ handler = "serve" /\ ctxDone = FALSE
    /\ wire = <<>> /\ conn = "open"
    /\ cancelled = FALSE /\ bodyClosed = FALSE
    /\ reader = [at |-> "check", held |-> NoEvent]
    /\ chan = <<>> /\ received = <<>> /\ ending = "none"

-----------------------------------------------------------------------------
(* The agent, through the task subscriber (see MemorySubscriber). *)

Publish(kind) ==
    LET e == [id |-> Len(sent) + 1, kind |-> kind] IN
    /\ ~over /\ Len(sent) < MaxEvents /\ Len(queue) < QueueSize
    /\ sent' = Append(sent, e)
    /\ queue' = Append(queue, e)
    /\ UNCHANGED <<traced, over, metrics, server, ctxDone, network, client>>

EndStream ==
    /\ ~over /\ over' = TRUE
    /\ UNCHANGED <<traced, sent, queue, metrics, server, ctxDone, network, client>>

-----------------------------------------------------------------------------
(* trackStreamEvents.  Go's select takes any ready case, so a cancelled       *)
(* context does not keep the tracker from taking another event.              *)

(* Mutant of onEvent: firstTokenRecorded is not looked at. *)
onEventAgain(e) ==
    firstToken' = IF e.kind = "token" THEN e.id ELSE firstToken

onEvent(e) ==
    firstToken' = IF firstToken = 0 /\ e.kind = "token" THEN e.id ELSE firstToken

TrackerReceive ==
    /\ tracker.at = "receive" /\ queue # <<>>
    /\ tracker' = [at |-> "send", held |-> Head(queue)]
    /\ queue' = Tail(queue)
    /\ onEvent(Head(queue))
    /\ UNCHANGED <<agent, errType, recorded, batch, handler, ctxDone, network, client>>

TrackerEnd ==
    /\ tracker.at = "receive" /\ queue = <<>> /\ over
    /\ tracker' = [at |-> "done", held |-> NoEvent]
    /\ UNCHANGED <<agent, queue, metrics, batch, handler, ctxDone, network, client>>

(* Mutant of TrackerCancelled: the send to the tunnel waits for nothing else. *)
TrackerCancelledIdle ==
    /\ tracker.at = "receive" /\ ctxDone
    /\ tracker' = [at |-> "done", held |-> NoEvent]
    /\ errType' = TRUE
    /\ UNCHANGED <<agent, queue, firstToken, recorded, batch, handler, ctxDone, network, client>>

TrackerCancelled ==
    /\ tracker.at \in {"receive", "send"} /\ ctxDone
    /\ tracker' = [at |-> "done", held |-> NoEvent]
    /\ errType' = TRUE
    /\ UNCHANGED <<agent, queue, firstToken, recorded, batch, handler, ctxDone, network, client>>

-----------------------------------------------------------------------------
(* sseTunnel.start and flushBatch. *)

(* The channel the tunnel reads: the tracker's, on which a send and a receive *)
(* happen together, or the subscriber's.                                      *)
Offered == IF traced THEN tracker.at = "send" ELSE queue # <<>>
NextEvent == IF traced THEN tracker.held ELSE Head(queue)
Drained == IF traced THEN tracker.at = "done" ELSE queue = <<>> /\ over

TakeEvent ==
    IF traced
    THEN tracker' = [at |-> "receive", held |-> NoEvent] /\ queue' = queue
    ELSE queue' = Tail(queue) /\ tracker' = tracker

Encodable(events) == \A i \in 1..Len(events) : events[i].kind # "bad"
Frames(events) ==
    LET known == OfKinds(events, AllKinds \ {"unknown"})
    IN  [i \in 1..Len(known) |-> Whole(known[i])]

(* Writing to a connection that is gone fails, or succeeds into a buffer that *)
(* nobody reads; the tunnel goes on only after a success.                    *)
Write(events) ==
    wire' = IF conn = "open" /\ ~bodyClosed THEN wire \o Frames(events) ELSE wire

flushBatch(events, goOn) ==
    \/ /\ Encodable(events)
       /\ Write(events)
       /\ batch' = <<>>
       /\ handler' = goOn
    \/ /\ ~Encodable(events) \/ conn # "open" \/ bodyClosed
       /\ batch' = events
       /\ handler' = "record"
       /\ wire' = wire

(* Mutant of Collect: the batch is flushed when it is over its size. *)
CollectLate ==
    LET events == Append(batch, NextEvent) IN
    /\ handler = "serve" /\ Offered
    /\ TakeEvent
    /\ IF Len(events) > BatchSize
       THEN flushBatch(events, "serve")
       ELSE batch' = events /\ UNCHANGED <<handler, wire>>
    /\ UNCHANGED <<agent, metrics, ctxDone, conn, client>>

Collect ==
    LET events == Append(batch, NextEvent) IN
    /\ handler = "serve" /\ Offered
    /\ TakeEvent
    /\ IF Len(events) >= BatchSize
       THEN flushBatch(events, "serve")
       ELSE batch' = events /\ UNCHANGED <<handler, wire>>
    /\ UNCHANGED <<agent, metrics, ctxDone, conn, client>>

Tick ==
    /\ handler = "serve" /\ batch # <<>>
    /\ flushBatch(batch, "serve")
    /\ UNCHANGED <<agent, queue, metrics, tracker, ctxDone, conn, client>>

(* Mutant of TunnelEnd: what is left in the batch is not flushed. *)
TunnelEndUnflushed ==
    /\ handler = "serve" /\ Drained
    /\ handler' = "record"
    /\ UNCHANGED <<agent, queue, metrics, tracker, batch, wire, ctxDone, conn, client>>

TunnelEnd ==
    /\ handler = "serve" /\ Drained
    /\ flushBatch(batch, "record")
    /\ UNCHANGED <<agent, queue, metrics, tracker, ctxDone, conn, client>>

ClientClosed ==
    /\ handler = "serve" /\ ctxDone
    /\ handler' = "record"
    /\ UNCHANGED <<agent, queue, metrics, tracker, batch, ctxDone, network, client>>

-----------------------------------------------------------------------------
(* The end of the handler, and what net/http does around it. *)

Record ==
    /\ handler = "record"
    /\ handler' = "finish"
    /\ recorded' = IF traced
                   THEN Append(recorded, [error |-> errType, firstToken |-> firstToken])
                   ELSE recorded
    /\ UNCHANGED <<agent, queue, errType, firstToken, tracker, batch, ctxDone, network, client>>

(* The response is ended and the context of the request cancelled. *)
Finish ==
    /\ handler = "finish" /\ handler' = "done"
    /\ ctxDone' = TRUE
    /\ conn' = IF conn = "open" THEN "ended" ELSE conn
    /\ UNCHANGED <<agent, queue, metrics, tracker, batch, wire, client>>

(* The connection fails, or the server's write deadline passes: what the     *)
(* client can still read is cut after some event or inside one.               *)
Break ==
    /\ conn = "open" /\ conn' = "broken"
    /\ \E n \in 0..Len(wire) :
          \/ wire' = SubSeq(wire, 1, n)
          \/ n > 0 /\ wire' = [SubSeq(wire, 1, n) EXCEPT ![n] = Cut(@)]
    /\ UNCHANGED <<agent, queue, metrics, server, ctxDone, client>>

NoticeDisconnect ==
    /\ ~ctxDone /\ (conn = "broken" \/ bodyClosed)
    /\ ctxDone' = TRUE
    /\ UNCHANGED <<agent, queue, metrics, server, network, client>>

-----------------------------------------------------------------------------
(* processSSEStream and the body it reads. *)

Stop(why) ==
    /\ reader' = [at |-> "done", held |-> NoEvent]
    /\ bodyClosed' = TRUE
    /\ ending' = why

CheckContext ==
    /\ reader.at = "check"
    /\ IF cancelled
       THEN Stop("cancelled")
       ELSE reader' = [reader EXCEPT !.at = "read"] /\ UNCHANGED <<bodyClosed, ending>>
    /\ UNCHANGED <<agent, queue, metrics, server, ctxDone, network, cancelled, chan, received>>

(* EventReader.ReadEvent returns an event at its blank line.  One that was    *)
(* cut is returned with an error, and is not delivered.  Closing the body     *)
(* leaves to the scanner what it has already buffered.                       *)
Readable == wire # <<>> /\ wire[1].whole /\ wire[1].event.kind # "long"
Unreadable == wire # <<>> /\ ~Readable
CleanEnd == wire = <<>> /\ conn = "ended"
Lost == wire = <<>> /\ conn = "broken"

ReadEvent ==
    /\ reader.at = "read" /\ ~bodyClosed /\ Readable
    /\ wire' = Tail(wire)
    /\ reader' = IF wire[1].event.kind \in Carried
                 THEN [at |-> "deliver", held |-> wire[1].event]
                 ELSE [reader EXCEPT !.at = "check"]
    /\ UNCHANGED <<agent, queue, metrics, server, ctxDone, conn,
                   cancelled, bodyClosed, chan, received, ending>>

ReadEnds ==
    /\ reader.at = "read"
    /\ \/ bodyClosed /\ Stop("cancelled")
       \/ ~bodyClosed /\ CleanEnd /\ Stop(IF cancelled THEN "cancelled" ELSE "eof")
       \/ ~bodyClosed /\ (Lost \/ Unreadable) /\ Stop(IF cancelled THEN "cancelled" ELSE "error")
    /\ UNCHANGED <<agent, queue, metrics, server, ctxDone, network, cancelled, chan, received>>

Deliver ==
    /\ reader.at = "deliver" /\ Len(chan) < ChanSize
    /\ chan' = Append(chan, reader.held)
    /\ reader' = [at |-> "check", held |-> NoEvent]
    /\ UNCHANGED <<agent, queue, metrics, server, ctxDone, network,
                   cancelled, bodyClosed, received, ending>>

GiveUp ==
    /\ reader.at = "deliver" /\ cancelled
    /\ Stop("cancelled")
    /\ UNCHANGED <<agent, queue, metrics, server, ctxDone, network, cancelled, chan, received>>

(* The goroutine of newCancelStreamBody. *)
CloseBody ==
    /\ cancelled /\ ~bodyClosed /\ bodyClosed' = TRUE
    /\ UNCHANGED <<agent, queue, metrics, server, ctxDone, network,
                   cancelled, reader, chan, received, ending>>

(* The caller. *)
Receive ==
    /\ chan # <<>>
    /\ received' = Append(received, Head(chan))
    /\ chan' = Tail(chan)
    /\ UNCHANGED <<agent, queue, metrics, server, ctxDone, network,
                   cancelled, bodyClosed, reader, ending>>

Cancel ==
    /\ ~cancelled /\ cancelled' = TRUE
    /\ UNCHANGED <<agent, queue, metrics, server, ctxDone, network,
                   bodyClosed, reader, chan, received, ending>>

-----------------------------------------------------------------------------
Tracker == TrackerReceive \/ TrackerEnd \/ TrackerCancelled
Handler == Collect \/ Tick \/ TunnelEnd \/ ClientClosed \/ Record \/ Finish
Reader == CheckContext \/ ReadEvent \/ ReadEnds \/ Deliver \/ GiveUp

Next ==
    \/ \E kind \in Kinds : Publish(kind)
    \/ EndStream
    \/ Tracker \/ Handler \/ Reader
    \/ Break \/ NoticeDisconnect
    \/ CloseBody \/ Receive \/ Cancel

SafeSpec == Init /\ [][Next]_vars

(* The goroutines run, a broken or closed connection is noticed, and the      *)
(* caller keeps reading its channel.  Nothing obliges the agent to send or to *)
(* end, the connection to fail or the caller to cancel.                      *)
Fairness ==
    /\ WF_vars(Tracker) /\ WF_vars(Handler) /\ WF_vars(Reader)
    /\ WF_vars(NoticeDisconnect) /\ WF_vars(CloseBody) /\ WF_vars(Receive)

Spec == SafeSpec /\ Fairness

-----------------------------------------------------------------------------
(* Properties. *)

Delivered == received \o chan
Promise == INSTANCE Delivery WITH
    Events <- Event, Fatal <- {"bad"},
    finished <- over, delivered <- Delivered,
    outcome <- CASE ending = "none" -> "open"
                 [] ending = "eof" -> "complete"
                 [] OTHER -> "cut"

(* Through tracker, batches, connection and parser the caller is given the     *)
(* events in the order the agent sent them, none twice; a stream that ends     *)
(* with a clean EOF has missed none that can be encoded and decoded, unless    *)
(* one failed to encode; and the caller hears the end of a stream that ended.  *)
ImplementsDelivery == Promise!Spec

FirstTokenOf(events) ==
    LET tokens == OfKinds(events, {"token"})
    IN  IF tokens = <<>> THEN 0 ELSE tokens[1].id

(* The metrics of a request, which two goroutines write, are reported once     *)
(* when its handler returns; they blame the client only when the connection    *)
(* was lost or given up, and the first token they time is the first the caller *)
(* is given.                                                                  *)
HonestMetrics ==
    /\ Len(recorded) = IF traced /\ handler \in {"finish", "done"} THEN 1 ELSE 0
    /\ \A i \in 1..Len(recorded) :
          /\ recorded[i].error => conn = "broken" \/ bodyClosed
          /\ FirstTokenOf(Delivered) \in {0, recorded[i].firstToken}

(* When the agent ends the stream, the caller cancels or the connection is     *)
(* lost, no goroutine of the server or the client is left behind.              *)
NoLeak ==
    (over \/ cancelled \/ conn = "broken") ~>
        (handler = "done" /\ tracker.at \in {"off", "done"} /\ reader.at = "done")
=============================================================================
