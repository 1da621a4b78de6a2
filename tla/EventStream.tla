---------------------------- MODULE EventStream ----------------------------
(***************************************************************************)
(* One client's view of a task's durable events: streamTaskEvents and      *)
(* eventSender (internal/httpapi/task_events.go), Subscribe and            *)
(* CloseAllSubscribers (internal/task/subscribers.go), EventsAfter and the *)
(* fan-out at the end of appendEventRaw (internal/task/events.go).         *)
(*                                                                         *)
(* The log is shared by the replicas; its rows are named by their seq, so  *)
(* its head says it all. The client is attached to one replica. Events are *)
(* appended by that replica, which then fans them out into the bounded     *)
(* buffer of the subscriber, or by another one, which does not. Frames are *)
(* written to a connection that may be lost with what is still on it; the  *)
(* client connects again with the id of the last durable event it got.     *)
(*                                                                         *)
(* Ephemeral events carry seq 0. Those merged into a replay enlarge the    *)
(* replay and its buffer alike and are left out.                           *)
(***************************************************************************)
EXTENDS Naturals, Sequences

CONSTANTS
    MaxSeq,     \* bound on the log
    Buffer,     \* subscriberBuffer
    MaxLive,    \* bound on ephemeral events
    MaxAgain,   \* bound on events the projector appends again
    MaxFaults   \* bound on lost connections, closed streams and failed reads

ASSUME StreamAssumption ==
    /\ MaxSeq \in Nat /\ Buffer \in Nat
    /\ MaxLive \in Nat /\ MaxAgain \in Nat /\ MaxFaults \in Nat

VARIABLES
    start,     \* Last-Event-ID of the first connection
    head,      \* last seq in task_events
    inflight,  \* seq committed by the attached replica, not yet fanned out; 0
    conn,      \* off, read (replay read), open (registered), closing
    replay,    \* durable events read by Subscribe
    ch,        \* subscriber channel
    room,      \* its capacity
    todo,      \* events catchUp has fetched and not yet written
    lastSent,  \* the sender's cursor
    wire,      \* durable frames written, not yet at the client
    got,       \* durable events the client received
    live, again, faults

logVars == <<start, head>>
streamVars == <<conn, replay, room, todo, lastSent>>
bounds == <<live, again, faults>>
vars == <<start, head, inflight, conn, replay, ch, room, todo, lastSent,
          wire, got, live, again, faults>>

\* What the client sends as Last-Event-ID.
Cursor == IF got = << >> THEN start ELSE got[Len(got)]

\* Mutation of ReadLog: the newest row is left out.
ReadLogBelowHead(after) ==
    [i \in 1 .. (IF head > after THEN head - after - 1 ELSE 0) |-> after + i]

\* ListTaskEvents: the rows after the cursor, in order.
ReadLog(after) ==
    [i \in 1 .. (IF head > after THEN head - after ELSE 0) |-> after + i]

Init ==
    /\ head \in 0 .. MaxSeq
    /\ start \in 0 .. head
    /\ inflight = 0
    /\ conn = "off"
    /\ replay = << >> /\ ch = << >> /\ room = 0 /\ todo = << >>
    /\ lastSent = 0
    /\ wire = << >> /\ got = << >>
    /\ live = 0 /\ again = 0 /\ faults = 0

-----------------------------------------------------------------------------
(* The log and the fan-out.                                                *)

AppendElsewhere ==
    /\ head < MaxSeq
    /\ head' = head + 1
    /\ UNCHANGED <<start, inflight, ch, wire, got, streamVars, bounds>>

\* appendMu: the attached replica appends one event at a time.
AppendHere ==
    /\ head < MaxSeq
    /\ inflight = 0
    /\ head' = head + 1
    /\ inflight' = head + 1
    /\ UNCHANGED <<start, ch, wire, got, streamVars, bounds>>

\* A retried batch: the store answers with the seq the event already has, and
\* the event is fanned out again under it.
AppendAgain(s) ==
    /\ again < MaxAgain
    /\ inflight = 0
    /\ inflight' = s
    /\ again' = again + 1
    /\ UNCHANGED <<logVars, ch, wire, got, streamVars, live, faults>>

\* Mutation of Enqueue: the send does not look at the room that is left.
EnqueueAlways(e) == ch' = IF conn = "open" THEN Append(ch, e) ELSE ch

\* A full subscriber loses the event.
Enqueue(e) ==
    ch' = IF conn = "open" /\ Len(ch) < room THEN Append(ch, e) ELSE ch

FanOut ==
    /\ inflight # 0
    /\ Enqueue(inflight)
    /\ inflight' = 0
    /\ UNCHANGED <<logVars, wire, got, streamVars, bounds>>

FanOutLive ==
    /\ live < MaxLive
    /\ inflight = 0
    /\ Enqueue(0)
    /\ live' = live + 1
    /\ UNCHANGED <<logVars, inflight, wire, got, streamVars, again, faults>>

-----------------------------------------------------------------------------
(* The stream.                                                             *)

\* The client connects, once it has seen the end of the last connection.
SubscribeRead ==
    /\ conn = "off" /\ wire = << >>
    /\ conn' = "read"
    /\ lastSent' = Cursor
    /\ replay' = ReadLog(Cursor)
    /\ UNCHANGED <<logVars, inflight, ch, room, todo, wire, got, bounds>>

Room(items) == Buffer + Len(items)

\* The replay is queued under the service lock: it waits there if the buffer
\* cannot take it. Events appended since the read are in neither.
Register ==
    /\ conn = "read"
    /\ Len(replay) <= Room(replay)
    /\ conn' = "open"
    /\ ch' = replay
    /\ room' = Room(replay)
    /\ replay' = << >>
    /\ UNCHANGED <<logVars, inflight, todo, lastSent, wire, got, bounds>>

\* The loop is at its select.
Selecting == conn \in {"open", "closing"} /\ todo = << >>

\* eventSender.write.
Write(e) ==
    IF e > lastSent
      THEN lastSent' = e /\ wire' = Append(wire, e)
      ELSE UNCHANGED <<lastSent, wire>>

\* catchUp: a failed read is left to the next tick.
Fetch ==
    \/ todo' = ReadLog(lastSent) /\ UNCHANGED faults
    \/ faults < MaxFaults /\ todo' = << >> /\ faults' = faults + 1

\* Mutation of Deliver: the live event is written whatever came before it.
DeliverAtOnce ==
    /\ Selecting
    /\ ch # << >>
    /\ ch' = Tail(ch)
    /\ Write(Head(ch)) /\ UNCHANGED <<todo, faults>>
    /\ UNCHANGED <<logVars, inflight, conn, replay, room, got, live, again>>

\* A live event that does not follow the cursor makes the sender read the log.
Deliver ==
    /\ Selecting
    /\ ch # << >>
    /\ ch' = Tail(ch)
    /\ IF Head(ch) > lastSent + 1
         THEN Fetch /\ UNCHANGED <<lastSent, wire>>
         ELSE Write(Head(ch)) /\ UNCHANGED <<todo, faults>>
    /\ UNCHANGED <<logVars, inflight, conn, replay, room, got, live, again>>

\* The tick of every second.
CatchUp ==
    /\ Selecting
    /\ Fetch
    /\ UNCHANGED <<logVars, inflight, conn, replay, ch, room, lastSent, wire,
                   got, live, again>>

WriteFetched ==
    /\ todo # << >>
    /\ Write(Head(todo))
    /\ todo' = Tail(todo)
    /\ UNCHANGED <<logVars, inflight, conn, replay, ch, room, got, bounds>>

ClientReceives ==
    /\ wire # << >>
    /\ got' = Append(got, Head(wire))
    /\ wire' = Tail(wire)
    /\ UNCHANGED <<logVars, inflight, ch, streamVars, bounds>>

Detach ==
    /\ conn' = "off"
    /\ replay' = << >> /\ ch' = << >> /\ room' = 0 /\ todo' = << >>

\* The connection breaks, or a write to it fails: frames on it are lost. What
\* the server still writes until it notices reaches nobody.
ConnectionLost ==
    /\ faults < MaxFaults
    /\ conn # "off"
    /\ Detach
    /\ wire' = << >>
    /\ faults' = faults + 1
    /\ UNCHANGED <<logVars, inflight, lastSent, got, live, again>>

\* Task ownership changed: a registered stream is told to end, one that is
\* between its read and its registration is not.
CloseAllSubscribers ==
    /\ faults < MaxFaults
    /\ conn = "open"
    /\ conn' = "closing"
    /\ faults' = faults + 1
    /\ UNCHANGED <<logVars, inflight, replay, ch, room, todo, lastSent, wire,
                   got, live, again>>

\* The loop may take buffered events first: select picks any ready case.
StreamEnds ==
    /\ conn = "closing" /\ todo = << >>
    /\ Detach
    /\ UNCHANGED <<logVars, inflight, lastSent, wire, got, bounds>>

Next ==
    \/ AppendElsewhere \/ AppendHere \/ FanOut \/ FanOutLive
    \/ \E s \in 1 .. head : AppendAgain(s)
    \/ SubscribeRead \/ Register \/ Deliver \/ CatchUp \/ WriteFetched
    \/ ClientReceives \/ ConnectionLost \/ CloseAllSubscribers \/ StreamEnds

Spec == Init /\ [][Next]_vars

\* The client comes back and reads, the handler runs, its ticker ticks. Live
\* delivery is not assumed: the select may always take the tick.
Fairness ==
    /\ WF_vars(SubscribeRead) /\ WF_vars(Register)
    /\ WF_vars(CatchUp) /\ WF_vars(WriteFetched)
    /\ WF_vars(ClientReceives) /\ WF_vars(StreamEnds)

FairSpec == Spec /\ Fairness

-----------------------------------------------------------------------------
(* Properties.                                                             *)

\* Every variable keeps its type and the buffer its capacity.
TypeOK ==
    /\ head \in 0 .. MaxSeq /\ start \in 0 .. head
    /\ inflight \in 0 .. head
    /\ conn \in {"off", "read", "open", "closing"}
    /\ replay \in Seq(1 .. head) /\ todo \in Seq(1 .. head)
    /\ ch \in Seq(0 .. head) /\ room \in Nat /\ Len(ch) <= room
    /\ lastSent \in 0 .. head
    /\ wire \in Seq(1 .. head) /\ got \in Seq(1 .. head)
    /\ live \in 0 .. MaxLive /\ again \in 0 .. MaxAgain
    /\ faults \in 0 .. MaxFaults

\* Across full buffers, events of other replicas, events fanned out late or
\* twice, lost connections and reconnects, the client gets the durable events
\* after its first cursor in order, each once and none left out.
InOrderOnce == \A i \in 1 .. Len(got) : got[i] = start + i

\* A durable event that is in the log reaches the client in the end, even if
\* no live event reports it.
Delivered ==
    \A s \in 1 .. MaxSeq :
        (start < s /\ s <= head) ~> (\E i \in 1 .. Len(got) : got[i] = s)
=============================================================================
