------------------------- MODULE EventStreamProofs -------------------------
(***************************************************************************)
(* Proofs about EventStream, for logs, buffers and faults of any number:   *)
(* the client gets the durable events in order, each once, with no gap.    *)
(***************************************************************************)
EXTENDS EventStream, TLAPS

\* InOrderOnce speaks of what has arrived. It is kept because the frames on the
\* wire continue what the client has, the sender's cursor is behind the last
\* of them, and what catchUp has fetched continues from the cursor.
WireContinues == \A i \in 1 .. Len(wire) : wire[i] = start + Len(got) + i

CursorIsSent == conn # "off" => lastSent = start + Len(got) + Len(wire)

TodoContinues ==
    /\ \A i \in 1 .. Len(todo) : todo[i] = lastSent + i
    /\ conn \in {"off", "read"} => todo = << >>

StreamInv ==
    TypeOK /\ InOrderOnce /\ WireContinues /\ CursorIsSent /\ TodoContinues

\* A sequence over 1 .. m is one over 1 .. n for a larger n.
LEMMA SeqWider ==
  ASSUME NEW S, NEW T, S \subseteq T, NEW s \in Seq(S)
  PROVE  s \in Seq(T)
OBVIOUS

\* An entry of a sequence.
LEMMA EntryType ==
  ASSUME NEW S, NEW s \in Seq(S), NEW i \in 1 .. Len(s)
  PROVE  s[i] \in S
OBVIOUS

\* What a read of the log returns.
LEMMA ReadLogType ==
  ASSUME TypeOK, NEW after \in 0 .. head
  PROVE  /\ ReadLog(after) \in Seq(1 .. head)
         /\ \A i \in 1 .. Len(ReadLog(after)) : ReadLog(after)[i] = after + i
<1>1. head \in Nat /\ after \in Nat /\ after <= head
  BY StreamAssumption DEF StreamAssumption, TypeOK
<1>2. ReadLog(after) = [i \in 1 .. (head - after) |-> after + i]
  BY <1>1 DEF ReadLog
<1> QED
  BY <1>1, <1>2

\* The client's cursor is its last event.
LEMMA CursorValue ==
  ASSUME TypeOK, InOrderOnce
  PROVE  Cursor = start + Len(got) /\ Cursor \in 0 .. head
<1>1. got \in Seq(1 .. head) /\ start \in 0 .. head /\ head \in Nat /\ Len(got) \in Nat
  BY StreamAssumption DEF StreamAssumption, TypeOK
<1>2. CASE got = << >>
  BY <1>1, <1>2 DEF Cursor
<1>3. CASE got # << >>
  <2>1. Len(got) \in 1 .. Len(got) /\ got[Len(got)] \in 1 .. head
    BY <1>1, <1>3
  <2>2. got[Len(got)] = start + Len(got)
    BY <2>1 DEF InOrderOnce
  <2> QED
    BY <1>1, <1>3, <2>1, <2>2 DEF Cursor
<1> QED
  BY <1>2, <1>3

-----------------------------------------------------------------------------
(* The steps.                                                              *)

\* The log grows; what is under way stays what it was.
LEMMA AppendSteps ==
  ASSUME StreamInv, AppendElsewhere \/ AppendHere
  PROVE  StreamInv'
<1> USE DEF StreamInv
<1>1. /\ head' = head + 1 /\ head \in Nat /\ head' \in 0 .. MaxSeq
      /\ inflight' \in {inflight, head + 1}
      /\ UNCHANGED <<start, ch, wire, got, conn, replay, room, todo, lastSent,
                     live, again, faults>>
  BY StreamAssumption
  DEF StreamAssumption, AppendElsewhere, AppendHere, streamVars, bounds, TypeOK
<1>2. 1 .. head \subseteq 1 .. head' /\ 0 .. head \subseteq 0 .. head'
  BY <1>1
<1>3. /\ replay \in Seq(1 .. head') /\ todo \in Seq(1 .. head')
      /\ wire \in Seq(1 .. head') /\ got \in Seq(1 .. head')
      /\ ch \in Seq(0 .. head')
  BY <1>2, SeqWider DEF TypeOK
<1>4. TypeOK'
  BY <1>1, <1>2, <1>3 DEF TypeOK
<1> QED
  BY <1>1, <1>4 DEF InOrderOnce, WireContinues, CursorIsSent, TodoContinues

\* Live events only enter the buffer, where there is room.
LEMMA FanOutSteps ==
  ASSUME StreamInv, \/ \E s \in 1 .. head : AppendAgain(s)
                    \/ FanOut \/ FanOutLive
  PROVE  StreamInv'
<1> USE DEF StreamInv
<1>1. UNCHANGED <<start, head, wire, got, conn, replay, room, todo, lastSent, faults>>
  BY DEF AppendAgain, FanOut, FanOutLive, logVars, streamVars, bounds
<1>2. ASSUME NEW e \in 0 .. head, Enqueue(e)
      PROVE  ch' \in Seq(0 .. head) /\ Len(ch') <= room
  <2>1. ch \in Seq(0 .. head) /\ Len(ch) <= room /\ room \in Nat /\ Len(ch) \in Nat
    BY DEF TypeOK
  <2>2. CASE ch' = ch
    BY <2>1, <2>2
  <2>3. CASE ch' = Append(ch, e) /\ Len(ch) < room
    <3>1. ch' \in Seq(0 .. head) /\ Len(ch') = Len(ch) + 1
      BY <2>1, <2>3
    <3> QED
      BY <2>1, <2>3, <3>1
  <2> QED
    BY <1>2, <2>2, <2>3 DEF Enqueue
<1>3. inflight' \in 0 .. head /\ live' \in 0 .. MaxLive /\ again' \in 0 .. MaxAgain
  BY StreamAssumption
  DEF StreamAssumption, AppendAgain, FanOut, FanOutLive, bounds, TypeOK
<1>4. ch' \in Seq(0 .. head) /\ Len(ch') <= room
  BY <1>2, StreamAssumption
  DEF StreamAssumption, AppendAgain, FanOut, FanOutLive, TypeOK
<1>5. TypeOK'
  BY <1>1, <1>3, <1>4 DEF TypeOK
<1> QED
  BY <1>1, <1>5 DEF InOrderOnce, WireContinues, CursorIsSent, TodoContinues

\* The stream starts where the client stopped.
LEMMA SubscribeSteps ==
  ASSUME StreamInv, SubscribeRead \/ Register
  PROVE  StreamInv'
<1> USE DEF StreamInv
<1>1. CASE SubscribeRead
  <2>1. /\ conn' = "read" /\ wire = << >> /\ todo = << >>
        /\ lastSent' = Cursor /\ replay' = ReadLog(Cursor)
        /\ UNCHANGED <<start, head, inflight, ch, room, todo, wire, got, live,
                       again, faults>>
    BY <1>1 DEF SubscribeRead, logVars, bounds, TodoContinues
  <2>2. Cursor = start + Len(got) /\ Cursor \in 0 .. head
    BY CursorValue
  <2>3. ReadLog(Cursor) \in Seq(1 .. head)
    BY <2>2, ReadLogType
  <2>4. TypeOK'
    BY <2>1, <2>2, <2>3 DEF TypeOK
  <2>5. CursorIsSent'
    <3>1. Len(wire') = 0 /\ start + Len(got) \in Nat
      BY <2>1, <2>2, StreamAssumption DEF StreamAssumption, TypeOK
    <3> QED
      BY <2>1, <2>2, <3>1 DEF CursorIsSent
  <2> QED
    BY <2>1, <2>4, <2>5 DEF InOrderOnce, WireContinues, TodoContinues
<1>2. CASE Register
  <2>1. /\ conn = "read" /\ conn' = "open" /\ ch' = replay /\ replay' = << >>
        /\ room' = Buffer + Len(replay)
        /\ UNCHANGED <<start, head, inflight, todo, lastSent, wire, got, live,
                       again, faults>>
    BY <1>2 DEF Register, Room, logVars, bounds
  <2>2. replay \in Seq(0 .. head) /\ Len(replay) \in Nat
    <3>1. replay \in Seq(1 .. head) /\ 1 .. head \subseteq 0 .. head
      BY DEF TypeOK
    <3>2. replay \in Seq(0 .. head)
      BY <3>1, SeqWider
    <3> QED
      BY <3>2
  <2>3. TypeOK'
    BY <2>1, <2>2, StreamAssumption DEF StreamAssumption, TypeOK
  <2> QED
    BY <2>1, <2>3 DEF InOrderOnce, WireContinues, CursorIsSent, TodoContinues
<1> QED
  BY <1>1, <1>2

\* Writing the event after the cursor, or one at or before it, keeps the wire
\* contiguous.
LEMMA WriteContinues ==
  ASSUME StreamInv, conn # "off", NEW e \in 0 .. head, e <= lastSent + 1,
         Write(e), UNCHANGED <<start, got, head>>
  PROVE  /\ wire' \in Seq(1 .. head) /\ lastSent' \in 0 .. head
         /\ WireContinues' /\ lastSent' = start + Len(got) + Len(wire')
         /\ lastSent' = (IF e > lastSent THEN lastSent + 1 ELSE lastSent)
<1> USE DEF StreamInv
<1>1. /\ lastSent \in Nat /\ head \in Nat /\ start \in Nat /\ Len(got) \in Nat
      /\ wire \in Seq(1 .. head) /\ Len(wire) \in Nat
      /\ lastSent = start + Len(got) + Len(wire)
  BY StreamAssumption DEF StreamAssumption, TypeOK, CursorIsSent
<1>2. CASE e > lastSent
  <2>1. /\ e = lastSent + 1 /\ e \in 1 .. head
        /\ lastSent' = e /\ wire' = Append(wire, e)
    <3>1. e \in Nat /\ e <= head
      BY <1>1
    <3>2. e = lastSent + 1
      BY <1>1, <1>2, <3>1
    <3> QED
      BY <1>1, <1>2, <3>1, <3>2 DEF Write
  <2>2. /\ wire' \in Seq(1 .. head) /\ Len(wire') = Len(wire) + 1
        /\ wire'[Len(wire) + 1] = e
        /\ \A i \in 1 .. Len(wire) : wire'[i] = wire[i]
    BY <1>1, <2>1
  <2>3. WireContinues'
    <3> SUFFICES ASSUME NEW i \in 1 .. Len(wire')
                 PROVE  wire'[i] = start + Len(got) + i
      BY DEF WireContinues
    <3>1. CASE i \in 1 .. Len(wire)
      BY <2>2, <3>1 DEF WireContinues
    <3>2. CASE i = Len(wire) + 1
      BY <1>1, <2>1, <2>2, <3>2
    <3> QED
      BY <1>1, <2>2, <3>1, <3>2
  <2> QED
    BY <1>1, <1>2, <2>1, <2>2, <2>3
<1>3. CASE ~(e > lastSent)
  BY <1>1, <1>3 DEF Write, WireContinues, TypeOK
<1> QED
  BY <1>2, <1>3

\* A fetch leaves the rows after the cursor to write, or nothing.
LEMMA FetchContinues ==
  ASSUME StreamInv, Fetch
  PROVE  /\ todo' \in Seq(1 .. head)
         /\ \A i \in 1 .. Len(todo') : todo'[i] = lastSent + i
         /\ faults' \in 0 .. MaxFaults
<1>1. lastSent \in 0 .. head /\ TypeOK
  BY DEF StreamInv, TypeOK
<1>2. CASE todo' = ReadLog(lastSent) /\ UNCHANGED faults
  BY <1>1, <1>2, ReadLogType DEF TypeOK
<1>3. CASE faults < MaxFaults /\ todo' = << >> /\ faults' = faults + 1
  BY <1>1, <1>3, StreamAssumption DEF StreamAssumption, TypeOK
<1> QED
  BY <1>2, <1>3 DEF Fetch

\* The sender's steps.
LEMMA SenderSteps ==
  ASSUME StreamInv, Deliver \/ CatchUp \/ WriteFetched
  PROVE  StreamInv'
<1> USE DEF StreamInv
<1>1. CASE Deliver
  <2>1. /\ conn \in {"open", "closing"} /\ todo = << >> /\ ch # << >>
        /\ ch' = Tail(ch)
        /\ UNCHANGED <<start, head, inflight, conn, replay, room, got, live, again>>
    BY <1>1 DEF Deliver, Selecting, logVars
  <2>2. /\ Head(ch) \in 0 .. head /\ ch' \in Seq(0 .. head)
        /\ Len(ch') <= room
    BY <2>1 DEF TypeOK
  <2>3. CASE Head(ch) > lastSent + 1
    <3>1. Fetch /\ UNCHANGED <<lastSent, wire>>
      BY <1>1, <2>3 DEF Deliver
    <3>2. /\ todo' \in Seq(1 .. head) /\ faults' \in 0 .. MaxFaults
          /\ \A i \in 1 .. Len(todo') : todo'[i] = lastSent + i
      BY <3>1, FetchContinues
    <3>3. TypeOK'
      BY <2>1, <2>2, <3>1, <3>2 DEF TypeOK
    <3> QED
      BY <2>1, <3>1, <3>2, <3>3
      DEF InOrderOnce, WireContinues, CursorIsSent, TodoContinues
  <2>4. CASE ~(Head(ch) > lastSent + 1)
    <3>1. Write(Head(ch)) /\ UNCHANGED <<todo, faults>>
      BY <1>1, <2>4 DEF Deliver
    <3>2. Head(ch) <= lastSent + 1
      BY <2>2, <2>4, StreamAssumption DEF StreamAssumption, TypeOK
    <3>3. /\ wire' \in Seq(1 .. head) /\ lastSent' \in 0 .. head
          /\ WireContinues' /\ lastSent' = start + Len(got) + Len(wire')
      BY <2>1, <2>2, <3>1, <3>2, WriteContinues
    <3>4. TypeOK'
      BY <2>1, <2>2, <3>1, <3>3 DEF TypeOK
    <3> QED
      BY <2>1, <3>1, <3>3, <3>4 DEF InOrderOnce, CursorIsSent, TodoContinues
  <2> QED
    BY <2>3, <2>4
<1>2. CASE CatchUp
  <2>1. /\ conn \in {"open", "closing"} /\ Fetch
        /\ UNCHANGED <<start, head, inflight, conn, replay, ch, room, lastSent,
                       wire, got, live, again>>
    BY <1>2 DEF CatchUp, Selecting, logVars
  <2>2. /\ todo' \in Seq(1 .. head) /\ faults' \in 0 .. MaxFaults
        /\ \A i \in 1 .. Len(todo') : todo'[i] = lastSent + i
    BY <2>1, FetchContinues
  <2>3. TypeOK'
    BY <2>1, <2>2 DEF TypeOK
  <2> QED
    BY <2>1, <2>2, <2>3
    DEF InOrderOnce, WireContinues, CursorIsSent, TodoContinues
<1>3. CASE WriteFetched
  <2>1. /\ todo # << >> /\ Write(Head(todo)) /\ todo' = Tail(todo)
        /\ UNCHANGED <<start, head, inflight, conn, replay, ch, room, got, live,
                       again, faults>>
    BY <1>3 DEF WriteFetched, logVars, bounds
  <2>2. /\ todo \in Seq(1 .. head) /\ Len(todo) \in Nat \ {0}
        /\ lastSent \in Nat /\ head \in Nat
    BY <2>1, StreamAssumption DEF StreamAssumption, TypeOK
  <2>3. /\ Head(todo) \in 0 .. head /\ Head(todo) = lastSent + 1
        /\ conn # "off"
    BY <2>1, <2>2 DEF TodoContinues
  <2>4. /\ wire' \in Seq(1 .. head) /\ lastSent' \in 0 .. head
        /\ WireContinues' /\ lastSent' = start + Len(got) + Len(wire')
        /\ lastSent' = lastSent + 1
    BY <2>1, <2>2, <2>3, WriteContinues
  <2>5. TodoContinues'
    <3>1. /\ todo' \in Seq(1 .. head) /\ Len(todo') = Len(todo) - 1
          /\ \A i \in 1 .. Len(todo') : todo'[i] = todo[i + 1]
      BY <2>1, <2>2
    <3>2. \A i \in 1 .. Len(todo') : todo'[i] = lastSent' + i
      <4> SUFFICES ASSUME NEW i \in 1 .. Len(todo') PROVE todo'[i] = lastSent' + i
        OBVIOUS
      <4>0. i \in 1 .. (Len(todo) - 1)
        BY <3>1
      <4>1. i + 1 \in 1 .. Len(todo) /\ todo'[i] = todo[i + 1]
        BY <2>2, <3>1, <4>0
      <4>2. todo[i + 1] = lastSent + (i + 1)
        BY <4>1 DEF TodoContinues
      <4> QED
        <5>1. i \in Nat /\ lastSent \in Nat
          BY <2>2, <4>0
        <5>2. lastSent' + i = lastSent + (i + 1)
          BY <2>4, <5>1
        <5> QED
          BY <4>1, <4>2, <5>2
    <3> QED
      BY <2>1, <3>2 DEF TodoContinues
  <2>6. TypeOK'
    BY <2>1, <2>2, <2>4 DEF TypeOK
  <2> QED
    BY <2>1, <2>4, <2>5, <2>6 DEF InOrderOnce, CursorIsSent
<1> QED
  BY <1>1, <1>2, <1>3

\* The client takes the next frame.
LEMMA ReceiveStep ==
  ASSUME StreamInv, ClientReceives
  PROVE  StreamInv'
<1> USE DEF StreamInv
<1>1. /\ wire # << >> /\ got' = Append(got, Head(wire)) /\ wire' = Tail(wire)
      /\ UNCHANGED <<start, head, inflight, ch, conn, replay, room, todo,
                     lastSent, live, again, faults>>
  BY DEF ClientReceives, logVars, streamVars, bounds
<1>2. /\ got \in Seq(1 .. head) /\ wire \in Seq(1 .. head)
      /\ Len(got) \in Nat /\ Len(wire) \in Nat \ {0} /\ start \in Nat
  BY <1>1, StreamAssumption DEF StreamAssumption, TypeOK
<1>3. Head(wire) = start + Len(got) + 1 /\ Head(wire) \in 1 .. head
  <2>1. 1 \in 1 .. Len(wire)
    BY <1>2
  <2>2. Head(wire) = wire[1]
    BY <1>2
  <2>3. wire[1] \in 1 .. head
    BY <1>2, <2>1, EntryType
  <2>4. wire[1] = start + Len(got) + 1
    BY <2>1 DEF WireContinues
  <2> QED
    BY <2>2, <2>3, <2>4
<1>4. /\ got' \in Seq(1 .. head) /\ Len(got') = Len(got) + 1
      /\ got'[Len(got) + 1] = Head(wire)
      /\ \A i \in 1 .. Len(got) : got'[i] = got[i]
  BY <1>1, <1>2, <1>3
<1>5. /\ wire' \in Seq(1 .. head) /\ Len(wire') = Len(wire) - 1
      /\ \A i \in 1 .. Len(wire') : wire'[i] = wire[i + 1]
  BY <1>1, <1>2
<1>6. InOrderOnce'
  <2> SUFFICES ASSUME NEW i \in 1 .. Len(got') PROVE got'[i] = start + i
    BY <1>1 DEF InOrderOnce
  <2>1. CASE i \in 1 .. Len(got)
    BY <1>4, <2>1 DEF InOrderOnce
  <2>2. CASE i = Len(got) + 1
    BY <1>2, <1>3, <1>4, <2>2
  <2> QED
    BY <1>2, <1>4, <2>1, <2>2
<1>7. WireContinues'
  BY <1>1, <1>2, <1>4, <1>5 DEF WireContinues
<1>8. CursorIsSent'
  BY <1>1, <1>2, <1>4, <1>5 DEF CursorIsSent
<1>9. TypeOK'
  BY <1>1, <1>4, <1>5 DEF TypeOK
<1> QED
  BY <1>1, <1>6, <1>7, <1>8, <1>9 DEF TodoContinues

\* The stream ends, by itself or with its connection.
LEMMA EndSteps ==
  ASSUME StreamInv, ConnectionLost \/ CloseAllSubscribers \/ StreamEnds
  PROVE  StreamInv'
<1> USE DEF StreamInv
<1>1. CASE ConnectionLost
  BY <1>1, StreamAssumption
  DEF StreamAssumption, ConnectionLost, Detach, logVars, TypeOK, InOrderOnce,
      WireContinues, CursorIsSent, TodoContinues
<1>2. CASE CloseAllSubscribers
  BY <1>2, StreamAssumption
  DEF StreamAssumption, CloseAllSubscribers, logVars, TypeOK, InOrderOnce,
      WireContinues, CursorIsSent, TodoContinues
<1>3. CASE StreamEnds
  BY <1>3, StreamAssumption
  DEF StreamAssumption, StreamEnds, Detach, logVars, bounds, TypeOK,
      InOrderOnce, WireContinues, CursorIsSent, TodoContinues
<1> QED
  BY <1>1, <1>2, <1>3

-----------------------------------------------------------------------------
(* The invariant.                                                          *)

\* The invariant holds in every reachable state.
THEOREM StreamInvariant == Spec => []StreamInv
<1>1. Init => StreamInv
  BY StreamAssumption
  DEF StreamAssumption, Init, StreamInv, TypeOK, InOrderOnce, WireContinues,
      CursorIsSent, TodoContinues
<1>2. StreamInv /\ [Next]_vars => StreamInv'
  <2> SUFFICES ASSUME StreamInv, [Next]_vars PROVE StreamInv'
    OBVIOUS
  <2>1. CASE UNCHANGED vars
    BY <2>1 DEF vars, StreamInv, TypeOK, InOrderOnce, WireContinues,
       CursorIsSent, TodoContinues
  <2> QED
    BY <2>1, AppendSteps, FanOutSteps, SubscribeSteps, SenderSteps, ReceiveStep,
       EndSteps DEF Next
<1> QED
  BY <1>1, <1>2, PTL DEF Spec

\* Type correctness of the stream and the bound on the subscriber's buffer
\* (subscribers.go:8), for any log and any number of faults.
THEOREM TypeCorrect == Spec => []TypeOK
<1>1. StreamInv => TypeOK
  BY DEF StreamInv
<1> QED
  BY <1>1, StreamInvariant, PTL

\* The client of an event stream gets the durable events after its first cursor
\* in order, each once and with no gap, across any number of reconnects, full
\* buffers and repeated fan-outs (task_events.go:107).
THEOREM OrderedDelivery == Spec => []InOrderOnce
<1>1. StreamInv => InOrderOnce
  BY DEF StreamInv
<1> QED
  BY <1>1, StreamInvariant, PTL
=============================================================================
