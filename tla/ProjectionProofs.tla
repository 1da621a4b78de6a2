-------------------------- MODULE ProjectionProofs --------------------------
(***************************************************************************)
(* Proofs about AttemptProjection, for any number of events: its types,    *)
(* that a closed row never changes, that a row never says RUNNING past a   *)
(* park, and that the row ends up with what the attempt is doing. Then     *)
(* about ApprovalProjection, for any set of requests and decisions: its    *)
(* types, that the row keeps the latest decision, and that the pending     *)
(* list agrees with the table while the approval is requested once.        *)
(***************************************************************************)
EXTENDS AttemptProjection, ApprovalProjection, FiniteSetTheorems, TLAPS

Resumed(e) == e.type = "resumed"

Closed == {"LOST", "ABORTED"}

(* What the runtime's events look like.                                    *)

\* An event is identified by its time.
DistinctTimes ==
  \A e \in emitted : e.at <= clock /\ \A f \in emitted : e.at = f.at => e = f

EventShapes ==
  \A e \in emitted :
    CASE e.type = "started"  -> e.status = "RUNNING"
      [] e.type = "parked"   -> e.status \in Parked
      [] e.type = "finished" -> e.status \in Finished
      [] e.type = "resumed"  -> e.status = "RUNNING"

\* The workflow's versions go up with time, the worker's events have none.
VersionsInOrder ==
  \A e \in emitted :
    IF ByWorkflow(e)
      THEN /\ 0 < e.version /\ e.version <= version
           /\ \A f \in emitted :
                (ByWorkflow(f) /\ e.at < f.at) => e.version < f.version
      ELSE e.version = 0

\* started comes first, finished last.
StartedFirst ==
  /\ actual = "none" => clock = 0
  /\ actual # "none" => \E s \in emitted : s.type = "started"
  /\ \A e \in emitted : (e.type = "started") <=> (e.at = 1)

FinishedLast ==
  \A e \in emitted :
    e.type = "finished" => actual \in Finished /\ \A f \in emitted : f.at <= e.at

\* The last event says what the attempt is doing.
ActualIsLast ==
  actual \notin {"none", "GONE"} =>
    \E e \in emitted : e.at = clock /\ e.status = actual

NewestIn(S, w) ==
  /\ w \in S /\ ByWorkflow(w)
  /\ \A f \in S : ByWorkflow(f) => f.at <= w.at

SomeNewest == actual # "none" => \E w \in emitted : NewestIn(emitted, w)

RuntimeInv ==
  /\ DistinctTimes /\ EventShapes /\ VersionsInOrder
  /\ StartedFirst /\ FinishedLast /\ ActualIsLast /\ SomeNewest

(* What the row knows.                                                     *)

\* The row is there once started is stored, and its version is that of a
\* stored event of the workflow.
RowExists ==
  /\ row.status = "none" => row = NoRow
  /\ row # NoRow => \E w \in stored : ByWorkflow(w) /\ row.version = w.version
  /\ \A e \in stored : e.type = "started" => row # NoRow

\* A parked row carries the time of the last stored park.
ParkStamp ==
  row.status \in Parked => \A p \in stored : p.type = "parked" => p.at <= row.changedAt

\* Only the end of the attempt closes the row.
ClosedIsOver ==
  /\ row.status \in Terminal => actual \in Finished \cup {"GONE"}
  /\ row.status \in Finished \ Closed => \E e \in stored : e.type = "finished"

\* As long as nothing overtook an event of the workflow,
PrefixStored == ~overtook => \A e \in stored : NothingMissing(e)

\* the row follows the newest of them, and a resume after it.
Follows(w) ==
  \/ row.status \in Closed
  \/ w.type = "started" /\ row.status = "RUNNING"
  \/ w.type = "finished" /\ row.status = w.status
  \/ /\ w.type = "parked" /\ row.status = "RUNNING"
     /\ \E r \in stored : Resumed(r) /\ w.at < r.at
  \/ /\ w.type = "parked" /\ row.status = w.status
     /\ row.changedAt = w.at /\ row.key = 0
     /\ \A r \in stored : Resumed(r) => r.at < w.at

RowFollows == ~overtook => \A w \in stored : NewestIn(stored, w) => Follows(w)

RowInv ==
  /\ RowExists /\ ParkStamp /\ ClosedIsOver /\ NoFalseRunning
  /\ PrefixStored /\ RowFollows

AttemptInv == TypeOK /\ RuntimeInv /\ RowInv
-----------------------------------------------------------------------------
(* The runtime.                                                            *)

\* What an emitting action does with its event e.
NewEvent(e) ==
  /\ e \in Event /\ e.at = clock + 1
  /\ clock' = clock + 1 /\ actual' = e.status /\ tries' \in 0 .. clock'
  /\ emitted' = emitted \cup {e}
  /\ UNCHANGED <<stored, overtook, row>>
  /\ \/ /\ e.type = "started" /\ e.status = "RUNNING" /\ actual = "none"
        /\ version' = version + 1 /\ e.version = version + 1
     \/ /\ e.type = "parked" /\ e.status \in Parked /\ actual = "RUNNING"
        /\ version' = version + 1 /\ e.version = version + 1
     \/ /\ e.type = "finished" /\ e.status \in Finished
        /\ actual \in {"RUNNING"} \cup Parked
        /\ version' = version + 1 /\ e.version = version + 1
     \/ /\ e.type = "resumed" /\ e.status = "RUNNING"
        /\ actual \in {"RUNNING"} \cup Parked
        /\ version' = version /\ e.version = 0

\* The four emitting actions.
LEMMA Emits ==
  ASSUME TypeOK,
         \/ WorkflowStarts
         \/ \E s \in Parked : WorkflowParks(s)
         \/ \E s \in Finished, full \in BOOLEAN : WorkflowFinishes(s, full)
         \/ \E old \in BOOLEAN : WorkerResumes(old)
  PROVE  \E e : NewEvent(e)
<1> DEFINE Ev(type, status, v, key, full) ==
      [type |-> type, status |-> status, version |-> v, at |-> clock + 1,
       key |-> key, full |-> full]
<1>0. /\ clock \in Nat /\ version \in Nat /\ tries \in Nat /\ MaxClock \in Nat
      /\ version <= clock /\ tries <= clock
  BY AttemptAssumption DEF AttemptAssumption, TypeOK
<1>1. CASE WorkflowStarts
  <2>1. NewEvent(Ev("started", "RUNNING", version + 1, 0, TRUE))
    BY <1>0, <1>1 DEF WorkflowStarts, Emit, NewEvent, Event
  <2> QED
    BY <2>1
<1>2. ASSUME NEW s \in Parked, WorkflowParks(s) PROVE \E e : NewEvent(e)
  <2>1. NewEvent(Ev("parked", s, version + 1, 0, FALSE))
    BY <1>0, <1>2 DEF WorkflowParks, Emit, NewEvent, Event
  <2> QED
    BY <2>1
<1>3. ASSUME NEW s \in Finished, NEW full \in BOOLEAN, WorkflowFinishes(s, full)
      PROVE  \E e : NewEvent(e)
  <2>1. NewEvent(Ev("finished", s, version + 1, 0, full))
    BY <1>0, <1>3 DEF WorkflowFinishes, Emit, NewEvent, Event
  <2> QED
    BY <2>1
<1>4. ASSUME NEW old \in BOOLEAN, WorkerResumes(old) PROVE \E e : NewEvent(e)
  <2>1. NewEvent(Ev("resumed", "RUNNING", 0, IF old THEN 0 ELSE tries + 1, FALSE))
    BY <1>0, <1>4 DEF WorkerResumes, Emit, NewEvent, Event
  <2> QED
    BY <2>1
<1> QED
  BY <1>1, <1>2, <1>3, <1>4

-----------------------------------------------------------------------------
(* Type correctness.                                                       *)

\* The projection of an event is a row.
LEMMA ProjectedType ==
  ASSUME row \in Row, NEW e \in Event
  PROVE  Projected(e) \in Row
<1>1. NewRow(e) \in Row
  <2>1. /\ e.status \in {"RUNNING"} \cup Parked \cup Finished
        /\ e.version \in 0 .. MaxClock /\ e.at \in 0 .. MaxClock
        /\ 0 \in 0 .. MaxClock
    BY AttemptAssumption DEF AttemptAssumption, Event
  <2> QED
    BY <2>1 DEF NewRow, Row, Terminal
<1>2. CreateAttempt(e) \in Row /\ ParkAttempt(e) \in Row
  BY <1>1 DEF CreateAttempt, ParkAttempt
<1>3. ResumeAttempt(e) \in Row
  BY DEF ResumeAttempt, Row, Event
<1>4. FinishAttempt(e) \in Row
  BY <1>1, <1>2 DEF FinishAttempt, Row
<1> QED
  BY <1>2, <1>3, <1>4 DEF Projected, Event

\* Every step keeps the types.
LEMMA TypeStep ==
  ASSUME TypeOK, [Next]_vars
  PROVE  TypeOK'
<1>1. ASSUME NEW e, NewEvent(e) PROVE TypeOK'
  <2>1. clock' \in 0 .. MaxClock /\ version' \in 0 .. clock'
    BY <1>1, AttemptAssumption DEF AttemptAssumption, NewEvent, Event, TypeOK
  <2>2. actual' \in {"none", "RUNNING", "GONE"} \cup Parked \cup Finished
    BY <1>1 DEF NewEvent, Event
  <2>3. /\ emitted' \subseteq Event /\ stored' \subseteq emitted'
        /\ tries' \in 0 .. clock' /\ overtook' \in BOOLEAN /\ row' \in Row
    BY <1>1 DEF NewEvent, TypeOK
  <2> QED
    BY <2>1, <2>2, <2>3 DEF TypeOK
<1>2. CASE WorkflowDies
  BY <1>2 DEF WorkflowDies, TypeOK
<1>3. ASSUME NEW s \in {"LOST", "ABORTED"}, MaintenanceCloses(s) PROVE TypeOK'
  BY <1>3 DEF MaintenanceCloses, TypeOK, Row, Terminal, Finished
<1>4. ASSUME NEW e \in emitted, ApplyEvent(e) PROVE TypeOK'
  <2>1. row' \in Row
    BY <1>4, ProjectedType DEF ApplyEvent, TypeOK
  <2> QED
    BY <1>4, <2>1 DEF ApplyEvent, TypeOK
<1>5. CASE UNCHANGED vars
  BY <1>5 DEF vars, TypeOK
<1> QED
  BY <1>1, <1>2, <1>3, <1>4, <1>5, Emits DEF Next
\* The initial state has the types.
LEMMA TypeInit == Init => TypeOK
<1> SUFFICES ASSUME Init PROVE TypeOK
  OBVIOUS
<1>1. 0 \in 0 .. MaxClock /\ 0 \in 0 .. 0
  BY AttemptAssumption DEF AttemptAssumption
<1>2. row \in Row
  BY <1>1 DEF Init, NoRow, Row
<1> QED
  BY <1>1, <1>2 DEF Init, TypeOK

\* Type correctness of the projection, for any number of events.
THEOREM TypeCorrect == Spec => []TypeOK
BY TypeInit, TypeStep, PTL DEF Spec

\* No event, however late, changes a row that a finish or the maintenance has
\* closed.
THEOREM TerminalKept == Spec => TerminalForever
<1>1. TypeOK /\ [Next]_vars => [row.status \in Terminal => row' = row]_vars
  <2> SUFFICES ASSUME TypeOK, [Next]_vars, row.status \in Terminal
               PROVE  row' = row
    OBVIOUS
  <2>1. row # NoRow /\ row.status \notin {"RUNNING"} \cup Parked
    BY DEF NoRow, Terminal, Finished, Parked
  <2>2. CASE UNCHANGED vars
    BY <2>2 DEF vars
  <2>3. ASSUME NEW e \in emitted, ApplyEvent(e) PROVE row' = row
    <3>1. row' = Projected(e)
      BY <2>3 DEF ApplyEvent
    <3>2. /\ CreateAttempt(e) = row /\ ParkAttempt(e) = row
          /\ ResumeAttempt(e) = row /\ FinishAttempt(e) = row
      BY <2>1 DEF CreateAttempt, ParkAttempt, ResumeAttempt, FinishAttempt,
         CanMove, CanResume
    <3>3. e.type \in {"started", "parked", "resumed", "finished"}
      BY DEF TypeOK, Event
    <3> QED
      BY <3>1, <3>2, <3>3 DEF Projected
  <2>4. ASSUME NEW s \in {"LOST", "ABORTED"}, MaintenanceCloses(s) PROVE FALSE
    BY <2>1, <2>4 DEF MaintenanceCloses
  <2>5. CASE \/ WorkflowStarts \/ WorkflowDies
             \/ \E s \in Parked : WorkflowParks(s)
             \/ \E s \in Finished, full \in BOOLEAN : WorkflowFinishes(s, full)
             \/ \E old \in BOOLEAN : WorkerResumes(old)
    BY <2>5 DEF WorkflowStarts, WorkflowDies, WorkflowParks, WorkflowFinishes,
       WorkerResumes, Emit
  <2> QED
    BY <2>2, <2>3, <2>4, <2>5 DEF Next
<1> QED
  BY <1>1, TypeCorrect, PTL DEF Spec, TerminalForever
-----------------------------------------------------------------------------
(* The runtime's events.                                                   *)

\* A new event is later than the others, and leaves their order alone.
LEMMA RuntimeEmits ==
  ASSUME TypeOK, RuntimeInv, NEW e, NewEvent(e)
  PROVE  RuntimeInv'
<1>1. /\ clock \in Nat /\ version \in Nat /\ e.at = clock + 1 /\ e \in Event
      /\ emitted' = emitted \cup {e}
      /\ \A f \in emitted : f.at \in Nat /\ f.version \in Nat /\ f.at <= clock
  BY AttemptAssumption DEF AttemptAssumption, TypeOK, NewEvent, RuntimeInv,
     DistinctTimes, Event
<1>2. actual # "GONE" /\ actual \notin Finished
  BY DEF NewEvent, Parked, Finished
<1>3. DistinctTimes'
  BY <1>1 DEF NewEvent, RuntimeInv, DistinctTimes
<1>4. EventShapes'
  BY <1>1 DEF NewEvent, RuntimeInv, EventShapes
<1>5. VersionsInOrder'
  <2>1. \A f \in emitted : ByWorkflow(f) => 0 < f.version /\ f.version <= version
    BY DEF RuntimeInv, VersionsInOrder
  <2>2. \A f \in emitted : ~(e.at < f.at)
    BY <1>1
  <2>3. CASE ByWorkflow(e)
    <3>1. version' = version + 1 /\ e.version = version + 1
      BY <2>3 DEF NewEvent, ByWorkflow
    <3>2. \A f \in emitted : ByWorkflow(f) => f.version < e.version
      BY <1>1, <2>1, <3>1
    <3> QED
      BY <1>1, <2>1, <2>2, <2>3, <3>1, <3>2 DEF RuntimeInv, VersionsInOrder
  <2>4. CASE ~ByWorkflow(e)
    <3>1. version' = version /\ e.version = 0
      BY <2>4 DEF NewEvent, ByWorkflow
    <3> QED
      BY <1>1, <2>1, <2>4, <3>1 DEF RuntimeInv, VersionsInOrder
  <2> QED
    BY <2>3, <2>4
<1>6. StartedFirst'
  <2>1. actual' # "none"
    BY DEF NewEvent, Parked, Finished
  <2>2. \E s \in emitted' : s.type = "started"
    BY <1>1 DEF NewEvent, RuntimeInv, StartedFirst, Parked
  <2>3. (e.type = "started") <=> (e.at = 1)
    <3>1. CASE actual = "none"
      BY <1>1, <3>1 DEF NewEvent, RuntimeInv, StartedFirst, Parked
    <3>2. CASE actual # "none"
      <4>1. PICK s \in emitted : s.type = "started"
        BY <3>2 DEF RuntimeInv, StartedFirst
      <4>2. s.at = 1
        BY <4>1 DEF RuntimeInv, StartedFirst
      <4> QED
        BY <1>1, <3>2, <4>2 DEF NewEvent
    <3> QED
      BY <3>1, <3>2
  <2> QED
    BY <1>1, <2>1, <2>2, <2>3 DEF RuntimeInv, StartedFirst
<1>7. FinishedLast'
  <2>1. \A f \in emitted : f.type # "finished"
    BY <1>2 DEF RuntimeInv, FinishedLast
  <2>2. e.type = "finished" => actual' \in Finished
    BY DEF NewEvent
  <2> QED
    BY <1>1, <2>1, <2>2 DEF FinishedLast
<1>8. ActualIsLast'
  BY <1>1 DEF NewEvent, ActualIsLast
<1>9. SomeNewest'
  <2>1. CASE ByWorkflow(e)
    <3>1. NewestIn(emitted', e)
      BY <1>1, <2>1 DEF NewestIn
    <3> QED
      BY <1>1, <3>1 DEF SomeNewest
  <2>2. CASE ~ByWorkflow(e)
    <3>1. actual # "none"
      BY <2>2 DEF NewEvent, ByWorkflow, Parked
    <3>2. PICK w \in emitted : NewestIn(emitted, w)
      BY <3>1 DEF RuntimeInv, SomeNewest
    <3>3. NewestIn(emitted', w)
      BY <1>1, <2>2, <3>2 DEF NewestIn
    <3> QED
      BY <1>1, <3>3 DEF SomeNewest
  <2> QED
    BY <2>1, <2>2
<1> QED
  BY <1>3, <1>4, <1>5, <1>6, <1>7, <1>8, <1>9 DEF RuntimeInv

\* Every step keeps what is known of the runtime.
LEMMA RuntimeStep ==
  ASSUME TypeOK, RuntimeInv, [Next]_vars
  PROVE  RuntimeInv'
<1>1. CASE UNCHANGED <<clock, version, actual, emitted>>
  BY <1>1 DEF RuntimeInv, DistinctTimes, EventShapes, VersionsInOrder,
     StartedFirst, FinishedLast, ActualIsLast, SomeNewest, NewestIn
<1>2. ASSUME NEW e \in emitted, ApplyEvent(e) PROVE RuntimeInv'
  BY <1>1, <1>2 DEF ApplyEvent
<1>3. ASSUME NEW s \in {"LOST", "ABORTED"}, MaintenanceCloses(s) PROVE RuntimeInv'
  BY <1>1, <1>3 DEF MaintenanceCloses
<1>4. CASE UNCHANGED vars
  BY <1>1, <1>4 DEF vars
<1>5. CASE WorkflowDies
  <2>1. UNCHANGED <<clock, version, emitted>> /\ actual' = "GONE"
        /\ actual # "none" /\ actual \notin Finished
    BY <1>5 DEF WorkflowDies, Parked, Finished
  <2>2. DistinctTimes' /\ EventShapes' /\ VersionsInOrder'
    BY <2>1 DEF RuntimeInv, DistinctTimes, EventShapes, VersionsInOrder
  <2>3. StartedFirst' /\ FinishedLast' /\ ActualIsLast' /\ SomeNewest'
    BY <2>1 DEF RuntimeInv, StartedFirst, FinishedLast, ActualIsLast, SomeNewest,
       NewestIn
  <2> QED
    BY <2>2, <2>3 DEF RuntimeInv
<1> QED
  BY <1>2, <1>3, <1>4, <1>5, Emits, RuntimeEmits DEF Next
-----------------------------------------------------------------------------
(* The projected row.                                                      *)

\* A new event of the runtime, not yet stored, leaves the row's part alone.
LEMMA RowKeptByRuntime ==
  ASSUME TypeOK, RuntimeInv, RowInv, NEW e, NewEvent(e)
  PROVE  RowInv'
<1>1. /\ UNCHANGED <<stored, overtook, row>> /\ emitted' = emitted \cup {e}
      /\ e.at = clock + 1 /\ clock \in Nat
      /\ \A f \in stored : f.at \in Nat /\ f.at <= clock
  BY AttemptAssumption DEF AttemptAssumption, TypeOK, NewEvent, RuntimeInv,
     DistinctTimes, Event
<1>2. row.status \notin Terminal
  BY DEF NewEvent, RowInv, ClosedIsOver, Parked, Finished
<1>3. RowExists' /\ ParkStamp' /\ NoFalseRunning'
  BY <1>1 DEF RowInv, RowExists, ParkStamp, NoFalseRunning
<1>4. ClosedIsOver'
  BY <1>1, <1>2 DEF ClosedIsOver, Terminal
<1>5. PrefixStored'
  BY <1>1 DEF RowInv, PrefixStored, NothingMissing
<1>6. RowFollows'
  BY <1>1 DEF RowInv, RowFollows, Follows, NewestIn
<1> QED
  BY <1>3, <1>4, <1>5, <1>6 DEF RowInv

\* The workflow of the attempt dies, or the maintenance closes its row.
LEMMA RowKeptByClosing ==
  ASSUME TypeOK, RowInv,
         WorkflowDies \/ \E s \in {"LOST", "ABORTED"} : MaintenanceCloses(s)
  PROVE  RowInv'
<1>1. CASE WorkflowDies
  <2>1. UNCHANGED <<emitted, stored, overtook, row>> /\ actual' = "GONE"
        /\ actual \notin Finished \cup {"GONE"}
    BY <1>1 DEF WorkflowDies, Finished, Parked
  <2>2. RowExists' /\ ParkStamp' /\ NoFalseRunning' /\ ClosedIsOver'
    BY <2>1 DEF RowInv, RowExists, ParkStamp, NoFalseRunning, ClosedIsOver
  <2>3. PrefixStored' /\ RowFollows'
    BY <2>1 DEF RowInv, PrefixStored, NothingMissing, RowFollows, Follows, NewestIn
  <2> QED
    BY <2>2, <2>3 DEF RowInv
<1>2. ASSUME NEW s \in {"LOST", "ABORTED"}, MaintenanceCloses(s) PROVE RowInv'
  <2>1. /\ UNCHANGED <<emitted, stored, overtook, actual>>
        /\ actual \in Finished \cup {"GONE"}
        /\ row' = [row EXCEPT !.status = s]
        /\ row.status \in {"RUNNING"} \cup Parked
    BY <1>2 DEF MaintenanceCloses
  <2>2. /\ row'.status = s /\ row'.version = row.version
        /\ row # NoRow /\ row' # NoRow
    BY <2>1 DEF TypeOK, Row, NoRow, Parked
  <2>3. s \in Closed /\ s \notin {"none", "RUNNING"} \cup Parked
    BY DEF Closed, Parked
  <2>4. RowExists'
    BY <2>1, <2>2, <2>3 DEF RowInv, RowExists
  <2>5. ParkStamp' /\ NoFalseRunning' /\ ClosedIsOver'
    BY <2>1, <2>2, <2>3 DEF ParkStamp, NoFalseRunning, ClosedIsOver
  <2>6. PrefixStored' /\ RowFollows'
    BY <2>1, <2>2, <2>3 DEF RowInv, PrefixStored, NothingMissing, RowFollows, Follows
  <2> QED
    BY <2>4, <2>5, <2>6 DEF RowInv
<1> QED
  BY <1>1, <1>2

\* What storing an event adds, and that an event of the workflow is newer than
\* the row.
LEMMA ApplyFacts ==
  ASSUME TypeOK, RuntimeInv, RowInv, NEW e \in emitted, ApplyEvent(e)
  PROVE  /\ e \in Event /\ e \notin stored /\ e.at \in Nat /\ e.at > 0
         /\ stored' = stored \cup {e} /\ row' = Projected(e)
         /\ UNCHANGED <<emitted, actual>>
         /\ overtook' = (overtook \/ ~NothingMissing(e))
         /\ \A f \in stored : f \in emitted /\ f.at \in Nat /\ f.at > 0 /\ f.at # e.at
         /\ ByWorkflow(e) => /\ \A f \in stored : ByWorkflow(f) => f.at < e.at
                             /\ row # NoRow => row.version < e.version
<1>1. /\ e \in Event /\ e \notin stored /\ e.at \in Nat /\ e.at > 0
      /\ stored' = stored \cup {e} /\ row' = Projected(e)
      /\ UNCHANGED <<emitted, actual>>
      /\ overtook' = (overtook \/ ~NothingMissing(e))
  BY AttemptAssumption DEF AttemptAssumption, ApplyEvent, TypeOK, Event
<1>2. \A f \in stored : f \in emitted /\ f.at \in Nat /\ f.at > 0 /\ f.at # e.at
  BY <1>1, AttemptAssumption DEF AttemptAssumption, TypeOK, Event, RuntimeInv,
     DistinctTimes
<1>3. ASSUME ByWorkflow(e)
      PROVE  /\ \A f \in stored : ByWorkflow(f) => f.at < e.at
             /\ row # NoRow => row.version < e.version
  <2>1. \A f \in stored : ByWorkflow(f) => f.at < e.at
    BY <1>3 DEF ApplyEvent, InOrder
  <2>2. \A f \in stored : ByWorkflow(f) => f.version < e.version
    BY <1>2, <1>3, <2>1 DEF RuntimeInv, VersionsInOrder
  <2> QED
    BY <2>1, <2>2 DEF RowInv, RowExists
<1> QED
  BY <1>1, <1>2, <1>3

\* What holds of the stored events alone.
LEMMA PrefixStep ==
  ASSUME TypeOK, RuntimeInv, RowInv, NEW e \in emitted, ApplyEvent(e)
  PROVE  PrefixStored'
BY ApplyFacts DEF RowInv, PrefixStored, NothingMissing
\* An event of the workflow is the newest when it is stored, and if nothing has
\* been overtaken the row is there, not finished yet, and no resume is ahead.
LEMMA NewestStored ==
  ASSUME TypeOK, RuntimeInv, RowInv, NEW e \in emitted, ApplyEvent(e), ByWorkflow(e)
  PROVE  /\ \A w : NewestIn(stored', w) => w = e
         /\ (~overtook' /\ e.type # "started") =>
              /\ row # NoRow
              /\ row.status \in Terminal => row.status \in Closed
              /\ \A r \in stored : Resumed(r) => r.at < e.at
<1>1. \A w : NewestIn(stored', w) => w = e
  BY ApplyFacts DEF NewestIn
<1>2. ASSUME ~overtook', e.type # "started"
      PROVE  /\ row # NoRow
             /\ row.status \in Terminal => row.status \in Closed
             /\ \A r \in stored : Resumed(r) => r.at < e.at
  <2>1. ~overtook /\ NothingMissing(e)
    BY <1>2, ApplyFacts DEF TypeOK
  <2>2. row # NoRow
    <3>1. e.at > 1
      BY <1>2, ApplyFacts DEF RuntimeInv, StartedFirst
    <3>2. actual # "none"
      BY AttemptAssumption DEF AttemptAssumption, TypeOK, Event, RuntimeInv,
         DistinctTimes, StartedFirst
    <3>3. PICK s \in emitted : s.type = "started"
      BY <3>2 DEF RuntimeInv, StartedFirst
    <3>4. s.at = 1
      BY <3>3 DEF RuntimeInv, StartedFirst
    <3>5. s \in stored
      BY <2>1, <3>1, <3>3, <3>4 DEF NothingMissing, ByWorkflow
    <3> QED
      BY <3>3, <3>5 DEF RowInv, RowExists
  <2>3. row.status \in Terminal => row.status \in Closed
    <3>1. ASSUME NEW f \in stored, f.type = "finished" PROVE FALSE
      <4>1. f \in emitted /\ f.at < e.at /\ f.at \in Nat
        BY <3>1, ApplyFacts DEF ByWorkflow
      <4>2. e.at <= f.at
        BY <3>1, <4>1 DEF RuntimeInv, FinishedLast
      <4> QED
        BY <4>1, <4>2, ApplyFacts
    <3> QED
      BY <3>1 DEF RowInv, ClosedIsOver, Terminal, Closed
  <2>4. ASSUME NEW r \in stored, Resumed(r), ~(r.at < e.at) PROVE FALSE
    <3>1. e.at < r.at
      BY <2>4, ApplyFacts
    <3>2. NothingMissing(r)
      BY <2>1 DEF RowInv, PrefixStored
    <3> QED
      BY <3>1, <3>2, ApplyFacts DEF NothingMissing
  <2> QED
    BY <2>2, <2>3, <2>4
<1> QED
  BY <1>1, <1>2

\* started makes the row: nothing of the workflow is stored before it.
LEMMA StartedProjects ==
  ASSUME TypeOK, RuntimeInv, RowInv, NEW e \in emitted, ApplyEvent(e),
         e.type = "started"
  PROVE  RowInv'
<1>1. ByWorkflow(e) /\ e.at = 1 /\ e.status = "RUNNING"
  BY DEF ByWorkflow, RuntimeInv, StartedFirst, EventShapes
<1>2. \A f \in stored : ~ByWorkflow(f)
  BY <1>1, ApplyFacts
<1>3. row = NoRow
  BY <1>2 DEF RowInv, RowExists
<1>4. row' = NewRow(e)
  BY <1>3, ApplyFacts DEF Projected, CreateAttempt
<1>5. row'.status = "RUNNING" /\ row'.version = e.version /\ row' # NoRow
  BY <1>1, <1>4 DEF NewRow, NoRow
<1>6. RowExists'
  BY <1>1, <1>5, ApplyFacts DEF RowExists
<1>7. ParkStamp' /\ ClosedIsOver'
  BY <1>5 DEF ParkStamp, ClosedIsOver, Parked, Terminal, Finished
<1>8. NoFalseRunning'
  BY <1>2, ApplyFacts DEF NoFalseRunning, ByWorkflow
<1>9. RowFollows'
  BY <1>1, <1>5, NewestStored DEF RowFollows, Follows
<1> QED
  BY <1>6, <1>7, <1>8, <1>9, PrefixStep DEF RowInv

\* parked moves a row that is not closed.
LEMMA ParkedProjects ==
  ASSUME TypeOK, RuntimeInv, RowInv, NEW e \in emitted, ApplyEvent(e),
         e.type = "parked"
  PROVE  RowInv'
<1>1. ByWorkflow(e) /\ e.status \in Parked /\ ~Resumed(e)
  BY DEF ByWorkflow, Resumed, RuntimeInv, EventShapes
<1>2. row' = ParkAttempt(e)
  BY ApplyFacts DEF Projected
<1>3. CASE row = NoRow \/ row.status \in Terminal
  <2>1. row' = row
    BY <1>2, <1>3 DEF ParkAttempt, CanMove
  <2>2. row.status \notin {"RUNNING"} \cup Parked
    BY <1>3 DEF NoRow, Terminal, Finished, Parked
  <2>3. RowExists'
    BY <2>1, ApplyFacts DEF RowInv, RowExists
  <2>4. ParkStamp' /\ NoFalseRunning' /\ ClosedIsOver'
    BY <2>1, <2>2, ApplyFacts DEF RowInv, ParkStamp, NoFalseRunning, ClosedIsOver
  <2>5. RowFollows'
    BY <1>1, <1>3, <2>1, NewestStored DEF RowFollows, Follows
  <2> QED
    BY <2>3, <2>4, <2>5, PrefixStep DEF RowInv
<1>4. CASE row # NoRow /\ row.status \notin Terminal
  <2>1. row' = NewRow(e)
    BY <1>1, <1>2, <1>4, ApplyFacts DEF ParkAttempt, CanMove
  <2>2. /\ row'.status = e.status /\ row'.version = e.version
        /\ row'.changedAt = e.at /\ row'.key = 0
        /\ row'.status \notin {"none", "RUNNING"} \cup Terminal /\ row' # NoRow
    BY <1>1, <2>1 DEF NewRow, NoRow, Parked, Terminal, Finished
  <2>3. RowExists'
    BY <1>1, <2>2, ApplyFacts DEF RowExists
  <2>4. ParkStamp'
    BY <2>2, ApplyFacts, <1>1 DEF ParkStamp, ByWorkflow
  <2>5. NoFalseRunning' /\ ClosedIsOver'
    BY <2>2 DEF NoFalseRunning, ClosedIsOver, Terminal
  <2>6. RowFollows'
    <3> SUFFICES ASSUME ~overtook' PROVE Follows(e)'
      BY <1>1, NewestStored DEF RowFollows
    <3>1. \A r \in stored' : Resumed(r) => r.at < e.at
      BY <1>1, NewestStored, ApplyFacts
    <3> QED
      BY <2>2, <3>1 DEF Follows
  <2> QED
    BY <2>3, <2>4, <2>5, <2>6, PrefixStep DEF RowInv
<1> QED
  BY <1>3, <1>4
\* finished closes a row, or makes one that is closed already.
LEMMA FinishedProjects ==
  ASSUME TypeOK, RuntimeInv, RowInv, NEW e \in emitted, ApplyEvent(e),
         e.type = "finished"
  PROVE  RowInv'
<1>1. /\ ByWorkflow(e) /\ e.status \in Finished /\ ~Resumed(e)
      /\ actual \in Finished
  BY DEF ByWorkflow, Resumed, RuntimeInv, EventShapes, FinishedLast
<1>2. row' = FinishAttempt(e)
  BY ApplyFacts DEF Projected
<1>3. CASE row' = row /\ (row = NoRow \/ row.status \in Terminal)
  <2>1. row.status \notin {"RUNNING"} \cup Parked
    BY <1>3 DEF NoRow, Terminal, Finished, Parked
  <2>2. RowExists'
    BY <1>3, ApplyFacts DEF RowInv, RowExists
  <2>3. ParkStamp' /\ NoFalseRunning' /\ ClosedIsOver'
    BY <1>3, <2>1, ApplyFacts DEF RowInv, ParkStamp, NoFalseRunning, ClosedIsOver
  <2>4. RowFollows'
    BY <1>1, <1>3, NewestStored DEF RowFollows, Follows
  <2> QED
    BY <2>2, <2>3, <2>4, PrefixStep DEF RowInv
<1>4. CASE row'.status = e.status /\ row'.version = e.version
  <2>1. row'.status \notin {"none", "RUNNING"} \cup Parked /\ row' # NoRow
    BY <1>1, <1>4 DEF Finished, Parked, NoRow
  <2>2. RowExists'
    BY <1>1, <1>4, <2>1, ApplyFacts DEF RowExists
  <2>3. ParkStamp' /\ NoFalseRunning'
    BY <2>1 DEF ParkStamp, NoFalseRunning
  <2>4. ClosedIsOver'
    BY <1>1, ApplyFacts DEF ClosedIsOver
  <2>5. RowFollows'
    BY <1>1, <1>4, NewestStored DEF RowFollows, Follows
  <2> QED
    BY <2>2, <2>3, <2>4, <2>5, PrefixStep DEF RowInv
<1>5. CASE row # NoRow /\ row.status \notin Terminal
  <2>1. row' = [NewRow(e) EXCEPT !.key = row.key]
    BY <1>1, <1>2, <1>5, ApplyFacts DEF FinishAttempt, CanMove
  <2> QED
    BY <1>4, <2>1 DEF NewRow
<1>6. CASE row = NoRow \/ row.status \in Terminal
  <2>1. ~CanMove(e)
    BY <1>6 DEF CanMove
  <2>2. row' = row \/ (row = NoRow /\ row' = NewRow(e))
    BY <1>2, <2>1 DEF FinishAttempt, CreateAttempt
  <2> QED
    BY <1>3, <1>4, <1>6, <2>2 DEF NewRow
<1> QED
  BY <1>5, <1>6

\* resumed moves a parked row if it is newer than the park.
LEMMA ResumedProjects ==
  ASSUME TypeOK, RuntimeInv, RowInv, NEW e \in emitted, ApplyEvent(e),
         e.type = "resumed"
  PROVE  RowInv'
<1>1. ~ByWorkflow(e) /\ Resumed(e)
  BY DEF ByWorkflow, Resumed
<1>2. row' = ResumeAttempt(e)
  BY ApplyFacts DEF Projected
<1>3. /\ ~CanResume(e) => row' = row
      /\ CanResume(e) => /\ row'.status = "RUNNING" /\ row'.version = row.version
                         /\ row.status \in Parked /\ row.changedAt <= e.at
                         /\ row # NoRow /\ row' # NoRow
  <2>1. CASE CanResume(e)
    <3>1. row.status \in Parked /\ row.changedAt <= e.at /\ row # NoRow
      BY <2>1 DEF CanResume, NoRow, Parked
    <3>2. row' = [row EXCEPT !.status = "RUNNING",
                             !.key = IF e.key > 0 THEN e.key ELSE row.key]
      BY <1>2, <2>1 DEF ResumeAttempt
    <3>3. row'.status = "RUNNING" /\ row'.version = row.version
      BY <3>2 DEF TypeOK, Row
    <3> QED
      BY <2>1, <3>1, <3>3 DEF NoRow
  <2>2. CASE ~CanResume(e)
    BY <1>2, <2>2 DEF ResumeAttempt
  <2> QED
    BY <2>1, <2>2
<1>4. RowExists'
  BY <1>1, <1>3, ApplyFacts DEF RowInv, RowExists
<1>5. ParkStamp'
  BY <1>3, ApplyFacts DEF RowInv, ParkStamp, Parked
<1>6. ClosedIsOver'
  BY <1>3, ApplyFacts DEF RowInv, ClosedIsOver, Terminal, Finished
<1>7. NoFalseRunning'
  <2>1. CASE CanResume(e)
    <3>1. \A p \in stored' : p.type = "parked" => p \in stored /\ p.at <= row.changedAt
      BY <1>3, <2>1, ApplyFacts DEF RowInv, ParkStamp
    <3>2. row.changedAt \in Nat
      BY AttemptAssumption DEF AttemptAssumption, TypeOK, Row
    <3>3. \A p \in stored' : p.type = "parked" => p.at < e.at
      BY <1>3, <2>1, <3>1, <3>2, ApplyFacts
    <3> QED
      BY <3>3, ApplyFacts DEF NoFalseRunning
  <2>2. CASE ~CanResume(e)
    BY <1>3, <2>2, ApplyFacts DEF RowInv, NoFalseRunning
  <2> QED
    BY <2>1, <2>2
<1>8. RowFollows'
  <2> SUFFICES ASSUME ~overtook', NEW w \in stored', NewestIn(stored', w)
               PROVE  Follows(w)'
    BY DEF RowFollows, NewestIn
  <2>1. ~overtook /\ w \in stored /\ NewestIn(stored, w)
    BY <1>1, ApplyFacts DEF TypeOK, NewestIn
  <2>2. Follows(w) /\ EventShapes /\ w \in emitted
    BY <2>1 DEF RowInv, RowFollows, RuntimeInv, TypeOK
  <2>3. CASE row.status \notin Parked
    BY <1>3, <2>2, <2>3, ApplyFacts DEF Follows, CanResume, EventShapes
  <2>4. CASE row.status \in Parked
    <3>1. /\ w.type = "parked" /\ row.status = w.status
          /\ row.changedAt = w.at /\ row.key = 0
          /\ \A r \in stored : Resumed(r) => r.at < w.at
      BY <2>2, <2>4 DEF Follows, EventShapes, Closed, Parked, Finished
    <3>2. w.at \in Nat /\ e.at \in Nat /\ w.at # e.at /\ e.key \in Nat
      BY <2>1, ApplyFacts, AttemptAssumption DEF AttemptAssumption, Event
    <3>3. CASE w.at < e.at
      <4>1. CanResume(e)
        BY <2>4, <3>1, <3>2, <3>3 DEF CanResume
      <4> QED
        BY <1>1, <1>3, <3>1, <3>3, <4>1, ApplyFacts DEF Follows
    <3>4. CASE e.at < w.at
      <4>1. ~CanResume(e)
        BY <3>1, <3>2, <3>4 DEF CanResume
      <4> QED
        BY <1>3, <3>1, <3>4, <4>1, ApplyFacts DEF Follows
    <3> QED
      BY <3>2, <3>3, <3>4
  <2> QED
    BY <2>3, <2>4
<1> QED
  BY <1>4, <1>5, <1>6, <1>7, <1>8, PrefixStep DEF RowInv

\* The invariant holds in every reachable state.
THEOREM Invariant == Spec => []AttemptInv
<1>1. Init => AttemptInv
  <2> SUFFICES ASSUME Init PROVE AttemptInv
    OBVIOUS
  <2>1. RuntimeInv
    BY DEF Init, RuntimeInv, DistinctTimes, EventShapes, VersionsInOrder,
       StartedFirst, FinishedLast, ActualIsLast, SomeNewest
  <2>2. RowInv
    BY DEF Init, NoRow, Parked, Terminal, Finished, RowInv, RowExists, ParkStamp,
       ClosedIsOver, NoFalseRunning, PrefixStored, RowFollows
  <2> QED
    BY <2>1, <2>2, TypeInit DEF AttemptInv
<1>2. AttemptInv /\ [Next]_vars => AttemptInv'
  <2> SUFFICES ASSUME AttemptInv, [Next]_vars PROVE AttemptInv'
    OBVIOUS
  <2>0. TypeOK /\ RuntimeInv /\ RowInv
    BY DEF AttemptInv
  <2>1. TypeOK' /\ RuntimeInv'
    BY <2>0, TypeStep, RuntimeStep
  <2>2. ASSUME NEW e \in emitted, ApplyEvent(e) PROVE RowInv'
    <3>1. e.type \in {"started", "parked", "resumed", "finished"}
      BY <2>0 DEF TypeOK, Event
    <3> QED
      BY <2>0, <2>2, <3>1, StartedProjects, ParkedProjects, FinishedProjects,
         ResumedProjects
  <2>3. ASSUME UNCHANGED vars PROVE RowInv'
    <3>1. RowExists' /\ ParkStamp' /\ ClosedIsOver' /\ NoFalseRunning'
      BY <2>0, <2>3 DEF vars, RowInv, RowExists, ParkStamp, ClosedIsOver,
         NoFalseRunning
    <3>2. PrefixStored' /\ RowFollows'
      BY <2>0, <2>3 DEF vars, RowInv, PrefixStored, NothingMissing, RowFollows,
         Follows, NewestIn
    <3> QED
      BY <3>1, <3>2 DEF RowInv
  <2>4. RowInv'
    BY <2>0, <2>2, <2>3, Emits, RowKeptByRuntime, RowKeptByClosing DEF Next
  <2> QED
    BY <2>1, <2>4 DEF AttemptInv
<1> QED
  BY <1>1, <1>2, PTL DEF Spec

\* The row says RUNNING only if something newer than every stored park said so.
THEOREM NoFalseRunningTheorem == Spec => []NoFalseRunning
<1>1. AttemptInv => NoFalseRunning
  BY DEF AttemptInv, RowInv
<1> QED
  BY <1>1, Invariant, PTL

\* Once every event is stored, and none before an older one of the workflow, the
\* row says what the attempt is doing.
THEOREM Convergence == Spec => []Converged
<1>1. AttemptInv => Converged
  <2> SUFFICES ASSUME AttemptInv, stored = emitted, ~overtook, actual # "GONE"
               PROVE  \/ row.status = actual
                      \/ actual \in Finished /\ row.status \in {"LOST", "ABORTED"}
    BY DEF Converged
  <2>0. TypeOK /\ RuntimeInv /\ RowInv
    BY DEF AttemptInv
  <2>1. CASE actual = "none"
    <3>1. emitted = {}
      BY <2>0, <2>1, AttemptAssumption DEF AttemptAssumption, TypeOK, Event,
         RuntimeInv, DistinctTimes, StartedFirst
    <3>2. row = NoRow
      BY <2>0, <3>1 DEF RowInv, RowExists
    <3> QED
      BY <2>1, <3>2 DEF NoRow
  <2>2. CASE actual # "none"
    <3>1. PICK w \in emitted : NewestIn(emitted, w)
      BY <2>0, <2>2 DEF RuntimeInv, SomeNewest
    <3>2. PICK a \in emitted : a.at = clock /\ a.status = actual
      BY <2>0, <2>2 DEF RuntimeInv, ActualIsLast
    <3>3. Follows(w)
      BY <2>0, <3>1 DEF RowInv, RowFollows
    <3>4. /\ a.at \in Nat /\ w.at \in Nat /\ w.at <= a.at
          /\ \A f \in emitted : f.at \in Nat /\ f.at <= a.at
          /\ ByWorkflow(w) /\ (w.at = a.at => w = a)
      BY <2>0, <3>1, <3>2, AttemptAssumption DEF AttemptAssumption, TypeOK, Event,
         RuntimeInv, DistinctTimes, NewestIn
    <3>5. CASE row.status \in Closed
      BY <2>0, <3>5 DEF RowInv, ClosedIsOver, Terminal, Finished, Closed
    <3>6. CASE ByWorkflow(a) /\ row.status \notin Closed
      <4>1. a = w
        BY <3>1, <3>4, <3>6 DEF NewestIn
      <4>2. w.type = "started" => w.status = "RUNNING"
        BY <2>0, <3>1 DEF RuntimeInv, EventShapes
      <4>3. ~(\E r \in stored : Resumed(r) /\ w.at < r.at)
        BY <3>4, <4>1
      <4> QED
        BY <3>2, <3>3, <3>6, <4>1, <4>2, <4>3 DEF Follows
    <3>7. CASE Resumed(a) /\ row.status \notin Closed
      <4>1. actual = "RUNNING" /\ a # w
        BY <2>0, <3>2, <3>4, <3>7 DEF RuntimeInv, EventShapes, Resumed, ByWorkflow
      <4>2. w.at < a.at
        BY <3>4, <4>1
      <4>3. w.type # "finished"
        BY <2>0, <3>1, <3>4, <4>2 DEF RuntimeInv, FinishedLast
      <4>4. ~(\A r \in stored : Resumed(r) => r.at < w.at)
        BY <3>4, <3>7, <4>2
      <4> QED
        BY <3>3, <3>7, <4>1, <4>3, <4>4 DEF Follows
    <3> QED
      BY <3>5, <3>6, <3>7 DEF Resumed, ByWorkflow
  <2> QED
    BY <2>1, <2>2
<1> QED
  BY <1>1, Invariant, PTL

-----------------------------------------------------------------------------
(* Approvals.                                                              *)

Requests == {e \in projected : e.type = "requested"}

\* A row is there only if a request is stored, and decisions meet a row only
\* then. A pending row is a request's and has met no decision.
RowRequested ==
  /\ approval.status = "none" => approval = NoApproval /\ offered = {}
  /\ approval.status # "none" => Requests # {}
  /\ approval.status = "PENDING" =>
       offered = {} /\ \E r \in Requests : approval.version = r.version

\* A decided row holds a decision it has met, and none of a higher version.
RowDecided ==
  approval.status \in Decisions =>
    \E e \in offered : /\ e.status = approval.status /\ e.version = approval.version
                       /\ \A f \in offered : f.version <= e.version

OfferedValid == \A e \in offered : Valid(e)

ListAgrees == Cardinality(Requests) <= 1 => pending = (approval.status = "PENDING")

ApprovalInv ==
  /\ ApprovalType /\ IsFiniteSet(projected)
  /\ RowRequested /\ RowDecided /\ OfferedValid /\ ListAgrees

\* The fields of an event.
LEMMA EventType ==
  ASSUME NEW e \in Events
  PROVE  e.type \in {"requested", "decided"} /\ e.version \in Nat
BY ApprovalAssumption DEF ApprovalAssumption

\* A row that is pending takes every valid decision.
LEMMA PendingDecides ==
  ASSUME ApprovalType, RowRequested, NEW e \in Events, Valid(e), approval.status = "PENDING"
  PROVE  Decides(e)
<1>1. approval # NoApproval
  BY DEF NoApproval
<1>2. CASE e.version > 0
  <2>1. PICK r \in Requests : approval.version = r.version
    BY DEF RowRequested
  <2>2. r.version < e.version
    BY <1>2, <2>1, RequestFirst DEF RequestFirst, Requests, ApprovalType, Valid
  <2> QED
    BY <1>1, <1>2, <2>1, <2>2 DEF Decides
<1>3. CASE ~(e.version > 0)
  BY <1>1, <1>3 DEF Decides
<1> QED
  BY <1>2, <1>3

-----------------------------------------------------------------------------
(* A request.                                                              *)

\* A second request is a second element of Requests.
LEMMA RequestedTwice ==
  ASSUME IsFiniteSet(projected), NEW e, e \notin projected, Requests # {}
  PROVE  Cardinality(Requests \cup {e}) > 1
<1>1. IsFiniteSet(Requests)
  BY FS_Subset DEF Requests
<1>2. e \notin Requests
  BY DEF Requests
<1>3. Cardinality(Requests) \in Nat /\ Cardinality(Requests) # 0
  BY <1>1, FS_CardinalityType, FS_EmptySet
<1>4. Cardinality(Requests \cup {e}) = Cardinality(Requests) + 1
  BY <1>1, <1>2, FS_AddElement
<1> QED
  BY <1>3, <1>4

\* A request makes the row if there is none, and the list follows.
LEMMA RequestStep ==
  ASSUME ApprovalInv, NEW e \in Events \ projected, projected' = projected \cup {e},
         ApprovalRequested(e)
  PROVE  ApprovalInv'
<1>1. /\ e.type = "requested" /\ e.version \in Nat /\ offered' = offered
      /\ pending' = TRUE /\ Requests' = Requests \cup {e}
  BY EventType DEF ApprovalRequested, Requests
<1>2. CASE approval = NoApproval
  <2>1. approval' = [status |-> "PENDING", version |-> e.version]
    BY <1>2 DEF ApprovalRequested, InsertApproval
  <2>2. approval.status = "none" /\ offered = {}
    BY <1>2 DEF NoApproval, ApprovalInv, RowRequested
  <2>3. ApprovalType' /\ IsFiniteSet(projected')
    BY <1>1, <2>1, FS_AddElement DEF ApprovalInv, ApprovalType
  <2>4. RowRequested' /\ RowDecided' /\ OfferedValid' /\ ListAgrees'
    BY <1>1, <2>1, <2>2 DEF RowRequested, RowDecided, OfferedValid, ListAgrees,
       Decisions
  <2> QED
    BY <2>3, <2>4 DEF ApprovalInv
<1>3. CASE approval # NoApproval
  <2>1. approval' = approval /\ approval.status # "none" /\ Requests # {}
    BY <1>3 DEF ApprovalRequested, InsertApproval, ApprovalInv, RowRequested
  <2>2. ApprovalType' /\ IsFiniteSet(projected')
    BY <1>1, <2>1, FS_AddElement DEF ApprovalInv, ApprovalType
  <2>3. RowRequested' /\ RowDecided' /\ OfferedValid'
    BY <1>1, <2>1 DEF ApprovalInv, RowRequested, RowDecided, OfferedValid
  <2>4. Cardinality(Requests') > 1
    BY <1>1, <2>1, RequestedTwice DEF ApprovalInv
  <2>5. Cardinality(Requests') \in Nat
    <3>1. IsFiniteSet(Requests)
      BY FS_Subset DEF ApprovalInv, Requests
    <3> QED
      BY <1>1, <3>1, FS_AddElement, FS_CardinalityType
  <2>6. ListAgrees'
    BY <2>4, <2>5 DEF ListAgrees
  <2> QED
    BY <2>2, <2>3, <2>6 DEF ApprovalInv
<1> QED
  BY <1>2, <1>3
-----------------------------------------------------------------------------
(* A decision.                                                             *)

\* A decision moves a pending row, or a decided one it is newer than.
LEMMA DecisionStep ==
  ASSUME ApprovalInv, NEW e \in Events \ projected, projected' = projected \cup {e},
         DecideApproval(e)
  PROVE  ApprovalInv'
<1>0. /\ e.type = "decided" /\ e.version \in Nat /\ e \in Events
      /\ Requests' = Requests /\ IsFiniteSet(projected')
  BY EventType, FS_AddElement DEF DecideApproval, Requests, ApprovalInv
<1>1. CASE ~Valid(e) \/ approval = NoApproval
  <2>1. approval' = approval /\ offered' = offered
    BY <1>1 DEF DecideApproval, Decides
  <2>2. pending' = (approval.status = "PENDING")
        \/ ~(Cardinality(Requests) <= 1)
    <3>1. CASE ~Valid(e)
      <4>1. pending' = pending
        BY <3>1 DEF DecideApproval, ApprovalInv, ApprovalType
      <4> QED
        BY <4>1 DEF ApprovalInv, ListAgrees
    <3>2. CASE Valid(e) /\ approval = NoApproval
      BY <3>2 DEF DecideApproval, NoApproval
    <3> QED
      BY <1>1, <3>1, <3>2
  <2>3. ApprovalType'
    <3>1. pending' \in BOOLEAN
      BY DEF DecideApproval
    <3> QED
      BY <1>0, <2>1, <3>1 DEF ApprovalInv, ApprovalType
  <2>4. RowRequested' /\ RowDecided' /\ OfferedValid' /\ ListAgrees'
    BY <1>0, <2>1, <2>2 DEF ApprovalInv, RowRequested, RowDecided, OfferedValid,
       ListAgrees
  <2> QED
    BY <1>0, <2>3, <2>4 DEF ApprovalInv
<1>2. CASE Valid(e) /\ approval # NoApproval
  <2>1. /\ e.status \in Decisions /\ offered' = offered \cup {e} /\ pending' = FALSE
        /\ approval.status # "none" /\ Requests # {}
    BY <1>2 DEF DecideApproval, Valid, ApprovalInv, RowRequested
  <2>2. /\ approval.version \in Nat
        /\ \A f \in offered : f.version \in Nat
        /\ approval.status \in {"PENDING"} \cup Decisions
    BY <2>1, EventType DEF ApprovalInv, ApprovalType
  <2>3. ApprovalType' /\ OfferedValid' /\ approval'.status \in Decisions /\ RowDecided'
    <3>1. CASE Decides(e)
      <4>1. approval' = [status |-> e.status, version |-> e.version]
        BY <1>2, <3>1 DEF DecideApproval
      <4>2. \A f \in offered : f.version <= e.version
        <5>1. CASE approval.status = "PENDING"
          BY <5>1 DEF ApprovalInv, RowRequested
        <5>2. CASE approval.status \in Decisions
          <6>1. approval.version < e.version
            BY <3>1, <5>2 DEF Decides, Decisions
          <6>2. \A f \in offered : f.version <= approval.version
            BY <5>2 DEF ApprovalInv, RowDecided
          <6> QED
            BY <1>0, <2>2, <6>1, <6>2
        <5> QED
          BY <2>2, <5>1, <5>2
      <4>3. RowDecided'
        BY <1>0, <2>1, <4>1, <4>2 DEF RowDecided
      <4> QED
        BY <1>0, <1>2, <2>1, <4>1, <4>3 DEF ApprovalInv, ApprovalType, OfferedValid, Valid
    <3>2. CASE ~Decides(e)
      <4>1. approval' = approval
        BY <3>2 DEF DecideApproval
      <4>2. approval.status \in Decisions
        BY <1>2, <2>2, <3>2, PendingDecides DEF ApprovalInv
      <4>3. e.version <= approval.version
        BY <1>0, <1>2, <2>2, <3>2 DEF Decides
      <4>4. RowDecided'
        BY <2>1, <4>1, <4>2, <4>3 DEF ApprovalInv, RowDecided
      <4> QED
        BY <1>0, <1>2, <2>1, <4>1, <4>2, <4>4 DEF ApprovalInv, ApprovalType,
           OfferedValid, Valid
    <3> QED
      BY <3>1, <3>2
  <2>4. RowRequested' /\ ListAgrees'
    BY <1>0, <2>1, <2>3 DEF RowRequested, ListAgrees, Decisions
  <2> QED
    BY <1>0, <2>3, <2>4 DEF ApprovalInv
<1> QED
  BY <1>1, <1>2

-----------------------------------------------------------------------------
(* The theorems.                                                           *)

\* The invariant holds in every reachable state.
THEOREM ApprovalInvariant == ApprovalSpec => []ApprovalInv
<1>1. ApprovalInit => ApprovalInv
  <2> SUFFICES ASSUME ApprovalInit PROVE ApprovalInv
    OBVIOUS
  <2>1. ApprovalType /\ IsFiniteSet(projected)
    BY FS_EmptySet DEF ApprovalInit, NoApproval, ApprovalType
  <2>2. RowRequested /\ RowDecided /\ OfferedValid /\ ListAgrees
    BY DEF ApprovalInit, NoApproval, RowRequested, RowDecided, OfferedValid, ListAgrees, Decisions
  <2> QED
    BY <2>1, <2>2 DEF ApprovalInv
<1>2. ApprovalInv /\ [ApprovalNext]_approvalVars => ApprovalInv'
  <2> SUFFICES ASSUME ApprovalInv, [ApprovalNext]_approvalVars PROVE ApprovalInv'
    OBVIOUS
  <2>1. ASSUME NEW e \in Events, ApplyApproval(e) PROVE ApprovalInv'
    BY <2>1, RequestStep, DecisionStep DEF ApplyApproval
  <2>2. CASE UNCHANGED approvalVars
    BY <2>2 DEF approvalVars, ApprovalInv, ApprovalType, Requests, RowRequested, RowDecided,
       OfferedValid, ListAgrees
  <2> QED
    BY <2>1, <2>2 DEF ApprovalNext
<1> QED
  BY <1>1, <1>2, PTL DEF ApprovalSpec

\* Type correctness of the projection, for any set of events.
THEOREM ApprovalTypeCorrect == ApprovalSpec => []ApprovalType
<1>1. ApprovalInv => ApprovalType
  BY DEF ApprovalInv
<1> QED
  BY <1>1, ApprovalInvariant, PTL

\* The pending list and the table agree while the approval is requested once.
THEOREM Agreement == ApprovalSpec => []AgreeIfAskedOnce
<1>1. ApprovalInv => AgreeIfAskedOnce
  BY DEF ApprovalInv, ListAgrees, Requests, AgreeIfAskedOnce
<1> QED
  BY <1>1, ApprovalInvariant, PTL

\* In whatever order decisions and repeated requests are projected, the row ends
\* up with the decision of the highest version.
THEOREM LatestDecisionTheorem == ApprovalSpec => []LatestDecision
<1>1. ApprovalInv => LatestDecision
  <2> SUFFICES ASSUME ApprovalInv PROVE LatestDecision
    OBVIOUS
  <2> DEFINE versioned == {e \in offered : e.version > 0}
             versions == {f.version : f \in versioned}
  <2>0. /\ \A e \in offered : e.version \in Nat
        /\ approval.status \in {"none", "PENDING"} \cup Decisions
    BY EventType DEF ApprovalInv, ApprovalType
  <2>1. CASE approval.status \in {"none", "PENDING"}
    <3>1. offered = {}
      BY <2>1 DEF ApprovalInv, RowRequested
    <3> QED
      BY <2>1, <3>1 DEF LatestDecision
  <2>2. CASE approval.status \in Decisions
    <3>1. PICK e \in offered : /\ e.status = approval.status
                               /\ \A f \in offered : f.version <= e.version
      BY <2>2 DEF ApprovalInv, RowDecided
    <3>2. CASE versioned # {}
      <4>1. e \in versioned
        BY <2>0, <3>1, <3>2
      <4>2. /\ e.version \in versions
            /\ \A v \in versions : v \in Nat /\ e.version >= v
        BY <2>0, <3>1, <4>1
      <4>3. e.version = Max(versions)
        <5>1. \A x \in versions : (\A y \in versions : x >= y) => x = e.version
          BY <2>0, <4>2
        <5> HIDE DEF versions
        <5> QED
          BY <4>2, <5>1 DEF Max
      <4> QED
        BY <3>1, <3>2, <4>1, <4>3 DEF LatestDecision
    <3>3. CASE versioned = {}
      BY <3>1, <3>3 DEF LatestDecision
    <3> QED
      BY <3>2, <3>3
  <2> QED
    BY <2>0, <2>1, <2>2
<1> QED
  BY <1>1, ApprovalInvariant, PTL
=============================================================================
