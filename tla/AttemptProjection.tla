------------------------- MODULE AttemptProjection -------------------------
(***************************************************************************)
(* The stage_attempts row of one attempt, as applyEvent projects it from   *)
(* durable events (internal/store/pgstore/task_structure.go).              *)
(*                                                                         *)
(* Two writers report on an attempt. The workflow's events (started,       *)
(* parked, finished) carry the versions of the attempt's entity; the       *)
(* worker's resumed has none and is ordered by its time and by the pair    *)
(* (activity_attempt, state_version). The projector stores the workflow's  *)
(* events in the order of their versions (Projector!EntityOrder), some may *)
(* be missing, and the worker's come at any point between them. The        *)
(* worker's maintenance closes the row of an attempt whose workflow is     *)
(* gone.                                                                   *)
(***************************************************************************)
EXTENDS Naturals

CONSTANT MaxClock  \* bound on the events of the attempt

ASSUME AttemptAssumption == MaxClock \in Nat

VARIABLES
    clock,    \* time of the last event, which also identifies it
    version,  \* version of the attempt's entity in the workflow
    tries,    \* activity_attempt since the last park
    actual,   \* what the attempt is doing
    emitted,  \* events written to the outbox
    stored,   \* events in task_events
    overtook, \* an event was stored before an older one of the workflow
    row       \* the projected row

vars == <<clock, version, tries, actual, emitted, stored, overtook, row>>

Parked == {"PARKED_HITL", "PARKED_INPUT"}

Finished == {"ACCEPTED", "REJECTED", "ABORTED"}

\* terminalAttemptStatuses.
Terminal == Finished \cup {"LOST"}

\* status is what the event moves the attempt to; key is the worker's pair, of
\* which only activity_attempt varies here; full: the event names the attempt's
\* number and profile, so that a row can be made from it.
Event == [type    : {"started", "parked", "resumed", "finished"},
          status  : {"RUNNING"} \cup Parked \cup Finished,
          version : 0 .. MaxClock,
          at      : 1 .. MaxClock,
          key     : 0 .. MaxClock,
          full    : BOOLEAN]

Row == [status    : {"none", "RUNNING"} \cup Parked \cup Terminal,
        version   : 0 .. MaxClock,
        changedAt : 0 .. MaxClock,
        key       : 0 .. MaxClock]

NoRow == [status |-> "none", version |-> 0, changedAt |-> 0, key |-> 0]

Init ==
    /\ clock = 0 /\ version = 0 /\ tries = 0
    /\ actual = "none"
    /\ emitted = {} /\ stored = {} /\ overtook = FALSE
    /\ row = NoRow

-----------------------------------------------------------------------------
(* The runtime (external).                                                 *)

Emit(type, status, v, key, full) ==
    /\ clock < MaxClock
    /\ clock' = clock + 1
    /\ emitted' = emitted \cup
         {[type |-> type, status |-> status, version |-> v, at |-> clock + 1,
           key |-> key, full |-> full]}
    /\ actual' = status
    /\ UNCHANGED <<stored, overtook, row>>

WorkflowStarts ==
    /\ actual = "none"
    /\ version' = version + 1
    /\ tries' = 0
    /\ Emit("started", "RUNNING", version + 1, 0, TRUE)

WorkflowParks(status) ==
    /\ actual = "RUNNING"
    /\ version' = version + 1
    /\ tries' = 0
    /\ Emit("parked", status, version + 1, 0, FALSE)

WorkflowFinishes(status, full) ==
    /\ actual \in {"RUNNING"} \cup Parked
    /\ version' = version + 1
    /\ UNCHANGED tries
    /\ Emit("finished", status, version + 1, 0, full)

\* The activity that resumes the attempt, or a retry of it. An old worker
\* sends no activity_attempt.
WorkerResumes(old) ==
    /\ actual \in {"RUNNING"} \cup Parked
    /\ tries' = tries + 1
    /\ UNCHANGED version
    /\ Emit("resumed", "RUNNING", 0, IF old THEN 0 ELSE tries + 1, FALSE)

WorkflowDies ==
    /\ actual \in {"RUNNING"} \cup Parked
    /\ actual' = "GONE"
    /\ UNCHANGED <<clock, version, tries, emitted, stored, overtook, row>>

\* cleanup_attempts: the attempt's workflow no longer exists.
MaintenanceCloses(status) ==
    /\ actual \in Finished \cup {"GONE"}
    /\ row.status \in {"RUNNING"} \cup Parked
    /\ row' = [row EXCEPT !.status = status]
    /\ UNCHANGED <<clock, version, tries, actual, emitted, stored, overtook>>

-----------------------------------------------------------------------------
(* The projection of one event.                                            *)

\* Mutation of NewRow: the row takes the type of the event for its status.
NewRowOfType(e) ==
    [status |-> e.type, version |-> e.version, changedAt |-> e.at, key |-> 0]

NewRow(e) ==
    [status |-> e.status, version |-> e.version, changedAt |-> e.at, key |-> 0]

\* createAttempt: ON CONFLICT DO NOTHING.
CreateAttempt(e) == IF row = NoRow THEN NewRow(e) ELSE row

\* Mutation of CanMove: the status of the row is not looked at.
CanMoveAny(e) ==
    /\ row # NoRow
    /\ e.version > 0 => row.version < e.version

\* The WHERE of moveAttempt.
CanMove(e) ==
    /\ row # NoRow
    /\ row.status \notin Terminal
    /\ e.version > 0 => row.version < e.version

\* attempt.parked stamps the row and clears the resumed key.
ParkAttempt(e) == IF CanMove(e) THEN NewRow(e) ELSE row

\* attempt.finished keeps the key, and makes the row if started was missed.
FinishAttempt(e) ==
    CASE CanMove(e) -> [NewRow(e) EXCEPT !.key = row.key]
      [] ~CanMove(e) /\ e.full -> CreateAttempt(e)
      [] OTHER -> row

\* Mutation of CanResume: the time of the last park is not compared.
CanResumeLate(e) ==
    /\ row.status \in Parked
    /\ e.key > 0 => row.key < e.key

\* The WHERE of resumeAttempt. (Nothing projects the status STARTING.)
CanResume(e) ==
    /\ row.status \in Parked
    /\ row.changedAt <= e.at
    /\ e.key > 0 => row.key < e.key

\* Mutation of ResumeAttempt: the worker's event moves the entity's version.
ResumeWithVersion(e) ==
    IF CanResume(e)
      THEN [row EXCEPT !.status = "RUNNING", !.version = @ + 1]
      ELSE row

ResumeAttempt(e) ==
    IF CanResume(e)
      THEN [row EXCEPT !.status = "RUNNING",
                       !.key = IF e.key > 0 THEN e.key ELSE @]
      ELSE row

Projected(e) ==
    CASE e.type = "started"  -> CreateAttempt(e)
      [] e.type = "parked"   -> ParkAttempt(e)
      [] e.type = "resumed"  -> ResumeAttempt(e)
      [] e.type = "finished" -> FinishAttempt(e)

ByWorkflow(e) == e.type # "resumed"

InOrder(e) == \A f \in stored : (ByWorkflow(e) /\ ByWorkflow(f)) => f.at < e.at

NothingMissing(e) == \A f \in emitted : (ByWorkflow(f) /\ f.at < e.at) => f \in stored

ApplyEvent(e) ==
    /\ e \in emitted \ stored
    /\ InOrder(e)
    /\ stored' = stored \cup {e}
    /\ overtook' = (overtook \/ ~NothingMissing(e))
    /\ row' = Projected(e)
    /\ UNCHANGED <<clock, version, tries, actual, emitted>>

Next ==
    \/ WorkflowStarts \/ WorkflowDies
    \/ \E s \in Parked : WorkflowParks(s)
    \/ \E s \in Finished, full \in BOOLEAN : WorkflowFinishes(s, full)
    \/ \E old \in BOOLEAN : WorkerResumes(old)
    \/ \E s \in {"LOST", "ABORTED"} : MaintenanceCloses(s)
    \/ \E e \in emitted : ApplyEvent(e)

Spec == Init /\ [][Next]_vars

-----------------------------------------------------------------------------
(* Properties.                                                             *)

\* Every variable keeps its type.
TypeOK ==
    /\ clock \in 0 .. MaxClock /\ version \in 0 .. clock /\ tries \in 0 .. clock
    /\ actual \in {"none", "RUNNING", "GONE"} \cup Parked \cup Finished
    /\ emitted \subseteq Event /\ stored \subseteq emitted
    /\ overtook \in BOOLEAN
    /\ row \in Row

\* FM-98: no event, however late, changes a row that a finish or the
\* maintenance has closed.
TerminalForever == [][row.status \in Terminal => row' = row]_vars

\* FM-100: the row says RUNNING only if something newer than every stored park
\* said so, whatever order the two writers' events were stored in.
NoFalseRunning ==
    row.status = "RUNNING" =>
        \A p \in stored :
            p.type = "parked" =>
                \E r \in stored : r.type = "resumed" /\ p.at < r.at

\* Once every event is stored, and none before an older one of the workflow, the
\* row says what the attempt is doing, however late and in whatever order the
\* worker's events came, except that the maintenance may have closed it before
\* its finish was projected.
Converged ==
    (stored = emitted /\ ~overtook /\ actual # "GONE") =>
        \/ row.status = actual
        \/ actual \in Finished /\ row.status \in {"LOST", "ABORTED"}
=============================================================================
