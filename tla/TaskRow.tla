------------------------------ MODULE TaskRow ------------------------------
(***************************************************************************)
(* The row of a task and the rows of its nodes, as its durable events      *)
(* (internal/store/pgstore/task_events.go, task_structure.go), a delete    *)
(* (internal/task/tasks.go) and the repair from the workflow's own view    *)
(* (internal/task/reconcile.go) change them.                               *)
(*                                                                         *)
(* The events of the task reach the row in the order of the log, and       *)
(* sometimes again. The usage, budget and approval events read three       *)
(* columns and write them back in one transaction, which a repair does not *)
(* wait for. The events of a node are taken in any order.                  *)
(***************************************************************************)
EXTENDS Naturals, Sequences

CONSTANTS
    None,         \* no value
    Approvals,    \* approval ids
    Statuses,     \* what task.status_changed may say
    NodeEvents,   \* node.status_changed events of one node, in any order:
                  \* [version, at, status, title], version 0 being none
    MaxEvents,    \* bound on what the workflow emits
    MaxSkips,     \* bound on payloads a projection table cannot hold
    MaxRepairs    \* bound on calls of Reconcile

\* What the columns of a task, and of a node, hold.
States == [status : Statuses \cup {"CREATED"}, plan : Nat, budget : Nat, usage : Nat,
           pending : SUBSET Approvals]

Rows == [status : Statuses \cup {"CREATED"}, plan : Nat, budget : Nat, usage : Nat,
         pending : SUBSET Approvals, deleted : BOOLEAN]

NodeRows == [version : Nat, at : Nat, status : {e.status : e \in NodeEvents},
             title : {e.title : e \in NodeEvents}]

\* A row that is there is no missing row.
ASSUME TaskRowAssumption ==
    /\ NodeEvents \subseteq NodeRows
    /\ None \notin States \cup Rows \cup NodeRows

VARIABLES
    wf,        \* the workflow's own state, None if it never started
    log,       \* the task's events, in the order they are projected
    stored,    \* how many of them are in task_events
    row,       \* the task's row, None before CreateTask
    history,   \* keys of plan_versions, task_messages and artifact_manifests
    applying,  \* the event whose columns were read, and what they held
    rec,       \* a Reconcile call
    node,      \* the node's row
    nodeSeen,  \* node events that were projected
    skips,     \* events that were stored and not projected
    repairs,   \* calls of Reconcile so far
    clean      \* nothing happened that only a repair can mend

rowVars  == <<row, history, applying, stored, skips>>
nodeVars == <<node, nodeSeen>>
vars == <<wf, log, rowVars, rec, nodeVars, repairs, clean>>

Columns(r) == [status |-> r.status, plan |-> r.plan, budget |-> r.budget,
               usage |-> r.usage, pending |-> r.pending]

Row(c, deleted) == [status |-> c.status, plan |-> c.plan, budget |-> c.budget,
                    usage |-> c.usage, pending |-> c.pending, deleted |-> deleted]

Fresh == [status |-> "CREATED", plan |-> 1, budget |-> 0, usage |-> 0, pending |-> {}]

Init ==
    /\ wf = None /\ log = << >> /\ stored = 0
    /\ row = None /\ history = {} /\ applying = None
    /\ rec = None /\ node = None /\ nodeSeen = {}
    /\ skips = 0 /\ repairs = 0 /\ clean = TRUE

-----------------------------------------------------------------------------
(* The task and its workflow.                                              *)

\* StartTask: the workflow runs with the plan of its input, or could not be started.
StartTask == {Fresh, None}

\* Create: the row is stored first; a workflow that cannot be started leaves it.
CreateTask ==
    /\ row = None
    /\ row' = Row(Fresh, FALSE)
    /\ wf' \in StartTask
    /\ UNCHANGED <<log, history, applying, stored, skips, rec, nodeVars, repairs, clean>>

\* Events the workflow may emit now, and what it holds once it did.
Emissions ==
    {[type |-> "status", to |-> s] : s \in Statuses}
      \cup {[type |-> "plan", to |-> wf.plan + 1], [type |-> "usage"], [type |-> "budget"]}
      \cup {[type |-> "message", to |-> Len(log) + 1]}
      \cup {[type |-> "requested", id |-> a] : a \in Approvals \ wf.pending}
      \cup {[type |-> "decided", id |-> a] : a \in wf.pending}

\* What an event stands for: the change of the columns.
Effect(c, e) ==
    [c EXCEPT !.status = IF e.type = "status" THEN e.to ELSE @,
              !.plan = IF e.type = "plan" THEN e.to ELSE @,
              !.usage = IF e.type = "usage" THEN @ + 1 ELSE @,
              !.budget = IF e.type = "budget" THEN @ + 1 ELSE @,
              !.pending = IF e.type = "requested" THEN @ \cup {e.id}
                          ELSE IF e.type = "decided" THEN @ \ {e.id} ELSE @]

WorkflowEmits(e) ==
    /\ wf # None /\ Len(log) < MaxEvents
    /\ wf' = Effect(wf, e)
    /\ log' = Append(log, e)
    /\ UNCHANGED <<rowVars, rec, nodeVars, repairs, clean>>

\* Delete hides the row, which events still reach. The cancel it sends in the
\* background is a status the workflow may come to, or not if the cancel is lost.
DeleteTask ==
    /\ row # None /\ ~row.deleted
    /\ row' = [row EXCEPT !.deleted = TRUE]
    /\ UNCHANGED <<wf, log, history, applying, stored, skips, rec, nodeVars, repairs, clean>>

-----------------------------------------------------------------------------
(* Projecting the task's events.                                           *)

\* Mutation of IsStored: the event id is not looked up.
IsStoredNever(i) == i > stored + 1

\* AppendTaskEvent: an event whose id is in task_events is not applied again.
IsStored(i) == i <= stored

\* The event at i is the next one, or one that is delivered again.
Deliverable(i) ==
    /\ row # None /\ applying = None
    /\ i \in 1 .. stored + 1 /\ i \in DOMAIN log
    /\ ~IsStored(i)

Accumulates(e) == e.type \in {"usage", "budget", "requested", "decided"}

\* Rows that are inserted, and never changed: a plan version, a message or a manifest.
InsertOnce(e) ==
    history' = history \cup IF e.type \in {"plan", "message"} THEN {<<e.type, e.to>>} ELSE {}

\* applyEvent of the events that only set columns. plan_version never goes back.
ApplyEvent(i) ==
    /\ Deliverable(i) /\ ~Accumulates(log[i])
    /\ stored' = i
    /\ row' = IF log[i].type = "plan" /\ log[i].to <= row.plan THEN row
              ELSE Row(Effect(Columns(row), log[i]), row.deleted)
    /\ InsertOnce(log[i])
    /\ UNCHANGED <<wf, log, applying, skips, rec, nodeVars, repairs, clean>>

\* updateTaskAccumulators reads budgets, usage and pending approvals ...
ReadColumns(i) ==
    /\ Deliverable(i) /\ Accumulates(log[i])
    /\ applying' = [i |-> i, read |-> Columns(row)]
    /\ UNCHANGED <<wf, log, row, history, stored, skips, rec, nodeVars, repairs, clean>>

\* ... and writes the three of them back with the event folded in.
WriteColumns ==
    /\ applying # None
    /\ LET c == Effect(applying.read, log[applying.i])
       IN row' = [row EXCEPT !.budget = c.budget, !.usage = c.usage, !.pending = c.pending]
    /\ stored' = applying.i /\ applying' = None
    /\ UNCHANGED <<wf, log, history, skips, rec, nodeVars, repairs, clean>>

\* The connection is lost before the commit: the transaction is undone.
AbortApply ==
    /\ applying # None
    /\ applying' = None
    /\ UNCHANGED <<wf, log, row, history, stored, skips, rec, nodeVars, repairs, clean>>

\* A payload a table cannot hold: the event is stored, its changes are undone.
SkipEvent(i) ==
    /\ Deliverable(i) /\ skips < MaxSkips
    /\ stored' = i /\ skips' = skips + 1 /\ clean' = FALSE
    /\ UNCHANGED <<wf, log, row, history, applying, rec, nodeVars, repairs>>

-----------------------------------------------------------------------------
(* Projecting the node's events.                                           *)

\* Mutation of NewerThanRow: an event of the same or an older version passes.
NewerThanRowAny(e) == TRUE

\* projectNodeStatus: by version, or by time when the event has none.
NewerThanRow(e) ==
    IF e.version > 0 THEN node.version < e.version ELSE node.at <= e.at

\* Mutation of NodeColumns: a fact the event lacks is written too.
NodeColumnsAll(e) == [status |-> e.status, version |-> e.version, at |-> e.at, title |-> e.title]

\* Only the columns the event names are set; the version is set even if it is 0.
NodeColumns(e) ==
    [status |-> e.status, version |-> e.version, at |-> e.at,
     title |-> IF e.title = None /\ node # None THEN node.title ELSE e.title]

ProjectNodeStatus(e) ==
    /\ row # None /\ e \notin nodeSeen
    /\ node' = IF node = None \/ NewerThanRow(e) THEN NodeColumns(e) ELSE node
    /\ nodeSeen' = nodeSeen \cup {e}
    /\ UNCHANGED <<wf, log, rowVars, rec, repairs, clean>>

-----------------------------------------------------------------------------
(* Reconcile.                                                              *)

\* The projected task; a deleted one is not found.
ReconcileReads ==
    /\ rec = None /\ repairs < MaxRepairs
    /\ row # None /\ ~row.deleted
    /\ rec' = [projected |-> Columns(row), view |-> None]
    /\ repairs' = repairs + 1
    /\ UNCHANGED <<wf, log, rowVars, nodeVars, clean>>

\* The workflow's view, or an error when there is no workflow.
ReconcileQueries ==
    /\ rec # None /\ rec.view = None
    /\ rec' = IF wf = None THEN None ELSE [rec EXCEPT !.view = wf]
    /\ UNCHANGED <<wf, log, rowVars, nodeVars, repairs, clean>>

\* UpdateTask writes the view over the row, whatever the row holds by now.
UpdateTask(v) == Row(v, row.deleted)

\* Nothing is on its way to the row, and the view is the workflow's state.
Quiet == stored = Len(log) /\ applying = None /\ rec.view = wf

ReconcileRepairs ==
    /\ rec # None /\ rec.view # None
    /\ \/ UNCHANGED <<row, clean>>                  \* healthy, or only asked for the report
       \/ /\ rec.projected # rec.view
          /\ row' = UpdateTask(rec.view)
          /\ clean' = Quiet
    /\ rec' = None
    /\ UNCHANGED <<wf, log, history, applying, stored, skips, nodeVars, repairs>>

Next ==
    \/ CreateTask \/ DeleteTask
    \/ wf # None /\ \E e \in Emissions : WorkflowEmits(e)
    \/ \E i \in DOMAIN log : ApplyEvent(i) \/ ReadColumns(i) \/ SkipEvent(i)
    \/ WriteColumns \/ AbortApply
    \/ \E e \in NodeEvents : ProjectNodeStatus(e)
    \/ ReconcileReads \/ ReconcileQueries \/ ReconcileRepairs

Spec == Init /\ [][Next]_vars

-----------------------------------------------------------------------------
(* Properties.                                                             *)

\* Once every event is projected the row says what the workflow says, usage and
\* budget to the unit, unless an event was skipped or a repair met an event on
\* its way (Reconcile); a repair that met none mends what they left, except for
\* the rows of the history, which are complete if no event was skipped.
Converged ==
    (row # None /\ wf # None /\ stored = Len(log) /\ applying = None)
        => /\ clean => Columns(row) = wf
           /\ skips = 0 => /\ \A p \in 2 .. wf.plan : <<"plan", p>> \in history
                           /\ \A i \in DOMAIN log :
                                log[i].type = "message" => <<"message", i>> \in history

\* The node's row holds the status of the newest version that was projected, in
\* whatever order they came, as long as every event has a version.
NodeLatest ==
    (nodeSeen # {} /\ \A e \in nodeSeen : e.version > 0)
        => \E e \in nodeSeen : /\ node.status = e.status /\ node.version = e.version
                               /\ \A f \in nodeSeen : f.version <= e.version

\* What is known of a node is never blanked by an event that does not name it.
NodeFactsKept == [][node # None /\ node.title # None => node'.title # None]_vars
=============================================================================
