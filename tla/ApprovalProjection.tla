------------------------- MODULE ApprovalProjection -------------------------
(***************************************************************************)
(* One approval as applyEvent projects it: its task_approvals row          *)
(* (internal/store/pgstore/task_approvals.go) and its place in the task's  *)
(* pending_approvals (updateTaskAccumulators,                              *)
(* internal/store/pgstore/task_events.go). Both change in the transaction  *)
(* that stores the event. The events may be stored in any order: a control *)
(* that has restarted remembers no versions.                               *)
(***************************************************************************)
EXTENDS Naturals, FiniteSets, FiniteSetsExt

CONSTANT Events   \* the approval's events, by event id

Decisions == {"APPROVED", "REJECTED", "CANCELLED", "TAKEN_OVER"}

\* type requested or decided; a decision may carry a status that is none.
ASSUME ApprovalAssumption ==
    \A e \in Events :
        /\ e.type \in {"requested", "decided"}
        /\ e.version \in Nat

\* The request is the first version of the approval: a decision that carries a
\* version carries a later one.
ASSUME RequestFirst ==
    \A r, d \in Events :
        (r.type = "requested" /\ d.type = "decided" /\ d.version > 0)
            => r.version < d.version

VARIABLES
    projected,  \* events in task_events
    approval,   \* its row in task_approvals
    pending,    \* the approval is in tasks.pending_approvals
    offered     \* decisions that were projected when the row was there

approvalVars == <<projected, approval, pending, offered>>

NoApproval == [status |-> "none", version |-> 0]

ApprovalInit ==
    /\ projected = {}
    /\ approval = NoApproval
    /\ pending = FALSE
    /\ offered = {}

\* Mutation of InsertApproval: a second request writes the row again.
InsertAgain(e) == approval' = [status |-> "PENDING", version |-> e.version]

\* ON CONFLICT DO NOTHING.
InsertApproval(e) ==
    approval' = IF approval = NoApproval
                  THEN [status |-> "PENDING", version |-> e.version]
                  ELSE approval

ApprovalRequested(e) ==
    /\ e.type = "requested"
    /\ InsertApproval(e)
    /\ pending' = TRUE
    /\ UNCHANGED offered

\* Mutation of Valid: any status is a decision.
ValidAny(e) == e.type = "decided"

\* approvalDecisions.
Valid(e) == e.type = "decided" /\ e.status \in Decisions

\* The WHERE of decideApproval.
Decides(e) ==
    /\ approval # NoApproval
    /\ IF e.version > 0 THEN approval.version < e.version ELSE approval.status = "PENDING"

\* Mutation of DecideApproval: the list drops the approval on any status.
DecideAndDrop(e) ==
    /\ e.type = "decided"
    /\ approval' = IF Valid(e) /\ Decides(e)
                     THEN [status |-> e.status, version |-> e.version] ELSE approval
    /\ pending' = FALSE
    /\ offered' = IF Valid(e) /\ approval # NoApproval THEN offered \cup {e} ELSE offered

\* approval.decided: the row, then the pending list.
DecideApproval(e) ==
    /\ e.type = "decided"
    /\ approval' = IF Valid(e) /\ Decides(e)
                     THEN [status |-> e.status, version |-> e.version] ELSE approval
    /\ pending' = (pending /\ ~Valid(e))
    /\ offered' = IF Valid(e) /\ approval # NoApproval THEN offered \cup {e} ELSE offered

ApplyApproval(e) ==
    /\ e \in Events \ projected
    /\ projected' = projected \cup {e}
    /\ ApprovalRequested(e) \/ DecideApproval(e)

ApprovalNext == \E e \in Events : ApplyApproval(e)

ApprovalSpec == ApprovalInit /\ [][ApprovalNext]_approvalVars

-----------------------------------------------------------------------------
(* Properties.                                                             *)

\* Every variable keeps its type.
ApprovalType ==
    /\ projected \subseteq Events /\ offered \subseteq projected
    /\ approval.status \in {"none", "PENDING"} \cup Decisions
    /\ approval.version \in Nat
    /\ pending \in BOOLEAN

\* FM-93: in whatever order decisions and repeated requests are projected onto
\* a request, the row ends up with the decision of the highest version, and a
\* decision without a version only fills in where there is none.
LatestDecision ==
    LET versioned == {e \in offered : e.version > 0}
    IN CASE versioned # {} ->
              \E e \in versioned :
                  /\ e.version = Max({f.version : f \in versioned})
                  /\ approval.status = e.status
         [] versioned = {} /\ offered # {} ->
              \E e \in offered : approval.status = e.status
         [] OTHER -> approval.status \in {"none", "PENDING"}

\* The task's pending list and the approvals table agree after every event, as
\* long as the approval is requested once, in whatever order its decisions come.
AgreeIfAskedOnce ==
    Cardinality({e \in projected : e.type = "requested"}) <= 1
        => pending = (approval.status = "PENDING")

\* task_events.go:202: only a decision the approvals table would take leaves the
\* pending list, so the two agree. (With an approval requested twice they do
\* not: see the README.)
ListsAgree == pending = (approval.status = "PENDING")

\* task_approvals.go:38: a request whose decision was projected first is left
\* alone. (It is not: the decision found no row, see the README.)
DecisionFirstKept ==
    (\E e \in projected : Valid(e)) => approval.status # "PENDING"
=============================================================================
