--------------------------- MODULE TaskRowProofs ---------------------------
(***************************************************************************)
(* Proofs about TaskRow, for any number of events, skips and repairs: the  *)
(* node's row holds the newest version and loses no fact, and the task's   *)
(* row comes to what the workflow holds.                                   *)
(***************************************************************************)
EXTENDS TaskRow, TLAPS

\* The node has a row once an event of it was projected, and not before.
NodeInv ==
    /\ nodeSeen \subseteq NodeEvents
    /\ node = None <=> nodeSeen = {}
    /\ node # None => node \in NodeRows
    /\ NodeLatest

-----------------------------------------------------------------------------
(* The task: S[k] is what the workflow held after its first k events.      *)

Events ==
    [type : {"status"}, to : Statuses]
      \cup [type : {"plan", "message"}, to : Nat]
      \cup [type : {"usage", "budget"}]
      \cup [type : {"requested", "decided"}, id : Approvals]

\* Every event changes the columns of the state before it by its Effect.
Chain(S) ==
    /\ S \in [0 .. Len(log) -> States]
    /\ S[0] = Fresh
    /\ \A k \in 1 .. Len(log) : S[k] = Effect(S[k - 1], log[k])
    /\ \A k \in 1 .. Len(log) : log[k].type = "plan" => log[k].to = S[k - 1].plan + 1
    /\ wf # None => wf = S[Len(log)]

\* While nothing was lost, the row is the state after the stored events.
RowFollows(S) == row # None /\ clean => Columns(row) = S[stored]

TypeInv ==
    /\ log \in Seq(Events)
    /\ stored \in 0 .. Len(log)
    /\ skips \in Nat /\ clean \in BOOLEAN
    /\ wf # None => wf \in States
    /\ row # None => row \in Rows
    /\ row = None => wf = None /\ applying = None /\ rec = None
    /\ wf = None => log = << >>
    /\ rec # None => rec \in [projected : States, view : States \cup {None}]

\* An event whose columns were read is the next one, and if nothing was lost
\* the row still holds what was read.
ApplyingInv ==
    applying # None =>
        /\ applying \in [i : Nat, read : States]
        /\ applying.i = stored + 1 /\ applying.i \in 1 .. Len(log)
        /\ Accumulates(log[applying.i])
        /\ clean => applying.read = Columns(row)

\* The rows that are only inserted.
HistoryInv ==
    /\ \A k \in 1 .. Len(log) : log[k].type = "message" => log[k].to = k
    /\ wf # None =>
         \A p \in 2 .. wf.plan :
            \E k \in 1 .. Len(log) : log[k].type = "plan" /\ log[k].to = p
    /\ skips = 0 =>
         \A k \in 1 .. stored :
            log[k].type \in {"plan", "message"} => <<log[k].type, log[k].to>> \in history

TaskInv ==
    /\ TypeInv /\ ApplyingInv /\ HistoryInv
    /\ \E S : Chain(S) /\ RowFollows(S)
-----------------------------------------------------------------------------
(* The node's row.                                                         *)

LEMMA NodeColumnsType ==
  ASSUME NEW e \in NodeEvents, node # None => node \in NodeRows
  PROVE  NodeColumns(e) \in NodeRows /\ NodeColumns(e) # None
<1>1. e \in NodeRows
  BY TaskRowAssumption DEF TaskRowAssumption
<1> DEFINE t == IF e.title = None /\ node # None THEN node.title ELSE e.title
<1>2. t \in {f.title : f \in NodeEvents}
  BY <1>1 DEF NodeRows
<1> HIDE DEF t
<1>3. [status |-> e.status, version |-> e.version, at |-> e.at, title |-> t] \in NodeRows
  BY <1>1, <1>2 DEF NodeRows
<1>4. NodeColumns(e) \in NodeRows
  BY <1>3 DEF NodeColumns, t
<1> QED
  BY <1>4, TaskRowAssumption DEF TaskRowAssumption

LEMMA NodeStep ==
  ASSUME NodeInv, NEW e \in NodeEvents, ProjectNodeStatus(e)
  PROVE  NodeInv'
<1>1. e \in NodeRows /\ node' = IF node = None \/ NewerThanRow(e) THEN NodeColumns(e) ELSE node
  BY TaskRowAssumption DEF TaskRowAssumption, ProjectNodeStatus
<1>2. nodeSeen' = nodeSeen \cup {e}
  BY DEF ProjectNodeStatus
<1>3. /\ nodeSeen' \subseteq NodeEvents /\ nodeSeen' # {}
      /\ node' # None /\ node' \in NodeRows
  BY <1>1, <1>2, NodeColumnsType DEF NodeInv
<1>4. NodeLatest'
  <2> SUFFICES ASSUME \A f \in nodeSeen' : f.version > 0
               PROVE  \E g \in nodeSeen' : /\ node'.status = g.status
                                           /\ node'.version = g.version
                                           /\ \A f \in nodeSeen' : f.version <= g.version
    BY DEF NodeLatest
  <2>0. \A f \in nodeSeen' : f.version \in Nat
    BY <1>3, TaskRowAssumption DEF TaskRowAssumption, NodeRows
  <2>1. CASE node = None
    <3>1. nodeSeen' = {e} /\ node' = NodeColumns(e)
      BY <1>1, <1>2, <2>1 DEF NodeInv
    <3> QED
      BY <2>0, <3>1 DEF NodeColumns
  <2>2. CASE node # None
    <3>1. PICK g \in nodeSeen : /\ node.status = g.status /\ node.version = g.version
                                /\ \A f \in nodeSeen : f.version <= g.version
      BY <1>2, <2>2 DEF NodeInv, NodeLatest
    <3>2. NewerThanRow(e) <=> g.version < e.version
      BY <1>2, <3>1 DEF NewerThanRow
    <3>3. CASE NewerThanRow(e)
      <4>1. node'.status = e.status /\ node'.version = e.version
        BY <1>1, <3>3 DEF NodeColumns
      <4> QED
        BY <1>2, <2>0, <3>1, <3>2, <3>3, <4>1
    <3>4. CASE ~NewerThanRow(e)
      BY <1>1, <1>2, <2>0, <2>2, <3>1, <3>2, <3>4
    <3> QED
      BY <3>3, <3>4
  <2> QED
    BY <2>1, <2>2
<1> QED
  BY <1>3, <1>4 DEF NodeInv

LEMMA NodeSame ==
  ASSUME NodeInv, UNCHANGED nodeVars
  PROVE  NodeInv'
BY DEF NodeInv, NodeLatest, nodeVars

\* Only an event of the node touches its row.
LEMMA NodeOrNot ==
  ASSUME [Next]_vars
  PROVE  (\E e \in NodeEvents : ProjectNodeStatus(e)) \/ UNCHANGED nodeVars
<1>1. CASE UNCHANGED vars
  BY <1>1 DEF vars, nodeVars
<1>2. CASE \E e \in Emissions : WorkflowEmits(e)
  BY <1>2 DEF WorkflowEmits
<1>3. CASE \E i \in DOMAIN log : ApplyEvent(i) \/ ReadColumns(i) \/ SkipEvent(i)
  BY <1>3 DEF ApplyEvent, ReadColumns, SkipEvent
<1>4. CASE CreateTask \/ DeleteTask \/ WriteColumns \/ AbortApply
  BY <1>4 DEF CreateTask, DeleteTask, WriteColumns, AbortApply
<1>5. CASE ReconcileReads \/ ReconcileQueries \/ ReconcileRepairs
  BY <1>5 DEF ReconcileReads, ReconcileQueries, ReconcileRepairs
<1> QED
  BY <1>1, <1>2, <1>3, <1>4, <1>5 DEF Next

\* The node's row is the newest version, whatever the order the events came in.
THEOREM NodeInvariant == Spec => []NodeInv
<1>1. Init => NodeInv
  BY DEF Init, NodeInv, NodeLatest
<1>2. NodeInv /\ [Next]_vars => NodeInv'
  BY NodeStep, NodeSame, NodeOrNot
<1> QED
  BY <1>1, <1>2, PTL DEF Spec

\* projectNodeStatus keeps the status of the newest version (NodeLatest).
THEOREM NodeLatestTheorem == Spec => []NodeLatest
<1>1. NodeInv => NodeLatest
  BY DEF NodeInv
<1> QED
  BY <1>1, NodeInvariant, PTL

\* An event that does not name a fact of the node leaves it (NodeFactsKept).
THEOREM NodeFactsTheorem == Spec => NodeFactsKept
<1>1. ASSUME [Next]_vars, node # None, node.title # None
      PROVE  node'.title # None
  <2>1. CASE UNCHANGED nodeVars
    BY <1>1, <2>1 DEF nodeVars
  <2>2. CASE \E e \in NodeEvents : ProjectNodeStatus(e)
    <3>1. PICK e \in NodeEvents : ProjectNodeStatus(e)
      BY <2>2
    <3>2. NodeColumns(e).title # None
      BY <1>1 DEF NodeColumns
    <3> QED
      BY <1>1, <3>1, <3>2 DEF ProjectNodeStatus
  <2> QED
    BY <1>1, <2>1, <2>2, NodeOrNot
<1>2. [Next]_vars => [node # None /\ node.title # None => node'.title # None]_vars
  BY <1>1
<1> QED
  BY <1>2, PTL DEF Spec, NodeFactsKept
-----------------------------------------------------------------------------
(* The operators of the task.                                              *)

\* The kinds of events, and what each carries.
LEMMA EventKind ==
  ASSUME NEW e \in Events
  PROVE  /\ e.type \in {"status", "plan", "message", "usage", "budget", "requested", "decided"}
         /\ e.type = "status" => e.to \in Statuses
         /\ e.type \in {"plan", "message"} => e.to \in Nat
         /\ e.type \in {"requested", "decided"} => e.id \in Approvals
BY DEF Events

\* What an event does to each column.
LEMMA EffectColumns ==
  ASSUME NEW c \in States, NEW e \in Events
  PROVE  /\ Effect(c, e) \in States
         /\ Effect(c, e).plan = IF e.type = "plan" THEN e.to ELSE c.plan
         /\ Accumulates(e) => /\ Effect(c, e).status = c.status
                              /\ Effect(c, e).plan = c.plan
<1>1. e.type = "status" => e.to \in Statuses
  BY EventKind
<1>2. e.type = "plan" => e.to \in Nat
  BY EventKind
<1>3. e.type \in {"requested", "decided"} => e.id \in Approvals
  BY EventKind
<1>4. Effect(c, e) \in States
  <2> DEFINE s == IF e.type = "status" THEN e.to ELSE c.status
             p == IF e.type = "plan" THEN e.to ELSE c.plan
             u == IF e.type = "usage" THEN c.usage + 1 ELSE c.usage
             b == IF e.type = "budget" THEN c.budget + 1 ELSE c.budget
             a == IF e.type = "requested" THEN c.pending \cup {e.id}
                  ELSE IF e.type = "decided" THEN c.pending \ {e.id} ELSE c.pending
  <2>1. s \in Statuses \cup {"CREATED"} /\ p \in Nat
    BY <1>1, <1>2 DEF States
  <2>2. u \in Nat /\ b \in Nat
    BY DEF States
  <2>3. a \in SUBSET Approvals
    BY <1>3 DEF States
  <2>4. Effect(c, e) = [c EXCEPT !.status = s, !.plan = p, !.usage = u, !.budget = b, !.pending = a]
    BY DEF Effect
  <2> HIDE DEF s, p, u, b, a
  <2>5. [c EXCEPT !.status = s, !.plan = p, !.usage = u, !.budget = b, !.pending = a] \in States
    BY <2>1, <2>2, <2>3 DEF States
  <2> QED
    BY <2>4, <2>5
<1>5. Effect(c, e).plan = IF e.type = "plan" THEN e.to ELSE c.plan
  BY DEF Effect, States
<1>6. Effect(c, e).status = IF e.type = "status" THEN e.to ELSE c.status
  BY DEF Effect, States
<1> QED
  BY <1>4, <1>5, <1>6 DEF Accumulates

\* A row holds the columns it was made of.
LEMMA RowColumns ==
  ASSUME NEW c \in States, NEW d \in BOOLEAN
  PROVE  /\ Row(c, d) \in Rows /\ Row(c, d) # None
         /\ Columns(Row(c, d)) = c /\ Row(c, d).deleted = d
<1>1. Row(c, d) \in Rows
  BY DEF Row, Rows, States
<1>2. Columns(Row(c, d)) = c
  BY DEF Row, Columns, States
<1> QED
  BY <1>1, <1>2, TaskRowAssumption DEF TaskRowAssumption, Row

LEMMA ColumnsType ==
  ASSUME NEW r \in Rows
  PROVE  /\ Columns(r) \in States /\ r.deleted \in BOOLEAN
         /\ Columns(r).plan = r.plan
BY DEF Columns, Rows, States

LEMMA FreshType == Fresh \in States
BY DEF Fresh, States

LEMMA EmissionType ==
  ASSUME wf \in States, log \in Seq(Events), NEW e \in Emissions
  PROVE  /\ e \in Events
         /\ e.type = "plan" => e.to = wf.plan + 1
         /\ e.type = "message" => e.to = Len(log) + 1
<1>1. wf.plan \in Nat /\ wf.pending \subseteq Approvals /\ Len(log) \in Nat
  BY DEF States
<1> HIDE DEF States
<1>2. CASE e \in {[type |-> "status", to |-> s] : s \in Statuses}
  BY <1>2 DEF Events
<1>3. CASE e \in {[type |-> "plan", to |-> wf.plan + 1], [type |-> "usage"], [type |-> "budget"]}
  BY <1>1, <1>3 DEF Events
<1>4. CASE e = [type |-> "message", to |-> Len(log) + 1]
  BY <1>1, <1>4 DEF Events
<1>5. CASE e \in {[type |-> "requested", id |-> a] : a \in Approvals \ wf.pending}
  BY <1>1, <1>5 DEF Events
<1>6. CASE e \in {[type |-> "decided", id |-> a] : a \in wf.pending}
  BY <1>1, <1>6 DEF Events
<1> QED
  BY <1>2, <1>3, <1>4, <1>5, <1>6 DEF Emissions

\* The next event is the first one that is not stored.
LEMMA NextStored ==
  ASSUME TypeInv, NEW i \in DOMAIN log, Deliverable(i)
  PROVE  /\ row \in Rows /\ row # None /\ applying = None
         /\ i = stored + 1 /\ i \in 1 .. Len(log) /\ i - 1 = stored
         /\ log[i] \in Events
BY DEF Deliverable, IsStored, TypeInv
-----------------------------------------------------------------------------
(* Every step keeps TaskInv.                                               *)

\* The chain is the workflow's: a step of the projection leaves it.
LEMMA ChainSame ==
  ASSUME NEW S, Chain(S), UNCHANGED <<wf, log>>
  PROVE  Chain(S)'
BY DEF Chain

LEMMA HistorySame ==
  ASSUME HistoryInv, UNCHANGED <<wf, log, stored, history, skips>>
  PROVE  HistoryInv'
BY DEF HistoryInv

LEMMA ApplyingSame ==
  ASSUME ApplyingInv, UNCHANGED <<log, stored, applying, row, clean>>
  PROVE  ApplyingInv'
BY DEF ApplyingInv, Columns

LEMMA FollowsSame ==
  ASSUME NEW S, RowFollows(S), UNCHANGED <<stored, row, clean>>
  PROVE  RowFollows(S)'
BY DEF RowFollows, Columns

LEMMA Created ==
  ASSUME TaskInv, CreateTask
  PROVE  TaskInv'
<1> USE DEF CreateTask
<1>1. wf = None /\ log = << >> /\ applying = None /\ stored = 0 /\ Len(log) = 0
  BY DEF TaskInv, TypeInv
<1>2. /\ row' \in Rows /\ row' # None /\ Columns(row') = Fresh
      /\ wf' # None => wf' = Fresh
  BY RowColumns, FreshType DEF StartTask
<1>3. TypeInv'
  BY <1>1, <1>2, FreshType DEF TaskInv, TypeInv
<1>4. ApplyingInv'
  BY <1>1 DEF ApplyingInv
<1>5. HistoryInv'
  <2>1. wf' # None => wf'.plan = 1
    BY <1>2 DEF Fresh
  <2> QED
    BY <1>1, <2>1 DEF TaskInv, HistoryInv
<1>6. PICK S : Chain(S) /\ RowFollows(S)
  BY DEF TaskInv
<1>7. Chain(S)'
  BY <1>1, <1>2, <1>6 DEF Chain
<1>8. RowFollows(S)'
  <2>1. S[0] = Fresh /\ stored' = 0 /\ Columns(row)' = Fresh
    BY <1>1, <1>2, <1>6 DEF Chain, Columns
  <2> QED
    BY <2>1 DEF RowFollows
<1> QED
  BY <1>3, <1>4, <1>5, <1>7, <1>8 DEF TaskInv

LEMMA Deleted ==
  ASSUME TaskInv, DeleteTask
  PROVE  TaskInv'
<1> USE DEF DeleteTask
<1>1. row \in Rows /\ row # None
  BY DEF TaskInv, TypeInv
<1>2. row' \in Rows /\ Columns(row') = Columns(row)
  BY <1>1 DEF Rows, Columns
<1>3. row' # None
  BY <1>2, TaskRowAssumption DEF TaskRowAssumption
<1>4. TypeInv'
  BY <1>1, <1>2, <1>3 DEF TaskInv, TypeInv
<1>5. Columns(row)' = Columns(row)
  BY <1>2 DEF Columns
<1>6. ApplyingInv'
  BY <1>5 DEF TaskInv, ApplyingInv
<1>7. HistoryInv'
  BY HistorySame DEF TaskInv
<1>8. PICK S : Chain(S) /\ RowFollows(S)
  BY DEF TaskInv
<1>9. Chain(S)' /\ RowFollows(S)'
  BY <1>1, <1>5, <1>8, ChainSame DEF RowFollows
<1> QED
  BY <1>4, <1>6, <1>7, <1>9 DEF TaskInv

\* An event lengthens the chain by the state it leads to.
LEMMA Emitted ==
  ASSUME TaskInv, wf # None, NEW e \in Emissions, WorkflowEmits(e)
  PROVE  TaskInv'
<1> DEFINE n == Len(log)
<1>1. /\ wf \in States /\ log \in Seq(Events) /\ n \in Nat /\ stored \in 0 .. n
      /\ wf.plan \in Nat
  BY DEF TaskInv, TypeInv, States
<1>2. /\ e \in Events
      /\ e.type = "plan" => e.to = wf.plan + 1
      /\ e.type = "message" => e.to = n + 1
  BY <1>1, EmissionType
<1>3. /\ wf' = Effect(wf, e) /\ wf' \in States
      /\ wf'.plan = IF e.type = "plan" THEN e.to ELSE wf.plan
  BY <1>1, <1>2, EffectColumns DEF WorkflowEmits
<1>4. /\ log' = Append(log, e) /\ log' \in Seq(Events) /\ Len(log') = n + 1
      /\ log'[n + 1] = e
      /\ \A k \in 1 .. n : log'[k] = log[k]
  BY <1>1, <1>2 DEF WorkflowEmits
<1>5. UNCHANGED <<row, history, applying, stored, skips, rec, clean>>
  BY DEF WorkflowEmits, rowVars
<1>6. row # None
  BY DEF TaskInv, TypeInv
<1> HIDE DEF n
<1>7. TypeInv'
  <2>1. stored' \in 0 .. Len(log')
    BY <1>1, <1>4, <1>5
  <2>2. wf' # None
    BY <1>3, TaskRowAssumption DEF TaskRowAssumption
  <2> QED
    BY <1>3, <1>4, <1>5, <1>6, <2>1, <2>2 DEF TaskInv, TypeInv
<1>8. ApplyingInv'
  <2>1. ASSUME applying # None
        PROVE  /\ applying.i \in 1 .. n + 1 /\ log'[applying.i] = log[applying.i]
               /\ Columns(row)' = Columns(row)
    BY <1>1, <1>4, <1>5, <2>1 DEF TaskInv, ApplyingInv, Columns, n
  <2> QED
    BY <1>4, <1>5, <2>1 DEF TaskInv, ApplyingInv, Accumulates
<1>9. HistoryInv'
  <2>1. \A k \in 1 .. n + 1 : log'[k].type = "message" => log'[k].to = k
    <3>1. ASSUME NEW k \in 1 .. n + 1
          PROVE  (k \in 1 .. n /\ log'[k] = log[k]) \/ (k = n + 1 /\ log'[k] = e)
      BY <1>1, <1>4
    <3> QED
      BY <1>2, <3>1 DEF TaskInv, HistoryInv, n
  <2>2. ASSUME NEW p \in 2 .. wf'.plan
        PROVE  \E k \in 1 .. n + 1 : log'[k].type = "plan" /\ log'[k].to = p
    <3>1. CASE p \in 2 .. wf.plan
      <4>1. PICK k \in 1 .. n : log[k].type = "plan" /\ log[k].to = p
        BY <3>1 DEF TaskInv, HistoryInv, n
      <4> QED
        BY <1>1, <1>4, <4>1
    <3>2. CASE p \notin 2 .. wf.plan
      <4>1. e.type = "plan" /\ e.to = p
        BY <1>1, <1>2, <1>3, <3>2
      <4> QED
        BY <1>1, <1>4, <4>1
    <3> QED
      BY <3>1, <3>2
  <2>3. skips = 0 =>
          \A k \in 1 .. stored :
             log'[k].type \in {"plan", "message"} => <<log'[k].type, log'[k].to>> \in history
    <3>1. \A k \in 1 .. stored : log'[k] = log[k]
      BY <1>1, <1>4
    <3> QED
      BY <3>1 DEF TaskInv, HistoryInv
  <2> QED
    BY <1>4, <1>5, <2>1, <2>2, <2>3 DEF HistoryInv
<1>10. \E T : Chain(T)' /\ RowFollows(T)'
  <2>1. PICK S : Chain(S) /\ RowFollows(S)
    BY DEF TaskInv
  <2>2. /\ S \in [0 .. n -> States] /\ S[0] = Fresh /\ wf = S[n]
        /\ \A k \in 1 .. n : S[k] = Effect(S[k - 1], log[k])
        /\ \A k \in 1 .. n : log[k].type = "plan" => log[k].to = S[k - 1].plan + 1
    BY <2>1 DEF Chain, n
  <2>3. PICK T \in [0 .. n + 1 -> States] : T[n + 1] = wf' /\ \A k \in 0 .. n : T[k] = S[k]
    <3> DEFINE F == [k \in 0 .. n + 1 |-> IF k = n + 1 THEN wf' ELSE S[k]]
    <3>1. F \in [0 .. n + 1 -> States]
      BY <1>1, <1>3, <2>2
    <3>2. F[n + 1] = wf' /\ \A k \in 0 .. n : F[k] = S[k]
      BY <1>1
    <3> QED
      BY <3>1, <3>2
  <2>5. ASSUME NEW k \in 1 .. n + 1
        PROVE  /\ T[k] = Effect(T[k - 1], log'[k])
               /\ log'[k].type = "plan" => log'[k].to = T[k - 1].plan + 1
    <3>1. CASE k = n + 1
      <4>1. T[k - 1] = wf /\ T[k] = wf' /\ log'[k] = e
        BY <1>1, <1>4, <2>2, <2>3, <3>1
      <4> QED
        BY <1>2, <1>3, <4>1
    <3>2. CASE k \in 1 .. n
      <4>1. T[k - 1] = S[k - 1] /\ T[k] = S[k] /\ log'[k] = log[k]
        BY <1>1, <1>4, <2>3, <3>2
      <4> QED
        BY <2>2, <3>2, <4>1
    <3> QED
      BY <1>1, <3>1, <3>2
  <2>6. T[0] = Fresh
    BY <1>1, <2>2, <2>3
  <2>7. Chain(T)'
    BY <1>4, <2>3, <2>5, <2>6 DEF Chain
  <2>8. RowFollows(T)'
    <3>1. T[stored] = S[stored] /\ Columns(row)' = Columns(row)
      BY <1>1, <1>5, <2>3 DEF Columns
    <3> QED
      BY <1>5, <2>1, <3>1 DEF RowFollows
  <2> QED
    BY <2>7, <2>8
<1> QED
  BY <1>7, <1>8, <1>9, <1>10 DEF TaskInv
\* The event that is stored brings the row to the next state of the chain: a
\* plan event is never older than the row's plan.
LEMMA Applied ==
  ASSUME TaskInv, NEW i \in DOMAIN log, ApplyEvent(i)
  PROVE  TaskInv'
<1> USE DEF ApplyEvent
<1> DEFINE e == log[i]
           next == Effect(Columns(row), e)
<1>1. /\ row \in Rows /\ row # None /\ applying = None /\ stored' = i
      /\ i = stored + 1 /\ i \in 1 .. Len(log) /\ i - 1 = stored
      /\ e \in Events
  BY NextStored DEF TaskInv
<1>2. Columns(row) \in States /\ next \in States /\ row.deleted \in BOOLEAN
  BY <1>1, ColumnsType, EffectColumns
<1>3. row' = IF e.type = "plan" /\ e.to <= row.plan THEN row ELSE Row(next, row.deleted)
  OBVIOUS
<1> HIDE DEF next
<1>4. row' \in Rows /\ row' # None
  BY <1>1, <1>2, <1>3, RowColumns
<1>5. TypeInv'
  <2>1. stored' \in 0 .. Len(log)
    BY <1>1
  <2> QED
    BY <1>4, <2>1 DEF TaskInv, TypeInv
<1>6. ApplyingInv'
  BY <1>1 DEF ApplyingInv
<1>7. HistoryInv'
  <2>1. \A k \in 1 .. stored' : k \in 1 .. stored \/ k = i
    BY <1>1 DEF TaskInv, TypeInv
  <2>2. e.type \in {"plan", "message"} => <<e.type, e.to>> \in history'
    BY DEF InsertOnce
  <2>3. history \subseteq history'
    BY DEF InsertOnce
  <2> QED
    BY <2>1, <2>2, <2>3 DEF TaskInv, HistoryInv
<1>8. PICK S : Chain(S) /\ RowFollows(S)
  BY DEF TaskInv
<1>9. Chain(S)'
  BY <1>8, ChainSame
<1>10. RowFollows(S)'
  <2> SUFFICES ASSUME clean
               PROVE  Columns(row)' = S[stored']
    BY DEF RowFollows
  <2>1. Columns(row) = S[stored] /\ S[i] = next
    BY <1>1, <1>8 DEF RowFollows, Chain, next
  <2>2. e.type = "plan" => e.to = row.plan + 1
    BY <1>1, <1>8, <2>1, ColumnsType DEF Chain
  <2>3. row.plan \in Nat
    BY <1>1 DEF Rows
  <2>4. row' = Row(next, row.deleted)
    BY <1>3, <2>2, <2>3
  <2>5. Columns(row') = next
    BY <1>2, <2>4, RowColumns
  <2> QED
    BY <1>1, <2>1, <2>5 DEF Columns
<1> QED
  BY <1>5, <1>6, <1>7, <1>9, <1>10 DEF TaskInv

\* The transaction begins: what it read is what the row holds.
LEMMA Began ==
  ASSUME TaskInv, NEW i \in DOMAIN log, ReadColumns(i)
  PROVE  TaskInv'
<1> USE DEF ReadColumns
<1>1. /\ row \in Rows /\ row # None /\ i = stored + 1 /\ i \in 1 .. Len(log)
  BY NextStored DEF TaskInv
<1>2. TypeInv'
  BY <1>1 DEF TaskInv, TypeInv
<1>3. ApplyingInv'
  <2>1. applying' \in [i : Nat, read : States] /\ applying'.i = i /\ applying'.read = Columns(row)
    BY <1>1, ColumnsType
  <2>2. Accumulates(log[i]) /\ Columns(row)' = Columns(row)
    BY DEF Columns
  <2> QED
    BY <1>1, <2>1, <2>2 DEF ApplyingInv, Accumulates
<1>4. HistoryInv'
  BY HistorySame DEF TaskInv
<1>5. PICK S : Chain(S) /\ RowFollows(S)
  BY DEF TaskInv
<1>6. Chain(S)' /\ RowFollows(S)'
  BY <1>5, ChainSame, FollowsSame
<1> QED
  BY <1>2, <1>3, <1>4, <1>6 DEF TaskInv

\* It commits: if the row is still what it read, the three columns it writes
\* and the two it leaves are the next state.
LEMMA Committed ==
  ASSUME TaskInv, WriteColumns
  PROVE  TaskInv'
<1> USE DEF WriteColumns
<1> DEFINE i == applying.i
           next == Effect(applying.read, log[i])
<1>1. /\ row \in Rows /\ row # None /\ log[i] \in Events
      /\ i = stored + 1 /\ i \in 1 .. Len(log) /\ i - 1 = stored
      /\ stored' = i /\ applying.read \in States /\ Accumulates(log[i])
      /\ log[i].type \notin {"plan", "message"}
  BY DEF TaskInv, TypeInv, ApplyingInv, Accumulates
<1>2. /\ next \in States
      /\ next.status = applying.read.status /\ next.plan = applying.read.plan
  BY <1>1, EffectColumns
<1>3. row' = [row EXCEPT !.budget = next.budget, !.usage = next.usage, !.pending = next.pending]
  OBVIOUS
<1> HIDE DEF next
<1>4. row' \in Rows
  BY <1>1, <1>2, <1>3 DEF Rows, States
<1>5. TypeInv'
  <2>1. row' # None
    BY <1>4, TaskRowAssumption DEF TaskRowAssumption
  <2>2. stored' \in 0 .. Len(log)
    BY <1>1 DEF TaskInv, TypeInv
  <2> QED
    BY <1>4, <2>1, <2>2 DEF TaskInv, TypeInv
<1>6. ApplyingInv'
  BY DEF ApplyingInv
<1>7. HistoryInv'
  <2>1. \A k \in 1 .. stored' : k \in 1 .. stored \/ k = i
    BY <1>1 DEF TaskInv, TypeInv
  <2> QED
    BY <1>1, <2>1 DEF TaskInv, HistoryInv
<1>8. PICK S : Chain(S) /\ RowFollows(S)
  BY DEF TaskInv
<1>9. Chain(S)'
  BY <1>8, ChainSame
<1>10. RowFollows(S)'
  <2> SUFFICES ASSUME clean
               PROVE  Columns(row)' = S[stored']
    BY DEF RowFollows
  <2>1. applying.read = Columns(row) /\ Columns(row) = S[stored]
    BY <1>1, <1>8 DEF RowFollows, TaskInv, ApplyingInv
  <2>2. S[i] = next
    BY <1>1, <1>8, <2>1 DEF Chain, next
  <2>3. next.status = row.status /\ next.plan = row.plan
    BY <1>2, <2>1 DEF Columns
  <2>4. Columns(row') = next
    BY <1>1, <1>2, <1>3, <2>3 DEF Columns, Rows, States
  <2> QED
    BY <1>1, <2>2, <2>4 DEF Columns
<1> QED
  BY <1>5, <1>6, <1>7, <1>9, <1>10 DEF TaskInv

LEMMA Aborted ==
  ASSUME TaskInv, AbortApply
  PROVE  TaskInv'
<1> USE DEF AbortApply
<1>1. TypeInv'
  BY DEF TaskInv, TypeInv
<1>2. ApplyingInv'
  BY DEF ApplyingInv
<1>3. HistoryInv'
  BY HistorySame DEF TaskInv
<1>4. PICK S : Chain(S) /\ RowFollows(S)
  BY DEF TaskInv
<1>5. Chain(S)' /\ RowFollows(S)'
  BY <1>4, ChainSame, FollowsSame
<1> QED
  BY <1>1, <1>2, <1>3, <1>5 DEF TaskInv

LEMMA Skipped ==
  ASSUME TaskInv, NEW i \in DOMAIN log, SkipEvent(i)
  PROVE  TaskInv'
<1> USE DEF SkipEvent
<1>1. i \in 1 .. Len(log) /\ applying = None /\ stored' = i
  BY NextStored DEF TaskInv
<1>2. skips' \in Nat /\ skips' # 0
  BY DEF TaskInv, TypeInv
<1>3. TypeInv'
  <2>1. stored' \in 0 .. Len(log)
    BY <1>1
  <2> QED
    BY <1>2, <2>1 DEF TaskInv, TypeInv
<1>4. ApplyingInv'
  BY <1>1 DEF ApplyingInv
<1>5. HistoryInv'
  BY <1>2 DEF TaskInv, HistoryInv
<1>6. PICK S : Chain(S)
  BY DEF TaskInv
<1>7. Chain(S)' /\ RowFollows(S)'
  BY <1>6, ChainSame DEF RowFollows
<1> QED
  BY <1>3, <1>4, <1>5, <1>7 DEF TaskInv
LEMMA ReconcileRead ==
  ASSUME TaskInv, ReconcileReads \/ ReconcileQueries
  PROVE  TaskInv'
<1>1. UNCHANGED <<wf, log, stored, row, history, applying, skips, clean>>
  BY DEF ReconcileReads, ReconcileQueries, rowVars
<1>2. rec' # None => rec' \in [projected : States, view : States \cup {None}]
  <2>1. CASE ReconcileReads
    <3>1. Columns(row) \in States
      BY <2>1, ColumnsType DEF ReconcileReads, TaskInv, TypeInv
    <3> QED
      BY <2>1, <3>1 DEF ReconcileReads
  <2>2. CASE ReconcileQueries
    BY <2>2 DEF ReconcileQueries, TaskInv, TypeInv
  <2> QED
    BY <2>1, <2>2
<1>3. TypeInv'
  <2>1. row # None
    BY DEF ReconcileReads, ReconcileQueries, TaskInv, TypeInv
  <2> QED
    BY <1>1, <1>2, <2>1 DEF TaskInv, TypeInv
<1>4. ApplyingInv' /\ HistoryInv'
  BY <1>1, ApplyingSame, HistorySame DEF TaskInv
<1>5. PICK S : Chain(S) /\ RowFollows(S)
  BY DEF TaskInv
<1>6. Chain(S)' /\ RowFollows(S)'
  BY <1>1, <1>5, ChainSame, FollowsSame
<1> QED
  BY <1>3, <1>4, <1>6 DEF TaskInv

\* A repair writes the workflow's state over the row if nothing is on its way to
\* the row, and else ends what can be said of it.
LEMMA Repaired ==
  ASSUME TaskInv, ReconcileRepairs
  PROVE  TaskInv'
<1>1. UNCHANGED <<wf, log, stored, history, applying, skips>> /\ rec' = None
  BY DEF ReconcileRepairs
<1>2. PICK S : Chain(S) /\ RowFollows(S)
  BY DEF TaskInv
<1>3. Chain(S)' /\ HistoryInv'
  BY <1>1, <1>2, ChainSame, HistorySame DEF TaskInv
<1>4. CASE UNCHANGED <<row, clean>>
  <2>1. TypeInv'
    BY <1>1, <1>4 DEF TaskInv, TypeInv
  <2> QED
    BY <1>1, <1>2, <1>3, <1>4, <2>1, ApplyingSame, FollowsSame DEF TaskInv
<1>5. CASE row' = UpdateTask(rec.view) /\ clean' = Quiet
  <2>1. rec.view \in States /\ rec.view # None
    BY DEF ReconcileRepairs, TaskInv, TypeInv
  <2>2. row # None /\ row.deleted \in BOOLEAN
    BY DEF ReconcileRepairs, TaskInv, TypeInv, Rows
  <2>3. row' \in Rows /\ row' # None /\ Columns(row') = rec.view
    BY <1>5, <2>1, <2>2, RowColumns DEF UpdateTask
  <2>4. TypeInv'
    BY <1>1, <1>5, <2>3 DEF TaskInv, TypeInv, Quiet
  <2>5. ApplyingInv'
    BY <1>1, <1>5 DEF TaskInv, ApplyingInv, Quiet, Accumulates
  <2>6. RowFollows(S)'
    BY <1>1, <1>2, <1>5, <2>1, <2>3 DEF RowFollows, Quiet, Chain, Columns
  <2> QED
    BY <1>3, <2>4, <2>5, <2>6 DEF TaskInv
<1> QED
  BY <1>4, <1>5 DEF ReconcileRepairs

LEMMA TaskSame ==
  ASSUME TaskInv, UNCHANGED <<wf, log, rowVars, rec, clean>>
  PROVE  TaskInv'
<1>1. UNCHANGED <<stored, row, history, applying, skips>>
  BY DEF rowVars
<1>2. TypeInv'
  BY <1>1 DEF TaskInv, TypeInv
<1>3. ApplyingInv' /\ HistoryInv'
  BY <1>1, ApplyingSame, HistorySame DEF TaskInv
<1>4. PICK S : Chain(S) /\ RowFollows(S)
  BY DEF TaskInv
<1>5. Chain(S)' /\ RowFollows(S)'
  BY <1>1, <1>4, ChainSame, FollowsSame
<1> QED
  BY <1>2, <1>3, <1>5 DEF TaskInv

\* The row is the state its stored events make of a fresh task, until an event
\* is skipped or a repair meets one on its way.
THEOREM TaskInvariant == Spec => []TaskInv
<1>1. Init => TaskInv
  <2> SUFFICES ASSUME Init
               PROVE  TaskInv
    OBVIOUS
  <2> USE DEF Init
  <2>1. TypeInv /\ ApplyingInv /\ HistoryInv
    BY DEF TypeInv, ApplyingInv, HistoryInv
  <2> DEFINE S == [k \in 0 .. 0 |-> Fresh]
  <2>2. S \in [0 .. 0 -> States] /\ S[0] = Fresh /\ Len(log) = 0
    BY FreshType
  <2> HIDE DEF S
  <2>3. Chain(S) /\ RowFollows(S)
    BY <2>2 DEF Chain, RowFollows
  <2> QED
    BY <2>1, <2>3 DEF TaskInv
<1>2. TaskInv /\ [Next]_vars => TaskInv'
  <2> SUFFICES ASSUME TaskInv, [Next]_vars
               PROVE  TaskInv'
    OBVIOUS
  <2>1. CASE CreateTask \/ DeleteTask
    BY <2>1, Created, Deleted
  <2>2. CASE wf # None /\ \E e \in Emissions : WorkflowEmits(e)
    BY <2>2, Emitted
  <2>3. CASE \E i \in DOMAIN log : ApplyEvent(i) \/ ReadColumns(i) \/ SkipEvent(i)
    BY <2>3, Applied, Began, Skipped
  <2>4. CASE WriteColumns \/ AbortApply
    BY <2>4, Committed, Aborted
  <2>5. CASE \E e \in NodeEvents : ProjectNodeStatus(e)
    BY <2>5, TaskSame DEF ProjectNodeStatus
  <2>6. CASE ReconcileReads \/ ReconcileQueries \/ ReconcileRepairs
    BY <2>6, ReconcileRead, Repaired
  <2>7. CASE UNCHANGED vars
    BY <2>7, TaskSame DEF vars
  <2> QED
    BY <2>1, <2>2, <2>3, <2>4, <2>5, <2>6, <2>7 DEF Next
<1> QED
  BY <1>1, <1>2, PTL DEF Spec

\* Once every event is projected the row says what the workflow says (Converged).
THEOREM Convergence == Spec => []Converged
<1>1. TaskInv => Converged
  <2> SUFFICES ASSUME TaskInv, row # None, wf # None, stored = Len(log), applying = None
               PROVE  /\ clean => Columns(row) = wf
                      /\ skips = 0 =>
                           /\ \A p \in 2 .. wf.plan : <<"plan", p>> \in history
                           /\ \A i \in DOMAIN log :
                                log[i].type = "message" => <<"message", i>> \in history
    BY DEF Converged
  <2>1. clean => Columns(row) = wf
    BY DEF TaskInv, Chain, RowFollows
  <2>2. DOMAIN log = 1 .. stored
    BY DEF TaskInv, TypeInv
  <2>3. ASSUME skips = 0, NEW p \in 2 .. wf.plan
        PROVE  <<"plan", p>> \in history
    <3>1. PICK k \in 1 .. Len(log) : log[k].type = "plan" /\ log[k].to = p
      BY <2>3 DEF TaskInv, HistoryInv
    <3> QED
      BY <2>3, <3>1 DEF TaskInv, HistoryInv
  <2>4. ASSUME skips = 0, NEW i \in DOMAIN log, log[i].type = "message"
        PROVE  <<"message", i>> \in history
    <3>1. i \in 1 .. stored /\ i \in 1 .. Len(log)
      BY <2>2
    <3>2. log[i].to = i
      BY <2>4, <3>1 DEF TaskInv, HistoryInv
    <3>3. <<log[i].type, log[i].to>> \in history
      BY <2>4, <3>1 DEF TaskInv, HistoryInv
    <3> QED
      BY <2>4, <3>2, <3>3
  <2> QED
    BY <2>1, <2>3, <2>4
<1> QED
  BY <1>1, TaskInvariant, PTL
=============================================================================
