-------------------------- MODULE ProjectorProofs --------------------------
(***************************************************************************)
(* Proofs about Projector, for any number of replicas, rows, faults and    *)
(* failed appends: its types, that an event without an entity version is   *)
(* never lost, that nothing is lost and an entity's versions are logged in *)
(* order while no append fails, and that task_events implements the        *)
(* append-only TaskLog.                                                    *)
(***************************************************************************)
EXTENDS Projector, FiniteSetTheorems, TLAPS

\* A durable event no version can supersede.
Keep(i) == Kind(i) = "durable" /\ ~Versioned(i)

\* UnversionedKept is not inductive: a row is marked because it is among the
\* done ids, and it may be done because it is among the seen ones.
DoneKept == \A p \in Replicas : \A i \in done[p] : Keep(i) => i \in Logged

SeenKept == \A p \in Replicas : \A i \in seen[p] : Keep(i) => i \in Logged

ProjectorInv == TypeOK /\ UnversionedKept /\ DoneKept /\ SeenKept

-----------------------------------------------------------------------------
(* The log.                                                                *)

\* An append keeps what is logged, and adds the event.
LEMMA AppendGrows ==
  ASSUME log \in Seq(Rows), NEW i \in Rows, AppendTaskEvent(i)
  PROVE  /\ log' \in Seq(Rows)
         /\ Logged \subseteq Logged'
         /\ i \in Logged'
<1>1. CASE i \in Logged
  BY <1>1 DEF AppendTaskEvent, Logged
<1>2. CASE i \notin Logged
  <2>1. log' = Append(log, i)
    BY <1>2 DEF AppendTaskEvent
  <2>2. Len(log') = Len(log) + 1 /\ log'[Len(log) + 1] = i
        /\ \A n \in 1 .. Len(log) : log'[n] = log[n]
    BY <2>1
  <2> QED
    BY <2>1, <2>2 DEF Logged
<1> QED
  BY <1>1, <1>2

\* An event's fields have their types.
LEMMA BodyType ==
  ASSUME NEW i \in Rows
  PROVE  /\ Kind(i) \in {"durable", "live", "bad"}
         /\ Version(i) \in Nat
         /\ Versioned(i) => Entity(i) \in Entities
BY ProjectorAssumption DEF ProjectorAssumption, Kind, Version, Entity, Versioned

\* The version map keeps its type.
LEMMA NoteVersionType ==
  ASSUME NEW p \in Replicas, NEW i \in Rows, NoteVersion(p, i),
         entityVersion \in [Replicas -> [Entities -> Nat]]
  PROVE  entityVersion' \in [Replicas -> [Entities -> Nat]]
BY BodyType DEF NoteVersion

\* Giving up a batch keeps the types of what it resets.
LEMMA StepDownType ==
  ASSUME NEW p \in Replicas, StepDown(p), TypeOK
  PROVE  /\ pc' \in [Replicas -> {"idle", "lead", "project"}]
         /\ lock' \in Replicas \cup {NoReplica}
         /\ batch' \in [Replicas -> SUBSET Rows]
         /\ done' \in [Replicas -> SUBSET Rows]
BY DEF StepDown, TypeOK

-----------------------------------------------------------------------------
(* Type correctness.                                                       *)

\* Every step keeps the types.
LEMMA TypeStep == TypeOK /\ [Next]_vars => TypeOK'
<1> SUFFICES ASSUME TypeOK, [Next]_vars PROVE TypeOK'
  OBVIOUS
<1> USE ProjectorAssumption DEF ProjectorAssumption
<1>1. ASSUME NEW i \in Rows, WorkerWrites(i) PROVE TypeOK'
  BY <1>1 DEF WorkerWrites, memVars, faultVars, TypeOK
<1>2. ASSUME NEW p \in Replicas,
             AcquireProjectorLeadership(p) \/ ClaimRuntimeOutbox(p)
      PROVE  TypeOK'
  <2>1. NextBatch \in SUBSET Rows
    BY DEF NextBatch, Pending, TypeOK
  <2> QED
    BY <1>2, <2>1 DEF AcquireProjectorLeadership, ClaimRuntimeOutbox, dbVars,
                      memVars, faultVars, TypeOK
<1>3. ASSUME NEW p \in Replicas, NEW i \in Rows,
             DropRow(p, i) \/ SkipStale(p, i) \/ PassLive(p, i)
      PROVE  TypeOK'
  <2>1. entityVersion' \in [Replicas -> [Entities -> Nat]]
    BY <1>3, NoteVersionType DEF DropRow, SkipStale, PassLive, memVars, TypeOK
  <2>2. /\ UNCHANGED <<written, projected, log, lock, pc, faults, storeFails>>
        /\ batch' \in [Replicas -> SUBSET Rows]
        /\ done' \in [Replicas -> SUBSET Rows]
        /\ seen' \in [Replicas -> SUBSET Rows]
    <3>1. /\ UNCHANGED <<written, projected, log, lock, pc, faults, storeFails>>
          /\ batch' = [batch EXCEPT ![p] = batch[p] \ {i}]
          /\ done' = [done EXCEPT ![p] = done[p] \cup {i}]
          /\ seen' = seen \/ seen' = [seen EXCEPT ![p] = seen[p] \cup {i}]
      BY <1>3 DEF DropRow, SkipStale, PassLive, Advance, dbVars, memVars, faultVars
    <3>2. seen' \in [Replicas -> SUBSET Rows]
      <4>1. seen \in [Replicas -> SUBSET Rows]
        BY DEF TypeOK
      <4>2. CASE seen' = seen
        BY <4>1, <4>2
      <4>3. CASE seen' = [seen EXCEPT ![p] = seen[p] \cup {i}]
        BY <4>1, <4>3
      <4> QED
        BY <3>1, <4>2, <4>3
    <3> QED
      BY <3>1, <3>2 DEF TypeOK
  <2> QED
    BY <2>1, <2>2 DEF TypeOK
<1>4. ASSUME NEW p \in Replicas, NEW i \in Rows, StoreEvent(p, i)
      PROVE  TypeOK'
  <2>1. entityVersion' \in [Replicas -> [Entities -> Nat]]
    BY <1>4, NoteVersionType DEF StoreEvent, TypeOK
  <2>2. log' \in Seq(Rows)
    BY <1>4, AppendGrows DEF StoreEvent, TypeOK
  <2>3. /\ UNCHANGED <<written, projected, lock, pc, faults, storeFails>>
        /\ batch' \in [Replicas -> SUBSET Rows]
        /\ done' \in [Replicas -> SUBSET Rows]
        /\ seen' \in [Replicas -> SUBSET Rows]
    BY <1>4 DEF StoreEvent, Advance, faultVars, TypeOK
  <2> QED
    BY <2>1, <2>2, <2>3 DEF TypeOK
<1>5. ASSUME NEW p \in Replicas, NEW i \in Rows, StoreFails(p, i)
      PROVE  TypeOK'
  <2>1. entityVersion' \in [Replicas -> [Entities -> Nat]]
    BY <1>5, NoteVersionType DEF StoreFails, TypeOK
  <2>2. log' \in Seq(Rows)
    BY <1>5, AppendGrows DEF StoreFails, TypeOK
  <2>3. /\ pc' \in [Replicas -> {"idle", "lead", "project"}]
        /\ lock' \in Replicas \cup {NoReplica}
        /\ batch' \in [Replicas -> SUBSET Rows]
        /\ done' \in [Replicas -> SUBSET Rows]
    BY <1>5, StepDownType DEF StoreFails
  <2>4. /\ UNCHANGED <<written, projected, seen, faults>>
        /\ storeFails' \in 0 .. MaxStoreFails
    BY <1>5 DEF StoreFails, TypeOK
  <2> QED
    BY <2>1, <2>2, <2>3, <2>4 DEF TypeOK
<1>6. ASSUME NEW p \in Replicas, MarkRuntimeOutboxProjected(p) PROVE TypeOK'
  BY <1>6 DEF MarkRuntimeOutboxProjected, memVars, faultVars, TypeOK
<1>7. ASSUME NEW p \in Replicas,
             BatchFails(p) \/ ConnectionDies(p) \/ Restart(p) \/ EvictSeen(p)
      PROVE  TypeOK'
  <2>1. CASE BatchFails(p)
    <3>1. /\ pc' \in [Replicas -> {"idle", "lead", "project"}]
          /\ lock' \in Replicas \cup {NoReplica}
          /\ batch' \in [Replicas -> SUBSET Rows]
          /\ done' \in [Replicas -> SUBSET Rows]
      BY <2>1, StepDownType DEF BatchFails
    <3>2. UNCHANGED <<written, log, seen, entityVersion, storeFails>>
      BY <2>1 DEF BatchFails, memVars
    <3>3. projected' \subseteq Rows
      <4>1. projected' = projected \/ projected' = projected \cup done[p]
        BY <2>1 DEF BatchFails
      <4> QED
        BY <4>1 DEF TypeOK
    <3>4. faults' \in 0 .. MaxFaults
      BY <2>1 DEF BatchFails, TypeOK
    <3> QED
      BY <3>1, <3>2, <3>3, <3>4 DEF TypeOK
  <2>2. CASE ConnectionDies(p)
    BY <2>2 DEF ConnectionDies, dbVars, memVars, TypeOK
  <2>3. CASE Restart(p)
    BY <2>3 DEF Restart, StepDown, NoVersions, dbVars, TypeOK
  <2>4. CASE EvictSeen(p)
    BY <2>4 DEF EvictSeen, dbVars, TypeOK
  <2> QED
    BY <1>7, <2>1, <2>2, <2>3, <2>4
<1>8. CASE UNCHANGED vars
  BY <1>8 DEF vars, TypeOK
<1> QED
  BY <1>1, <1>2, <1>3, <1>4, <1>5, <1>6, <1>7, <1>8 DEF Next, AppendRow

\* The initial state has the types.
LEMMA TypeInit == Init => TypeOK
BY ProjectorAssumption DEF ProjectorAssumption, Init, NoVersions, TypeOK

\* Type correctness of the projector, for any number of replicas and rows.
THEOREM TypeCorrect == Spec => []TypeOK
BY TypeInit, TypeStep, PTL DEF Spec

-----------------------------------------------------------------------------
(* Events without a version.                                               *)

\* Every step keeps what is logged.
LEMMA LoggedGrows == TypeOK /\ [Next]_vars => Logged \subseteq Logged'
<1> SUFFICES ASSUME TypeOK, [Next]_vars PROVE Logged \subseteq Logged'
  OBVIOUS
<1>1. CASE UNCHANGED log
  BY <1>1 DEF Logged
<1>2. ASSUME NEW p \in Replicas, NEW i \in Rows, StoreEvent(p, i) \/ StoreFails(p, i)
      PROVE  Logged \subseteq Logged'
  BY <1>1, <1>2, AppendGrows DEF StoreEvent, StoreFails, TypeOK
<1>3. CASE \E i \in Rows : WorkerWrites(i)
  BY <1>1, <1>3 DEF WorkerWrites
<1>4. ASSUME NEW p \in Replicas,
             \/ AcquireProjectorLeadership(p) \/ ClaimRuntimeOutbox(p)
             \/ \E i \in Rows : DropRow(p, i) \/ SkipStale(p, i) \/ PassLive(p, i)
             \/ MarkRuntimeOutboxProjected(p)
             \/ BatchFails(p) \/ ConnectionDies(p) \/ Restart(p) \/ EvictSeen(p)
      PROVE  Logged \subseteq Logged'
  BY <1>1, <1>4 DEF AcquireProjectorLeadership, ClaimRuntimeOutbox, DropRow,
     SkipStale, PassLive, MarkRuntimeOutboxProjected, BatchFails, ConnectionDies,
     Restart, EvictSeen, dbVars
<1>5. CASE UNCHANGED vars
  BY <1>1, <1>5 DEF vars
<1> QED
  BY <1>2, <1>3, <1>4, <1>5 DEF Next, AppendRow

\* What a step may mark, collect and remember without losing an event.
KeepsEvents ==
  /\ \A i \in projected' : i \in projected \/ \E p \in Replicas : i \in done[p]
  /\ \A p \in Replicas : \A i \in done'[p] :
       i \in done[p] \/ (Keep(i) => i \in Logged')
  /\ \A p \in Replicas : \A i \in seen'[p] :
       i \in seen[p] \/ (Keep(i) => i \in Logged')

\* Every step keeps the events it is responsible for: an event enters the done
\* and seen ids with its append, as a replay of a seen one, or because it is
\* bad, live or versioned.
LEMMA StepKeeps == ProjectorInv /\ [Next]_vars => KeepsEvents
<1> SUFFICES ASSUME ProjectorInv, [Next]_vars PROVE KeepsEvents
  OBVIOUS
<1>0. TypeOK /\ SeenKept /\ Logged \subseteq Logged'
  BY LoggedGrows DEF ProjectorInv
<1> USE <1>0
<1>1. CASE UNCHANGED <<projected, done, seen>>
  BY <1>1 DEF KeepsEvents
<1>2. ASSUME NEW p \in Replicas, NEW i \in Rows,
             \/ DropRow(p, i) \/ SkipStale(p, i)
             \/ PassLive(p, i) \/ StoreEvent(p, i)
      PROVE  KeepsEvents
  <2>1. Keep(i) => i \in Logged'
    <3>1. CASE DropRow(p, i) \/ PassLive(p, i)
      BY <3>1 DEF DropRow, PassLive, Keep
    <3>2. CASE SkipStale(p, i)
      BY <3>2 DEF SkipStale, Stale, SeenKept, Keep
    <3>3. CASE StoreEvent(p, i)
      BY <3>3, AppendGrows DEF StoreEvent, TypeOK
    <3> QED
      BY <1>2, <3>1, <3>2, <3>3
  <2>2. /\ projected' = projected
        /\ done' = [done EXCEPT ![p] = done[p] \cup {i}]
        /\ seen' = seen \/ seen' = [seen EXCEPT ![p] = seen[p] \cup {i}]
    BY <1>2 DEF DropRow, SkipStale, PassLive, StoreEvent, Advance, dbVars, memVars
  <2> QED
    BY <2>1, <2>2 DEF KeepsEvents, TypeOK
<1>3. ASSUME NEW p \in Replicas,
             \/ ClaimRuntimeOutbox(p) \/ MarkRuntimeOutboxProjected(p)
             \/ BatchFails(p) \/ Restart(p) \/ EvictSeen(p)
             \/ \E i \in Rows : StoreFails(p, i)
      PROVE  KeepsEvents
  <2>1. projected' \in {projected, projected \cup done[p]}
    BY <1>3 DEF ClaimRuntimeOutbox, MarkRuntimeOutboxProjected, BatchFails,
       Restart, EvictSeen, StoreFails, dbVars
  <2>2. done' \in {done, [done EXCEPT ![p] = {}]}
    BY <1>3 DEF ClaimRuntimeOutbox, MarkRuntimeOutboxProjected, BatchFails,
       Restart, EvictSeen, StoreFails, StepDown
  <2>3. \A q \in Replicas : seen'[q] \subseteq seen[q]
    BY <1>3 DEF ClaimRuntimeOutbox, MarkRuntimeOutboxProjected, BatchFails,
       Restart, EvictSeen, StoreFails, memVars, TypeOK
  <2> QED
    BY <2>1, <2>2, <2>3 DEF KeepsEvents, TypeOK
<1>4. CASE \/ \E i \in Rows : WorkerWrites(i)
           \/ \E p \in Replicas : AcquireProjectorLeadership(p) \/ ConnectionDies(p)
           \/ UNCHANGED vars
  BY <1>1, <1>4 DEF WorkerWrites, AcquireProjectorLeadership, ConnectionDies,
     dbVars, memVars, vars
<1> QED
  BY <1>2, <1>3, <1>4 DEF Next, AppendRow

\* The invariant holds in every reachable state.
THEOREM Invariant == Spec => []ProjectorInv
<1>1. Init => ProjectorInv
  BY TypeInit DEF Init, ProjectorInv, UnversionedKept, DoneKept, SeenKept
<1>2. ProjectorInv /\ [Next]_vars => ProjectorInv'
  <2> SUFFICES ASSUME ProjectorInv, [Next]_vars PROVE ProjectorInv'
    OBVIOUS
  <2>1. TypeOK' /\ Logged \subseteq Logged' /\ KeepsEvents
    BY TypeStep, LoggedGrows, StepKeeps DEF ProjectorInv
  <2>2. UnversionedKept'
    BY <2>1 DEF KeepsEvents, ProjectorInv, UnversionedKept, DoneKept, Keep,
       Kind, Versioned, Entity, Version
  <2>3. DoneKept' /\ SeenKept'
    BY <2>1 DEF KeepsEvents, ProjectorInv, DoneKept, SeenKept, Keep, Kind,
       Versioned, Entity, Version
  <2> QED
    BY <2>1, <2>2, <2>3 DEF ProjectorInv
<1> QED
  BY <1>1, <1>2, PTL DEF Spec

\* An event without an entity version is in the log once its row is marked,
\* however many appends, marks, connections and replicas fail.
THEOREM NothingUnversionedLost == Spec => []UnversionedKept
<1>1. ProjectorInv => UnversionedKept
  BY DEF ProjectorInv
<1> QED
  BY <1>1, Invariant, PTL

-----------------------------------------------------------------------------
(* The log implements TaskLog.                                             *)

\* Every step appends one new event to the log or leaves it alone.
LEMMA StepRefines == [Next]_vars => [TaskEvents!Next]_log
<1> SUFFICES ASSUME [Next]_vars PROVE TaskEvents!Next \/ UNCHANGED log
  OBVIOUS
<1>1. ASSUME NEW i \in Rows, AppendTaskEvent(i)
      PROVE  TaskEvents!Next \/ UNCHANGED log
  BY <1>1 DEF AppendTaskEvent, Logged, TaskEvents!Next, TaskEvents!AppendEvent,
     TaskEvents!Logged
<1>2. ASSUME NEW p \in Replicas, NEW i \in Rows, StoreEvent(p, i) \/ StoreFails(p, i)
      PROVE  TaskEvents!Next \/ UNCHANGED log
  BY <1>1, <1>2 DEF StoreEvent, StoreFails
<1>3. CASE \E i \in Rows : WorkerWrites(i)
  BY <1>3 DEF WorkerWrites
<1>4. ASSUME NEW p \in Replicas,
             \/ AcquireProjectorLeadership(p) \/ ClaimRuntimeOutbox(p)
             \/ \E i \in Rows : DropRow(p, i) \/ SkipStale(p, i) \/ PassLive(p, i)
             \/ MarkRuntimeOutboxProjected(p)
             \/ BatchFails(p) \/ ConnectionDies(p) \/ Restart(p) \/ EvictSeen(p)
      PROVE  UNCHANGED log
  BY <1>4 DEF AcquireProjectorLeadership, ClaimRuntimeOutbox, DropRow, SkipStale,
     PassLive, MarkRuntimeOutboxProjected, BatchFails, ConnectionDies, Restart,
     EvictSeen, dbVars
<1>5. CASE UNCHANGED vars
  BY <1>5 DEF vars
<1> QED
  BY <1>2, <1>3, <1>4, <1>5 DEF Next, AppendRow

\* Two projecting replicas, retried batches and unacknowledged commits are
\* invisible in task_events: it is an append-only log of distinct events.
THEOREM Refinement == Spec => ImplementsTaskLog
<1>1. Init => TaskEvents!Init
  BY DEF Init, TaskEvents!Init
<1> QED
  BY <1>1, StepRefines, PTL DEF Spec, TaskEvents!Spec, ImplementsTaskLog
-----------------------------------------------------------------------------
(* Events with a version, while no append has failed.                      *)

Durable(i) == Kind(i) = "durable"

\* NothingLost and EntityOrder rest on what the replicas remember. While no
\* append has failed, a durable event is marked, collected, remembered or
\* outrun by a remembered version only once it is in the log;
MarkedLogged == \A i \in projected : Durable(i) => i \in Logged

DoneLogged == \A p \in Replicas : \A i \in done[p] : Durable(i) => i \in Logged

SeenLogged == \A p \in Replicas : \A i \in seen[p] : Durable(i) => i \in Logged

OutrunLogged ==
  \A p \in Replicas, i \in Rows :
    (/\ Durable(i) /\ Versioned(i)
     /\ Version(i) <= entityVersion[p][Entity(i)])
        => i \in Logged

\* a row that is claimed, or logged, leaves no older event of its entity
\* behind, because the worker commits them in order.
WrittenInOrder == \A j \in written, i \in Rows : Older(i, j) => i \in written

ClaimedInOrder ==
  \A p \in Replicas, i \in Rows : \A j \in batch[p] :
    (Durable(i) /\ Older(i, j)) => i \in batch[p] \/ i \in Logged

LoggedInOrder ==
  \A j \in Logged, i \in Rows : (Durable(i) /\ Older(i, j)) => i \in Logged

OrderInv ==
  /\ MarkedLogged /\ DoneLogged /\ SeenLogged /\ OutrunLogged
  /\ ClaimedInOrder /\ LoggedInOrder /\ EntityOrder

VersionInv == TypeOK /\ WrittenInOrder /\ (storeFails = 0 => OrderInv)

\* A claim takes the pending rows from the lowest up.
LEMMA NextBatchClosed ==
  ASSUME TypeOK, NEW j \in NextBatch, NEW i \in Pending, i < j
  PROVE  i \in NextBatch
<1> DEFINE BelowI == {r \in Pending : r < i}
           BelowJ == {r \in Pending : r < j}
<1>1. /\ \A r \in Pending : r \in Nat
      /\ i \in Nat /\ j \in Nat /\ j \in Pending
  BY ProjectorAssumption DEF ProjectorAssumption, TypeOK, Pending, NextBatch
<1>2. BelowI \subseteq BelowJ
  <2> SUFFICES ASSUME NEW r \in Pending, r < i PROVE r < j
    OBVIOUS
  <2> QED
    BY <1>1
<1>3. IsFiniteSet(BelowJ)
  <2>1. BelowJ \subseteq 0 .. j
    <3> SUFFICES ASSUME NEW r \in Pending, r < j PROVE r \in 0 .. j
      OBVIOUS
    <3> QED
      BY <1>1
  <2>2. IsFiniteSet(0 .. j)
    BY <1>1, FS_Interval
  <2> QED
    BY <2>1, <2>2, FS_Subset
<1>4. /\ Cardinality(BelowI) \in Nat /\ Cardinality(BelowJ) \in Nat
      /\ Cardinality(BelowI) <= Cardinality(BelowJ)
  <2>1. IsFiniteSet(BelowI) /\ Cardinality(BelowI) <= Cardinality(BelowJ)
    BY <1>2, <1>3, FS_Subset
  <2> QED
    BY <1>3, <2>1, FS_CardinalityType
<1>5. Cardinality(BelowJ) < Batch
  BY DEF NextBatch
<1>6. Cardinality(BelowI) < Batch
  <2> HIDE DEF BelowI, BelowJ
  <2> QED
    BY <1>4, <1>5, ProjectorAssumption DEF ProjectorAssumption
<1> QED
  BY <1>6 DEF NextBatch

\* The log holds rows.
LEMMA LoggedRows == ASSUME TypeOK PROVE Logged \subseteq Rows
BY DEF Logged, TypeOK

\* The row at the head of a batch leaves no older event of its entity behind.
LEMMA HeadOldest ==
  ASSUME TypeOK, OrderInv, NEW p \in Replicas, NEW i \in Rows, HasHead(p, i),
         NEW k \in Rows, Durable(k), Older(k, i)
  PROVE  k \in Logged
<1>1. k < i /\ k \in Nat /\ i \in Nat
  BY ProjectorAssumption DEF ProjectorAssumption, Older
<1>2. k \notin batch[p]
  BY <1>1 DEF HasHead
<1> QED
  BY <1>2 DEF HasHead, OrderInv, ClaimedInOrder

\* A durable event is dropped as a replay only if it is in the log.
LEMMA StaleLogged ==
  ASSUME OrderInv, NEW p \in Replicas, NEW i \in Rows, Stale(p, i), Durable(i)
  PROVE  i \in Logged
BY DEF Stale, OrderInv, SeenLogged, OutrunLogged

\* What noting a version does to the versions a replica remembers.
LEMMA NoteVersionEffect ==
  ASSUME TypeOK, NEW p \in Replicas, NEW i \in Rows, NoteVersion(p, i),
         NEW q \in Replicas, NEW e \in Entities
  PROVE  \/ entityVersion'[q][e] = entityVersion[q][e]
         \/ Versioned(i) /\ e = Entity(i) /\ entityVersion'[q][e] = Version(i)
BY BodyType DEF NoteVersion, TypeOK

\* What taking a row off the head of a batch does, whichever way it is done.
RowTaken(p, i) ==
  /\ HasHead(p, i)
  /\ written' = written /\ projected' = projected /\ storeFails' = storeFails
  /\ batch' = [batch EXCEPT ![p] = batch[p] \ {i}]
  /\ done' = [done EXCEPT ![p] = done[p] \cup {i}]
  /\ seen' = seen \/ seen' = [seen EXCEPT ![p] = seen[p] \cup {i}]
  /\ entityVersion' = entityVersion \/ NoteVersion(p, i)
  /\ log' = log \/ (Durable(i) /\ i \notin Logged /\ log' = Append(log, i))
  /\ (Durable(i) /\ OrderInv) => i \in Logged'

\* The four ways to take a row.
LEMMA TakesRow ==
  ASSUME TypeOK, NEW p \in Replicas, NEW i \in Rows,
         \/ DropRow(p, i) \/ SkipStale(p, i)
         \/ PassLive(p, i) \/ StoreEvent(p, i)
  PROVE  RowTaken(p, i)
<1>1. CASE DropRow(p, i)
  BY <1>1 DEF DropRow, Advance, RowTaken, dbVars, memVars, faultVars, Durable
<1>2. CASE SkipStale(p, i)
  <2>1. UNCHANGED log /\ (Durable(i) /\ OrderInv => i \in Logged)
    BY <1>2, StaleLogged DEF SkipStale, dbVars
  <2>2. Logged' = Logged
    BY <2>1 DEF Logged
  <2> QED
    BY <1>2, <2>1, <2>2 DEF SkipStale, Advance, RowTaken, dbVars, faultVars
<1>3. CASE PassLive(p, i)
  BY <1>3 DEF PassLive, Advance, RowTaken, dbVars, faultVars, Durable
<1>4. CASE StoreEvent(p, i)
  <2>1. Durable(i) /\ AppendTaskEvent(i) /\ i \in Logged'
    BY <1>4, AppendGrows DEF StoreEvent, TypeOK, Durable
  <2> QED
    BY <1>4, <2>1 DEF StoreEvent, Advance, RowTaken, faultVars, AppendTaskEvent
<1> QED
  BY <1>1, <1>2, <1>3, <1>4

\* Taking a row keeps the order: its event is in the log or not durable, and
\* the older events of its entity are in the log already.
LEMMA RowTakenOrders ==
  ASSUME TypeOK, OrderInv, Logged \subseteq Logged',
         NEW p \in Replicas, NEW i \in Rows, RowTaken(p, i)
  PROVE  OrderInv'
<1>0. /\ Rows \subseteq Nat
      /\ Durable(i) => i \in Logged'
  BY ProjectorAssumption DEF ProjectorAssumption, RowTaken
<1>a. \A k \in Rows : Durable(k) /\ Older(k, i) => k \in Logged
  BY HeadOldest DEF RowTaken
<1>b. Logged' \subseteq Logged \cup {i}
  <2>1. CASE log' = log
    BY <2>1 DEF Logged
  <2>2. CASE log' = Append(log, i)
    BY <2>2 DEF Logged, TypeOK
  <2> QED
    BY <2>1, <2>2 DEF RowTaken
<1>1. MarkedLogged' /\ DoneLogged' /\ SeenLogged'
  <2>1. DoneLogged'
    BY <1>0 DEF RowTaken, OrderInv, DoneLogged, TypeOK, Durable, Kind
  <2>2. MarkedLogged'
    BY DEF RowTaken, OrderInv, MarkedLogged, Durable, Kind
  <2>3. SeenLogged'
    BY <1>0 DEF RowTaken, OrderInv, SeenLogged, TypeOK, Durable, Kind
  <2> QED
    BY <2>1, <2>2, <2>3
<1>2. OutrunLogged'
  <2> SUFFICES ASSUME NEW q \in Replicas, NEW k \in Rows, Durable(k), Versioned(k),
                      Version(k) <= entityVersion'[q][Entity(k)]
               PROVE  k \in Logged'
    BY DEF OutrunLogged, Durable, Kind, Versioned, Version, Entity
  <2>1. CASE entityVersion'[q][Entity(k)] = entityVersion[q][Entity(k)]
    BY <2>1 DEF OrderInv, OutrunLogged
  <2>2. CASE Versioned(i) /\ Entity(k) = Entity(i) /\ Version(k) <= Version(i)
    <3>1. ~Older(i, k)
      BY <2>2, BodyType, VersionsAssumption DEF VersionsAssumption
    <3>2. k = i \/ Older(k, i)
      <4>1. i \in Nat /\ k \in Nat
        BY <1>0, ProjectorAssumption DEF ProjectorAssumption
      <4> QED
        BY <2>2, <3>1, <4>1 DEF Older
    <3> QED
      BY <3>2, <1>0, <1>a
  <2> QED
    BY <2>1, <2>2, NoteVersionEffect, BodyType DEF RowTaken
<1>3. ClaimedInOrder'
  <2> SUFFICES ASSUME NEW q \in Replicas, NEW k \in Rows, NEW j \in batch'[q],
                      Durable(k), Older(k, j)
               PROVE  k \in batch'[q] \/ k \in Logged'
    BY DEF ClaimedInOrder, Durable, Older, Kind, Versioned, Version, Entity
  <2>1. j \in batch[q] /\ (k \in batch[q] => k = i \/ k \in batch'[q])
    BY DEF RowTaken, TypeOK
  <2> QED
    BY <2>1, <1>0 DEF OrderInv, ClaimedInOrder
<1>4. LoggedInOrder'
  <2> SUFFICES ASSUME NEW j \in Logged', NEW k \in Rows, Durable(k), Older(k, j)
               PROVE  k \in Logged'
    BY DEF LoggedInOrder, Durable, Older, Kind, Versioned, Version, Entity
  <2> QED
    BY <1>a, <1>b DEF OrderInv, LoggedInOrder
<1>5. EntityOrder'
  <2>1. CASE log' = log
    BY <2>1 DEF OrderInv, EntityOrder, Versioned, Version, Entity
  <2>2. CASE Durable(i) /\ i \notin Logged /\ log' = Append(log, i)
    <3>1. \A j \in Logged : Versioned(j) /\ Versioned(i) /\ Entity(j) = Entity(i)
                              => Version(j) < Version(i)
      <4> SUFFICES ASSUME NEW j \in Logged, Versioned(j), Versioned(i),
                          Entity(j) = Entity(i)
                   PROVE  Version(j) < Version(i)
        OBVIOUS
      <4>1. j \in Rows /\ j \in Nat /\ i \in Nat
        BY <1>0, LoggedRows
      <4>2. ~Older(i, j)
        BY <2>2, <4>1 DEF OrderInv, LoggedInOrder
      <4>3. Older(j, i)
        BY <2>2, <4>1, <4>2 DEF Older
      <4> QED
        BY <4>1, <4>3, VersionsAssumption DEF VersionsAssumption
    <3> SUFFICES ASSUME NEW m \in 1 .. Len(log'), NEW n \in 1 .. Len(log'), m < n,
                        Versioned(log'[m]), Versioned(log'[n]),
                        Entity(log'[m]) = Entity(log'[n])
                 PROVE  Version(log'[m]) < Version(log'[n])
      BY DEF EntityOrder, Versioned, Version, Entity
    <3>2. /\ Len(log') = Len(log) + 1 /\ Len(log) \in Nat
          /\ log'[Len(log) + 1] = i
          /\ \A l \in 1 .. Len(log) : log'[l] = log[l]
      BY <2>2 DEF TypeOK
    <3>3. m \in 1 .. Len(log) /\ log'[m] = log[m] /\ log[m] \in Logged
      BY <3>2 DEF Logged
    <3>4. CASE n = Len(log) + 1
      BY <3>1, <3>2, <3>3, <3>4
    <3>5. CASE n \in 1 .. Len(log)
      BY <3>2, <3>3, <3>5 DEF OrderInv, EntityOrder
    <3> QED
      BY <3>2, <3>4, <3>5
  <2> QED
    BY <2>1, <2>2 DEF RowTaken
<1> QED
  BY <1>1, <1>2, <1>3, <1>4, <1>5 DEF OrderInv
\* Every step keeps the order, except a failed append.
LEMMA StepOrders ==
  ASSUME VersionInv, [Next]_vars
  PROVE  storeFails' = 0 => storeFails = 0 /\ OrderInv'
<1>0. TypeOK /\ Logged \subseteq Logged'
  BY LoggedGrows DEF VersionInv
<1>1. ASSUME NEW p \in Replicas, NEW i \in Rows,
             \/ DropRow(p, i) \/ SkipStale(p, i)
             \/ PassLive(p, i) \/ StoreEvent(p, i)
      PROVE  storeFails' = 0 => storeFails = 0 /\ OrderInv'
  <2>1. RowTaken(p, i)
    BY <1>0, <1>1, TakesRow
  <2> QED
    BY <1>0, <2>1, RowTakenOrders DEF RowTaken, VersionInv
<1>2. ASSUME NEW p \in Replicas, NEW i \in Rows, StoreFails(p, i)
      PROVE  storeFails' # 0
  BY <1>0, <1>2, ProjectorAssumption DEF StoreFails, TypeOK, ProjectorAssumption
<1>3. ASSUME NEW p \in Replicas, ClaimRuntimeOutbox(p)
      PROVE  storeFails' = 0 => storeFails = 0 /\ OrderInv'
  <2> SUFFICES ASSUME storeFails = 0, OrderInv PROVE OrderInv'
    BY <1>3 DEF ClaimRuntimeOutbox, faultVars, VersionInv
  <2>1. /\ UNCHANGED <<projected, log, seen, entityVersion>>
        /\ batch' = [batch EXCEPT ![p] = NextBatch]
        /\ done' = [done EXCEPT ![p] = {}]
    BY <1>3 DEF ClaimRuntimeOutbox, dbVars, memVars
  <2>2. ASSUME NEW j \in NextBatch, NEW k \in Rows, Durable(k), Older(k, j)
        PROVE  k \in NextBatch \/ k \in Logged
    <3>1. j \in written
      BY DEF NextBatch, Pending
    <3>2. k \in written
      BY <2>2, <3>1 DEF VersionInv, WrittenInOrder
    <3>3. CASE k \in projected
      BY <2>2, <3>3 DEF OrderInv, MarkedLogged
    <3>4. CASE k \in Pending
      BY <1>0, <2>2, <3>4, NextBatchClosed DEF Older
    <3> QED
      BY <3>2, <3>3, <3>4 DEF Pending
  <2>3. Logged' = Logged
    BY <2>1 DEF Logged
  <2>4. ClaimedInOrder'
    BY <1>0, <2>1, <2>2, <2>3 DEF OrderInv, ClaimedInOrder, TypeOK, Durable,
       Older, Kind, Versioned, Version, Entity
  <2>5. MarkedLogged' /\ DoneLogged' /\ SeenLogged' /\ OutrunLogged'
    BY <1>0, <2>1, <2>3 DEF OrderInv, MarkedLogged, DoneLogged, SeenLogged,
       OutrunLogged, TypeOK, Durable, Kind, Versioned, Version, Entity
  <2>6. LoggedInOrder' /\ EntityOrder'
    BY <2>1, <2>3 DEF OrderInv, LoggedInOrder, EntityOrder, Durable, Older,
       Kind, Versioned, Version, Entity
  <2> QED
    BY <2>4, <2>5, <2>6 DEF OrderInv
<1>4. ASSUME /\ UNCHANGED <<log, storeFails>>
             /\ \A i \in projected' :
                  i \in projected \/ \E p \in Replicas : i \in done[p]
             /\ \A p \in Replicas :
                  /\ batch'[p] \in {batch[p], {}}
                  /\ done'[p] \subseteq done[p]
                  /\ seen'[p] \subseteq seen[p]
                  /\ entityVersion'[p] \in {entityVersion[p], NoVersions}
      PROVE  storeFails' = 0 => storeFails = 0 /\ OrderInv'
  <2> SUFFICES ASSUME storeFails = 0, OrderInv PROVE OrderInv'
    BY <1>4 DEF VersionInv
  <2>1. Logged' = Logged
    BY <1>4 DEF Logged
  <2>2. MarkedLogged' /\ DoneLogged' /\ SeenLogged'
    BY <1>4, <2>1 DEF OrderInv, MarkedLogged, DoneLogged, SeenLogged, Durable, Kind
  <2>3. OutrunLogged'
    <3> SUFFICES ASSUME NEW p \in Replicas, NEW i \in Rows, Durable(i),
                        Versioned(i), Version(i) <= entityVersion'[p][Entity(i)]
                 PROVE  i \in Logged
      BY <2>1 DEF OutrunLogged, Durable, Kind, Versioned, Version, Entity
    <3>1. NoVersions[Entity(i)] = 0 /\ Version(i) \in Nat /\ Version(i) > 0
      BY BodyType DEF NoVersions, Versioned
    <3>2. entityVersion'[p] = entityVersion[p]
      BY <1>4, <3>1
    <3> QED
      BY <3>2 DEF OrderInv, OutrunLogged
  <2>4. ClaimedInOrder'
    BY <1>4, <2>1 DEF OrderInv, ClaimedInOrder, Durable, Older, Kind, Versioned,
       Version, Entity
  <2>5. LoggedInOrder' /\ EntityOrder'
    BY <1>4, <2>1 DEF OrderInv, LoggedInOrder, EntityOrder, Durable, Older,
       Kind, Versioned, Version, Entity
  <2> QED
    BY <2>2, <2>3, <2>4, <2>5 DEF OrderInv
<1>5. ASSUME NEW p \in Replicas,
             \/ MarkRuntimeOutboxProjected(p) \/ BatchFails(p)
             \/ Restart(p) \/ EvictSeen(p)
      PROVE  storeFails' = 0 => storeFails = 0 /\ OrderInv'
  <2>1. UNCHANGED <<log, storeFails>>
        /\ projected' \in {projected, projected \cup done[p]}
    BY <1>5 DEF MarkRuntimeOutboxProjected, BatchFails, Restart, EvictSeen,
       dbVars, faultVars
  <2>2. /\ batch' \in {batch, [batch EXCEPT ![p] = {}]}
        /\ done' \in {done, [done EXCEPT ![p] = {}]}
        /\ entityVersion' \in {entityVersion,
                               [entityVersion EXCEPT ![p] = NoVersions]}
    BY <1>5 DEF MarkRuntimeOutboxProjected, BatchFails, Restart, EvictSeen,
       StepDown, memVars
  <2>3. \A q \in Replicas : seen'[q] \subseteq seen[q]
    BY <1>0, <1>5 DEF MarkRuntimeOutboxProjected, BatchFails, Restart, EvictSeen,
       memVars, TypeOK
  <2>4. \A q \in Replicas :
          /\ batch'[q] \in {batch[q], {}}
          /\ done'[q] \subseteq done[q]
          /\ entityVersion'[q] \in {entityVersion[q], NoVersions}
    BY <1>0, <2>2 DEF TypeOK
  <2> QED
    BY <1>4, <2>1, <2>3, <2>4
<1>6. CASE \/ \E i \in Rows : WorkerWrites(i)
           \/ \E p \in Replicas : AcquireProjectorLeadership(p) \/ ConnectionDies(p)
           \/ UNCHANGED vars
  <2>1. UNCHANGED <<projected, log, batch, done, seen, entityVersion, storeFails>>
    BY <1>6 DEF WorkerWrites, AcquireProjectorLeadership, ConnectionDies, dbVars,
       memVars, faultVars, vars
  <2> QED
    BY <1>4, <2>1
<1> QED
  BY <1>1, <1>2, <1>3, <1>5, <1>6 DEF Next, AppendRow

\* Only the worker writes, an entity's events one after another.
LEMMA StepWritesInOrder ==
  ASSUME VersionInv, [Next]_vars
  PROVE  WrittenInOrder'
<1>1. CASE written' = written
  BY <1>1 DEF VersionInv, WrittenInOrder, Older, Versioned, Version, Entity
<1>2. ASSUME NEW i \in Rows, WorkerWrites(i) PROVE WrittenInOrder'
  BY <1>2 DEF VersionInv, WorkerWrites, WrittenInOrder, Older, Versioned,
     Version, Entity
<1>3. ASSUME NEW p \in Replicas,
             \/ AcquireProjectorLeadership(p) \/ ClaimRuntimeOutbox(p)
             \/ AppendRow(p) \/ MarkRuntimeOutboxProjected(p)
             \/ \E i \in Rows : StoreFails(p, i)
             \/ BatchFails(p) \/ ConnectionDies(p) \/ Restart(p) \/ EvictSeen(p)
      PROVE  written' = written
  BY <1>3 DEF AcquireProjectorLeadership, ClaimRuntimeOutbox, AppendRow, DropRow,
     SkipStale, PassLive, StoreEvent, StoreFails, MarkRuntimeOutboxProjected,
     BatchFails, ConnectionDies, Restart, EvictSeen, dbVars
<1>4. CASE UNCHANGED vars
  BY <1>1, <1>4 DEF vars
<1> QED
  BY <1>1, <1>2, <1>3, <1>4 DEF Next

\* The invariant holds in every reachable state.
THEOREM VersionInvariant == Spec => []VersionInv
<1>1. Init => VersionInv
  <2> SUFFICES ASSUME Init PROVE VersionInv
    OBVIOUS
  <2>1. TypeOK
    BY TypeInit
  <2>2. Logged = {} /\ log = << >>
    BY DEF Init, Logged
  <2>3. WrittenInOrder
    BY DEF Init, WrittenInOrder
  <2>4. OutrunLogged
    BY BodyType DEF Init, NoVersions, OutrunLogged, Versioned
  <2>5. OrderInv
    BY <2>2, <2>4 DEF Init, OrderInv, MarkedLogged, DoneLogged, SeenLogged,
       ClaimedInOrder, LoggedInOrder, EntityOrder
  <2> QED
    BY <2>1, <2>3, <2>5 DEF VersionInv
<1>2. VersionInv /\ [Next]_vars => VersionInv'
  BY TypeStep, StepOrders, StepWritesInOrder DEF VersionInv
<1> QED
  BY <1>1, <1>2, PTL DEF Spec

\* No durable event is lost while no append has failed: two replicas at work on
\* one batch, a lost lock, a restart, a full LRU or a failed mark may repeat an
\* event but never drop one.
THEOREM NothingLostTheorem == Spec => [](storeFails = 0 => NothingLost)
<1>1. VersionInv => (storeFails = 0 => NothingLost)
  BY DEF VersionInv, OrderInv, MarkedLogged, Durable, NothingLost, Covered
<1> QED
  BY <1>1, VersionInvariant, PTL

\* The log shows the versions of an entity in order while no append has failed,
\* even when a deposed leader goes on with an old batch.
THEOREM EntityOrderTheorem == Spec => [](storeFails = 0 => EntityOrder)
<1>1. VersionInv => (storeFails = 0 => EntityOrder)
  BY DEF VersionInv, OrderInv
<1> QED
  BY <1>1, VersionInvariant, PTL
=============================================================================
