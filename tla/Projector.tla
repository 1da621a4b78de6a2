----------------------------- MODULE Projector -----------------------------
(***************************************************************************)
(* The path of a durable event of one task from runtime_outbox to          *)
(* task_events: Projector.Run (internal/task/projector.go), the in-memory  *)
(* filter of Service.appendEventRaw (internal/task/events.go) and          *)
(* Store.AppendTaskEvent (internal/store/pgstore/task_events.go), on       *)
(* several control replicas that share the database.                       *)
(*                                                                         *)
(* A replica leads while it holds an advisory lock on a connection of its  *)
(* own. It claims a batch of rows, appends their events one by one and     *)
(* marks the batch projected. If the connection dies another replica may   *)
(* lead while the first one goes on with its batch. Any database call may  *)
(* fail, before or after its commit; a replica may restart at any step.    *)
(***************************************************************************)
EXTENDS Naturals, Sequences, FiniteSets

CONSTANTS
    Replicas,     \* control replicas
    Rows,         \* outbox row ids (BIGSERIAL), in the order of the sequence
    Body,         \* Body[i]: kind, entity and version of row i's event
    Entities,     \* entities of the task, "kind:id"
    NoEntity,     \* an event that names no entity
    Batch,        \* rows claimed at a time
    MaxFaults,    \* bound on crashes, lost connections and failed marks
    MaxStoreFails,\* bound on failed appends
    NoReplica     \* the advisory lock is free

\* "bad" bodies do not decode; "live" ones have retention ephemeral. (A body
\* without tenant, task or event id takes the row's, which are NOT NULL, so the
\* store's ErrMalformedEvent is not reached from the outbox.)
ASSUME ProjectorAssumption ==
    /\ Rows \subseteq Nat
    /\ Body \in [Rows -> [kind : {"durable", "live", "bad"},
                          entity : Entities \cup {NoEntity},
                          version : Nat]]
    /\ NoEntity \notin Entities
    /\ Batch \in Nat \ {0}
    /\ MaxFaults \in Nat
    /\ MaxStoreFails \in Nat
    /\ NoReplica \notin Replicas

VARIABLES
    written,     \* rows the worker has committed
    projected,   \* rows with projected_at set
    log,         \* task_events of the task; position = seq
    lock,        \* holder of projectorLeaderKey
    pc,          \* idle, lead (between batches) or project, per replica
    batch,       \* rows of the claimed batch still to append
    done,        \* ids collected for MarkRuntimeOutboxProjected
    seen,        \* seenEvents
    entityVersion,
    faults,
    storeFails

dbVars == <<written, projected, log>>
memVars == <<seen, entityVersion>>
faultVars == <<faults, storeFails>>
vars == <<written, projected, log, lock, pc, batch, done, seen,
          entityVersion, faults, storeFails>>

Kind(i) == Body[i].kind
Entity(i) == Body[i].entity
Version(i) == Body[i].version

Versioned(i) == Entity(i) # NoEntity /\ Version(i) > 0

\* i and j are versions of one entity, i the older row.
Older(i, j) ==
    i < j /\ Versioned(i) /\ Versioned(j) /\ Entity(i) = Entity(j)

\* The one writer of an entity (see WorkerWrites) raises its version with every
\* event, so the versions of an entity go up with the row ids.
ASSUME VersionsAssumption ==
    \A i, j \in Rows : Older(i, j) => Version(i) < Version(j)

Logged == {log[n] : n \in 1 .. Len(log)}

NoVersions == [e \in Entities |-> 0]

Init ==
    /\ written = {}
    /\ projected = {}
    /\ log = << >>
    /\ lock = NoReplica
    /\ pc = [p \in Replicas |-> "idle"]
    /\ batch = [p \in Replicas |-> {}]
    /\ done = [p \in Replicas |-> {}]
    /\ seen = [p \in Replicas |-> {}]
    /\ entityVersion = [p \in Replicas |-> NoVersions]
    /\ faults = 0
    /\ storeFails = 0

-----------------------------------------------------------------------------
(* The worker (external).                                                  *)

\* Transactions of the worker commit in any order of their ids, except that
\* an entity has one writer, which commits its versions one after another.
WorkerWrites(i) ==
    /\ i \in Rows \ written
    /\ \A j \in Rows :
         (j < i /\ Versioned(i) /\ Entity(j) = Entity(i)) => j \in written
    /\ written' = written \cup {i}
    /\ UNCHANGED <<projected, log, lock, pc, batch, done>>
    /\ UNCHANGED <<memVars, faultVars>>

-----------------------------------------------------------------------------
(* Leadership.                                                             *)

AcquireProjectorLeadership(p) ==
    /\ pc[p] = "idle"
    /\ lock = NoReplica
    /\ lock' = p
    /\ pc' = [pc EXCEPT ![p] = "lead"]
    /\ UNCHANGED <<dbVars, batch, done, memVars, faultVars>>

\* run returned an error: release unlocks on p's own connection, so it cannot
\* free a lock another replica has taken since, and the batch is given up.
StepDown(p) ==
    /\ pc' = [pc EXCEPT ![p] = "idle"]
    /\ lock' = IF lock = p THEN NoReplica ELSE lock
    /\ batch' = [batch EXCEPT ![p] = {}]
    /\ done' = [done EXCEPT ![p] = {}]

\* The connection that holds the lock dies; the replica does not notice.
ConnectionDies(p) ==
    /\ faults < MaxFaults
    /\ lock = p
    /\ lock' = NoReplica
    /\ faults' = faults + 1
    /\ UNCHANGED <<dbVars, pc, batch, done, memVars, storeFails>>

\* The process restarts with empty memory.
Restart(p) ==
    /\ faults < MaxFaults
    /\ pc[p] # "idle" \/ seen[p] # {}
    /\ StepDown(p)
    /\ seen' = [seen EXCEPT ![p] = {}]
    /\ entityVersion' = [entityVersion EXCEPT ![p] = NoVersions]
    /\ faults' = faults + 1
    /\ UNCHANGED <<dbVars, storeFails>>

-----------------------------------------------------------------------------
(* One batch.                                                              *)

Pending == written \ projected

\* The Batch smallest pending ids.
NextBatch ==
    {i \in Pending : Cardinality({j \in Pending : j < i}) < Batch}

\* The claim commits at once: the rows are not locked afterwards.
ClaimRuntimeOutbox(p) ==
    /\ pc[p] = "lead"
    /\ Pending # {}
    /\ batch' = [batch EXCEPT ![p] = NextBatch]
    /\ done' = [done EXCEPT ![p] = {}]
    /\ pc' = [pc EXCEPT ![p] = "project"]
    /\ UNCHANGED <<dbVars, lock, memVars, faultVars>>

\* Mutation of Advance: the event's entity is collected instead of the row id.
AdvanceByEntity(p, i) ==
    /\ batch' = [batch EXCEPT ![p] = @ \ {i}]
    /\ done' = [done EXCEPT ![p] = @ \cup {Entity(i)}]
    /\ UNCHANGED <<pc, lock>>

\* The row at the head of the batch is finished with.
Advance(p, i) ==
    /\ batch' = [batch EXCEPT ![p] = @ \ {i}]
    /\ done' = [done EXCEPT ![p] = @ \cup {i}]
    /\ UNCHANGED <<pc, lock>>

\* Mutation of HasHead: the newest row comes first.
HasLast(p, i) ==
    /\ pc[p] = "project"
    /\ i \in batch[p]
    /\ \A j \in batch[p] : j <= i

\* The rows of a batch are taken in the order of their ids.
HasHead(p, i) ==
    /\ pc[p] = "project"
    /\ i \in batch[p]
    /\ \A j \in batch[p] : i <= j

\* Mutation of Stale: an event without a version is compared as well.
StaleUnversioned(p, i) ==
    \/ i \in seen[p]
    \/ Entity(i) # NoEntity /\ Version(i) <= entityVersion[p][Entity(i)]

\* The event is a replay this process remembers, or is not newer than the
\* version of its entity this process has seen.
Stale(p, i) ==
    \/ i \in seen[p]
    \/ Versioned(i) /\ Version(i) <= entityVersion[p][Entity(i)]

\* Mutation of DropRow: the batch ends with the decoding error.
DropRowWithError(p, i) ==
    /\ HasHead(p, i)
    /\ Kind(i) = "bad"
    /\ StepDown(p)
    /\ UNCHANGED <<dbVars, memVars, faultVars>>

\* A row that cannot be decoded is dropped: it must not block the others.
DropRow(p, i) ==
    /\ HasHead(p, i)
    /\ Kind(i) = "bad"
    /\ Advance(p, i)
    /\ UNCHANGED <<dbVars, memVars, faultVars>>

\* appendEventRaw returns nil without storing: the row counts as projected.
SkipStale(p, i) ==
    /\ HasHead(p, i)
    /\ Kind(i) # "bad"
    /\ Stale(p, i)
    /\ Advance(p, i)
    /\ seen' = [seen EXCEPT ![p] = @ \cup {i}]
    /\ UNCHANGED <<dbVars, entityVersion, faultVars>>

\* The version is recorded before the event is stored.
NoteVersion(p, i) ==
    entityVersion' = IF Versioned(i)
                       THEN [entityVersion EXCEPT ![p][Entity(i)] = Version(i)]
                       ELSE entityVersion

\* An ephemeral event passes through memory only.
PassLive(p, i) ==
    /\ HasHead(p, i)
    /\ Kind(i) = "live"
    /\ ~Stale(p, i)
    /\ Advance(p, i)
    /\ seen' = [seen EXCEPT ![p] = @ \cup {i}]
    /\ NoteVersion(p, i)
    /\ UNCHANGED <<dbVars, faultVars>>

\* Mutation of AppendTaskEvent: the event id is not looked up.
AppendAlways(i) == log' = Append(log, i)

\* One transaction under the task's advisory lock: an event that is already
\* in the log keeps its seq, a new one gets MAX(seq) + 1.
AppendTaskEvent(i) ==
    log' = IF i \in Logged THEN log ELSE Append(log, i)

StoreEvent(p, i) ==
    /\ HasHead(p, i)
    /\ Kind(i) = "durable"
    /\ ~Stale(p, i)
    /\ AppendTaskEvent(i)
    /\ Advance(p, i)
    /\ seen' = [seen EXCEPT ![p] = @ \cup {i}]
    /\ NoteVersion(p, i)
    /\ UNCHANGED <<written, projected, faultVars>>

\* The append fails, or its commit is not acknowledged: the event id is
\* forgotten, the entity's version is not, and run ends with the error.
StoreFails(p, i) ==
    /\ storeFails < MaxStoreFails
    /\ HasHead(p, i)
    /\ Kind(i) = "durable"
    /\ ~Stale(p, i)
    /\ AppendTaskEvent(i) \/ UNCHANGED log
    /\ NoteVersion(p, i)
    /\ StepDown(p)
    /\ storeFails' = storeFails + 1
    /\ UNCHANGED <<written, projected, seen, faults>>

\* Mutation of MarkRuntimeOutboxProjected: a high-water mark instead of ids.
MarkUpTo(p) ==
    /\ pc[p] = "project"
    /\ batch[p] = {}
    /\ projected' = projected \cup {i \in written : \E j \in done[p] : i <= j}
    /\ pc' = [pc EXCEPT ![p] = "lead"]
    /\ done' = [done EXCEPT ![p] = {}]
    /\ UNCHANGED <<written, log, lock, batch, memVars, faultVars>>

MarkRuntimeOutboxProjected(p) ==
    /\ pc[p] = "project"
    /\ batch[p] = {}
    /\ projected' = projected \cup done[p]
    /\ pc' = [pc EXCEPT ![p] = "lead"]
    /\ done' = [done EXCEPT ![p] = {}]
    /\ UNCHANGED <<written, log, lock, batch, memVars, faultVars>>

\* A claim or a mark fails; the mark may have been committed.
BatchFails(p) ==
    /\ faults < MaxFaults
    /\ \/ pc[p] = "lead" /\ UNCHANGED projected
       \/ /\ pc[p] = "project" /\ batch[p] = {}
          /\ projected' \in {projected, projected \cup done[p]}
    /\ StepDown(p)
    /\ faults' = faults + 1
    /\ UNCHANGED <<written, log, memVars, storeFails>>

\* The LRU of seen events is full and gives one up.
EvictSeen(p) ==
    /\ faults < MaxFaults
    /\ \E i \in seen[p] : seen' = [seen EXCEPT ![p] = @ \ {i}]
    /\ faults' = faults + 1
    /\ UNCHANGED <<dbVars, lock, pc, batch, done, entityVersion, storeFails>>

AppendRow(p) ==
    \E i \in Rows :
        DropRow(p, i) \/ SkipStale(p, i) \/ PassLive(p, i) \/ StoreEvent(p, i)

Next ==
    \/ \E i \in Rows : WorkerWrites(i)
    \/ \E p \in Replicas :
         \/ AcquireProjectorLeadership(p) \/ ClaimRuntimeOutbox(p)
         \/ AppendRow(p) \/ MarkRuntimeOutboxProjected(p)
         \/ \E i \in Rows : StoreFails(p, i)
         \/ BatchFails(p) \/ ConnectionDies(p) \/ Restart(p) \/ EvictSeen(p)

Spec == Init /\ [][Next]_vars

\* Every replica keeps trying to lead and works on what it claimed. Nothing is
\* assumed of the worker or of the faults, whose number is bounded.
Fairness ==
    \A p \in Replicas :
        /\ WF_vars(AcquireProjectorLeadership(p))
        /\ WF_vars(ClaimRuntimeOutbox(p))
        /\ WF_vars(AppendRow(p))
        /\ WF_vars(MarkRuntimeOutboxProjected(p))

FairSpec == Spec /\ Fairness

-----------------------------------------------------------------------------
(* Properties.                                                             *)

\* Every variable keeps its type.
TypeOK ==
    /\ written \subseteq Rows /\ projected \subseteq Rows
    /\ log \in Seq(Rows)
    /\ lock \in Replicas \cup {NoReplica}
    /\ pc \in [Replicas -> {"idle", "lead", "project"}]
    /\ batch \in [Replicas -> SUBSET Rows]
    /\ done \in [Replicas -> SUBSET Rows]
    /\ seen \in [Replicas -> SUBSET Rows]
    /\ entityVersion \in [Replicas -> [Entities -> Nat]]
    /\ faults \in 0 .. MaxFaults /\ storeFails \in 0 .. MaxStoreFails

\* The abstract log, over the same variable.
TaskEvents == INSTANCE TaskLog WITH Events <- Rows

\* With two replicas projecting at once, retried batches and unacknowledged
\* commits, task_events stays an append-only log with each event once.
ImplementsTaskLog == TaskEvents!Spec

\* The event of row i is in the log, or the log holds a newer state of its
\* entity.
Covered(i) ==
    \/ i \in Logged
    \/ /\ Versioned(i)
       /\ \E j \in Logged : Entity(j) = Entity(i) /\ Version(j) > Version(i)

\* A row marked projected is never looked at again, so its durable event must
\* be in the log or superseded there. This holds as long as no append fails;
\* after a failed append it does not (see the README).
NothingLost ==
    \A i \in projected : Kind(i) = "durable" => Covered(i)

\* An event that owns no entity version survives every fault, a failed append
\* included: once its row is marked, it is in the log.
UnversionedKept ==
    \A i \in projected :
        (Kind(i) = "durable" /\ ~Versioned(i)) => i \in Logged

\* While no append fails, the log shows an entity's versions in order, even
\* when a deposed leader goes on with an old batch.
EntityOrder ==
    \A m, n \in 1 .. Len(log) :
        (/\ m < n
         /\ Versioned(log[m]) /\ Versioned(log[n])
         /\ Entity(log[m]) = Entity(log[n]))
            => Version(log[m]) < Version(log[n])

\* Every row a worker commits is projected in the end: a row that cannot be
\* decoded, a lost lock or a failed batch delays the rows behind it only.
Drained == \A i \in Rows : (i \in written) ~> (i \in projected)
=============================================================================
