# orbit-control in TLA+

orbit-control is the control plane of an agent runtime. Its replicas serve an
HTTP API, keep the durable state in PostgreSQL, drive one Temporal workflow per
task and turn what the runtime reports into a task's event log and tables. This
directory models the parts where replicas, the runtime, the database and
clients meet, and the larger algorithms they run; checks them with TLC on small
instances; and proves the central facts with TLAPS for every instance.

## 1. Inventory

| component | state | operations | talks to | hard part | module |
|---|---|---|---|---|---|
| command path (`task/commands.go`, `pgstore/command_ledger.go`) | `idempotency_ledger` rows | `UpdateChecked`, `ClaimCommand`, `CompleteCommand`, `ReleaseCommand` | workflow updates, task row | leases, crashed and slow owners, lost acknowledgements | `CommandLedger` |
| projector (`task/projector.go`, `task/events.go`, `pgstore/runtime_outbox.go`, `pgstore/task_events.go`) | `runtime_outbox`, `task_events`, leader lock, `seenEvents`, `entityVersion` | claim, append, mark, leadership | worker (writes the outbox), event stream | two leaders, retried batches, out-of-order commits | `Projector` |
| event stream (`httpapi/task_events.go`, `task/subscribers.go`) | subscriber channels, the sender's cursor | `Subscribe`, fan-out, `deliver`, `catchUp`, `CloseAllSubscribers` | projector of this and of other replicas, clients | gaps, duplicates, bounded buffers, reconnects | `EventStream` |
| attempt projection (`pgstore/task_structure.go`) | `stage_attempts` | `insertAttempt`, `moveAttempt`, `resumeAttempt` | two writers of the runtime, the worker's maintenance | two orders of events on one row | `AttemptProjection` |
| approval projection (`pgstore/task_approvals.go`, `pgstore/task_events.go`) | `task_approvals`, `pending_approvals` | `insertApproval`, `decideApproval`, `updateTaskAccumulators` | projector | two representations, decisions in any order | `ApprovalProjection` |
| task row: nodes, plans, messages, manifests, budget, usage; lifecycle and reconcile (`pgstore/task_events.go`, `pgstore/task_structure.go`, `task/tasks.go`, `task/reconcile.go`) | `tasks`, `task_nodes`, `plan_versions`, `task_messages`, `artifact_manifests` | `applyEvent`, `projectNodeStatus`, `updateTaskAccumulators`, `Create`, `Delete`, `Reconcile` | projector, workflow | read, query and write back without a lock; events without a version | `TaskRow` |
| task configuration, permissions (`task/config.go`, `task/permissions.go`, `app/permissions.go`, `app/task_config.go`) | configuration versions, the user's settings | `ResolveTaskConfigUpdate`, `UpdateTaskConfig` | command path, workflow | resolving against state that moves; retries | `TaskConfig` |
| SOP registry (`task/sop.go`, `pgstore/sop.go`) | `sop_definitions` | `ValidateSOP`, `RegisterSOP` | plans | defaults against written ids, cycles, racing registrations | `SOP` |
| experts, teams, bundles (`app/experts.go`, `app/teams.go`, `app/bundle.go`, `app/expert_import.go`, `task/profiles.go`) | `agent_profiles`, `agent_profile_files` | `CreateExpert`, `UpdateExpert`, `RegisterProfile`, `ExpertFromAgent`, `ImportPersonas`, `ResolveTaskConfig` | catalog, storage | versions raced for, a form that shows part of a bundle, limits | `Bundle`, `Experts` |
| ModelScope catalog (`msmarket/`, `pgstore/skills.go`, `agents.go`, `mcpmarket.go`, `memstore/`) | three tables, skill text, icons, records of what was installed | `InstallAll`, the list pages | every replica at its start, readers | seven steps that may stop anywhere; one filter written several times | `Market` |
| in-memory event buffer and ledger (`task/events.go`, `task/command_ledger.go`) | per-task ring, LRU | append, read, trim | development set-ups | cursor arithmetic | - |
| routing (`task/routing.go`, `httpapi/internal_forward.go`) | membership, hash ring | owner, forward | replicas | stale membership | - |
| skills on disk, blobs, tenant policy, HTTP decoding, authentication, artifacts, configuration, contracts | - | reads, one-row writes, input/output, generated code | - | - | - |

What makes each one correct:

- command path: one command id means one payload and one execution; a success
  is only told when it happened; a retry is never stuck.
- projector: every durable event reaches `task_events` once, versions of an
  entity in order, and no row blocks those behind it.
- event stream: durable events in order, once, without gaps, in the end all.
- projections and the task row: a late or repeated event never moves a row
  backwards or counts twice, two representations of one fact agree, and a repair
  ends with what the workflow says.
- configuration: what an update does not name stays, and an answer is about the
  version the command made.
- SOPs: exactly what can be run is registered, and a version never changes.
- experts: no acknowledged write is lost, an edit keeps what the form cannot
  show, a team that is stored can be run, an import fits its limits.
- catalog: the copy ends as one version with its text, however installs mix and
  stop; pages, totals and counts of both stores agree.

## 2. Plan

Built, in this order: `CommandLedger` with `CommandOnce`, `Projector` with
`TaskLog` and `EventStream`, each with runs and proofs; `AttemptProjection` and
`ApprovalProjection`; then `TaskRow`, `Bundle` and `Experts`, `Market`, `SOP`
and `TaskConfig`, with runs; then the proofs about `Projector`'s versions, the
two projections, `TaskRow`, `TaskConfig`, the install of `Market`, `SOP`, `Bundle`
and `Experts`, and the pages of `Market` (section 5). Every safety property that a
run checks and that holds is proved.

Left, in the order of their worth:

1. `TaskConfig`: an abstract history of configurations (a version per command, each
   built on the one before it), which the detailed calls implement.
2. `Market`: what a start without the sidecars may still promise.
3. The routing of a request between replicas whose rings differ.

## 3. Modules and how they correspond to the code

**CommandLedger.** One request is one run of `UpdateChecked`; `pc` names the
call it is about to make: `new` (Get and the closed check), `claim`, `check`
(the caller's validation), `send` (the workflow update), `complete`, `release`.
`ledger` is the table, `workflow` the update table of the task's Temporal
workflow (external: an update id runs once), `overdue` the owners whose
`last_seen` is older than the lease on the database clock. Each call is one
action, with another for its failure; a failed statement may have been
committed. `Crash` stops a request at any call. The task's cached copy, which
`runUpdate` also writes, and the paths without a workflow or database are left
out. The request hash stands for update name and payload; `Answers` are the
bodies the update can return (bare acceptance, or with a result).

**CommandOnce.** A register per command id: bound once, executed at most once,
answered at most once and only after execution.

**Projector.** Outbox rows are their ids; `Body` gives the kind (durable, live,
bad), entity and version of a row's event. A replica is `idle`, leading between
batches (`lead`) or working on a batch (`project`). `seen` and `entityVersion`
are the two memories of `appendEventRaw`. The action for a row is the whole of
`appendEventRaw` for it: drop, skip as stale, pass through (ephemeral) or store,
and `StoreFails` is its error path. `ConnectionDies` frees the lock without the
replica noticing. `WorkerWrites` is external: rows commit in any order of ids
except that an entity's versions have one writer, which raises the version with
every event (`VersionsAssumption`). The task is one task; `AppendTaskEvent`
serialises on the task.

**TaskLog.** An append-only sequence without repetitions.

**EventStream.** The log is known by its head. `ch` is the subscriber's
channel, `room` its capacity, `lastSent` and `todo` the sender, `wire` what is
written and not yet received, `got` what the client has. `Subscribe` is two
steps because it reads the log before it takes the lock; an append of this
replica is two steps (`AppendHere`, `FanOut`) because it commits before it
takes the lock. `conn = "closing"` is a channel closed with events in it.

**AttemptProjection.** The runtime's side (external) emits events with a time
and, for the workflow's, a version; `ApplyEvent` projects one of them onto
`row`. The projector's guarantee (`EntityOrder`) is the guard `InOrder`;
`overtook` remembers that an event was projected before an older one of the
workflow, the case in which the row need not converge. Only `activity_attempt` of the resumed key
varies; `state_version` breaks ties of it in the same way. Another attempt with
the same node and number, on which `createAttempt` also conflicts, is left out.

**ApprovalProjection.** One approval, its row and its place in the list;
`offered` remembers the decisions that met a row. The events may be stored in
any order, as after a restart of the projector; their versions are the
workflow's, for which the request is the first one (`RequestFirst`).

**TaskRow.** `wf` is the workflow's own state and `log` what it emitted, in the
order the projector stores it (its guarantee). `ApplyEvent` is one transaction of
`AppendTaskEvent`; usage, budgets and approvals take two steps, `ReadColumns` and
`WriteColumns`, because a repair does not wait for the row between them. `stored`
are the events in `task_events`; `IsStored` is the lookup that stops a repeated
one. `Effect` says per column what an event does to it. `SkipEvent` is a payload the tables cannot hold: the event is kept, its
effects are undone. `Reconcile` is three actions: the read, the query of the
workflow and the write-back. The events of a node come in any order; one optional
column (`title`) stands for those an event may leave out.

**Bundle** is the algorithm of a bundle: what files are parsed and derived to
(`deriveBundle`), what the form renders over the files before (`renderBundle`) and
what an import makes of an agent's files. A text is its length; a server's name is a
sequence, so that a numbered copy of a name is another name. Names, ids and addresses
are only compared, so they are the elements of one set (`Names`); `NoConn` is the empty
string among them. The loops of the code are recursive functions: `Keep` is a filter that
keeps the order, `BoundServers` gives one server after the other a free name. The first
error of `deriveBundle` is a chain of conditions in the code's order. **Experts** has the
table: a version is a profile with its files, an update reads the latest version
in one step and registers the next in another, `/v1/profiles` registers any
spec, and an import of assistants writes one expert per step. `ResolveTaskConfig` is
what a task makes of an expert or a team.

**Market.** `run` is the program counter of each replica's `InstallAll`, one
call to the store per action; `Stop` is a stop or an error at any of them.
`mixed` remembers that installs of two versions overlapped or one followed
another that had stopped half-way, `torn` that a replica stopped with the text
gone and its record left: the two windows `InstallWhole` excludes. `Loaded` is what a
version puts into a table (a table of version 0 is empty), `Stored` what is in it now. The
reader walks the pages of a query by `PgPage` and compares each with `MemPage`: `Visible`
and `Less` are the in-memory store's conditions, `Selects` and `OrderBy` those of the SQL.
`Sorted` lists a finite set in a strict order, given as a set of pairs: the n-th row is
the one with n - 1 before it. Rows that are sorted by two columns or by three are compared
column by column (`Precedes`). A page beyond `MaxPage` cannot be asked for, so a walk ends
with as many rows as are `Reachable`. A
replacement is one transaction and taken as atomic; a text in `Snapshot` is how
many times a URL scheme is nested in it. The sidebar lists the fixed table of
categories (`mcp.go:34`), in which none is empty, so `SidebarCounts` leaves the
empty one out.

**SOP.** A step has an id, the ids it waits for, whether it has a subject, and
attempts; what is left out is given its default by position. `SOPHasCycle` is
Kahn's algorithm: `Rounds` is a recursive function that adds in each round the steps which
are `Ready`; `Runnable` is the reference definition it is
checked against: an order of the steps exists. `StoreSOP` is the insert that does
nothing when the version is there.

**TaskConfig.** Permissions stand for the configuration, since the rest is
replaced as it comes. A call resolves (`Call`), claims (`ClaimCommand`) and
runs (`RunConfigUpdate`); the workflow (external) applies an update id once and
refuses a base that is not its latest version. Settings change at any time. The
calls of one command follow each other here: concurrent ones are the subject of
`CommandLedger`. The run `config` composes `TaskConfig` and `SOP`, which share no
state; `ConfigSpec` and `SOPSpec` are the two alone, about which the theorems are.

The `MC` modules give these their small sets. A definition commented *Mutation
of* is a plausible fault of the definition below it; replacing the one by the
other must violate the property paired with it in `PROJECT.json`.

## 4. Runs

| run | shows | bounds |
|---|---|---|
| `ledger` | `LeaseExclusive`, `OneMeaning`, `NoFalseSuccess`, `ReplayIsStored`; `CommandLedger` implements `CommandOnce`; `EventuallySettled` (FM-86) | 3 requests (owner, taker-over, replayer), 1 key, 2 payloads, 2 bodies; keys do not interact |
| `projector` | `UnversionedKept`; `Projector` implements `TaskLog`; `Drained` | 2 replicas, 4 rows, batch 2, 1 failed append, 1 other fault |
| `projector_order` | `NothingLost`, `EntityOrder` without failed appends | 2 replicas, 4 rows with 3 versions of one entity, batch 2, 2 faults |
| `projector_lost_event` | finding, below | batch 3, one failed append, no other fault |
| `stream` | `InOrderOnce`, `Delivered`; no deadlock | 3 events, buffer 1, 1 ephemeral, 1 repeated, 2 faults |
| `attempt` | `TerminalForever`, `NoFalseRunning`, `Converged` | 6 events, any of them missing |
| `approval` | `LatestDecision`, `AgreeIfAskedOnce` | 2 requests, 5 decisions (one without a version, one unknown) |
| `taskrow` | `Converged`, `NodeLatest`, `NodeFactsKept` | 3 events of the task, 3 of a node (2 versions, 1 without), 1 skip, 2 repairs, 1 approval |
| `experts` | `AnswersHold`, `EditKeeps`, `TeamsRunnable`, `FormRoundTrip`, `ImportFits`, `ImportedOnceAlone` | 2 callers, 2 experts of 2 versions, 5 forms, 5 agents at the limits (of text, of files without and with room for `mcp.json`, of connectors), 2 assistants, 4 connectors (two of one name, one showing a credential), 1 profile by hand; a prompt of 4, 9 files and 2 references stand for the limits |
| `market` | `InstallWhole`, `WalkWhole`, `SidebarCounts` | 2 replicas, 2 versions, 3 starts, 2 text batches, pages of 2 over up to 3 rows of each table |
| `market_text` | finding, below | the same with 4 starts |
| `config` | `PermissionsKept`, `AnswerHolds`, `RepeatAnswered`; `SOPRunnable`, `RegisteredHolds` | 3 updates of 2 calls each, 2 changes of settings; all SOPs of up to 3 steps over 3 ids and 6 lists of dependencies, then 4 that may be registered under the same version |

Why the bounds are enough to be interesting: three requests are needed for an
owner, the one that takes over and the one that is given the replay; two
replicas for a deposed leader that goes on; a buffer of one is full after one
event, so drops and gaps happen at once; batches smaller and larger than the
distance between two versions of an entity are both covered. Two repairs are
needed for one to mend what another left; two callers for a raced version; three
starts for two overlapping installs and one after a stop; three updates for one
that states nothing, one that leaves its rule to the settings, and one that states all. Three steps
make the shortest cycle that is not a pair. Counters of faults,
events, calls and time are the only artificial bounds, each a named constant.

Deadlock is not checked where the system may stop: when every request is
answered, every row projected, every event stored or every bounded call made.
The stream never stops (its ticker), so there deadlock is checked.

Fairness. `CommandLedger`: a running request goes on, since each of its calls
ends in an answer, a timeout or a lost connection; the caller retries; the
database clock advances. Nothing is assumed of crashes. `Projector`: `Run` loops
forever on every replica, so acquisition, claim, append and mark are each weakly
fair; faults are bounded, as no progress is possible if every batch fails.
`EventStream`: the ticker fires every second and the handler's select takes it,
frames are received, a client reconnects. Live delivery is not assumed fair.
The modules added since (`TaskRow`, `Experts`, `Market`, `SOP`, `TaskConfig`) state safety
only, in forms such as "once every event is projected": their calls may fail for good, and
nothing in the code retries them.

### Findings

- `projector_lost_event` (a bug): `appendEventRaw` records an entity's version
  before storing the event and keeps it when the store fails; the retried row
  is skipped as stale and marked projected. One failed append of a versioned
  event, for instance a broken connection, loses that event for good if the
  same process retries it. Order suffers with it: another replica may still
  store an older version after a newer one.
- `market_text` (a bug): `installEmbedded` records the snapshot and only then
  empties the record of the skill text. A replica that stops between the two
  leaves the skills without text for good: the next start finds both records
  current.

### Known divergences

Met while modelling, smaller, and without a run of their own. The modules keep
the definitions named here: listing one in the module's configuration shows the
counterexample.

- `CommandLedger.RetryGetsStored`: a retry of a message that succeeded before the
  task was cancelled is answered *closed* (`commands.go:28`), not with the stored
  result (`commands.go:19-20`, `task_mentions_test.go:138`).
- `CommandLedger.SameBody`: an owner that was taken over answers its own body,
  which may differ from the stored one (`commands.go:65`, `docs/openapi.yaml:1201`). The owner need not have died: nothing renews a
  claim, and the command's check and the ledger calls have no deadline, so a
  slow request outlives its lease (the exception in `LeaseExclusive`). That is
  harmless for the execution, which the workflow deduplicates (`ImplementsOnce`).
- `ApprovalProjection.ListsAgree`: a repeated request puts a decided approval
  back into the pending list (`pgstore/task_events.go:199`).
- `ApprovalProjection.DecisionFirstKept`: a decision before its request is
  forgotten (`task_approvals.go:38`).
- `Experts.ImportedOnce`: `ImportPersonas` promises each assistant once
  (`expert_import.go:216`), but an edit of an imported expert drops its source,
  and two overlapping calls both import. `ImportedOnceAlone` is what holds.
- A retry of a configuration update is resolved anew before the ledger is asked
  (`task_routes.go`, the route of `PUT /v1/tasks/:taskId/config`), so a request that left
  something out may be told that its command id belongs to another request.
  `RepeatAnswered` says when.
- A replica that starts without the sidecars beside one that has them may leave
  the catalog without text for good (section 5, on `InstalledWhole`).
- A rollback to the recorded version after an upgrade that stopped half-way
  skips the install, and the three tables stay mixed (`mixed` in `InstallWhole`).
- After an event of a node without a version, an older version may overwrite a
  newer status (`NodeLatest` assumes versions); `moveAttempt` does the same.
- `dropURLs` is applied once to a text in which a scheme is nested; the page of a
  server is checked again after it, the fields of its tools are not.
- `AfterSeq` of an ephemeral event (`events.go:109`) is a hint only; `Subscribe`
  (`subscribers.go:19`) swallows `ErrCursor`; the walk over a skill's directory
  (`skillstore/store.go:89`) may see two versions of it; a team may be replaced
  between the check of a mention (`mentions.go:43`) and the message. None of
  these is reached by a property here.

## 5. Proofs

All theorems are for arbitrary constants that satisfy the named assumptions of
their module; no bound of the runs is used. Each property below is checked by
TLC on the module's run, too.

### Assumptions

Most say only that a constant is of its kind (a bound is a number, a marker for
"none" is no value). The ones that say something of the system:

- `VersionsAssumption` (`Projector`): the versions of an entity go up with the ids
  of its rows. Each entity has one writer, which numbers its events as it writes
  them.
- `RequestFirst` (`ApprovalProjection`): a decision that carries a version carries
  a later one than the request, which creates the approval.
- `ConfigAssumption` (`TaskConfig`): requests are among what `validatePermissions`
  lets through, and settings always state a rule (`SaveUserSettings`).
- `InstallAssumption` (`Market`): a shipped version is not that of an empty store.
- `RowsAssumption` (`Market`): a snapshot is finite, and in the tables made from it no two
  rows have one id, the primary key. The columns that the lists compare are integers.
- `QueryAssumption` (`Market`): a walk asks for its first page first.
- `ExpertsAssumption`: a form has no source, which only imports set; the id of an assistant
  is not that of a catalog agent, since the stored source has a prefix that tells them apart
  (`expert_import.go`); an agent has finitely many files; a spec sent to `/v1/profiles` names no
  bundle digest. The last is about the caller, not the code: the route stores whatever spec it
  is given, with no files (`task_routes.go:77`). A spec copied from a stored expert, digest
  and all, would be a version without files until a racing edit registers the same spec and
  fills them in, and an edit based on it in between would have dropped what the files hold.
- `BundleAssumption` and `SOPAssumption`: kinds only. `NoConn`, the empty string, is the id
  of no skill and of no connector; part of a prompt is reserved for the instructions.
- `StoredAssumption` (`SOP`): a normalized definition is not the marker for none.
- `InstalledWhole` has a hypothesis of its own, `Dirs \subseteq {TRUE}`: every start
  finds the sidecars, as when all replicas run one image with one configuration.
  It is needed. A replica without them may replace the catalog and empty the
  record of the text while another fills the text in and then sets the record;
  later starts find the record and skip. TLC shows this with `FALSE` added to
  `Dirs`.

### What is proved

**CommandLedgerProofs** proves `TypeOK`, `LeaseExclusive`, `OneMeaning`,
`NoFalseSuccess`, `ReplayIsStored` and the refinement of `CommandOnce`. None of
them is inductive: exclusion needs that a request past its claim owns the row
unless it is overdue, honesty that a body exists only after the workflow took
the payload, and the replay that a succeeded row is never written again.
`LedgerInv` joins these. The statements on the table (claim, store, release) are
shown once to be *safe writes*: they keep the row's shape, never rebind its hash
and leave a succeeded row alone. A step of a request that writes safely
preserves the invariant (`SafeStep`), so each action needs only its own part.

**ProjectorProofs** proves `TypeOK`, `UnversionedKept`, the refinement of
`TaskLog`, and `NothingLost` and `EntityOrder` as long as no append has failed
(with one that has, the finding refutes the first). `UnversionedKept` needs two
facts about memory: an id a replica has collected for the mark, or remembers as
seen, is in the log if it is durable and unversioned (`DoneKept`, `SeenKept`). The
log only grows, so other replicas cannot break them; a failed append adds to
neither. With versions there is a third memory: a version a replica
remembers means that every older event of the entity is logged (`OutrunLogged`).
That is kept because nothing overtakes: a row that is written, claimed or logged
leaves no older event of its entity unwritten, outside the batch or out of the log
(`WrittenInOrder`, `ClaimedInOrder`, `LoggedInOrder`). `NextBatchClosed` is the
lemma on `ORDER BY id LIMIT`: a batch that holds a row holds every lower pending
one.

**EventStreamProofs** proves `TypeOK` and `InOrderOnce`. The invariant follows
the events backwards from the client: what it has is consecutive, the frames on
the wire continue it, the sender's cursor is the last one written, and what was
fetched continues the cursor. Nothing is needed about the channel: whatever is
in it, the sender compares it with its cursor.

**ProjectionProofs** proves, of `AttemptProjection`, `TypeOK`, `TerminalForever`,
`NoFalseRunning` and `Converged`. `RuntimeInv` is about the runtime: an event is identified by its
time, the workflow's versions go up with it, started comes first and finished
last, and the last event says what the attempt is doing. `RowInv` is about the row: its
version is that of a stored event of the workflow, a parked row carries the time of
the last stored park, only the end of the attempt closes it, and as long as
nothing overtook, the row follows the newest stored event of the workflow
(`RowFollows`). `NoFalseRunning` is the park's stamp; `Converged` is `RowFollows`
once everything is stored.

Of `ApprovalProjection` it proves `ApprovalType`, `LatestDecision` and
`AgreeIfAskedOnce`. A decided row holds a decision it has met, and none with a higher version
(`RowDecided`); a pending row has met none and holds the version of a request
(`RowRequested`), so that with `RequestFirst` every valid decision takes it. The
lists agree because a decision that the row refuses finds the approval gone
from the pending list, and only a second request can put it back.

**TaskRowProofs** proves `NodeLatest`, `NodeFactsKept` and `Converged`. The
invariant `TaskInv` says that there is a chain `S` of states: `S[0]` is the fresh task,
`S[k]` is `S[k - 1]` after the effect of the `k`-th event, and the last is the
workflow's. While `clean`, the row is `S[stored]` (`RowFollows`); an event
between its read and its write is the next one and has read the row as it is, if
no repair came between (`ApplyingInv`). A repair writes back the workflow's state,
the last of the chain, and leaves `clean` set only where that is also
`S[stored]`. The chain is a bound variable, not a recursive definition, which
is why no induction over data is needed: emitting an event extends it by one.
`HistoryInv` is the same for the rows that are only inserted.

**ConfigProofs** proves `PermissionsKept`, `AnswerHolds` and `RepeatAnswered`. `ConfigInv` says that a version was made
by the one command that built on the version before it, that a call which states no
permissions carries those of its base while the base is the last version, that
a finished row of the ledger names a version its command made, and what the payload
of a command must be as long as nothing it left open has changed (`CallPayload`,
`LedgerPayload`): a conflict is then impossible.

**RegistryProofs** is about the two registries that store definitions under versions.

What a recursive function computes for every input is an induction over data. The
library's induction theorems take an operator as a parameter; here the property is the
set of the numbers (`SetInduction`) or sequences (`SeqInduction`) that have it, which
needs no such parameter. `Iterates` and `KeepDef` say that a recursive function
obeys its definition.

*SOP.* `SOPRunnable`: after as many rounds as there are steps, exactly the definitions
that run in some order are done. One way, the step at place k of the order is ready by
round k; the other way, steps listed by the round in which they become ready are an order.
The defaults matter, as distinct names are what lets a step be identified by its
name: a default id is another default only at the same place. `RegisteredHolds` needs that
an answer was given only after a definition was stored, and the insert never changes one
that is there.

*Bundle.* Lemmas on filters come first (of two sequences in a row, of a filter, the place an
element came from). From them: `RenderSkills` keeps the entries that are not the form's,
in their order, and lists each of the form's skills once; `RenderServers` keeps the unbound
servers, binds each connector once and never gives a name twice. A free name always exists
because one number more is tried than names are taken. So a rendered bundle is read back as
the form, and its unowned parts are those of the base, for every base that can be read
(`Readable`), unless two skills have one name, a connector shows a credential or there are
too many files.

*Experts.* `ExpertsInv` joins the following. A row of the table says of its files what they
are and they can be read back; what the API wrote has the version before it; a stored
team's members are stored experts (`RowsOK`). A caller in the middle of an update has read a
version that is still there and will write the next (`CallsOK`). The two facts that no
property says by itself: a row never changes, for a second registration is accepted only with the
same digest, which stands for the files; and the version before an update exists, so that the
base is what `EditKeeps` compares with. Every write of the API is one lemma, which shows that a
new row is as every row and that the caller's answer is true of it; every other row
stays. `TeamsRunnable`, `AnswersHold` and `EditKeeps` follow, and `FormRoundTrip`
since every stored base is readable. `ImportFits` goes through the steps of
`ExpertFromAgent`: what is bound shows no credential and no connector is bound twice
(`ImportMCP`), the prompt is cut to fit (`FitPrompt`), and the rendering adds at most one file
of each kind. `ImportedOnceAlone` needs that, while only one import runs and nobody edits
what was imported, what an import still has to do has not been done (`ImportsOK`).

**MarketProofs** proves `SidebarCounts`, `InstallWhole` and `WalkWhole`. The first holds of every
state: `SameRows` shows that the list's filter with only a category and the
count's own condition select the same rows. `InstallInv` says for each step of
an install which tables hold its version. Outside `mixed`, all running installs
are of one version; tables that were not yet replaced hold the recorded one or the
new one, and the skills are the first to change (`OneVersion`, `Recorded`, `Replaced`,
`OneIsStored`, which together keep a skipped install honest). Outside `torn`
too, the text is whole, or the replacement that wiped it is not recorded, so that
the next start repeats it, or the replica that wiped it is on its way to fill all of
it (`Heals`), or its record is empty and whoever still ends fills it (`TextInv`). Icons are only added
(`IconsInv`).

`WalkWhole` has two halves. The pages of the two stores are equal in every state: the SQL
filter and the visibility select the same rows (`SameSelection`), the columns of `ORDER BY`
order them as the comparison does (`SameOrder`), and `LIMIT` and `OFFSET` cut what the
slice cuts (`SamePage`). That there is a page to speak of rests on `SortedLists`: a strict
total order on a finite set gives each row a rank of its own, so by counting there is one of
each rank and `Sorted` is a list of all rows without repeats. The order is strict because
ties go by id and ids are unique. The other half is an invariant over the steps of the reader
(`WalkInv`): as long as the table is the one the walk began with, the rows read so far
are the beginning of the sorted list, as long as the pages before this one, and
the total is the length of the list. A page that is not full is then the rest of it.

### What is only model-checked

- `EventuallySettled`, `Drained`, `Delivered`: liveness under fairness is out of the
  prover's reach.
- The two findings: a counterexample is TLC's to give. The proofs say what holds instead
  (`NothingLost` without failed appends, `InstallWhole` outside `torn`).
- The definitions under the known divergences, which do not hold.

## 6. Not modelled

The components listed as `not_modelled` in `PROJECT.json`, with the reason. The
larger ones: the consistent hash and the forwarding between replicas (a window
in which two replicas hold different rings is listed as a hazard), the paths
without a database, for development, the tenant's policy (one document, validated
and replaced as a whole), plain reads and one-row writes of the catalog, and
generated code.

Inside the modelled ones: LISTEN/NOTIFY (a shortcut of the poll), heartbeats,
ephemeral events merged into a replay, the columns that no condition reads,
tenant scoping (every key contains the tenant), limits on the lengths of names
and texts other than the prompt's, the collation by which each store orders and
compares names, the creation of connectors and skills, which are constant for
`Experts`, and the cached task of a process without a projection store.
