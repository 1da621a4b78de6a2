--------------------------- MODULE CommandLedger ---------------------------
(***************************************************************************)
(* The API command path of orbit-control: Service.UpdateChecked            *)
(* (internal/task/commands.go) over the PostgreSQL command ledger          *)
(* (internal/store/pgstore/command_ledger.go).                             *)
(*                                                                         *)
(* Each request is one run of UpdateChecked on some replica: it admits the *)
(* command against the task's status, claims the ledger row of the         *)
(* command id, runs its check, sends the Update to the task's workflow and *)
(* stores the answer. Replicas share only the table and the workflow.      *)
(* Every database or workflow call may fail, and a failed write may still  *)
(* have been committed; a request may die with its replica at any step.    *)
(*                                                                         *)
(* Left out: the task cache of a replica, which runUpdate also writes      *)
(* (applyUpdateProjection, runConfigUpdate) and which Get refreshes from   *)
(* the projected row before the next command reads it, and the paths       *)
(* without a workflow or without a database, which exist for development.  *)
(***************************************************************************)

CONSTANTS
    Requests,       \* request ids; the same values are the claim owners
    Keys,           \* ledger keys: tenant, task and command_id
    Hashes,         \* request hashes: update name and payload
    Answers,        \* bodies orch.UpdateTask may answer an accepted update with
    ClosedRefuses,  \* hashes of sendMessage and updateTaskConfig
    Nobody,         \* a NULL owner
    NoHash,         \* the workflow has not taken the update
    NoAnswer        \* no stored result, no body

ASSUME LedgerAssumption ==
    /\ ClosedRefuses \subseteq Hashes
    /\ Nobody \notin Requests
    /\ NoHash \notin Hashes
    /\ NoAnswer \notin Answers

VARIABLES
    cmd,       \* the command each request carries
    pc,        \* where each request is in UpdateChecked
    raw,       \* the body the workflow answered it with
    reply,     \* what the caller is told
    ledger,    \* idempotency_ledger, scope api_command
    overdue,   \* owners whose last_seen is older than the lease
    workflow,  \* payload the task's workflow took under this update id
    closed     \* the projected task status is CANCELLED

vars == <<cmd, pc, raw, reply, ledger, overdue, workflow, closed>>

Command == [key : Keys, hash : Hashes]

Row == [status : {"absent", "started", "succeeded"},
        hash   : Hashes \cup {NoHash},
        owner  : Requests \cup {Nobody},
        result : Answers \cup {NoAnswer}]

NoRow == [status |-> "absent", hash |-> NoHash,
          owner |-> Nobody, result |-> NoAnswer]

Reply == [kind : {"none", "ran", "replayed", "conflict", "in_progress",
                  "closed", "failed"},
          body : Answers \cup {NoAnswer}]

Told(kind, body) == [kind |-> kind, body |-> body]

\* The request is past its claim: it runs the command and still owns, or
\* believes it owns, the ledger row.
HoldingSteps == {"check", "send", "complete", "release"}

Holding(r) == pc[r] \in HoldingSteps

KeyOf(r) == cmd[r].key

HashOf(r) == cmd[r].hash

Init ==
    /\ cmd \in [Requests -> Command]
    /\ pc = [r \in Requests |-> "new"]
    /\ raw = [r \in Requests |-> NoAnswer]
    /\ reply = [r \in Requests |-> Told("none", NoAnswer)]
    /\ ledger = [k \in Keys |-> NoRow]
    /\ overdue = {}
    /\ workflow = [k \in Keys |-> NoHash]
    /\ closed = FALSE

-----------------------------------------------------------------------------
(* Steps of one request.                                                   *)

Goto(r, step) == pc' = [pc EXCEPT ![r] = step]

AnswerWith(r, kind, body) ==
    /\ Goto(r, "answered")
    /\ reply' = [reply EXCEPT ![r] = Told(kind, body)]

\* Get and the closed check: a cancelled task takes no message and no
\* configuration change, and this is settled before the ledger is read.
Admit(r) ==
    /\ pc[r] = "new"
    /\ IF closed /\ HashOf(r) \in ClosedRefuses
         THEN AnswerWith(r, "closed", NoAnswer)
         ELSE Goto(r, "claim") /\ UNCHANGED reply
    /\ UNCHANGED <<cmd, raw, ledger, overdue, workflow, closed>>

\* Get fails: the task is not the caller's, or the database cannot be read.
GetFails(r) ==
    /\ pc[r] = "new"
    /\ AnswerWith(r, "failed", NoAnswer)
    /\ UNCHANGED <<cmd, raw, ledger, overdue, workflow, closed>>

\* Mutations of Claimable: a takeover that ignores the lease, one that ignores
\* the row's status, and one that waits for a release.
ClaimableAtOnce(row) == row.status = "started"

ClaimableFinished(row) == row.owner = Nobody \/ row.owner \in overdue

ClaimableReleased(row) == row.status = "started" /\ row.owner = Nobody

\* The condition of the takeover UPDATE.
Claimable(row) ==
    /\ row.status = "started"
    /\ row.owner = Nobody \/ row.owner \in overdue

\* Mutation of CanClaim: the row's request hash is not compared.
CanClaimAnyHash(r) ==
    LET row == ledger[KeyOf(r)] IN row.status = "absent" \/ Claimable(row)

\* INSERT ... ON CONFLICT DO NOTHING, or the takeover of a row that may be
\* claimed: in both cases the row is started and owned by r.
CanClaim(r) ==
    LET row == ledger[KeyOf(r)]
    IN \/ row.status = "absent"
       \/ row.hash = HashOf(r) /\ Claimable(row)

OwnRow(r) ==
    [ledger EXCEPT ![KeyOf(r)] = [status |-> "started", hash |-> HashOf(r),
                                  owner |-> r, result |-> NoAnswer]]

ClaimCommand(r) ==
    /\ pc[r] = "claim"
    /\ CanClaim(r)
    /\ ledger' = OwnRow(r)
    /\ Goto(r, "check")
    /\ UNCHANGED <<cmd, raw, reply, overdue, workflow, closed>>

\* The other answers of claimLedgerRow, none of which writes the row.
ClaimRefused(r) ==
    LET row == ledger[KeyOf(r)]
    IN /\ pc[r] = "claim"
       /\ ~CanClaim(r)
       /\ CASE row.hash # HashOf(r)      -> AnswerWith(r, "conflict", NoAnswer)
            [] row.hash = HashOf(r) /\ row.status = "succeeded"
                                         -> AnswerWith(r, "replayed", row.result)
            [] OTHER                     -> AnswerWith(r, "in_progress", NoAnswer)
       /\ UNCHANGED <<cmd, raw, ledger, overdue, workflow, closed>>

\* The claim fails: the caller is answered an error. The transaction may have
\* been committed before the connection was lost, and then nobody releases it.
ClaimFails(r) ==
    /\ pc[r] = "claim"
    /\ AnswerWith(r, "failed", NoAnswer)
    /\ \/ UNCHANGED ledger
       \/ CanClaim(r) /\ ledger' = OwnRow(r)
    /\ UNCHANGED <<cmd, raw, overdue, workflow, closed>>

CheckPasses(r) ==
    /\ pc[r] = "check"
    /\ Goto(r, "send")
    /\ UNCHANGED <<cmd, raw, reply, ledger, overdue, workflow, closed>>

CheckFails(r) ==
    /\ pc[r] = "check"
    /\ Goto(r, "release")
    /\ UNCHANGED <<cmd, raw, reply, ledger, overdue, workflow, closed>>

\* External: the workflow runs an update id once; a second send of the id
\* joins the update that is already there.
Take(r) ==
    workflow' = IF workflow[KeyOf(r)] = NoHash
                  THEN [workflow EXCEPT ![KeyOf(r)] = HashOf(r)]
                  ELSE workflow

\* Mutation of SendAccepted: the body of a call that ended in a timeout is
\* taken for an acceptance.
SendAcceptedOnTimeout(r, body) ==
    /\ pc[r] = "send"
    /\ Take(r) \/ UNCHANGED workflow
    /\ raw' = [raw EXCEPT ![r] = body]
    /\ Goto(r, "complete")
    /\ UNCHANGED <<cmd, reply, ledger, overdue, closed>>

\* The update is accepted. The body is the bare acceptance or carries the
\* result, depending on how long the workflow takes to finish it.
SendAccepted(r, body) ==
    /\ pc[r] = "send"
    /\ Take(r)
    /\ raw' = [raw EXCEPT ![r] = body]
    /\ Goto(r, "complete")
    /\ UNCHANGED <<cmd, reply, ledger, overdue, closed>>

\* The call is refused or times out; on a timeout the workflow may have
\* taken the update all the same.
SendFails(r) ==
    /\ pc[r] = "send"
    /\ Take(r) \/ UNCHANGED workflow
    /\ Goto(r, "release")
    /\ UNCHANGED <<cmd, raw, reply, ledger, overdue, closed>>

\* The row the owner's conditional UPDATE may change.
Owns(r) ==
    /\ ledger[KeyOf(r)].status = "started"
    /\ ledger[KeyOf(r)].owner = r

\* Mutation of StoreResult: the UPDATE has no owner condition.
StoreResultAnyOwner(r) ==
    ledger' = [ledger EXCEPT ![KeyOf(r)].status = "succeeded",
                             ![KeyOf(r)].result = raw[r]]

\* Nothing matches when the claim was taken over: the row is left alone.
StoreResult(r) ==
    ledger' = IF Owns(r)
                THEN [ledger EXCEPT ![KeyOf(r)].status = "succeeded",
                                    ![KeyOf(r)].result = raw[r]]
                ELSE ledger

\* The caller gets its own body whether or not the row took it.
CompleteCommand(r) ==
    /\ pc[r] = "complete"
    /\ StoreResult(r)
    /\ AnswerWith(r, "ran", raw[r])
    /\ UNCHANGED <<cmd, raw, overdue, workflow, closed>>

CompleteFails(r) ==
    /\ pc[r] = "complete"
    /\ StoreResult(r) \/ UNCHANGED ledger
    /\ Goto(r, "release")
    /\ UNCHANGED <<cmd, raw, reply, overdue, workflow, closed>>

\* Mutation of ClearOwner: a release with a status of its own, which no other
\* statement knows.
ClearOwnerByStatus(r) ==
    ledger' = IF Owns(r)
                THEN [ledger EXCEPT ![KeyOf(r)].status = "released"]
                ELSE ledger

ClearOwner(r) ==
    ledger' = IF Owns(r)
                THEN [ledger EXCEPT ![KeyOf(r)].owner = Nobody]
                ELSE ledger

\* releaseCommand ignores the error of the release.
ReleaseCommand(r) ==
    /\ pc[r] = "release"
    /\ ClearOwner(r) \/ UNCHANGED ledger
    /\ AnswerWith(r, "failed", NoAnswer)
    /\ UNCHANGED <<cmd, raw, overdue, workflow, closed>>

\* A caller told IN_PROGRESS sends the same command again. The owner id of
\* the refused try was never stored, so the retry may carry it.
Retry(r) ==
    /\ pc[r] = "answered"
    /\ reply[r].kind = "in_progress"
    /\ Goto(r, "new")
    /\ reply' = [reply EXCEPT ![r] = Told("none", NoAnswer)]
    /\ UNCHANGED <<cmd, raw, ledger, overdue, workflow, closed>>

-----------------------------------------------------------------------------
(* The environment.                                                        *)

\* The replica that runs the request dies.
Crash(r) ==
    /\ pc[r] \in {"claim"} \cup HoldingSteps
    /\ Goto(r, "dead")
    /\ UNCHANGED <<cmd, raw, reply, ledger, overdue, workflow, closed>>

\* The database clock passes last_seen + lease of a claim. Nothing renews a
\* claim, so this depends on the age of the claim alone.
LeasePasses(r) ==
    /\ Owns(r)
    /\ r \notin overdue
    /\ overdue' = overdue \cup {r}
    /\ UNCHANGED <<cmd, pc, raw, reply, ledger, workflow, closed>>

\* The task's cancellation reaches the projected row.
CloseTask ==
    /\ ~closed
    /\ closed' = TRUE
    /\ UNCHANGED <<cmd, pc, raw, reply, ledger, overdue, workflow>>

Step(r) ==
    \/ Admit(r) \/ GetFails(r)
    \/ ClaimCommand(r) \/ ClaimRefused(r) \/ ClaimFails(r)
    \/ CheckPasses(r) \/ CheckFails(r)
    \/ \E body \in Answers : SendAccepted(r, body)
    \/ SendFails(r)
    \/ CompleteCommand(r) \/ CompleteFails(r)
    \/ ReleaseCommand(r)

Next ==
    \/ \E r \in Requests : Step(r) \/ Retry(r) \/ Crash(r) \/ LeasePasses(r)
    \/ CloseTask

Spec == Init /\ [][Next]_vars

(***************************************************************************)
(* Fairness: a request that is running goes on, by success or by an error  *)
(* (every call it makes ends: in an answer, a timeout or a lost            *)
(* connection), a caller told IN_PROGRESS retries, and the database clock  *)
(* advances. Crash and CloseTask need never happen.                        *)
(***************************************************************************)
Fairness ==
    \A r \in Requests :
        WF_vars(Step(r)) /\ WF_vars(Retry(r)) /\ WF_vars(LeasePasses(r))

FairSpec == Spec /\ Fairness

-----------------------------------------------------------------------------
(* Properties.                                                             *)

\* Every variable keeps its type.
TypeOK ==
    /\ cmd \in [Requests -> Command]
    /\ pc \in [Requests -> {"new", "claim", "answered", "dead"}
                             \cup HoldingSteps]
    /\ raw \in [Requests -> Answers \cup {NoAnswer}]
    /\ reply \in [Requests -> Reply]
    /\ ledger \in [Keys -> Row]
    /\ overdue \subseteq Requests
    /\ workflow \in [Keys -> Hashes \cup {NoHash}]
    /\ closed \in BOOLEAN

\* Two requests run the same command at once only when the lease of one of
\* them has passed: the ledger is a lock for a live owner within its lease,
\* across replicas, failed releases and lost acknowledgements.
LeaseExclusive ==
    \A r, s \in Requests :
        (r # s /\ Holding(r) /\ Holding(s) /\ KeyOf(r) = KeyOf(s))
            => (r \in overdue \/ s \in overdue)

\* One command_id never means two commands: whatever request sends, crashes
\* and is taken over, the workflow takes a key with the payload the ledger
\* row is bound to, and so does every request that runs it.
OneMeaning ==
    \A k \in Keys :
        /\ workflow[k] # NoHash => ledger[k].hash = workflow[k]
        /\ \A r \in Requests :
             (Holding(r) /\ KeyOf(r) = k) => ledger[k].hash = HashOf(r)

\* A stored or reported success is true: a row is succeeded, and a caller is
\* given a body, only if the workflow took that caller's own payload.
NoFalseSuccess ==
    /\ \A k \in Keys :
         ledger[k].status = "succeeded" =>
             ledger[k].result \in Answers /\ workflow[k] = ledger[k].hash
    /\ \A r \in Requests :
         reply[r].kind \in {"ran", "replayed"} =>
             reply[r].body \in Answers /\ workflow[KeyOf(r)] = HashOf(r)

\* A replayed body is what the ledger still holds, however late the first
\* owner and the ones that took over from it finish.
ReplayIsStored ==
    \A r \in Requests :
        reply[r].kind = "replayed" =>
            /\ ledger[KeyOf(r)].status = "succeeded"
            /\ reply[r].body = ledger[KeyOf(r)].result

\* The register of CommandOnce, read off the row's hash and result and the
\* workflow's update table.
Once == INSTANCE CommandOnce
          WITH bound    <- [k \in Keys |-> ledger[k].hash],
               executed <- [k \in Keys |-> workflow[k] # NoHash],
               answer   <- [k \in Keys |-> ledger[k].result]

\* The ledger implements the command register: no interleaving of owners,
\* takeovers and late answers rebinds, re-executes or re-records a command.
ImplementsOnce == Once!Spec

\* The request is over: it was told something final, or died.
Settled(r) ==
    \/ pc[r] = "dead"
    \/ pc[r] = "answered" /\ reply[r].kind # "in_progress"

\* FM-86: a command is never IN_PROGRESS forever. A request that keeps
\* retrying is at last told something else, even if the owner died.
EventuallySettled == \A r \in Requests : <>[]Settled(r)

\* commands.go:19, task_mentions_test.go:138: a retry of a command that
\* already succeeded gets the stored result. (It does not: see the README.)
RetryGetsStored ==
    [][\A r \in Requests :
         (/\ pc[r] = "new"
          /\ ledger[KeyOf(r)].status = "succeeded"
          /\ ledger[KeyOf(r)].hash = HashOf(r))
            => reply'[r].kind # "closed"]_vars

\* docs/openapi.yaml:1201: a replay returns the same body. (Two requests of
\* one command can be given different bodies: see the README.)
SameBody ==
    \A r, s \in Requests :
        (/\ KeyOf(r) = KeyOf(s)
         /\ reply[r].kind \in {"ran", "replayed"}
         /\ reply[s].kind \in {"ran", "replayed"})
            => reply[r].body = reply[s].body
=============================================================================
