----------------------------- MODULE TaskConfig -----------------------------
(***************************************************************************)
(* The configuration of a task: what a request says is resolved with the   *)
(* user's settings and the task's current configuration (internal/app),    *)
(* sent as an idempotent command (internal/task/config.go) and applied by  *)
(* the workflow if it builds on the current version. Clients repeat a      *)
(* command, settings change, and answers are lost on the way.              *)
(***************************************************************************)
EXTENDS Naturals, Sequences, FiniteSets, SequencesExt

CONSTANTS
    None,           \* a value that was left out, or is not there yet
    Commands,       \* ids of updates: each is one request of one client
    Requests,       \* command -> its permissions, a spec or None when left out
    Presets,        \* presets the user may choose as a default
    Scopes,         \* what the user's custom rules may say
    MaxCalls,       \* bound on calls of each command
    MaxSaves        \* bound on changes of the settings

ValidPresets == {"default", "request", "auto", "full", "custom"}

\* What validatePermissions lets through: a preset, and a rule or none.
Permissions == [preset : ValidPresets, scope : Scopes \cup {None}]

ASSUME ConfigAssumption ==
    /\ Presets \subseteq ValidPresets
    /\ Scopes # {} /\ None \notin Scopes
    /\ None \notin Commands /\ None \notin Permissions
    /\ Requests \in [Commands -> Permissions \cup {None}]
    /\ MaxCalls \in Nat /\ MaxSaves \in Nat

VARIABLES
    settings,       \* the user's settings: [preset, scope]
    saves,          \* changes of the settings so far
    wf,             \* the workflow's configurations, one per version: [perms, by]
    ledger,         \* command -> its row: [st, hash, result]
    call,           \* the call under way of a command: [pc, n, base, perms]
    answers         \* answers given: <<command, outcome, version>>

vars == <<settings, saves, wf, ledger, call, answers>>

Spec(preset, scope) == [preset |-> preset, scope |-> scope]

\* Mutation of ResolvePermissions: the user's rule wins over the one the request states.
ResolvePermissionsUserFirst(requested) ==
    LET preset == IF requested = None THEN settings.preset ELSE requested.preset
    IN Spec(preset, IF preset = "custom" THEN settings.scope ELSE None)

\* ResolvePermissions: nothing stated takes the default preset; a rule the request
\* states wins over the user's; any other preset is stored alone.
ResolvePermissions(requested) ==
    LET preset == IF requested = None THEN settings.preset ELSE requested.preset
        scope == IF requested # None /\ requested.scope # None THEN requested.scope ELSE settings.scope
    IN Spec(preset, IF preset = "custom" THEN scope ELSE None)

\* Mutation of ResolveTaskConfigUpdate: what is left out is taken from the settings.
ResolveTaskConfigUpdateAnew(requested) == ResolvePermissions(requested)

\* ResolveTaskConfigUpdate: an update without permissions keeps the task's. They are
\* read before the settings, but are complete: the settings fill in none of them.
ResolveTaskConfigUpdate(requested) ==
    ResolvePermissions(IF requested = None THEN Last(wf).perms ELSE requested)

NoRow == [st |-> "none", hash |-> None, result |-> 0]

Init ==
    /\ settings = Spec("default", CHOOSE s \in Scopes : TRUE) /\ saves = 0
    /\ wf = << >>
    /\ ledger = [c \in Commands |-> NoRow]
    /\ call = [c \in Commands |-> [pc |-> "idle", n |-> 0, base |-> 0, perms |-> None]]
    /\ answers = {}

\* SaveUserSettings replaces the whole document.
SaveUserSettings(preset, scope) ==
    /\ saves < MaxSaves /\ Spec(preset, scope) # settings
    /\ settings' = Spec(preset, scope) /\ saves' = saves + 1
    /\ UNCHANGED <<wf, ledger, call, answers>>

\* Create resolves before the task exists; the workflow starts at version 1.
CreateTask(requested) ==
    /\ wf = << >>
    /\ wf' = <<[perms |-> ResolvePermissions(requested), by |-> None]>>
    /\ UNCHANGED <<settings, saves, ledger, call, answers>>

\* TaskConfig: the client reads the version it will build on.
ReadConfig(c) ==
    /\ wf # << >> /\ call[c].pc = "idle" /\ call[c].n = 0
    /\ call' = [call EXCEPT ![c].pc = "read", ![c].base = Len(wf)]
    /\ UNCHANGED <<settings, saves, wf, ledger, answers>>

\* The first call of the command, or a repeat of the same request.
Call(c) ==
    /\ call[c].pc = "read" /\ call[c].n < MaxCalls
    /\ call' = [call EXCEPT ![c].pc = "send", ![c].n = @ + 1,
                            ![c].perms = ResolveTaskConfigUpdate(Requests[c])]
    /\ UNCHANGED <<settings, saves, wf, ledger, answers>>

Answer(c, outcome, version) ==
    /\ answers' = answers \cup {<<c, outcome, version>>}
    /\ call' = [call EXCEPT ![c].pc = "read", ![c].perms = None]

\* ClaimCommand: a row of another payload is a conflict, one that is done answers by
\* its result. The calls of a command follow each other here; what concurrent ones do
\* to the row's owner is CommandLedger's subject.
ClaimCommand(c) ==
    /\ call[c].pc = "send"
    /\ \/ /\ ledger[c].st # "none" /\ ledger[c].hash # call[c].perms
          /\ Answer(c, "conflict", 0) /\ UNCHANGED ledger
       \/ /\ ledger[c].st = "done" /\ ledger[c].hash = call[c].perms
          /\ Answer(c, "ok", ledger[c].result) /\ UNCHANGED ledger
       \/ /\ ledger[c].st = "none" \/ (ledger[c].st = "started" /\ ledger[c].hash = call[c].perms)
          /\ ledger' = [ledger EXCEPT ![c].st = "started", ![c].hash = call[c].perms]
          /\ call' = [call EXCEPT ![c].pc = "run"] /\ UNCHANGED answers
    /\ UNCHANGED <<settings, saves, wf>>

\* The workflow runs an update once; another call of the same id gets the same
\* outcome. Its validator refuses a version that is not the current one.
Applied(c) == \E v \in DOMAIN wf : wf[v].by = c

\* Mutation of NextVersion: the answer is the workflow's latest version.
NextVersionLatest(c) == Len(wf) + 1

\* runConfigUpdate answers with the version after the base.
NextVersion(c) == call[c].base + 1

\* The workflow takes the update, and the result is stored, or is not: the claim is
\* given up then, and the row keeps the payload.
RunConfigUpdate(c) ==
    /\ call[c].pc = "run"
    /\ Applied(c) \/ call[c].base = Len(wf)
    /\ wf' = IF Applied(c) THEN wf ELSE Append(wf, [perms |-> call[c].perms, by |-> c])
    /\ \/ /\ ledger' = [ledger EXCEPT ![c].st = "done", ![c].result = NextVersion(c)]
          /\ Answer(c, "ok", NextVersion(c))
       \/ Answer(c, "error", 0) /\ UNCHANGED ledger
    /\ UNCHANGED <<settings, saves>>

ConfigRefused(c) ==
    /\ call[c].pc = "run" /\ ~Applied(c) /\ call[c].base # Len(wf)
    /\ Answer(c, "stale", 0)
    /\ UNCHANGED <<settings, saves, wf, ledger>>

\* UpdateTask fails before the workflow took the update; RunConfigUpdate's error is
\* also that of a call that fails after it.
SendFails(c) ==
    /\ call[c].pc = "run"
    /\ Answer(c, "error", 0)
    /\ UNCHANGED <<settings, saves, wf, ledger>>

Next ==
    \/ \E p \in Presets, s \in Scopes : SaveUserSettings(p, s)
    \/ \E q \in {None, Spec("full", None)} : CreateTask(q)
    \/ \E c \in Commands :
         \/ ReadConfig(c) \/ Call(c) \/ ClaimCommand(c)
         \/ RunConfigUpdate(c) \/ ConfigRefused(c) \/ SendFails(c)

ConfigSpec == Init /\ [][Next]_vars

-----------------------------------------------------------------------------
(* Properties.                                                             *)

\* An update that says nothing of permissions leaves those of the version it
\* replaces, whatever the user's settings became and whoever else updated
\* (ResolveTaskConfigUpdate, applyLocalConfig).
PermissionsKept ==
    \A v \in DOMAIN wf :
        (v > 1 /\ Requests[wf[v].by] = None) => wf[v].perms = wf[v - 1].perms

\* A version that was answered is the one the command made (runConfigUpdate), over
\* every retry and lost answer.
AnswerHolds ==
    \A a \in answers : a[2] = "ok" => a[3] \in DOMAIN wf /\ wf[a[3]].by = a[1]

\* The permissions of a request say all there is to say.
Complete(requested) ==
    requested # None /\ (requested.preset = "custom" => requested.scope # None)

\* A client that sends one request again is told that its command id belongs to
\* another request only if the request left something to the settings or the task
\* and those changed since (UpdateTaskConfig, ClaimCommand).
RepeatAnswered ==
    \A a \in answers : a[2] = "conflict" =>
        /\ ~Complete(Requests[a[1]])
        /\ saves > 0 \/ \E v \in DOMAIN wf : wf[v].by \notin {None, a[1]}
=============================================================================
