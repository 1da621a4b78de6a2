---------------------------- MODULE ConfigProofs ----------------------------
(***************************************************************************)
(* Proofs about TaskConfig, for any clients, requests, settings and        *)
(* repeats: an update keeps the permissions it does not name, an answered  *)
(* version is the command's own, and a repeated request conflicts only     *)
(* with what changed in between.                                           *)
(***************************************************************************)
EXTENDS TaskConfig, TLAPS

\* What is stored is complete.
Resolved ==
  {p \in Permissions : IF p.preset = "custom" THEN p.scope # None ELSE p.scope = None}

Version == [perms : Resolved, by : Commands \cup {None}]

Row == [st : {"none", "started", "done"}, hash : Resolved \cup {None}, result : Nat]

CallState == [pc : {"idle", "read", "send", "run"}, n : Nat, base : Nat,
              perms : Resolved \cup {None}]

ConfigType ==
  /\ settings \in [preset : ValidPresets, scope : Scopes] /\ saves \in Nat
  /\ wf \in Seq(Version)
  /\ ledger \in [Commands -> Row] /\ call \in [Commands -> CallState]
  /\ \A a \in answers : a[1] \in Commands

Sent(c) == call[c].pc \in {"send", "run"}

\* A call carries complete permissions, read from a version not older than
\* its base.
CallsInv ==
  \A c \in Commands :
    /\ call[c].pc # "idle" => call[c].base \in 1 .. Len(wf)
    /\ Sent(c) => call[c].perms \in Resolved
    /\ (Sent(c) /\ Requests[c] = None /\ call[c].base = Len(wf))
         => call[c].perms = wf[Len(wf)].perms

\* A version is made by the one command that built on the version before it.
VersionsInv ==
  \A v \in DOMAIN wf :
    IF v = 1 THEN wf[v].by = None
    ELSE /\ wf[v].by \in Commands /\ call[wf[v].by].pc # "idle"
         /\ v = call[wf[v].by].base + 1

LedgerInv ==
  \A c \in Commands :
    /\ ledger[c].st # "none" => call[c].pc # "idle"
    /\ call[c].pc = "run" => ledger[c].st # "none"
    /\ ledger[c].st = "done" =>
         ledger[c].result \in DOMAIN wf /\ wf[ledger[c].result].by = c

\* What the payload of c is as long as neither the settings nor, but for c, the
\* task have changed; a complete request has the same payload whatever changes.
Undisturbed(c) == saves = 0 /\ \A v \in DOMAIN wf : wf[v].by \in {None, c}

Expected(c) ==
  IF Requests[c] = None THEN wf[1].perms ELSE ResolvePermissions(Requests[c])

Settled(c) == Undisturbed(c) \/ Complete(Requests[c])

CallPayload ==
  \A c \in Commands : (Settled(c) /\ Sent(c)) => call[c].perms = Expected(c)

LedgerPayload ==
  \A c \in Commands :
    (Settled(c) /\ ledger[c].st # "none") => ledger[c].hash = Expected(c)

SamePerms ==
  \A c \in Commands :
    (Undisturbed(c) /\ Requests[c] = None) =>
      \A v \in DOMAIN wf : wf[v].perms = wf[1].perms

ConfigInv ==
  /\ ConfigType /\ CallsInv /\ VersionsInv /\ LedgerInv
  /\ CallPayload /\ LedgerPayload /\ SamePerms
  /\ PermissionsKept /\ AnswerHolds /\ RepeatAnswered
-----------------------------------------------------------------------------
(* Resolving permissions.                                                  *)

\* What is resolved is complete, and resolving it again changes nothing.
LEMMA ResolveType ==
  ASSUME ConfigType, NEW q \in Permissions \cup {None}
  PROVE  /\ ResolvePermissions(q) \in Resolved
         /\ q \in Resolved => ResolvePermissions(q) = q
<1>1. /\ settings.preset \in ValidPresets /\ settings.scope \in Scopes
      /\ None \notin Scopes /\ None \notin Permissions
  BY ConfigAssumption DEF ConfigAssumption, ConfigType
<1>2. q # None => q.preset \in ValidPresets /\ q.scope \in Scopes \cup {None}
  BY DEF Permissions
<1>3. ResolvePermissions(q) \in Resolved
  BY <1>1, <1>2 DEF ResolvePermissions, Spec, Resolved, Permissions
<1>4. ASSUME q \in Resolved PROVE ResolvePermissions(q) = q
  <2>1. /\ q = [preset |-> q.preset, scope |-> q.scope] /\ q # None
        /\ IF q.preset = "custom" THEN q.scope # None ELSE q.scope = None
    BY <1>1, <1>4 DEF Resolved, Permissions
  <2> QED
    BY <2>1 DEF ResolvePermissions, Spec
<1> QED
  BY <1>3, <1>4

\* A complete request is resolved without the settings.
LEMMA CompleteResolves ==
  ASSUME NEW q, Complete(q)
  PROVE  ResolvePermissions(q)' = ResolvePermissions(q)
BY DEF Complete, ResolvePermissions

\* The permissions of a call, when it is made.
LEMMA ResolveUpdate ==
  ASSUME ConfigInv, NEW c \in Commands, call[c].pc # "idle"
  PROVE  /\ ResolveTaskConfigUpdate(Requests[c]) \in Resolved
         /\ Requests[c] = None =>
              ResolveTaskConfigUpdate(Requests[c]) = wf[Len(wf)].perms
         /\ Settled(c) => ResolveTaskConfigUpdate(Requests[c]) = Expected(c)
<1>0. /\ ConfigType /\ SamePerms /\ Len(wf) \in 1 .. Len(wf)
      /\ Requests[c] \in Permissions \cup {None} /\ None \notin Permissions
  <2>1. Len(wf) \in Nat /\ 1 <= Len(wf)
    BY DEF ConfigInv, ConfigType, CallsInv
  <2> QED
    BY <2>1, ConfigAssumption DEF ConfigAssumption, ConfigInv
<1>1. wf[Len(wf)].perms \in Resolved /\ Last(wf) = wf[Len(wf)]
  <2>1. wf[Len(wf)] \in Version
    BY <1>0 DEF ConfigType
  <2> QED
    BY <2>1 DEF Version, Last
<1>2. CASE Requests[c] = None
  <2>1. ResolveTaskConfigUpdate(Requests[c]) = wf[Len(wf)].perms
    BY <1>0, <1>1, <1>2, ResolveType DEF ResolveTaskConfigUpdate, Resolved
  <2>2. Settled(c) => wf[Len(wf)].perms = wf[1].perms
    BY <1>0, <1>2 DEF Settled, Complete, SamePerms
  <2> QED
    BY <1>1, <1>2, <2>1, <2>2 DEF Expected
<1>3. CASE Requests[c] # None
  BY <1>0, <1>3, ResolveType DEF ResolveTaskConfigUpdate, Expected
<1> QED
  BY <1>2, <1>3
-----------------------------------------------------------------------------
(* Steps of a call.                                                        *)

\* The call of c goes on to pc, its ledger row to row; the settings and the
\* task's configuration stay.
Moves(c, pc, perms, row) ==
  /\ UNCHANGED <<settings, saves, wf>>
  /\ call' \in [Commands -> CallState] /\ ledger' \in [Commands -> Row]
  /\ \A d \in Commands \ {c} : call'[d] = call[d] /\ ledger'[d] = ledger[d]
  /\ call[c].pc # "idle" /\ pc # "idle"
  /\ call'[c].pc = pc /\ call'[c].base = call[c].base /\ call'[c].perms = perms
  /\ ledger'[c] = row

\* What c may send and store without breaking the invariant.
Allowed(c, pc, perms, row) ==
  /\ pc \in {"send", "run"} =>
       /\ perms \in Resolved
       /\ (Requests[c] = None /\ call[c].base = Len(wf)) => perms = wf[Len(wf)].perms
       /\ Settled(c) => perms = Expected(c)
  /\ pc = "run" => row.st # "none"
  /\ row.st = "done" => row.result \in DOMAIN wf /\ wf[row.result].by = c
  /\ row.st # "none" => (Settled(c) => row.hash = Expected(c))

StateInv ==
  /\ CallsInv /\ VersionsInv /\ LedgerInv /\ CallPayload /\ LedgerPayload
  /\ SamePerms /\ PermissionsKept

\* Such a step keeps the invariant of everything but the answers.
LEMMA MovesKeep ==
  ASSUME ConfigInv, NEW c \in Commands, NEW pc, NEW perms, NEW row,
         Moves(c, pc, perms, row), Allowed(c, pc, perms, row)
  PROVE  StateInv'
<1>1. /\ \A d \in Commands : Undisturbed(d)' = Undisturbed(d)
      /\ \A d \in Commands : Settled(d)' = Settled(d) /\ Expected(d)' = Expected(d)
  BY DEF Moves, Undisturbed, Settled, Expected, ResolvePermissions
<1>2. /\ CallsInv /\ VersionsInv /\ LedgerInv /\ CallPayload /\ LedgerPayload
      /\ SamePerms /\ PermissionsKept
  BY DEF ConfigInv
<1>3. CallsInv'
  BY <1>2 DEF CallsInv, Moves, Allowed, Sent
<1>4. VersionsInv'
  BY <1>2 DEF VersionsInv, Moves
<1>5. LedgerInv'
  BY <1>2 DEF LedgerInv, Moves, Allowed
<1>6. CallPayload'
  BY <1>1, <1>2 DEF CallPayload, Moves, Allowed, Sent
<1>7. LedgerPayload'
  BY <1>1, <1>2 DEF LedgerPayload, Moves, Allowed
<1>8. SamePerms' /\ PermissionsKept'
  BY <1>1, <1>2 DEF SamePerms, PermissionsKept, Moves
<1> QED
  BY <1>3, <1>4, <1>5, <1>6, <1>7, <1>8 DEF StateInv

\* Answering ends the call, and adds to the answers.
LEMMA AnswerMoves ==
  ASSUME ConfigInv, NEW c \in Commands, call[c].pc # "idle", NEW outcome, NEW version,
         Answer(c, outcome, version), UNCHANGED <<settings, saves, wf>>,
         ledger' \in [Commands -> Row],
         \A d \in Commands \ {c} : ledger'[d] = ledger[d]
  PROVE  /\ Moves(c, "read", None, ledger'[c])
         /\ answers' = answers \cup {<<c, outcome, version>>}
BY DEF ConfigInv, ConfigType, CallState, Answer, Moves

\* Answers are kept by a step that keeps the task's configurations.
LEMMA AnswersKept ==
  ASSUME ConfigInv, UNCHANGED <<saves, wf>>, NEW c \in Commands, NEW outcome, NEW v,
         answers' = answers \/ answers' = answers \cup {<<c, outcome, v>>},
         outcome = "ok" => v \in DOMAIN wf /\ wf[v].by = c,
         outcome = "conflict" => ~Settled(c)
  PROVE  AnswerHolds' /\ RepeatAnswered' /\ \A a \in answers' : a[1] \in Commands
<1>1. AnswerHolds /\ RepeatAnswered /\ \A a \in answers : a[1] \in Commands
  BY DEF ConfigInv, ConfigType
<1>2. AnswerHolds'
  BY <1>1 DEF AnswerHolds
<1>3. outcome = "conflict" =>
        ~Complete(Requests[c]) /\ (saves > 0 \/ \E n \in DOMAIN wf : wf[n].by \notin {None, c})
  BY DEF Settled, Undisturbed, ConfigInv, ConfigType
<1>4. RepeatAnswered'
  BY <1>1, <1>3 DEF RepeatAnswered
<1> QED
  BY <1>1, <1>2, <1>4
-----------------------------------------------------------------------------
(* The actions.                                                            *)

\* A change of the settings unsettles every request that relies on them.
LEMMA SaveStep ==
  ASSUME ConfigInv, NEW p \in Presets, NEW s \in Scopes, SaveUserSettings(p, s)
  PROVE  ConfigInv'
<1>1. /\ UNCHANGED <<wf, ledger, call, answers>> /\ saves' = saves + 1
      /\ saves \in Nat
  BY DEF SaveUserSettings, ConfigInv, ConfigType
<1>2. ConfigType'
  BY <1>1, ConfigAssumption DEF ConfigAssumption, SaveUserSettings, Spec,
     ConfigInv, ConfigType
<1>3. CallsInv' /\ VersionsInv' /\ LedgerInv' /\ PermissionsKept' /\ AnswerHolds'
  BY <1>1 DEF ConfigInv, CallsInv, Sent, VersionsInv, LedgerInv, PermissionsKept,
     AnswerHolds
<1>4. \A d \in Commands : ~Undisturbed(d)'
  BY <1>1 DEF Undisturbed
<1>5. \A d \in Commands : Complete(Requests[d]) => Expected(d)' = Expected(d)
  BY CompleteResolves DEF Expected, Complete
<1>6. CallPayload' /\ LedgerPayload' /\ SamePerms'
  BY <1>1, <1>4, <1>5 DEF ConfigInv, CallPayload, LedgerPayload, SamePerms,
     Settled, Sent
<1>7. RepeatAnswered'
  BY <1>1 DEF ConfigInv, RepeatAnswered
<1> QED
  BY <1>2, <1>3, <1>6, <1>7 DEF ConfigInv

\* Before the task exists nobody has called.
LEMMA CreateStep ==
  ASSUME ConfigInv, NEW q \in {None, Spec("full", None)}, CreateTask(q)
  PROVE  ConfigInv'
<1>1. /\ UNCHANGED <<settings, saves, ledger, call, answers>> /\ wf = << >>
      /\ wf' = <<[perms |-> ResolvePermissions(q), by |-> None]>>
  BY DEF CreateTask
<1>2. /\ Len(wf) = 0 /\ DOMAIN wf = {} /\ Len(wf') = 1 /\ DOMAIN wf' = {1}
      /\ wf'[1] = [perms |-> ResolvePermissions(q), by |-> None]
  BY <1>1
<1>3. \A d \in Commands : call[d].pc = "idle" /\ ledger[d].st = "none"
  BY <1>2 DEF ConfigInv, CallsInv, LedgerInv
<1>4. ConfigType'
  <2>1. q \in Permissions \cup {None}
    BY DEF Spec, Permissions, ValidPresets
  <2>2. ResolvePermissions(q) \in Resolved
    BY <2>1, ResolveType DEF ConfigInv
  <2>3. wf' \in Seq(Version)
    BY <1>1, <2>2 DEF Version
  <2> QED
    BY <1>1, <2>3 DEF ConfigInv, ConfigType
<1>5. CallsInv' /\ VersionsInv' /\ LedgerInv' /\ CallPayload' /\ LedgerPayload'
  BY <1>1, <1>2, <1>3 DEF CallsInv, VersionsInv, LedgerInv, CallPayload,
     LedgerPayload, Sent
<1>6. SamePerms' /\ PermissionsKept'
  BY <1>2 DEF SamePerms, PermissionsKept
<1>7. AnswerHolds'
  BY <1>1, <1>2 DEF ConfigInv, AnswerHolds
<1>8. RepeatAnswered'
  BY <1>1, <1>2 DEF ConfigInv, RepeatAnswered
<1> QED
  BY <1>4, <1>5, <1>6, <1>7, <1>8 DEF ConfigInv

\* The client of c reads the version it will build on.
LEMMA ReadStep ==
  ASSUME ConfigInv, NEW c \in Commands, ReadConfig(c)
  PROVE  ConfigInv'
<1>1. /\ UNCHANGED <<settings, saves, wf, ledger, answers>> /\ call[c].pc = "idle"
      /\ wf # << >> /\ call \in [Commands -> CallState] /\ wf \in Seq(Version)
      /\ call' = [call EXCEPT ![c].pc = "read", ![c].base = Len(wf)]
  BY DEF ReadConfig, ConfigInv, ConfigType
<1>2. /\ \A d \in Commands \ {c} : call'[d] = call[d]
      /\ call'[c].pc = "read" /\ call'[c].base = Len(wf)
      /\ Len(wf) \in Nat /\ Len(wf) > 0
      /\ call' \in [Commands -> CallState]
  <2>1. Len(wf) \in Nat /\ Len(wf) > 0
    BY <1>1
  <2>2. [call[c] EXCEPT !.pc = "read", !.base = Len(wf)] \in CallState
    BY <1>1, <2>1 DEF CallState
  <2>3. call' = [call EXCEPT ![c] = [call[c] EXCEPT !.pc = "read", !.base = Len(wf)]]
    BY <1>1
  <2>4. call'[c].pc = "read" /\ call'[c].base = Len(wf)
    BY <1>1 DEF CallState
  <2> QED
    BY <1>1, <2>1, <2>2, <2>3, <2>4
<1>3. ConfigType'
  BY <1>1, <1>2 DEF ConfigInv, ConfigType
<1>4. CallsInv' /\ VersionsInv' /\ LedgerInv' /\ CallPayload'
  BY <1>1, <1>2 DEF ConfigInv, CallsInv, VersionsInv, LedgerInv, CallPayload, Sent,
     Settled, Undisturbed, Expected, ResolvePermissions
<1>5. LedgerPayload' /\ SamePerms' /\ PermissionsKept'
  BY <1>1 DEF ConfigInv, LedgerPayload, SamePerms, PermissionsKept, Settled,
     Undisturbed, Expected, ResolvePermissions
<1>6. AnswerHolds' /\ RepeatAnswered'
  BY <1>1 DEF ConfigInv, AnswerHolds, RepeatAnswered
<1> QED
  BY <1>3, <1>4, <1>5, <1>6 DEF ConfigInv

\* What the invariant says of the row and the call of c.
LEMMA AllowedNow ==
  ASSUME ConfigInv, NEW c \in Commands, call[c].pc # "idle"
  PROVE  /\ Allowed(c, "read", None, ledger[c])
         /\ Sent(c) => Allowed(c, "send", call[c].perms, ledger[c])
BY DEF ConfigInv, Allowed, Sent, CallsInv, LedgerInv, CallPayload, LedgerPayload

\* A call resolves what the request leaves out.
LEMMA CallStep ==
  ASSUME ConfigInv, NEW c \in Commands, Call(c)
  PROVE  ConfigInv'
<1> DEFINE perms == ResolveTaskConfigUpdate(Requests[c])
<1>1. /\ UNCHANGED <<settings, saves, wf, ledger, answers>> /\ call[c].pc = "read"
      /\ call \in [Commands -> CallState] /\ ledger \in [Commands -> Row]
      /\ call' = [call EXCEPT ![c].pc = "send", ![c].n = call[c].n + 1,
                              ![c].perms = perms]
      /\ perms \in Resolved
  BY ResolveUpdate DEF Call, ConfigInv, ConfigType
<1>2. Moves(c, "send", perms, ledger[c])
  <2> HIDE DEF perms
  <2> QED
    BY <1>1 DEF Moves, CallState
<1>3. Allowed(c, "send", perms, ledger[c])
  BY <1>1, ResolveUpdate, AllowedNow DEF Allowed
<1>4. StateInv'
  <2> HIDE DEF perms
  <2> QED
    BY <1>2, <1>3, MovesKeep
<1>5. ConfigType' /\ AnswerHolds' /\ RepeatAnswered'
  <2>1. call' \in [Commands -> CallState]
    BY <1>2 DEF Moves
  <2> QED
    BY <1>1, <2>1 DEF ConfigInv, ConfigType, AnswerHolds, RepeatAnswered
<1> QED
  BY <1>4, <1>5 DEF ConfigInv, StateInv
\* The ledger answers a call, or lets it run.
LEMMA ClaimStep ==
  ASSUME ConfigInv, NEW c \in Commands, ClaimCommand(c)
  PROVE  ConfigInv'
<1>0. /\ ConfigType /\ UNCHANGED <<settings, saves, wf>> /\ call[c].pc = "send"
      /\ Sent(c) /\ call[c].pc # "idle" /\ call[c].perms \in Resolved
  BY DEF ClaimCommand, ConfigInv, CallsInv, Sent
<1>1. ASSUME NEW outcome, NEW v, Answer(c, outcome, v), UNCHANGED ledger,
             outcome = "ok" => v \in DOMAIN wf /\ wf[v].by = c,
             outcome = "conflict" => ~Settled(c)
      PROVE  ConfigInv'
  <2>1. Moves(c, "read", None, ledger[c])
        /\ answers' = answers \cup {<<c, outcome, v>>}
    BY <1>0, <1>1, AnswerMoves DEF ConfigType
  <2>2. StateInv'
    BY <1>0, <2>1, AllowedNow, MovesKeep
  <2>3. AnswerHolds' /\ RepeatAnswered' /\ \A a \in answers' : a[1] \in Commands
    BY <1>0, <1>1, <2>1, AnswersKept
  <2>4. ConfigType'
    BY <1>0, <1>1, <2>1, <2>3 DEF ConfigType, Moves
  <2> QED
    BY <2>2, <2>3, <2>4 DEF ConfigInv, StateInv
<1>2. CASE /\ ledger[c].st # "none" /\ ledger[c].hash # call[c].perms
           /\ Answer(c, "conflict", 0) /\ UNCHANGED ledger
  <2>1. ~Settled(c)
    BY <1>0, <1>2 DEF ConfigInv, CallPayload, LedgerPayload
  <2> QED
    BY <1>1, <1>2, <2>1
<1>3. CASE /\ ledger[c].st = "done" /\ ledger[c].hash = call[c].perms
           /\ Answer(c, "ok", ledger[c].result) /\ UNCHANGED ledger
  <2>1. ledger[c].result \in DOMAIN wf /\ wf[ledger[c].result].by = c
    BY <1>3 DEF ConfigInv, LedgerInv
  <2> QED
    BY <1>1, <1>3, <2>1
<1>4. CASE /\ ledger' = [ledger EXCEPT ![c].st = "started", ![c].hash = call[c].perms]
           /\ call' = [call EXCEPT ![c].pc = "run"] /\ UNCHANGED answers
  <2> DEFINE row == [ledger[c] EXCEPT !.st = "started", !.hash = call[c].perms]
  <2>1. /\ ledger' = [ledger EXCEPT ![c] = row] /\ row \in Row
        /\ row.st = "started" /\ row.hash = call[c].perms
    BY <1>0, <1>4 DEF ConfigType, Row
  <2>2. Allowed(c, "run", call[c].perms, row)
    BY <1>0, <2>1, AllowedNow DEF Allowed, ConfigInv, CallPayload
  <2>3. Moves(c, "run", call[c].perms, row)
    <3> HIDE DEF row
    <3>1. /\ ledger' \in [Commands -> Row] /\ ledger'[c] = row
          /\ \A d \in Commands \ {c} : ledger'[d] = ledger[d]
      BY <1>0, <2>1 DEF ConfigType
    <3>2. /\ call' \in [Commands -> CallState]
          /\ \A d \in Commands \ {c} : call'[d] = call[d]
          /\ call'[c] = [call[c] EXCEPT !.pc = "run"]
      <4> DEFINE new == [call[c] EXCEPT !.pc = "run"]
      <4>1. new \in CallState /\ call' = [call EXCEPT ![c] = new]
        BY <1>0, <1>4 DEF ConfigType, CallState
      <4> HIDE DEF new
      <4>2. /\ call' \in [Commands -> CallState] /\ call'[c] = new
            /\ \A d \in Commands \ {c} : call'[d] = call[d]
        BY <1>0, <4>1 DEF ConfigType
      <4> QED
        BY <4>2 DEF new
    <3>3. call'[c].pc = "run" /\ call'[c].base = call[c].base /\ call'[c].perms = call[c].perms
      BY <1>0, <3>2 DEF ConfigType, CallState
    <3> QED
      BY <1>0, <3>1, <3>2, <3>3 DEF Moves
  <2>4. StateInv'
    <3> HIDE DEF row
    <3> QED
      BY <2>2, <2>3, MovesKeep
  <2>5. ConfigType' /\ AnswerHolds' /\ RepeatAnswered'
    BY <1>0, <1>4, <2>3 DEF ConfigInv, ConfigType, AnswerHolds, RepeatAnswered, Moves
  <2> QED
    BY <2>4, <2>5 DEF ConfigInv, StateInv
<1> QED
  BY <1>2, <1>3, <1>4 DEF ClaimCommand

\* A call that the workflow refuses, or that does not reach it, has no effect.
LEMMA FailStep ==
  ASSUME ConfigInv, NEW c \in Commands, ConfigRefused(c) \/ SendFails(c)
  PROVE  ConfigInv'
<1>1. PICK outcome \in {"stale", "error"} :
        Answer(c, outcome, 0) /\ UNCHANGED <<settings, saves, wf, ledger>>
        /\ call[c].pc # "idle"
  BY DEF ConfigRefused, SendFails
<1>2. Moves(c, "read", None, ledger[c]) /\ answers' = answers \cup {<<c, outcome, 0>>}
  BY <1>1, AnswerMoves DEF ConfigInv, ConfigType
<1>3. StateInv'
  BY <1>1, <1>2, AllowedNow, MovesKeep
<1>4. AnswerHolds' /\ RepeatAnswered' /\ \A a \in answers' : a[1] \in Commands
  BY <1>1, <1>2, AnswersKept
<1>5. ConfigType'
  BY <1>1, <1>2, <1>4 DEF ConfigInv, ConfigType, Moves
<1> QED
  BY <1>3, <1>4, <1>5 DEF ConfigInv, StateInv
\* The version the workflow made for c is the one after its base.
LEMMA AppliedVersion ==
  ASSUME ConfigInv, NEW c \in Commands, Applied(c)
  PROVE  NextVersion(c) \in DOMAIN wf /\ wf[NextVersion(c)].by = c
<1>1. PICK v \in DOMAIN wf : wf[v].by = c
  BY DEF Applied
<1>2. wf[v].by # None
  BY <1>1, ConfigAssumption DEF ConfigAssumption
<1> QED
  BY <1>1, <1>2 DEF NextVersion, ConfigInv, VersionsInv

\* The row of c after the update ran: done, or as the claim left it.
LEMMA RunRow ==
  ASSUME ConfigInv, NEW c \in Commands, RunConfigUpdate(c)
  PROVE  /\ ledger' \in [Commands -> Row]
         /\ \A d \in Commands \ {c} : ledger'[d] = ledger[d]
         /\ ledger'[c].hash = ledger[c].hash
         /\ \/ /\ ledger'[c].st = "done" /\ ledger'[c].result = NextVersion(c)
               /\ Answer(c, "ok", NextVersion(c))
            \/ ledger' = ledger /\ Answer(c, "error", 0)
<1>1. /\ ledger \in [Commands -> Row] /\ NextVersion(c) \in Nat
      /\ ledger[c] \in Row
  BY DEF ConfigInv, ConfigType, CallState, NextVersion
<1>2. CASE ledger' = ledger /\ Answer(c, "error", 0)
  BY <1>1, <1>2
<1>3. CASE /\ ledger' = [ledger EXCEPT ![c].st = "done", ![c].result = NextVersion(c)]
           /\ Answer(c, "ok", NextVersion(c))
  <2> DEFINE row == [ledger[c] EXCEPT !.st = "done", !.result = NextVersion(c)]
  <2>1. /\ row \in Row /\ row.st = "done" /\ row.result = NextVersion(c)
        /\ row.hash = ledger[c].hash
    BY <1>1 DEF Row
  <2>2. ledger' = [ledger EXCEPT ![c] = row]
    BY <1>3
  <2> HIDE DEF row
  <2> QED
    BY <1>1, <1>3, <2>1, <2>2
<1> QED
  BY <1>2, <1>3 DEF RunConfigUpdate

\* The workflow has run the update of an earlier call.
LEMMA RerunStep ==
  ASSUME ConfigInv, NEW c \in Commands, RunConfigUpdate(c), Applied(c)
  PROVE  ConfigInv'
<1>1. /\ UNCHANGED <<settings, saves, wf>> /\ call[c].pc = "run"
      /\ ledger[c].st # "none" /\ ConfigType
  BY DEF RunConfigUpdate, ConfigInv, LedgerInv
<1>2. PICK outcome \in {"ok", "error"} : \E v \in {NextVersion(c), 0} :
        /\ Answer(c, outcome, v)
        /\ outcome = "ok" => v = NextVersion(c)
  BY RunRow
<1>3. PICK v \in {NextVersion(c), 0} :
        /\ Answer(c, outcome, v)
        /\ outcome = "ok" => v = NextVersion(c)
  BY <1>2
<1>4. /\ Moves(c, "read", None, ledger'[c])
      /\ answers' = answers \cup {<<c, outcome, v>>}
  BY <1>1, <1>3, RunRow, AnswerMoves
<1>5. Allowed(c, "read", None, ledger'[c])
  BY <1>1, RunRow, AppliedVersion DEF Allowed, ConfigInv, LedgerInv, LedgerPayload
<1>6. StateInv'
  BY <1>4, <1>5, MovesKeep
<1>7. AnswerHolds' /\ RepeatAnswered' /\ \A a \in answers' : a[1] \in Commands
  BY <1>1, <1>3, <1>4, AppliedVersion, AnswersKept
<1>8. ConfigType'
  BY <1>1, <1>4, <1>7 DEF ConfigType, Moves
<1> QED
  BY <1>6, <1>7, <1>8 DEF ConfigInv, StateInv

\* The workflow takes the update: it builds on the current version.
LEMMA ApplyStep ==
  ASSUME ConfigInv, NEW c \in Commands, RunConfigUpdate(c), ~Applied(c)
  PROVE  ConfigInv'
<1> DEFINE L == Len(wf)
           next == [perms |-> call[c].perms, by |-> c]
<1>1. /\ UNCHANGED <<settings, saves>> /\ call[c].pc = "run" /\ Sent(c)
      /\ call[c].base = L /\ wf' = Append(wf, next) /\ L \in Nat /\ L > 0
      /\ ledger[c].st # "none" /\ ConfigType /\ call[c].perms \in Resolved
      /\ c # None
  BY ConfigAssumption DEF ConfigAssumption, RunConfigUpdate, Sent, ConfigInv,
     ConfigType, CallsInv, LedgerInv
<1>2. /\ Len(wf') = L + 1 /\ wf'[L + 1] = next /\ next.by = c
      /\ next.perms = call[c].perms
      /\ DOMAIN wf = 1 .. L /\ DOMAIN wf' = 1 .. (L + 1)
      /\ \A v \in 1 .. L : wf'[v] = wf[v]
      /\ wf' \in Seq(Version)
  BY <1>1 DEF ConfigType, Version
<1>3. PICK outcome \in {"ok", "error"} : \E v \in {L + 1, 0} :
        /\ Answer(c, outcome, v)
        /\ outcome = "ok" => v = L + 1
  BY <1>1, RunRow DEF NextVersion
<1>4. PICK v \in {L + 1, 0} :
        /\ Answer(c, outcome, v)
        /\ outcome = "ok" => v = L + 1
  BY <1>3
<1>5. /\ call' \in [Commands -> CallState] /\ call'[c].pc = "read"
      /\ call'[c].base = L
      /\ \A d \in Commands \ {c} : call'[d] = call[d]
      /\ answers' = answers \cup {<<c, outcome, v>>}
  BY <1>1, <1>4 DEF Answer, ConfigType, CallState
<1>6. /\ \A d \in Commands \ {c} : ~Undisturbed(d)'
      /\ \A d \in Commands : Settled(d)' => Settled(d) /\ Expected(d)' = Expected(d)
  <2>1. \A d \in Commands \ {c} : ~Undisturbed(d)'
    BY <1>1, <1>2 DEF Undisturbed
  <2>2. Undisturbed(c)' => Undisturbed(c)
    BY <1>1, <1>2 DEF Undisturbed
  <2>3. \A d \in Commands : Expected(d)' = Expected(d)
    BY <1>1, <1>2 DEF Expected, ResolvePermissions
  <2> QED
    BY <2>1, <2>2, <2>3 DEF Settled
<1> HIDE DEF next, L
<1>7. ConfigType'
  BY <1>1, <1>2, <1>5, RunRow DEF ConfigType
<1>8. CallsInv' /\ VersionsInv'
  BY <1>1, <1>2, <1>5, <1>1 DEF ConfigInv, CallsInv, VersionsInv, Sent, L
<1>9. LedgerInv'
  BY <1>1, <1>2, <1>5, RunRow DEF ConfigInv, LedgerInv, NextVersion, L
<1>10. CallPayload' /\ LedgerPayload'
  BY <1>1, <1>5, <1>6, RunRow DEF ConfigInv, CallPayload, LedgerPayload, Sent
<1>11. Requests[c] = None => next.perms = wf[L].perms
  BY <1>1, <1>2 DEF ConfigInv, CallsInv, L
<1>12. SamePerms'
  <2>1. Undisturbed(c)' => Undisturbed(c)
    BY <1>1, <1>2 DEF Undisturbed, L
  <2> QED
    BY <1>1, <1>2, <1>6, <1>11, <2>1 DEF ConfigInv, SamePerms
<1>13. PermissionsKept'
  BY <1>1, <1>2, <1>11 DEF ConfigInv, PermissionsKept
<1>14. AnswerHolds'
  BY <1>1, <1>2, <1>4, <1>5 DEF ConfigInv, AnswerHolds
<1>15. RepeatAnswered'
  BY <1>1, <1>2, <1>5 DEF ConfigInv, RepeatAnswered
<1> QED
  BY <1>7, <1>8, <1>9, <1>10, <1>12, <1>13, <1>14, <1>15 DEF ConfigInv
-----------------------------------------------------------------------------
(* The theorems.                                                           *)

\* The invariant holds in every reachable state.
THEOREM ConfigInvariant == ConfigSpec => []ConfigInv
<1>1. Init => ConfigInv
  <2> SUFFICES ASSUME Init PROVE ConfigInv
    OBVIOUS
  <2>1. ConfigType
    <3>1. settings \in [preset : ValidPresets, scope : Scopes]
      BY ConfigAssumption DEF ConfigAssumption, Init, Spec, ValidPresets
    <3> QED
      BY <3>1 DEF Init, NoRow, ConfigType, Row, CallState
  <2>2. wf = << >> /\ DOMAIN wf = {} /\ answers = {}
        /\ \A c \in Commands : call[c].pc = "idle" /\ ledger[c].st = "none"
    BY DEF Init, NoRow
  <2> QED
    BY <2>1, <2>2 DEF ConfigInv, CallsInv, VersionsInv, LedgerInv, CallPayload,
       LedgerPayload, SamePerms, PermissionsKept, AnswerHolds, RepeatAnswered, Sent
<1>2. ConfigInv /\ [Next]_vars => ConfigInv'
  <2> SUFFICES ASSUME ConfigInv, [Next]_vars PROVE ConfigInv'
    OBVIOUS
  <2>1. ASSUME UNCHANGED vars PROVE ConfigInv'
    <3>1. ConfigType' /\ CallsInv' /\ VersionsInv' /\ LedgerInv'
      BY <2>1 DEF vars, ConfigInv, ConfigType, CallsInv, Sent, VersionsInv, LedgerInv
    <3>2. CallPayload' /\ LedgerPayload' /\ SamePerms'
      BY <2>1 DEF vars, ConfigInv, CallPayload, LedgerPayload, SamePerms, Settled,
         Undisturbed, Expected, ResolvePermissions, Sent
    <3>3. PermissionsKept' /\ AnswerHolds' /\ RepeatAnswered'
      BY <2>1 DEF vars, ConfigInv, PermissionsKept, AnswerHolds, RepeatAnswered
    <3> QED
      BY <3>1, <3>2, <3>3 DEF ConfigInv
  <2> QED
    BY <2>1, SaveStep, CreateStep, ReadStep, CallStep, ClaimStep, RerunStep,
       ApplyStep, FailStep DEF Next
<1> QED
  BY <1>1, <1>2, PTL DEF ConfigSpec

\* An update that says nothing of permissions leaves those of the version it
\* replaces, whatever the settings became and whoever else updated.
THEOREM PermissionsKeptTheorem == ConfigSpec => []PermissionsKept
<1>1. ConfigInv => PermissionsKept
  BY DEF ConfigInv
<1> QED
  BY <1>1, ConfigInvariant, PTL

\* A version that was answered is the one the command made, over every retry and
\* lost answer.
THEOREM AnswerHoldsTheorem == ConfigSpec => []AnswerHolds
<1>1. ConfigInv => AnswerHolds
  BY DEF ConfigInv
<1> QED
  BY <1>1, ConfigInvariant, PTL

\* A client that sends one request again is refused only if the request left
\* something to the settings or the task, and those changed since.
THEOREM RepeatAnsweredTheorem == ConfigSpec => []RepeatAnswered
<1>1. ConfigInv => RepeatAnswered
  BY DEF ConfigInv
<1> QED
  BY <1>1, ConfigInvariant, PTL

=============================================================================
