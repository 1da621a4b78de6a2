------------------------------ MODULE Experts ------------------------------
(***************************************************************************)
(* The experts and teams of one tenant (internal/app/experts.go, teams.go, *)
(* expert_import.go) over the profiles table                               *)
(* (internal/store/pgstore/task_projection.go). A version is one immutable *)
(* profile with the files of its bundle. An update reads the latest        *)
(* version and registers the next one in a transaction of its own, so two  *)
(* of them may race for it; /v1/profiles registers any spec under any      *)
(* version; an import of the tenant's assistants (personas) reads once     *)
(* what exists and then writes one expert after the other.                 *)
(***************************************************************************)
EXTENDS Bundle

CONSTANTS
    Callers,     \* concurrent API calls
    Forms,       \* what a caller may send
    HandSpecs,   \* specs registered through /v1/profiles: no bundle digest
    Agents,      \* catalog agents
    Personas,    \* assistants: id -> [text, conns]
    MaxIds,      \* bound on the experts created
    MaxVersion,  \* bound on versions
    MaxHand,     \* bound on hand-written profiles
    MaxMembers   \* maxTeamMembers

\* ExpertInput.
Form == [kind : {"", "expert", "team"}, text : Nat, soul : Nat, desc : Nat,
         skills : Seq(Names), conns : Seq(Names), source : Names, leader : Names,
         members : Seq([role : Names, expert : Nat \X Nat])]

\* What a caller sends: a form has no source, and a spec registered by hand names no
\* bundle's digest (nothing checks that). An assistant's source is told from an agent's.
ASSUME ExpertsAssumption ==
    /\ \A in \in Forms : in \in Form /\ in.source = NoConn
    /\ \A spec \in HandSpecs : spec.sha = NoFiles
    /\ \A a \in Agents :
         /\ a.files \in Files /\ IsFiniteSet(a.files.dirs) /\ IsFiniteSet(a.files.other)
         /\ a.prompt \in Nat /\ a.desc \in Nat /\ IsFiniteSet(a.mcps)
         /\ a.id \in Names \ DOMAIN Personas
    /\ DOMAIN Personas \subseteq Names \ {NoConn}
    /\ Personas \in [DOMAIN Personas -> [text : Nat, conns : Seq(Names)]]
    /\ MaxVersion \in Nat \ {0}

VARIABLES
    profiles,  \* agent_profiles and agent_profile_files: <<id, version>> -> profile
    lastId,    \* expert ids handed out
    personas,  \* the tenant's assistants, newest first
    calls,     \* what each caller is in the middle of
    answers,   \* writes that were told to have succeeded
    refused,   \* agents that could not be imported, and why
    overlap,   \* two imports of the assistants ran at once
    hand       \* profiles registered by hand

vars == <<profiles, lastId, personas, calls, answers, refused, overlap, hand>>

Idle == [op |-> "idle"]

Init ==
    /\ profiles = << >>
    /\ lastId = 0
    /\ personas = << >>
    /\ calls = [c \in Callers |-> Idle]
    /\ answers = {} /\ refused = {}
    /\ overlap = FALSE
    /\ hand = 0

-----------------------------------------------------------------------------
(* Checking what a caller sent.                                            *)

\* checkRefList: not too many, and none twice.
CheckRefList(ids) == IsInjective(ids) /\ Len(ids) <= MaxRefs

\* ExpertInput.validate of a single expert.
ValidExpert(in) ==
    /\ in.leader = NoConn /\ in.members = << >>
    /\ in.text > 0 /\ in.text + in.soul <= MaxPrompt
    /\ CheckRefList(in.skills) /\ CheckRefList(in.conns)

\* Mutation of ValidTeam: roles may repeat.
ValidTeamAnyRoles(in) ==
    /\ in.text = 0 /\ in.soul = 0 /\ in.desc = 0 /\ in.skills = << >> /\ in.conns = << >>
    /\ Len(in.members) \in 1 .. MaxMembers
    /\ \E i \in DOMAIN in.members : in.members[i].role = in.leader

\* validateTeam: nothing of its own, distinct roles, the leader among them.
ValidTeam(in) ==
    /\ in.text = 0 /\ in.soul = 0 /\ in.desc = 0 /\ in.skills = << >> /\ in.conns = << >>
    /\ Len(in.members) \in 1 .. MaxMembers
    /\ IsInjective(Project(in.members, LAMBDA m : m.role))
    /\ \E i \in DOMAIN in.members : in.members[i].role = in.leader

\* teamMemberProfile: a single expert of the tenant, not the team itself.
IsMember(teamId, ref) ==
    /\ ref[1] # teamId
    /\ ref \in DOMAIN profiles
    /\ profiles[ref].spec.kind = "expert"

\* snapshotsFor and checkSkill.
RefsKnown(in) ==
    /\ ToSet(in.conns) \subseteq DOMAIN Connectors
    /\ \A s \in ToSet(in.skills) : CheckSkill(s)

-----------------------------------------------------------------------------
(* Writing a version.                                                      *)

\* Mutation of BaseFiles: an update starts from nothing.
BaseFilesNone(id, version) == NoFiles

\* What the form has no field for carries over from the version before.
BaseFiles(id, version) ==
    IF <<id, version - 1>> \in DOMAIN profiles
      THEN profiles[<<id, version - 1>>].files
      ELSE NoFiles

\* The digest of a bundle stands for its files.
ExpertSpec(in, files) ==
    LET d == DeriveBundle(files)
    IN [kind |-> "expert", text |-> d.text, soul |-> d.soul, desc |-> files.desc,
        skills |-> d.skills, inBundle |-> d.inBundle, conns |-> d.conns,
        sha |-> files, source |-> in.source, leader |-> NoConn, members |-> << >>]

TeamSpec(in) ==
    [kind |-> "team", text |-> 0, soul |-> 0, desc |-> 0, skills |-> << >>,
     inBundle |-> << >>, conns |-> << >>, sha |-> NoFiles, source |-> NoConn,
     leader |-> in.leader, members |-> in.members]

\* What writeExpert says of the form, and the spec and files it would register.
WriteProblem(id, in, base) ==
    IF in.kind = "team"
      THEN IF ~ValidTeam(in) THEN "invalid"
           ELSE IF \A i \in DOMAIN in.members : IsMember(id, in.members[i].expert)
             THEN "ok" ELSE "member"
      ELSE IF ~ValidExpert(in) THEN "invalid"
           ELSE IF ~RefsKnown(in) THEN "reference"
           ELSE Problem(RenderBundle(in, base))

SpecOf(in, base) ==
    IF in.kind = "team" THEN TeamSpec(in) ELSE ExpertSpec(in, RenderBundle(in, base))

FilesOf(in, base) == IF in.kind = "team" THEN NoFiles ELSE RenderBundle(in, base)

\* Mutation of Accepts: a version that exists is taken for the caller's own.
AcceptsAny(ref, spec) == TRUE

\* RegisterProfile: a version that exists is the same write again, or a
\* conflict.
Accepts(ref, spec) ==
    ref \in DOMAIN profiles => profiles[ref].spec = spec

\* The row and its files are inserted unless they are there.
Register(ref, spec, files, by) ==
    profiles' = [r \in DOMAIN profiles \cup {ref} |->
                   CASE r \in DOMAIN profiles /\ r # ref -> profiles[r]
                     [] r \in DOMAIN profiles /\ r = ref ->
                          [profiles[r] EXCEPT !.files = IF @ = NoFiles THEN files ELSE @]
                     [] OTHER -> [spec |-> spec, files |-> files, by |-> by]]

\* writeExpert and writeTeam: the version is stored and the caller told so, or
\* an error leaves everything as it was.
WriteExpert(id, version, in, base) ==
    IF /\ WriteProblem(id, in, base) = "ok"
       /\ Accepts(<<id, version>>, SpecOf(in, base))
      THEN /\ Register(<<id, version>>, SpecOf(in, base), FilesOf(in, base), "api")
           /\ answers' = answers \cup {[ref |-> <<id, version>>, form |-> in]}
      ELSE UNCHANGED <<profiles, answers>>

-----------------------------------------------------------------------------
(* The calls.                                                              *)

CreateExpert(in) ==
    /\ lastId < MaxIds
    /\ lastId' = lastId + 1
    /\ LET i == [in EXCEPT !.kind = IF @ = "" THEN "expert" ELSE @]
       IN WriteExpert(lastId + 1, 1, i, NoFiles)
    /\ UNCHANGED <<personas, calls, refused, overlap, hand>>

\* latestProfiles: a profile that is neither an expert nor a team is not seen.
Versions(id) ==
    {v \in 1 .. MaxVersion : /\ <<id, v>> \in DOMAIN profiles
                             /\ profiles[<<id, v>>].spec.kind \in {"expert", "team"}}

Latest(id) == CHOOSE v \in Versions(id) : \A w \in Versions(id) : w <= v

\* UpdateExpert reads the latest version and settles the kind.
UpdateExpert(c, id, in) ==
    /\ calls[c] = Idle
    /\ Versions(id) # {}
    /\ LET v == Latest(id)
           kind == profiles[<<id, v>>].spec.kind
       IN /\ v < MaxVersion
          /\ in.kind \in {"", kind}
          /\ calls' = [calls EXCEPT ![c] =
               [op |-> "update", id |-> id, version |-> v + 1,
                form |-> [in EXCEPT !.kind = kind]]]
    /\ UNCHANGED <<profiles, lastId, personas, answers, refused, overlap, hand>>

\* The second half of UpdateExpert.
UpdateWrites(c) ==
    /\ calls[c].op = "update"
    /\ LET u == calls[c]
       IN WriteExpert(u.id, u.version, u.form, BaseFiles(u.id, u.version))
    /\ calls' = [calls EXCEPT ![c] = Idle]
    /\ UNCHANGED <<lastId, personas, refused, overlap, hand>>

\* POST /v1/profiles: any spec under any version, without files.
RegisterProfile(ref, spec) ==
    /\ hand < MaxHand
    /\ Accepts(ref, spec)
    /\ Register(ref, spec, NoFiles, "hand")
    /\ hand' = hand + 1
    /\ UNCHANGED <<lastId, personas, calls, answers, refused, overlap>>

\* ExpertFromAgent.
ImportAgent(a) ==
    LET i == FromAgent(a)
        why == WriteProblem(lastId + 1, i.form, i.base)
    IN /\ lastId < MaxIds
       /\ lastId' = lastId + 1
       /\ WriteExpert(lastId + 1, 1, i.form, i.base)
       /\ refused' = IF why = "ok" THEN refused
                     ELSE refused \cup {[agent |-> a, why |-> why]}
       /\ UNCHANGED <<personas, calls, overlap, hand>>

CreatePersona(p) ==
    /\ p \notin ToSet(personas)
    /\ personas' = <<p>> \o personas
    /\ UNCHANGED <<profiles, lastId, calls, answers, refused, overlap, hand>>

\* Mutation of Imported: every assistant is imported again.
ImportedNone == {}

\* The sources of the latest versions: what ImportPersonas takes for imported.
Imported ==
    {profiles[<<id, Latest(id)>>].spec.source : id \in {i \in 1 .. lastId : Versions(i) # {}}}

\* ImportPersonas reads the assistants and what was imported before.
ImportPersonas(c) ==
    /\ calls[c] = Idle
    /\ personas # << >>
    /\ calls' = [calls EXCEPT ![c] =
         [op |-> "import", todo |-> Keep(personas, ToSet(personas) \ Imported)]]
    /\ overlap' = (overlap \/ \E d \in Callers : calls[d].op = "import")
    /\ UNCHANGED <<profiles, lastId, personas, answers, refused, hand>>

PersonaForm(p) ==
    [kind |-> "expert", text |-> Personas[p].text, soul |-> 0, desc |-> 0,
     skills |-> << >>, conns |-> Keep(Personas[p].conns, DOMAIN Connectors),
     source |-> p, leader |-> NoConn, members |-> << >>]

\* One expert after the other; the first error ends the call.
ImportOne(c) ==
    /\ calls[c].op = "import"
    /\ IF calls[c].todo = << >>
         THEN /\ calls' = [calls EXCEPT ![c] = Idle]
              /\ UNCHANGED <<profiles, answers, lastId>>
         ELSE LET f == PersonaForm(Head(calls[c].todo))
              IN /\ lastId < MaxIds
                 /\ lastId' = lastId + 1
                 /\ WriteExpert(lastId + 1, 1, f, NoFiles)
                 /\ calls' = [calls EXCEPT ![c] =
                      IF WriteProblem(lastId + 1, f, NoFiles) = "ok"
                        THEN [op |-> "import", todo |-> Tail(calls[c].todo)] ELSE Idle]
    /\ UNCHANGED <<personas, refused, overlap, hand>>

Next ==
    \/ \E in \in Forms : CreateExpert(in)
    \/ \E c \in Callers, id \in 1 .. lastId, in \in Forms : UpdateExpert(c, id, in)
    \/ \E c \in Callers : UpdateWrites(c) \/ ImportPersonas(c) \/ ImportOne(c)
    \/ \E id \in 1 .. lastId, v \in 1 .. MaxVersion, s \in HandSpecs : RegisterProfile(<<id, v>>, s)
    \/ \E a \in Agents : ImportAgent(a)
    \/ \E p \in DOMAIN Personas : CreatePersona(p)

Spec == Init /\ [][Next]_vars

-----------------------------------------------------------------------------
(* What a caller reads back, and what a task makes of it.                  *)

\* teamFromSpec finds a team in a spec.
TeamFromSpec(spec) ==
    /\ Len(spec.members) \in 1 .. MaxMembers
    /\ IsInjective(Project(spec.members, LAMBDA m : m.role))
    /\ \E i \in DOMAIN spec.members : spec.members[i].role = spec.leader

\* expertWithDescription: a spec without a description takes its agent.json's.
Description(ref) ==
    LET p == profiles[ref]
    IN IF p.spec.kind = "expert" /\ p.spec.desc = 0 THEN p.files.desc ELSE p.spec.desc

\* expertFrom: a malformed team reads as one without members.
ExpertFrom(ref) ==
    LET s == profiles[ref].spec
        team == s.kind = "team" /\ TeamFromSpec(s)
    IN [kind |-> s.kind, text |-> s.text, soul |-> s.soul, desc |-> Description(ref),
        skills |-> s.skills, conns |-> s.conns, source |-> s.source,
        leader |-> IF team THEN s.leader ELSE NoConn,
        members |-> IF team THEN s.members ELSE << >>]

\* resolveTeam checks every member again.
Resolves(ref) ==
    LET spec == profiles[ref].spec
    IN /\ TeamFromSpec(spec)
       /\ \A i \in DOMAIN spec.members : IsMember(ref[1], spec.members[i].expert)

\* checkExpert: << >> is no expert, or the built-in one.
CheckExpert(ref) == ref = << >> \/ ref \in DOMAIN profiles

LeaderExpert(spec) ==
    spec.members[CHOOSE i \in DOMAIN spec.members : spec.members[i].role = spec.leader].expert

\* ResolveTaskConfig takes what a request chooses: a team alone, or with the
\* expert its leader runs as; or an expert, which may be a team.
ResolveTaskConfig(req) ==
    LET ref == IF req.team # << >> THEN req.team ELSE req.expert
        spec == profiles[ref].spec
    IN /\ CheckExpert(ref)
       /\ req.team # << >> => spec.kind = "team"
       /\ (ref # << >> /\ spec.kind = "team") =>
            /\ Resolves(ref)
            /\ req.team # << >> => req.expert \in {<< >>, req.team, LeaderExpert(spec)}
       /\ CheckRefList(req.skills) /\ CheckRefList(req.conns) /\ RefsKnown(req)

-----------------------------------------------------------------------------
(* Properties.                                                             *)

\* No lost update: a caller who was told that a version is stored reads back
\* (GetExpert) what the form said, whoever raced for the version.
AnswersHold ==
    \A a \in answers :
        /\ a.ref \in DOMAIN profiles
        /\ LET s == ExpertFrom(a.ref)
           IN /\ s.kind = a.form.kind /\ s.text = a.form.text /\ s.soul = a.form.soul
              /\ s.conns = a.form.conns /\ ToSet(s.skills) = ToSet(a.form.skills)
              /\ s.members = a.form.members /\ s.leader = a.form.leader
              /\ s.source = a.form.source /\ (a.form.desc > 0 => s.desc = a.form.desc)

Unowned(b) ==
    [unbound |-> DeriveBundle(b).unbound, inBundle |-> DeriveBundle(b).inBundle,
     other |-> b.other]

\* An edit of the form loses nothing the form has no field for: the entries of
\* mcp.json that are not bound, the bundle's skills in their order, other files.
EditKeeps ==
    \A r \in DOMAIN profiles :
        LET next == <<r[1], r[2] + 1>>
        IN (/\ next \in DOMAIN profiles
            /\ profiles[next].by = "api"
            /\ profiles[next].spec.kind = "expert")
              => Unowned(profiles[next].files) = Unowned(profiles[r].files)

\* A team that was stored can be chosen for a task at any later time, as the
\* expert, as the team, and together with the expert its leader runs as.
TeamsRunnable ==
    \A r \in DOMAIN profiles :
        (profiles[r].by = "api" /\ profiles[r].spec.kind = "team") =>
            \A c \in {<<r, << >>>>, <<<< >>, r>>, <<LeaderExpert(profiles[r].spec), r>>} :
                ResolveTaskConfig([expert |-> c[1], team |-> c[2], skills |-> << >>, conns |-> << >>])

SkillsClash(in, base) ==
    LET names == Project(RenderSkills(in, base), LAMBDA e : e.name)
    IN ~IsInjective(names)

\* On top of every stored version, whatever names connectors and servers have,
\* a valid form is rendered to a bundle that can be read back and says what the
\* form said. It is refused only if two skills have one name, a connector shows
\* a credential, or there is no room for another file.
FormRoundTrip ==
    \A r \in DOMAIN profiles, in \in Forms :
        (profiles[r].spec.kind = "expert" /\ in.kind # "team" /\ ValidExpert(in) /\ RefsKnown(in)) =>
            LET base == profiles[r].files
                b == RenderBundle(in, base)
                d == DeriveBundle(b)
            IN \/ SkillsClash(in, base)
               \/ \E c \in ToSet(in.conns) : Connectors[c].secret
               \/ FileCount(b) > MaxFiles
               \/ /\ Problem(b) = "ok"
                  /\ d.conns = in.conns /\ ToSet(d.skills) = ToSet(in.skills)
                  /\ Unowned(b) = Unowned(base)

\* An agent of the catalog is refused only if it says nothing at all, asks by name
\* for more connectors than an expert may have, is bound to one that shows a
\* credential, or its files leave no room for AGENTS.md, agent.json and, when it
\* asks for a connector by name, mcp.json.
ImportFits ==
    \A x \in refused :
        LET named == MatchConnectors(x.agent.mcps)
        IN \/ x.agent.prompt = 0 /\ x.agent.files.agents = 0
           \/ x.why = "invalid" /\ Len(named) > MaxRefs
           \/ x.why = "MCP_LITERAL_SECRET" /\ \E c \in DOMAIN Connectors : Connectors[c].secret
           \/ /\ x.why = "BUNDLE_TOO_MANY_FILES"
              /\ FileCount(SnapshotBundle(x.agent.files)) + (IF named = << >> THEN 2 ELSE 3) > MaxFiles

\* expert_import.go:216: each assistant becomes an expert once, however often
\* the import is called. (Not if an imported expert is edited, which drops its
\* source, or two imports overlap: see the README.)
ImportedOnce ==
    \A p \in DOMAIN Personas :
        Cardinality({id \in 1 .. lastId :
            /\ <<id, 1>> \in DOMAIN profiles
            /\ profiles[<<id, 1>>].by = "api"
            /\ profiles[<<id, 1>>].spec.source = p}) <= 1

\* As long as no imported expert has a second version and no two imports
\* overlap, each assistant becomes an expert at most once.
ImportedOnceAlone ==
    (/\ ~overlap
     /\ \A r \in DOMAIN profiles :
            (<<r[1], 1>> \in DOMAIN profiles /\ profiles[<<r[1], 1>>].spec.source \in DOMAIN Personas)
              => r[2] = 1) => ImportedOnce
=============================================================================
