------------------------------- MODULE Bundle -------------------------------
(***************************************************************************)
(* The agent bundle: the files an expert version is made of                *)
(* (internal/app/bundle.go) and what an import makes of a catalog agent's  *)
(* files (internal/app/expert_import.go).                                  *)
(*                                                                         *)
(* A text is its length, 0 being the empty one. A bundle is the text of    *)
(* AGENTS.md and SOUL.md, the description of agent.json, the entries of    *)
(* skills.json and mcp.json (an empty list is a file that is not there),   *)
(* the skills/ directories with a SKILL.md and the files nothing reads. A  *)
(* server's name is a sequence, so that "x-2" is <<"x", 2>>.               *)
(***************************************************************************)
EXTENDS Naturals, Sequences, FiniteSets, SequencesExt

CONSTANTS
    Names,       \* names, ids and addresses, which are only compared
    Skills,      \* the tenant's catalog: skill id -> [name, usable]
    Connectors,  \* connector id -> [name, url, secret]
    MaxPrompt,   \* maxExpertInstructions
    Reserve,     \* what fitPrompt leaves to the instructions (1000)
    MaxFiles,    \* maxBundleFiles
    MaxRefs      \* maxExpertConnectors, maxTaskConfigRefs

NoConn == "none"

ASSUME BundleAssumption ==
    /\ MaxPrompt \in Nat /\ Reserve \in 1 .. MaxPrompt
    /\ MaxFiles \in Nat /\ MaxRefs \in Nat
    /\ NoConn \in Names
    /\ DOMAIN Skills \subseteq Names \ {NoConn}
    /\ Skills \in [DOMAIN Skills -> [name : Names, usable : BOOLEAN]]
    /\ DOMAIN Connectors \subseteq Names \ {NoConn}
    /\ Connectors \in [DOMAIN Connectors -> [name : Names, url : Names, secret : BOOLEAN]]

\* skillEntry: id is NoConn for a directory of the bundle.
Entry == [name : Names, id : Names]

\* mcpServer: where it is reached, and the connector it is bound to, if any.
Server == [name : Seq(Names \cup Nat), conn : Names, url : BOOLEAN, command : BOOLEAN,
           at : Names, secret : BOOLEAN]

\* bundleFiles.
Files == [agents : Nat, soul : Nat, desc : Nat, skills : Seq(Entry), dirs : SUBSET Names,
          mcp : Seq(Server), other : SUBSET [n : Nat, text : BOOLEAN], json : BOOLEAN]

NoFiles == [agents |-> 0, soul |-> 0, desc |-> 0, skills |-> << >>,
            dirs |-> {}, mcp |-> << >>, other |-> {}, json |-> FALSE]

Project(s, Op(_)) == [i \in DOMAIN s |-> Op(s[i])]

\* What is in T, in the order of the sequence.
Keep(s, T) ==
    LET kept[n \in 0 .. Len(s)] ==
            IF n = 0 THEN << >>
            ELSE IF s[n] \in T THEN Append(kept[n - 1], s[n]) ELSE kept[n - 1]
    IN kept[Len(s)]

\* The files of the form that are there.
FormFiles(b) ==
    {f \in {"agents", "soul", "skills", "mcp", "json"} :
        \/ f = "agents" /\ b.agents > 0
        \/ f = "soul" /\ b.soul > 0
        \/ f = "skills" /\ b.skills # << >>
        \/ f = "mcp" /\ b.mcp # << >>
        \/ f = "json" /\ b.json}

FileCount(b) == Cardinality(b.dirs) + Cardinality(b.other) + Cardinality(FormFiles(b))

-----------------------------------------------------------------------------
(* Parsing and deriving.                                                   *)

\* checkSkill: the catalog has it and the worker can stage it.
CheckSkill(id) == id \in DOMAIN Skills /\ Skills[id].usable

\* parseSkillsJSON: names are unique, and so are the ids of catalog entries.
SkillsOK(entries) ==
    \A i, j \in DOMAIN entries :
        \/ entries[i].name = entries[j].name
        \/ entries[i].id = entries[j].id /\ entries[i].id # NoConn
        => i = j

\* parseMCPJSON and mcpServer.check.
ServersOK(servers) ==
    /\ IsInjective(Project(servers, LAMBDA s : s.name))
    /\ \A i \in DOMAIN servers : servers[i].url \/ servers[i].command

\* secretFields: a literal credential in a header, the environment, the
\* arguments or the url.
HasSecret(s) == s.secret

\* deriveBundle's first error, or "ok".
Problem(b) ==
    IF FileCount(b) > MaxFiles THEN "BUNDLE_TOO_MANY_FILES"
    ELSE IF b.agents = 0 THEN "AGENTS_MD_REQUIRED"
    ELSE IF ~SkillsOK(b.skills) THEN "SKILLS_JSON_INVALID"
    ELSE IF \E i \in DOMAIN b.skills : b.skills[i].id = NoConn /\ b.skills[i].name \notin b.dirs
      THEN "BUNDLE_SKILL_MISSING"
    ELSE IF ~ServersOK(b.mcp) THEN "MCP_JSON_INVALID"
    ELSE IF \E i \in DOMAIN b.mcp : HasSecret(b.mcp[i]) THEN "MCP_LITERAL_SECRET"
    ELSE "ok"

\* The ids that are given.
Given(ids) == Keep(ids, ToSet(ids) \ {NoConn})

\* The entries of skills.json for directories of the bundle.
Listed(entries) == Keep(entries, {e \in ToSet(entries) : e.id = NoConn})

\* The entries of mcp.json that are bound to no connector.
Unbound(servers) == Keep(servers, {s \in ToSet(servers) : s.conn = NoConn})

\* What the worker reads. The directories skills.json does not list load after
\* the listed ones.
DeriveBundle(b) ==
    LET names == Project(Listed(b.skills), LAMBDA e : e.name)
    IN [text     |-> b.agents,
        soul     |-> b.soul,
        skills   |-> Given(Project(b.skills, LAMBDA e : e.id)),
        inBundle |-> names \o SetToSeq(b.dirs \ ToSet(names)),
        conns    |-> Given(Project(b.mcp, LAMBDA s : s.conn)),
        unbound  |-> Unbound(b.mcp)]

-----------------------------------------------------------------------------
(* Rendering the form.                                                     *)

CatalogEntry(id) == [name |-> Skills[id].name, id |-> id]

\* Bundle entries stay where they were, catalog entries are the form's.
RenderSkills(in, base) ==
    LET prev == IF SkillsOK(base.skills) THEN base.skills ELSE << >>
        kept == Keep(prev, {e \in ToSet(prev) :
                    IF e.id = NoConn THEN e.name \in base.dirs ELSE e.id \in ToSet(in.skills)})
        have == {kept[i].id : i \in DOMAIN kept}
    IN Project(kept, LAMBDA e : IF e.id = NoConn THEN e ELSE CatalogEntry(e.id))
         \o Project(Keep(in.skills, ToSet(in.skills) \ have), CatalogEntry)

\* The name, or the first of name-2, name-3, ... that nobody has.
FreeName(name, taken) ==
    IF name \notin taken THEN name
    ELSE LET free == {n \in 2 .. Cardinality(taken) + 2 : Append(name, n) \notin taken}
         IN Append(name, CHOOSE n \in free : \A m \in free : n <= m)

\* connectorServer.
ConnectorServer(name, id) ==
    [name |-> name, conn |-> id, url |-> Connectors[id].url # NoConn,
     command |-> Connectors[id].url = NoConn, at |-> Connectors[id].url,
     secret |-> Connectors[id].secret]

\* The name a connector's entry had in the version before, or its own.
EntryName(prev, id) ==
    LET at == {i \in DOMAIN prev : prev[i].conn = id}
    IN IF at = {} THEN <<Connectors[id].name>>
       ELSE prev[CHOOSE i \in at : \A j \in at : j <= i].name

\* Mutation of BoundServers: a name is not checked against the ones taken.
BoundServersSameName(ids, prev, taken) ==
    Project(ids, LAMBDA id : ConnectorServer(EntryName(prev, id), id))

\* The form's connectors, each under a name of its own.
BoundServers(ids, prev, taken) ==
    LET bound[n \in 0 .. Len(ids)] ==
            IF n = 0 THEN << >>
            ELSE LET used == taken \cup ToSet(Project(bound[n - 1], LAMBDA s : s.name))
                     name == FreeName(EntryName(prev, ids[n]), used)
                 IN Append(bound[n - 1], ConnectorServer(name, ids[n]))
    IN bound[Len(ids)]

\* Entries that are not bound stay, after the form's connectors.
RenderServers(in, base) ==
    LET prev == IF ServersOK(base.mcp) THEN base.mcp ELSE << >>
        names == ToSet(Project(Unbound(prev), LAMBDA s : s.name))
    IN BoundServers(in.conns, prev, names) \o Unbound(prev)

\* What the form has no field for is kept as it is. A description left out is
\* the one of the version before.
RenderBundle(in, base) ==
    [base EXCEPT !.agents = in.text,
                 !.soul   = in.soul,
                 !.desc   = IF in.desc > 0 THEN in.desc ELSE @,
                 !.json   = TRUE,
                 !.skills = RenderSkills(in, base),
                 !.mcp    = RenderServers(in, base)]

-----------------------------------------------------------------------------
(* Importing a catalog agent. Its files are a bundle, all of them: other   *)
(* has those that cannot be stored as well.                                *)

\* Mutation of FitPrompt: the soul may take all the room.
FitPromptGreedy(soul, text) ==
    LET s == IF soul > MaxPrompt THEN MaxPrompt ELSE soul
    IN [soul |-> s, text |-> IF text > MaxPrompt - s THEN MaxPrompt - s ELSE text]

\* The soul is cut first, then the instructions, which keep something.
FitPrompt(soul, text) ==
    LET s == IF soul > MaxPrompt - Reserve THEN MaxPrompt - Reserve ELSE soul
    IN [soul |-> s, text |-> IF text > MaxPrompt - s THEN MaxPrompt - s ELSE text]

\* pathProblem and textProblem find nothing.
Storable(f) == f.text

\* snapshotBundle drops what a bundle cannot hold: files that are not text, too
\* big, or one too many (those nothing reads are taken to come last).
SnapshotBundle(b) ==
    LET text == {f \in b.other : Storable(f)}
        room == MaxFiles - FileCount([b EXCEPT !.other = {}])
    IN [b EXCEPT !.other = {f \in text : Cardinality({g \in text : g.n < f.n}) < room}]

\* scrub removes what holds a literal credential.
Scrub(s) ==
    [s EXCEPT !.secret = FALSE,
              !.url = s.url /\ s.at # "secret-url",
              !.at = IF s.at = "secret-url" THEN NoConn ELSE s.at]

\* The connectors an entry may be bound to: the same name or the same url, and
\* room for one more.
Matches(s, bound) ==
    {c \in DOMAIN Connectors :
        /\ <<Connectors[c].name>> = s.name
             \/ (Connectors[c].url # NoConn /\ Connectors[c].url = s.at)
        /\ c \in bound \/ Cardinality(bound) < MaxRefs}

\* An entry without a url and a command is dropped; the rest is bound where
\* something matches.
Bind(acc, server) ==
    LET s == Scrub([server EXCEPT !.conn = NoConn])
        m == Matches(s, ToSet(acc.ids))
        c == CHOOSE c \in m : TRUE
    IN IF ~s.url /\ ~s.command THEN acc
       ELSE IF m = {} THEN [acc EXCEPT !.mcp = Append(@, s)]
       ELSE [mcp |-> Append(acc.mcp, [s EXCEPT !.conn = c]),
             ids |-> IF c \in ToSet(acc.ids) THEN acc.ids ELSE Append(acc.ids, c)]

\* importMCP: the snapshot's connector ids mean nothing here.
ImportMCP(b, wanted) ==
    LET servers == IF ServersOK(b.mcp) THEN b.mcp ELSE << >>
        bound[n \in 0 .. Len(servers)] ==
            IF n = 0 THEN [mcp |-> << >>, ids |-> wanted]
            ELSE Bind(bound[n - 1], servers[n])
    IN bound[Len(servers)]

\* importSkills leaves out a skills.json the tenant cannot use as it is.
ImportSkills(b) ==
    IF /\ SkillsOK(b.skills)
       /\ \A i \in DOMAIN b.skills :
              LET e == b.skills[i]
              IN IF e.id = NoConn THEN e.name \in b.dirs
                 ELSE CheckSkill(e.id)
      THEN b.skills ELSE << >>

\* agentInstructions: its prompts, or else its name and description, clipped.
AgentInstructions(agent) == IF agent.prompt > MaxPrompt THEN MaxPrompt ELSE agent.prompt

\* matchConnectors: one connector for each name that some connector has.
MatchConnectors(names) ==
    LET have == names \cap {Connectors[c].name : c \in DOMAIN Connectors}
    IN SetToSeq({CHOOSE c \in DOMAIN Connectors : Connectors[c].name = n : n \in have})

\* ExpertFromAgent: the form and the files the new expert is written from. An
\* agent without an AGENTS.md is given one. The connectors it asks for by name
\* come first.
FromAgent(agent) ==
    LET b == SnapshotBundle(agent.files)
        p == FitPrompt(b.soul, IF b.agents > 0 THEN b.agents ELSE AgentInstructions(agent))
        m == ImportMCP(b, MatchConnectors(agent.mcps))
    IN [form |-> [kind |-> "expert", text |-> p.text, soul |-> p.soul,
                  desc |-> agent.desc, skills |-> << >>, conns |-> m.ids,
                  source |-> agent.id, leader |-> NoConn, members |-> << >>],
        base |-> [b EXCEPT !.agents = 0, !.soul = 0, !.json = FALSE,
                           !.mcp = m.mcp, !.skills = ImportSkills(b)]]
=============================================================================
