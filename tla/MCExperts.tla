----------------------------- MODULE MCExperts -----------------------------
(* Experts on a tenant with four connectors, of which two share a name and *)
(* one shows a credential, and agents at the limits of a bundle.           *)
EXTENDS Experts

MCNames ==
    {NoConn, "pdf", "web", "zeta", "c1", "c2", "c3", "c4", "x", "y", "z", "u1", "u3", "u4",
     "theirs", "v", "w", "secret-url", "lead", "dev", "p1", "p2",
     "full", "files", "edge", "named", "greedy"}

MCSkills == [pdf |-> [name |-> "pdf", usable |-> TRUE], web |-> [name |-> "web", usable |-> TRUE]]

MCConnectors ==
    [c1 |-> [name |-> "x", url |-> "u1", secret |-> FALSE],
     c2 |-> [name |-> "x", url |-> NoConn, secret |-> FALSE],
     c3 |-> [name |-> "y", url |-> "u3", secret |-> TRUE],
     c4 |-> [name |-> "z", url |-> "u4", secret |-> FALSE]]

Filled(kind, text, skills, conns) ==
    [kind |-> kind, text |-> text, soul |-> 0, desc |-> 0, skills |-> skills,
     conns |-> conns, source |-> NoConn, leader |-> NoConn, members |-> << >>]

Team(leader, members) ==
    [Filled("team", 0, << >>, << >>) EXCEPT !.leader = leader, !.members = members]

Member(role, id, v) == [role |-> role, expert |-> <<id, v>>]

MCForms ==
    { Filled("", 1, <<"web">>, <<"c1", "c2">>),
      Filled("expert", 2, <<"pdf", "web">>, <<"c2">>),
      Filled("expert", 1, << >>, <<"c3">>),
      Team("lead", <<Member("lead", 1, 1), Member("dev", 1, 2)>>),
      Team("lead", <<Member("lead", 1, 1), Member("lead", 1, 1)>>) }

MCHandSpecs ==
    { [kind |-> k, text |-> 1, soul |-> 0, desc |-> 0, skills |-> << >>,
       inBundle |-> << >>, conns |-> << >>, sha |-> NoFiles, source |-> NoConn,
       leader |-> NoConn, members |-> << >>] : k \in {"expert", "team", "custom"} }

Their(name, url, secret) ==
    [name |-> <<name>>, conn |-> "theirs", url |-> url # NoConn,
     command |-> url = NoConn, at |-> url, secret |-> secret]

Other(n) == [n |-> n, text |-> TRUE]

\* A full agent: skills of both kinds, a server named like a connector, one of
\* its url, one with a credential in its url, a binary file.
FullAgent ==
    [id |-> "full", prompt |-> 1, desc |-> 1, mcps |-> {"x"},
     files |-> [NoFiles EXCEPT !.agents = 2, !.soul = 3,
        !.skills = <<[name |-> "zeta", id |-> NoConn], [name |-> "web", id |-> "web"]>>,
        !.dirs = {"zeta", "pdf"},
        !.mcp = <<Their("x", NoConn, FALSE), Their("z", "u1", FALSE),
                  Their("w", "secret-url", TRUE), Their("v", NoConn, TRUE)>>,
        !.other = {[n |-> 1, text |-> FALSE], Other(2)}]]

\* Nothing but files, as many as fit.
FilesAgent ==
    [id |-> "files", prompt |-> 1, desc |-> 0, mcps |-> {},
     files |-> [NoFiles EXCEPT !.other = {Other(n) : n \in 1 .. MaxFiles}]]

\* One file less than two under the limit, and a soul that is too long.
EdgeAgent ==
    [id |-> "edge", prompt |-> 1, desc |-> 0, mcps |-> {},
     files |-> [NoFiles EXCEPT !.soul = 9, !.other = {Other(n) : n \in 1 .. MaxFiles - 3}]]

\* Room for AGENTS.md and agent.json, not for the mcp.json it makes necessary.
NamedAgent ==
    [id |-> "named", prompt |-> 1, desc |-> 0, mcps |-> {"x"},
     files |-> [NoFiles EXCEPT !.other = {Other(n) : n \in 1 .. MaxFiles - 2}]]

\* More connectors than an expert may have.
GreedyAgent == [id |-> "greedy", prompt |-> 1, desc |-> 0, mcps |-> {"x", "y", "z"}, files |-> NoFiles]

MCAgents == {FullAgent, FilesAgent, EdgeAgent, NamedAgent, GreedyAgent}

\* The second lists a connector twice.
MCPersonas == [p1 |-> [text |-> 1, conns |-> <<"c1">>], p2 |-> [text |-> 1, conns |-> <<"c1", "c1">>]]
=============================================================================
