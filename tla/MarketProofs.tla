---------------------------- MODULE MarketProofs ----------------------------
(***************************************************************************)
(* Proofs about Market, for any number of replicas, versions and batches:  *)
(* what InstallAll leaves when it has ended everywhere, the numbers of the *)
(* plaza's sidebar, and what a walk through the pages of a list shows.     *)
(***************************************************************************)
EXTENDS Market, FiniteSetTheorems, SequenceTheorems, TLAPS

Wiped == {"mcp", "agents", "record", "clearText"}

Done == {"textCheck", "text", "icons", "iconRecord"}

PCs == {"ended", "ok", "check", "skills"} \cup Wiped \cup Done

Tables == Versions \cup {0}

Stores == [skills : Tables, mcp : Tables, agents : Tables, snap : Tables,
           text : [DOMAIN NoText -> BOOLEAN], textRec : BOOLEAN,
           icons : SUBSET Icons, iconRec : BOOLEAN]

Runs == [pc : PCs, v : Tables, dir : BOOLEAN, force : BOOLEAN, batch : Nat \ {0},
         erred : BOOLEAN]

\* A start found the sidecars, and the text begins at the first batch.
TypeInv ==
    /\ db \in Stores /\ run \in [Replicas -> Runs]
    /\ mixed \in BOOLEAN /\ torn \in BOOLEAN
    /\ \A r \in Replicas :
         /\ Installing(r) => run[r].v \in Versions /\ run[r].dir
         /\ run[r].pc \in {"check", "skills", "textCheck"} \cup Wiped => run[r].batch = 1

-----------------------------------------------------------------------------
(* The tables, as long as the versions do not overlap.                     *)

\* The replicas that install have one version, and the skills are that one's or
\* the recorded one's.
OneVersion ==
    \A q \in Replicas : Installing(q) =>
        /\ db.skills \in {db.snap, run[q].v}
        /\ \A r \in Replicas : Installing(r) => run[r].v = run[q].v

\* Skills of the recorded version have the servers and the agents with them.
Recorded == db.skills = db.snap => db.mcp = db.snap /\ db.agents = db.snap

\* What a replica has replaced is of its version.
Replaced ==
    \A r \in Replicas :
        /\ run[r].pc \in Wiped \cup Done => db.skills = run[r].v
        /\ run[r].pc \in {"agents", "record", "clearText"} \cup Done => db.mcp = run[r].v
        /\ run[r].pc \in {"record", "clearText"} \cup Done => db.agents = run[r].v
        /\ run[r].pc \in {"clearText"} \cup Done => db.snap = run[r].v

\* When all have ended well, one of them has the version of the tables.
OneIsStored ==
    (\A r \in Replicas : run[r].pc = "ok") =>
        \E r \in Replicas : {db.skills, db.mcp, db.agents, db.snap} = {run[r].v} /\ run[r].v # 0

TablesInv == OneVersion /\ Recorded /\ Replaced /\ OneIsStored

-----------------------------------------------------------------------------
(* The text, as long as none was torn.                                     *)

\* The skills have the text of the batches before b.
Filled(d, b) ==
    \A s \in LoadSkills(d.skills), i \in DOMAIN TextBatches :
        i < b /\ s.id \in TextBatches[i] => d.text[s.id]

Whole(d) == Filled(d, Len(TextBatches) + 1)

\* The replica has wiped the text, and will fill all of it.
Heals(r) ==
    \/ run[r].pc \in Wiped
    \/ run[r].pc = "textCheck" /\ run[r].force
    \/ run[r].pc = "text" /\ run[r].force /\ Filled(db, run[r].batch)

\* The replica does not end well without having filled the text.
Fills(r) ==
    /\ run[r].pc = "text" => Filled(db, run[r].batch)
    /\ run[r].pc \in {"icons", "iconRecord"} => run[r].erred

\* The text is not recorded, and those that are still to end fill it.
Unrecorded ==
    /\ ~db.textRec
    /\ \E r \in Replicas : run[r].pc # "ok"
    /\ \A r \in Replicas : Fills(r)

\* Text is missing only while a replacement is not recorded, or one that will
\* fill it is on its way, or the text is not recorded.
TextInv ==
    \/ db.skills = 0 \/ db.skills # db.snap
    \/ Whole(db)
    \/ \E r \in Replicas : Heals(r)
    \/ Unrecorded

-----------------------------------------------------------------------------
(* The icons.                                                              *)

IconsInv ==
    /\ db.iconRec => Icons \subseteq db.icons
    /\ \A r \in Replicas :
         run[r].pc = "iconRecord" \/ (run[r].pc = "ok" /\ run[r].dir) => Icons \subseteq db.icons

InstallInv ==
    /\ TypeInv /\ IconsInv
    /\ ~mixed => TablesInv
    /\ ~mixed /\ ~torn => TextInv
-----------------------------------------------------------------------------
(* The numbers of the sidebar.                                             *)

\* A query for one label and nothing else selects what the sidebar counts.
LEMMA SameRows ==
  ASSUME NEW key, key # "", NEW online \in {"", "true", "false"},
         NEW q, q = [kind |-> "mcp", category |-> key, online |-> online,
                     service |-> "", source |-> "", keyword |-> FALSE]
  PROVE  /\ Matched(q) = {r \in Stored("mcp") : NeedsOnlineOK(r, online) /\ r.category = key}
         /\ CategoryCount(key, online) = Cardinality(Matched(q))
<1> DEFINE rows == {r \in Stored("mcp") : NeedsOnlineOK(r, online) /\ r.category = key}
           online_ok(r) == CASE online = "true"  -> r.online
                             [] online = "false" -> ~r.online
                             [] OTHER            -> TRUE
<1>1. Matched(q) = {r \in Stored("mcp") : McpMarketFilter(r, q)}
  <2>1. q.kind = "mcp"
    OBVIOUS
  <2>2. \A r : Selects(q, r) <=> McpMarketFilter(r, q)
    BY <2>1 DEF Selects
  <2> HIDE DEF rows
  <2> QED
    BY <2>1, <2>2, Zenon DEF Matched
<1>2. {r \in Stored("mcp") : McpMarketFilter(r, q)} = rows
  <2>1. ASSUME NEW r
        PROVE  q.online \in {"", IF r.online THEN "true" ELSE "false"} <=> NeedsOnlineOK(r, online)
    <3>1. q.online = online
      OBVIOUS
    <3>2. CASE r.online
      <4>1. (IF r.online THEN "true" ELSE "false") = "true"
        BY <3>2
      <4> QED
        BY <3>1, <3>2, <4>1, Zenon DEF NeedsOnlineOK
    <3>3. CASE ~r.online
      <4>1. (IF r.online THEN "true" ELSE "false") = "false"
        BY <3>3
      <4> QED
        BY <3>1, <3>3, <4>1, Zenon DEF NeedsOnlineOK
    <3> QED
      BY <3>2, <3>3
  <2>2. /\ q.category = key /\ q.source = "" /\ q.service = "" /\ ~q.keyword
    OBVIOUS
  <2> HIDE DEF rows
  <2> QED
    BY <2>1, <2>2, Zenon DEF McpMarketFilter, rows
<1>3. ASSUME NEW r
      PROVE  online_ok(r) <=> NeedsOnlineOK(r, online)
  <2>1. CASE online = "true"
    BY <2>1, Zenon DEF NeedsOnlineOK
  <2>2. CASE online = "false"
    BY <2>2, Zenon DEF NeedsOnlineOK
  <2>3. CASE online = ""
    BY <2>3, Zenon DEF NeedsOnlineOK
  <2> QED
    BY <2>1, <2>2, <2>3
<1>4. CategoryCount(key, online) = Cardinality(rows)
  <2>1. CategoryCount(key, online) =
          Cardinality({r \in Stored("mcp") : r.category = key /\ online_ok(r)})
    BY Zenon DEF CategoryCount
  <2> HIDE DEF online_ok
  <2>2. {r \in Stored("mcp") : r.category = key /\ online_ok(r)} = rows
    BY <1>3, Zenon
  <2> QED
    BY <2>1, <2>2
<1> QED
  BY <1>1, <1>2, <1>4

\* The number beside a label is the total of the list it opens (SidebarCounts).
THEOREM SidebarCountsTheorem == Spec => []SidebarCounts
<1>1. SidebarCounts
  <2> SUFFICES ASSUME NEW key \in {r.category : r \in Stored("mcp")} \ {""},
                      NEW online \in {"", "true", "false"}
               PROVE  LET total == Cardinality(Matched([kind |-> "mcp", category |-> key,
                                          online |-> online, service |-> "", source |-> "",
                                          keyword |-> FALSE]))
                      IN  /\ CategoryCount(key, online) = total
                          /\ MemCategoryCount(key, online) = total
    BY DEF SidebarCounts
  <2> DEFINE q == [kind |-> "mcp", category |-> key, online |-> online,
                   service |-> "", source |-> "", keyword |-> FALSE]
             rows == {r \in Stored("mcp") : NeedsOnlineOK(r, online) /\ r.category = key}
  <2>1. key # ""
    OBVIOUS
  <2>2. Matched(q) = rows /\ CategoryCount(key, online) = Cardinality(Matched(q))
    <3> HIDE DEF rows
    <3>1. \A p : p = q => /\ Matched(p) = rows
                         /\ CategoryCount(key, online) = Cardinality(Matched(p))
      BY <2>1, SameRows DEF rows
    <3> HIDE DEF q
    <3> QED
      BY <3>1
  <2>3. MemCategoryCount(key, online) = Cardinality(rows)
    BY Zenon DEF MemCategoryCount
  <2> HIDE DEF rows
  <2>4. CategoryCount(key, online) = Cardinality(Matched(q))
        /\ MemCategoryCount(key, online) = Cardinality(Matched(q))
    BY <2>2, <2>3
  <2> QED
    BY <2>4
<1> QED
  BY <1>1, PTL
-----------------------------------------------------------------------------
(* What a step of a replica does to its own record, and leaves of the others'. *)

Others(r) == \A q \in Replicas \ {r} : run'[q] = run[q]

Moved(r, pc) ==
    /\ Others(r) /\ run'[r].pc = pc /\ run'[r].v = run[r].v /\ run'[r].dir = run[r].dir
    /\ run'[r].force = run[r].force /\ run'[r].batch = run[r].batch
    /\ run'[r].erred = run[r].erred

LEMMA GotoMoves ==
  ASSUME TypeInv, NEW r \in Replicas, NEW pc \in PCs, Goto(r, pc)
  PROVE  Moved(r, pc) /\ run' \in [Replicas -> Runs]
<1>1. run \in [Replicas -> Runs]
  BY DEF TypeInv
<1>2. run' = [run EXCEPT ![r] = [@ EXCEPT !.pc = pc]]
  BY DEF Goto
<1>3. run[r] \in Runs
  BY <1>1
<1> DEFINE x == [run[r] EXCEPT !.pc = pc]
<1>4. /\ x \in Runs /\ x.pc = pc /\ x.v = run[r].v /\ x.dir = run[r].dir
      /\ x.force = run[r].force /\ x.batch = run[r].batch /\ x.erred = run[r].erred
  BY <1>3 DEF Runs
<1>5. run' = [run EXCEPT ![r] = x]
  BY <1>2
<1> HIDE DEF x
<1>6. run'[r] = x /\ Others(r) /\ run' \in [Replicas -> Runs]
  BY <1>1, <1>4, <1>5 DEF Others
<1> QED
  BY <1>4, <1>6 DEF Moved

LEMMA AtType ==
  ASSUME NEW pc \in PCs, NEW v \in Tables, NEW dir \in BOOLEAN
  PROVE  /\ At(pc, v, dir) \in Runs /\ At(pc, v, dir).pc = pc /\ At(pc, v, dir).v = v
         /\ At(pc, v, dir).dir = dir /\ ~At(pc, v, dir).force
         /\ At(pc, v, dir).batch = 1 /\ ~At(pc, v, dir).erred
BY DEF At, Runs

\* A replica that is given a new record.
LEMMA NewRecord ==
  ASSUME run \in [Replicas -> Runs], NEW r \in Replicas, NEW x \in Runs,
         run' = [run EXCEPT ![r] = x]
  PROVE  run'[r] = x /\ Others(r) /\ run' \in [Replicas -> Runs]
BY DEF Others

LEMMA EndMoves ==
  ASSUME TypeInv, NEW r \in Replicas, run[r].pc \in {"icons", "iconRecord"}, Ends(r)
  PROVE  /\ Others(r) /\ run' \in [Replicas -> Runs]
         /\ run[r].erred => run'[r].pc = "ended"
         /\ ~run[r].erred => /\ run'[r].pc = "ok" /\ run'[r].v = run[r].v
                             /\ run'[r].dir = run[r].dir
<1> DEFINE x == IF run[r].erred THEN At("ended", 0, FALSE) ELSE At("ok", run[r].v, run[r].dir)
<1>1. run \in [Replicas -> Runs] /\ run[r].v \in Tables /\ run[r].dir \in BOOLEAN
  BY DEF TypeInv, Runs
<1>2. x \in Runs /\ x.pc = IF run[r].erred THEN "ended" ELSE "ok"
  <2>1. At("ended", 0, FALSE) \in Runs /\ At("ended", 0, FALSE).pc = "ended"
    BY AtType DEF PCs, Tables
  <2>2. /\ At("ok", run[r].v, run[r].dir) \in Runs
        /\ At("ok", run[r].v, run[r].dir).pc = "ok"
    BY <1>1, AtType DEF PCs
  <2>3. CASE run[r].erred
    BY <2>1, <2>3
  <2>4. CASE ~run[r].erred
    BY <2>2, <2>4
  <2> QED
    BY <2>3, <2>4
<1>3. ~run[r].erred => x.v = run[r].v /\ x.dir = run[r].dir
  BY <1>1, AtType DEF PCs
<1>4. run' = [run EXCEPT ![r] = x]
  BY DEF Ends
<1> HIDE DEF x
<1>5. run'[r] = x /\ Others(r) /\ run' \in [Replicas -> Runs]
  BY <1>1, <1>2, <1>4, NewRecord
<1> QED
  BY <1>2, <1>3, <1>5

LEMMA StartMoves ==
  ASSUME TypeInv, NEW r \in Replicas, NEW v \in Versions, NEW dir \in Dirs, Start(r, v, dir)
  PROVE  /\ Others(r) /\ run' \in [Replicas -> Runs]
         /\ run'[r].pc = "check" /\ run'[r].v = v /\ run'[r].dir = dir
         /\ run'[r].batch = 1 /\ run[r].pc \in {"ended", "ok"}
         /\ mixed' \in BOOLEAN
         /\ ~mixed' => /\ ~mixed /\ db.skills \in {db.snap, v}
                       /\ \A q \in Replicas \ {r} : Installing(q) => run[q].v = v
         /\ UNCHANGED <<db, torn>>
<1>1. At("check", v, dir) \in Runs
  BY AtType, InstallAssumption DEF InstallAssumption, PCs, Tables
<1>2. run' = [run EXCEPT ![r] = At("check", v, dir)] /\ run \in [Replicas -> Runs]
  BY DEF Start, TypeInv
<1>3. Others(r) /\ run' \in [Replicas -> Runs] /\ run'[r] = At("check", v, dir)
  BY <1>1, <1>2, NewRecord
<1>4. mixed' = (\/ mixed \/ db.skills \notin {db.snap, v}
                \/ \E q \in Replicas \ {r} : Installing(q) /\ run[q].v # v)
  BY DEF Start
<1>5. UNCHANGED <<db, torn>> /\ run[r].pc \in {"ended", "ok"}
  BY DEF Start, Installing
<1> QED
  BY <1>3, <1>4, <1>5 DEF At

\* Stop: the replica is gone, or goes on to the icons.
LEMMA StopMoves ==
  ASSUME TypeInv, NEW r \in Replicas, Stop(r)
  PROVE  /\ Others(r) /\ run' \in [Replicas -> Runs]
         /\ \/ run'[r].pc = "ended"
            \/ /\ run[r].pc \in {"textCheck", "text"} /\ run'[r].pc = "icons"
               /\ run'[r].erred /\ run'[r].v = run[r].v /\ run'[r].dir = run[r].dir
         /\ Installing(r) /\ torn' \in BOOLEAN
         /\ ~torn' => ~torn /\ ~TearsText(r)
         /\ UNCHANGED <<db, mixed>>
<1>1. run \in [Replicas -> Runs] /\ run[r] \in Runs
  BY DEF TypeInv
<1>2. Installing(r) /\ torn' = (torn \/ TearsText(r)) /\ UNCHANGED <<db, mixed>>
  BY DEF Stop
<1>3. CASE run' = [run EXCEPT ![r] = At("ended", 0, FALSE)]
  <2>1. At("ended", 0, FALSE) \in Runs /\ At("ended", 0, FALSE).pc = "ended"
    BY AtType DEF PCs, Tables
  <2>2. Others(r) /\ run' \in [Replicas -> Runs] /\ run'[r].pc = "ended"
    BY <1>1, <1>3, <2>1, NewRecord
  <2> QED
    BY <1>2, <2>2
<1>4. CASE /\ run[r].pc \in {"textCheck", "text"}
           /\ run' = [run EXCEPT ![r].pc = "icons", ![r].erred = TRUE]
  <2> DEFINE x == [run[r] EXCEPT !.pc = "icons", !.erred = TRUE]
  <2>1. x \in Runs /\ x.pc = "icons" /\ x.erred /\ x.v = run[r].v /\ x.dir = run[r].dir
    BY <1>1 DEF Runs, PCs, Done
  <2>2. run' = [run EXCEPT ![r] = x]
    BY <1>1, <1>4
  <2> HIDE DEF x
  <2>3. Others(r) /\ run' \in [Replicas -> Runs] /\ run'[r] = x
    BY <1>1, <2>1, <2>2, NewRecord
  <2> QED
    BY <1>2, <1>4, <2>1, <2>3
<1> QED
  BY <1>3, <1>4 DEF Stop
-----------------------------------------------------------------------------
(* What each step does to the store.                                       *)

\* The fields of the store but the named ones are as they were.
TablesSame == /\ db'.skills = db.skills /\ db'.mcp = db.mcp
              /\ db'.agents = db.agents /\ db'.snap = db.snap

IconsSame == db'.icons = db.icons /\ db'.iconRec = db.iconRec

RestSame == db'.text = db.text /\ db'.textRec = db.textRec /\ IconsSame

LEMMA CheckMoves ==
  ASSUME TypeInv, NEW r \in Replicas, CheckSnapshot(r)
  PROVE  /\ run[r].pc = "check" /\ UNCHANGED <<db, mixed, torn>>
         /\ Others(r) /\ run' \in [Replicas -> Runs]
         /\ \/ db.snap = run[r].v /\ Moved(r, "textCheck")
            \/ db.snap # run[r].v /\ Moved(r, "skills")
            \/ db.snap # run[r].v /\ run'[r].pc = "ended"
<1>1. run[r].pc = "check" /\ UNCHANGED <<db, mixed, torn>>
  BY DEF CheckSnapshot
<1>2. CASE db.snap = run[r].v /\ Goto(r, "textCheck")
  BY <1>1, <1>2, GotoMoves DEF PCs, Done, Moved
<1>3. CASE db.snap # run[r].v /\ Goto(r, "skills")
  BY <1>1, <1>3, GotoMoves DEF PCs, Moved
<1>4. CASE db.snap # run[r].v /\ run' = [run EXCEPT ![r] = At("ended", 0, FALSE)]
  <2>1. At("ended", 0, FALSE) \in Runs /\ At("ended", 0, FALSE).pc = "ended"
    BY AtType DEF PCs, Tables
  <2>2. Others(r) /\ run' \in [Replicas -> Runs] /\ run'[r].pc = "ended"
    BY <1>4, <2>1, NewRecord DEF TypeInv
  <2> QED
    BY <1>1, <1>4, <2>2
<1> QED
  BY <1>2, <1>3, <1>4 DEF CheckSnapshot

LEMMA NoTextType == NoText \in [DOMAIN NoText -> BOOLEAN]
BY DEF NoText

LEMMA SkillsMoves ==
  ASSUME TypeInv, NEW r \in Replicas, ReplaceSkills(r)
  PROVE  /\ run[r].pc = "skills" /\ UNCHANGED <<mixed, torn>>
         /\ Moved(r, "mcp") /\ run' \in [Replicas -> Runs]
         /\ db' \in Stores /\ IconsSame
         /\ db'.skills = run[r].v /\ db'.mcp = db.mcp /\ db'.agents = db.agents
         /\ db'.snap = db.snap
<1>1. run[r].pc = "skills" /\ UNCHANGED <<mixed, torn>> /\ Goto(r, "mcp")
  BY DEF ReplaceSkills
<1>2. db' = [db EXCEPT !.skills = run[r].v, !.text = NoText]
  BY DEF ReplaceSkills
<1>3. db \in Stores /\ run[r].v \in Tables
  BY DEF TypeInv, Runs
<1>4. db' \in Stores
  BY <1>2, <1>3, NoTextType DEF Stores
<1>5. /\ db'.skills = run[r].v /\ db'.mcp = db.mcp /\ db'.agents = db.agents
      /\ db'.snap = db.snap /\ IconsSame
  BY <1>2, <1>3 DEF Stores, IconsSame
<1> QED
  BY <1>1, <1>4, <1>5, GotoMoves DEF PCs, Wiped

LEMMA McpMoves ==
  ASSUME TypeInv, NEW r \in Replicas, ReplaceMcpMarket(r)
  PROVE  /\ run[r].pc = "mcp" /\ UNCHANGED <<mixed, torn>>
         /\ Moved(r, "agents") /\ run' \in [Replicas -> Runs]
         /\ db' \in Stores /\ RestSame
         /\ db'.skills = db.skills /\ db'.mcp = run[r].v /\ db'.agents = db.agents
         /\ db'.snap = db.snap
<1>1. run[r].pc = "mcp" /\ UNCHANGED <<mixed, torn>> /\ Goto(r, "agents")
  BY DEF ReplaceMcpMarket
<1>2. db' = [db EXCEPT !.mcp = run[r].v] /\ db \in Stores /\ run[r].v \in Tables
  BY DEF ReplaceMcpMarket, TypeInv, Runs
<1>3. /\ db' \in Stores /\ RestSame
      /\ db'.skills = db.skills /\ db'.mcp = run[r].v /\ db'.agents = db.agents
      /\ db'.snap = db.snap
  BY <1>2 DEF Stores, RestSame, IconsSame
<1> QED
  BY <1>1, <1>3, GotoMoves DEF PCs, Wiped

LEMMA AgentsMoves ==
  ASSUME TypeInv, NEW r \in Replicas, ReplaceAgents(r)
  PROVE  /\ run[r].pc = "agents" /\ UNCHANGED <<mixed, torn>>
         /\ Moved(r, "record") /\ run' \in [Replicas -> Runs]
         /\ db' \in Stores /\ RestSame
         /\ db'.skills = db.skills /\ db'.mcp = db.mcp /\ db'.agents = run[r].v
         /\ db'.snap = db.snap
<1>1. run[r].pc = "agents" /\ UNCHANGED <<mixed, torn>> /\ Goto(r, "record")
  BY DEF ReplaceAgents
<1>2. db' = [db EXCEPT !.agents = run[r].v] /\ db \in Stores /\ run[r].v \in Tables
  BY DEF ReplaceAgents, TypeInv, Runs
<1>3. /\ db' \in Stores /\ RestSame
      /\ db'.skills = db.skills /\ db'.mcp = db.mcp /\ db'.agents = run[r].v
      /\ db'.snap = db.snap
  BY <1>2 DEF Stores, RestSame, IconsSame
<1> QED
  BY <1>1, <1>3, GotoMoves DEF PCs, Wiped

LEMMA RecordMoves ==
  ASSUME TypeInv, NEW r \in Replicas, RecordSnapshot(r)
  PROVE  /\ run[r].pc = "record" /\ UNCHANGED <<mixed, torn>>
         /\ Moved(r, "clearText") /\ run' \in [Replicas -> Runs]
         /\ db' \in Stores /\ RestSame
         /\ db'.skills = db.skills /\ db'.mcp = db.mcp /\ db'.agents = db.agents
         /\ db'.snap = run[r].v
<1>1. run[r].pc = "record" /\ UNCHANGED <<mixed, torn>> /\ Goto(r, "clearText")
  BY DEF RecordSnapshot
<1>2. db' = [db EXCEPT !.snap = run[r].v] /\ db \in Stores /\ run[r].v \in Tables
  BY DEF RecordSnapshot, TypeInv, Runs
<1>3. /\ db' \in Stores /\ RestSame
      /\ db'.skills = db.skills /\ db'.mcp = db.mcp /\ db'.agents = db.agents
      /\ db'.snap = run[r].v
  BY <1>2 DEF Stores, RestSame, IconsSame
<1> QED
  BY <1>1, <1>3, GotoMoves DEF PCs, Wiped

LEMMA ClearMoves ==
  ASSUME TypeInv, NEW r \in Replicas, ClearTextRecord(r)
  PROVE  /\ run[r].pc = "clearText" /\ UNCHANGED <<mixed, torn>>
         /\ Others(r) /\ run' \in [Replicas -> Runs]
         /\ run'[r].pc = "textCheck" /\ run'[r].force /\ run'[r].v = run[r].v
         /\ run'[r].dir = run[r].dir /\ run'[r].batch = run[r].batch
         /\ db' \in Stores /\ TablesSame /\ IconsSame /\ db'.text = db.text /\ ~db'.textRec
<1>1. run[r].pc = "clearText" /\ UNCHANGED <<mixed, torn>>
  BY DEF ClearTextRecord
<1>2. db' = [db EXCEPT !.textRec = FALSE] /\ db \in Stores
  BY DEF ClearTextRecord, TypeInv
<1>3. db' \in Stores /\ TablesSame /\ IconsSame /\ db'.text = db.text /\ ~db'.textRec
  BY <1>2 DEF Stores, TablesSame, IconsSame
<1>4. run \in [Replicas -> Runs] /\ run[r] \in Runs
  BY DEF TypeInv
<1> DEFINE x == [run[r] EXCEPT !.pc = "textCheck", !.force = TRUE]
<1>5. /\ x \in Runs /\ x.pc = "textCheck" /\ x.force /\ x.v = run[r].v
      /\ x.dir = run[r].dir /\ x.batch = run[r].batch
  BY <1>4 DEF Runs, PCs, Done
<1>6. run' = [run EXCEPT ![r] = x]
  BY <1>4 DEF ClearTextRecord
<1> HIDE DEF x
<1>7. run'[r] = x /\ Others(r) /\ run' \in [Replicas -> Runs]
  BY <1>4, <1>5, <1>6, NewRecord
<1> QED
  BY <1>1, <1>3, <1>5, <1>7

LEMMA CheckTextMoves ==
  ASSUME TypeInv, NEW r \in Replicas, CheckText(r)
  PROVE  /\ run[r].pc = "textCheck" /\ UNCHANGED <<db, mixed, torn>>
         /\ Moved(r, IF run[r].force \/ ~db.textRec THEN "text" ELSE "icons")
         /\ run' \in [Replicas -> Runs]
<1>1. run[r].pc = "textCheck" /\ UNCHANGED <<db, mixed, torn>>
  BY DEF CheckText
<1>2. run[r].dir
  BY <1>1 DEF TypeInv, Installing
<1>3. Goto(r, IF run[r].force \/ ~db.textRec THEN "text" ELSE "icons")
  BY <1>2 DEF CheckText
<1> DEFINE pc == IF run[r].force \/ ~db.textRec THEN "text" ELSE "icons"
<1>4. pc \in PCs
  BY DEF PCs, Done
<1> HIDE DEF pc
<1>5. Moved(r, pc) /\ run' \in [Replicas -> Runs]
  BY <1>3, <1>4, GotoMoves DEF pc
<1> QED
  BY <1>1, <1>5 DEF pc

LEMMA SaveMoves ==
  ASSUME TypeInv, NEW r \in Replicas, SaveTextBatch(r)
  PROVE  /\ run[r].pc = "text" /\ UNCHANGED <<mixed, torn>>
         /\ Others(r) /\ run' \in [Replicas -> Runs]
         /\ run'[r].pc = "text" /\ run'[r].v = run[r].v /\ run'[r].dir = run[r].dir
         /\ run'[r].force = run[r].force /\ run'[r].batch = run[r].batch + 1
         /\ db' \in Stores /\ TablesSame /\ IconsSame /\ db'.textRec = db.textRec
         /\ \A id \in DOMAIN NoText :
              db'.text[id] <=> \/ db.text[id]
                               \/ /\ id \in TextBatches[run[r].batch]
                                  /\ \E s \in LoadSkills(db.skills) : s.id = id
<1> DEFINE text == [id \in DOMAIN db.text |->
                      \/ db.text[id]
                      \/ /\ id \in TextBatches[run[r].batch]
                         /\ \E s \in LoadSkills(db.skills) : s.id = id]
<1>1. run[r].pc = "text" /\ UNCHANGED <<mixed, torn>>
  BY DEF SaveTextBatch
<1>2. db' = [db EXCEPT !.text = text] /\ db \in Stores
  BY DEF SaveTextBatch, TypeInv
<1>3. DOMAIN db.text = DOMAIN NoText /\ \A id \in DOMAIN NoText : db.text[id] \in BOOLEAN
  BY <1>2 DEF Stores
<1>4. /\ text \in [DOMAIN NoText -> BOOLEAN]
      /\ \A id \in DOMAIN NoText :
           text[id] <=> \/ db.text[id]
                        \/ /\ id \in TextBatches[run[r].batch]
                           /\ \E s \in LoadSkills(db.skills) : s.id = id
  BY <1>3, Zenon
<1> HIDE DEF text
<1>5. /\ db' \in Stores /\ TablesSame /\ IconsSame /\ db'.textRec = db.textRec
      /\ db'.text = text
  BY <1>2, <1>4 DEF Stores, TablesSame, IconsSame
<1>6. run \in [Replicas -> Runs] /\ run[r] \in Runs
  BY DEF TypeInv
<1> DEFINE x == [run[r] EXCEPT !.batch = run[r].batch + 1]
<1>7. /\ x \in Runs /\ x.pc = run[r].pc /\ x.force = run[r].force /\ x.v = run[r].v
      /\ x.dir = run[r].dir /\ x.batch = run[r].batch + 1
  BY <1>6 DEF Runs
<1>8. run' = [run EXCEPT ![r] = x]
  BY <1>6 DEF SaveTextBatch
<1> HIDE DEF x
<1>9. run'[r] = x /\ Others(r) /\ run' \in [Replicas -> Runs]
  BY <1>6, <1>7, <1>8, NewRecord
<1> QED
  BY <1>1, <1>4, <1>5, <1>7, <1>9

LEMMA RecordTextMoves ==
  ASSUME TypeInv, NEW r \in Replicas, RecordText(r)
  PROVE  /\ run[r].pc = "text" /\ run[r].batch \notin DOMAIN TextBatches
         /\ UNCHANGED <<mixed, torn>>
         /\ Moved(r, "icons") /\ run' \in [Replicas -> Runs]
         /\ db' \in Stores /\ TablesSame /\ IconsSame /\ db'.text = db.text /\ db'.textRec
<1>1. /\ run[r].pc = "text" /\ run[r].batch \notin DOMAIN TextBatches
      /\ UNCHANGED <<mixed, torn>> /\ Goto(r, "icons")
  BY DEF RecordText
<1>2. db' = [db EXCEPT !.textRec = TRUE] /\ db \in Stores
  BY DEF RecordText, TypeInv
<1>3. db' \in Stores /\ TablesSame /\ IconsSame /\ db'.text = db.text /\ db'.textRec
  BY <1>2 DEF Stores, TablesSame, IconsSame
<1> QED
  BY <1>1, <1>3, GotoMoves DEF PCs, Done

\* The icons: they are added and then recorded, or were recorded before.
LEMMA IconsMoves ==
  ASSUME TypeInv, NEW r \in Replicas, InstallIcons(r) \/ RecordIcons(r)
  PROVE  /\ run[r].pc \in {"icons", "iconRecord"} /\ UNCHANGED <<mixed, torn>>
         /\ Others(r) /\ run' \in [Replicas -> Runs]
         /\ db' \in Stores /\ TablesSame /\ db'.text = db.text /\ db'.textRec = db.textRec
         /\ db.icons \subseteq db'.icons
         /\ \/ /\ run[r].pc = "icons" /\ Moved(r, "iconRecord")
               /\ Icons \subseteq db'.icons /\ db'.iconRec = db.iconRec
            \/ /\ run[r].erred => run'[r].pc = "ended"
               /\ ~run[r].erred => /\ run'[r].pc = "ok" /\ run'[r].v = run[r].v
                                   /\ run'[r].dir = run[r].dir
               /\ \/ run[r].pc = "icons" /\ db.iconRec /\ IconsSame
                  \/ run[r].pc = "iconRecord" /\ db'.icons = db.icons
<1>1. /\ run[r].pc \in {"icons", "iconRecord"} /\ UNCHANGED <<mixed, torn>>
      /\ db \in Stores
  BY DEF InstallIcons, RecordIcons, TypeInv
<1>2. run[r].dir
  BY <1>1 DEF TypeInv, Installing
<1>3. CASE InstallIcons(r) /\ ~db.iconRec
  <2>1. db' = [db EXCEPT !.icons = @ \cup Icons] /\ Goto(r, "iconRecord") /\ run[r].pc = "icons"
    BY <1>2, <1>3 DEF InstallIcons
  <2>2. /\ db' \in Stores /\ TablesSame /\ db'.text = db.text /\ db'.textRec = db.textRec
        /\ db'.icons = db.icons \cup Icons /\ db'.iconRec = db.iconRec
    BY <1>1, <2>1 DEF Stores, TablesSame
  <2>3. Moved(r, "iconRecord") /\ run' \in [Replicas -> Runs]
    BY <2>1, GotoMoves DEF PCs, Done
  <2> QED
    BY <1>1, <2>1, <2>2, <2>3 DEF Moved
<1>4. CASE InstallIcons(r) /\ db.iconRec
  <2>1. db' = db /\ Ends(r) /\ run[r].pc = "icons"
    BY <1>4 DEF InstallIcons
  <2> QED
    BY <1>1, <1>4, <2>1, EndMoves DEF TablesSame, IconsSame
<1>5. CASE RecordIcons(r)
  <2>1. db' = [db EXCEPT !.iconRec = TRUE] /\ Ends(r) /\ run[r].pc = "iconRecord"
    BY <1>5 DEF RecordIcons
  <2>2. /\ db' \in Stores /\ TablesSame /\ db'.text = db.text /\ db'.textRec = db.textRec
        /\ db'.icons = db.icons
    BY <1>1, <2>1 DEF Stores, TablesSame
  <2> QED
    BY <1>1, <2>1, <2>2, EndMoves
<1> QED
  BY <1>3, <1>4, <1>5
-----------------------------------------------------------------------------
(* Every step keeps the types.                                             *)

LEMMA TypeStep ==
  ASSUME Dirs \subseteq {TRUE}, TypeInv, NEW r \in Replicas, InstallStep(r)
  PROVE  TypeInv'
<1> DEFINE Fits(x) == /\ x.pc \notin {"ended", "ok"} => x.v \in Versions /\ x.dir
                      /\ x.pc \in {"check", "skills", "textCheck"} \cup Wiped => x.batch = 1
<1>1. /\ db \in Stores /\ run \in [Replicas -> Runs] /\ mixed \in BOOLEAN /\ torn \in BOOLEAN
      /\ \A q \in Replicas : Fits(run[q])
  BY DEF TypeInv, Installing
<1>2. SUFFICES /\ db' \in Stores /\ run' \in [Replicas -> Runs]
               /\ mixed' \in BOOLEAN /\ torn' \in BOOLEAN
               /\ Others(r) /\ Fits(run'[r])
  BY <1>1, <1>2 DEF TypeInv, Installing, Others
<1> USE DEF Moved, Wiped
<1>3. CASE \E v \in Versions, dir \in Dirs : Start(r, v, dir)
  <2>1. PICK v \in Versions, dir \in Dirs : Start(r, v, dir)
    BY <1>3
  <2>2. dir = TRUE
    OBVIOUS
  <2>3. run'[r].v = v /\ run'[r].batch = 1
    BY <2>1, StartMoves
  <2>4. run'[r].dir = dir
    BY <2>1, StartMoves
  <2>5. run'[r].dir
    BY <2>2, <2>4, Zenon
  <2> QED
    BY <1>1, <2>1, <2>3, <2>5, StartMoves
<1>4. CASE CheckSnapshot(r)
  BY <1>1, <1>4, CheckMoves
<1>5. CASE ReplaceSkills(r)
  BY <1>1, <1>5, SkillsMoves
<1>6. CASE ReplaceMcpMarket(r) \/ ReplaceAgents(r)
  BY <1>1, <1>6, McpMoves, AgentsMoves
<1>7. CASE RecordSnapshot(r) \/ ClearTextRecord(r)
  BY <1>1, <1>7, RecordMoves, ClearMoves
<1>8. CASE CheckText(r)
  BY <1>1, <1>8, CheckTextMoves
<1>9. CASE SaveTextBatch(r) \/ RecordText(r)
  BY <1>1, <1>9, SaveMoves, RecordTextMoves
<1>10. CASE InstallIcons(r) \/ RecordIcons(r)
  BY <1>1, <1>10, IconsMoves
<1>11. CASE Stop(r)
  BY <1>1, <1>11, StopMoves
<1> QED
  BY <1>3, <1>4, <1>5, <1>6, <1>7, <1>8, <1>9, <1>10, <1>11 DEF InstallStep

-----------------------------------------------------------------------------
(* Every step keeps the icons.                                             *)

LEMMA IconsStep ==
  ASSUME TypeInv, IconsInv, NEW r \in Replicas, InstallStep(r)
  PROVE  IconsInv'
<1> DEFINE Has(x, d) == x.pc = "iconRecord" \/ (x.pc = "ok" /\ x.dir) => Icons \subseteq d.icons
<1>1. (db.iconRec => Icons \subseteq db.icons) /\ \A q \in Replicas : Has(run[q], db)
  BY DEF IconsInv
<1>2. SUFFICES /\ db'.iconRec => Icons \subseteq db'.icons
               /\ db.icons \subseteq db'.icons
               /\ Others(r) /\ Has(run'[r], db')
  BY <1>1, <1>2 DEF IconsInv, Others
<1> USE DEF Moved, IconsSame, RestSame
<1>3. CASE \E v \in Versions, dir \in Dirs : Start(r, v, dir)
  BY <1>1, <1>3, StartMoves
<1>4. CASE CheckSnapshot(r)
  BY <1>1, <1>4, CheckMoves
<1>5. CASE ReplaceSkills(r)
  BY <1>1, <1>5, SkillsMoves
<1>6. CASE ReplaceMcpMarket(r) \/ ReplaceAgents(r)
  BY <1>1, <1>6, McpMoves, AgentsMoves
<1>7. CASE RecordSnapshot(r) \/ ClearTextRecord(r)
  BY <1>1, <1>7, RecordMoves, ClearMoves
<1>8. CASE CheckText(r)
  BY <1>1, <1>8, CheckTextMoves
<1>9. CASE SaveTextBatch(r) \/ RecordText(r)
  BY <1>1, <1>9, SaveMoves, RecordTextMoves
<1>10. CASE InstallIcons(r) \/ RecordIcons(r)
  BY <1>1, <1>10, IconsMoves
<1>11. CASE Stop(r)
  BY <1>1, <1>11, StopMoves
<1> QED
  BY <1>3, <1>4, <1>5, <1>6, <1>7, <1>8, <1>9, <1>10, <1>11 DEF InstallStep

-----------------------------------------------------------------------------
(* Every step that overlaps no two versions keeps the tables.              *)

LEMMA TablesStep ==
  ASSUME TypeInv, TablesInv, NEW r \in Replicas, InstallStep(r), ~mixed'
  PROVE  TablesInv'
<1> USE DEF Moved, TablesSame, Others, Wiped, Done, Installing, OneVersion, Recorded, Replaced
<1>1. CASE \E v \in Versions, dir \in Dirs : Start(r, v, dir)
  BY <1>1, StartMoves DEF TablesInv, OneIsStored
<1>2. CASE CheckSnapshot(r)
  BY <1>2, CheckMoves DEF TablesInv, OneIsStored
<1>3. CASE ReplaceSkills(r)
  BY <1>3, SkillsMoves DEF TablesInv, OneIsStored
<1>4. CASE ReplaceMcpMarket(r)
  BY <1>4, McpMoves DEF TablesInv, OneIsStored
<1>5. CASE ReplaceAgents(r)
  BY <1>5, AgentsMoves DEF TablesInv, OneIsStored
<1>6. CASE RecordSnapshot(r)
  BY <1>6, RecordMoves DEF TablesInv, OneIsStored
<1>7. CASE ClearTextRecord(r)
  BY <1>7, ClearMoves DEF TablesInv, OneIsStored
<1>8. CASE CheckText(r)
  BY <1>8, CheckTextMoves DEF TablesInv, OneIsStored
<1>9. CASE SaveTextBatch(r) \/ RecordText(r)
  BY <1>9, SaveMoves, RecordTextMoves DEF TablesInv, OneIsStored
<1>10. CASE InstallIcons(r) \/ RecordIcons(r)
  <2>1. OneVersion' /\ Recorded' /\ Replaced'
    BY <1>10, IconsMoves DEF TablesInv
  <2>2. OneIsStored'
    <3> SUFFICES ASSUME run'[r].pc = "ok"
                 PROVE  {db'.skills, db'.mcp, db'.agents, db'.snap} = {run'[r].v} /\ run'[r].v # 0
      BY DEF OneIsStored
    <3>1. run[r].pc \in Done /\ run'[r].v = run[r].v
      BY <1>10, IconsMoves
    <3>2. run[r].v # 0
      BY <3>1, InstallAssumption DEF InstallAssumption, TypeInv
    <3> QED
      BY <1>10, <3>1, <3>2, IconsMoves DEF TablesInv
  <2> QED
    BY <2>1, <2>2 DEF TablesInv
<1>11. CASE Stop(r)
  BY <1>11, StopMoves DEF TablesInv, OneIsStored
<1> QED
  BY <1>1, <1>2, <1>3, <1>4, <1>5, <1>6, <1>7, <1>8, <1>9, <1>10, <1>11 DEF InstallStep
-----------------------------------------------------------------------------
(* Every step that overlaps no two versions and tears no text keeps TextInv. *)

\* No batch comes after the last.
LEMMA FilledWhole ==
  ASSUME NEW d, NEW b \in Nat, b \notin DOMAIN TextBatches, b # 0, Filled(d, b)
  PROVE  Whole(d)
<1>1. Len(TextBatches) \in Nat /\ DOMAIN TextBatches = 1 .. Len(TextBatches)
  BY InstallAssumption DEF InstallAssumption
<1>2. \A i \in DOMAIN TextBatches : i < b
  BY <1>1
<1> QED
  BY <1>2 DEF Whole, Filled

\* Before the first batch nothing is to be filled.
LEMMA FilledFirst ==
  ASSUME NEW d
  PROVE  Filled(d, 1)
<1>1. \A i \in DOMAIN TextBatches : i \in Nat /\ i # 0
  BY InstallAssumption DEF InstallAssumption
<1> QED
  BY <1>1 DEF Filled

LEMMA FilledSame ==
  ASSUME NEW b, db'.skills = db.skills, db'.text = db.text
  PROVE  Filled(db', b) <=> Filled(db, b)
BY DEF Filled

\* The batch that is saved is filled, and what was filled stays so.
LEMMA FilledNext ==
  ASSUME TypeInv, NEW r \in Replicas, SaveTextBatch(r), NEW b \in Nat, Filled(db, b)
  PROVE  /\ Filled(db', b)
         /\ b = run[r].batch => Filled(db', b + 1)
<1>1. /\ db'.skills = db.skills
      /\ \A id \in DOMAIN NoText :
           db'.text[id] <=> \/ db.text[id]
                            \/ /\ id \in TextBatches[run[r].batch]
                               /\ \E s \in LoadSkills(db.skills) : s.id = id
  BY SaveMoves DEF TablesSame
<1>2. \A i \in DOMAIN TextBatches : i \in Nat /\ TextBatches[i] \subseteq DOMAIN NoText
  BY InstallAssumption DEF InstallAssumption, NoText
<1>3. ASSUME NEW s \in LoadSkills(db.skills), NEW i \in DOMAIN TextBatches, s.id \in TextBatches[i],
             i < b \/ i = run[r].batch
      PROVE  db'.text[s.id]
  <2>1. s.id \in DOMAIN NoText
    BY <1>2, <1>3
  <2>2. CASE i < b
    BY <1>1, <1>3, <2>1, <2>2 DEF Filled
  <2>3. CASE i = run[r].batch
    BY <1>1, <1>3, <2>1, <2>3
  <2> QED
    BY <1>3, <2>2, <2>3
<1>4. Filled(db', b)
  BY <1>1, <1>3 DEF Filled
<1>5. ASSUME b = run[r].batch
      PROVE  Filled(db', b + 1)
  <2>1. \A i \in DOMAIN TextBatches : i < b + 1 => i < b \/ i = run[r].batch
    BY <1>2, <1>5
  <2> QED
    BY <1>1, <1>3, <2>1 DEF Filled
<1> QED
  BY <1>4, <1>5

\* A step that leaves the skills and their text, and whose replica still heals
\* if it did, or has filled the text; nobody records the text unless it is whole.
LEMMA TextKept ==
  ASSUME TextInv, NEW r \in Replicas, Others(r),
         db'.skills = db.skills, db'.snap = db.snap, db'.text = db.text,
         Heals(r) => Heals(r)' \/ Whole(db) \/ Unrecorded' \/ db.skills # db.snap,
         Unrecorded /\ Fills(r) => Whole(db) \/ (~db'.textRec /\ Fills(r)' /\ run'[r].pc # "ok")
  PROVE  TextInv'
<1>1. \A b : Filled(db', b) <=> Filled(db, b)
  BY FilledSame
<1>2. Whole(db) => Whole(db')
  BY <1>1 DEF Whole
<1>3. CASE db.skills = 0 \/ db.skills # db.snap \/ Whole(db)
  BY <1>2, <1>3 DEF TextInv
<1>4. CASE \E q \in Replicas : Heals(q)
  <2>1. PICK q \in Replicas : Heals(q)
    BY <1>4
  <2>2. q # r => Heals(q)'
    BY <1>1, <2>1 DEF Others, Heals
  <2> QED
    BY <1>2, <2>1, <2>2 DEF TextInv
<1>5. CASE Unrecorded /\ ~Whole(db)
  <2>1. ~db'.textRec /\ Fills(r)' /\ run'[r].pc # "ok"
    BY <1>5 DEF Unrecorded
  <2>2. \A q \in Replicas \ {r} : Fills(q)'
    BY <1>1, <1>5 DEF Others, Unrecorded, Fills
  <2>3. Unrecorded'
    BY <2>1, <2>2 DEF Unrecorded
  <2> QED
    BY <2>3 DEF TextInv
<1> QED
  BY <1>3, <1>4, <1>5 DEF TextInv
LEMMA TextStep ==
  ASSUME TypeInv, TablesInv, TextInv, NEW r \in Replicas, InstallStep(r), ~torn'
  PROVE  TextInv'
<1> USE DEF Moved, TablesSame, Wiped
<1>1. CASE \E v \in Versions, dir \in Dirs : Start(r, v, dir)
  <2>1. run[r].pc \in {"ended", "ok"} /\ run'[r].pc = "check" /\ Others(r) /\ db' = db
    BY <1>1, StartMoves
  <2> QED
    BY <2>1, TextKept DEF Heals, Fills, Unrecorded
<1>2. CASE CheckSnapshot(r)
  <2>1. /\ run[r].pc = "check" /\ run'[r].pc \in {"textCheck", "skills", "ended"}
        /\ Others(r) /\ db' = db
    BY <1>2, CheckMoves
  <2> QED
    BY <2>1, TextKept DEF Heals, Fills, Unrecorded
<1>3. CASE ReplaceSkills(r)
  BY <1>3, SkillsMoves DEF TextInv, Heals
<1>4. CASE ReplaceMcpMarket(r)
  BY <1>4, McpMoves DEF TextInv, Heals
<1>5. CASE ReplaceAgents(r)
  BY <1>5, AgentsMoves DEF TextInv, Heals
<1>6. CASE RecordSnapshot(r)
  BY <1>6, RecordMoves DEF TextInv, Heals
<1>7. CASE ClearTextRecord(r)
  BY <1>7, ClearMoves DEF TextInv, Heals
<1>8. CASE CheckText(r)
  <2>1. /\ run[r].pc = "textCheck" /\ Others(r) /\ db' = db
        /\ run'[r].pc = (IF run[r].force \/ ~db.textRec THEN "text" ELSE "icons")
        /\ run'[r].force = run[r].force /\ run'[r].batch = run[r].batch
    BY <1>8, CheckTextMoves
  <2>2. run'[r].batch = 1 /\ Filled(db', run'[r].batch)
    BY <2>1, FilledFirst DEF TypeInv
  <2>3. Heals(r) => Heals(r)'
    BY <2>1, <2>2 DEF Heals
  <2>4. ~db.textRec => run'[r].pc = "text"
    BY <2>1
  <2>5. Unrecorded => ~db'.textRec /\ Fills(r)' /\ run'[r].pc # "ok"
    BY <2>1, <2>2, <2>4 DEF Unrecorded, Fills
  <2> QED
    BY <2>1, <2>3, <2>5, TextKept
<1>9. CASE SaveTextBatch(r)
  <2>1. /\ run[r].pc = "text" /\ run'[r].pc = "text" /\ Others(r)
        /\ run'[r].force = run[r].force /\ run'[r].batch = run[r].batch + 1
        /\ TablesSame /\ db'.textRec = db.textRec
    BY <1>9, SaveMoves
  <2>2. \A q \in Replicas : run[q].batch \in Nat
    BY DEF TypeInv, Runs
  <2>3. \A b \in Nat : Filled(db, b) => Filled(db', b)
    BY <1>9, FilledNext
  <2>4. Filled(db, run[r].batch) => Filled(db', run'[r].batch)
    BY <1>9, <2>1, <2>2, FilledNext
  <2>5. Len(TextBatches) + 1 \in Nat
    BY InstallAssumption DEF InstallAssumption
  <2>6. Whole(db) => Whole(db')
    BY <2>3, <2>5 DEF Whole
  <2>7. \A q \in Replicas : (Heals(q) => Heals(q)') /\ (Fills(q) => Fills(q)')
    BY <2>1, <2>2, <2>3, <2>4 DEF Others, Heals, Fills
  <2>8. Unrecorded => Unrecorded'
    BY <2>1, <2>7 DEF Unrecorded
  <2> QED
    BY <2>1, <2>6, <2>7, <2>8 DEF TextInv
<1>10. CASE RecordText(r)
  <2>1. /\ run[r].pc = "text" /\ run[r].batch \notin DOMAIN TextBatches /\ Others(r)
        /\ TablesSame /\ db'.text = db.text
    BY <1>10, RecordTextMoves
  <2>2. Filled(db, run[r].batch) => Whole(db)
    BY <2>1, FilledWhole DEF TypeInv, Runs
  <2>3. (Heals(r) => Whole(db)) /\ (Fills(r) => Whole(db))
    BY <2>1, <2>2 DEF Heals, Fills
  <2> QED
    BY <2>1, <2>3, TextKept
<1>11. CASE InstallIcons(r) \/ RecordIcons(r)
  <2>1. /\ run[r].pc \in {"icons", "iconRecord"} /\ Others(r)
        /\ TablesSame /\ db'.text = db.text /\ db'.textRec = db.textRec
        /\ run[r].erred => run'[r].pc = "ended" \/ (run'[r].pc = "iconRecord" /\ run'[r].erred)
    BY <1>11, IconsMoves
  <2> QED
    BY <2>1, TextKept DEF Heals, Fills, Unrecorded
<1>12. CASE Stop(r)
  <2>1. /\ Others(r) /\ db' = db /\ ~TearsText(r)
        /\ run'[r].pc = "ended" \/ (run'[r].pc = "icons" /\ run'[r].erred)
    BY <1>12, StopMoves
  <2>2. Fills(r)' /\ run'[r].pc # "ok"
    BY <2>1 DEF Fills
  <2>3. ASSUME Heals(r), db.skills = db.snap
        PROVE  Unrecorded'
    <3>1. \/ run[r].pc \in {"mcp", "agents", "record", "clearText"}
          \/ run[r].pc \in {"textCheck", "text"} /\ run[r].force
      BY <2>3 DEF Heals
    <3>2. db.snap = run[r].v
      BY <2>3, <3>1 DEF TablesInv, Replaced, Done
    <3>3. ~db.textRec /\ \A q \in Replicas \ {r} : ~Installing(q)
      BY <2>1, <3>1, <3>2 DEF TearsText
    <3>4. \A q \in Replicas \ {r} : Fills(q)'
      BY <2>1, <3>3 DEF Others, Fills, Installing
    <3> QED
      BY <2>1, <2>2, <3>3, <3>4 DEF Unrecorded
  <2> QED
    BY <2>1, <2>2, <2>3, TextKept DEF Unrecorded
<1> QED
  BY <1>1, <1>2, <1>3, <1>4, <1>5, <1>6, <1>7, <1>8, <1>9, <1>10, <1>11, <1>12 DEF InstallStep

\* The steps of InstallAll keep what it promises; the reader's change nothing of it.
LEMMA InstallStepKeeps ==
  ASSUME Dirs \subseteq {TRUE}, InstallInv, [Next]_vars
  PROVE  InstallInv'
<1>1. CASE UNCHANGED installVars
  <2>1. db' = db /\ run' = run /\ mixed' = mixed /\ torn' = torn
    BY <1>1 DEF installVars
  <2>2. TypeInv' /\ IconsInv'
    BY <2>1 DEF InstallInv, TypeInv, IconsInv, Installing
  <2>3. TablesInv => TablesInv'
    BY <2>1 DEF TablesInv, OneVersion, Recorded, Replaced, OneIsStored, Installing
  <2>4. TextInv => TextInv'
    BY <2>1 DEF TextInv, Heals, Fills, Unrecorded
  <2> QED
    BY <2>1, <2>2, <2>3, <2>4 DEF InstallInv
<1>2. CASE \E r \in Replicas : InstallStep(r) /\ UNCHANGED reader
  <2>1. PICK r \in Replicas : InstallStep(r)
    BY <1>2
  <2>2. TypeInv' /\ IconsInv'
    BY <2>1, TypeStep, IconsStep DEF InstallInv
  <2>3. (~mixed' => ~mixed) /\ (~torn' => ~torn)
    <3>1. CASE \E v \in Versions, dir \in Dirs : Start(r, v, dir)
      BY <3>1, StartMoves DEF InstallInv
    <3>2. CASE Stop(r)
      BY <3>2, StopMoves DEF InstallInv
    <3>3. CASE CheckSnapshot(r) \/ ReplaceSkills(r) \/ ReplaceMcpMarket(r) \/ ReplaceAgents(r)
      BY <3>3, CheckMoves, SkillsMoves, McpMoves, AgentsMoves DEF InstallInv
    <3>4. CASE RecordSnapshot(r) \/ ClearTextRecord(r) \/ CheckText(r)
      BY <3>4, RecordMoves, ClearMoves, CheckTextMoves DEF InstallInv
    <3>5. CASE SaveTextBatch(r) \/ RecordText(r) \/ InstallIcons(r) \/ RecordIcons(r)
      BY <3>5, SaveMoves, RecordTextMoves, IconsMoves DEF InstallInv
    <3> QED
      BY <2>1, <3>1, <3>2, <3>3, <3>4, <3>5 DEF InstallStep
  <2>4. ~mixed' => TablesInv'
    BY <2>1, <2>3, TablesStep DEF InstallInv
  <2>5. ~mixed' /\ ~torn' => TextInv'
    BY <2>1, <2>3, TextStep DEF InstallInv
  <2> QED
    BY <2>2, <2>4, <2>5 DEF InstallInv
<1>3. CASE (\E q \in Queries : ListCount(q)) \/ ListRows
  BY <1>1, <1>3 DEF ListCount, ListRows
<1>4. CASE UNCHANGED vars
  BY <1>1, <1>4 DEF vars
<1> QED
  BY <1>2, <1>3, <1>4 DEF Next

\* Where every start finds the sidecars, the tables are of one version and the
\* text that is missing is still to be filled, if versions do not overlap.
THEOREM InstallInvariant ==
  ASSUME Dirs \subseteq {TRUE}
  PROVE  Spec => []InstallInv
<1>1. Init => InstallInv
  <2> SUFFICES ASSUME Init
               PROVE  InstallInv
    OBVIOUS
  <2>1. /\ run = [r \in Replicas |-> At("ended", 0, FALSE)] /\ mixed = FALSE /\ torn = FALSE
        /\ db = [skills |-> 0, mcp |-> 0, agents |-> 0, snap |-> 0, text |-> NoText,
                 textRec |-> FALSE, icons |-> {}, iconRec |-> FALSE]
    BY DEF Init
  <2>2. /\ run \in [Replicas -> Runs]
        /\ \A r \in Replicas : run[r].pc = "ended"
    <3>1. At("ended", 0, FALSE) \in Runs /\ At("ended", 0, FALSE).pc = "ended"
      BY AtType DEF PCs, Tables
    <3> QED
      BY <2>1, <3>1
  <2>3. db \in Stores
    BY <2>1, NoTextType DEF Stores, Tables
  <2>4. TypeInv
    BY <2>1, <2>2, <2>3 DEF TypeInv, Installing, Wiped
  <2>5. IconsInv
    BY <2>1, <2>2 DEF IconsInv
  <2>6. TablesInv
    BY <2>1, <2>2, InstallAssumption
       DEF TablesInv, OneVersion, Recorded, Replaced, OneIsStored, Installing, Wiped, Done,
           InstallAssumption
  <2>7. TextInv
    BY <2>1 DEF TextInv
  <2> QED
    BY <2>4, <2>5, <2>6, <2>7 DEF InstallInv
<1>2. InstallInv /\ [Next]_vars => InstallInv'
  BY InstallStepKeeps
<1> QED
  BY <1>1, <1>2, PTL DEF Spec

\* After InstallAll has ended everywhere with the sidecars, the tables, the text
\* and the icons are those of one version (InstallWhole).
THEOREM InstalledWhole ==
  ASSUME Dirs \subseteq {TRUE}
  PROVE  Spec => []InstallWhole
<1>1. InstallInv => InstallWhole
  <2> SUFFICES ASSUME InstallInv, Settled, ~mixed, ~torn
               PROVE  /\ \E r \in Replicas :
                           {db.skills, db.mcp, db.agents, db.snap} = {run[r].v}
                      /\ TextWhole /\ Icons \subseteq db.icons
    BY DEF InstallWhole
  <2>1. PICK r \in Replicas :
          {db.skills, db.mcp, db.agents, db.snap} = {run[r].v} /\ run[r].v # 0
    BY DEF InstallInv, TablesInv, OneIsStored, Settled
  <2>2. db.skills # 0 /\ db.skills = db.snap
    BY <2>1
  <2>3. Whole(db)
    BY <2>2 DEF InstallInv, TextInv, Heals, Unrecorded, Settled, Wiped
  <2>4. TextWhole
    <3> SUFFICES ASSUME NEW s \in LoadSkills(db.skills), s.id \in DOMAIN db.text
                 PROVE  db.text[s.id]
      BY DEF TextWhole
    <3>1. DOMAIN db.text = DOMAIN NoText
      BY DEF InstallInv, TypeInv, Stores
    <3>2. PICK i \in DOMAIN TextBatches : s.id \in TextBatches[i]
      BY <3>1 DEF NoText
    <3>3. i < Len(TextBatches) + 1
      BY InstallAssumption DEF InstallAssumption
    <3> QED
      BY <2>3, <3>2, <3>3 DEF Whole, Filled
  <2>5. Icons \subseteq db.icons
    BY <2>1 DEF InstallInv, IconsInv, Settled
  <2> QED
    BY <2>1, <2>4, <2>5
<1> QED
  BY <1>1, InstallInvariant, PTL
-----------------------------------------------------------------------------
(* A list in order.                                                         *)

\* A strict total order of the rows.
Orders(before, rows) ==
    /\ \A r \in rows : <<r, r>> \notin before
    /\ \A r, s \in rows : r # s => <<r, s>> \in before \/ <<s, r>> \in before
    /\ \A r, s, t \in rows :
         <<r, s>> \in before /\ <<s, t>> \in before => <<r, t>> \in before

\* For every number below that of the rows there is one row that has so many
\* before it, so the choices in Sorted exist: Sorted lists rows, each at most once.
LEMMA SortedLists ==
  ASSUME NEW rows, IsFiniteSet(rows), NEW before, Orders(before, rows)
  PROVE  /\ Cardinality(rows) \in Nat
         /\ Sorted(rows, before) \in Seq(rows)
         /\ Len(Sorted(rows, before)) = Cardinality(rows)
         /\ \A i, j \in 1 .. Cardinality(rows) :
              Sorted(rows, before)[i] = Sorted(rows, before)[j] => i = j
<1> DEFINE n == Cardinality(rows)
           Before(r) == {s \in rows : <<s, r>> \in before}
           rank == [r \in rows |-> Cardinality(Before(r))]
           Nth(k) == CHOOSE r \in rows : Cardinality(Before(r)) = k - 1
           line == Sorted(rows, before)
<1>1. n \in Nat
  BY FS_CardinalityType
<1>2. ASSUME NEW r \in rows
      PROVE  IsFiniteSet(Before(r)) /\ Cardinality(Before(r)) \in 0 .. n - 1
  <2>1. IsFiniteSet(rows \ {r}) /\ Cardinality(rows \ {r}) = n - 1
    BY FS_RemoveElement
  <2>2. Before(r) \in SUBSET (rows \ {r})
    BY DEF Orders
  <2> HIDE DEF Before
  <2>3. IsFiniteSet(Before(r)) /\ Cardinality(Before(r)) <= n - 1
    BY <2>1, <2>2, FS_Subset
  <2> QED
    BY <1>1, <2>3, FS_CardinalityType
<1>3. ASSUME NEW r \in rows, NEW s \in rows, <<r, s>> \in before
      PROVE  Cardinality(Before(r)) < Cardinality(Before(s))
  <2>1. Before(r) \in SUBSET Before(s)
    BY <1>3 DEF Orders
  <2>2. r \in Before(s) /\ r \notin Before(r)
    BY <1>3 DEF Orders
  <2>3. /\ IsFiniteSet(Before(s)) /\ Cardinality(Before(r)) \in 0 .. n - 1
        /\ Cardinality(Before(s)) \in 0 .. n - 1
    BY <1>2
  <2> HIDE DEF Before
  <2>4. Cardinality(Before(r)) <= Cardinality(Before(s))
    BY <2>1, <2>3, FS_Subset
  <2>5. Cardinality(Before(s)) # Cardinality(Before(r))
    BY <2>1, <2>2, <2>3, FS_Subset
  <2> QED
    BY <2>3, <2>4, <2>5
<1>4. rank \in Injection(rows, 0 .. n - 1)
  <2>1. rank \in [rows -> 0 .. n - 1]
    BY <1>2
  <2>2. ASSUME NEW r \in rows, NEW s \in rows, r # s
        PROVE  rank[r] # rank[s]
    <3>1. <<r, s>> \in before \/ <<s, r>> \in before
      BY <2>2 DEF Orders
    <3>2. rank[r] = Cardinality(Before(r)) /\ rank[s] = Cardinality(Before(s))
      OBVIOUS
    <3>3. Cardinality(Before(r)) \in 0 .. n - 1 /\ Cardinality(Before(s)) \in 0 .. n - 1
      BY <1>2
    <3> HIDE DEF Before, rank
    <3> QED
      BY <1>3, <3>1, <3>2, <3>3
  <2> HIDE DEF rank
  <2> QED
    BY <2>1, <2>2 DEF Injection, IsInjective
<1>5. rank \in Surjection(rows, 0 .. n - 1)
  <2>1. IsFiniteSet(0 .. n - 1) /\ Cardinality(0 .. n - 1) = n
    BY <1>1, FS_Interval
  <2> HIDE DEF rank
  <2> QED
    BY <1>4, <2>1, FS_Injection
<1>6. ASSUME NEW k \in 1 .. n
      PROVE  line[k] \in rows /\ Cardinality(Before(line[k])) = k - 1
  <2>1. line[k] = CHOOSE r \in rows : Cardinality(Before(r)) = k - 1
    BY DEF Sorted
  <2>2. k - 1 \in 0 .. n - 1
    BY <1>1
  <2>3. \E r \in rows : rank[r] = k - 1
    <3> HIDE DEF rank
    <3> QED
      BY <1>5, <2>2 DEF Surjection
  <2>4. \E r \in rows : Cardinality(Before(r)) = k - 1
    <3> HIDE DEF Before
    <3> QED
      BY <2>3
  <2> HIDE DEF line, Before
  <2> QED
    BY <2>1, <2>4
<1>7. line \in [1 .. n -> rows]
  <2>1. line = [k \in 1 .. n |-> Nth(k)]
    BY DEF Sorted
  <2> HIDE DEF line, Nth
  <2> QED
    BY <1>6, <2>1
<1>8. line \in Seq(rows) /\ Len(line) = n
  <2> HIDE DEF line
  <2> QED
    BY <1>1, <1>7
<1>9. \A i, j \in 1 .. n : line[i] = line[j] => i = j
  <2> HIDE DEF line, Before
  <2> QED
    BY <1>1, <1>6
<1> QED
  BY <1>1, <1>8, <1>9

-----------------------------------------------------------------------------
(* The rows of a table.                                                    *)

\* What a function makes of a finite set is finite.
LEMMA FiniteImage ==
  ASSUME NEW S, IsFiniteSet(S), NEW f, DOMAIN f = S
  PROVE  IsFiniteSet({f[x] : x \in S})
<1> DEFINE T == {f[x] : x \in S}
           g == [x \in S |-> f[x]]
<1>1. g \in Surjection(S, T)
  BY DEF Surjection
<1> HIDE DEF g, T
<1>2. IsFiniteSet(T)
  BY <1>1, FS_Surjection
<1> QED
  BY <1>2 DEF T

KindRows(kind) == IF kind = "mcp" THEN ServerRow ELSE CardRow

\* A table holds finitely many rows of its kind, told apart by their ids.
LEMMA LoadedRows ==
  ASSUME NEW kind \in {"skills", "mcp", "agents"}, NEW v
  PROVE  /\ Loaded(kind, v) \subseteq KindRows(kind) /\ IsFiniteSet(Loaded(kind, v))
         /\ \A r, s \in Loaded(kind, v) : r.id = s.id => r = s
<1>1. CASE v \notin Versions
  BY <1>1, FS_EmptySet DEF Loaded
<1>2. CASE v \in Versions
  <2> DEFINE skills == {s \in Snapshot[v].skills : s.ok}
             agents == {s \in Snapshot[v].agents : s.ok}
             asSkill == [r \in skills |->
                           [r EXCEPT !.source = IF @ = "nexa" THEN @ ELSE "common"]]
             asServer == [r \in Snapshot[v].mcp |-> [r EXCEPT !.readme = DropURLs(@)]]
  <2>1. /\ Snapshot[v].skills \subseteq CardRow /\ Snapshot[v].agents \subseteq CardRow
        /\ Snapshot[v].mcp \subseteq ServerRow
        /\ IsFiniteSet(Snapshot[v].skills) /\ IsFiniteSet(Snapshot[v].agents)
        /\ IsFiniteSet(Snapshot[v].mcp)
        /\ \A r, s \in Loaded(kind, v) : r.id = s.id => r = s
    BY <1>2, RowsAssumption DEF RowsAssumption
  <2>2. LoadSkills(v) \subseteq CardRow /\ IsFiniteSet(LoadSkills(v))
    <3>1. IsFiniteSet(skills)
      BY <2>1, FS_Subset
    <3>2. LoadSkills(v) = {asSkill[r] : r \in skills}
      BY DEF LoadSkills
    <3>3. LoadSkills(v) \subseteq CardRow
      <4>1. ASSUME NEW r \in CardRow
            PROVE  [r EXCEPT !.source = IF @ = "nexa" THEN @ ELSE "common"] \in CardRow
        <5> DEFINE x == IF r.source = "nexa" THEN r.source ELSE "common"
        <5>1. x \in {"common", "nexa", "other"}
          BY DEF CardRow
        <5>2. [r EXCEPT !.source = IF @ = "nexa" THEN @ ELSE "common"] = [r EXCEPT !.source = x]
          OBVIOUS
        <5> HIDE DEF x
        <5>3. [r EXCEPT !.source = x] \in CardRow
          BY <5>1 DEF CardRow
        <5> QED
          BY <5>2, <5>3
      <4> QED
        BY <2>1, <4>1 DEF LoadSkills
    <3>4. DOMAIN asSkill = skills
      OBVIOUS
    <3> HIDE DEF asSkill, skills
    <3> QED
      BY <3>1, <3>2, <3>3, <3>4, FiniteImage
  <2>3. LoadAgents(v) \subseteq CardRow /\ IsFiniteSet(LoadAgents(v))
    BY <2>1, FS_Subset DEF LoadAgents
  <2>4. LoadMcp(v) \subseteq ServerRow /\ IsFiniteSet(LoadMcp(v))
    <3>1. LoadMcp(v) = {asServer[r] : r \in Snapshot[v].mcp} /\ DOMAIN asServer = Snapshot[v].mcp
      BY DEF LoadMcp
    <3>2. LoadMcp(v) \subseteq ServerRow
      <4>1. \A r \in ServerRow : [r EXCEPT !.readme = DropURLs(@)] \in ServerRow
        BY DEF ServerRow, DropURLs
      <4> QED
        BY <2>1, <4>1 DEF LoadMcp
    <3> HIDE DEF asServer
    <3> QED
      BY <2>1, <3>1, <3>2, FiniteImage
  <2>5. CASE kind = "skills"
    <3>1. Loaded(kind, v) = LoadSkills(v) /\ KindRows(kind) = CardRow
      BY <1>2, <2>5 DEF Loaded, KindRows
    <3> QED
      BY <2>1, <2>2, <3>1
  <2>6. CASE kind = "agents"
    <3>1. Loaded(kind, v) = LoadAgents(v) /\ KindRows(kind) = CardRow
      BY <1>2, <2>6 DEF Loaded, KindRows
    <3> QED
      BY <2>1, <2>3, <3>1
  <2>7. CASE kind = "mcp"
    <3>1. Loaded(kind, v) = LoadMcp(v) /\ KindRows(kind) = ServerRow
      BY <1>2, <2>7 DEF Loaded, KindRows
    <3> QED
      BY <2>1, <2>4, <3>1
  <2> QED
    BY <2>5, <2>6, <2>7
<1> QED
  BY <1>1, <1>2

-----------------------------------------------------------------------------
(* The two filters and the two orders.                                     *)

\* What a normalised query looks like.
Asked ==
    {q \in [kind : {"skills", "mcp", "agents"}, category : STRING, keyword : BOOLEAN,
            page : 1 .. MaxPage, size : Nat \ {0}, sort : STRING \cup Sorts,
            source : STRING \cup {""}, online : STRING \cup {""}, service : STRING \cup {""}] :
        /\ q.kind \in {"skills", "agents"} => q.sort \in Sorts
        /\ q.kind = "mcp" => /\ q.online \in {"", "true", "false"}
                             /\ q.service \in {"", "hosted", "local"}}

\* ORDER BY two columns: the second decides where the first does not.
LEMMA PrecedesPair ==
  ASSUME NEW a \in Int, NEW b \in Int, NEW c \in Int, NEW d \in Int
  PROVE  Precedes(<<a, b>>, <<c, d>>) <=> a < c \/ (a = c /\ b < d)
<1> DEFINE k == <<a, b>>
           l == <<c, d>>
<1>1. DOMAIN k = {1, 2} /\ k[1] = a /\ k[2] = b /\ l[1] = c /\ l[2] = d
  OBVIOUS
<1>2. 1 .. 1 - 1 = {} /\ 1 .. 2 - 1 = {1}
  OBVIOUS
<1> HIDE DEF k, l
<1>3. Precedes(k, l) <=> \/ k[1] < l[1] /\ \A j \in 1 .. 1 - 1 : k[j] = l[j]
                         \/ k[2] < l[2] /\ \A j \in 1 .. 2 - 1 : k[j] = l[j]
  BY <1>1, Zenon DEF Precedes
<1>4. Precedes(k, l) <=> k[1] < l[1] \/ (k[2] < l[2] /\ k[1] = l[1])
  BY <1>2, <1>3
<1>5. Precedes(k, l) <=> a < c \/ (a = c /\ b < d)
  BY <1>1, <1>4
<1> QED
  BY <1>5 DEF k, l

\* ORDER BY three columns, as the servers of a keyword are sorted.
LEMMA PrecedesTriple ==
  ASSUME NEW a \in Int, NEW b \in Int, NEW e \in Int, NEW c \in Int, NEW d \in Int, NEW f \in Int
  PROVE  Precedes(<<a, b, e>>, <<c, d, f>>) <=>
            a < c \/ (a = c /\ b < d) \/ (a = c /\ b = d /\ e < f)
<1> DEFINE k == <<a, b, e>>
           l == <<c, d, f>>
<1>1. /\ DOMAIN k = {1, 2, 3} /\ k[1] = a /\ k[2] = b /\ k[3] = e
      /\ l[1] = c /\ l[2] = d /\ l[3] = f
  OBVIOUS
<1>2. 1 .. 1 - 1 = {} /\ 1 .. 2 - 1 = {1} /\ 1 .. 3 - 1 = {1, 2}
  OBVIOUS
<1> HIDE DEF k, l
<1>3. Precedes(k, l) <=> \/ k[1] < l[1] /\ \A j \in 1 .. 1 - 1 : k[j] = l[j]
                         \/ k[2] < l[2] /\ \A j \in 1 .. 2 - 1 : k[j] = l[j]
                         \/ k[3] < l[3] /\ \A j \in 1 .. 3 - 1 : k[j] = l[j]
  BY <1>1, Zenon DEF Precedes
<1>4. Precedes(k, l) <=> \/ k[1] < l[1]
                         \/ k[2] < l[2] /\ k[1] = l[1]
                         \/ k[3] < l[3] /\ k[1] = l[1] /\ k[2] = l[2]
  BY <1>2, <1>3
<1>5. Precedes(k, l) <=> a < c \/ (a = c /\ b < d) \/ (a = c /\ b = d /\ e < f)
  BY <1>1, <1>4
<1> QED
  BY <1>5 DEF k, l

\* A row is visible to the in-memory store if the filter of the other selects it.
LEMMA SameSelection ==
  ASSUME NEW q \in Asked, NEW r \in KindRows(q.kind)
  PROVE  Visible(r, q) <=> Selects(q, r)
<1>1. q.kind \in {"skills", "mcp", "agents"}
  BY DEF Asked
<1>2. CASE q.kind = "skills"
  BY <1>2, Zenon DEF Visible, Selects, SkillVisible, SkillFilter
<1>3. CASE q.kind = "agents"
  BY <1>3, Zenon DEF Visible, Selects, AgentVisible, AgentFilter
<1>4. CASE q.kind = "mcp"
  <2>1. q.online \in {"", "true", "false"} /\ q.service \in {"", "hosted", "local"}
    BY <1>4 DEF Asked
  <2>2. r.online \in BOOLEAN /\ r.hosted \in BOOLEAN
    BY <1>4 DEF KindRows, ServerRow
  <2>3. q.online \in {"", IF r.online THEN "true" ELSE "false"} <=> NeedsOnlineOK(r, q.online)
    BY <2>1, <2>2 DEF NeedsOnlineOK
  <2>4. q.service \in {"", IF r.hosted THEN "hosted" ELSE "local"}
          <=> (q.service = "hosted" => r.hosted) /\ (q.service = "local" => ~r.hosted)
    BY <2>1, <2>2
  <2>5. Visible(r, q) <=> NeedsOnlineOK(r, q.online) /\ MarketVisible(r, q)
    BY <1>4 DEF Visible
  <2>6. Selects(q, r) <=> McpMarketFilter(r, q)
    BY <1>4 DEF Selects
  <2> QED
    BY <2>3, <2>4, <2>5, <2>6, Zenon DEF MarketVisible, McpMarketFilter
<1> QED
  BY <1>1, <1>2, <1>3, <1>4

\* A row is less than another if the tuple it is ordered by precedes the other's.
LEMMA SameOrder ==
  ASSUME NEW q \in Asked, NEW a \in KindRows(q.kind), NEW b \in KindRows(q.kind)
  PROVE  Less(a, b, q) <=> Precedes(OrderBy(a, q), OrderBy(b, q))
<1>1. q.kind \in {"skills", "mcp", "agents"}
  BY DEF Asked
<1>2. CASE q.kind \in {"skills", "agents"}
  <2>1. q.sort \in Sorts
    BY <1>2 DEF Asked
  <2>2. a[q.sort] \in Int /\ b[q.sort] \in Int /\ a.id \in Int /\ b.id \in Int
    BY <1>2, <2>1 DEF KindRows, CardRow, Sorts
  <2>3. Less(a, b, q) <=> SkillLess(a, b, q)
    BY <1>2 DEF Less, AgentLess
  <2>4. OrderBy(a, q) = << -a[q.sort], a.id >> /\ OrderBy(b, q) = << -b[q.sort], b.id >>
    BY <1>2 DEF OrderBy, SkillOrder, AgentOrder
  <2>5. Precedes(OrderBy(a, q), OrderBy(b, q)) <=>
          -a[q.sort] < -b[q.sort] \/ (-a[q.sort] = -b[q.sort] /\ a.id < b.id)
    BY <2>2, <2>4, PrecedesPair
  <2> QED
    BY <2>2, <2>3, <2>5 DEF SkillLess
<1>3. CASE q.kind = "mcp"
  <2>1. a.rank \in Int /\ b.rank \in Int /\ a.id \in Int /\ b.id \in Int
    BY <1>3 DEF KindRows, ServerRow
  <2>2. Less(a, b, q) <=> MarketLess(a, b, q)
    BY <1>3 DEF Less
  <2>3. OrderBy(a, q) = MarketOrder(a, q) /\ OrderBy(b, q) = MarketOrder(b, q)
    BY <1>3 DEF OrderBy
  <2>4. CASE q.keyword
    <3> DEFINE x == IF NameHit(a) THEN 0 ELSE 1
               y == IF NameHit(b) THEN 0 ELSE 1
    <3>1. x \in Int /\ y \in Int /\ (NameHit(a) <=> x = 0) /\ (NameHit(b) <=> y = 0)
      OBVIOUS
    <3>2. OrderBy(a, q) = <<x, a.rank, a.id>> /\ OrderBy(b, q) = <<y, b.rank, b.id>>
      BY <2>3, <2>4 DEF MarketOrder
    <3>3. x \in {0, 1} /\ y \in {0, 1}
      OBVIOUS
    <3> HIDE DEF x, y
    <3>4. Precedes(OrderBy(a, q), OrderBy(b, q)) <=>
            x < y \/ (x = y /\ a.rank < b.rank) \/ (x = y /\ a.rank = b.rank /\ a.id < b.id)
      <4>1. Precedes(<<x, a.rank, a.id>>, <<y, b.rank, b.id>>) <=>
              x < y \/ (x = y /\ a.rank < b.rank) \/ (x = y /\ a.rank = b.rank /\ a.id < b.id)
        BY <2>1, <3>1, PrecedesTriple
      <4> QED
        BY <3>2, <4>1, Zenon
    <3>5. (q.keyword /\ NameHit(a) # NameHit(b)) <=> x # y
      BY <2>4, <3>1, <3>3 DEF NameHit
    <3>6. MarketLess(a, b, q) <=> IF x # y THEN x = 0
                                  ELSE IF a.rank # b.rank THEN a.rank < b.rank ELSE a.id < b.id
      BY <3>1, <3>5, Zenon DEF MarketLess
    <3> QED
      BY <2>1, <2>2, <3>3, <3>4, <3>6
  <2>5. CASE ~q.keyword
    <3>1. OrderBy(a, q) = <<a.rank, a.id>> /\ OrderBy(b, q) = <<b.rank, b.id>>
      BY <2>3, <2>5 DEF MarketOrder
    <3>2. Precedes(OrderBy(a, q), OrderBy(b, q)) <=> a.rank < b.rank \/ (a.rank = b.rank /\ a.id < b.id)
      BY <2>1, <3>1, PrecedesPair
    <3> QED
      BY <2>1, <2>2, <2>5, <3>2 DEF MarketLess
  <2> QED
    BY <2>4, <2>5
<1> QED
  BY <1>1, <1>2, <1>3

\* The order of a query is a strict total order of rows told apart by their ids.
LEMMA LessOrders ==
  ASSUME NEW q \in Asked, NEW rows \in SUBSET KindRows(q.kind),
         \A r, s \in rows : r.id = s.id => r = s
  PROVE  Orders({p \in rows \X rows : Less(p[1], p[2], q)}, rows)
<1> DEFINE before == {p \in rows \X rows : Less(p[1], p[2], q)}
<1>1. q.kind \in {"skills", "mcp", "agents"}
  BY DEF Asked
<1>2. \A r, s \in rows : <<r, s>> \in before <=> Less(r, s, q)
  OBVIOUS
<1>3. /\ \A r \in rows : ~Less(r, r, q)
      /\ \A r, s \in rows : r # s => Less(r, s, q) \/ Less(s, r, q)
      /\ \A r, s, t \in rows : Less(r, s, q) /\ Less(s, t, q) => Less(r, t, q)
  <2>1. CASE q.kind \in {"skills", "agents"}
    <3>1. q.sort \in Sorts
      BY <2>1 DEF Asked
    <3>2. \A r \in rows : r[q.sort] \in Int /\ r.id \in Int
      BY <2>1, <3>1 DEF KindRows, CardRow, Sorts
    <3>3. \A r, s \in rows :
            Less(r, s, q) <=> IF r[q.sort] # s[q.sort] THEN r[q.sort] > s[q.sort] ELSE r.id < s.id
      BY <2>1 DEF Less, AgentLess, SkillLess
    <3> QED
      BY <3>2, <3>3
  <2>2. CASE q.kind = "mcp"
    <3>1. \A r \in rows : r.rank \in Int /\ r.id \in Int /\ NameHit(r) \in BOOLEAN
      BY <2>2 DEF KindRows, ServerRow, NameHit
    <3>2. \A r, s \in rows : Less(r, s, q) <=>
            IF q.keyword /\ NameHit(r) # NameHit(s) THEN NameHit(r)
            ELSE IF r.rank # s.rank THEN r.rank < s.rank ELSE r.id < s.id
      BY <2>2 DEF Less, MarketLess
    <3>3. q.keyword \in BOOLEAN
      BY DEF Asked
    <3> QED
      BY <3>1, <3>2, <3>3
  <2> QED
    BY <1>1, <2>1, <2>2
<1> HIDE DEF before
<1> QED
  BY <1>2, <1>3 DEF Orders, before

-----------------------------------------------------------------------------
(* The pages.                                                              *)

\* What a query selects, in its order: each row of it once.
LEMMA OrderedRows ==
  ASSUME NEW q \in Asked, NEW v
  PROVE  LET table == Loaded(q.kind, v)
             total == Cardinality({r \in table : Selects(q, r)})
         IN  /\ total \in Nat
             /\ Ordered(table, q) \in Seq(table) /\ Len(Ordered(table, q)) = total
             /\ \A i, j \in 1 .. total : Ordered(table, q)[i] = Ordered(table, q)[j] => i = j
             /\ {r \in table : Visible(r, q)} = {r \in table : Selects(q, r)}
             /\ Sorted({r \in table : Visible(r, q)},
                       {p \in {r \in table : Visible(r, q)} \X {r \in table : Visible(r, q)} :
                          Less(p[1], p[2], q)})
                  = Ordered(table, q)
<1> DEFINE table == Loaded(q.kind, v)
           rows == {r \in table : Selects(q, r)}
           seen == {r \in table : Visible(r, q)}
           less == {p \in rows \X rows : Less(p[1], p[2], q)}
           before == {p \in rows \X rows : Precedes(OrderBy(p[1], q), OrderBy(p[2], q))}
<1>1. /\ q.kind \in {"skills", "mcp", "agents"} /\ table \subseteq KindRows(q.kind)
      /\ IsFiniteSet(table) /\ \A r, s \in table : r.id = s.id => r = s
  BY LoadedRows DEF Asked
<1>2. seen = rows
  <2> HIDE DEF table
  <2> QED
    BY <1>1, SameSelection
<1>3. rows \in SUBSET KindRows(q.kind) /\ IsFiniteSet(rows) /\ \A r, s \in rows : r.id = s.id => r = s
  <2> HIDE DEF table
  <2> QED
    BY <1>1, FS_Subset
<1>4. less = before
  <2> HIDE DEF rows
  <2>1. \A r, s \in rows : Less(r, s, q) <=> Precedes(OrderBy(r, q), OrderBy(s, q))
    BY <1>3, SameOrder
  <2>2. \A p \in rows \X rows : p[1] \in rows /\ p[2] \in rows
    OBVIOUS
  <2> QED
    BY <2>1, <2>2, Zenon
<1>5. Orders(less, rows)
  <2> HIDE DEF rows
  <2> QED
    BY <1>3, LessOrders
<1>6. Ordered(table, q) = Sorted(rows, before)
  BY Zenon DEF Ordered
<1> DEFINE line == Sorted(rows, before)
<1>7. /\ Cardinality(rows) \in Nat /\ line \in Seq(rows) /\ Len(line) = Cardinality(rows)
      /\ \A i, j \in 1 .. Cardinality(rows) : line[i] = line[j] => i = j
  <2> HIDE DEF rows, before, less
  <2> QED
    BY <1>3, <1>4, <1>5, SortedLists
<1>8. line \in Seq(table)
  <2>1. rows \subseteq table
    OBVIOUS
  <2> HIDE DEF rows, line, table
  <2> QED
    BY <1>7, <2>1
<1>9. Sorted(seen, {p \in seen \X seen : Less(p[1], p[2], q)}) = line
  <2>1. {p \in seen \X seen : Less(p[1], p[2], q)} = less
    <3> HIDE DEF seen, rows
    <3> QED
      BY <1>2
  <2> HIDE DEF seen, rows, less, before
  <2> QED
    BY <1>2, <1>4, <2>1 DEF line
<1> HIDE DEF line, rows, seen, table, before, less
<1>10. /\ Cardinality(rows) \in Nat
       /\ Ordered(table, q) \in Seq(table) /\ Len(Ordered(table, q)) = Cardinality(rows)
       /\ \A i, j \in 1 .. Cardinality(rows) : Ordered(table, q)[i] = Ordered(table, q)[j] => i = j
       /\ seen = rows
       /\ Sorted(seen, {p \in seen \X seen : Less(p[1], p[2], q)}) = Ordered(table, q)
  BY <1>2, <1>6, <1>7, <1>8, <1>9 DEF line
<1> QED
  BY <1>10, Zenon DEF rows, seen, table

EndOf(all, offset, limit) == IF all <= offset + limit THEN all ELSE offset + limit

Width(all, offset, limit) ==
    IF offset + 1 > EndOf(all, offset, limit) THEN 0 ELSE EndOf(all, offset, limit) - offset

\* How many rows a page has.
LEMMA PageLength ==
  ASSUME NEW all \in Nat, NEW offset \in Nat, NEW limit \in Nat
  PROVE  /\ EndOf(all, offset, limit) \in Nat /\ Width(all, offset, limit) \in Nat
         /\ offset <= all =>
              Width(all, offset, limit) = IF all - offset <= limit THEN all - offset ELSE limit
         /\ offset > all => Width(all, offset, limit) = 0
         /\ \A i \in 1 .. Width(all, offset, limit) : offset + i \in 1 .. all
<1>1. CASE all <= offset + limit
  <2>1. EndOf(all, offset, limit) = all
    BY <1>1 DEF EndOf
  <2>2. CASE offset + 1 > all
    <3>1. Width(all, offset, limit) = 0
      BY <2>1, <2>2 DEF Width
    <3> QED
      BY <1>1, <2>1, <2>2, <3>1
  <2>3. CASE ~(offset + 1 > all)
    <3>1. Width(all, offset, limit) = all - offset
      BY <2>1, <2>3 DEF Width
    <3> QED
      BY <1>1, <2>1, <2>3, <3>1
  <2> QED
    BY <2>2, <2>3
<1>2. CASE ~(all <= offset + limit)
  <2>1. EndOf(all, offset, limit) = offset + limit
    BY <1>2 DEF EndOf
  <2>2. Width(all, offset, limit) = limit
    BY <2>1 DEF Width
  <2> QED
    BY <1>2, <2>1, <2>2
<1> QED
  BY <1>1, <1>2

\* A page: what of the rows is beyond the offset, up to the limit.
IsPage(page, s, offset, limit) ==
    /\ offset <= Len(s) =>
         Len(page) = IF Len(s) - offset <= limit THEN Len(s) - offset ELSE limit
    /\ offset > Len(s) => Len(page) = 0
    /\ \A i \in 1 .. Len(page) : offset + i \in 1 .. Len(s) /\ page[i] = s[offset + i]

\* LIMIT and OFFSET cut a page out of the sorted rows.
LEMMA PageRows ==
  ASSUME NEW T, NEW s \in Seq(T), NEW offset \in Nat, NEW limit \in Nat
  PROVE  /\ LimitOffset(s, offset, limit) \in Seq(T)
         /\ IsPage(LimitOffset(s, offset, limit), s, offset, limit)
<1>1. Len(s) \in Nat /\ DOMAIN s = 1 .. Len(s) /\ \A i \in 1 .. Len(s) : s[i] \in T
  OBVIOUS
<1> DEFINE last == EndOf(Len(s), offset, limit)
           inside == {j \in DOMAIN s : j > offset /\ j <= offset + limit}
           n == Cardinality(inside)
           page == LimitOffset(s, offset, limit)
<1>2. inside = offset + 1 .. last
  BY <1>1 DEF EndOf
<1>3. last \in Nat
  BY <1>1, PageLength
<1>4. n = Width(Len(s), offset, limit)
  <2> HIDE DEF last, inside
  <2>1. Cardinality(offset + 1 .. last) = IF offset + 1 > last THEN 0 ELSE last - (offset + 1) + 1
    BY <1>3, FS_Interval
  <2>2. n = IF offset + 1 > last THEN 0 ELSE last - offset
    BY <1>2, <1>3, <2>1
  <2> QED
    BY <2>2 DEF Width, last
<1>5. /\ n \in Nat /\ \A i \in 1 .. n : offset + i \in 1 .. Len(s)
      /\ offset <= Len(s) => n = IF Len(s) - offset <= limit THEN Len(s) - offset ELSE limit
      /\ offset > Len(s) => n = 0
  <2> HIDE DEF n
  <2>1. Len(s) \in Nat
    BY <1>1
  <2> QED
    BY <1>4, <2>1, PageLength
<1>6. page = [i \in 1 .. n |-> s[offset + i]]
  BY Zenon DEF LimitOffset
<1>7. page \in Seq(T) /\ Len(page) = n /\ \A i \in 1 .. n : page[i] = s[offset + i]
  <2> HIDE DEF n, page
  <2>1. \A i \in 1 .. n : s[offset + i] \in T
    BY <1>1, <1>5
  <2> QED
    BY <1>5, <1>6, <2>1
<1> HIDE DEF n, page
<1>8. page \in Seq(T) /\ IsPage(page, s, offset, limit)
  BY <1>5, <1>7 DEF IsPage
<1> QED
  BY <1>8 DEF page

\* A page begins where the one before it ends.
LEMMA PageStarts ==
  ASSUME NEW p \in Nat \ {0}, NEW z \in Nat
  PROVE  (p - 1) * z \in Nat /\ p * z \in Nat /\ p * z = (p - 1) * z + z
<1>1. p - 1 \in Nat /\ p = (p - 1) + 1
  OBVIOUS
<1>2. \A k \in Nat : k * z \in Nat /\ (k + 1) * z = k * z + z
  BY Z3
<1> QED
  BY <1>1, <1>2

\* The page and the size of a normalised query are in range.
LEMMA AskedPage ==
  ASSUME NEW q \in Asked
  PROVE  /\ q.page \in Nat \ {0} /\ q.page <= MaxPage /\ q.size \in Nat \ {0}
         /\ q.page - 1 \in Nat /\ MaxPage \in Nat
         /\ (q.page - 1) * q.size \in Nat /\ q.page * q.size \in Nat
         /\ q.page * q.size = (q.page - 1) * q.size + q.size
<1>1. MaxPage \in Nat /\ q.page \in 1 .. MaxPage /\ q.size \in Nat \ {0}
  BY PageAssumption, Zenon DEF PageAssumption, Asked
<1>2. q.page \in Nat \ {0} /\ q.page <= MaxPage /\ q.page - 1 \in Nat
  BY <1>1
<1> QED
  BY <1>1, <1>2, PageStarts

\* LIMIT and OFFSET give what the in-memory store cuts out.
LEMMA SamePage ==
  ASSUME NEW T, NEW s \in Seq(T), NEW q \in Asked
  PROVE  LimitOffset(s, (q.page - 1) * q.size, q.size) = CutPage(s, q)
<1>1. Len(s) \in Nat
  OBVIOUS
<1> DEFINE offset == (q.page - 1) * q.size
           end == q.page * q.size
           Cut(k) == IF k > Len(s) THEN Len(s) ELSE k
           page == LimitOffset(s, offset, q.size)
           cut == SubSeq(s, Cut(offset) + 1, Cut(end))
<1>2. offset \in Nat /\ end \in Nat /\ q.size \in Nat /\ end = offset + q.size
  BY AskedPage
<1>3. CutPage(s, q) = cut
  BY Zenon DEF CutPage
<1>4. LimitOffset(s, (q.page - 1) * q.size, q.size) = page
  OBVIOUS
<1> HIDE DEF offset, end, page, cut
<1>5. page \in Seq(T) /\ IsPage(page, s, offset, q.size)
  BY <1>2, PageRows DEF page
<1>6. /\ Cut(offset) \in Nat /\ Cut(end) \in Nat /\ Cut(end) <= Len(s)
      /\ Len(page) = Cut(end) - Cut(offset) /\ Len(page) \in Nat
      /\ Len(page) # 0 => Cut(offset) = offset
  <2>0. /\ offset <= Len(s) => Len(page) = IF Len(s) - offset <= q.size THEN Len(s) - offset ELSE q.size
        /\ offset > Len(s) => Len(page) = 0
    BY <1>5 DEF IsPage
  <2>1. CASE offset > Len(s)
    <3>1. Cut(offset) = Len(s) /\ Cut(end) = Len(s) /\ Len(page) = 0
      BY <1>1, <1>2, <2>0, <2>1
    <3> QED
      BY <1>1, <3>1
  <2>2. CASE offset <= Len(s) /\ end > Len(s)
    <3>1. Cut(offset) = offset /\ Cut(end) = Len(s)
      BY <1>1, <1>2, <2>2
    <3>2. Len(page) = Len(s) - offset
      BY <1>1, <1>2, <2>0, <2>2
    <3> QED
      BY <1>1, <1>2, <2>2, <3>1, <3>2
  <2>3. CASE end <= Len(s)
    <3>1. Cut(offset) = offset /\ Cut(end) = end
      BY <1>1, <1>2, <2>3
    <3>2. Len(page) = q.size
      BY <1>1, <1>2, <2>0, <2>3
    <3> QED
      BY <1>1, <1>2, <2>3, <3>1, <3>2
  <2> QED
    BY <1>1, <1>2, <2>1, <2>2, <2>3
<1> HIDE DEF Cut
<1>7. \A i \in Cut(offset) + 1 .. Cut(end) : s[i] \in T
  <2>1. \A i \in 1 .. Len(s) : s[i] \in T
    OBVIOUS
  <2> QED
    BY <1>1, <1>6, <2>1
<1>8. /\ cut \in Seq(T) /\ Len(cut) = Len(page)
      /\ \A i \in 1 .. Len(page) : cut[i] = s[Cut(offset) + i]
  <2>1. Cut(offset) + 1 \in Int /\ Cut(end) \in Int
    BY <1>6
  <2>2. /\ cut \in Seq(T)
        /\ Len(cut) = IF Cut(offset) + 1 <= Cut(end) THEN Cut(end) - (Cut(offset) + 1) + 1 ELSE 0
        /\ \A i \in 1 .. Cut(end) - (Cut(offset) + 1) + 1 : cut[i] = s[Cut(offset) + 1 + i - 1]
    BY <1>7, <2>1, SubSeqProperties DEF cut
  <2>3. /\ Cut(end) - (Cut(offset) + 1) + 1 = Len(page)
        /\ \A i \in 1 .. Len(page) : Cut(offset) + 1 + i - 1 = Cut(offset) + i
    BY <1>6
  <2> QED
    BY <1>6, <2>2, <2>3
<1>9. \A i \in 1 .. Len(page) : page[i] = cut[i]
  BY <1>5, <1>6, <1>8 DEF IsPage
<1>10. page = cut
  <2>1. page = [i \in 1 .. Len(page) |-> page[i]] /\ cut = [i \in 1 .. Len(page) |-> cut[i]]
    BY <1>5, <1>8
  <2> QED
    BY <1>9, <2>1
<1> QED
  BY <1>3, <1>4, <1>10

-----------------------------------------------------------------------------
(* The walk.                                                               *)

\* A normalised query asks for the first page.
LEMMA Normalised ==
  ASSUME NEW q \in Queries
  PROVE  /\ NormalizeQuery(q) \in Asked /\ NormalizeQuery(q).page = 1
         /\ NormalizeQuery(q).kind = q.kind
<1> DEFINE size == IF q.size < 1 THEN DefaultSize ELSE IF q.size > MaxSize THEN MaxSize ELSE q.size
           c == [q EXCEPT !.page = 1, !.size = size]
<1>1. q \in Query /\ q.page <= 1 /\ q.page \in Int /\ q.size \in Int
      /\ q.kind \in {"skills", "mcp", "agents"}
  BY QueryAssumption DEF QueryAssumption, Query
<1>2. /\ DefaultSize \in Nat \ {0} /\ MaxSize \in Nat \ {0} /\ MaxPage \in Nat \ {0}
  BY PageAssumption DEF PageAssumption
<1>3. size \in Nat \ {0}
  BY <1>1, <1>2
<1>4. Clamp(q) = c
  <2>1. (IF q.page < 1 THEN 1 ELSE IF q.page > MaxPage THEN MaxPage ELSE q.page) = 1
    BY <1>1, <1>2
  <2> QED
    BY <2>1 DEF Clamp
<1>5. 1 \in 1 .. MaxPage
  BY <1>2
<1> HIDE DEF size
<1>6. CASE q.kind \in {"skills", "agents"}
  <2> DEFINE sort == IF q.sort \in Sorts THEN q.sort ELSE "downloads"
  <2>1. sort \in Sorts
    BY DEF Sorts
  <2>2. CASE q.kind = "skills"
    <3> DEFINE src == Known(q.source, {"common", "nexa"})
    <3>1. src \in STRING \cup {""}
      BY <1>1 DEF Known, Query
    <3>2. NormalizeQuery(q) = [c EXCEPT !.sort = sort, !.source = src]
      BY <1>1, <1>4, <2>2 DEF NormalizeQuery, NormalizeSkillQuery, Query
    <3> HIDE DEF sort, src
    <3> QED
      BY <1>1, <1>3, <1>5, <2>1, <2>2, <3>1, <3>2 DEF Asked, Query
  <2>3. CASE q.kind = "agents"
    <3>1. NormalizeQuery(q) = [c EXCEPT !.sort = sort]
      BY <1>1, <1>4, <2>3 DEF NormalizeQuery, NormalizeAgentQuery, Query
    <3> HIDE DEF sort
    <3> QED
      BY <1>1, <1>3, <1>5, <2>1, <2>3, <3>1 DEF Asked, Query
  <2> QED
    BY <1>6, <2>2, <2>3
<1>7. CASE q.kind = "mcp"
  <2> DEFINE src == Known(q.source, {"common", "nexa"})
             online == Known(q.online, {"true", "false"})
             service == Known(q.service, {"hosted", "local"})
  <2>1. /\ src \in STRING \cup {""} /\ online \in STRING \cup {""} /\ service \in STRING \cup {""}
        /\ online \in {"", "true", "false"} /\ service \in {"", "hosted", "local"}
    BY <1>1 DEF Known, Query
  <2>2. NormalizeQuery(q) = [c EXCEPT !.source = src, !.online = online, !.service = service]
    BY <1>1, <1>4, <1>7 DEF NormalizeQuery, NormalizeMcpMarketQuery, Query
  <2> HIDE DEF src, online, service
  <2> QED
    BY <1>1, <1>3, <1>5, <1>7, <2>1, <2>2 DEF Asked, Query
<1> QED
  BY <1>1, <1>6, <1>7

\* The order does not depend on the page that is asked for.
LEMMA OrderedAnyPage ==
  ASSUME NEW q \in Asked, NEW p, NEW o, o = [q EXCEPT !.page = p], NEW table
  PROVE  Ordered(table, o) = Ordered(table, q)
<1>1. /\ o.kind = q.kind /\ o.category = q.category /\ o.keyword = q.keyword /\ o.sort = q.sort
      /\ o.source = q.source /\ o.online = q.online /\ o.service = q.service
      /\ q.kind \in {"skills", "mcp", "agents"}
  BY DEF Asked
<1>2. ASSUME NEW r
      PROVE  (Selects(o, r) <=> Selects(q, r)) /\ OrderBy(r, o) = OrderBy(r, q)
  <2>1. CASE q.kind = "skills"
    <3>1. Selects(o, r) <=> Selects(q, r)
      BY <1>1, <2>1 DEF Selects, SkillFilter
    <3>2. OrderBy(r, o) = SkillOrder(r, o) /\ OrderBy(r, q) = SkillOrder(r, q)
      BY <1>1, <2>1 DEF OrderBy
    <3>3. SkillOrder(r, o) = SkillOrder(r, q)
      BY <1>1, Zenon DEF SkillOrder
    <3> QED
      BY <3>1, <3>2, <3>3
  <2>2. CASE q.kind = "agents"
    <3>1. Selects(o, r) <=> Selects(q, r)
      BY <1>1, <2>2 DEF Selects, AgentFilter
    <3>2. OrderBy(r, o) = AgentOrder(r, o) /\ OrderBy(r, q) = AgentOrder(r, q)
      BY <1>1, <2>2 DEF OrderBy
    <3>3. AgentOrder(r, o) = AgentOrder(r, q)
      BY <1>1, Zenon DEF AgentOrder
    <3> QED
      BY <3>1, <3>2, <3>3
  <2>3. CASE q.kind = "mcp"
    BY <1>1, <2>3 DEF Selects, McpMarketFilter, OrderBy, MarketOrder
  <2> QED
    BY <1>1, <2>1, <2>2, <2>3
<1> DEFINE rows(x) == {r \in table : Selects(x, r)}
           before(x) == {i \in rows(x) \X rows(x) : Precedes(OrderBy(i[1], x), OrderBy(i[2], x))}
<1>3. rows(o) = rows(q)
  BY <1>2
<1>4. before(o) = before(q)
  <2> HIDE DEF rows
  <2> QED
    BY <1>2, <1>3
<1>5. Ordered(table, o) = Sorted(rows(o), before(o)) /\ Ordered(table, q) = Sorted(rows(q), before(q))
  BY Zenon DEF Ordered
<1> HIDE DEF rows, before
<1> QED
  BY <1>3, <1>4, <1>5

\* The pages read so far are the first rows in the order.
Begins(rows, line) == Len(rows) <= Len(line) /\ \A i \in 1 .. Len(rows) : rows[i] = line[i]

\* The page that begins where the rows read so far end continues them.
LEMMA BeginsFurther ==
  ASSUME NEW T, NEW line \in Seq(T), NEW rows \in Seq(T), Begins(rows, line), NEW limit \in Nat,
         NEW page \in Seq(T), IsPage(page, line, Len(rows), limit)
  PROVE  /\ rows \o page \in Seq(T) /\ Len(rows \o page) = Len(rows) + Len(page)
         /\ Begins(rows \o page, line)
<1>1. Len(rows) \in Nat /\ Len(page) \in Nat /\ Len(line) \in Nat
  OBVIOUS
<1>2. /\ rows \o page \in Seq(T) /\ Len(rows \o page) = Len(rows) + Len(page)
      /\ \A i \in 1 .. Len(rows) + Len(page) :
            (rows \o page)[i] = IF i <= Len(rows) THEN rows[i] ELSE page[i - Len(rows)]
  OBVIOUS
<1>3. Len(rows) + Len(page) <= Len(line)
  <2>1. Len(page) = IF Len(line) - Len(rows) <= limit THEN Len(line) - Len(rows) ELSE limit
    BY DEF IsPage, Begins
  <2>2. Len(rows) <= Len(line)
    BY DEF Begins
  <2> QED
    BY <1>1, <2>1, <2>2
<1>4. ASSUME NEW i \in 1 .. Len(rows) + Len(page)
      PROVE  (rows \o page)[i] = line[i]
  <2>1. CASE i <= Len(rows)
    <3>1. i \in 1 .. Len(rows)
      BY <1>1, <2>1
    <3> QED
      BY <1>2, <2>1, <3>1 DEF Begins
  <2>2. CASE ~(i <= Len(rows))
    <3>1. i - Len(rows) \in 1 .. Len(page) /\ Len(rows) + (i - Len(rows)) = i
      BY <1>1, <2>2
    <3>2. page[i - Len(rows)] = line[i]
      BY <3>1 DEF IsPage
    <3> QED
      BY <1>2, <2>2, <3>2
  <2> QED
    BY <2>1, <2>2
<1> QED
  BY <1>2, <1>3, <1>4 DEF Begins

\* A walk that goes on has read the first pages of what its query selects from the
\* table it began with.
WalkOn(w) ==
    /\ DOMAIN w = {"busy", "q", "total", "rows", "table"} /\ w.busy
    /\ w.q \in Asked
    /\ LET table == Loaded(w.q.kind, w.table)
           line == Ordered(table, w.q)
       IN  /\ w.total = Len(line) /\ w.rows \in Seq(table)
           /\ Len(w.rows) = (w.q.page - 1) * w.q.size /\ Begins(w.rows, line)

WalkInv == IF reader.busy THEN WalkOn(reader) ELSE reader.whole

\* A walk begins with no row, at the first page of the table it counted.
LEMMA CountBegins ==
  ASSUME NEW q \in Queries, ListCount(q)
  PROVE  WalkInv'
<1> DEFINE n == NormalizeQuery(q)
           table == Loaded(n.kind, db[q.kind])
           line == Ordered(table, n)
           w == [busy |-> TRUE, q |-> n, total |-> Cardinality(Matched(n)), rows |-> << >>,
                 table |-> db[q.kind]]
<1>1. reader' = w
  BY Zenon DEF ListCount
<1>2. n \in Asked /\ n.page = 1 /\ n.kind = q.kind
  BY Normalised
<1>3. Matched(n) = {r \in table : Selects(n, r)}
  BY <1>2 DEF Matched, Stored
<1>4. Len(line) = Cardinality(Matched(n)) /\ Len(line) \in Nat
  <2> HIDE DEF n
  <2>1. /\ Cardinality({r \in table : Selects(n, r)}) \in Nat
        /\ Len(Ordered(table, n)) = Cardinality({r \in table : Selects(n, r)})
    BY <1>2, OrderedRows
  <2> QED
    BY <1>3, <2>1
<1>5. n.size \in Nat /\ (n.page - 1) * n.size = 0
  <2> HIDE DEF n
  <2>1. n.size \in Nat /\ n.page - 1 = 0
    BY <1>2, AskedPage
  <2> QED
    BY <2>1
<1>6. Begins(<< >>, line)
  <2> HIDE DEF line
  <2> QED
    BY <1>4 DEF Begins
<1> HIDE DEF n
<1>7. WalkOn(w)
  <2>1. /\ w.q = n /\ w.total = Cardinality(Matched(n)) /\ w.rows = << >> /\ w.table = db[q.kind]
        /\ w.busy
    OBVIOUS
  <2>2. Loaded(w.q.kind, w.table) = table /\ Ordered(Loaded(w.q.kind, w.table), w.q) = line
    BY <1>2, <2>1
  <2>3. << >> \in Seq(table) /\ Len(<< >>) = 0
    OBVIOUS
  <2>4. DOMAIN w = {"busy", "q", "total", "rows", "table"}
    OBVIOUS
  <2> HIDE DEF w, line, table
  <2> QED
    BY <1>2, <1>4, <1>5, <1>6, <2>1, <2>2, <2>3, <2>4 DEF WalkOn
<1>8. w.busy
  OBVIOUS
<1> HIDE DEF w
<1> QED
  BY <1>1, <1>7, <1>8 DEF WalkInv

\* A page is read, of the table the walk began with.
LEMMA RowsContinue ==
  ASSUME WalkInv, ListRows
  PROVE  WalkInv'
<1> DEFINE w == reader
           q == w.q
           table == Loaded(q.kind, w.table)
           line == Ordered(table, q)
           page == PgPage(q)
           rows == w.rows \o page
           full == Len(page) = q.size /\ q.page < MaxPage
<1>1. reader.busy /\ WalkOn(w)
  BY DEF ListRows, WalkInv
<1>2. reader' = IF db[q.kind] # w.table THEN Idle
                ELSE IF full THEN [w EXCEPT !.rows = rows, !.q.page = @ + 1]
                ELSE [busy |-> FALSE,
                      whole |-> IsInjective(rows) /\ Len(rows) = Reachable(w.total, q)]
  BY Zenon DEF ListRows
<1>3. CASE db[q.kind] # w.table
  BY <1>2, <1>3 DEF Idle, WalkInv
<1>4. CASE db[q.kind] = w.table
  <2>1. /\ DOMAIN w = {"busy", "q", "total", "rows", "table"} /\ w.busy
        /\ q \in Asked /\ w.total = Len(line) /\ w.rows \in Seq(table)
        /\ Len(w.rows) = (q.page - 1) * q.size /\ Begins(w.rows, line)
    BY <1>1, Zenon DEF WalkOn
  <2>2. page = LimitOffset(line, Len(w.rows), q.size)
    BY <1>4, <2>1 DEF PgPage, Stored
  <2> HIDE DEF w, q, table, line, page, rows, full
  <2>3. /\ q.page \in Nat \ {0} /\ q.page <= MaxPage /\ q.size \in Nat \ {0} /\ MaxPage \in Nat
        /\ Len(w.rows) \in Nat /\ q.page * q.size \in Nat
        /\ q.page * q.size = Len(w.rows) + q.size
    BY <2>1, AskedPage
  <2>4. /\ line \in Seq(table) /\ Len(line) \in Nat
        /\ \A i, j \in 1 .. Len(line) : line[i] = line[j] => i = j
    <3>1. LET total == Cardinality({r \in Loaded(q.kind, w.table) : Selects(q, r)})
          IN  /\ total \in Nat
              /\ Ordered(Loaded(q.kind, w.table), q) \in Seq(Loaded(q.kind, w.table))
              /\ Len(Ordered(Loaded(q.kind, w.table), q)) = total
              /\ \A i, j \in 1 .. total :
                   Ordered(Loaded(q.kind, w.table), q)[i] = Ordered(Loaded(q.kind, w.table), q)[j] => i = j
      BY <2>1, OrderedRows
    <3> QED
      BY <3>1 DEF line, table
  <2>5. page \in Seq(table) /\ IsPage(page, line, Len(w.rows), q.size)
    BY <2>2, <2>3, <2>4, PageRows
  <2>6. /\ rows \in Seq(table) /\ Len(rows) = Len(w.rows) + Len(page) /\ Begins(rows, line)
        /\ Len(page) = IF Len(line) - Len(w.rows) <= q.size THEN Len(line) - Len(w.rows) ELSE q.size
    <3>1. q.size \in Nat /\ Len(w.rows) <= Len(line)
      BY <2>1, <2>3 DEF Begins
    <3>2. rows \in Seq(table) /\ Len(rows) = Len(w.rows) + Len(page) /\ Begins(rows, line)
      <4>1. line \in Seq(table) /\ w.rows \in Seq(table) /\ Begins(w.rows, line)
        BY <2>1, <2>4
      <4> QED
        BY <2>5, <3>1, <4>1, BeginsFurther DEF rows
    <3>3. Len(page) = IF Len(line) - Len(w.rows) <= q.size THEN Len(line) - Len(w.rows) ELSE q.size
      BY <2>5, <3>1 DEF IsPage
    <3> QED
      BY <3>2, <3>3
  <2>7. CASE full
    <3> DEFINE o == [q EXCEPT !.page = q.page + 1]
               x == [w EXCEPT !.rows = rows, !.q = o]
    <3>1. reader' = x
      <4>1. reader' = [w EXCEPT !.rows = rows, !.q.page = @ + 1]
        BY <1>2, <1>4, <2>7
      <4>2. [w EXCEPT !.rows = rows, !.q.page = @ + 1] = x
        BY DEF q
      <4> QED
        BY <4>1, <4>2
    <3>2. /\ o \in Asked /\ o.kind = q.kind /\ o.page = q.page + 1 /\ o.size = q.size
      <4>1. q.page + 1 \in 1 .. MaxPage
        BY <2>3, <2>7 DEF full
      <4> QED
        BY <2>1, <4>1 DEF Asked
    <3>3. Ordered(table, o) = line
      BY <2>1, OrderedAnyPage DEF line
    <3>4. (o.page - 1) * o.size = Len(rows)
      <4>1. o.page - 1 = q.page /\ o.size = q.size
        BY <2>3, <3>2
      <4>2. Len(rows) = q.page * q.size
        BY <2>3, <2>6, <2>7 DEF full
      <4> QED
        BY <4>1, <4>2
    <3> HIDE DEF o
    <3>5. /\ x.q = o /\ x.total = w.total /\ x.rows = rows /\ x.table = w.table /\ x.busy
          /\ DOMAIN x = {"busy", "q", "total", "rows", "table"}
      BY <2>1
    <3>6. Loaded(x.q.kind, x.table) = table
      BY <3>2, <3>5 DEF table
    <3> HIDE DEF x
    <3>7. WalkOn(x)
      BY <2>1, <2>6, <3>2, <3>3, <3>4, <3>5, <3>6 DEF WalkOn
    <3> QED
      BY <3>1, <3>5, <3>7 DEF WalkInv
  <2>8. CASE ~full
    <3>1. reader' = [busy |-> FALSE,
                     whole |-> IsInjective(rows) /\ Len(rows) = Reachable(w.total, q)]
      BY <1>2, <1>4, <2>8
    <3>2. IsInjective(rows)
      <4>1. DOMAIN rows = 1 .. Len(rows) /\ Len(rows) \in Nat /\ Len(rows) <= Len(line)
        BY <2>6 DEF Begins
      <4>2. \A i \in 1 .. Len(rows) : i \in 1 .. Len(line) /\ rows[i] = line[i]
        BY <2>4, <2>6, <4>1 DEF Begins
      <4> QED
        BY <2>4, <4>1, <4>2 DEF IsInjective
    <3>3. Len(rows) = Reachable(w.total, q)
      <4>1. q.page * q.size <= MaxPage * q.size /\ MaxPage * q.size \in Nat
        <5>1. \A p, m, z \in Nat : p <= m => p * z <= m * z /\ m * z \in Nat
          BY Z3
        <5> QED
          BY <2>3, <5>1
      <4>2. CASE Len(page) # q.size
        <5>1. Len(page) = Len(line) - Len(w.rows) /\ Len(line) - Len(w.rows) <= q.size
          BY <2>3, <2>4, <2>6, <4>2
        <5>2. Len(rows) = Len(line) /\ Len(line) <= q.page * q.size
          BY <2>3, <2>4, <2>6, <5>1
        <5> QED
          BY <2>1, <2>3, <2>4, <4>1, <5>2 DEF Reachable
      <4>3. CASE Len(page) = q.size
        <5>1. q.page = MaxPage
          BY <2>3, <2>8, <4>3 DEF full
        <5>2. Len(rows) = MaxPage * q.size /\ Len(rows) <= Len(line)
          BY <2>3, <2>6, <4>3, <5>1 DEF Begins
        <5> QED
          BY <2>1, <2>4, <4>1, <5>2 DEF Reachable
      <4> QED
        BY <4>2, <4>3
    <3> QED
      BY <3>1, <3>2, <3>3 DEF WalkInv
  <2> QED
    BY <2>7, <2>8
<1> QED
  BY <1>3, <1>4

\* A walk shows each matching row once, and all the pages there are; each page is the
\* one the in-memory store would show (WalkWhole).
THEOREM WalkWholeTheorem == Spec => []WalkWhole
<1>1. Init => WalkInv
  BY DEF Init, Idle, WalkInv
<1>2. WalkInv /\ [Next]_vars => WalkInv'
  <2> SUFFICES ASSUME WalkInv, [Next]_vars
               PROVE  WalkInv'
    OBVIOUS
  <2>1. CASE reader' = reader
    BY <2>1 DEF WalkInv
  <2>2. CASE \E q \in Queries : ListCount(q)
    BY <2>2, CountBegins
  <2>3. CASE ListRows
    BY <2>3, RowsContinue
  <2> QED
    BY <2>1, <2>2, <2>3 DEF Next, vars
<1>3. WalkInv => WalkWhole
  <2> SUFFICES ASSUME WalkOn(reader)
               PROVE  PgPage(reader.q) = MemPage(reader.q)
    BY DEF WalkInv, WalkWhole
  <2> DEFINE q == reader.q
             table == Loaded(q.kind, db[q.kind])
             rows == {r \in table : Visible(r, q)}
  <2>1. q \in Asked
    BY DEF WalkOn
  <2> HIDE DEF q
  <2>2. /\ Ordered(table, q) \in Seq(table)
        /\ Sorted(rows, {p \in rows \X rows : Less(p[1], p[2], q)}) = Ordered(table, q)
    BY <2>1, OrderedRows, Zenon
  <2>3. PgPage(q) = LimitOffset(Ordered(table, q), (q.page - 1) * q.size, q.size)
    BY Zenon DEF PgPage, Stored
  <2>4. MemPage(q) = CutPage(Sorted(rows, {p \in rows \X rows : Less(p[1], p[2], q)}), q)
    BY Zenon DEF MemPage, Stored
  <2> HIDE DEF rows, table
  <2>5. PgPage(q) = MemPage(q)
    BY <2>1, <2>2, <2>3, <2>4, SamePage
  <2> QED
    BY <2>5 DEF q
<1> QED
  BY <1>1, <1>2, <1>3, PTL DEF Spec
====
