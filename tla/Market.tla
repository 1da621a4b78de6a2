------------------------------- MODULE Market -------------------------------
(***************************************************************************)
(* The copy of the shipped ModelScope snapshot into the store at the start *)
(* of every replica (internal/msmarket), and the catalog pages read from   *)
(* the copy (internal/store/pgstore, internal/store/memstore).             *)
(*                                                                         *)
(* A replica replaces the three tables in three transactions, records the  *)
(* hash of the snapshot, empties the record of the skill text, fills the   *)
(* text in batches and records its hash. Replicas install at the same      *)
(* time, a rollout brings another version, and a replica may stop or fail  *)
(* before each step. A reader walks the pages of a query meanwhile.        *)
(***************************************************************************)
EXTENDS Integers, Sequences, FiniteSets, SequencesExt

CONSTANTS
    Replicas,
    Versions,      \* versions of the program: positive numbers
    Dirs,          \* whether a start may find the catalog directory: a set of BOOLEAN
    Snapshot,      \* version -> the embedded rows [skills, mcp, agents], sets of records
    TextBatches,   \* the text sidecar: a sequence of sets of skill ids
    Icons,         \* urls of the icon sidecar
    Queries,       \* what the reader may ask for, but for the page
    MaxStarts,     \* bound on starts of replicas
    DefaultSize, MaxSize, MaxPage   \* 24 or 30, 48 and 10000

ASSUME PageAssumption ==
    /\ DefaultSize \in Nat \ {0} /\ MaxSize \in Nat \ {0} /\ MaxPage \in Nat \ {0}
    /\ DefaultSize <= MaxSize

\* Version 0 is a store that holds nothing.
ASSUME InstallAssumption ==
    /\ Replicas # {} /\ Versions \subseteq Nat \ {0} /\ Dirs \subseteq BOOLEAN
    /\ TextBatches \in Seq({TextBatches[i] : i \in DOMAIN TextBatches})

VARIABLES
    db,        \* the versions of the three tables and of the records, the text and the icons
    run,       \* the install of each replica, ok or ended when it is over
    starts,    \* starts so far
    mixed,     \* two versions overlapped, or one followed another that had not ended
    torn,      \* a replica stopped with the text gone and the snapshot recorded
    reader     \* a walk through the pages of a query

installVars == <<db, run, starts, mixed, torn>>
vars == <<installVars, reader>>

-----------------------------------------------------------------------------
(* What is in the snapshot.                                                *)

\* A row whose id is not its handle and slug, or that has no name, is left out.
LoadSkills(v) == {[r EXCEPT !.source = IF @ = "nexa" THEN @ ELSE "common"] : r \in
                     {s \in Snapshot[v].skills : s.ok}}

LoadAgents(v) == {r \in Snapshot[v].agents : r.ok}

\* A text is the number of times a scheme is nested in it: dropping the schemes
\* of "hthttp://tp://" leaves one.
DropURLs(text) == IF text = 0 THEN 0 ELSE text - 1

ContainsURL(text) == text > 0

\* A row with a URL on its card, or with one left in its page, refuses the snapshot.
McpRefused(v) ==
    \/ Snapshot[v].mcp = {}
    \/ \E r \in Snapshot[v].mcp : ContainsURL(r.card) \/ ContainsURL(DropURLs(r.readme))

LoadMcp(v) == {[r EXCEPT !.readme = DropURLs(@)] : r \in Snapshot[v].mcp}

\* What a table holds; before the first install nothing.
Loaded(kind, v) ==
    IF v \notin Versions THEN {}
    ELSE CASE kind = "skills" -> LoadSkills(v)
           [] kind = "mcp"    -> LoadMcp(v)
           [] kind = "agents" -> LoadAgents(v)

\* The columns the lists read: skillRow and agentRow, mcpMarketServerRow. What is
\* compared by size is a number, the id by its collation; any source but the two
\* that are kept is "other".
CardRow == [id : Int, ok : BOOLEAN, category : STRING, source : {"common", "nexa", "other"},
            downloads : Int, likes : Int, updated_at : Int, hits : SUBSET STRING,
            catalogues : SUBSET STRING]

ServerRow == [id : Int, category : STRING, source : STRING, card : Nat, readme : Nat,
              online : BOOLEAN, hosted : BOOLEAN, rank : Int, hits : SUBSET STRING]

\* The id is the primary key of each table.
ASSUME RowsAssumption ==
    \A v \in Versions :
        /\ Snapshot[v].skills \subseteq CardRow /\ Snapshot[v].agents \subseteq CardRow
        /\ Snapshot[v].mcp \subseteq ServerRow
        /\ IsFiniteSet(Snapshot[v].skills) /\ IsFiniteSet(Snapshot[v].agents)
        /\ IsFiniteSet(Snapshot[v].mcp)
        /\ \A kind \in {"skills", "mcp", "agents"} :
             \A r, s \in Loaded(kind, v) : r.id = s.id => r = s

-----------------------------------------------------------------------------
(* The install of one replica.                                             *)

Installing(r) == run[r].pc \notin {"ended", "ok"}

Goto(r, pc) == run' = [run EXCEPT ![r].pc = pc]

At(pc, v, dir) == [pc |-> pc, v |-> v, dir |-> dir, force |-> FALSE, batch |-> 1, erred |-> FALSE]

\* InstallAll is over, well or not.
Ends(r) ==
    run' = [run EXCEPT ![r] = IF @.erred THEN At("ended", 0, FALSE) ELSE At("ok", @.v, @.dir)]

NoText == [id \in UNION {TextBatches[i] : i \in DOMAIN TextBatches} |-> FALSE]

\* The reader, and whether the last walk to the end showed what it promised.
Idle == [busy |-> FALSE, whole |-> TRUE]

Init ==
    /\ db = [skills |-> 0, mcp |-> 0, agents |-> 0, snap |-> 0, text |-> NoText,
             textRec |-> FALSE, icons |-> {}, iconRec |-> FALSE]
    /\ run = [r \in Replicas |-> At("ended", 0, FALSE)]
    /\ starts = 0 /\ mixed = FALSE /\ torn = FALSE
    /\ reader = Idle

\* A replica starts, with or without a catalog directory that holds the sidecars.
Start(r, v, dir) ==
    /\ ~Installing(r) /\ starts < MaxStarts
    /\ run' = [run EXCEPT ![r] = At("check", v, dir)]
    /\ starts' = starts + 1
    /\ mixed' = (\/ mixed \/ db.skills \notin {db.snap, v}
                 \/ \E q \in Replicas \ {r} : Installing(q) /\ run[q].v # v)
    /\ UNCHANGED <<db, torn>>

\* installEmbedded: nothing to do for the recorded version; every part is loaded
\* before the first is stored.
CheckSnapshot(r) ==
    /\ run[r].pc = "check"
    /\ \/ db.snap = run[r].v /\ Goto(r, "textCheck")
       \/ db.snap # run[r].v /\ ~McpRefused(run[r].v) /\ Goto(r, "skills")
       \/ /\ db.snap # run[r].v /\ McpRefused(run[r].v)
          /\ run' = [run EXCEPT ![r] = At("ended", 0, FALSE)]
    /\ UNCHANGED <<db, starts, mixed, torn>>

\* ReplaceSkills: the rows are deleted and inserted, so their text is gone.
ReplaceSkills(r) ==
    /\ run[r].pc = "skills"
    /\ db' = [db EXCEPT !.skills = run[r].v, !.text = NoText]
    /\ Goto(r, "mcp")
    /\ UNCHANGED <<starts, mixed, torn>>

ReplaceMcpMarket(r) ==
    /\ run[r].pc = "mcp"
    /\ db' = [db EXCEPT !.mcp = run[r].v]
    /\ Goto(r, "agents")
    /\ UNCHANGED <<starts, mixed, torn>>

ReplaceAgents(r) ==
    /\ run[r].pc = "agents"
    /\ db' = [db EXCEPT !.agents = run[r].v]
    /\ Goto(r, "record")
    /\ UNCHANGED <<starts, mixed, torn>>

RecordSnapshot(r) ==
    /\ run[r].pc = "record"
    /\ db' = [db EXCEPT !.snap = run[r].v]
    /\ Goto(r, "clearText")
    /\ UNCHANGED <<starts, mixed, torn>>

\* Mutation of ClearTextRecord: the text record is left as it was.
ClearTextRecordKept(r) ==
    /\ run[r].pc = "clearText"
    /\ Goto(r, "textCheck")
    /\ UNCHANGED <<db, starts, mixed, torn>>

ClearTextRecord(r) ==
    /\ run[r].pc = "clearText"
    /\ db' = [db EXCEPT !.textRec = FALSE]
    /\ run' = [run EXCEPT ![r].pc = "textCheck", ![r].force = TRUE]
    /\ UNCHANGED <<starts, mixed, torn>>

\* installSkillText: skipped without the sidecar, or when its hash is recorded.
CheckText(r) ==
    /\ run[r].pc = "textCheck"
    /\ Goto(r, IF run[r].dir /\ (run[r].force \/ ~db.textRec) THEN "text" ELSE "icons")
    /\ UNCHANGED <<db, starts, mixed, torn>>

\* SaveSkillTextFilesBatch: ids the catalog does not have update nothing.
SaveTextBatch(r) ==
    /\ run[r].pc = "text" /\ run[r].batch \in DOMAIN TextBatches
    /\ db' = [db EXCEPT !.text = [id \in DOMAIN @ |->
                  \/ @[id]
                  \/ /\ id \in TextBatches[run[r].batch]
                     /\ \E s \in LoadSkills(db.skills) : s.id = id]]
    /\ run' = [run EXCEPT ![r].batch = @ + 1]
    /\ UNCHANGED <<starts, mixed, torn>>

RecordText(r) ==
    /\ run[r].pc = "text" /\ run[r].batch \notin DOMAIN TextBatches
    /\ db' = [db EXCEPT !.textRec = TRUE]
    /\ Goto(r, "icons")
    /\ UNCHANGED <<starts, mixed, torn>>

\* installIcons only adds; one batch stands for all of them.
InstallIcons(r) ==
    /\ run[r].pc = "icons"
    /\ db' = IF run[r].dir /\ ~db.iconRec THEN [db EXCEPT !.icons = @ \cup Icons] ELSE db
    /\ IF run[r].dir /\ ~db.iconRec THEN Goto(r, "iconRecord") ELSE Ends(r)
    /\ UNCHANGED <<starts, mixed, torn>>

RecordIcons(r) ==
    /\ run[r].pc = "iconRecord"
    /\ db' = [db EXCEPT !.iconRec = TRUE]
    /\ Ends(r)
    /\ UNCHANGED <<starts, mixed, torn>>

\* The replica wiped the text and nobody would fill it again: the snapshot is
\* recorded, and the text is, or another replica may record it.
TearsText(r) ==
    /\ \/ run[r].pc \in {"mcp", "agents", "record", "clearText"}
       \/ run[r].pc \in {"textCheck", "text"} /\ run[r].force
    /\ db.snap = run[r].v
    /\ db.textRec \/ \E q \in Replicas \ {r} : Installing(q)

\* The replica stops, or a call to the store fails. InstallAll gives up, but for
\* a failure in the text, after which the icons are still tried.
Stop(r) ==
    /\ Installing(r)
    /\ \/ run' = [run EXCEPT ![r] = At("ended", 0, FALSE)]
       \/ /\ run[r].pc \in {"textCheck", "text"}
          /\ run' = [run EXCEPT ![r].pc = "icons", ![r].erred = TRUE]
    /\ torn' = (torn \/ TearsText(r))
    /\ UNCHANGED <<db, starts, mixed>>

InstallStep(r) ==
    \/ \E v \in Versions, dir \in Dirs : Start(r, v, dir)
    \/ CheckSnapshot(r) \/ ReplaceSkills(r) \/ ReplaceMcpMarket(r) \/ ReplaceAgents(r)
    \/ RecordSnapshot(r) \/ ClearTextRecord(r)
    \/ CheckText(r) \/ SaveTextBatch(r) \/ RecordText(r)
    \/ InstallIcons(r) \/ RecordIcons(r) \/ Stop(r)

-----------------------------------------------------------------------------
(* The catalog pages.                                                      *)

Clamp(q) ==
    [q EXCEPT !.page = IF @ < 1 THEN 1 ELSE IF @ > MaxPage THEN MaxPage ELSE @,
              !.size = IF @ < 1 THEN DefaultSize ELSE IF @ > MaxSize THEN MaxSize ELSE @]

Known(value, values) == IF value \in values THEN value ELSE ""

\* likes stands for an agent's stars as well.
Sorts == {"downloads", "likes", "updated_at"}

\* Values a store does not know are dropped; the page and its size are clamped.
NormalizeSkillQuery(q) ==
    [Clamp(q) EXCEPT !.sort = IF @ \in Sorts THEN @ ELSE "downloads",
                     !.source = Known(@, {"common", "nexa"})]

NormalizeMcpMarketQuery(q) ==
    [Clamp(q) EXCEPT !.source = Known(@, {"common", "nexa"}),
                     !.online = Known(@, {"true", "false"}),
                     !.service = Known(@, {"hosted", "local"})]

NormalizeAgentQuery(q) ==
    [Clamp(q) EXCEPT !.sort = IF @ \in Sorts THEN @ ELSE "downloads"]

\* SkillCatalogQuery, McpMarketQuery and AgentCatalogQuery as a caller sends them.
Query == [kind : {"skills", "mcp", "agents"}, category : STRING, keyword : BOOLEAN,
          page : Int, size : Int, sort : STRING, source : STRING, online : STRING,
          service : STRING]

\* A walk starts at the first page.
ASSUME QueryAssumption == \A q \in Queries : q \in Query /\ q.page <= 1

NormalizeQuery(q) ==
    CASE q.kind = "skills" -> NormalizeSkillQuery(q)
      [] q.kind = "mcp"    -> NormalizeMcpMarketQuery(q)
      [] q.kind = "agents" -> NormalizeAgentQuery(q)

\* The columns a keyword is looked for in.
CardHit(r) == r.hits \cap {"name", "description", "description_en", "readme"} # {}
SkillHit(r) == r.hits \cap {"name", "description", "description_en"} # {}
MarketHit(r) == r.hits \cap {"name", "author", "summary", "category"} # {}

Stored(kind) == Loaded(kind, db[kind])

(* memstore: a row is visible, or not; one row is less than another.       *)

SkillVisible(r, q) ==
    /\ q.category # "" => r.category = q.category
    /\ q.source # "" => r.source = q.source
    /\ q.keyword => SkillHit(r)

NeedsOnlineOK(r, online) == (online = "true" => r.online) /\ (online = "false" => ~r.online)

MarketVisible(r, q) ==
    /\ q.category # "" => r.category = q.category
    /\ q.source # "" => r.source = q.source
    /\ q.service = "hosted" => r.hosted
    /\ q.service = "local" => ~r.hosted
    /\ q.keyword => MarketHit(r)

AgentVisible(r, q) ==
    /\ q.category # "" => q.category \in r.catalogues
    /\ q.keyword => CardHit(r)

\* The most downloaded, liked or recent first; ties by id.
SkillLess(a, b, q) == IF a[q.sort] # b[q.sort] THEN a[q.sort] > b[q.sort] ELSE a.id < b.id

AgentLess(a, b, q) == SkillLess(a, b, q)

NameHit(r) == r.hits \cap {"name", "author"} # {}

\* Servers whose name or author matches the keyword first, then by rank; ties by id.
MarketLess(a, b, q) ==
    IF q.keyword /\ NameHit(a) # NameHit(b) THEN NameHit(a)
    ELSE IF a.rank # b.rank THEN a.rank < b.rank ELSE a.id < b.id

CutPage(sorted, q) ==
    LET cut(n) == IF n > Len(sorted) THEN Len(sorted) ELSE n
    IN SubSeq(sorted, cut((q.page - 1) * q.size) + 1, cut(q.page * q.size))

\* The rows in an order, which is a set of pairs: before the n-th row are n - 1.
Sorted(rows, before) ==
    [n \in 1 .. Cardinality(rows) |->
        CHOOSE r \in rows : Cardinality({s \in rows : <<s, r>> \in before}) = n - 1]

Visible(r, q) ==
    CASE q.kind = "skills" -> SkillVisible(r, q)
      [] q.kind = "agents" -> AgentVisible(r, q)
      [] q.kind = "mcp"    -> NeedsOnlineOK(r, q.online) /\ MarketVisible(r, q)

Less(a, b, q) ==
    CASE q.kind = "skills" -> SkillLess(a, b, q)
      [] q.kind = "agents" -> AgentLess(a, b, q)
      [] q.kind = "mcp"    -> MarketLess(a, b, q)

\* What is visible is sorted, and the page is cut out.
MemPage(q) ==
    LET rows == {r \in Stored(q.kind) : Visible(r, q)}
    IN CutPage(Sorted(rows, {p \in rows \X rows : Less(p[1], p[2], q)}), q)

(* pgstore: the rows a filter selects, ORDER BY, LIMIT and OFFSET.         *)

SkillFilter(r, q) ==
    /\ q.category \in {"", r.category} /\ q.source \in {"", r.source}
    /\ q.keyword => SkillHit(r)

AgentFilter(r, q) == (q.category = "" \/ q.category \in r.catalogues) /\ (q.keyword => CardHit(r))

McpMarketFilter(r, q) ==
    /\ q.online \in {"", IF r.online THEN "true" ELSE "false"}
    /\ q.category \in {"", r.category} /\ q.source \in {"", r.source}
    /\ q.service \in {"", IF r.hosted THEN "hosted" ELSE "local"}
    /\ q.keyword => MarketHit(r)

Selects(q, r) ==
    CASE q.kind = "skills" -> SkillFilter(r, q)
      [] q.kind = "mcp"    -> McpMarketFilter(r, q)
      [] q.kind = "agents" -> AgentFilter(r, q)

Matched(q) == {r \in Stored(q.kind) : Selects(q, r)}

SkillOrder(r, q) == << -r[q.sort], r.id >>

AgentOrder(r, q) == << -r[q.sort], r.id >>

MarketOrder(r, q) == IF q.keyword THEN <<IF NameHit(r) THEN 0 ELSE 1, r.rank, r.id>> ELSE <<r.rank, r.id>>

OrderBy(r, q) ==
    CASE q.kind = "skills" -> SkillOrder(r, q)
      [] q.kind = "mcp"    -> MarketOrder(r, q)
      [] q.kind = "agents" -> AgentOrder(r, q)

Precedes(k, l) == \E i \in DOMAIN k : k[i] < l[i] /\ \A j \in 1 .. i - 1 : k[j] = l[j]

LimitOffset(rows, offset, limit) ==
    [i \in 1 .. Cardinality({j \in DOMAIN rows : j > offset /\ j <= offset + limit}) |-> rows[offset + i]]

\* The selected rows of a table in the order of the query.
Ordered(table, q) ==
    LET rows == {r \in table : Selects(q, r)}
    IN Sorted(rows, {p \in rows \X rows : Precedes(OrderBy(p[1], q), OrderBy(p[2], q))})

\* Mutation of PgPage: the offset counts pages from zero.
PgPageFromZero(q) == LimitOffset(Ordered(Stored(q.kind), q), q.page * q.size, q.size)

PgPage(q) == LimitOffset(Ordered(Stored(q.kind), q), (q.page - 1) * q.size, q.size)

\* The total is counted by a statement of its own, before the rows are read.
ListCount(q) ==
    /\ ~reader.busy
    /\ reader' = [busy |-> TRUE, q |-> NormalizeQuery(q), total |-> Cardinality(Matched(NormalizeQuery(q))),
                  rows |-> << >>, table |-> db[q.kind]]
    /\ UNCHANGED installVars

\* Pages beyond MaxPage cannot be asked for.
Reachable(total, q) == IF total <= MaxPage * q.size THEN total ELSE MaxPage * q.size

\* The next page of the walk; a page that is not full is the last, and a walk
\* that met another snapshot is given up.
ListRows ==
    /\ reader.busy
    /\ LET rows == reader.rows \o PgPage(reader.q)
           full == Len(PgPage(reader.q)) = reader.q.size /\ reader.q.page < MaxPage
       IN reader' = IF db[reader.q.kind] # reader.table THEN Idle
                    ELSE IF full THEN [reader EXCEPT !.rows = rows, !.q.page = @ + 1]
                    ELSE [busy |-> FALSE,
                          whole |-> IsInjective(rows) /\ Len(rows) = Reachable(reader.total, reader.q)]
    /\ UNCHANGED installVars

\* Mutation of CategoryCount: the labels are counted without the filter.
CategoryCountAll(key, online) == Cardinality({r \in Stored("mcp") : r.category = key})

\* ListMcpMarketCategories: the number beside a label of the sidebar.
CategoryCount(key, online) ==
    Cardinality({r \in Stored("mcp") : /\ r.category = key
                                       /\ CASE online = "true"  -> r.online
                                            [] online = "false" -> ~r.online
                                            [] OTHER            -> TRUE})

\* The same of the in-memory store.
MemCategoryCount(key, online) ==
    Cardinality({r \in Stored("mcp") : NeedsOnlineOK(r, online) /\ r.category = key})

Next ==
    \/ \E r \in Replicas : InstallStep(r) /\ UNCHANGED reader
    \/ \E q \in Queries : ListCount(q)
    \/ ListRows

Spec == Init /\ [][Next]_vars

-----------------------------------------------------------------------------
(* Properties.                                                             *)

\* Every skill the sidecar has text for shows it.
TextWhole == \A s \in LoadSkills(db.skills) : s.id \in DOMAIN db.text => db.text[s.id]

\* Everyone has installed to the end, with the sidecars.
Settled == \A r \in Replicas : run[r].pc = "ok" /\ run[r].dir

\* After InstallAll has ended everywhere, the three tables are the ones of the
\* version, with their text and icons, however installs overlapped, stopped and
\* began again; versions did not overlap, and none stopped
\* where TearsText says so.
InstallWhole ==
    (Settled /\ ~mixed /\ ~torn)
        => /\ \E r \in Replicas : {db.skills, db.mcp, db.agents, db.snap} = {run[r].v}
           /\ TextWhole /\ Icons \subseteq db.icons

\* After InstallAll has ended everywhere with one version, its text is there: a
\* replacement, which wipes the text, forces a text re-apply (installEmbedded).
TextRefilled == (Settled /\ ~mixed) => TextWhole

\* A walk through the pages (ListSkillCatalog, ListMcpMarket, ListAgentCatalog)
\* shows each matching row once and as many as the total says, or as there are
\* pages, if no snapshot was stored meanwhile; and each page is the one the in-memory store would show.
WalkWhole ==
    IF reader.busy THEN PgPage(reader.q) = MemPage(reader.q)
    ELSE reader.whole

\* The number beside a label of the plaza's sidebar is the total of the list it
\* opens, in either store (ListMcpMarketCategories, ListMcpMarket).
SidebarCounts ==
    \A key \in {r.category : r \in Stored("mcp")} \ {""}, online \in {"", "true", "false"} :
        LET total == Cardinality(Matched([kind |-> "mcp", category |-> key, online |-> online,
                                          service |-> "", source |-> "", keyword |-> FALSE]))
        IN CategoryCount(key, online) = total /\ MemCategoryCount(key, online) = total
=============================================================================
