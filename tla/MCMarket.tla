------------------------------ MODULE MCMarket ------------------------------
(* Market with two versions of the snapshot, whose second adds a skill and *)
(* a server, and a text sidecar of two batches.                            *)
EXTENDS Market, TLC

MCSymmetry == Permutations(Replicas)

Card(id, source, downloads) ==
    [id |-> id, ok |-> TRUE, category |-> "dev", source |-> source, downloads |-> downloads,
     likes |-> id % 2, updated_at |-> 1, hits |-> IF id = 1 THEN {"description_en"} ELSE {"name"},
     catalogues |-> {"dev"}]

Server(id, online, hits) ==
    [id |-> id, category |-> "search", source |-> "common", card |-> 0, readme |-> id % 2,
     online |-> online, hosted |-> TRUE, rank |-> id, hits |-> hits]

MCSnapshot ==
    [v \in 1 .. 2 |->
        [skills |-> {Card(1, "nexa", 3), Card(2, "other", 3), [Card(9, "nexa", 9) EXCEPT !.ok = FALSE]}
                      \cup IF v = 1 THEN {} ELSE {Card(3, "common", 5)},
         mcp |-> {Server(1, TRUE, {"summary"}), Server(2, FALSE, {"name"})}
                   \cup IF v = 1 THEN {} ELSE {Server(3, TRUE, {"name"})},
         agents |-> {Card(1, "common", 1), Card(2, "common", 2)}]]

MCTextBatches == <<{1}, {2, 7}>>

Ask(kind, category, keyword, size) ==
    [kind |-> kind, category |-> category, keyword |-> keyword, page |-> 0, size |-> size,
     sort |-> "likes", source |-> "?", online |-> "true", service |-> "hosted"]

MCQueries == {Ask("skills", "", FALSE, 2), [Ask("mcp", "search", TRUE, 9) EXCEPT !.online = "?"],
              Ask("agents", "dev", TRUE, 0)}
=============================================================================
