------------------------------ MODULE VectorStore ------------------------------
(***************************************************************************)
(* The two collections of the vector database (core/vector_store.py), on a *)
(* server several processes share: the API that searches them and a script *)
(* that fills or rebuilds one (scripts/ingest_cve_corpus.py; what          *)
(* ingest_team_history.py inserts is in TeamIngest).  Each process creates *)
(* what is missing in the layout of its own settings, and checks the       *)
(* layout of cve_corpus once.  A vector is its text; similarities are      *)
(* constants.  Creating what is missing and checking it is one step.       *)
(***************************************************************************)
EXTENDS Integers, Sequences, FiniteSets, SequencesExt, Functions, Selection

CONSTANTS
    Corpora,             \* contents of the CVE files: sequences of records
    CodeQueries, Languages,
    DenseSim, SparseSim, \* of a query and a text: the cosine, and the lexical score
    DenseMin, SparseMin, \* SIM_THRESHOLD_CVE, HYBRID_SPARSE_MIN_SCORE
    TwinMin,             \* TWIN_MARGIN_MIN
    AnnCandidates, UpsertBatch,
    NoText, NoMargin,
    MaxFlips, MaxScripts \* bounds: changes of HYBRID_ENABLED, runs of the script

CorpusRecords == UNION {ToSet(corpus) : corpus \in Corpora}

\* A similarity is a number, a threshold is not negative, and the id of a point is one too.
ASSUME VectorInputs ==
    /\ AnnCandidates \in Nat /\ UpsertBatch \in Nat \ {0}
    /\ DenseMin \in Nat /\ SparseMin \in Nat /\ TwinMin \in Int
    /\ \A corpus \in Corpora : corpus \in Seq(CorpusRecords)
    /\ \A r \in CorpusRecords : /\ r.id \in Int
                          /\ r = [id |-> r.id, language |-> r.language, code |-> r.code, fixed |-> r.fixed]
    /\ \A query \in CodeQueries, r \in CorpusRecords : r.code # NoText =>
        /\ DenseSim[query][r.code] \in Int /\ SparseSim[query][r.code] \in Int
        /\ r.fixed # NoText => DenseSim[query][r.fixed] \in Int

VARIABLES
    hybrid,              \* HYBRID_ENABLED, for processes that start from now on
    collections,         \* their layouts and points
    api, script,         \* the processes
    searched,               \* the search the API made last
    flips, scripts

vectorVars == <<hybrid, collections, api, script, searched, flips, scripts>>

Absent == [dense |-> {}, sparse |-> FALSE]
\* The layouts before there was a patched twin, and the layouts of a setting.
PreTwin == [dense |-> {"unnamed"}, sparse |-> FALSE]
LayoutOf(c, isHybrid) ==
    [dense |-> IF c = "cve" THEN {"vuln", "fixed"} ELSE IF isHybrid THEN {"dense"} ELSE {"unnamed"},
     sparse |-> isHybrid]
DenseName(c, isHybrid) == IF c = "cve" THEN "vuln" ELSE IF isHybrid THEN "dense" ELSE "unnamed"

NoApi == [pc |-> "down", hybrid |-> FALSE, error |-> FALSE, fresh |-> FALSE]
NoProcess == [pc |-> "down", hybrid |-> FALSE, error |-> FALSE, todo |-> <<>>, corpus |-> <<>>]
NoSearch == [c |-> "cve", query |-> NoText, language |-> NoText, outcome |-> "none", hits |-> <<>>]

VectorsInit ==
    /\ hybrid \in BOOLEAN
    /\ \E old \in {Absent, PreTwin} :
        collections = [c \in {"cve", "team"} |->
            [layout |-> IF c = "cve" THEN old ELSE Absent, points |-> <<>>]]
    /\ api = NoApi /\ script = NoProcess
    /\ searched = NoSearch /\ flips = 0 /\ scripts = 0

Created(isHybrid) ==
    [c \in DOMAIN collections |-> IF collections[c].layout # Absent THEN collections[c]
                                  ELSE [layout |-> LayoutOf(c, isHybrid), points |-> <<>>]]
\* _check_cve_schema
SchemaError(colls, isHybrid) ==
    \/ ~({"vuln", "fixed"} \subseteq colls["cve"].layout.dense)
    \/ isHybrid /\ ~colls["cve"].layout.sparse

\* The operator changes the setting, for processes that start later.
FlipHybrid ==
    /\ flips < MaxFlips /\ hybrid' = ~hybrid /\ flips' = flips + 1
    /\ UNCHANGED <<collections, api, script, searched, scripts>>

\* VectorStore(): _init_collections.
StartApi ==
    /\ api.pc = "down"
    /\ collections' = Created(hybrid)
    /\ api' = [api EXCEPT !.pc = "up", !.hybrid = hybrid, !.error = SchemaError(Created(hybrid), hybrid),
                          !.fresh = TRUE]
    /\ searched' = NoSearch /\ UNCHANGED <<hybrid, script, flips, scripts>>
StopApi ==
    /\ api.pc = "up" /\ api' = NoApi /\ searched' = NoSearch
    /\ UNCHANGED <<hybrid, collections, script, flips, scripts>>

\* main of ingest_cve_corpus: with an old layout it goes on only to rebuild it.
StartScript(recreate) ==
    /\ script.pc \in {"down", "done"} /\ scripts < MaxScripts
    /\ LET error == SchemaError(Created(hybrid), hybrid) IN
        /\ collections' = Created(hybrid)
        /\ script' = IF error /\ ~recreate THEN NoProcess
                     ELSE [NoProcess EXCEPT !.pc = IF recreate THEN "drop" ELSE "load",
                                            !.hybrid = hybrid, !.error = error]
    /\ scripts' = scripts + 1
    /\ searched' = NoSearch /\ UNCHANGED <<hybrid, api, flips>>

\* recreate_collection: delete ...
DropCollection ==
    /\ script.pc = "drop"
    /\ collections' = [collections EXCEPT !["cve"] = [layout |-> Absent, points |-> <<>>]]
    /\ api' = [api EXCEPT !.fresh = FALSE] /\ script' = [script EXCEPT !.pc = "create"]
    /\ searched' = NoSearch /\ UNCHANGED <<hybrid, flips, scripts>>
\* ... and create, unless a process that started meanwhile has.
CreateCollection ==
    /\ script.pc = "create"
    /\ collections' = Created(script.hybrid)
    /\ script' = [script EXCEPT !.pc = "load", !.error = SchemaError(Created(script.hybrid), script.hybrid)]
    /\ searched' = NoSearch /\ UNCHANGED <<hybrid, api, flips, scripts>>

\* prepare_records: a record without code is skipped, the last of an id is taken, at its place;
\* a twin that is the vulnerable code again is none.
Prepared(corpus) ==
    LET usable == {i \in DOMAIN corpus : corpus[i].code # NoText}
        last == {i \in usable : \A j \in usable : j > i => corpus[j].id # corpus[i].id}
        records == Picked(corpus, last)
    IN  [k \in DOMAIN records |->
            [records[k] EXCEPT !.fixed = IF @ = records[k].code THEN NoText ELSE @]]
\* The texts embed_pairs embeds in one batch: the codes, and the fixes there are.
WithFix(records) == {i \in DOMAIN records : records[i].fixed # NoText}
BatchOf(records) ==
    [i \in DOMAIN records |-> records[i].code] \o
    Picked([i \in DOMAIN records |-> records[i].fixed], WithFix(records))
\* Mutant: the vectors of the fixes in the order of the records.
EmbedPairsInOrder(records) ==
    [i \in DOMAIN records |-> [records[i] EXCEPT
        !.code = BatchOf(records)[i],
        !.fixed = IF i > Cardinality(WithFix(records)) THEN NoText ELSE BatchOf(records)[Len(records) + i]]]
\* embed_pairs: their vectors go back to the records they came from.
EmbedPairs(records) ==
    [i \in DOMAIN records |-> [records[i] EXCEPT
        !.code = BatchOf(records)[i],
        !.fixed = IF @ = NoText THEN NoText
                  ELSE BatchOf(records)[Len(records) + Cardinality({j \in WithFix(records) : j <= i})]]]

\* insert_cves refuses the layout its process found unfit.
LoadRecords ==
    /\ script.pc = "load"
    /\ \E corpus \in Corpora :
        script' = IF script.error THEN NoProcess
                  ELSE [script EXCEPT !.pc = "insert", !.corpus = corpus, !.todo = EmbedPairs(Prepared(corpus))]
    /\ UNCHANGED <<hybrid, collections, api, searched, flips, scripts>>

\* _insert: a batch of upserts, which the database refuses in a collection without their vectors.
Fits(layout) == "vuln" \in layout.dense /\ (script.hybrid => layout.sparse)
UpsertPoints ==
    /\ script.pc = "insert" /\ script.todo # <<>>
    /\ LET n == Min({UpsertBatch, Len(script.todo)})
           batch == SubSeq(script.todo, 1, n)
           at(id) == batch[CHOOSE i \in 1..n : batch[i].id = id]
           ids == {batch[i].id : i \in 1..n}
           old == collections["cve"].points
       IN  IF Fits(collections["cve"].layout)
           THEN /\ collections' = [collections EXCEPT !["cve"].points =
                      [id \in ids \cup DOMAIN old |-> IF id \in ids THEN at(id) ELSE old[id]]]
                /\ script' = [script EXCEPT !.todo = SubSeq(@, n + 1, Len(@))]
           ELSE script' = NoProcess /\ UNCHANGED collections
    /\ searched' = NoSearch /\ UNCHANGED <<hybrid, api, flips, scripts>>
EndScript ==
    /\ script.pc = "insert" /\ script.todo = <<>> /\ script' = [script EXCEPT !.pc = "done"]
    /\ UNCHANGED <<hybrid, collections, api, searched, flips, scripts>>
\* The script is interrupted.
KillScript ==
    /\ script.pc \notin {"down", "done"} /\ script' = NoProcess
    /\ UNCHANGED <<hybrid, collections, api, searched, flips, scripts>>

\* The best n of some points by a score that reaches a minimum.
Best(score, least, n) ==
    LET good == {p \in DOMAIN score : score[p] >= least}
        order == Ranked(good, LAMBDA p, q : score[p] > score[q] \/ (score[p] = score[q] /\ p.id < q.id))
    IN  [k \in 1..Min({n, Cardinality(good)}) |-> order[k]]
\* Reciprocal rank fusion of two lists, as the database does it.
RankShare(list, p) == IF Contains(list, p) THEN 60 \div (1 + CHOOSE i \in DOMAIN list : list[i] = p) ELSE 0
Fused(dense, sparse, n) ==
    Best([p \in ToSet(dense) \cup ToSet(sparse) |-> RankShare(dense, p) + RankShare(sparse, p)], 0, n)

TwinMargin(query, p) ==
    IF p.fixed = NoText THEN NoMargin ELSE DenseSim[query][p.code] - DenseSim[query][p.fixed]
\* _search, and the gates of CVERetriever.rerank_candidates.
Among(points, language) == {p \in points : language \in {NoText, p.language}}
Found(points, isHybrid, query, language) ==
    LET dense == [p \in Among(points, language) |-> DenseSim[query][p.code]]
        sparse == [p \in Among(points, language) |-> SparseSim[query][p.code]]
        nearest == Best(dense, 0, AnnCandidates)
    IN  IF isHybrid
        THEN Fused(Best(dense, DenseMin, AnnCandidates), Best(sparse, SparseMin, AnnCandidates),
                   AnnCandidates)
        ELSE Picked(nearest, {k \in DOMAIN nearest : dense[nearest[k]] >= DenseMin})
Passes(margin) == margin = NoMargin \/ margin >= TwinMin
Hits(points, isHybrid, query, language) ==
    LET found == Found(points, isHybrid, query, language)
        hits == [k \in DOMAIN found |-> [point |-> found[k], margin |-> TwinMargin(query, found[k])]]
    IN  Picked(hits, {k \in DOMAIN hits : Passes(hits[k].margin)})

\* search_cves, search_team_history: a search the collection has no vectors for fails in the database.
Outcome(c) ==
    LET layout == collections[c].layout IN
    IF c = "cve" /\ api.error THEN "refused"
    ELSE IF DenseName(c, api.hybrid) \notin layout.dense \/ (api.hybrid /\ ~layout.sparse) THEN "broken"
    ELSE "hits"
Search(c, query, language) ==
    /\ api.pc = "up"
    /\ c = "team" => language = NoText
    /\ searched' = [c |-> c, query |-> query, language |-> language, outcome |-> Outcome(c),
                 hits |-> IF c = "cve" /\ Outcome(c) = "hits"
                          THEN Hits(Range(collections[c].points), api.hybrid, query, language) ELSE <<>>]
    /\ UNCHANGED <<hybrid, collections, api, script, flips, scripts>>

VectorsNext ==
    \/ FlipHybrid \/ StartApi \/ StopApi
    \/ \E recreate \in BOOLEAN : StartScript(recreate)
    \/ DropCollection \/ CreateCollection \/ LoadRecords \/ UpsertPoints \/ EndScript \/ KillScript
    \/ \E c \in DOMAIN collections, q \in CodeQueries, l \in Languages \cup {NoText} : Search(c, q, l)
------------------------------------------------------------------------------
\* A search for CVEs never fails for a layout nobody told of, unless the collection was rebuilt
\* under the running process, and the process refuses only a layout it cannot use; what a search
\* finds is of the language asked for, and it leaves out a match only when it has more than it
\* may return; the code and the fix of a point, and so its margin, are of one record; and a script
\* that ends leaves the last of each record (_check_cve_schema, _search, embed_pairs).
SearchesHold ==
    /\ searched.c = "cve" /\ api.fresh => searched.outcome # "broken"
    /\ api.pc = "up" /\ api.fresh => (api.error <=> Outcome("cve") # "hits")
    /\ \A k \in DOMAIN searched.hits :
          LET h == searched.hits[k] IN
          /\ searched.language \in {NoText, h.point.language}
          /\ \E corpus \in Corpora : \E r \in ToSet(corpus) :
                /\ r.id = h.point.id /\ r.code = h.point.code
                /\ h.margin = IF r.fixed \in {NoText, r.code} THEN NoMargin
                              ELSE DenseSim[searched.query][r.code] - DenseSim[searched.query][r.fixed]
          /\ \A j \in 1..(k - 1) : searched.hits[j].point.id # h.point.id
    /\ searched.outcome = "hits" /\ searched.c = "cve" =>
          LET passing == {p \in Among(Range(collections["cve"].points), searched.language) :
                  \/ DenseSim[searched.query][p.code] >= DenseMin
                  \/ api.hybrid /\ SparseSim[searched.query][p.code] >= SparseMin}
              hits == {searched.hits[k].point : k \in DOMAIN searched.hits}
          IN  /\ hits \subseteq passing
              /\ \A p \in passing \ hits : Passes(TwinMargin(searched.query, p))
                    => Cardinality(passing) > AnnCandidates
    /\ script.pc = "done" => \A i \in DOMAIN script.corpus :
          LET r == script.corpus[i]
              later == {j \in DOMAIN script.corpus : j > i /\ script.corpus[j].id = r.id
                                                     /\ script.corpus[j].code # NoText}
          IN  r.code # NoText /\ later = {} =>
                  r.id \in DOMAIN collections["cve"].points /\ collections["cve"].points[r.id].code = r.code
==============================================================================
