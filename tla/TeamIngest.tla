------------------------------ MODULE TeamIngest ------------------------------
(***************************************************************************)
(* The crawl of a repository's closed pull requests into the team_history  *)
(* collection (scripts/ingest_team_history.py, core/github_crawler.py),    *)
(* run after run: incremental by the start time of the last run, cut at a  *)
(* limit, interrupted anywhere.  A pull request's documents are as new as  *)
(* its last update; the pull requests are updated while a crawl pages      *)
(* through them, newest first.                                             *)
(***************************************************************************)
EXTENDS Naturals, Sequences, FiniteSets

CONSTANTS
    Prs,             \* pull requests
    Silent,          \* those without review comments or a long description
    PrLimit,         \* --limit
    MaxUpdates,      \* bound: updates of pull requests
    MaxIngests       \* bound: runs of the script

ASSUME IngestBounds ==
    /\ IsFiniteSet(Prs) /\ Silent \subseteq Prs
    /\ PrLimit \in Nat \ {0} /\ MaxUpdates \in Nat /\ MaxIngests \in Nat

VARIABLES
    clock,           \* advances with every update
    updated,         \* when each pull request was last updated, 0 while it is open
    stored,          \* as of when team_history holds its documents, 0 for none
    cursor,          \* IngestionState.last_run_at, 0 for none
    crawl,           \* the running script
    ingests,         \* runs started
    gap              \* the collection is known to lack older documents (history)

ingestVars == <<clock, updated, stored, cursor, crawl, ingests, gap>>

Idle == [pc |-> "idle", mode |-> [full |-> FALSE, recreate |-> FALSE, mock |-> FALSE],
         started |-> 0, since |-> 0, count |-> 0, docs |-> <<>>]

IngestInit ==
    /\ clock = 0 /\ updated = [p \in Prs |-> 0] /\ stored = [p \in Prs |-> 0]
    /\ cursor = 0 /\ crawl = Idle /\ ingests = 0 /\ gap = FALSE

\* The closed pull requests by last update, newest first: the n-th of them.
Newest(n) == {p \in Prs : updated[p] # 0 /\ Cardinality({q \in Prs : updated[q] > updated[p]}) = n - 1}

\* A pull request is closed, or a closed one is commented on.
UpdatePr(p) ==
    /\ clock < MaxUpdates
    /\ clock' = clock + 1 /\ updated' = [updated EXCEPT ![p] = clock']
    /\ UNCHANGED <<stored, cursor, crawl, ingests, gap>>

\* main: the start time is taken first, then the collection is dropped for --recreate, then
\* the cursor is read, unless --full.
StartIngest(mode) ==
    /\ crawl.pc = "idle" /\ ingests < MaxIngests
    /\ ingests' = ingests + 1
    /\ stored' = IF mode.recreate THEN [p \in Prs |-> 0] ELSE stored
    /\ gap' = (gap \/ mode.recreate)
    /\ crawl' = [Idle EXCEPT !.pc = IF mode.mock THEN "insert" ELSE "crawl", !.mode = mode,
                             !.started = clock, !.since = IF mode.full THEN 0 ELSE cursor]
    /\ UNCHANGED <<clock, updated, cursor>>

\* fetch_team_history: the next pull request of the listing, by its place in it.
CrawlNext ==
    /\ crawl.pc = "crawl" /\ crawl.count < PrLimit
    /\ \E p \in Newest(crawl.count + 1) :
        /\ updated[p] > crawl.since
        /\ crawl' = [crawl EXCEPT !.count = @ + 1,
                     !.docs = IF p \in Silent THEN @ ELSE Append(@, [pr |-> p, at |-> updated[p]])]
    /\ UNCHANGED <<clock, updated, stored, cursor, ingests, gap>>

\* The listing ends, or the limit or a pull request of an earlier run is reached; without
\* documents the script returns.
CrawlEnds ==
    /\ crawl.pc = "crawl"
    /\ crawl.count >= PrLimit \/ ~\E p \in Newest(crawl.count + 1) : updated[p] > crawl.since
    /\ crawl' = IF crawl.docs = <<>> THEN Idle ELSE [crawl EXCEPT !.pc = "insert"]
    /\ gap' = (gap \/ \E p \in Newest(crawl.count + 1) : updated[p] > crawl.since)
    /\ UNCHANGED <<clock, updated, stored, cursor, ingests>>

\* One batch of upserts.
InsertBatch ==
    /\ crawl.pc = "insert" /\ crawl.docs # <<>>
    /\ \E n \in 1..Len(crawl.docs) :
        LET written == {crawl.docs[i] : i \in 1..n} IN
        /\ stored' = [p \in Prs |->
              IF \E d \in written : d.pr = p
              THEN (CHOOSE d \in written : d.pr = p /\ \A e \in written : e.pr = p => e.at <= d.at).at
              ELSE stored[p]]
        /\ crawl' = [crawl EXCEPT !.docs = SubSeq(@, n + 1, Len(@))]
    /\ UNCHANGED <<clock, updated, cursor, ingests, gap>>

\* Mutant: the cursor is the time the run ends.
SetCursorLate ==
    /\ crawl.pc = "insert" /\ crawl.docs = <<>>
    /\ cursor' = IF crawl.mode.mock THEN cursor ELSE clock
    /\ gap' = (gap /\ (crawl.mode.mock \/ ~crawl.mode.full \/ crawl.count >= PrLimit))
    /\ crawl' = Idle
    /\ UNCHANGED <<clock, updated, stored, ingests>>

\* _set_cursor, not for --mock.  (A --full run with room for every pull request fills the
\* gaps of earlier ones.)
SetCursor ==
    /\ crawl.pc = "insert" /\ crawl.docs = <<>>
    /\ cursor' = IF crawl.mode.mock THEN cursor ELSE crawl.started
    /\ gap' = (gap /\ (crawl.mode.mock \/ ~crawl.mode.full \/ crawl.count >= PrLimit))
    /\ crawl' = Idle
    /\ UNCHANGED <<clock, updated, stored, ingests>>

\* The run is interrupted, or GitHub, the embedder or Qdrant fails.
IngestDies ==
    /\ crawl.pc # "idle" /\ crawl' = Idle
    /\ UNCHANGED <<clock, updated, stored, cursor, ingests, gap>>

IngestNext ==
    \/ \E p \in Prs : UpdatePr(p)
    \/ \E mode \in [full : BOOLEAN, recreate : BOOLEAN, mock : BOOLEAN] : StartIngest(mode)
    \/ CrawlNext \/ CrawlEnds \/ InsertBatch \/ SetCursor \/ IngestDies
------------------------------------------------------------------------------
\* What the cursor says was crawled was: but for the gaps a --recreate or a --limit leaves,
\* the collection holds the documents of every pull request last updated before the cursor,
\* whatever is interrupted or updated meanwhile (_set_cursor, fetch_team_history).
CrawlMissesNothing ==
    ~gap => \A p \in Prs \ Silent : updated[p] \in 1..cursor => stored[p] = updated[p]
==============================================================================
