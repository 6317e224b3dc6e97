# A TLA+ model of RepoSentinel

RepoSentinel reviews GitHub pull requests for security mistakes: a FastAPI backend accepts a
scan, runs retrieval, static checks and an LLM review in the background, and a GitHub Action
or a dashboard polls for the result. This directory holds TLA+ specifications of the parts
where the order of steps matters, TLC configurations that check them on small instances, and
TLAPS proofs of the main results for every size. Source paths below are relative to `src/`.

    tlc -config ScanLifecycle_one.cfg MCScanLifecycle.tla     # check a run
    tlapm ScanLifecycleProofs.tla                             # check the proofs of a module

`PROJECT.json` lists the components, the runs, for each property a mutation of the code that
breaks it, the source lines of every definition, the hazards and the theorems.

## 1. Inventory of the system

| Component | Source | State it keeps | Operations | Hard part | What makes it correct |
|---|---|---|---|---|---|
| Scan API and job lifecycle | `backend/app/api/routes/analyze.py`, `services/scan_runner.py` (runner), `main.py`, `db/` | `scans` and `findings` rows; per process an `asyncio.Semaphore`, background tasks, recovery tasks | POST, poll, run_scan, recovery at start, shutdown | several processes on one database; crash between two commits; cancellation at any await; errors in error handlers | one runner per scan; permits balance; terminal is final; nothing stranded; every scan ends |
| PR-level review | `core/pr_review.py` | candidates, reviewed and not-reviewed units, call budget, deadline, counters | plan prompts, audit with context rounds, filter, verify, coverage | one call budget shared by prompts and context rounds; a deadline that passes during a call; a prompt whose calls partly fail; quotes that are placed wrongly | later prompts keep their call; every file accounted for once; counters partition the candidates; "complete" is earned; the loop ends |
| Per-unit review | `services/scan_runner.py` (`_review_batches`), `core/review_plan.py` | batches, not-reviewed units | pack units under token and call budgets, shrink, one call per batch | packing at the limits; units dropped before packing | each unit in one batch or listed with a reason |
| LLM router, token pacer | `core/llm_client.py` | per model: reservations of the last 60 s, blocked-until; per call: outcomes, dead providers | acquire, block, generate over a chain of clients with retries; read the answer of a reply | concurrent scans sharing the pacer; Retry-After; deadline against wait; how each client ended | no more than the limit in any window; first come first served; no call starts after the deadline; `bad_output` only when every client answered unusably |
| GitHub Action | `github_action/scan_pr.py` | none of its own: comments on the PR | collect files, start and poll a scan, plan and apply comment operations, gates | partial failure between API calls; re-runs over its own comments; old markers; polling timeout | convergent, idempotent comments; exit 0 only for a finished review that passes the gates |
| Deterministic evidence | `core/evidence.py`, `core/guard_diff.py`, `core/semgrep_scanner.py`, `core/finding_keys.py` | none | compare two versions, check a removed control, corroborate, key, map Semgrep's results | moved against removed code; lines of old and new side; key collisions and drift | the two checks of a removal agree; moved code is silent; keys distinct and stable |
| Bundle, diff, parsing | `core/pr_context.py`, `core/code_parser.py`, `core/diff_utils.py`, `core/analysis_planner.py` | none | write, parse and reverse patches; plan units and old versions; cut sections; look symbols up | line arithmetic with empty hunks, at the ends, with other context | all readers of a diff see the same edit; every change is in a planned unit |
| Retrieval, feedback | `core/rag_merger.py`, `core/*_retriever.py`, `core/feedback_store.py`, `api/routes/feedback.py` | `feedback` rows (one per finding) | vote, net votes, finalize, dedupe | check-then-insert from two processes | one vote per finding; what is shown is what was retrieved |
| Embeddings, vector store | `core/embedder.py`, `core/embedding_cache.py`, `core/vector_store.py` | `embedding_cache` rows; Qdrant (external) | embed through the cache, create, check, upsert, search | concurrent upserts of overlapping batches; a collection rebuilt under a running process; settings that differ | a vector belongs to its text; a search never fails silently |
| Ingestion | `scripts/ingest_team_history.py`, `scripts/ingest_cve_corpus.py`, `core/github_crawler.py` | crawl cursor, Qdrant points | crawl since cursor, insert, advance cursor, recreate | crash between insert and cursor; truncated crawl; pull requests updated meanwhile | no closed PR is lost |
| Prompts, escaping, rendering | `core/prompts/`, `core/untrusted.py`, `core/markdown_renderer.py` | none | text; checks of answers; headings | - | no finding of an answer lost; the heading says what the review was |
| Evaluation | `ml/evaluation/` | cache of paid answers, result files | paid runs with limits, resumption, replays, scores | a kill in a write; failures counted as results; code beside the program's | a resumed run replays; bounds hold; replays agree with the program |
| Dataset builders | `scripts/build_*.py`, `fetch_benign_commits.py` | caches of GitHub's answers, finished advisories, data files | build the corpus and the evaluation sets | rate limits, kills, offline runs; two sides that must share nothing | complete pairs; no leak between the sides |
| Settings, schemas | `config.py`, `models/schemas.py` | none | validation | - | - |
| Dashboard | `frontend/src/app.js` | - | polls the API | - | - |

How they interact: the Action POSTs files and polls a row; the API writes the row and hands
the id to a background task; the task takes a permit, claims the row, calls retrieval and
static checks in worker threads, commits the findings, calls the LLM review (which calls the
router once per prompt), and commits the result. All processes share the database and the vector
store and nothing else; all scans of a process share the semaphore and the router with its pacer.
Scripts fill the vector store; the evaluation runs the review's own code over data sets that
other scripts build.

The hazards, each at its line and with the properties that watch it, are in `PROJECT.json`.

## 2. Modules

| Module | Models | Composes |
|---|---|---|
| `ScanJob` | what a client of the scan API is promised (abstract) | - |
| `ScanLifecycle` | rows, processes, runners, gate, recovery, shutdown, faults | implements `ScanJob` (`Job == INSTANCE ScanJob WITH ...`) |
| `PRReview` | `run_pr_review` and `pr_coverage` | - |
| `TokenPacer` | `TokenPacer`: reservations, blocks, sleeping callers | - |
| `LLMRouter` | `LLMRouter.generate`, `LLMClient.complete`, concurrent calls | `Pacer == INSTANCE TokenPacer`, its actions used as steps |
| `Selection` | `_largest_fitting`, the search every cut uses; the order of a set (`Ranked`), the picked elements of a list, a list in the order of a weight (`Stably`) | - |
| `ReviewPlan` | how a unit is sized, cut and ranked (`review_plan.py:109-236`) | extends `Selection` |
| `UnitsReview` | the packing of `plan_batches` and the call loop of `_review_batches` | extends `ReviewPlan` |
| `Patches`, `ChangedCode` | unified diffs and line maps; what a change selects: files, units, old versions, anchors, vulnerable lines | `ChangedCode` extends `Patches`, that `Selection` |
| `GuardDiff`, `Evidence`, `Semgrep` | the comparison of two versions; quotes, removed controls, corroboration, keys; static analysis | `Evidence` extends `ChangedCode` |
| `AuditPlan`, `SymbolIndex` | sections and their packing; the context a model asks for | `AuditPlan` extends `Selection` |
| `Answers`, `PRReport`, `Gates` | the answer in a reply; leads, the verifier's prompt, the report; what a result means for a build | `PRReport` extends `Evidence` and `Gates` |
| `EvalScores`, `Sampling`, `FixPairs`, `Datasets` | replays and scores; samples; pairs of a commit; the evaluation's pull requests | the last two extend `ChangedCode`, the first `Selection` |
| `Algorithms` | all of the operators above: inputs that grow step by step, and what must hold of each | extends them |
| `ActionRun` | a run of the Action, its poll loop and gates | `Server == INSTANCE ScanJob`, its actions as the server's steps; extends `Gates` |
| `ActionComments` | the Action's comments: plan and apply, summary, over several runs | - |
| `TeamIngest`, `Stores`, `VectorStore` | the crawl; cache and votes under concurrent scans; the collections | the last two extend `Selection` |
| `EvalRun`, `Corpus` | paid evaluation runs; the corpus builder | - |
| `Periphery` | one of these seven per behaviour | extends them |
| `MC*` | values for TLC | extend the module of the same name |
| `SelectionProofs` | lemmas several components rest on: least numbers, rows, sorted lists, the bisection, counts, sums | extends `Selection` |
| `*Proofs` | theorems of the specifications | extend the module of the same name, three of them also `SelectionProofs` |

### ScanLifecycle

One step is what a process does between two awaits; commits are separate steps where another
process can come in between.

| Model | Code |
|---|---|
| `status`, `error`, `result` | columns of a `scans` row ("absent": no row); `findings` counts the committed batches of `findings` rows |
| `worker[w]` | a process: down, booting (lifespan before `yield`), up, stopping (after the shutdown signal) |
| `task[w][s]` | where the coroutine running scan `s` in process `w` is suspended |
| `permits[w]` | value of the process's semaphore (`get_scan_semaphore`) |
| `Submit` | `analyze_pr_code`: insert, commit, `add_task` |
| `Recover`, `RecoverError` | `recover_orphaned_scans`: one transaction, then a task per queued row; an exception ends startup |
| `LoadSingletons` | `run_scan_job`: recovered tasks resolve merger and router first, outside every handler |
| `Claim`, `ClaimSkip`, `ClaimError` | the gate and the conditional UPDATE with its commit; no await in between |
| `Analyzed` | `_analyze_request` returned; the findings are committed |
| `Complete` | the review returned; result and status in one commit, by primary key only |
| `BodyFails`, `Cancel`, `MarkFailed`, `MarkFailedError` | the two handlers of `_run_scan_guarded` and `_mark_failed`, which may itself fail |
| `Shutdown`, `Exit`, `Crash`, `Boot` | the process's life; a crash loses tasks and semaphore, keeps rows |

Left out: request authentication, what the analysis computes, timestamps (no decision reads
them), `_recovered_scan_ids` (recovery runs once per process life in the model, as it does in
production; the set matters only when a test runs the lifespan twice).

### PRReview

| Model | Code |
|---|---|
| `chunkOf`, `nChunks`, `clipped` | what `plan_audit_chunks` returns: the prompt of a file, the prompts, files with clipped diffs |
| `chunk`, `open`, `callsLeft`, `spare`, `roundsLeft`, `roundsUsed`, `forceFinal`, `answered` | the locals of the audit loop |
| `call` | the await the coroutine is in; `late` is `clock() >= deadline` |
| `reviewed`, `reason` | `reviewed_units` and `not_reviewed` with its reason, a file standing for its units |
| `cstatus`, `cwhy`, `stats` | `c["status"]`, `c["status_reason"]`, the counters |
| `heard`, `broken` | history: prompts with a usable answer, prompts with a failed call |
| `SkipChunk`, `SendAudit`, `AuditFails`, `AuditFindings`, `AuditWantsContext` | lines 1388-1478 |
| `Filter`, `SkipVerify`, `SendVerify`, `VerifyFails`, `VerifyAnswers`, `Return` | lines 1481-1578 |
| `ReviewStatus` | `pr_coverage` |

The model's answers are arbitrary: any candidates, any verdict and confidence, any request for
context resolved or not. Planning is the choice of any packing `plan_audit_chunks` can return
whatever the sizes (at most one prompt per call, none empty, left out for the budget only when
no prompt may be opened). Left out here: the packing itself, texts, quotes, leads and the report, which are operators of
`AuditPlan`, `Evidence` and `PRReport`.

### ReviewPlan and UnitsReview

| Model | Code |
|---|---|
| a shape `u` | an analysis unit: the length of each of its lines, which of them changed, how many CVE and team references, its evidence |
| `Size`, `Tokens` | `_section_tokens` and `estimate_tokens`, in characters and their quarter and a quarter |
| `RefsLeft`, `CutLines`, `Partial`, `TooLarge` | `_shrink_to_fit`: references go first, then lines by `_largest_fitting` over a radius, a number of changes, or head and tail |
| `Fitted` | what that gives for each shape, computed once |
| `units`, `dropped`, `order` | the units after the cap, how many it cut, their positions by `unit_priority` |
| `Place` | one turn of the packing loop of `plan_batches` |
| `SkipBatch`, `SendBatch`, `BatchFails`, `BatchAnswers`, `Return` | `_review_batches`: `late` is `clock() >= deadline` |
| `ReviewStatus` | `review_coverage` |

Left out: which units `plan_units` finds, texts of the sections, the findings of an answer. Units
cut by the cap (`dropped`) are told apart in the result and take no part in its status.

### TokenPacer

| Model | Code |
|---|---|
| `now` | `clock()`, an integer; a sleeper wakes at its time or later |
| `reserved[k]` | `_reserved[k]`, a list of `(start, tokens)`; the place in the list is the `id` of a reservation |
| `blockedUntil[k]` | `_blocked_until[k]` |
| `asleep[c]` | the reservation caller `c` awaits in `acquire` |
| `granted[k]` | history: the reservations `earliest_start` has pruned from the list too |
| `EarliestStart` | the loop of `earliest_start`: the first of `Candidates` (the floor, then each instant a reservation leaves the window) with room |
| `Grant`, `Refuse` | `acquire` up to its sleep; the list is pruned in both, as a side effect of asking |
| `Wake`, `Abandon`, `Block` | the end of the sleep, a cancellation in it (the reservation stays), `block` |

### LLMRouter

| Model | Code |
|---|---|
| `st[c]` | where the coroutine of call `c` is: about to `acquire`, asleep in it, awaiting HTTP, ended |
| `at`, `attempt`, `rateLimited`, `outcomes`, `dead`, `deadlineHit` | locals of `generate` |
| `useFormat[k]`, `sent[c]` | `client.use_response_format`, shared by the calls; whether the request in flight carries it |
| `seen[c][k]` | history: what the last attempt of call `c` on client `k` met |
| `Reserve`, `SkipClient`, `WakeUp` | `acquire` from the router's side, then `complete` posts |
| `Answer`, `BadOutput`, `Transient`, `HttpError`, `FormatRejected` | each way a response is handled, up to the next reservation |
| `Cancel` | cancellation of the scan at the await the call is in |

A response is a choice among those classes: which object of a reply is the answer is in `Answers`,
the parsing of error bodies is left out. The verifier's chain is one more value of `Chain[c]`: its model
first, then the rest. A verifier model that is also in the normal chain has a client object, and
a flag, of its own; the instances give the two calls that share a flag the same chain.
The second request of `FormatRejected` has no reservation, in the code as in the model, so the
windows count reservations, not requests.

### ActionComments

| Model | Code |
|---|---|
| `comments`, `summaries`, `lastId` | the pull request on GitHub: inline comments that carry a marker, summary comments, ids given out (external, from how the script uses the API) |
| `pc[r]` | where run `r` of the workflow is in `main` after its scan returned |
| `want`, `text` | `desired_comments`: markers in order of the findings, and their wordings |
| `create`, `update`, `remove` | what is left to do of `plan_comment_ops` |
| `listed`, `undisturbed`, `overlapped` | history: what the run listed, whether another run wrote since, whether two runs were ever active at once |
| `Plan` | `list_inline_comments` and `plan_comment_ops`: adoption of legacy markers, first of several comments with one marker, duplicates |
| `PostReview`, `Denied`, `Patch`, `Delete` | `apply_comment_ops`; a PATCH or DELETE may fail and the rest goes on, a refused review (403) ends the inline comments |
| `ListSummaries`, `UpsertSummary` | `_upsert_summary` |
| `Crash` | an exception that leaves `main`, a lost connection, a cancelled job |

Two wordings stand for all texts, markers are values with their lists of legacy markers. The
pages of a list are one request. The updates are done in any order, the code's is one of them.

### Algorithms

A behaviour has one topic; its input grows by a line, a construct, a piece of text or a finding
per step, and each property of the module relates what several parts of the program compute of
that input. What a parser or a vocabulary says (functions of a text, constructs of a version,
sinks of a line, the words of a text that are tokens) is part of the input.

| Module | Model | Code |
|---|---|---|
| `Patches` | a change is an edit script; `Patch`, `Parsed`, `Applied`, `ReverseApply` | `unified_diff`, `_parse_hunks`, `apply_patch`, `reverse_apply_patch`; three parsers of patches and their line maps |
| `ChangedCode` | `NormalOld` .. `NormalLines`, `PlanUnits`, `Nearest`, `AnchorLine`, `VulnLines`, `FixLines` | `normalize_files`, `plan_units`, `old_code_for_units`, `anchor_line`, `vuln_lines`, `fix_changed_lines` |
| `GuardDiff` | a version is the sequence of its constructs; `Features`, `Uncommon`, `GuardChanges`, `Compared` | `extract_features`, `diff_features`, `_decide`, `guard_diff` |
| `Evidence` | `Counted`, `Located`, `LocateStrict`, `LocateLoose`, `QuotedAt`; `RemovedControl`; `CorroboratedBy`; `LineKey`, `FindingKey` | `validate_audit_findings`, `validate_removed_control`, `corroborate_deterministic`, `llm_dedupe_key`, `disambiguate_dedupe_keys` |
| `Semgrep` | `Targets`, `Owner`, `UnitKey`, `ParseResults`; hits are filed under the name and first line of their owner, which two units may share; the engine reports any given set of weaknesses | `_write_targets`, `build_target_source`, `_owner`, `unit_key`, `parse_results` |
| `AuditPlan` | a file is the sizes of the parts of its section; `FitSection`, `PlaceFile`, `Packed`, `WithExamples` | `fit_file_section`, `plan_audit_chunks` |
| `SymbolIndex` | definitions and calls in the order of the text; `Outermost`, `ResolveContext` | `SymbolIndex`, `PRBundle`, `resolve_context` |
| `PRReport` | `SinkLeads`, `VerifierPrompt`, `Coverage`, `Report`, `Heading` | `sink_leads`, `build_verifier_prompt`, `pr_coverage`, `assemble_pr_result`, `render_markdown` |
| `Answers` | a reply is a sequence of pieces; `ExtractJson`, `UnitFindings` | `extract_json` and the schema checks, `validate_findings` |
| `EvalScores` | `Gather`, `OperatingCves` beside `FindVulnerabilities`; `PolicyFindings`, `Replayed` beside `Reviewed`; `Localised` | `operating_cves` and `CVERetriever`, `policy_findings`, `attach_review_view` and `run_pr_review`, `score_findings` |
| `Sampling` | `SampleItems`, `SampleItemsByKind`, `Quotas`, `RoundRobin`, `RealCommits`, `SampleBenign` | `sample_items`, `sample_by_kind`, `sample_real_commits`, `sample_dev` |
| `FixPairs`, `Datasets` | `PairFunctions`, `DiffQuality`; `SelectFiles`, `BuildAll`, `BuildV2`, `Leaks` | `pair_functions_in_file`, `compute_diff_quality`; `select_files`, `build_all`, `build_v2`, `split_leak_check` |

### Periphery

| Module | Model | Code |
|---|---|---|
| `ActionRun` | `runPc`, `result`, `exitCode`; `CollectChangedFiles`, `Submit`, `StartRound`, `Polled`, `PollFails`, `TimeOut`, `Publish` | `main`, `collect_changed_files`, `run_analysis`; time is counted in poll intervals |
| `TeamIngest` | `cursor`, `stored`, `crawl`; `StartIngest`, `CrawlNext`, `CrawlEnds`, `InsertBatch`, `SetCursor`, `IngestDies` | `ingest_team_history.main`, `fetch_team_history`; `UpdatePr` is GitHub, where pull requests are closed and commented on meanwhile |
| `Stores` | `cached`, `scan`, `votes`; `ReadCache`, `EmbedBatch`, `SelectKeys`, `CommitKeys`, `AnalyzeUnits`; `FindVote`, `CommitVote` | `embed_texts`, `put_many`, `analyze_units` with `finalize_matches` and `_dedupe`; `submit_feedback` |
| `VectorStore` | `collections`, `hybrid`, `api`, `script`; `StartApi`, `Search`, `DropCollection`, `CreateCollection`, `UpsertPoints` | `VectorStore`, `ingest_cve_corpus.main`; `Fused` is Qdrant's rank fusion |
| `EvalRun` | `file`, `torn`, `run`, `bills`, `told`; one action for each way a call ends | `EvalGate.call`, `NonceSeq`, `run_item`, `LLMCache`, `run_llm_stage`, `sensitivity`; of the review's loops (`pr_review.py:1386-1515`) the calls: `NextAudit` with its context rounds, one call kept for each later chunk, then the verifier's; the n-th call of an item has n in its prompt, as it has the n-th nonce |
| `Corpus` | `answers`, `recorded`, `outputs`, `build`; `AskCommit`, `AskFile`, `RecordAdvisory`, `Persist`, `WriteCorpus` .. | `build_corpus_from_osv.main`, `get_json`, the files it writes |

## 3. Runs

| Run | Bounds | Shows |
|---|---|---|
| `scan_one` | 1 process, 3 scans, 2 permits, 2 restarts, 1 failing commit, 1 failing load; fair | `GateAccounting`; `LiveScanStaysRunning`; `JobPromise` (refinement of `ScanJob`); `EveryScanEnds`, `ShutdownDrains` |
| `scan_fleet` | 2 processes, 2 scans, 1 permit each, 2 restarts, 2 failing commits, 1 failing load; symmetric | `OneRunner`, `RecoveryIsWhole` |
| `scan_rolling` | 2 processes, 1 scan, no faults | **violated**: `LiveScanStaysRunning`, see findings |
| `pr_review` | 2 files, 3 audit calls, 2 context rounds, 4 candidates (two the same claim, one excluded), 2 verifier calls, 1 suggestion, confidences between and above the cutoffs; fair | `LaterChunksHaveCalls`, `CoverageIsPartition`, `CompleteIsEarned`, `CandidatesAddUp`, `ReviewReturns` |
| `pr_failed_call` | 1 file, 2 calls | **violated**: `FailedCallIsReported`, see findings |
| `units_pack` | up to 4 units, 3 kept by the cap, of 11 shapes: none, one or several changed lines, long and short lines, references, one that fits no prompt; 2 prompts of at most 2 units | `EveryUnitOnce`, `PromptsPacked`, `CompleteIsEarned` |
| `pacer_pace` | 2 callers, a limited and an unlimited model, window 3, limit 3, requests of 1, 2 and 4 tokens, deadline 4, clock to 2; symmetric | `WindowFits`, `FirstComeFirstServed`, `StartsAsSoonAsRoom` |
| `router_calls` | 2 calls, chains of an unlimited and a too small model before a shared limited one, 1 retry, window 2, clock to 2; fair | `OutcomesTellWhatHappened`, `ModelsKeepTheirLimit`, `CallsReturn` |
| `router_format` | 2 calls on 1 client | **violated**: `RejectedFormatIsRetried`, see findings |
| `algorithms` | edit scripts of 5 lines, two versions of 3 constructs (of 12), texts of 4 lines and quotes of 2, 3 findings and alerts, replies of 4 pieces, 4 files (of 8 shapes) on 2 prompts, 2 rounds of 2 requests, 3 recorded candidates, samples of 4 items, 3 fix commits, 3 units to scan | `DiffsAgree`, `ChangedFunctionsPlanned`, `GuardDiffSound`, `EvidenceFound`, `ReportAddsUp`, `AnswersHold`, `PromptsSound`, `ReplaysAgree`, `DataSetsSound` |
| `section_unseen` | the same, 1 file | **violated**: `UnseenIsPartial`, see findings |
| `periphery` | the Action: 3 poll intervals, rounds of up to 2; comments: 2 runs that may overlap, 2 findings that share a legacy marker, 3 old comments; crawl: 3 pull requests, limit 2, 3 updates, 2 runs; stores: 2 scans of up to 3 units, 2 voters; evaluation: 2 runs of 3 items (2 chunks, none, 1), 3 audit calls, 1 context round, 1 verifier call, at most 3 calls or 1 token a run; corpus: 2 ecosystems, 3 builds, 2 faults; vectors: 3 corpora, 2 changes of the setting, 2 scripts; symmetric in the runs | `ExitIsEarned`; `CleanRunIsExact`, `ThreadsSurvive`, `SerialRunsPostOnce`; `CrawlMissesNothing`; `RetrievalSound`, `VotesCount`; `ResumeIsReplay`, `BoundsHold`; `CorpusAddsUp` |

Why these are enough to mean something: three scans on two permits make one wait, two run and
one be recovered at once; two restarts give a crash during the recovery of a crash; two failing
commits (`scan_fleet`) let a handler's own commit fail after the body's did. With two processes
each can recover while the other runs. In the review, three calls for two prompts give a round
to one prompt, whichever asks first; with one prompt both rounds; the deadline can pass at any
step. Two verifier calls for three candidates leave one out, and one suggestion fewer than can
be asked for. Three units for prompts of two leave one to
open a second prompt, and a second prompt that may be full, so that a later unit goes back to the
first or is left out. Starts run ahead of
the clock, so a clock that stops at 2 still has reservations up to time 4 in a window of 3:
one over the limit, several that share a window, some that left it, some pruned. The two calls of
the router meet on the limited model after a retry, a skip after a 429, an account-wide failure
or a model passed over as too small.

Five lines of an edit script give two hunks at context 0 and 1, one hunk of both, an empty side,
blank lines as the last of a hunk, and a change at either end of the file. Three constructs give a
guard, its twin and one that took its place. Four files of different sizes fill two prompts, so
that one is squeezed and one left out. Replies of four pieces have a quoted object before the
answer and a cut one behind it. Three fix commits give two of one repository on both sides of the
split and a bystander.

A poll round that takes two of three intervals passes the deadline while the scan settles. The
second run of the Action works on what the first left,
finished, failed, stopped halfway or still at work, and on comments of older versions: a
duplicate, a marker two findings may adopt, an outdated wording. A crawl limited to two of three pull requests is
cut, and an update may bring the third to the front behind the crawl's back. Two scans share two of
their texts, so that batches overlap and one is rolled back. The second evaluation run starts
from the cache the first left: whole, cut by a limit, or torn. Three audit calls for two chunks
leave one for a context round, so a call that failed in the first run can use it in the second and
move the calls behind it. A corpus build may be killed, resumed
and killed again; the two ecosystems share a fix, and one file of a commit is gone. Of the two settings of
a collection, a process may have the one it was not made with, before and after a rebuild.

All faults are counted, so that every run is finite; the bounds are
`MaxRestarts`, `MaxDbErrors`, `MaxLoadErrors`, `MaxNow`, where the clock stops, the budgets,
which are settings of the program, and `MaxUpdates`, `MaxIngests`, `MaxEvals`, `MaxBuilds`, `MaxBuildFaults`, `MaxFlips`,
`MaxScripts` of the periphery. `Deadline[c] <= MaxNow` is assumed of the router, so that
every sleeper wakes before the clock stops.

The runs allow deadlock (`CHECK_DEADLOCK FALSE`): when every scan has ended and no fault is
left, the review, every call or every program of the periphery has returned, the input has its
full length, or the clock has stopped, nothing more happens.

The type invariants of `ScanLifecycle`, `PRReview`, `UnitsReview`, `TokenPacer` and `LLMRouter` (`TypeOK`)
are theorems, so no run spends its time on them. Those of the programs of the periphery are parts of the
inductive invariants of `PeripheryProofs`.

**Fairness.** `ScanLifecycle!Fairness`: a process that is down is started again (the operator
or the supervisor, not the code; without it a queued row waits for ever, which is what
`RecoveryIsWhole` is about); the event loop runs every ready task (weak fairness); analysis and
review end, one way or the other (the LLM stage has `LLM_SCAN_MAX_WALL_S` and a deadline for
each HTTP attempt); `asyncio.Semaphore` wakes waiters first come first served, so a waiter
passed over by others is admitted in the end (strong fairness of the claim). There is no
fairness on faults, on requests or on cancellation. `PRReview` needs weak fairness of its steps
only: the coroutine goes on, and a router call returns. `LLMRouter!FairSpec` adds weak fairness
of each call's own steps (the event loop; a request ends within `LLM_CALL_DEADLINE_S`) and of
the clock; none of cancellation. `Algorithms` and
`Periphery` state safety only and assume no fairness.

## 4. What is proved

Each theorem below is proved for every value of the constants that meets the modules' `ASSUME`s.

### Life of a scan

`ScanLifecycleProofs`, for any set of processes, any finite set of scans, any gate size and any
number of faults:

- `TypeCorrect`: `Spec => []TypeOK`.
- `ClaimExclusive`: `Spec => []OneRunner`. Not inductive alone: two runners could meet if a row
  went back to "queued" while its task lives. The strengthening says that a task that has
  claimed its row excludes "absent" and "queued" for it, which every handler preserves because
  no code writes "queued" to an existing row.
- `GateSound`: `Spec => []GateAccounting`: permits plus holders is the gate's size. The proof
  goes action by action over the set of holders, which gains or loses exactly the one task.
- `RecoverySound`: `Spec => []RecoveryIsWhole`. `FindingsInv` ties the batches of findings of a row
  to where the task that claimed it stands (none before the first commit, one after it), which with
  `ClaimInv` lets no second batch in. `NoneStranded` says of the other half that before any
  fault a pending row has a task, or a process that is about to recover it.

In the same module, with one process:

- `OneProcessKeepsJobPromise`: `Spec => JobPromise`. Inductive
  invariant `SoleInv`: a pending task has a queued row, an executing one a running row, and the
  error and result columns are set exactly for failed and completed rows. The refinement maps
  `Recover` to `GiveUp` of all running rows, the handlers to `GiveUp` of one, the rest to the
  step of the same meaning or to a stutter.
- `OneProcessKeepsScansRunning`: `Spec => []LiveScanStaysRunning`, by the same invariant.

The assumption "one process" is needed in both: run `scan_rolling`.

### Reviews

`PRReviewProofs`, for any files, budgets, candidates and settings:

- `ReviewTypeCorrect`: `Spec => []TypeOK`; it depends on the budget (`callsLeft \in Nat`).
- `PromptsKeepTheirCall`: `Spec => []LaterChunksHaveCalls`. The strengthening `BudgetInv` says
  that between calls the budget covers this prompt too, and that while a call is in flight
  `spare` is exactly what is left beyond the later prompts and bounds `roundsLeft`.
- `CoverageSound` and `PlannedIsSent`, from `CoverInv`: files of the prompts before the current
  one are reviewed or have a reason, those after neither. As a corollary the exit of
  `pr_review.py:1463-1465` (`failure = "budget"`) is unreachable.
- `CandidatesSound`: `Spec => []CandidatesAddUp`. A counter is a set in disguise: `CountInv` says that
  each is the size of the set of candidates with that status, and each verifier step moves one
  candidate between two such sets. `CandInv` carries the order in which the candidates are sent: one
  at most is in flight, the claim kept of a group of duplicates is never one that was screened
  out, and what was sent is no less severe than what is left over.
- `CompleteSound`: `Spec => []CompleteIsEarned`. `HeardInv` joins the answers with the files: a file is
  reviewed only when its prompt was heard.

`SelectionProofs`, about what the plans are computed with, for every input:

- `BisectionEnds`: whatever the test of `_largest_fitting` answers, the search ends in a value of
  its range that fits, unless it is the lowest, and either is the highest or has a
  value that does not fit right above it. So it finds the largest fitting value where the test is
  monotone (`BisectionFindsLargest`), which is the condition `CompleteIsEarned` names. `search` and
  the sums are recursive functions: `CHOOSE` of one is worth something only when one exists. Existence
  and uniqueness are shown by induction over a set of natural numbers (`SetInduction`, from the
  well-foundedness of `<`), which needs no operator as a parameter.
- Lemmas about sums over finite sets (`SumOverFacts`), used next; those about the tokens of a unit and
  of its cuts (`PlanOfUnit`) are in `UnitsReviewProofs`.
- Lemmas about the rest of `Selection`: the elements picked from a list keep their order (`PickedAre`), a row by
  weight exists and is the only one (`RankedIsRow`, `OneRow`), sorting what was picked is picking
  what was sorted (`StablyIsRow`); and about the counts and runs of numbers the proofs below use.

`UnitsReviewProofs`, for any units, sizes and budgets:

- `UnitsTypeCorrect`: `Spec => []TypeOK`.
- `FateSound`: `Spec => []EveryUnitOnce`. The
  invariant `FateInv` says that the sort visits every unit and none twice (no unit is before
  itself), that a unit is in no prompt before its turn in the packing loop and in one, or left out,
  after it, and that the units of the prompts dealt with are reviewed or have a reason, those of the
  others neither.
- `PackingSound`: `Spec => []PromptsPacked`. `TightInv` says of the packing loop that a prompt's tokens are the
  sum of its units' and within the limits, and that a unit of a later prompt did not
  fit an earlier one when its turn came. It is kept because room in a prompt only
  shrinks.
- `CompleteReviewSound`: `Spec => []CompleteIsEarned`, from `FateInv` and `BisectionFindsLargest`.

### Calls

`TokenPacerProofs`, for any callers, models, limits, requests and clock:

- `PacerTypeCorrect`: `Spec => []TypeOK`.
- `WindowsSound` and `QueueSound`: `Spec => []WindowFits`, `Spec => []FirstComeFirstServed`. The
  code decides on its pruned list, the property is about every reservation ever made. The
  invariant `Ledger` joins them: reservations are numbered without gaps, their starts ascend
  with their numbers, and what was pruned is at least a window older than `now`; so the pruned
  list and the full one have the same tokens in any window a new start can have.
- `NoIdleWait`: `Spec => []StartsAsSoonAsRoom`. Between two instants at which a reservation
  leaves, the window only loses room as reservations are counted in it, so the least candidate
  with room is the least instant with room; it exists by the well-foundedness of `<` on `Nat`,
  which is also why the `while True` of `earliest_start` ends.

`LLMRouterProofs`, for any calls, chains and settings:

- `RouterIsPacer`: the router implements the
  pacer's specification. Each step of a router is a step of the pacer or leaves it alone (invariant
  `InLoop`: a call that acts on a client is inside its chain). With it `SharedWindows`:
  `Spec => []ModelsKeepTheirLimit` follows from `WindowsSound`.
- `RouterTypeCorrect`: `Spec => []TypeOK`.
- `OutcomesSound`: `Spec => []OutcomesTellWhatHappened`. `TellInv` follows each call along its chain: every
  client before the one at hand has an outcome that says what its last attempt met, or was passed
  over for a reason that holds for good (its provider dead, the prompt above its limit), or stands
  behind the deadline; outcomes are in chain order. A call that ends raises the
  error its list of outcomes calls for.

### Periphery

`PeripheryProofs`. A behaviour is of one of the seven programs; the invariant of a program speaks of its own
variables and the other six leave them alone.

- `CrawlSound`: `Spec => []CrawlMissesNothing`, for any pull requests, limits, crawls and updates. The property
  is inductive only with what a crawl under way has still to do: each pull request it owes (closed, changed since
  the cursor and before it started) is fetched already, stored as it is, or comes later in
  GitHub's order, which an update can only move forward past the crawl's place (`Covered`, `Coming`).
- `VotesSound`: `Spec => []VotesCount`. `VoteInv` keeps the row of each answered request, and the unique
  index lets the second of two racing inserts fail.
- `ExitSound`: `Spec => []ExitIsEarned`. `ActionInv` says that the result published is that of a completed scan,
  and that the clock of the poll loop has not passed the deadline before it was looked at.
- `ThreadsSound`, `SerialRunsSound`, `CleanRunSound`: `ThreadsSurvive`, `SerialRunsPostOnce`, `CleanRunIsExact`, for any
  markers, legacy markers, old comments and overlapping runs. The core is `HomesKept`: in the plan of a run
  a wanted marker has one home, a comment of its own or one it adopts, and no two wanted markers
  the same; each API call, done or failed, keeps that, and at the end of a plan without
  failures the homes are all the comments there are. `Serial` is the invariant of runs that do not
  overlap: a current marker is posted by one run only.
- `CorpusSound`: `Spec => []CorpusAddsUp`, for any ecosystems, advisories, commits, files and faults. `CorpusInv` says that
  a cached answer is what GitHub holds (`AnswersTrue`), that the pairs in hand are those of the files passed
  so far that can be had (`FixInHand`), that a run resumes with what was recorded (`Resumed`),
  from which run each output is and what it may share with another (`OutputsDated`, `OutputsApart`), and
  that an advisory recorded on disk or in memory has all its pairs unless it was built with
  a miss (`Complete`).
- `ReplaySound` and `BoundsSound`: `Spec => []ResumeIsReplay`, `Spec => []BoundsHold`, for any items, chunks, limits and runs
  killed anywhere. `EvalInv`: the memory of a run holds what the file holds (`MemoryKept`); an answer is paid for once unless
  its line was torn (`PaidOnce`); the log of an item is an exchange the memory bears out (`LogSound`), as is
  each record (`RecordsSound`) and each claim ever told (`ToldSound`). Two whole logs of one job
  over memories that do not contradict each other are equal (`OneWholeLog`, by induction over their
  length), so no other run can refute a whole result. For a partial one, a log is calls of the audit, each
  with its number, and then calls of the verifier (`LogShape`); up to a settled finding it makes
  the same calls as any whole log, because a failed call that could not ask for a round leads where its
  answer would (`SettledFound`). A log has at most as many calls as both budgets (`LogBounds`). What a
  replay computes is a recursive function too: it exists and tells the whole log (`ReplayExists`,
  `ReplayTellsAll`).

- `RetrievalHolds`: `Spec => []RetrievalSound`, for any texts, candidates, votes, scans, collections and scripts. Of the
  scans `StoresTrue` says that the cache is true (a key has the vector of its text, which a commit that
  loses a race leaves so), that each unit has its own vector or is still to be embedded, and that what was
  shown is what `Shown` gives for the units and the votes read. Of the collections `VectorsTrue` says that
  a point is a record of a corpus under its id, with the margin of its own fix (`EmbedPairsSame`), that
  the last search was made of the collection as it is now, and that the last record of each id is
  in the collection or still to be inserted. The rest is about orders: a finite set has an
  enumeration by any strict order of it (`InRow`), the first n of it are its n best
  (`BestFacts`, `FinalizedFacts`), and the two lists hybrid search fuses miss a match only when more
  than `ANN_CANDIDATES` points pass (`HybridFacts`).

What the proofs found: an earlier `Outcome` of a search was a `CASE` whose guards overlap (a process
that knows the layout is unfit and a collection without its vectors), so that the definition left
open which of the two a caller meets; the code checks the layout first, and now so does the model. An earlier
form of the retrieval property was false of matches with equal scores at the cut.

### Algorithms

`AlgorithmsProofs`, for inputs of any content and any length. `InputsTyped` is the invariant of the module:
an input is made of the parts its topic grows it from. The rest says what is computed of such an input.

- `ReportSound`: `Spec => []ReportAddsUp`. The report is an equation of sets; each field is followed to the finding, the
  alert or the outcome it comes from (`ReportIs`). That keys are distinct and do not depend on the order
  is about counting: of two findings of a line the number of the sooner is less (`SoonerIsLess`).
- `AnswersSound`: `Spec => []AnswersHold`. By induction over the reply: what a scan holds is what was accepted of the
  pieces read so far at the top level (`LastCounts`).
- `GuardDiffIsSound`: `Spec => []GuardDiffSound`. What both versions have cancels, which leaves the same
  features whichever side is looked at first (`LeftOver`); a change turns with its sides (`TwinsTurned`,
  `GuardsTurned`), and a sum of risks with its changes (`ScoresTurned`).
- `DiffsSound`: `Spec => []DiffsAgree`. Sides of a script are counted, not walked: line number m of a side is the
  m-th place of that side (`HowMany`, `CountReaches`). The hunks of a patch are the runs of lines shown
  (`RunsOfShown`, `HunksOfPatch`). Applying a patch keeps `DoneAt`: after each hunk the text built is that of the
  places passed, and the place in the source is behind them, forwards and backwards (`PatchApplied`). The
  reverse diff is a row of the same lines that keeps the order of either side (`SwappedIs`,
  `SwapCounts`). Line maps are read off the last hunk before a line (`LastBefore`).
- `ChangesSound`: `Spec => []ChangedFunctionsPlanned`, from the lines of the patch: what is touched of a gap is
  touched of a function next to it (`GapTouched`), a changed line outside every function plans the file.
- `ReplaysSound`: `Spec => []ReplaysAgree`. Both sides of each equation are the one row of a set by a weight (`OneRow`): the
  evaluation cuts before it sorts, the program sorts before it cuts, and both keep the first of the same row.
- `EvidenceSound`: `Spec => []EvidenceFound`. A quote is looked for greedily, and no placement of its lines is
  ahead of that (`TrailPlaces`), so it is found whenever it is there (`LocatedIs`); a quote no longer than the
  window is found near its claim (`FoundNear`). Lines of a scan have one innermost unit (`OwnerIs`), and under its key, which other units may share,
  a hit is filed once (`OwnedBy`). A line of
  the old text is one the patch deletes when its place in the script is a removed one (`DeletedAre`), which
  joins the two checks of a removed control.

What the proofs found: an earlier form of `GuardDiffSound` said that a deleted construct is told with its own
weight; of equal constructs `_drop_common` cancels the first, so it is told with that of the last. The replays
agree only where all matches of a query are scored or none is, which the reranker guarantees. A quote is
found near its claim only if it is no longer than the window allows; and a quote found loosely has to be compared
loosely with what it found: a line of nothing but quote characters does not count there.

### Assumptions

The proofs assume the `ASSUME`s of the modules, which TLC evaluates in every run: natural bounds, finite sets,
settings within their scales. Those that say more:

| Assumption | Why the code justifies it |
|---|---|
| `IngestBounds`: finitely many pull requests | a repository has finitely many |
| `GateValues`: severities and thresholds are numbers | they are ranks: `SEVERITY_RANK` has a default for names it does not know |
| `CommentsAssumption`: of the comments there before the first run no two have the same current marker | the formula is new with this version; duplicates of older formulas are allowed |
| `CorpusInputs`: an ecosystem is named once, lists are sequences | so they are by default; `--ecosystem` given twice with one name would work through the same archive again and overwrite its outputs |
| `StoresInputs`: a search returns a point once; scores are numbers, lists are sequences, batches not empty | point ids are unique in Qdrant; the sizes are settings of the embedder |
| `VectorInputs`: similarities and ids are numbers, thresholds not negative | a cosine and a lexical score, scaled; an id is a UUID, ordered only where Qdrant breaks a tie |
| `EvalBounds`: items have a number of chunks; budgets, rounds and limits are numbers | arguments of the harness |
| `OutcomesAssumption`, `SeveritiesAssumption`: a unit not reviewed has a reason, a review of no unit leaves nothing unverified; severities are ranks | `run_pr_review` gives every unit one or the other; `CoverageSound` proves it of the review |
| `ConstructsAssumption`: a construct's kind and exit are names the tables have, or "none" | `extract_features` looks them up in these tables |
| `NoneAssumption`: `None` is no text, patch or set of lines | it is Python's `None` |
| `RecordedAssumption`, `ScoresAssumption`: recorded scores and thresholds are numbers, verdicts those of the schema; a score may be absent | they are written by the run that is replayed; `RETRIEVAL_TOP_K` is positive |
| `WindowsAssumption`: a quote is looked for in a window of a line at least, a removed control may have a line | `QUOTE_WINDOW` is 40, `MAX_REMOVED_CONTROL_LINES` 6 |
| `BlankAssumption`: a line without content has none without its quote characters | `_loose_form` only removes |
| `ScanAssumption`: lines are numbered from 1 | so they are in units and in Semgrep's output |
| `Deadline[c] <= MaxNow` (router) | a bound of the model, see section 3 |

### Only model-checked

- Liveness: `EveryScanEnds`, `ShutdownDrains`, `ReviewReturns`, `CallsReturn`. It rests on fairness and `ENABLED`, which these
  backends do not handle. `EveryScanEnds` promises an end to a scan with a task
  unless a commit or a load fails from then on: a failing error handler leaves its row as it is
  until the next restart.
- `PromptsSound` and `DataSetsSound`. The packing of prompts, the rounds of context and the samplers are folds
  and filters over sequences (`FoldLeft`, `SelectSeq`), which the provers do not know; each needs
  an induction over data of its own, and the theorems that would serve take an operator as a parameter. The
  other algorithms were stated with `Picked`, `Ranked` and recursive functions, whose existence and
  values are shown by induction over a set of numbers.

## 5. Findings

1. `scan_rolling`: `recover_orphaned_scans` fails every "running" row of the database
   (`backend/app/main.py:65-69`), taking it for one that "died mid-flight" (`main.py:54-56`).
   With a second process on the same database, which `scan_runner.py:602-603` expects, it fails
   a scan that is alive; a client that stops polling at "failed" misses the result that is
   later written over it, with the error column still set.
2. `pr_failed_call`: an audit call that fails after an earlier answer of the same prompt had
   findings is not reported: `answered` is true, `failure` is dropped (`pr_review.py:1418-1423`
   and `1469`), and the status is "complete", against `README.md:40-41`.
3. `router_format`: `_rejects_response_format` reads the shared flag after the response
   (`llm_client.py:517-523`, `635`). When two calls are in flight with `response_format`, the
   first refusal clears the flag and the second is taken for a plain HTTP 400: no retry, the
   client is given up, against `llm_client.py:41-42` and `114-115`.
4. `section_unseen`: a file without a patch, which the Action submits on purpose
   (`scan_pr.py:416-417`), and too large for a prompt keeps a section that is only its header:
   `fit_file_section` drops the functions because "the diff shows every change"
   (`pr_context.py:796-797`, `826-829`), there are no diff rows, and `SectionPlan.partial` looks at
   clipped rows only. The file counts as reviewed, the review as complete, against
   `README.md:40-41`.

Behaviour met while modelling that no run is about, most of it narrow:

Review.

- `_largest_fitting` bisects a predicate it calls monotone (`review_plan.py:170`), but a marker for
  omitted lines is longer than the short lines it stands for. With windows that fit only from some radius on, the
  bisection gives up (`175-176`) and changed lines are cut (`214-216`) although a window around
  all of them fits. `CompleteIsEarned` of `UnitsReview` says what is left: where sizes grow with the
  radius, the cut is the widest that fits. The verifier's window is cut by the same search.
- A cut unit is sized with a placeholder of 120 characters (`review_plan.py:125-131`), "the real
  note is shorter"; real notes have 133 to 166, so that a prompt may exceed the limit by a few
  tokens, the exception in `PromptsPacked`.
- A call that sleeps on its reservation (`llm_client.py:779-782`) does not look again when a
  `Retry-After` of another call blocks its model meanwhile. The cost is one more 429.
- `resolve_context` counts the tokens of definitions against its cap, not those of its header and
  of the list of what is not available.
- `_confidence` takes 0.99 for 10 and 1 for 1, so a model that changes scale in one answer is
  misread at that seam only.
- `GuardChange.line` of a dropped safe flag is a line of the old file (`guard_diff.py:112`).
- Of equal constructs `_drop_common` (`guard_diff.py:1063-1072`) cancels the first ones: when one of several is
  deleted, the change told is at the last one's line and weight, whichever was deleted.
- In a whole file Semgrep's match on a line of a nested function is reported for the innermost unit,
  in a snippet for both.
- Hits are filed and deduplicated by `unit_key` (`semgrep_scanner.py:108-110`, `266-282`), file, name and first
  line, so two units that share it (anonymous functions that start on one line) share their hits, also
  those on lines only one of them has. The docstring of `parse_results` speaks of the innermost unit; `ScanHolds` says
  what holds of keys, and of units where nobody shares theirs.
- A cancelled scan leaves its Semgrep thread running, without a permit, up to `SEMGREP_TIMEOUT_S`
  (`scan_runner.py:297-305`).

Action.

- Two workflow runs that overlap (there is no concurrency group) both list the comments
  (`scan_pr.py:617`) before either posts (`508`) and post a finding twice, against
  `README.md:192-193`; the next run removes the second comment (`CleanRunIsExact`), but not a second
  summary. Runs that do not overlap post nothing twice (`SerialRunsPostOnce`).
- A file that cannot be read is passed over with a line in the log (`scan_pr.py:409-414`); when it is the
  only one the check passes. So it does when only the summary could not be posted.

Stores and ingestion.

- `--recreate` (also `--mock`, and a `--full` crawl that is interrupted) leaves the cursor, and a
  crawl cut by `--limit` advances it: older pull requests do not come back until `--full`, against
  `README.md:155`. These are the gaps `CrawlMissesNothing` excepts. A pull request that changes in
  the second of the cursor is taken for old.
- A batch of embeddings that loses a race on one key is rolled back whole; the vectors are used, but
  not cached. A vote that loses the race is answered with HTTP 500.
- `_check_cve_schema` looks at `cve_corpus` only: after a change of `HYBRID_ENABLED` a search of
  `team_history` fails with the database's error. A running process keeps its verdict until it
  restarts. Records removed from the corpus files stay in the collection without `--recreate`.

Evaluation and data sets.

- The line torn by a kill glues the next answer to it, which is lost (`llm_eval_common.py:236`): it
  is paid for again. A torn answer of the corpus builder's cache fails every later run instead.
- The docstring of `sensitivity` (`run_pr_eval.py:1246-1251`) counts a partial result with a finding as a known
  positive: "its finding exists whatever the failed calls would have said". It need not. With 3 audit calls, 1
  context round and 2 chunks: chunk 1's call fails, chunk 2 is asked by call 2 and has a finding. On
  resume chunk 1's call is answered and asks for context (`pr_review.py:1403`), the round is call 2 and
  chunk 2 is asked by call 3. That is another nonce (`run_pr_eval.py:717-726`), so another prompt, a miss in
  the cache, and an answer that may have no finding. The confirmed view is as exposed, and more so:
  any failed call may bring a finding the verifier is asked about first. `BoundsHold` therefore
  claims less: whole results, and findings of the audit before which no call failed that could
  have asked for a round (`SettledFinding`). A wider claim, with every finding of the audit, is false in the
  `periphery` instance by the steps above.
- A record without an audit confidence is ordered as 0 by `attach_review_view`, at the floor by the
  review. The evaluation retrieves without the language filter and always dense.
- A file the corpus builder cannot get for a transient failure is left out and its advisory still
  recorded as processed, so that `--resume` does not fetch it again (`Usable` looks at misses of an
  offline run only, the comment at `build_corpus_from_osv.py:1384-1386` speaks of both). Outputs of
  an earlier run stay when a run writes none.
- `pair_functions_in_file` skips names doubled on the old side; its docstring says on either side.
- `straddling` of the first data set accepts eval ids the split file does not know and further
  advisories of a commit, which `split_leak_check` of the second refuses.
- `sample_items` and `sample_by_kind` promise more than their greedy choice gives when a group does
  not fit.

## 6. Plan

Everything of the plan is modelled; every safety property of a process is proved, and of the algorithms all but two:

1. `DataSetsSound`: first the pairs of a commit (`RenamesHold`), which are sets, then the samplers, once their
   round-robin is a recursive function with an invariant of its own.
2. `PromptsSound`: `LeadsHold` and `ClaimShown` are set-valued; `PlanAllowed` needs the invariant of the packing loop
   (`PackingSound` is that of the other packer), `ContextSound` one over the rounds.

## 7. Not modelled

- Text: the wording of prompts, escaping (`untrusted.py`), the layout of Markdown, notes and
  documents. It has no state, and no property is about the wording.
- What a library computes: syntax trees, embeddings and reranking scores, Semgrep's matching,
  Qdrant's index, SequenceMatcher's choice of an edit script. Their results are inputs of the
  models, any of them where the code takes any.
- The vocabularies of `guard_diff.py` and `evidence.py` (which names are guards, sinks, flags):
  tables, represented by one construct of each kind.
- Statistics of the evaluation (rates, intervals, reports), `analyze_candidates.py`,
  `eval_guard_diff.py`, `legacy_prompt.py`, and the scripts that sample once from files others
  wrote: `build_eval_split.py`, `fetch_benign_commits.py`, `build_ordinary_negatives.py`,
  `migrate_eval_ids.py`.
- Configuration and schema validation, the dashboard, vendored rules.
