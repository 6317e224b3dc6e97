------------------------------ MODULE Algorithms ------------------------------
(***************************************************************************)
(* The inputs of the sequential algorithms, grown step by step, and what   *)
(* must hold of their results for each input.  A behaviour has one topic.  *)
(***************************************************************************)
EXTENDS PRReport, Answers, GuardDiff, AuditPlan, SymbolIndex, EvalScores, Sampling, FixPairs,
        Datasets, Semgrep

CONSTANTS
    MaxLines, Words,            \* of an edit script, by topic
    Constructs, MaxConstructs,  \* of two versions of a function
    QuoteWords, MaxQuoteLines,  \* of the texts of two files
    Confirmed, Alerts, MaxFindings, Outcomes, Hits,   \* of a report
    Pieces, MaxPieces, UnitAnswers, Allowed,            \* of a reply
    SinkRows, MaxSinkRows, Claims,
    Shapes, MaxFiles, Matches,  \* of the files to pack, and the past fixes to show
    Symbols, Calls, Requests, DefCost, ContextCap, MaxRounds,
    Retrieved, MaxRetrieved, EvalCandidates, Truths,   \* of the evaluation's replays
    Items, Commits, MaxItems, ItemQuotas, Mixes,       \* of its samples
    FixCommits, Fetched, MaxFixCommits,                \* of its data sets
    ScanUnitShapes, MaxScanUnits, Weaknesses           \* of a static scan

\* A unit that is not reviewed has one of the reasons of run_pr_review, and a candidate, verified
\* or not, is of a unit that was reviewed.
ASSUME OutcomesAssumption ==
    \A o \in Outcomes :
        /\ o.unverified \in Nat /\ (o.reviewed = {} => o.unverified = 0)
        /\ \A u \in DOMAIN o.notReviewed : o.notReviewed[u] \in Reasons

ASSUME SeveritiesAssumption ==
    (\A c \in Confirmed : c.severity \in 0..4) /\ (\A f \in UnitAnswers : f.rank \in Nat)

\* What the syntax tree and the vocabularies may say of a construct.
ASSUME ConstructsAssumption ==
    \A x \in Constructs :
        /\ x.form \in {"block", "cond", "call", "api", "flag", "sql", "helper"}
        /\ x.form = "block" => /\ x.exit \in DOMAIN ExitWeight \cup {"none"}
                              /\ x.kind \in DOMAIN KindBonus \cup {"none"}
        /\ x.form = "call" => x.kind \in DOMAIN CallWeight \cup {"none"}
        /\ x.weight \in Nat /\ x.swap \in Nat

\* Scores are numbers, or absent.
ASSUME RecordedAssumption ==
    /\ \A m \in Retrieved : m.sim \in Int /\ (m.prob = Unscored \/ m.prob \in Int)
    /\ \A c \in EvalCandidates :
          /\ {"verdict", "confidence", "evidence"} \subseteq DOMAIN c
          /\ c.severity \in Int /\ (c.audit = Unscored \/ c.audit \in Int) /\ c.confidence \in Int
          /\ c.verdict \in {"confirmed", "uncertain", "rejected", "none"}
          /\ c.evidence \in BOOLEAN /\ c.excluded \in BOOLEAN

\* None is no text, no patch and no set of lines.
ASSUME NoneAssumption ==
    /\ None \notin Seq(Words["script"]) /\ None \notin Seq(Hunks(Words["script"]))
    /\ None \notin Words["removal"]
    /\ MaxLines["script"] \in Nat
    /\ \A L \in SUBSET (1..(MaxLines["script"] + 1)) : L # None

\* Lines are numbered from 1.
ASSUME ScanAssumption ==
    /\ \A u \in ScanUnitShapes : u.first \in Nat \ {0} /\ u.lines \in Nat
    /\ \A weak \in Weaknesses : \A w \in weak : w.line \in Nat \ {0} /\ w.end \in Int

VARIABLES topic, input
vars == <<topic, input>>

Init ==
    \/ topic \in {"script", "removal", "renames", "prompts", "leads", "claim", "reply", "units"} /\ input = <<>>
    \/ topic \in {"retrieval", "candidates", "items", "commits", "fixes", "scan"} /\ input = <<>>
    \/ topic = "report"
       /\ input \in [llm : {<<>>}, alerts : {<<>>}, outcome : Outcomes]
    \/ topic = "versions" /\ input = [old |-> <<>>, new |-> <<>>]
    \/ topic = "quotes" /\ input = <<<<>>, <<>>>>
    \/ topic = "symbols" /\ input = [defs |-> <<>>, rounds |-> <<>>]

AddLine ==
    /\ topic \in {"script", "removal", "renames"} /\ Len(input) < MaxLines[topic]
    /\ \E t \in {"keep", "del", "add"}, w \in Words[topic] :
        /\ t = "keep" => w # Blank
        /\ ~(t = "del" /\ input # <<>> /\ Last(input).tag = "add")
        /\ input' = Append(input, [tag |-> t, text |-> w])
    /\ UNCHANGED topic

AddConstruct ==
    /\ topic = "versions" /\ Len(input.old) + Len(input.new) < MaxConstructs
    /\ \E side \in {"old", "new"}, x \in Constructs :
        input' = [input EXCEPT ![side] = Append(@, x)]
    /\ UNCHANGED topic

AddText ==
    /\ topic = "quotes" /\ Len(input[1]) + Len(input[2]) < MaxQuoteLines
    /\ \E i \in 1..2, w \in QuoteWords : input' = [input EXCEPT ![i] = Append(@, w)]
    /\ UNCHANGED topic

AddFinding ==
    /\ topic = "report" /\ Len(input.llm) + Len(input.alerts) < MaxFindings
    /\ \/ \E f \in Confirmed : input' = [input EXCEPT !.llm = Append(@, f)]
       \/ \E c \in Alerts : input' = [input EXCEPT !.alerts = Append(@, c)]
    /\ UNCHANGED topic

AddPiece ==
    /\ topic = "reply" /\ Len(input) < MaxPieces
    /\ input # <<>> => Last(input).form # "cut"
    /\ \E p \in Pieces : input' = Append(input, p)
    /\ UNCHANGED topic

AddUnitAnswer ==
    /\ topic = "units" /\ Len(input) < MaxFindings
    /\ \E f \in UnitAnswers : input' = Append(input, f)
    /\ UNCHANGED topic

AddRow ==
    /\ topic = "leads" /\ Len(input) < MaxSinkRows
    /\ \E r \in SinkRows : input' = Append(input, r)
    /\ UNCHANGED topic

AddClaim ==
    /\ topic = "claim" /\ input = <<>>
    /\ \E c \in Claims : input' = <<c>>
    /\ UNCHANGED topic

AddFile ==
    /\ topic = "prompts" /\ Len(input) < MaxFiles
    /\ \E f \in Shapes : input' = Append(input, f)
    /\ UNCHANGED topic

AddSymbol ==
    /\ topic = "symbols" /\ input.rounds = <<>>
    /\ \E d \in Symbols :
        /\ \A e \in ToSet(input.defs) : e.first <= d.first /\ e # d
        /\ input' = [input EXCEPT !.defs = Append(@, d)]
    /\ UNCHANGED topic

AddRequests ==
    /\ topic = "symbols" /\ Len(input.rounds) < MaxRounds
    /\ \E rs \in SeqOf(Requests, 2) : input' = [input EXCEPT !.rounds = Append(@, rs)]
    /\ UNCHANGED topic

AddRetrieved ==
    /\ topic = "retrieval" /\ Len(input) < MaxRetrieved
    /\ \E m \in Retrieved :
        /\ input # <<>> => (m.prob = Unscored <=> input[1].prob = Unscored)
        /\ input' = Append(input, m)
    /\ UNCHANGED topic

AddCandidate ==
    /\ topic = "candidates" /\ Len(input) < MaxRetrieved
    /\ \E c \in EvalCandidates : input' = Append(input, c)
    /\ UNCHANGED topic

AddItem ==
    /\ topic \in {"items", "commits"} /\ Len(input) < MaxItems
    /\ \E i \in IF topic = "items" THEN Items ELSE Commits : input' = Append(input, i)
    /\ UNCHANGED topic

\* The commits of eval pairs first.
AddFixCommit ==
    /\ topic = "fixes" /\ Len(input) < MaxFixCommits
    /\ \E c \in FixCommits :
        /\ c.bases # {} => Len(input) < 2 /\ \A d \in ToSet(input) : d.bases # {}
        /\ input' = Append(input, [c EXCEPT !.name = Len(input) + 1])
    /\ UNCHANGED topic

\* The units of one file.
AddScanUnit ==
    /\ topic = "scan" /\ Len(input) < MaxScanUnits
    /\ \E u \in ScanUnitShapes :
        /\ input # <<>> => u.sourced = input[1].sourced /\ u.ext = input[1].ext
        /\ input' = Append(input, u)
    /\ UNCHANGED topic

Next ==
    \/ AddLine \/ AddConstruct \/ AddText \/ AddFinding \/ AddPiece \/ AddUnitAnswer
    \/ AddRow \/ AddClaim \/ AddFile \/ AddSymbol \/ AddRequests
    \/ AddRetrieved \/ AddCandidate \/ AddItem \/ AddFixCommit \/ AddScanUnit
Spec == Init /\ [][Next]_vars
------------------------------------------------------------------------------
\* All readers of a diff see the same edit.  Whatever the amount of context, applying the
\* unified diff (make_patch, apply_patch) to the old text gives the new one, its inverse the
\* old; the lines that diff_lines, patch_touched_lines, deleted_old_lines and old_line_for name
\* are those of the edit, their two line maps inverse where lines are kept; the lines the
\* evaluation takes as the place of a vulnerability are among them; and the line an inline
\* comment is anchored to is one the diff shows: GitHub refuses a comment anywhere else, and
\* with it the whole review (scan_pr.anchor_line).
DiffsAgree ==
    topic = "script" =>
        /\ \A n \in 0..2 : RoundTrips(input, n)
        /\ \A n \in 1..2 : MapsAgree(input, n)
        /\ TruthAgrees(input) /\ Anchored(input) /\ ChangedArePaired(input)
        /\ ReconstructsChange(input, 2)

\* Every added line and every deletion of a file is a changed line of some planned unit, with
\* the version that function had before (plan_file, build_pr_bundle).
ChangedFunctionsPlanned == topic = "script" => ChangesPlanned(input) /\ OwnOldVersion(input)

\* The comparison of two versions of a function: a change of version A to B reports the
\* mirror image of B to A, code that only moved is silent, and what is told as removed is a
\* control that is gone.
GuardDiffSound ==
    topic = "versions" =>
        /\ MirrorImage(input.old, input.new) /\ MovedIsSilent(input.old, input.new)
        /\ LostIsControl(input.old, input.new)
        /\ input.new = <<>> => DeletionIsTold(input.old)

\* A finding is located where its quote is: never in another file than the one it names if
\* that has the quote, never far from the line it claims if the quote is there too.  And a
\* quoted control is believed to be removed exactly when the change deletes it for good; the
\* two checks of one removal (the model's quote, the version comparison) agree.  What static
\* analysis reports comes back once under the key of the innermost unit that has the line, at
\* that line; units of one name and first line share a key (parse_results, unit_key).
EvidenceFound ==
    /\ topic = "quotes" =>
          \A quote \in SeqOf(QuoteWords, 2), named \in 0..2, claimed \in 0..MaxQuoteLines :
              QuotesHoldUp(input, quote, named, claimed)
    /\ topic = "scan" => \A weak \in Weaknesses : ScanHolds(input, weak)
    /\ topic = "removal" => \A line \in 1..MaxLines[topic] : RemovalAgrees(input, line)

\* What is made of a review: a report headed clean is of a review that warns of nothing and
\* passes every gate of the build, an alert fails a build only when corroborated, and the keys
\* the findings are known by from run to run are distinct and do not depend on the order the
\* model gave them in (assemble_pr_result, render_markdown, scan_pr's gates).
ReportAddsUp ==
    topic = "report" => \A severity \in {2, 4} :
        ReportHolds(input.outcome, input.alerts, input.llm, Hits, severity)

\* The answer of a reply is its last acceptable object, never an inner one of cut-off output,
\* and no finding of a per-unit answer is lost or doubled (extract_json, validate_findings).
AnswersHold ==
    /\ topic = "reply" /\ input # <<>> =>
        \A q \in {"audit", "final_audit", "units", "verify"} : LastAnswerCounts(input, q)
    /\ topic = "units" => UnitAnswerHolds(input, Allowed)

\* What a model is shown of a cause.  The packing of a pull request keeps what the review relies
\* on: one fate for each file, no prompt over its room, a squeezed file never clipped.  The sinks
\* of a file's added lines are told up to their caps; a candidate's line, its function and the
\* diff are in the prompt it is verified with wherever they fit; and over all rounds, what a
\* model asks for is given once, within the cap, and told as unavailable otherwise, a function's
\* checks staying within its class (plan_audit_chunks, sink_leads, build_verifier_prompt,
\* resolve_context, outermost_function_at).
PromptsSound ==
    /\ topic = "prompts" => PlanAllowed(input) /\ PromptsKeepRoom(input, Matches)
    /\ topic = "leads" => LeadsHold(input)
    /\ topic = "claim" => \A i \in DOMAIN input : ClaimShown(input[i])
    /\ topic = "symbols" =>
          LET index == [defs |-> input.defs, calls |-> Calls] IN
          /\ input.rounds # <<>> => ContextSound(index, DefCost, ContextCap, input.rounds)
          /\ input.rounds = <<>> => \A d \in ToSet(input.defs) : ScopesAgree(index, d.path, d.first..d.last)

\* A section that is not partial shows every changed line.  It does not for a file without a
\* diff: the run section_unseen.
UnseenIsPartial == topic = "prompts" => SectionsShow(input, Packed(input))

\* What the evaluation derives from recorded data is what the program does: the matches at its
\* operating point, the report at its own cutoff; and a view that keeps fewer findings never
\* scores higher (operating_cves, policy_findings, attach_review_view, score_findings).
ReplaysAgree ==
    /\ topic = "retrieval" => OperatingPoint(input)
    /\ topic = "candidates" => PoliciesReplay(input) /\ \A t \in Truths : LevelsNest(t, input)

\* The evaluation's samples split no pair and pass no quota, draw as many pairs as they may,
\* and spread what they draw over the repositories; and a change the corpus counts as mere
\* renaming is one.  What the data sets are made of is whole, and its two sides share nothing.
DataSetsSound ==
    /\ topic = "renames" => RenamesHold(input)
    /\ topic = "fixes" => DataSetHolds(input, Fetched)
    /\ topic = "items" => \A quotas \in ItemQuotas : SamplesHold(input, quotas)
    /\ topic = "commits" /\ input # <<>> =>
          \A n \in 2..MaxItems, mix \in Mixes, cap \in 1..2 : CommitsSpread(input, n, mix, cap)
==============================================================================
