------------------------------ MODULE PRReport -------------------------------
(***************************************************************************)
(* The two ends of a pull request's review (core/pr_review.py,             *)
(* core/evidence.py, core/markdown_renderer.py): the leads it starts from  *)
(* and the prompt a candidate is verified with; the result it is made      *)
(* into, and what that means for the build.                                *)
(***************************************************************************)
EXTENDS Evidence, Selection, Gates

CONSTANTS
    MaxPerKind,        \* MAX_SINK_LEADS_PER_KIND
    MaxPerFile,        \* MAX_SINK_LEADS_PER_FILE
    WindowMax,         \* VERIFIER_WINDOW_MAX
    LastWindow,        \* lines around a candidate that are shown whatever their size
    MarkerCost         \* tokens of the line that says lines were left out

ASSUME ReportAssumption ==
    /\ MaxPerKind \in Nat /\ MaxPerFile \in Nat /\ WindowMax \in Nat
    /\ LastWindow \in Nat /\ MarkerCost \in Nat

KindCount(leads, kind) == Cardinality({i \in DOMAIN leads : leads[i].kind = kind})

\* sink_leads, of the rows of a diff, each the kinds its added text matches in the order of the
\* patterns (none for a row that is not added).
SinkLeads(rows) ==
    LET lead(out, i) ==
            LET open == SelectSeq(rows[i], LAMBDA k : KindCount(out, k) < MaxPerKind)
            IN IF open = <<>> \/ Len(out) >= MaxPerFile THEN out
               ELSE Append(out, [line |-> i, kind |-> open[1]])
    IN FoldLeft(lead, <<>>, [i \in DOMAIN rows |-> i])

\* collect_leads, of one file: what is known of it before it is read.
FileLeads(file, guard, hits, rows, floor) ==
    [guard |-> {g \in guard : g.file = file /\ g.changed},
     semgrep |-> {[evidence |-> h.severity >= floor, lowConfidence |-> h.lowConfidence] :
                    h \in {x \in hits : x.file = file}},
     sinks |-> ToSet(SinkLeads(rows))]

------------------------------------------------------------------------------
(* The verifier's prompt.  A claim is [n, line, fn, rows, callers, budget]:*)
(* the lines of the file, the candidate's, those of its function, the rows *)
(* of the diff and the tokens of the callers.                              *)

\* elide puts one marker into every run of lines left out.
Gaps(keep, n) == Cardinality({i \in 1..n : i \notin keep /\ (i = 1 \/ i - 1 \in keep)})

\* render, in tokens.
VerifierSize(c, keep, rows, callers) ==
    1 + rows + Cardinality(keep) + MarkerCost * Gaps(keep, c.n) + (IF callers THEN c.callers ELSE 0)

AroundLine(c, r) == {i \in 1..c.n : Distance(i, c.line) <= r}

\* What a window around the candidate is added to, at best.
VerifierBases(c) == <<c.fn, {}>>

\* build_verifier_prompt
VerifierPrompt(c) ==
    LET whole == 1..c.n
        fits(keep, rows, callers) == VerifierSize(c, keep, rows, callers) <= c.budget
        bases == SelectSeq(VerifierBases(c), LAMBDA b : fits(b \cup AroundLine(c, 0), c.rows, FALSE))
        widest == IF c.n < WindowMax THEN c.n ELSE WindowMax
        radius == LargestFitting(0, widest,
                    {r \in 0..widest : fits(bases[1] \cup AroundLine(c, r), c.rows, FALSE)})
        last == AroundLine(c, LastWindow)
        halves == {c.rows \div 2^i : i \in 0..c.rows} \ {0}
        short == {k \in halves : fits(last, k, FALSE)}
        shown(keep, rows, callers) == [keep |-> keep, rows |-> rows, callers |-> callers]
    IN CASE fits(whole, c.rows, TRUE) -> shown(whole, c.rows, TRUE)
         [] ~fits(whole, c.rows, TRUE) /\ fits(whole, c.rows, FALSE) -> shown(whole, c.rows, FALSE)
         [] ~fits(whole, c.rows, FALSE) /\ bases # <<>> ->
                shown(bases[1] \cup AroundLine(c, radius), c.rows, FALSE)
         [] ~fits(whole, c.rows, FALSE) /\ bases = <<>> ->
                shown(last, IF short # {} THEN Max(short) ELSE IF halves # {} THEN Min(halves) ELSE 0, FALSE)

------------------------------------------------------------------------------
(* The result.  An outcome is [reviewed, partial, notReviewed, unverified, *)
(* findings], with a reason for each unit not reviewed.                    *)

\* Mutant: a file whose diff was clipped counts as reviewed.
ClippedNone(o) == {}
Clipped(o) == o.partial \cap o.reviewed

\* pr_coverage
Coverage(o) ==
    CASE o.reviewed \cup DOMAIN o.notReviewed = {} -> "complete"
      [] o.reviewed = {} /\ DOMAIN o.notReviewed # {} -> "failed"
      [] o.reviewed # {} ->
            IF DOMAIN o.notReviewed # {} \/ Clipped(o) # {} \/ o.unverified > 0
            THEN "partial" ELSE "complete"

\* What pr_notes has a warning for.
Reasons == {"budget", "too_large", "llm_error", "bad_output", "time_budget"}

\* pr_notes, of those that warn.
Warnings(o) ==
    {"clipped" : u \in o.partial \cap o.reviewed}
    \cup {o.notReviewed[u] : u \in {v \in DOMAIN o.notReviewed : o.notReviewed[v] \in Reasons}}
    \cup {"unverified" : k \in {x \in {o.unverified} : x > 0}}

\* guard_alert_findings: one for each confident change that weakens a check in an alerting unit.
AlertFindings(changes, severity) ==
    LET told == Picked(changes, {i \in DOMAIN changes : /\ changes[i].alert /\ changes[i].weakened
                                                       /\ changes[i].confident})
    IN [i \in DOMAIN told |->
            [deterministic |-> TRUE, file |-> told[i].file, unit |-> told[i].unit,
             place |-> <<told[i].file, told[i].unit>>, line |-> told[i].line,
             first |-> told[i].line, last |-> told[i].line, key |-> told[i].key,
             severity |-> severity, rank |-> 5 - severity, corroborated |-> {}]]

\* report_finding, of a confirmed candidate in the function `unit`.
ReportFinding(c) ==
    [deterministic |-> FALSE, file |-> c.file, unit |-> c.unit, place |-> <<c.file, c.unit>>,
     line |-> c.first, first |-> c.first, last |-> c.last, key |-> c.key,
     severity |-> c.severity, rank |-> 5 - c.severity, corroborated |-> {}]

\* assemble_pr_result, its report: the alerts, corroborated, and the confirmed candidates.
Report(changes, candidates, hits, severity) ==
    LET confirmed == [i \in DOMAIN candidates |-> ReportFinding(candidates[i])]
        report == AlertFindings(changes, severity) \o confirmed
        by(d) == CorroboratedBy(d, ToSet(confirmed), hits, TRUE)
    IN [i \in DOMAIN report |-> IF report[i].deterministic
                                THEN [report[i] EXCEPT !.corroborated = by(report[i])]
                                ELSE report[i]]

\* coverage_banner
Banner(status) == IF status \in {"failed", "partial"} THEN status ELSE "none"

\* render_markdown, its heading.
Heading(report, status) ==
    CASE report = <<>> /\ Banner(status) = "none" -> "clean"
      [] report = <<>> /\ Banner(status) # "none" -> status
      [] report # <<>> -> "findings"

------------------------------------------------------------------------------
(* Properties.                                                             *)

\* Every row that matches a sink becomes a lead until the file has its share, unless all that
\* it matches has; and a file with a stronger lead goes before one without.
LeadsHold(rows) ==
    LET leads == SinkLeads(rows)
        told == {leads[i].line : i \in DOMAIN leads}
        of == FileLeads("f", {}, {}, rows, 3)
    IN /\ IsInjective([i \in DOMAIN leads |-> leads[i].line]) /\ Len(leads) <= MaxPerFile
       /\ \A i \in DOMAIN rows \ told :
            Len(leads) = MaxPerFile
            \/ \A k \in ToSet(rows[i]) : Cardinality({j \in DOMAIN leads : leads[j].kind = k
                                                        /\ leads[j].line < i}) = MaxPerKind
       /\ LeadPriority(of)[4] <=> \E i \in DOMAIN rows : rows[i] # <<>>

\* The line a candidate is about is in the prompt it is verified with, with its whole function
\* and the whole diff wherever these two fit, and a prompt over its budget has neither.
ClaimShown(c) ==
    LET p == VerifierPrompt(c)
        size == VerifierSize(c, p.keep, p.rows, p.callers)
    IN /\ c.line \in p.keep
       /\ VerifierSize(c, c.fn \cup {c.line}, c.rows, FALSE) <= c.budget =>
            c.fn \subseteq p.keep /\ p.rows = c.rows
       /\ size > c.budget => p.rows <= 1 /\ p.keep = AroundLine(c, LastWindow)
       /\ c.rows > 0 => p.rows > 0

\* A report headed clean is of a review that is complete and warns of nothing, and passes
\* every gate; a review is complete exactly when no note warns; an alert fails a build only
\* with a finding or a hit by its side; and no two findings have one key.
ReportHolds(o, changes, candidates, hits, severity) ==
    LET report == Report(changes, candidates, hits, severity)
        status == Coverage(o)
        result == [report |-> report, status |-> status, listsUnreviewed |-> DOMAIN o.notReviewed # {}]
    IN /\ status = "complete" <=> Warnings(o) = {}
       /\ Heading(report, status) = "clean" =>
            Warnings(o) = {} /\ \A t \in 0..4 : ExitCode(result, t) = 0
       /\ \A t \in 1..4 : ExitCode(result, t) = 0 /\ FailOnPartial => status = "complete"
       /\ \A t \in 1..4 : SeverityGate(report, t) = 1 /\ ~GateOnDeterministic =>
            \E i \in DOMAIN report : report[i].severity >= t
                /\ (report[i].deterministic =>
                        \/ \E c \in ToSet(candidates) : c.file = report[i].file
                        \/ \E h \in hits : h.file = report[i].file /\ ~h.lowConfidence)
       /\ \A i \in DOMAIN changes :
            changes[i].alert /\ changes[i].weakened /\ changes[i].confident =>
                \E d \in ToSet(report) : d.deterministic /\ d.key = changes[i].key
       /\ KeysHold(report)
==============================================================================
