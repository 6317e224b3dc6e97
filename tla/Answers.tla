------------------------------- MODULE Answers -------------------------------
(***************************************************************************)
(* What is read out of a model's reply: which JSON object of it is the     *)
(* answer (core/llm_client.py: extract_json), whether that is an answer to *)
(* the question (the schema checks of core/pr_review.py and                *)
(* core/markdown_renderer.py), and the findings of a per-unit answer.      *)
(*                                                                         *)
(* A reply is a sequence of pieces in the order of its text, a piece       *)
(* [form, holds]: an "object" or a "list" of JSON, a "fence" around one    *)
(* object, a "closed" span that is no JSON, an "unclosed" brace, an object *)
(* "cut" off by the end of the output, or "prose".  `holds` says what the  *)
(* object, or each object of the list, is.                                 *)
(***************************************************************************)
EXTENDS Integers, FiniteSets, Sequences, SequencesExt, FiniteSetsExt, Selection

CONSTANT MaxUnclosed   \* _MAX_UNCLOSED_STARTS

ASSUME UnclosedAssumption == MaxUnclosed \in Nat

Kinds == {"findings", "context", "no_context", "bad_findings", "note", "verdict", "list"}

\* audit_schema_problem: an answer without findings that asks for context is one, but at the
\* final call only for want of a better.
AuditProblem(kind, final) ==
    CASE kind = "findings" -> "none"
      [] kind = "context" -> IF final THEN "fallback" ELSE "none"
      [] OTHER -> "problem"

\* units_schema_problem, behind the router's _object_check
UnitsProblem(kind) == IF kind = "findings" THEN "none" ELSE "problem"

\* verifier_schema_problem
VerifierProblem(kind) == IF kind = "verdict" THEN "none" ELSE "problem"

Problem(kind, question) ==
    CASE question = "audit" -> AuditProblem(kind, FALSE)
      [] question = "final_audit" -> AuditProblem(kind, TRUE)
      [] question = "units" -> UnitsProblem(kind)
      [] question = "verify" -> VerifierProblem(kind)

\* What the objects of the pieces at some places are.
Held(reply, places) ==
    LET pieces == Picked(reply, places) IN [k \in DOMAIN pieces |-> pieces[k].holds]

\* _top_level_objects: the objects that start at the top level of what was scanned, which ends
\* where the output is cut off and at one unclosed brace too many.
TopLevel(reply) ==
    LET reached(i) ==
            /\ \A j \in 1..(i - 1) : reply[j].form # "cut"
            /\ Cardinality({j \in 1..(i - 1) : reply[j].form = "unclosed"}) <= MaxUnclosed
    IN Held(reply, {i \in DOMAIN reply : reply[i].form \in {"object", "fence", "list"} /\ reached(i)})

\* Mutant: the first acceptable object is the answer.
CandidatesInOrder(objects) == objects
\* The candidates from last to first.
Candidates(objects) == Reverse(objects)

\* _first_valid: the first accepted outright, else the first accepted for want of a better.
FirstValid(candidates, question) ==
    LET with(p) == {i \in DOMAIN candidates : Problem(candidates[i], question) = p}
    IN [found |-> IF with("none") = {} THEN "none" ELSE candidates[Min(with("none"))],
        fallback |-> IF with("fallback") = {} THEN "none" ELSE candidates[Min(with("fallback"))]]

\* extract_json, behind _object_check: what the answer is, "invalid" when no JSON of the reply
\* is one, "unparsable" when there is none.
ExtractJson(reply, question) ==
    LET whole == Len(reply) = 1 /\ reply[1].form \in {"object", "list"}
        kind == IF reply[1].form = "list" THEN "list" ELSE reply[1].holds
        objects == TopLevel(reply)
        fenced == Held(reply, {i \in DOMAIN reply : reply[i].form = "fence"})
        top == FirstValid(Candidates(objects), question)
        inFences == FirstValid(Candidates(fenced), question)
        first(a, b) == IF a # "none" THEN a ELSE b
    IN IF whole THEN IF Problem(kind, question) = "problem" THEN "invalid" ELSE kind
       ELSE IF objects = <<>> /\ fenced = <<>> THEN "unparsable"
       ELSE LET answer == first(first(top.found, inFences.found), first(top.fallback, inFences.fallback))
            IN IF answer = "none" THEN "invalid" ELSE answer

\* _confidence, of a number in hundredths: fractions are scaled, the rest is rounded half up
\* and kept within 1..10.
Confidence(x) ==
    LET scaled == IF 0 < x /\ x < 100 THEN x * 10 ELSE x
        rounded == (scaled + 50) \div 100
    IN Max({1, Min({10, rounded})})

------------------------------------------------------------------------------
(* Per-unit findings.  A finding is [unit, in, key, rank, cve]: the unit   *)
(* it names (0 for none), the units its quote occurs in, the line and      *)
(* weakness it is known by, its severity rank (1 the most severe), and the *)
(* match it cites.  Units are 1..n.                                        *)

\* The unit a quote is taken to be from, 0 for none.
UnitOf(f) == IF f.in = {} THEN 0 ELSE IF f.unit \in f.in THEN f.unit ELSE Min(f.in)

\* validate_findings: the first of the most severe with each key of each unit.
UnitFindings(findings, allowed) ==
    LET located == Picked(findings, {i \in DOMAIN findings : findings[i].in # {}})
        kept(i) == \A j \in DOMAIN located :
            (UnitOf(located[j]) = UnitOf(located[i]) /\ located[j].key = located[i].key) =>
                \/ located[i].rank < located[j].rank
                \/ located[i].rank = located[j].rank /\ i <= j
    IN {[unit |-> UnitOf(located[i]), key |-> located[i].key, rank |-> located[i].rank,
         cve |-> IF located[i].cve \in allowed THEN located[i].cve ELSE "none"] :
            i \in {k \in DOMAIN located : kept(k)}}

\* _build_report_findings: the stored match a finding is linked to, of the same function.
Linked(finding, rows, functionOf) ==
    {i \in DOMAIN rows : /\ rows[i].function = functionOf[finding.unit]
                         /\ finding.cve # "none" /\ rows[i].cve = finding.cve
                         /\ \A j \in 1..(i - 1) :
                                ~(rows[j].function = rows[i].function /\ rows[j].cve = finding.cve)}

------------------------------------------------------------------------------
(* Properties.                                                             *)

\* The last answer of a reply counts: an outright answer the scan reaches is never lost to a
\* later draft, note or request for context, an inner object of cut-off output is never taken
\* for the answer, and nothing but an answer is.
LastAnswerCounts(reply, question) ==
    LET answer == ExtractJson(reply, question)
        objects == TopLevel(reply)
        outright == {i \in DOMAIN objects : Problem(objects[i], question) = "none"}
    IN /\ answer \notin {"invalid", "unparsable"} => Problem(answer, question) # "problem"
       /\ outright # {} /\ Len(reply) > 1 => answer = objects[Max(outright)]
       /\ (\A i \in DOMAIN reply : reply[i].form \in {"cut", "prose", "closed"}) => answer = "unparsable"
       /\ Problem(answer, question) = "fallback" => outright = {}

\* What is kept of an answer is in the units asked about, one finding for each place and
\* weakness, none of it lost, and cites only matches that were shown.
UnitAnswerHolds(findings, allowed) ==
    LET out == UnitFindings(findings, allowed) IN
    /\ \A f, g \in out : f.unit = g.unit /\ f.key = g.key => f = g
    /\ \A i \in DOMAIN findings : findings[i].in # {} =>
        \E f \in out : /\ f.unit = UnitOf(findings[i]) /\ f.key = findings[i].key
                       /\ f.rank <= findings[i].rank
    /\ \A f \in out : f.cve \in allowed \cup {"none"}
==============================================================================
