------------------------------ MODULE EvalScores ------------------------------
(***************************************************************************)
(* What the evaluation derives offline from recorded data: the retrieval   *)
(* at an operating point (run_eval.py gather, operating_cves, score), the   *)
(* report under another verifier policy (run_pr_eval.py policy_findings,   *)
(* attach_review_view) and the place of a finding (score_findings).  Each  *)
(* is beside the part of the program it stands in for.                     *)
(***************************************************************************)
EXTENDS Integers, Sequences, FiniteSets, SequencesExt, Selection

CONSTANTS
    Unscored,            \* the probability, or margin, that is absent
    SimThreshold, RerankThreshold, MarginMin, RetrievalTopK,
    MinConfidence, SuggestFloor, MaxSuggestions, MinAuditConfidence, MaxVerifierCalls,
    LocaliseTolerance

ASSUME ScoresAssumption ==
    /\ SimThreshold \in Nat /\ RerankThreshold \in Int /\ RetrievalTopK \in Nat \ {0}
    /\ MinAuditConfidence \in Int /\ MinConfidence \in Int
    /\ MaxSuggestions \in Nat /\ MaxVerifierCalls \in Nat

FirstOf(s, n) == SubSeq(s, 1, Min({n, Len(s)}))

------------------------------------------------------------------------------
\* Retrieval of one snippet without votes: matches [sim, prob, margin] in the order of the
\* index, prob absent without a reranker and margin without a patched twin.
PassesTwinMargin(m) == Unscored \in {MarginMin, m.margin} \/ m.margin >= MarginMin
Relevance(m) == IF m.prob = Unscored THEN m.sim ELSE m.prob
Relevances(s) == [i \in DOMAIN s |-> Relevance(s[i])]
RerankCandidates(found) ==
    LET near == Picked(found, {i \in DOMAIN found :
                    found[i].sim >= SimThreshold /\ PassesTwinMargin(found[i])})
    IN  Stably(near, Relevances(near))
FindVulnerabilities(found) ==
    LET near == RerankCandidates(found)
        sure == Picked(near, {i \in DOMAIN near :
                    near[i].prob # Unscored => near[i].prob >= RerankThreshold})
    IN  FirstOf(Stably(sure, Relevances(sure)), RetrievalTopK)

\* The evaluation ranks by a probability in any case, and has no threshold without a reranker.
Gather(found) == [i \in DOMAIN found |-> [m |-> found[i], prob |-> Relevance(found[i])]]
RerankT(found) == IF \E i \in DOMAIN found : found[i].prob # Unscored THEN RerankThreshold ELSE 0
Probabilities(g) == [i \in DOMAIN g |-> g[i].prob]
\* Mutant: the twin margin is looked at after the cut.
OperatingCvesCutFirst(g, rerankT) ==
    LET likely == Picked(g, {i \in DOMAIN g : g[i].m.sim >= SimThreshold /\ g[i].prob >= rerankT})
        shown == FirstOf(Stably(likely, Probabilities(likely)), RetrievalTopK)
    IN  Picked(shown, {i \in DOMAIN shown : PassesTwinMargin(shown[i].m)})
OperatingCves(g, rerankT) ==
    LET likely == Picked(g, {i \in DOMAIN g :
            g[i].m.sim >= SimThreshold /\ PassesTwinMargin(g[i].m) /\ g[i].prob >= rerankT})
    IN  FirstOf(Stably(likely, Probabilities(likely)), RetrievalTopK)
Predicted(g, rerankT) ==
    LET passing == {i \in DOMAIN g : g[i].m.sim >= SimThreshold /\ PassesTwinMargin(g[i].m)}
    IN  passing # {} /\ Max({g[i].prob : i \in passing}) >= rerankT

\* The matches the evaluation's model is shown are those of the program's, and it predicts by
\* the retrieval alone exactly when there are any.
OperatingPoint(found) ==
    LET shown == OperatingCves(Gather(found), RerankT(found)) IN
    /\ [k \in DOMAIN shown |-> shown[k].m] = FindVulnerabilities(found)
    /\ Predicted(Gather(found), RerankT(found)) <=> shown # <<>>

------------------------------------------------------------------------------
\* What becomes of candidates [severity, audit, verdict, confidence, evidence, finding] in a
\* review: a candidate that is excluded or rated low is not verified; the others are, most severe
\* first, up to the cap of calls.
AuditRating(c) == IF c.audit = Unscored THEN MinAuditConfidence ELSE c.audit
ToVerify(cands) == {i \in DOMAIN cands : ~cands[i].excluded /\ AuditRating(cands[i]) >= MinAuditConfidence}
Urgency(cands) == [i \in DOMAIN cands |-> cands[i].severity * 100 + AuditRating(cands[i])]
VerifyOrder(cands) == HeaviestFirst(ToVerify(cands), Urgency(cands))
Eligible(c) ==
    /\ c.evidence /\ c.confidence >= SuggestFloor
    /\ c.verdict = "uncertain" \/ (c.verdict = "confirmed" /\ c.confidence < MinConfidence)
Reviewed(cands) == FirstOf(VerifyOrder(cands), MaxVerifierCalls)
Reported(cands) == {i \in ToSet(Reviewed(cands)) :
    cands[i].verdict = "confirmed" /\ cands[i].confidence >= MinConfidence}
Suggested(cands) ==
    LET verified == Reviewed(cands)
    IN  FirstOf(Picked(verified, {k \in DOMAIN verified : Eligible(cands[verified[k]])}), MaxSuggestions)

\* The record of a run: whether a candidate was bound for the verifier, and what it said.
Recorded(cands) == [i \in DOMAIN cands |->
    [c |-> [cands[i] EXCEPT !.verdict = IF i \in ToSet(Reviewed(cands)) THEN @ ELSE "none",
                            !.confidence = IF i \in ToSet(Reviewed(cands)) THEN @ ELSE 0,
                            !.evidence = @ /\ cands[i].verdict # "rejected" /\ i \in ToSet(Reviewed(cands))],
     bound |-> i \in ToVerify(cands)]]

\* policy_findings for "confirmed>=k", with the worth-a-look items, and the wider ones.
Policies == {"confirmed", "with_review", "any_confirmed", "uncertain", "all"}
Keeps(c, policy, k) ==
    CASE policy = "confirmed" -> c.verdict = "confirmed" /\ c.confidence >= k
      [] policy = "with_review" ->
            \/ c.verdict = "confirmed" /\ c.confidence >= k
            \/ /\ c.evidence /\ c.confidence >= SuggestFloor
               /\ c.verdict = "uncertain" \/ (c.verdict = "confirmed" /\ c.confidence < k)
      [] policy = "any_confirmed" -> c.verdict = "confirmed"
      [] policy = "uncertain" -> c.verdict \in {"confirmed", "uncertain"}
      [] OTHER -> TRUE
PolicyFindings(record, policy, k) == {i \in DOMAIN record : record[i].bound /\ Keeps(record[i].c, policy, k)}

\* attach_review_view: the worth-a-look items again; a missing audit confidence counts as 0.
OldRating(c) == IF c.audit = Unscored THEN 0 ELSE c.audit
Replayed(record) ==
    LET urgency == [i \in DOMAIN record |-> record[i].c.severity * 100 + OldRating(record[i].c)]
    IN  FirstOf(HeaviestFirst({i \in DOMAIN record : record[i].bound /\ Eligible(record[i].c)}, urgency),
                MaxSuggestions)

\* At the run's own cutoff the replays say what the run said; and wider policies keep more.
PoliciesReplay(cands) ==
    LET record == Recorded(cands)
        at(policy, k) == PolicyFindings(record, policy, k)
        suggested == ToSet(Suggested(cands))
    IN  /\ at("confirmed", MinConfidence) = Reported(cands)
        /\ Reported(cands) \cup suggested \subseteq at("with_review", MinConfidence)
        /\ Cardinality(suggested) < MaxSuggestions
              => at("with_review", MinConfidence) = Reported(cands) \cup suggested
        /\ (\A i \in DOMAIN cands : cands[i].audit # Unscored) => Replayed(record) = Suggested(cands)
        /\ \A k \in 2..10 :
              /\ at("confirmed", k) \subseteq at("confirmed", k - 1)
              /\ at("confirmed", k) \subseteq at("with_review", k)
              /\ at("with_review", k) \subseteq at("uncertain", k)
        /\ at("any_confirmed", 0) \subseteq at("uncertain", 0) /\ at("uncertain", 0) \subseteq at("all", 0)

------------------------------------------------------------------------------
\* Where the findings of a view are, against the truth of the item: its file and vulnerable
\* lines, and of each file the anchors of the change and the functions that hold one.
Overlaps(f, lines) == f.first # 0 /\ \E v \in lines : v \in (f.first - LocaliseTolerance)..(f.last + LocaliseTolerance)
InSpans(f, spans) == f.first # 0 /\ \E s \in spans : f.first..f.last \cap s # {}
OnAnchor(truth, fs) == \E f \in fs : Overlaps(f, truth.anchors[f.file])
InFunction(truth, fs) ==
    OnAnchor(truth, fs) \/ \E f \in fs : f.file \in truth.added \/ InSpans(f, truth.functions[f.file])
Localised(truth, fs) == \E f \in fs : f.file = truth.file /\ Overlaps(f, truth.lines)
Levels(truth, fs) ==
    LET localised == Localised(truth, fs)
        anchor == localised \/ OnAnchor(truth, fs)
    IN  <<localised, anchor, anchor \/ InFunction(truth, fs), fs # {}>>

\* A level includes the stricter ones, and a view that keeps fewer findings never scores higher
\* (the "strict_only" of view_losses is 0).
LevelsNest(truth, cands) ==
    LET at(S) == Levels(truth, {cands[i].finding : i \in S})
        record == Recorded(cands)
        views == <<Reported(cands), Reported(cands) \cup ToSet(Suggested(cands)),
                   PolicyFindings(record, "all", 0), DOMAIN cands>>
    IN  /\ \A v \in DOMAIN views, n \in 1..3 : at(views[v])[n] => at(views[v])[n + 1]
        /\ \A v \in 1..3, n \in 1..4 : at(views[v])[n] => at(views[v + 1])[n]
==============================================================================
