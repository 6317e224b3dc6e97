------------------------------ MODULE PRReview -------------------------------
(***************************************************************************)
(* run_pr_review (backend/app/core/pr_review.py): the audit prompts of one *)
(* pull request with their context rounds, then one verifier call per      *)
(* candidate finding, under a budget of calls and one deadline; and        *)
(* pr_coverage, which turns the outcome into the review status the report  *)
(* and the Action's gates use.                                             *)
(*                                                                         *)
(* Each LLM call is two steps, before and after the await, so the deadline *)
(* can pass while it is in flight.  What the model answers is arbitrary;   *)
(* "bad_output" is every answer the schema checks refuse.  A file stands   *)
(* for its review units.                                                   *)
(***************************************************************************)
EXTENDS Integers, FiniteSets

CONSTANTS
    Files,                \* files of the PR with units to review
    MaxAuditCalls, ContextRounds, MaxVerifierCalls, MaxSuggestions,
    MinConfidence, SuggestFloor, MinAuditConfidence,   \* PRReviewConfig
    Cands,                \* candidate findings an audit may report
    KeyOf,                \* KeyOf[c]: its file, line and CWE
    Severity,             \* Severity[c] \in 0..4, 0 is critical (SEVERITY_ORDER)
    AuditConf,            \* AuditConf[c] \in 1..10, 0 when the audit gave none
    HardExcluded,         \* candidates hard_exclusion_reason rejects
    Confidences           \* confidences a verifier may state

ASSUME BudgetAssumption ==
    /\ MaxAuditCalls \in Nat /\ ContextRounds \in Nat
    /\ MaxVerifierCalls \in Nat /\ MaxSuggestions \in Nat
ASSUME ScaleAssumption ==
    /\ MinConfidence \in 1..10 /\ SuggestFloor \in 1..10 /\ MinAuditConfidence \in 1..10
    /\ Confidences \subseteq 1..10
ASSUME DataAssumption ==
    /\ IsFiniteSet(Files) /\ IsFiniteSet(Cands)
    /\ Severity \in [Cands -> 0..4] /\ AuditConf \in [Cands -> 0..10]
    /\ HardExcluded \subseteq Cands

VARIABLES
    pc,          \* "plan", "audit", "verify" or "done"
    chunkOf,     \* audit prompt a file is packed into, 0 when in none
    nChunks,     \* len(chunks)
    clipped,     \* files whose diff lines were cut to fit (SectionPlan.partial)
    chunk,       \* prompt being audited
    open,        \* inside the prompt's while loop
    call,        \* LLM call in flight: "none", "audit" or "verify"
    callsLeft, spare, roundsLeft, roundsUsed, forceFinal, answered,   \* locals
    auditCalls, verifierCalls,    \* stats["audit_calls"], stats["verifier_calls"]
    late,        \* clock() >= deadline
    reviewed,    \* reviewed_units
    reason,      \* not_reviewed: reason[f], "none" when f is not in the list
    found,       \* candidates collected so far
    place,       \* n of `for n, c in enumerate(to_verify)`
    cstatus,     \* c["status"]
    cwhy,        \* c["status_reason"] of an unverified candidate
    stats,       \* the per-status counters of stats
    heard,       \* history: prompts that got a usable answer
    broken       \* history: prompts in which a call failed

planVars == <<chunkOf, nChunks, clipped>>
loopVars == <<spare, roundsLeft, roundsUsed, forceFinal, answered>>
auditVars == <<chunk, open, callsLeft, auditCalls, reviewed, reason, found, heard, broken>>
verifyVars == <<place, cstatus, cwhy, stats, verifierCalls>>
vars == <<pc, chunkOf, nChunks, clipped, chunk, open, call, callsLeft, spare,
          roundsLeft, roundsUsed, forceFinal, answered, auditCalls, verifierCalls,
          late, reviewed, reason, found, place, cstatus, cwhy, stats, heard, broken>>

CallFailures == {"time_budget", "bad_output", "llm_error"}
Reasons == CallFailures \cup {"too_large", "budget"}
Verdicts == {"confirmed", "rejected", "uncertain"}
Counted == Verdicts \cup {"excluded", "below_audit_confidence", "unverified",
                          "review_suggested", "below_min_confidence"}
CandStatuses == Counted \cup {"none", "merged", "to_verify", "asked"}

Init ==
    /\ pc = "plan"
    /\ chunkOf = [f \in Files |-> 0] /\ nChunks = 0 /\ clipped = {}
    /\ chunk = 1 /\ open = FALSE /\ call = "none"
    /\ callsLeft = MaxAuditCalls /\ auditCalls = 0 /\ verifierCalls = 0
    /\ spare = 0 /\ roundsLeft = 0 /\ roundsUsed = 0
    /\ forceFinal = FALSE /\ answered = FALSE
    /\ late = FALSE
    /\ reviewed = {} /\ reason = [f \in Files |-> "none"]
    /\ found = {} /\ place = 0
    /\ cstatus = [c \in Cands |-> "none"] /\ cwhy = [c \in Cands |-> "none"]
    /\ stats = [k \in Counted |-> 0]
    /\ heard = {} /\ broken = {}

\* The deadline passes.
TimeUp ==
    /\ pc \in {"audit", "verify"}
    /\ ~late
    /\ late' = TRUE
    /\ UNCHANGED <<pc, planVars, call, loopVars, auditVars, verifyVars>>

------------------------------------------------------------------------------
(* Planning.                                                               *)

\* plan_audit_chunks, whatever the sizes: at most one prompt per audit call, none
\* empty; a file is left out as too large for any prompt, or for the budget once
\* no further prompt may be opened.
PlanAudit ==
    /\ pc = "plan"
    /\ \E n \in 0..MaxAuditCalls, place_of \in [Files -> 0..MaxAuditCalls],
          tooLarge \in SUBSET Files, cut \in SUBSET Files :
        LET left == {f \in Files : place_of[f] = 0} IN
        /\ {place_of[f] : f \in Files \ left} = 1..n
        /\ tooLarge \subseteq left
        /\ left # tooLarge => n = MaxAuditCalls
        /\ cut \subseteq Files \ left
        /\ chunkOf' = place_of
        /\ nChunks' = n
        /\ clipped' = cut
        /\ reason' = [f \in Files |-> IF f \in tooLarge THEN "too_large"
                                      ELSE IF f \in left THEN "budget" ELSE "none"]
    /\ pc' = "audit"
    /\ UNCHANGED <<chunk, open, call, callsLeft, auditCalls, reviewed, found, heard,
                   broken, late, loopVars, verifyVars>>

------------------------------------------------------------------------------
(* The audit loop.                                                         *)

\* Mutant: the coverage of the next prompt.
NextChunkFiles == {f \in Files : chunkOf[f] = chunk + 1}
ChunkFiles == {f \in Files : chunkOf[f] = chunk}

\* Mutant: a context round may use the last call of a later prompt.
SpareGreedy == callsLeft - 1
Spare == callsLeft - 1 - (nChunks - chunk)

Least(x, y) == IF x <= y THEN x ELSE y

\* Leave the while loop: the prompt's files are reviewed if any answer came.
Close(ok, why) ==
    /\ reviewed' = IF ok THEN reviewed \cup ChunkFiles ELSE reviewed
    /\ reason' = IF ok THEN reason
                 ELSE [f \in Files |-> IF f \in ChunkFiles THEN why ELSE reason[f]]
    /\ chunk' = chunk + 1
    /\ open' = FALSE
    /\ roundsUsed' = 0 /\ forceFinal' = FALSE /\ answered' = FALSE
    /\ spare' = 0 /\ roundsLeft' = 0

\* Ask again with the context resolved so far.
AskAgain(ok, final) ==
    /\ roundsUsed' = roundsUsed + 1
    /\ forceFinal' = final
    /\ answered' = ok
    /\ UNCHANGED <<reviewed, reason, chunk, open, spare, roundsLeft>>

SkipChunk ==
    /\ pc = "audit" /\ call = "none" /\ ~open /\ chunk <= nChunks
    /\ late \/ callsLeft <= 0
    /\ Close(FALSE, IF late THEN "time_budget" ELSE "budget")
    /\ UNCHANGED <<pc, planVars, call, callsLeft, auditCalls, found, heard, broken,
                   late, verifyVars>>

SendAudit ==
    /\ pc = "audit" /\ call = "none" /\ chunk <= nChunks
    /\ open \/ (~late /\ callsLeft > 0)
    /\ spare' = Spare
    /\ roundsLeft' = IF forceFinal THEN 0 ELSE Least(ContextRounds - roundsUsed, Spare)
    /\ callsLeft' = callsLeft - 1
    /\ auditCalls' = auditCalls + 1
    /\ call' = "audit"
    /\ open' = TRUE
    /\ UNCHANGED <<pc, planVars, roundsUsed, forceFinal, answered, chunk, reviewed,
                   reason, found, heard, broken, late, verifyVars>>

\* LLMError from the router, or an answer the schema check refuses.
AuditFails ==
    /\ call = "audit" /\ call' = "none"
    /\ broken' = broken \cup {chunk}
    /\ \E why \in CallFailures : Close(answered, why)
    /\ UNCHANGED <<pc, planVars, callsLeft, auditCalls, found, heard, late, verifyVars>>

\* A findings list, possibly empty, perhaps with a request for context beside it.
AuditFindings ==
    /\ call = "audit" /\ call' = "none"
    /\ heard' = heard \cup {chunk}
    /\ \E new \in SUBSET (Cands \ found) : found' = found \cup new
    /\ \/ Close(TRUE, "none")       \* no request, no rounds left, late, or nothing resolved
       \/ roundsLeft > 0 /\ ~late /\ AskAgain(TRUE, forceFinal)
    /\ UNCHANGED <<pc, planVars, callsLeft, auditCalls, broken, late, verifyVars>>

\* Only a request for context.
AuditWantsContext ==
    /\ call = "audit" /\ call' = "none"
    /\ heard' = heard \cup {chunk}
    /\ \/ roundsLeft <= 0 /\ Close(TRUE, "none")            \* context_unresolved
       \/ roundsLeft > 0 /\ late /\ Close(answered, "time_budget")
       \/ roundsLeft > 0 /\ ~late /\ AskAgain(answered, forceFinal)
       \/ /\ roundsLeft > 0 /\ ~late                        \* nothing new resolved
          /\ IF spare - 1 < 0 THEN Close(answered, "budget") ELSE AskAgain(answered, TRUE)
    /\ UNCHANGED <<pc, planVars, callsLeft, auditCalls, found, broken, late, verifyVars>>

------------------------------------------------------------------------------
(* Filter and verification.                                                *)

FloorConf(c) == IF AuditConf[c] = 0 THEN MinAuditConfidence ELSE AuditConf[c]

\* dedupe_candidates: most severe, then most confident.
Outranks(c, d) ==
    \/ Severity[c] < Severity[d]
    \/ Severity[c] = Severity[d] /\ AuditConf[c] > AuditConf[d]

\* Mutant: the last one found wins.
KeepsAny(S) == {K \in SUBSET S : \A c \in S : Cardinality({k \in K : KeyOf[k] = KeyOf[c]}) = 1}
Keeps(S) ==
    {K \in SUBSET S :
        \A c \in S : \E k \in K :
            /\ KeyOf[k] = KeyOf[c]
            /\ ~Outranks(c, k)
            /\ \A d \in K : KeyOf[d] = KeyOf[c] => d = k}

Screen(c, kept) ==
    IF c \notin kept THEN "merged"
    ELSE IF c \in HardExcluded THEN "excluded"
    ELSE IF FloorConf(c) < MinAuditConfidence THEN "below_audit_confidence"
    ELSE "to_verify"

Filter ==
    /\ pc = "audit" /\ call = "none" /\ chunk > nChunks
    /\ \E kept \in Keeps(found) :
        LET screened == [c \in Cands |-> IF c \in found THEN Screen(c, kept) ELSE "none"] IN
        /\ cstatus' = screened
        /\ stats' = [k \in Counted |-> Cardinality({c \in Cands : screened[c] = k})]
    /\ pc' = "verify"
    /\ UNCHANGED <<planVars, call, loopVars, auditVars, late, place, cwhy, verifierCalls>>

Waiting == {c \in Cands : cstatus[c] = "to_verify"}

\* to_verify.sort: by severity, then by confidence.
FirstIn(c, S) ==
    /\ c \in S
    /\ \A d \in S : \/ Severity[c] < Severity[d]
                    \/ Severity[c] = Severity[d] /\ FloorConf(c) >= FloorConf(d)

Settle(c, st) ==
    /\ cstatus' = [cstatus EXCEPT ![c] = st]
    /\ stats' = [stats EXCEPT ![st] = @ + 1]

Unverified(c, why) ==
    /\ Settle(c, "unverified")
    /\ cwhy' = [cwhy EXCEPT ![c] = why]

VerifierFull == place >= MaxVerifierCalls

\* Mutant: only the deadline settles what is not sent any more.
LeftToDeadline == late
LeftUnverified == VerifierFull \/ late

SkipVerify ==
    /\ pc = "verify" /\ call = "none"
    /\ LeftUnverified
    /\ \E c \in Waiting :
        /\ FirstIn(c, Waiting)
        /\ Unverified(c, IF VerifierFull THEN "budget" ELSE "time_budget")
    /\ place' = place + 1
    /\ UNCHANGED <<pc, planVars, call, loopVars, auditVars, late, verifierCalls>>

SendVerify ==
    /\ pc = "verify" /\ call = "none"
    /\ ~VerifierFull /\ ~late
    /\ \E c \in Waiting :
        /\ FirstIn(c, Waiting)
        /\ cstatus' = [cstatus EXCEPT ![c] = "asked"]
    /\ place' = place + 1
    /\ verifierCalls' = verifierCalls + 1
    /\ call' = "verify"
    /\ UNCHANGED <<pc, planVars, loopVars, auditVars, late, cwhy, stats>>

Asked == {c \in Cands : cstatus[c] = "asked"}

VerifyFails ==
    /\ call = "verify" /\ call' = "none"
    /\ \E c \in Asked, why \in CallFailures : Unverified(c, why)
    /\ UNCHANGED <<pc, planVars, loopVars, auditVars, late, place, verifierCalls>>

\* review_suggestion_eligible.
Suggestible(verdict, conf, evidence) ==
    /\ evidence /\ conf >= SuggestFloor
    /\ verdict = "uncertain" \/ (verdict = "confirmed" /\ conf < MinConfidence)

RoomForSuggestion == stats["review_suggested"] < MaxSuggestions

\* What a verdict makes of the candidate; removed-control evidence is only looked
\* for on a confirmed or uncertain one.
Decision(verdict, conf, evidence) ==
    IF verdict = "confirmed" /\ conf >= MinConfidence THEN "confirmed"
    ELSE IF Suggestible(verdict, conf, evidence) /\ RoomForSuggestion THEN "review_suggested"
    ELSE IF verdict = "confirmed" THEN "below_min_confidence"
    ELSE verdict

VerifyAnswers ==
    /\ call = "verify" /\ call' = "none"
    /\ \E c \in Asked, verdict \in Verdicts, conf \in Confidences, evidence \in BOOLEAN :
        Settle(c, Decision(verdict, conf, evidence))
    /\ UNCHANGED <<pc, planVars, loopVars, auditVars, late, place, cwhy, verifierCalls>>

Return ==
    /\ pc = "verify" /\ call = "none" /\ Waiting = {}
    /\ pc' = "done"
    /\ UNCHANGED <<planVars, call, loopVars, auditVars, late, verifyVars>>

------------------------------------------------------------------------------
NotReviewed == {f \in Files : reason[f] # "none"}

\* Mutant: the status ignores the candidates left unverified.
ReviewStatusOfFiles ==
    IF Files = {} THEN "complete"
    ELSE IF reviewed = {} THEN "failed"
    ELSE IF NotReviewed # {} \/ clipped \cap reviewed # {} THEN "partial"
    ELSE "complete"

\* pr_coverage.
ReviewStatus ==
    IF Files = {} THEN "complete"
    ELSE IF reviewed = {} THEN "failed"
    ELSE IF NotReviewed # {} \/ clipped \cap reviewed # {} \/ stats["unverified"] > 0
         THEN "partial"
    ELSE "complete"

------------------------------------------------------------------------------
Step ==
    \/ PlanAudit \/ SkipChunk \/ SendAudit
    \/ AuditFails \/ AuditFindings \/ AuditWantsContext
    \/ Filter \/ SkipVerify \/ SendVerify \/ VerifyFails \/ VerifyAnswers \/ Return

Next == Step \/ TimeUp

Spec == Init /\ [][Next]_vars

\* The coroutine runs on, and a router call returns: every attempt has a deadline.
FairSpec == Spec /\ WF_vars(Step)
------------------------------------------------------------------------------
(* Properties.                                                             *)

\* Every variable keeps its type.
TypeOK ==
    /\ pc \in {"plan", "audit", "verify", "done"}
    /\ chunkOf \in [Files -> Nat] /\ nChunks \in Nat /\ clipped \subseteq Files
    /\ chunk \in Nat /\ open \in BOOLEAN /\ call \in {"none", "audit", "verify"}
    /\ callsLeft \in Nat /\ auditCalls \in Nat /\ verifierCalls \in Nat
    /\ spare \in Int /\ roundsLeft \in Int /\ roundsUsed \in Nat
    /\ forceFinal \in BOOLEAN /\ answered \in BOOLEAN /\ late \in BOOLEAN
    /\ reviewed \subseteq Files /\ reason \in [Files -> Reasons \cup {"none"}]
    /\ found \subseteq Cands /\ place \in Nat
    /\ cstatus \in [Cands -> CandStatuses]
    /\ cwhy \in [Cands -> CallFailures \cup {"none", "budget"}]
    /\ stats \in [Counted -> Nat]
    /\ heard \subseteq Nat /\ broken \subseteq Nat

\* "Keep one call for every later chunk" (pr_review.py:1401): however the context
\* rounds of earlier prompts went, every prompt not started yet still has a call,
\* and the calls never exceed PR_REVIEW_MAX_AUDIT_CALLS.
LaterChunksHaveCalls ==
    /\ auditCalls + callsLeft = MaxAuditCalls
    /\ pc = "audit" /\ chunk <= nChunks =>
          callsLeft >= nChunks - chunk + (IF open THEN 0 ELSE 1)

\* A prompt that was planned is never given up for lack of calls: "budget" as a
\* reason belongs to the planner alone.
PlannedNeverOutOfBudget ==
    \A f \in Files : chunkOf[f] > 0 => reason[f] # "budget"

\* When the review returns, every file with units is either reviewed or listed as
\* not reviewed, never both and never lost.
CoverageIsPartition ==
    pc = "done" => \A f \in Files : f \in reviewed <=> reason[f] = "none"

\* "The stats partition the candidates" (pr_review.py:1544): each counter that the report
\* prints is the number of candidates in that status and no candidate is missing from all of
\* them; no claim is lost in the deduplication, one as severe with the same file, line and CWE
\* is decided on; and the verifier's calls go to the most severe: none is left unverified for
\* the call budget while a less severe one was sent.
CandidatesAddUp ==
    /\ pc \in {"verify", "done"} =>
          \A k \in Counted : stats[k] = Cardinality({c \in Cands : cstatus[c] = k})
    /\ pc = "done" => \A c \in found :
          /\ cstatus[c] \in Counted \cup {"merged"}
          /\ \E d \in found : /\ KeyOf[d] = KeyOf[c] /\ Severity[d] <= Severity[c]
                              /\ cstatus[d] \in Counted
    /\ \A c, d \in Cands :
          /\ cwhy[c] = "budget"
          /\ cstatus[d] \in Verdicts \cup {"asked", "review_suggested", "below_min_confidence"}
          => Severity[d] <= Severity[c]

\* A "complete" review is earned: every file was read by a call that answered, no
\* diff was clipped, and every candidate had its verdict (README.md:40-41).
CompleteIsEarned ==
    pc = "done" /\ ReviewStatus = "complete" =>
        /\ reviewed = Files
        /\ \A f \in Files : chunkOf[f] \in heard /\ f \notin clipped
        /\ \A c \in Cands : cstatus[c] # "unverified"

\* The review always returns: the context loop cannot go round for ever.
ReviewReturns == <>(pc = "done")

\* "If part of the review failed or ran out of budget, the result says `partial` or
\* `failed`" (README.md:40-41), read of a failed audit call.
FailedCallIsReported ==
    pc = "done" /\ broken # {} => ReviewStatus # "complete"
==============================================================================
