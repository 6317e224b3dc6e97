------------------------------ MODULE UnitsReview ----------------------------
(***************************************************************************)
(* The per-unit review of a scan (scan_runner.py:366-444, 501-560 and      *)
(* plan_batches, review_plan.py:239-285): snippets, and files with         *)
(* REVIEW_MODE=units.  The analysis units, capped, are packed first-fit    *)
(* into prompts, the most evident first; then one LLM call per prompt.     *)
(*                                                                         *)
(* Place is one turn of the packing loop.  A call is two steps, the        *)
(* router's answer being awaited in between.                               *)
(***************************************************************************)
EXTENDS ReviewPlan

CONSTANTS
    Shapes,             \* units a request may have, as ReviewPlan describes them
    MaxPlanned,         \* bound: units of a request
    MaxUnits,           \* MAX_UNITS_PER_SCAN
    MaxUnitsPerPrompt,  \* LLM_MAX_UNITS_PER_PROMPT
    MaxCalls            \* LLM_MAX_CALLS_PER_SCAN

ASSUME ReviewAssumption ==
    /\ MaxPlanned \in Nat /\ MaxUnits \in Nat
    /\ MaxUnitsPerPrompt \in Nat /\ MaxCalls \in Nat
    /\ \A u \in Shapes :
        /\ u.cost \in Seq(Nat) /\ u.changed \subseteq 1..Len(u.cost)
        /\ u.cves \in Nat /\ u.team \in Nat /\ u.evidence \in [1..4 -> Nat]
        /\ u.evidence[4] > 0 => u.cves > 0

VARIABLES
    units,      \* review_units, by position
    dropped,    \* units cut by the cap
    order,      \* `ordered`: positions, the most evident first
    placed,     \* turns of the packing loop done
    batches,    \* batches[b]: [units, tokens]
    reason,     \* not_reviewed_reason of a unit, "none" if it has none
    pc,         \* "plan", "review", "call", "done"
    turn,       \* batches dealt with
    late,       \* clock() >= deadline
    reviewed,   \* `reviewed`
    calls       \* `calls`

vars == <<units, dropped, order, placed, batches, reason, pc, turn, late, reviewed, calls>>

\* What plan_batches makes of a unit before it looks for a prompt.
Fitted == [u \in Shapes |-> [size |-> PromptSize(u), tooLarge |-> TooLarge(u),
                             partial |-> Partial(u), shown |-> Shown(u)]]

Reasons == {"budget", "too_large", "llm_error", "bad_output", "time_budget"}

\* sorted(units, key=unit_priority, reverse=True) keeps the order of equals.
Before(U, i, j) ==
    MoreEvident(U[i], U[j]) \/ (~MoreEvident(U[j], U[i]) /\ i < j)

Sorted(U, ord) ==
    /\ \A i \in DOMAIN U : \E n \in DOMAIN ord : ord[n] = i
    /\ \A m, n \in DOMAIN ord : m < n => Before(U, ord[m], ord[n])

\* _analyze_request: the first MaxUnits of what plan_units or the bundle found.
Init ==
    /\ \E n \in 0..MaxPlanned :
        /\ units \in [1..Lesser(n, MaxUnits) -> Shapes]
        /\ dropped = n - Lesser(n, MaxUnits)
    /\ order \in [DOMAIN units -> DOMAIN units] /\ Sorted(units, order)
    /\ placed = 0 /\ batches = <<>>
    /\ reason = [i \in DOMAIN units |-> "none"]
    /\ pc = "plan" /\ turn = 0 /\ late \in BOOLEAN
    /\ reviewed = {} /\ calls = 0

------------------------------------------------------------------------------
HasRoom(b, size) ==
    b.tokens + size <= Available /\ Cardinality(b.units) < MaxUnitsPerPrompt

\* Mutant: only the prompt opened last is looked at.
RoomsLast(size) ==
    {b \in DOMAIN batches : b = Len(batches) /\ HasRoom(batches[b], size)}
Rooms(size) == {b \in DOMAIN batches : HasRoom(batches[b], size)}

MoreCalls == Len(batches) < MaxCalls

\* The next unit goes into the first prompt with room, else into a new one, else nowhere.
Place ==
    /\ pc = "plan" /\ placed < Len(units)
    /\ placed' = placed + 1
    /\ LET i == order[placed + 1]
           size == Fitted[units[i]].size
           room == Rooms(size)
       IN \/ /\ Fitted[units[i]].tooLarge
             /\ reason' = [reason EXCEPT ![i] = "too_large"]
             /\ UNCHANGED batches
          \/ /\ ~Fitted[units[i]].tooLarge
             /\ \E b \in room :
                 /\ \A a \in room : b <= a
                 /\ batches' = [batches EXCEPT ![b] = [units |-> @.units \cup {i},
                                                       tokens |-> @.tokens + size]]
             /\ UNCHANGED reason
          \/ /\ ~Fitted[units[i]].tooLarge /\ room = {} /\ MoreCalls
             /\ batches' = Append(batches, [units |-> {i}, tokens |-> size])
             /\ UNCHANGED reason
          \/ /\ ~Fitted[units[i]].tooLarge /\ room = {} /\ ~MoreCalls
             /\ reason' = [reason EXCEPT ![i] = "budget"]
             /\ UNCHANGED batches
    /\ UNCHANGED <<units, dropped, order, pc, turn, late, reviewed, calls>>

StartReview ==
    /\ pc = "plan" /\ placed = Len(units)
    /\ pc' = "review"
    /\ UNCHANGED <<units, dropped, order, placed, batches, reason, turn, late, reviewed, calls>>

Current == batches[turn + 1].units

\* Mutant: the units of a failed call are forgotten.
NotReviewedNone(why) == reason' = reason
NotReviewed(why) == reason' = [i \in DOMAIN units |-> IF i \in Current THEN why ELSE reason[i]]

\* The stage's time is over: the prompt is not sent.
SkipBatch ==
    /\ pc = "review" /\ turn < Len(batches) /\ late
    /\ NotReviewed("time_budget")
    /\ turn' = turn + 1
    /\ UNCHANGED <<units, dropped, order, placed, batches, pc, late, reviewed, calls>>

SendBatch ==
    /\ pc = "review" /\ turn < Len(batches) /\ ~late
    /\ pc' = "call" /\ calls' = calls + 1
    /\ UNCHANGED <<units, dropped, order, placed, batches, reason, turn, late, reviewed>>

\* LLMError, or an answer without a findings list.
BatchFails ==
    /\ pc = "call"
    /\ \E why \in {"time_budget", "bad_output", "llm_error"} : NotReviewed(why)
    /\ turn' = turn + 1 /\ pc' = "review"
    /\ late' \in {late, TRUE}
    /\ UNCHANGED <<units, dropped, order, placed, batches, reviewed, calls>>

BatchAnswers ==
    /\ pc = "call"
    /\ reviewed' = reviewed \cup Current
    /\ turn' = turn + 1 /\ pc' = "review"
    /\ late' \in {late, TRUE}
    /\ UNCHANGED <<units, dropped, order, placed, batches, reason, calls>>

Return ==
    /\ pc = "review" /\ turn = Len(batches)
    /\ pc' = "done"
    /\ UNCHANGED <<units, dropped, order, placed, batches, reason, turn, late, reviewed, calls>>

\* Mutant: what the plan left out is forgotten.
ReviewStatusSent ==
    IF Len(units) = 0 THEN "complete"
    ELSE IF reviewed = {} THEN "failed"
    ELSE IF (\E i \in DOMAIN units : reason[i] \notin {"none", "budget", "too_large"})
            \/ (\E i \in reviewed : Fitted[units[i]].partial)
    THEN "partial" ELSE "complete"
\* review_coverage.
ReviewStatus ==
    IF Len(units) = 0 THEN "complete"
    ELSE IF reviewed = {} THEN "failed"
    ELSE IF (\E i \in DOMAIN units : reason[i] # "none") \/ (\E i \in reviewed : Fitted[units[i]].partial)
    THEN "partial" ELSE "complete"

Next ==
    \/ Place \/ StartReview
    \/ SkipBatch \/ SendBatch \/ BatchFails \/ BatchAnswers
    \/ Return

Spec == Init /\ [][Next]_vars
------------------------------------------------------------------------------
(* Properties.                                                             *)

\* Every variable keeps its type.
TypeOK ==
    /\ units \in Seq(Shapes) /\ dropped \in Nat
    /\ order \in [DOMAIN units -> DOMAIN units]
    /\ placed \in 0..Len(units)
    /\ batches \in Seq([units : SUBSET DOMAIN units, tokens : Nat])
    /\ reason \in [DOMAIN units -> Reasons \cup {"none"}]
    /\ pc \in {"plan", "review", "call", "done"}
    /\ turn \in 0..Len(batches) /\ late \in BOOLEAN
    /\ reviewed \subseteq DOMAIN units /\ calls \in 0..MaxCalls

\* "Units that don't fit are returned, never silently dropped" (review_plan.py:20-21), nor
\* reviewed twice: a unit the loop has dealt with is in one prompt or has a reason; in the
\* end it was in an answered prompt or has a reason, not both.
EveryUnitOnce ==
    /\ \A n \in 1..placed :
        LET homes == {b \in DOMAIN batches : order[n] \in batches[b].units} IN
        /\ Cardinality(homes) <= 1
        /\ homes = {} <=> reason[order[n]] \in {"budget", "too_large"}
    /\ pc = "done" => \A i \in DOMAIN units : i \in reviewed <=> reason[i] = "none"

Sizes == [i \in DOMAIN units |-> Fitted[units[i]].size]

\* Prompts keep to the limits of calls, units and tokens (the one exception: a unit cut to fit
\* may be over by the length by which its note is longer than the placeholder), and are packed
\* tight: no unit of a later prompt would fit an earlier one, a unit is left out for the budget
\* only when every call is used and no prompt has room for it, and a less evident one that is
\* taken instead is a smaller one.
PromptsPacked ==
    /\ Len(batches) <= MaxCalls
    /\ \A b \in DOMAIN batches :
        /\ Cardinality(batches[b].units) <= Lesser(MaxUnitsPerPrompt, Len(units))
           \/ Cardinality(batches[b].units) = 1
        /\ batches[b].tokens = MapThenSumSet(LAMBDA i : Sizes[i], batches[b].units)
        /\ \/ batches[b].tokens <= Available
           \/ \E i \in DOMAIN units :
                /\ batches[b].units = {i} /\ ~FitsWhole(units[i])
                /\ FitsCut(units[i], Fitted[units[i]].shown)
    /\ \A a, b \in DOMAIN batches : a < b =>
           \A i \in batches[b].units : ~HasRoom(batches[a], Fitted[units[i]].size)
    /\ \A i \in DOMAIN units : reason[i] = "budget" =>
        /\ Len(batches) = MaxCalls
        /\ \A b \in DOMAIN batches : ~HasRoom(batches[b], Fitted[units[i]].size)
        /\ \A j \in UNION {batches[b].units : b \in DOMAIN batches} :
               Before(units, i, j) => Fitted[units[j]].size < Fitted[units[i]].size

\* Windows around the changed lines that fit, from the least radius.
FittingRadii(u) ==
    {r \in 0..Len(u.cost) : FitsCut(u, Around(u, r, Cardinality(u.changed)))}

\* "It never fakes a clean result" (README.md:40-41), of the units the cap left: complete
\* means that every changed line, or every line of a unit without change information, was
\* in a prompt that was answered.  And no more is cut than must be: where sizes grow with the
\* radius, as _largest_fitting takes for granted (review_plan.py:170), a unit is cut to the
\* widest window around its changed lines that fits.  They do not grow where a blank line is
\* shorter than the marker that stands for it; such a unit may lose changed lines without need.
CompleteIsEarned ==
    /\ pc = "done" /\ ReviewStatus = "complete" =>
          \A i \in DOMAIN units :
              /\ \E b \in 1..turn : i \in batches[b].units
              /\ i \in reviewed
              /\ (IF units[i].changed # {} THEN units[i].changed ELSE Lines(units[i]))
                     \subseteq Fitted[units[i]].shown
    /\ placed > 0 =>
          LET u == units[order[placed]] IN
          /\ ~FitsWhole(u) /\ u.changed # {}
          /\ FittingRadii(u) # {} /\ FittingRadii(u) = 0..Max(FittingRadii(u))
          => Fitted[u].shown = Around(u, Max(FittingRadii(u)), Cardinality(u.changed))
==============================================================================
