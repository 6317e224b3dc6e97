------------------------------ MODULE AuditPlan ------------------------------
(***************************************************************************)
(* How the changed files of a pull request are cut and packed into audit   *)
(* prompts (core/pr_context.py: fit_file_section, core/pr_review.py:       *)
(* plan_audit_chunks), and how the context a model asks for is found       *)
(* (SymbolIndex, resolve_context).  What PRReview takes from this is in    *)
(* PromptsSound.                                                           *)
(*                                                                         *)
(* A file is a record of the sizes of the parts of its section, in tokens: *)
(* `rows` of its diff (0 when it has none), `after[r]` of its changed      *)
(* functions cut r lines around the changes, `whole` uncut, `before`,      *)
(* `context` and `leads`; and `inFunctions`, whether all that changed is   *)
(* in those functions, `known`, whether it is known what changed.          *)
(***************************************************************************)
EXTENDS Integers, FiniteSets, Sequences, SequencesExt, FiniteSetsExt, Selection

CONSTANTS
    Room,              \* tokens for the sections of one prompt
    MaxPrompts,        \* PR_REVIEW_MAX_AUDIT_CALLS
    MaxExamples        \* PR_REVIEW_FIX_EXAMPLES

ASSUME RoomAssumption == Room \in Nat /\ MaxPrompts \in Nat /\ MaxExamples \in Nat

All == -1                              \* None of SectionPlan: uncut
NoPlan == [context |-> FALSE, before |-> FALSE, radius |-> All, after |-> FALSE, rows |-> 0]

\* SectionPlan()
Richest == [context |-> TRUE, before |-> TRUE, radius |-> All, after |-> TRUE, rows |-> All]

\* SectionPlan.partial
PartialPlan(plan) == plan.rows # All

\* render_file_section, in tokens; 1 for the header.
SectionSize(f, plan) ==
    1 + f.leads + (IF plan.rows = All THEN f.rows ELSE plan.rows)
    + (IF ~plan.after THEN 0
       ELSE (IF plan.radius = All THEN f.whole ELSE f.after[plan.radius])
            + (IF plan.before THEN f.before ELSE 0))
    + (IF plan.context THEN f.context ELSE 0)

\* What changed is in the section: the diff shows it, or the functions do where the change
\* is known or they are whole (_after_code).
ShowsChanges(f, plan) ==
    \/ f.rows > 0 /\ plan.rows = All
    \/ plan.after /\ f.inFunctions /\ (f.known \/ plan.radius = All)

\* fit_file_section: the richest plan whose section fits.
FitSection(f, room) ==
    LET fits(plan) == SectionSize(f, plan) <= room
        noContext == [Richest EXCEPT !.context = FALSE]
        noBefore == [noContext EXCEPT !.before = FALSE]
        longest == Max(DOMAIN f.after)
        radius == LargestFitting(0, longest, {r \in 0..longest : fits([noBefore EXCEPT !.radius = r])})
        diffOnly == [noBefore EXCEPT !.after = FALSE]
        rows == LargestFitting(1, f.rows, {n \in 1..f.rows : fits([diffOnly EXCEPT !.rows = n])})
    IN CASE fits(Richest) -> Richest
         [] ~fits(Richest) /\ fits(noContext) -> noContext
         [] ~fits(noContext) /\ fits(noBefore) -> noBefore
         [] ~fits(noBefore) /\ longest > 0 /\ radius >= 0 -> [noBefore EXCEPT !.radius = radius]
         [] ~fits(noBefore) /\ ~(longest > 0 /\ radius >= 0) /\ fits(diffOnly) -> diffOnly
         [] ~fits(diffOnly) /\ ~(longest > 0 /\ radius >= 0) ->
                IF rows > 0 THEN [diffOnly EXCEPT !.rows = rows] ELSE NoPlan

------------------------------------------------------------------------------
(* The packing.  A prompt is its files, as positions, and its tokens.      *)

NoPrompts == [prompts |-> <<>>, plan |-> <<>>, fate |-> <<>>]

Roomiest(prompts) ==
    CHOOSE i \in DOMAIN prompts :
        \A j \in DOMAIN prompts :
            \/ prompts[i].tokens < prompts[j].tokens
            \/ prompts[i].tokens = prompts[j].tokens /\ i <= j

\* What is left of a prompt, less the blank line between sections.
RoomLeft(prompt) == Room - prompt.tokens - 2

Placed(S, f, plan, i) ==
    LET n == Len(S.fate) + 1
        old == IF i \in DOMAIN S.prompts THEN S.prompts[i] ELSE [files |-> <<>>, tokens |-> 0]
        new == [files |-> Append(old.files, n), tokens |-> old.tokens + SectionSize(f, plan) + 2]
    IN [prompts |-> IF i \in DOMAIN S.prompts THEN [S.prompts EXCEPT ![i] = new]
                    ELSE Append(S.prompts, new),
        plan |-> Append(S.plan, plan), fate |-> Append(S.fate, "in_prompt")]

Left(S, reason) ==
    [S EXCEPT !.plan = Append(@, NoPlan), !.fate = Append(@, reason)]

\* One turn of plan_audit_chunks: the first prompt with room, a new one, or a smaller version
\* in the roomiest one.
PlaceFile(S, f) ==
    LET plan == FitSection(f, Room)
        need == SectionSize(f, plan) + 2
        rooms == {i \in DOMAIN S.prompts : S.prompts[i].tokens + need <= Room}
        r == Roomiest(S.prompts)
        squeezed == FitSection(f, RoomLeft(S.prompts[r]))
    IN CASE plan = NoPlan -> Left(S, "too_large")
         [] plan # NoPlan /\ rooms # {} -> Placed(S, f, plan, Min(rooms))
         [] plan # NoPlan /\ rooms = {} /\ Len(S.prompts) < MaxPrompts ->
                Placed(S, f, plan, Len(S.prompts) + 1)
         [] plan # NoPlan /\ rooms = {} /\ Len(S.prompts) >= MaxPrompts ->
                IF S.prompts # <<>> /\ squeezed # NoPlan /\ ~PartialPlan(squeezed)
                THEN Placed(S, f, squeezed, r) ELSE Left(S, "budget")

\* plan_audit_chunks, over the files in the order of their leads.
Packed(order) == FoldLeft(PlaceFile, NoPrompts, order)

\* _fix_examples: the first of each category that has both codes.
FixExamples(matches) ==
    LET usable(i) == /\ matches[i].complete
                     /\ \A j \in 1..(i - 1) : matches[j].complete => matches[j].category # matches[i].category
        first == SetToSortSeq({i \in DOMAIN matches : usable(i)}, LAMBDA i, j : i < j)
    IN SubSeq(first, 1, IF Len(first) < MaxExamples THEN Len(first) ELSE MaxExamples)

\* The examples that still fit the prompt.
WithExamples(tokens, matches) ==
    FoldLeft(LAMBDA acc, i : IF acc.tokens + matches[i].cost <= Room
                             THEN [tokens |-> acc.tokens + matches[i].cost, taken |-> Append(acc.taken, i)]
                             ELSE acc,
             [tokens |-> tokens, taken |-> <<>>], FixExamples(matches))

------------------------------------------------------------------------------
(* Properties of one order of files.                                       *)

\* What PRReview assumes of the plan: a file is in one prompt or has a reason, no prompt is
\* empty, and files are left out for the budget only when every prompt is open.
PlanAllowed(order) ==
    LET S == Packed(order) IN
    /\ Len(S.prompts) <= MaxPrompts
    /\ \A i \in DOMAIN S.prompts : S.prompts[i].files # <<>>
    /\ \A k \in DOMAIN order :
        /\ Cardinality({i \in DOMAIN S.prompts : k \in ToSet(S.prompts[i].files)})
            = IF S.fate[k] = "in_prompt" THEN 1 ELSE 0
        /\ S.fate[k] = "budget" => Len(S.prompts) = MaxPrompts

\* A prompt is within its room (but for the blank line behind a lone section), and only a
\* file that has its first place in a prompt is clipped.  The examples of past fixes take
\* what is left and no more, one of a category.
PromptsKeepRoom(order, matches) ==
    LET S == Packed(order) IN
    \A i \in DOMAIN S.prompts :
        LET prompt == S.prompts[i] IN
        /\ prompt.tokens <= Room + (IF Len(prompt.files) = 1 THEN 2 ELSE 0)
        /\ prompt.tokens = FoldLeft(+, 0, [k \in DOMAIN prompt.files |->
                SectionSize(order[prompt.files[k]], S.plan[prompt.files[k]]) + 2])
        /\ \A k \in DOMAIN prompt.files :
            PartialPlan(S.plan[prompt.files[k]]) =>
                PartialPlan(FitSection(order[prompt.files[k]], Room))
        /\ LET examples == WithExamples(prompt.tokens, matches) IN
           /\ examples.taken # <<>> => examples.tokens <= Room
           /\ IsInjective([e \in DOMAIN examples.taken |-> matches[examples.taken[e]].category])

\* A file that is in a prompt and not called partial is shown with all that changed in it:
\* SectionPlan.partial is "Changed lines went unseen", and a file with unseen lines does not
\* count as reviewed.
SectionsShow(order, plans) ==
    \A k \in DOMAIN order :
        plans.fate[k] = "in_prompt" /\ ~PartialPlan(plans.plan[k])
            => ShowsChanges(order[k], plans.plan[k])
==============================================================================
