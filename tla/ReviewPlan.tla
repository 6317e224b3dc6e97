------------------------------ MODULE ReviewPlan -----------------------------
(***************************************************************************)
(* How the per-unit review sizes one analysis unit and cuts it until it    *)
(* fits a prompt (backend/app/core/review_plan.py:109-236): references go  *)
(* first, then code away from the changed lines, then changed lines.       *)
(*                                                                         *)
(* A unit is a record: `cost`, the characters of each of its lines with    *)
(* its number; `changed`, the lines of it that changed ({} without change  *)
(* information); `cves` and `team`, the numbers of its references; and     *)
(* `evidence`, what unit_priority looks at.  Lines count from 1.           *)
(***************************************************************************)
EXTENDS Integers, FiniteSets, Sequences, FiniteSetsExt, Selection

CONSTANTS
    Available,         \* LLM_MAX_PROMPT_TOKENS less the overhead of a prompt, may be negative
    MaxRefs,           \* LLM_MAX_CVES_PER_UNIT
    HeaderChars,       \* characters of a section without code, references and note
    RefChars,          \* of one reference
    MarkerChars,       \* of one "[... N line(s) omitted ...]"
    PlaceholderChars,  \* of _NOTE_PLACEHOLDER
    NoteChars          \* of the note a cut unit gets

ASSUME SizesAssumption ==
    /\ Available \in Int /\ MaxRefs \in Nat
    /\ HeaderChars \in Nat /\ RefChars \in Nat /\ MarkerChars \in Nat
    /\ PlaceholderChars \in Nat /\ NoteChars \in Nat

Lesser(x, y) == IF x <= y THEN x ELSE y

Lines(u) == 1..Len(u.cost)

\* estimate_tokens, ceil(chars / 4 * 1.25), and the blank line between units.
Tokens(chars) == (5 * chars + 15) \div 16 + 2

\* elide: a marker for each run of lines that are not kept.
Markers(u, keep) == {i \in Lines(u) : i \notin keep /\ (i = 1 \/ i - 1 \in keep)}

\* size_of the unit with this many references, these lines and a note of this length.
Size(u, refs, keep, note) ==
    Tokens(HeaderChars + RefChars * refs + note
           + MapThenSumSet(LAMBDA i : u.cost[i], keep)
           + MarkerChars * Cardinality(Markers(u, keep)))

\* plan_batches caps both lists first.
Refs(u) == Lesser(u.cves, MaxRefs) + Lesser(u.team, MaxRefs)

\* The references left when the unit fits with its whole code, else none.
RefsLeft(u) ==
    LET fit == {r \in 0..Refs(u) : Size(u, r, Lines(u), 0) <= Available} IN
    IF fit = {} THEN 0 ELSE Max(fit)

FitsWhole(u) == Size(u, RefsLeft(u), Lines(u), 0) <= Available

\* `fits` of _shrink_to_fit: sized with the placeholder.
FitsCut(u, keep) == Size(u, 0, keep, PlaceholderChars) <= Available

\* _around_changes: the signature and `radius` lines either side of the first changed lines.
Around(u, radius, limit) ==
    {1} \cup {i \in Lines(u) : \E c \in u.changed :
                 /\ Cardinality({d \in u.changed : d < c}) < limit
                 /\ c - radius <= i /\ i <= c + radius}

\* _head_and_tail.
HeadAndTail(u, k) == {i \in Lines(u) : i <= k \/ i > Len(u.cost) - k}

\* The lines a unit too big for a prompt keeps, {} if not even one fits.
CutLines(u) ==
    LET n == Len(u.cost)
        all == Cardinality(u.changed)
        radius == LargestFitting(0, n, {r \in 0..n : FitsCut(u, Around(u, r, all))})
        count == LargestFitting(1, all, {k \in 1..all : FitsCut(u, Around(u, 0, k))})
        half == LargestFitting(1, (n + 1) \div 2, {k \in Lines(u) : FitsCut(u, HeadAndTail(u, k))})
    IN IF u.changed # {}
       THEN IF radius >= 0 THEN Around(u, radius, all)
            ELSE IF count >= 0 THEN Around(u, 0, count) ELSE {}
       ELSE IF half >= 0 THEN HeadAndTail(u, half) ELSE {}

\* _shrink_to_fit, and what comes out of it.
Shown(u) == IF FitsWhole(u) THEN Lines(u) ELSE CutLines(u)

TooLarge(u) == ~FitsWhole(u) /\ CutLines(u) = {}

\* "partial": changed lines were cut, or any lines of a unit without change information.
Partial(u) ==
    ~FitsWhole(u) /\ IF u.changed # {} THEN ~(u.changed \subseteq CutLines(u))
                     ELSE CutLines(u) # Lines(u)

PromptSize(u) ==
    IF FitsWhole(u) THEN Size(u, RefsLeft(u), Lines(u), 0)
    ELSE Size(u, 0, CutLines(u), NoteChars)

\* unit_priority: an alert, a Semgrep hit, a removed guard, then the best similarity.
MoreEvident(u, v) ==
    \E i \in 1..4 : /\ u.evidence[i] > v.evidence[i]
                    /\ \A j \in 1..(i - 1) : u.evidence[j] = v.evidence[j]
==============================================================================
