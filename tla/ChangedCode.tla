----------------------------- MODULE ChangedCode -----------------------------
(***************************************************************************)
(* What a change selects: the lines of a changed file that count as        *)
(* touched (pr_context.normalize_files), the functions that become units   *)
(* of the review (analysis_planner.plan_units) and their old versions      *)
(* (guard_diff.old_code_for_units), the line a review comment hangs on     *)
(* (scan_pr.anchor_line), and the lines the evaluation sets call           *)
(* vulnerable (build_pr_eval.vuln_lines, run_eval.fix_changed_lines).      *)
(***************************************************************************)
EXTENDS Patches

\* A file of a request: its new and old text, its patch and the lines the client names,
\* each None when it did not send them; "added" when it said so.
NormalOld(f) ==
    CASE f.old # None -> f.old
      [] f.old = None /\ f.new = None -> None
      [] f.old = None /\ f.new # None /\ f.added -> <<>>
      [] f.old = None /\ f.new # None /\ ~f.added ->
            IF f.patch = None THEN None ELSE ReverseApply(f.new, f.patch)

\* normalize_files: a patch is made of both texts when there is none; E is the script
\* difflib finds between them.
NormalPatch(f, E) ==
    IF f.patch = None /\ NormalOld(f) # None /\ f.new # None THEN Patch(E, 3) ELSE f.patch

Status(f) ==
    CASE f.new = None -> "deleted"
      [] f.new # None /\ NormalOld(f) = None -> "unknown_base"
      [] f.new # None /\ NormalOld(f) = <<>> /\ f.new # <<>> -> "added"
      [] OTHER -> "modified"

\* None: every function is reviewed.
NormalLines(f, E) ==
    LET P == NormalPatch(f, E) IN
    CASE f.lines # None -> f.lines
      [] f.lines = None /\ Status(f) = "added" -> DOMAIN f.new
      [] f.lines = None /\ Status(f) # "added" ->
            IF P = None \/ f.new = None THEN None
            ELSE Touched([i \in DOMAIN P |-> Parsed(P[i])])

------------------------------------------------------------------------------
\* plan_units of one file: functions F of a supported language, ignored ones left out, and
\* the whole file when code outside of them changed (or when there are none and nothing
\* is known of the change).
Selected(fn, lines) == lines = None \/ fn.start..fn.end \cap lines # {}

WholeFile == [start |-> 0, end |-> 0, ignored |-> FALSE]

PlanUnits(F, lines, supported, fileIgnored) ==
    LET chosen == {fn \in F : supported /\ Selected(fn, lines) /\ ~fn.ignored}
        covered == UNION {fn.start..fn.end : fn \in F}
        wanted == IF ~supported THEN TRUE
                  ELSE IF lines = None THEN chosen = {} ELSE ~(lines \subseteq covered)
    IN chosen \cup {w \in {WholeFile} : wanted /\ ~fileIgnored}

\* Mutant: the new line number is looked for in the old file.
NearestUnmapped(olds, P, start) ==
    CHOOSE o \in olds : \A q \in olds : Distance(o, start) <= Distance(q, start)
\* old_code_for_units, build_pr_bundle: of the old functions of its name (their first
\* lines: olds), the one nearest to where its first line was.
Nearest(olds, P, start) ==
    LET target == OldLineFor(P, start) IN
    CHOOSE o \in olds : \A q \in olds : Distance(o, target) <= Distance(q, target)

OldVersion(f, P, olds, start) ==
    CASE NormalOld(f) = None -> "unknown_base"
      [] NormalOld(f) # None /\ olds = {} -> "added"
      [] NormalOld(f) # None /\ olds # {} -> Nearest(olds, P, start)

------------------------------------------------------------------------------
\* anchor_line: exact the finding's line, start its function's, 0 when the server sent none.
Closest(S, x) == CHOOSE s \in S : \A t \in S : Distance(s, x) <= Distance(t, x)

AnchorsAt(exact, changed, commentable) == exact \in changed \cup commentable

AnchorLine(exact, start, changed, commentable) ==
    LET from == IF exact = 0 THEN start ELSE exact
        after == {l \in changed : from = 0 \/ l >= from}
    IN CASE exact # 0 /\ AnchorsAt(exact, changed, commentable) -> exact
         [] ~(exact # 0 /\ AnchorsAt(exact, changed, commentable)) /\ changed = {} ->
                IF exact # 0 /\ commentable # {} THEN Closest(commentable, exact) ELSE 0
         [] ~(exact # 0 /\ AnchorsAt(exact, changed, commentable)) /\ changed # {} ->
                IF from \in changed THEN from
                ELSE IF after # {} THEN Min(after)
                ELSE Closest(changed, from)

------------------------------------------------------------------------------
(* The lines of the vulnerable text a fix is about.  V is the script that  *)
(* puts the weakness in: its new side is the vulnerable text.              *)

\* The runs of changed lines, as script positions: SequenceMatcher's opcodes.
ChangeBlocks(E) ==
    {b \in (DOMAIN E) \X (DOMAIN E) :
        /\ b[1] <= b[2] /\ \A k \in b[1]..b[2] : E[k].tag # "keep"
        /\ b[1] = 1 \/ E[b[1] - 1].tag = "keep"
        /\ b[2] = Len(E) \/ E[b[2] + 1].tag = "keep"}

Within(line, R) == \E r \in R : line \in r[1]..r[2]

\* vuln_lines: what the fix deletes or rewrites inside the vulnerable functions R, else
\* two lines around the places it inserts at.
VulnLines(V, R) ==
    LET n == Len(NewOf(V))
        changed == {News(V, k) : k \in {j \in DOMAIN V : V[j].tag = "add"}}
        gaps == {News(V, b[2]) : b \in {c \in ChangeBlocks(V) :
                                            \A k \in c[1]..c[2] : V[k].tag = "del"}}
        near(g) == LET p == IF g < 1 THEN 1 ELSE g IN ((p - 2)..(p + 2)) \cap 1..n
        inside == {l \in changed : Within(l, R)}
    IN IF inside # {} THEN inside
       ELSE UNION {near(g) : g \in {h \in gaps : \E r \in R : r[1] - 1 <= h /\ h <= r[2]}}

\* The lines on both sides of the gap behind line i.
AroundGap(i, context, n) == ((i - context + 1)..(i + context)) \cap 1..n

\* fix_changed_lines: of the old side of F, the fix, what it deletes or rewrites, and the
\* lines around each block it only inserts; blocks of blank lines do not count.
FixLines(F, context) ==
    LET n == Len(OldOf(F))
        said(b) == \E k \in b[1]..b[2] : F[k].text # Blank
        gone(b) == {k \in b[1]..b[2] : F[k].tag = "del"}
    IN UNION {IF gone(b) # {} THEN {Olds(F, k) : k \in gone(b)}
              ELSE AroundGap(Olds(F, b[2]), context, n)
              : b \in {c \in ChangeBlocks(F) : said(c)}}

------------------------------------------------------------------------------
(* Properties of one script E.                                             *)

\* A changed file as clients send it: both texts, or the new one and its patch, or all.
Sendable(E) ==
    {f \in [new : {NewOf(E)}, old : {OldOf(E), None}, patch : {Patch(E, 1), None},
            added : {FALSE}, lines : {None}] :
        OldOf(E) # NewOf(E) /\ (f.old # None \/ f.patch # None)}

\* A function with an added line, or with lines removed in it or next to it, is reviewed,
\* and no added line is outside what is reviewed.
ChangesPlanned(E) ==
    \A f \in Sendable(E), s, e \in DOMAIN NewOf(E) :
        LET fn == [start |-> s, end |-> e, ignored |-> FALSE]
            added == {News(E, k) : k \in {j \in DOMAIN E : E[j].tag = "add"}}
            gaps == {News(E, k) : k \in {j \in DOMAIN E : E[j].tag = "del"}}
            units == PlanUnits({fn}, NormalLines(f, E), TRUE, FALSE)
        IN s <= e =>
            /\ added \cap s..e # {} \/ gaps \cap (s - 1)..e # {} => fn \in units
            /\ added \subseteq s..e \/ WholeFile \in units

\* A function whose first line is kept is compared with its own old version, whatever
\* namesakes there were.
OwnOldVersion(E) ==
    \A f \in Sendable(E), k \in {j \in DOMAIN E : E[j].tag = "keep"} :
        \A namesake \in DOMAIN OldOf(E) :
            OldVersion(f, NormalPatch(f, E), {namesake, Olds(E, k)}, News(E, k)) = Olds(E, k)

\* The line a comment hangs on is one GitHub shows in the diff, and there is one when
\* something was added.
Anchored(E) ==
    LET P == Patch(E, 1) IN
    \A exact, start \in 0..(Len(NewOf(E)) + 1) :
        LET line == AnchorLine(exact, start, AddedLines(P), CommentableLines(P)) IN
        /\ line \in CommentableLines(P) \cup {0}
        /\ AddedLines(P) # {} => line # 0

\* E puts a weakness in, its reverse is the fix.  A line that counts as vulnerable for the
\* one evaluation because the fix takes it out counts for the other, and a fix that
\* says something leaves lines to hit.
TruthAgrees(E) ==
    LET text == NewOf(E)
        fix == FixLines(Swapped(E), 1)
        vuln == VulnLines(E, {<<1, Len(text)>>})
        taken == {News(E, k) : k \in {j \in DOMAIN E : E[j].tag = "add" /\ E[j].text # Blank}}
    IN /\ taken \subseteq vuln \cap fix
       /\ fix \cup vuln \subseteq DOMAIN text
       /\ text # <<>> /\ (\E k \in DOMAIN E : E[k].tag # "keep" /\ E[k].text # Blank)
            => fix # {} /\ vuln # {}
==============================================================================
