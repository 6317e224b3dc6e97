------------------------------- MODULE Patches -------------------------------
(***************************************************************************)
(* Unified diffs and what the program computes from them: the patches it   *)
(* writes (scripts/build_pr_eval.py, core/pr_context.py), the old content  *)
(* it gets back from one (core/guard_diff.py), the line numbers of the two *)
(* sides and the functions a change selects (core/analysis_planner.py).    *)
(*                                                                         *)
(* A diff is an edit script: what SequenceMatcher's opcodes say, line by   *)
(* line, the removed lines of a block before the added ones.  Every script *)
(* is considered, not only those SequenceMatcher would choose.  A text is  *)
(* its sequence of lines.                                                  *)
(***************************************************************************)
EXTENDS Integers, FiniteSets, Sequences, SequencesExt, FiniteSetsExt, Selection

CONSTANT None                       \* no text, no patch, no lines: what is not known

Blank == "blank"                    \* the text of a line of white space

\* The scripts, and the hunks, with lines of the texts W.
Scripts(W) == Seq([tag : {"keep", "del", "add"}, text : W])
Hunks(W) == [a : Nat, b : Nat, c : Nat, d : Nat, lines : Scripts(W)]

Texts(L) == [k \in DOMAIN L |-> L[k].text]
IsOld(e) == e.tag # "add"
IsNew(e) == e.tag # "del"

OldOf(E) == Texts(Picked(E, {k \in DOMAIN E : IsOld(E[k])}))
NewOf(E) == Texts(Picked(E, {k \in DOMAIN E : IsNew(E[k])}))

\* How many of the first k lines are on the old side, on the new side.
Olds(L, k) == Cardinality({j \in 1..k : IsOld(L[j])})
News(L, k) == Cardinality({j \in 1..k : IsNew(L[j])})

Distance(i, j) == IF i < j THEN j - i ELSE i - j

\* The reverse diff; each block keeps its removed lines first.
Turned == [keep |-> "keep", del |-> "add", add |-> "del"]
TagOrder == [keep |-> 0, del |-> 1, add |-> 2]
Precedes(E, i, j) ==
    LET block(k) == Cardinality({l \in 1..k : E[l].tag = "keep"})
        rank(k) == TagOrder[Turned[E[k].tag]]
    IN  \/ block(i) < block(j)
        \/ block(i) = block(j) /\ rank(i) < rank(j)
        \/ block(i) = block(j) /\ rank(i) = rank(j) /\ i < j
Swapped(E) ==
    LET order == Ranked(DOMAIN E, LAMBDA i, j : Precedes(E, i, j))
    IN  [k \in DOMAIN order |-> [tag |-> Turned[E[order[k]].tag], text |-> E[order[k]].text]]
------------------------------------------------------------------------------
(* Writing a patch.                                                        *)

\* group_opcodes: the lines within n lines of a change; a longer run of kept lines ends
\* the hunk.
Shown(E, n) ==
    {k \in DOMAIN E : \E j \in DOMAIN E : E[j].tag # "keep" /\ Distance(j, k) <= n}

HunkBounds(E, n) ==
    {b \in Shown(E, n) \X Shown(E, n) :
        /\ b[1] <= b[2] /\ b[1]..b[2] \subseteq Shown(E, n)
        /\ b[1] - 1 \notin Shown(E, n) /\ b[2] + 1 \notin Shown(E, n)}

\* Mutant: an empty side starts at the line that follows.
RangeStartNext(before, length) == before + 1
\* _range: a side's first line, or the line before it when the side is empty.
RangeStart(before, length) == IF length = 0 THEN before ELSE before + 1

HunkOf(E, i, j) ==
    LET L == SubSeq(E, i, j) IN
    [a |-> RangeStart(Olds(E, i - 1), Olds(L, Len(L))), b |-> Olds(L, Len(L)),
     c |-> RangeStart(News(E, i - 1), News(L, Len(L))), d |-> News(L, Len(L)), lines |-> L]

\* unified_diff, synthesize_patch: the hunks of script E with n lines of context.
Patch(E, n) ==
    LET B == Ranked(HunkBounds(E, n), LAMBDA x, y : x[1] < y[1])
    IN [h \in DOMAIN B |-> HunkOf(E, B[h][1], B[h][2])]

------------------------------------------------------------------------------
(* Reading a patch.                                                        *)

\* _parse_hunks, parse_patch: a hunk's lines until its counts are used up.
Parsed(h) ==
    LET spent(k) == Olds(h.lines, k) >= h.b /\ News(h.lines, k) >= h.d
        upto == CHOOSE k \in 0..Len(h.lines) :
                    (spent(k) \/ k = Len(h.lines)) /\ \A j \in 0..(k - 1) : ~spent(j)
    IN [h EXCEPT !.lines = SubSeq(h.lines, 1, upto)]

Refused == [ok |-> FALSE, text |-> <<>>, pos |-> 0]

\* The hunk lies behind the last one and its source side is there, line by line.
HunkFits(src, from, start, pos) ==
    /\ pos <= start /\ start + Len(from) <= Len(src)
    /\ \A k \in DOMAIN from : src[start + k] = from[k]

\* apply_patch: one hunk on the source lines; side "old" applies it, "new" backwards.
ApplyHunk(src, side, done, h) ==
    LET from == IF side = "old" THEN OldOf(h.lines) ELSE NewOf(h.lines)
        to == IF side = "old" THEN NewOf(h.lines) ELSE OldOf(h.lines)
        first == IF side = "old" THEN h.a ELSE h.c
        length == IF side = "old" THEN h.b ELSE h.d
        start == IF length > 0 THEN first - 1 ELSE first
    IN IF ~done.ok \/ ~HunkFits(src, from, start, done.pos) THEN Refused
       ELSE [ok |-> TRUE, pos |-> start + Len(from),
             text |-> done.text \o SubSeq(src, done.pos + 1, start) \o to]

Applied(src, side, P) ==
    LET done[i \in 0..Len(P)] ==
            IF i = 0 THEN [ok |-> TRUE, text |-> <<>>, pos |-> 0]
            ELSE ApplyHunk(src, side, done[i - 1], P[i])
        all == done[Len(P)]
    IN IF all.ok THEN all.text \o SubSeq(src, all.pos + 1, Len(src)) ELSE None

\* A hunk has the lines its header counts (GitHub cuts long patches off).
Whole(h) == Olds(h.lines, Len(h.lines)) = h.b /\ News(h.lines, Len(h.lines)) = h.d

\* reverse_apply_patch: the old content, or none (PatchMismatch).
ReverseApply(new, P) ==
    LET Q == [i \in DOMAIN P |-> Parsed(P[i])] IN
    IF Q = <<>> \/ \E i \in DOMAIN Q : ~Whole(Q[i]) THEN None ELSE Applied(new, "new", Q)

OldStart(h) == IF h.b > 0 THEN h.a ELSE h.a + 1
NewStart(h) == IF h.d > 0 THEN h.c ELSE h.c + 1
\* The number line k of a hunk has, or comes before, on either side.
OldNo(h, k) == OldStart(h) + Olds(h.lines, k - 1)
NewNo(h, k) == NewStart(h) + News(h.lines, k - 1)

Tagged(P, tag) == {p \in UNION {{i} \X DOMAIN P[i].lines : i \in DOMAIN P} :
                        P[p[1]].lines[p[2]].tag = tag}

\* parse_changed_lines, parse_patch_changed_lines: new-file numbers of the added lines.
AddedLines(P) == {NewNo(P[p[1]], p[2]) : p \in Tagged(P, "add")}
\* parse_commentable_lines, diff_lines: and of the kept ones a hunk shows.
CommentableLines(P) == AddedLines(P) \cup {NewNo(P[p[1]], p[2]) : p \in Tagged(P, "keep")}
\* deleted_old_lines
DeletedOldLines(P) == {OldNo(P[p[1]], p[2]) : p \in Tagged(P, "del")}

\* patch_touched_lines: and the lines next to each run of removed ones.
Touched(P) ==
    AddedLines(P) \cup UNION {
        LET h == P[p[1]]
            runStarts == p[2] = 1 \/ h.lines[p[2] - 1].tag # "del"
            at == NewNo(h, p[2])
        IN {at} \cup {x \in {at - 1} : runStarts /\ x >= 1} : p \in Tagged(P, "del")}

LastWith(P, from, line) == P[Max({i \in DOMAIN P : from[i] <= line})]

\* _old_line_for: walks the last hunk that starts at or before the line.
OldLineFor(P, line) ==
    LET from == [i \in DOMAIN P |-> P[i].c] IN
    IF \A i \in DOMAIN P : from[i] > line THEN line
    ELSE LET h == LastWith(P, from, line)
             walked == {k \in DOMAIN h.lines : h.c + News(h.lines, k - 1) <= line}
             count(tag) == Cardinality({k \in walked : h.lines[k].tag = tag})
         IN line + h.a - h.c + count("del") - count("add")

\* new_line_for: the line's own new number, for a removed line that of the line behind it.
NewLineFor(P, line) ==
    LET from == [i \in DOMAIN P |-> OldStart(P[i])] IN
    IF \A i \in DOMAIN P : from[i] > line THEN line
    ELSE LET h == LastWith(P, from, line)
             here == {k \in DOMAIN h.lines : IsOld(h.lines[k]) /\ OldNo(h, k) = line}
             end == Len(h.lines) + 1
         IN IF here # {} THEN NewNo(h, CHOOSE k \in here : TRUE)
            ELSE line + NewNo(h, end) - OldNo(h, end)

------------------------------------------------------------------------------
(* Properties of one script E, written with n lines of context.            *)

\* What was written is read back: forwards, backwards, and by the reverse reader, which
\* refuses a patch whose last hunk is cut off.
RoundTrips(E, n) ==
    LET P == Patch(E, n)
        h == Last(P)
        cut == [P EXCEPT ![Len(P)] = [h EXCEPT !.lines = Front(h.lines)]]
    IN /\ Applied(OldOf(E), "old", P) = NewOf(E)
       /\ Applied(NewOf(E), "new", P) = OldOf(E)
       /\ P # <<>> => /\ ReverseApply(NewOf(E), P) = OldOf(E)
                      /\ ReverseApply(NewOf(E), cut) = None

\* A kept line is mapped to its number on the other side from either side, inside the hunks
\* and between them, and a removed line to a place that counts as touched.
MapsAgree(E, n) ==
    LET P == Patch(E, n) IN
    \A k \in DOMAIN E :
        /\ E[k].tag = "keep" => /\ OldLineFor(P, News(E, k)) = Olds(E, k)
                               /\ NewLineFor(P, Olds(E, k)) = News(E, k)
        /\ E[k].tag = "del" => NewLineFor(P, Olds(E, k)) \in Touched(P)
==============================================================================
