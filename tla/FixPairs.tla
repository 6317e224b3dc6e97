------------------------------- MODULE FixPairs -------------------------------
(***************************************************************************)
(* The pairs of a vulnerable and a fixed function a commit yields, and how *)
(* much of their difference is renaming (scripts/build_corpus_from_osv.py).*)
(***************************************************************************)
EXTENDS ChangedCode

CONSTANTS Tokens, Names     \* of a line of code: its tokens; the tokens that are identifiers

\* parse_hunk_ranges: the lines of the new side; a hunk without any has no range.
HunkRanges(P) == {<<P[h].c, P[h].c + P[h].d - 1>> : h \in {k \in DOMAIN P : P[k].d > 0}}

\* pair_functions_in_file: by name, where the old side has one of that name; functions are
\* [name, code, first, last], cosmetic says of two codes that only layout differs.
PairFunctions(pre, post, ranges, cosmetic) ==
    {pair \in pre \X post :
        LET old == pair[1]  new == pair[2] IN
        /\ {f \in pre : f.name = new.name} = {old}
        /\ old.code # new.code /\ <<old.code, new.code>> \notin cosmetic
        /\ \E r \in ranges : new.first <= r[2] /\ r[1] <= new.last}

------------------------------------------------------------------------------
(* compute_diff_quality, of the script E that turns the old lines into the *)
(* new ones.                                                               *)

TokensOf(E, S) == FlattenSeq([k \in 1..Cardinality(S) |-> Tokens[E[SetToSortSeq(S, <)[k]].text]])
\* _shape_key, _identifier_pairs: equal but for the identifiers, and which stand for which.
SameShape(s, t) ==
    Len(s) = Len(t) /\ \A k \in DOMAIN s : s[k] = t[k] \/ {s[k], t[k]} \subseteq Names
IdentifierPairs(s, t) == {<<s[k], t[k]>> : k \in {j \in DOMAIN s : s[j] \in Names}}

Sides(E, b) == [old |-> {k \in b[1]..b[2] : E[k].tag = "del"}, new |-> {k \in b[1]..b[2] : E[k].tag = "add"}]
Rewrapped(E, sides) ==
    sides.old # {} /\ sides.new # {} /\ SameShape(TokensOf(E, sides.old), TokensOf(E, sides.new))
\* The lines of a rewritten block that difflib may pair, each by its shape.
Pairable(E) ==
    UNION {LET sides == Sides(E, b) IN
           IF Rewrapped(E, sides) THEN {}
           ELSE {p \in sides.old \X sides.new : SameShape(Tokens[E[p[1]].text], Tokens[E[p[2]].text])}
           : b \in ChangeBlocks(E)}
LinePairings(E) ==
    {M \in SUBSET Pairable(E) : \A p, q \in M : p = q \/ (p[1] < q[1] /\ p[2] < q[2])
                                                     \/ (q[1] < p[1] /\ q[2] < p[2])}

RenameCandidates(E, pairing) ==
    {[old |-> {p[1]}, new |-> {p[2]}] : p \in pairing}
    \cup {s \in {Sides(E, b) : b \in ChangeBlocks(E)} : Rewrapped(E, s)}
PairsIn(E, c) == IdentifierPairs(TokensOf(E, c.old), TokensOf(E, c.new))

\* What the kept lines say of the identifiers: each stands for itself.
Unchanged(E) == UNION {IdentifierPairs(Tokens[E[k].text], Tokens[E[k].text]) :
                          k \in {j \in DOMAIN E : E[j].tag = "keep"}}

DiffQuality(E, pairing) ==
    LET candidates == RenameCandidates(E, pairing)
        stands == Unchanged(E) \cup UNION {PairsIn(E, c) : c \in candidates}
        accepted == {c \in candidates : \A p \in PairsIn(E, c), q \in stands :
                                            (p[1] = q[1]) <=> (p[2] = q[2])}
        lines == {k \in DOMAIN E : E[k].tag # "keep"}
        real == lines \ UNION {c.old \cup c.new : c \in accepted}
        renamed == {p \in UNION {PairsIn(E, c) : c \in accepted} : p[1] # p[2]}
    IN  [real |-> real, renamed |-> renamed, renameOnly |-> real = {} /\ renamed # {}]

------------------------------------------------------------------------------
\* Between the lines that count as changed, renaming turns the old function into the new one.
RenamesHold(E) ==
    LET news(q, t) == {p[2] : p \in {r \in q.renamed : r[1] = t}}
        new(q, t) == IF news(q, t) = {} THEN t ELSE CHOOSE u \in news(q, t) : TRUE
    IN  \A q \in {DiffQuality(E, pairing) : pairing \in LinePairings(E)} :
            LET left == DOMAIN E \ q.real
                old == TokensOf(E, {k \in left : IsOld(E[k])})
            IN  [k \in DOMAIN old |-> new(q, old[k])] = TokensOf(E, {k \in left : IsNew(E[k])})

\* A function whose first and last line stay is paired with its old version when a line
\* between them changed, and with no namesake.
ChangedArePaired(E) ==
    \A a, z \in {k \in DOMAIN E : E[k].tag = "keep"} : a <= z =>
        LET fn(text, first, last) == [name |-> "f", code |-> SubSeq(text, first, last),
                                      first |-> first, last |-> last]
            old == fn(OldOf(E), Olds(E, a), Olds(E, z))
            new == fn(NewOf(E), News(E, a), News(E, z))
            pairs(pre) == PairFunctions(pre, {new}, HunkRanges(Patch(E, 1)), {})
        IN  /\ pairs({old}) = IF old.code = new.code THEN {} ELSE {<<old, new>>}
            /\ pairs({old, [old EXCEPT !.first = 0]}) = {}
==============================================================================
