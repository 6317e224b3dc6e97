------------------------------ MODULE Selection ------------------------------
(***************************************************************************)
(* What the program picks with: the bisection it uses wherever a text is   *)
(* cut until it fits, the order of a set, the picked elements of a list    *)
(* and a list in the order of its weights.  These have no SetToSortSeq or SelectSeq, because the      *)
(* prover knows no definition of those.                                    *)
(***************************************************************************)
EXTENDS Integers, FiniteSets

\* _largest_fitting, and the loops of fit_file_section and build_verifier_prompt: over the
\* values that fit, -1 for None.
LargestFitting(lo, hi, fits) ==
    LET search[at \in (lo..hi) \X (lo..hi)] ==
            LET l == at[1]
                h == at[2]
                mid == (l + h + 1) \div 2
            IN  IF l >= h THEN l
                ELSE IF mid \in fits THEN search[<<mid, h>>] ELSE search[<<l, mid - 1>>]
    IN IF hi < lo \/ lo \notin fits THEN -1 ELSE search[<<lo, hi>>]

\* list.sort: the elements of a finite set, each where it has as many before it.
Ranked(S, before(_, _)) ==
    [k \in 1..Cardinality(S) |-> CHOOSE x \in S : Cardinality({y \in S : before(y, x)}) = k - 1]

\* A comprehension with a condition: the elements of a list at some places, in its order.
Picked(s, places) ==
    LET order == Ranked(places, LAMBDA i, j : i < j)
    IN  [k \in 1..Cardinality(places) |-> s[order[k]]]

\* sorted(key=..., reverse=True): the heaviest first, equals as they were.
Heavier(w, i, j) == w[i] > w[j] \/ (w[i] = w[j] /\ i < j)
HeaviestFirst(S, w) == Ranked(S, LAMBDA i, j : Heavier(w, i, j))
Stably(s, weight) ==
    LET order == HeaviestFirst(DOMAIN s, weight)
    IN  [k \in DOMAIN order |-> s[order[k]]]
==============================================================================
