----------------------------- MODULE MCUnitsReview ---------------------------
(* Small data for the UnitsReview runs, in the code's proportions: a line of code *)
(* has 40 characters or, blank, 8; a marker 43; the note 165 and its placeholder  *)
(* 120.  A prompt takes 409 characters: two medium units do not share one.        *)
EXTENDS UnitsReview, TLC

Code(n) == [i \in 1..n |-> 40]
Plain(cost, changed) ==
    [cost |-> cost, changed |-> changed, cves |-> 0, team |-> 0, evidence |-> <<0, 0, 0, 0>>]

Small   == Plain(<<40, 8>>, {2})
Medium  == Plain(Code(4), {1})
\* Loses one of its references.
Cited   == [Plain(Code(4), {2}) EXCEPT !.cves = 3, !.team = 2, !.evidence = <<0, 0, 0, 7>>]
\* Cut to the lines around one change; the second one's note is too long by then.
Window  == [Plain(Code(10), {6}) EXCEPT !.cves = 1, !.evidence = <<0, 1, 0, 0>>]
Window2 == Plain(Code(10), {2})
\* Blank lines between changed ones: a marker is longer than the line it replaces.
Jagged  == Plain(<<40>> \o [i \in 1..8 |-> 8] \o Code(7), {2, 4, 6, 8})
\* Changes too far apart; no change information; not one line fits.
Far     == [Plain(Code(12), {3, 6, 9}) EXCEPT !.evidence = <<1, 0, 1, 0>>]
Snippet == Plain(Code(10), {})
Huge    == Plain(<<300, 300>>, {2})

MCShapes == {Small, Medium, Cited, Window, Window2, Far, Snippet, Huge,
             [Small EXCEPT !.evidence = <<0, 0, 1, 0>>],
             [Medium EXCEPT !.cves = 1, !.evidence = <<0, 0, 0, 5>>], Jagged}
==============================================================================
