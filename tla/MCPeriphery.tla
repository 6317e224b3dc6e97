------------------------------ MODULE MCPeriphery ------------------------------
(* Small instances of the programs around the review. *)
EXTENDS Periphery
CONSTANTS a, b, o, p, t1, t2

\* Two findings that had the same marker once, b also another one, and comments under the
\* old markers, one of them twice.
MCLegacy == (a :> <<o>>) @@ (b :> <<o, p>>) @@ (o :> <<>>) @@ (p :> <<>>)
MCWants  == {<<>>, <<b>>, <<a, b>>}
MCOldComments    == (1 :> [marker |-> o, text |-> t1]) @@ (2 :> [marker |-> o, text |-> t2])
            @@ (3 :> [marker |-> p, text |-> t1])
RunSymmetry == Permutations(Runs)

Alert == [deterministic |-> TRUE, corroborated |-> {}, severity |-> 3]
MCResults ==
    [report : {<<>>, <<Alert>>, <<[Alert EXCEPT !.corroborated = {"semgrep"}]>>,
               <<[Alert EXCEPT !.deterministic = FALSE, !.severity = 2]>>},
     status : {"complete", "partial", "failed", "none"}, listsUnreviewed : BOOLEAN]

MCInputs == {<<"long", "twin", "short">>, <<"long", "short">>}
MCTextLength == [t \in {"long", "short", "twin"} |-> IF t = "long" THEN 9 ELSE 2]
MCFunctionOf == [t \in {"long", "short", "twin"} |-> IF t = "twin" THEN "long" ELSE t]
Match(point, score, prob) == [point |-> point, score |-> score, prob |-> prob]
MCCandidateMatches ==
    ("long" :> <<Match("p", 9, -1), Match("q", 7, -1), Match("r", 5, -1)>>)
    @@ ("short" :> <<Match("q", 8, -1), Match("p", 4, 6), Match("r", 3, 2)>>)
    @@ ("twin" :> <<Match("r", 8, -1), Match("p", 6, -1)>>)
MCNoProb == -1
MCSuppressNet == -2
MCPointOf == ("f" :> "p") @@ ("g" :> "p")

MCItems == <<2, 0, 1>>
MCRunLimits == {[calls |-> 3, tokens |-> 9], [calls |-> 9, tokens |-> 1]}

MCEcosystems == <<"pypi", "npm">>
MCListed == ("pypi" :> <<"A", "B", "W">>) @@ ("npm" :> <<"D", "B">>)
\* A and D report the same fix of two files; B's second file is gone; W has no fix.
MCFixOf == ("A" :> "c") @@ ("D" :> "c") @@ ("B" :> "d") @@ ("W" :> "none")
MCFilesOf == ("c" :> <<"f", "g">>) @@ ("d" :> <<"h", "i">>)
MCPairsOf ==
    LET pair(commit, fn, lines) == [commit |-> commit, fn |-> fn, changed |-> lines, rename |-> lines = 0,
                                      secure |-> FALSE, other |-> FALSE]
    IN  ("f" :> {pair("c", "f1", 2)}) @@ ("g" :> {pair("c", "g1", 0)})
        @@ ("h" :> {pair("d", "h1", 2), pair("d", "h2", 3)}) @@ ("i" :> {pair("d", "i1", 1)})
Record(id, language, code, fixed) == [id |-> id, language |-> language, code |-> code, fixed |-> fixed]
\* A record given twice, a fix that fixes nothing, a record without code; a fix that is gone later.
MCCorpora == {<<Record(1, "py", "v1", "f1"), Record(2, "js", "v2", "v2"), Record(1, "py", "v3", "none")>>,
              <<Record(2, "js", "v2", "none"), Record(3, "py", "v3", "f1"), Record(1, "py", "v1", "f1"),
                Record(4, "py", "none", "f2")>>,
              <<Record(3, "py", "v2", "f2")>>}
\* v3 is found by its words only, v2 is nearer to its fix.
MCDenseSim == [q \in {"q"} |-> ("v1" :> 9) @@ ("f1" :> 4) @@ ("v2" :> 6) @@ ("f2" :> 7) @@ ("v3" :> 3)]
MCSparseSim == [q \in {"q"} |-> ("v1" :> 1) @@ ("f1" :> 1) @@ ("v2" :> 4) @@ ("f2" :> 4) @@ ("v3" :> 5)]
MCNoMargin == -99

MCGone == {<<"pre", "i">>}
==============================================================================
