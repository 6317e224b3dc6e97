----------------------------- MODULE MCAlgorithms -----------------------------
(* Small data for the algorithms. *)
EXTENDS Algorithms

MCMaxLines == [script |-> 5, removal |-> 4, renames |-> 4]
MCWords == [script |-> {"a", Blank}, removal |-> {"a", "guard", Blank},
            renames |-> {"x", "y", "xy", "call"}]
\* Two lines of code that may be written on one.
MCTokens == ("x" :> <<"x", "+">>) @@ ("y" :> <<"y", "+">>) @@ ("xy" :> <<"x", "+", "y", "+">>)
            @@ ("call" :> <<"(", "y">>)

\* One construct of each form, some of them twins.
Plain == [form |-> "helper", called |-> FALSE, name |-> "f", idents |-> {}, kind |-> "none",
          exit |-> "none", shape |-> "s", tainted |-> FALSE, ordered |-> FALSE, sized |-> FALSE,
          guards |-> FALSE, replaces |-> FALSE, safe |-> FALSE, group |-> "g", weight |-> 70,
          swap |-> 85, defaultSafe |-> TRUE, inSignature |-> FALSE, interpolated |-> FALSE,
          placeholder |-> FALSE]
Raise == [Plain EXCEPT !.form = "block", !.exit = "raise", !.idents = {"x"}]
Call(name) == [Plain EXCEPT !.form = "call", !.called = TRUE, !.name = name]
Api == [Plain EXCEPT !.form = "api", !.kind = "safe_api"]
Flag == [Plain EXCEPT !.form = "flag", !.kind = "tls_verify", !.name = "verify"]
Sql == [Plain EXCEPT !.form = "sql"]

MCConstructs ==
    {[Raise EXCEPT !.kind = "auth_check"], [Raise EXCEPT !.shape = "t", !.tainted = TRUE],
     [Raise EXCEPT !.shape = "u"],
     [Plain EXCEPT !.form = "cond", !.ordered = TRUE, !.sized = TRUE, !.idents = {"x"}],
     [Call("escape") EXCEPT !.kind = "sanitiser"],
     [Plain EXCEPT !.called = TRUE, !.name = "check_all", !.idents = {"x"}],
     Api, [Api EXCEPT !.safe = TRUE],
     Flag, [Flag EXCEPT !.safe = TRUE],
     [Sql EXCEPT !.interpolated = TRUE], [Sql EXCEPT !.placeholder = TRUE]}

\* 'x' and x differ in quote characters.
MCQuoteWords == {"x", "'x'", "comment", "y"}
MCLooseForm == [t \in MCQuoteWords \cup {"a", "guard", Blank} |-> IF t = "'x'" THEN "x" ELSE t]

MCConfirmed ==
    {[file |-> "f", unit |-> "u", first |-> 5, last |-> 6, key |-> k, severity |-> v] :
        k \in {"k", "l"}, v \in 1..3}
    \cup {[file |-> "g", unit |-> "u", first |-> 5, last |-> 6, key |-> "k", severity |-> 3]}
Weakening == [file |-> "f", unit |-> "u", alert |-> TRUE, weakened |-> TRUE, confident |-> TRUE,
          line |-> 7, key |-> "guard"]
MCAlerts == {Weakening, [Weakening EXCEPT !.line = 0, !.key = "k"], [Weakening EXCEPT !.line = 9, !.unit = "w"],
             [Weakening EXCEPT !.confident = FALSE], [Weakening EXCEPT !.weakened = FALSE]}
MCHits == {[file |-> "f", unit |-> "w", first |-> 9, last |-> 9, lowConfidence |-> FALSE],
           [file |-> "f", unit |-> "u", first |-> 7, last |-> 7, lowConfidence |-> TRUE]}
MCOutcomes ==
    {o \in [reviewed : {{}, {1}, {1, 2}}, partial : {{}, {1}}, unverified : 0..1,
            notReviewed : {<<>>, 3 :> "budget", 3 :> "llm_error"}] :
        (o.reviewed = {} => o.partial = {} /\ o.unverified = 0)}

Pc(form, holds) == [form |-> form, holds |-> holds]
MCPieces == {Pc("object", k) : k \in {"findings", "context", "note", "verdict"}}
            \cup {Pc("list", "note"), Pc("fence", "findings"), Pc("fence", "context"),
                  Pc("closed", "none"), Pc("unclosed", "none"), Pc("cut", "none"), Pc("prose", "none")}
MCUnitAnswers == [unit : {0, 2}, in : {{}, {1, 2}}, key : {"k", "l"}, rank : 1..2, cve : {"c", "d"}]
MCSinkRows == {<<>>, <<"exec">>, <<"sql">>, <<"exec", "sql">>}
MCClaims ==
    {c \in [n : {3, 7, 12}, line : {1, 4, 7}, fn : {{}, 1..2, 3..6, 1..7}, rows : {0, 1, 6},
            callers : {0, 2}, budget : 1..20] : c.line <= c.n /\ c.fn \subseteq 1..c.n}

Shape == [rows |-> 2, after |-> [r \in 0..2 |-> r + 1], whole |-> 3, before |-> 2, context |-> 2,
          leads |-> 0, inFunctions |-> TRUE, known |-> TRUE]
\* Small, with leads, long ones, too long, module-level code only, and one GitHub sent no
\* diff of, with code outside functions.
MCShapes ==
    {[Shape EXCEPT !.context = 0, !.before = 0], Shape, [Shape EXCEPT !.leads = 3],
     [Shape EXCEPT !.rows = 7, !.whole = 9, !.after = [r \in 0..4 |-> 2 * r + 2]],
     [Shape EXCEPT !.rows = 12], [Shape EXCEPT !.leads = 12],
     [Shape EXCEPT !.rows = 4, !.after = 0 :> 0, !.whole = 0, !.before = 0, !.context = 0,
                   !.inFunctions = FALSE],
     [Shape EXCEPT !.rows = 0, !.inFunctions = FALSE, !.known = FALSE]}
MCMatches == <<[complete |-> TRUE, category |-> "xss", cost |-> 3],
               [complete |-> FALSE, category |-> "sqli", cost |-> 1],
               [complete |-> TRUE, category |-> "xss", cost |-> 1],
               [complete |-> TRUE, category |-> "sqli", cost |-> 2]>>

Def(name, kind, first, last) ==
    [path |-> "p", name |-> name, qual |-> name, kind |-> kind, first |-> first, last |-> last]
\* outer contains a class with a method, which contains a closure; and two namesakes.
Outer == Def("outer", "function", 1, 9)
Method == [Def("m", "method", 3, 8) EXCEPT !.qual = "C.m"]
Closure == Def("inner", "function", 4, 6)
MCSymbols == {Outer, Def("C", "class", 2, 8), Method, Closure, Def("m", "function", 12, 14),
              [Def("m", "variable", 16, 16) EXCEPT !.path = "q"]}
MCCalls == <<[callee |-> "m", caller |-> {Outer}], [callee |-> "inner", caller |-> {Method}],
             [callee |-> "m", caller |-> {}]>>
MCDefCost == [d \in MCSymbols |-> IF d.kind = "class" THEN 4 ELSE 2]
MCRequests == [symbol : {"m", "inner", "none"}, callers : BOOLEAN, file : {"p"}]

MCRetrieved == [sim : {4, 6}, prob : {3, 7, Unscored}, margin : {0, 2, Unscored}]
\* What the verifier may say: confirmed, too unsure to report, with and without evidence.
MCEvalCandidates ==
    LET c(severity, audit, verdict, confidence, evidence, excluded, finding) ==
            [severity |-> severity, audit |-> audit, verdict |-> verdict, confidence |-> confidence,
             evidence |-> evidence, excluded |-> excluded, finding |-> finding]
        on(file, first, last) == [file |-> file, first |-> first, last |-> last]
        said == {<<"confirmed", 8, FALSE>>, <<"confirmed", 5, TRUE>>, <<"uncertain", 6, TRUE>>,
                 <<"uncertain", 3, TRUE>>, <<"rejected", 9, TRUE>>}
    IN  {c(1, 6, v[1], v[2], v[3], FALSE, on("f", 5, 6)) : v \in said}
        \cup {c(2, a, v[1], v[2], v[3], FALSE, IF a = 7 THEN on("f", 7, 9) ELSE on("f", 2, 2)) :
                 v \in said, a \in {7, Unscored}}
        \cup {c(1, 7, "confirmed", 8, FALSE, TRUE, on("f", 5, 5)), c(2, 3, "confirmed", 9, TRUE, FALSE, on("g", 0, 0)),
              c(2, 8, "confirmed", 8, FALSE, FALSE, on("g", 0, 0)), c(2, 9, "none", 0, FALSE, FALSE, on("g", 4, 4))}
MCTruths ==
    {[file |-> "f", lines |-> {5}, anchors |-> [f |-> {5, 8}, g |-> {}], functions |-> [f |-> {4..9}, g |-> {}],
      added |-> {}],
     [file |-> "f", lines |-> {5}, anchors |-> [f |-> {}, g |-> {}], functions |-> [f |-> {}, g |-> {}], added |-> {}],
     [file |-> "f", lines |-> {}, anchors |-> [f |-> {3}, g |-> {}], functions |-> [f |-> {1..6}, g |-> {}],
      added |-> {"g"}]}

MCItems == [kind : {"vuln", "fix"}, pair : 1..2] \cup {[kind |-> "other", pair |-> 0]}
MCCommits ==
    {[language |-> 1, repo |-> "a", first |-> FALSE], [language |-> 1, repo |-> "a", first |-> TRUE],
     [language |-> 1, repo |-> "b", first |-> FALSE],
     [language |-> 2, repo |-> "a", first |-> TRUE], [language |-> 2, repo |-> "c", first |-> FALSE]}
MCItemQuotas == {[vuln |-> v, fix |-> f, other |-> 1] : v \in 1..2, f \in 1..2} \cup {[fix |-> 1, other |-> 2]}
                \cup {[vuln |-> 2, other |-> 1]}
MCMixes == {<<>>, 1 :> 1, (1 :> 1) @@ (2 :> 2)}

\* Of a fix: one file; two, of which the larger has more vulnerable functions; one that is not
\* to be had, and a bystander too large beside another; a bystander only.
MCSideOf == ("d" :> "dev") @@ ("t" :> "test") @@ ("n" :> "none") @@ ("u" :> "test")
MCDisplayOf == ("d" :> 1) @@ ("t" :> 2) @@ ("n" :> 1) @@ ("u" :> 1)
MCFixCommits ==
    LET f(path, size, pairs) == [path |-> path, size |-> size, pairs |-> pairs, mined |-> FALSE, there |-> TRUE,
                                 says |-> TRUE]
        sets == {{f(1, 2, 1)}, {f(1, 1, 1), f(2, 3, 2), f(3, 1, 0)},
                 {[f(1, 1, 1) EXCEPT !.there = FALSE], f(2, 2, 1), f(3, 3, 0), f(4, 1, 0)},
                 {[f(1, 1, 0) EXCEPT !.mined = TRUE], f(2, 5, 0), f(3, 1, 0)}}
    IN  {c \in [name : {0}, repo : {"a", "b"}, osv : 1..2, files : sets,
                bases : {{}, {"d"}, {"t"}, {"n"}, {"d", "u"}, {"d", "n"}}] :
            c.bases # {} => \E x \in c.files : x.pairs > 0}
MCFetched == {r \in [name : {1, 8, 9}, repo : {"a", "b"}, split : {"dev", "test", "reserve"}, size : {0, 2, 9}] :
                 (r.name = 8 <=> r.repo = "a") \/ r.name = 1}

\* Whole files, snippets, a language without rules and one not known.
MCScanUnits ==
    {u \in [name : {"u", "v"}, first : {1, 2, 4}, lines : {1, 3}, wrapper : {"none", "package", "class"},
            ext : {"py", "zig", "none"}, sourced : BOOLEAN] :
        /\ u.ext = "py" \/ u.wrapper = "none"
        /\ u.name = "v" => u.ext = "py" /\ u.wrapper = "none"}
MCWeaknesses ==
    LET w(line, end, rule) == [line |-> line, end |-> end, rule |-> rule]
    IN  {{w(1, 1, "exec"), w(2, 5, "exec")}, {w(3, 3, "exec"), w(3, 3, "sqli"), w(4, 6, "noisy")},
         {w(6, 6, "sqli"), w(5, 5, "exec"), w(2, 2, "noisy")}}
==============================================================================
