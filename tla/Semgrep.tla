------------------------------- MODULE Semgrep -------------------------------
(***************************************************************************)
(* Static analysis as evidence (core/semgrep_scanner.py): the units are    *)
(* handed to the engine as whole files or as snippets that keep their line *)
(* numbers, and what it reports goes back to the units.                    *)
(*                                                                         *)
(* A unit is [name, first, lines, wrapper, ext, sourced]: the first line   *)
(* and the number of lines of its code, what makes it parse on its own     *)
(* ("none", "package" before it, "class" around it), whether its language  *)
(* is known, and whether its whole file was supplied.  Units are of one    *)
(* file; two of them may have the same name and first line (two anonymous  *)
(* functions on one line), and share their hits then.                      *)
(* A result of the engine is [target, line, end, rule].                    *)
(***************************************************************************)
EXTENDS Integers, Sequences, FiniteSets

CONSTANTS ExcludedRules, RuledLanguages

\* unit_key: what hits are filed under.
UnitKey(u) == <<u.name, u.first>>

\* _unit_span
UnitSpan(u) == u.first..(u.first + u.lines - 1)

\* build_target_source: of each line of a snippet's file, the line of the unit it holds (0: a
\* blank or the wrapper); before code on line 1 the wrapper stands on that line.
BuildTargetSource(u) ==
    (IF u.first >= 2 THEN [k \in 1..(u.first - 2) |-> 0] \o <<0>> ELSE <<>>)
    \o [k \in 1..u.lines |-> u.first + k - 1]
    \o (IF u.wrapper = "class" THEN <<0>> ELSE <<>>)

\* _write_targets: the name of the file a unit is scanned in, 0 for the whole file of those
\* that have one, else its number.
NotScanned == -1
TargetOf(units, i) ==
    CASE units[i].sourced /\ units[i].ext # "none" -> 0
      [] units[i].ext = "none" -> NotScanned
      [] OTHER -> i
Targets(units) == {TargetOf(units, i) : i \in DOMAIN units} \ {NotScanned}
\* scan_units: only targets of a language that has rules.
Scanned(units) == {t \in Targets(units) : \E i \in DOMAIN units :
                      TargetOf(units, i) = t /\ units[i].ext \in RuledLanguages}

\* _owner: the innermost unit of the target that has the line, 0 for none.
Owner(units, target, line) ==
    LET in == {i \in DOMAIN units : TargetOf(units, i) = target /\ line \in UnitSpan(units[i])}
    IN  IF in = {} THEN 0
        ELSE CHOOSE i \in in : \A j \in in : \/ units[i].lines < units[j].lines
                                             \/ units[i].lines = units[j].lines /\ i <= j

\* The hit of a result is filed under its owner's key, and ends within its owner.
HitOf(units, r) ==
    LET owner == units[Owner(units, r.target, r.line)]
        last == owner.first + owner.lines - 1
    IN  [key |-> UnitKey(owner), rule |-> r.rule, line |-> r.line,
         end |-> IF r.end < r.line THEN r.line ELSE IF r.end > last THEN last ELSE r.end]
\* parse_results: of the hits of a key, a rule and a line one stays.
ParseResults(units, results) ==
    LET hits == {HitOf(units, r) : r \in {s \in results : Owner(units, s.target, s.line) # 0}}
    IN  {CHOOSE h \in hits : h.key = g.key /\ h.rule = g.rule /\ h.line = g.line : g \in hits}

\* scan_units, _run: a scanner that is off, not installed, fails or cannot be read has no hits.
ScanUnits(units, works, results) ==
    IF ~works \/ Scanned(units) = {} THEN {}
    ELSE {h \in ParseResults(units, {r \in results : r.target \in Scanned(units)}) :
             h.rule \notin ExcludedRules}

------------------------------------------------------------------------------
\* What the engine reports for weaknesses w = [line, end, rule] of the file: in a whole file
\* each at its line, in a snippet where its line is; and a rule may match a wrapper.
EngineReports(units, weak) ==
    LET lineIn(t, l) == IF t = 0 THEN {l}
                        ELSE {k \in DOMAIN BuildTargetSource(units[t]) : BuildTargetSource(units[t])[k] = l}
        of(t) == UNION {{[target |-> t, line |-> k, end |-> k + w.end - w.line, rule |-> w.rule] :
                            k \in lineIn(t, w.line)} : w \in weak}
        wrappers(t) == IF t = 0 THEN {}
                       ELSE {[target |-> t, line |-> k, end |-> k, rule |-> "wrapper"] :
                                k \in {j \in DOMAIN BuildTargetSource(units[t]) : BuildTargetSource(units[t])[j] = 0}}
    IN  UNION {of(t) \cup wrappers(t) : t \in Scanned(units)}

\* Whether scanned as a whole file or as a snippet, a unit owns the weaknesses of its own lines:
\* all of them as a snippet, those that no inner unit has in a whole file, and nothing of the
\* wrapper.  A key is told of what its units own, at these lines and once each; so a unit alone
\* with its key is told exactly of what it owns.
ScanHolds(units, weak) ==
    LET results == EngineReports(units, weak)
        hits == ScanUnits(units, TRUE, results)
        mine(i) == {w \in weak : w.line \in UnitSpan(units[i]) /\ w.rule \notin ExcludedRules}
        inner(i, w) == \E j \in DOMAIN units : j # i /\ TargetOf(units, j) = TargetOf(units, i)
                          /\ w.line \in UnitSpan(units[j])
                          /\ (units[j].lines < units[i].lines \/ (units[j].lines = units[i].lines /\ j < i))
        owns(i) == {<<UnitKey(units[i]), w.rule, w.line>> : w \in {v \in mine(i) : ~inner(i, v)}}
    IN  /\ {<<h.key, h.rule, h.line>> : h \in hits}
              = UNION {owns(i) : i \in {j \in DOMAIN units : TargetOf(units, j) \in Scanned(units)}}
        /\ \A g, h \in hits : g.key = h.key /\ g.rule = h.rule /\ g.line = h.line => g = h
        /\ \A h \in hits : h.line <= h.end /\ \E i \in DOMAIN units :
              h.key = UnitKey(units[i]) /\ {h.line, h.end} \subseteq UnitSpan(units[i])
        /\ ScanUnits(units, FALSE, results) = {}
==============================================================================
