------------------------------ MODULE GuardDiff ------------------------------
(***************************************************************************)
(* The deterministic check of a change's direction (core/guard_diff.py):   *)
(* the features one version of a function has, and what the difference of  *)
(* the two versions' features says of the guards that went or came.        *)
(*                                                                         *)
(* A version is the sequence of its constructs in the order of their       *)
(* lines, each with what the syntax tree and the vocabularies say of it.   *)
(* Weights are in hundredths.                                              *)
(***************************************************************************)
EXTENDS Integers, FiniteSets, Sequences, SequencesExt, FiniteSetsExt

CallWeight == [auth_check |-> 60, path_containment |-> 55, sanitiser |-> 55,
               proto_guard |-> 50, validation |-> 45, safe_api |-> 45]
ReplaceWeight == 40
ExitWeight == [raise |-> 55, abort |-> 55, return |-> 40, continue |-> 30, assert |-> 45]
KindBonus == [proto_guard |-> 20, attr_guard |-> 20, path_containment |-> 20,
              auth_check |-> 20, bounds_check |-> 10, validation |-> 10, input_check |-> 0]
BlockCap == 80
CondWeight == 25
SignatureCap == 40
SqlAlone == 60
SqlSwap == 85
HelperDiscount == 40               \* per cent
RiskMin == 50
RiskMargin == 25
AlertMin == 70

Least(x, y) == IF x < y THEN x ELSE y

Feature(family, kind, group, key, weight, swap, x, line) ==
    [family |-> family, kind |-> kind, group |-> group, key |-> key, weight |-> weight,
     swap |-> swap, idents |-> x.idents, line |-> line]

------------------------------------------------------------------------------
(* The features of a construct: none or one.                               *)

BlockKind(x) ==
    IF x.kind # "none" THEN x.kind ELSE IF x.tainted THEN "input_check" ELSE "unclassified"

\* _guard_block_features: a condition whose branch leaves.  An unclassified one weighs
\* nothing, but cancels against its renamed self.
BlockFeature(x, line) ==
    LET kind == BlockKind(x)
        weight == IF kind = "unclassified" THEN 0
                  ELSE Least(ExitWeight[x.exit] + KindBonus[kind], BlockCap)
    IN {Feature("block", kind, kind, <<x.exit, x.shape>>, weight, weight, x, line)
        : y \in {x.exit} \ {"none"}}

\* _cond_features: a size compared in a condition that is no classified guard.
CondFeature(x, line) ==
    {Feature("cond", "bounds_check", "bounds_check", <<x.shape>>, CondWeight, CondWeight,
             x, line) : y \in {z \in {x} : z.ordered /\ z.sized /\ ~z.guards}}

\* _call_features: a call or decorator of a guard's name, a replace of markup, or an
\* authentication attribute that is not called.
CallFeature(x, line) ==
    LET kind == CASE x.kind # "none" -> x.kind
                  [] x.kind = "none" /\ x.replaces -> "sanitiser"
                  [] x.kind = "none" /\ ~x.replaces -> "none"
        weight == IF x.kind = "none" THEN ReplaceWeight ELSE CallWeight[x.kind]
    IN {Feature("call", kind, kind, <<x.name>>, weight, weight, x, line)
        : y \in {kind} \ {"none"}}

\* _hazard_features: an unsafe API; its safe twin, or its arguments that make it safe, only
\* count in a swap.
ApiFeature(x, line) ==
    IF x.safe THEN {Feature("safe", x.kind, x.group, <<x.group>>, 0, x.swap, x, line)}
    ELSE {Feature("hazard", x.kind, x.group, <<x.group>>, x.weight, x.swap, x, line)}

\* _flag_features: an unsafe value, or a safe one, which alone counts only when the
\* library's default is unsafe.  A default in a parameter list is capped.
FlagFeature(x, line) ==
    LET cap(w) == IF x.inSignature THEN Least(w, SignatureCap) ELSE w
        key == <<x.inSignature, x.name>>
        alone == IF x.defaultSafe THEN 0 ELSE x.weight
    IN IF x.safe
       THEN {Feature("flag_safe", x.kind, x.name, key, cap(alone), cap(x.weight), x, line)}
       ELSE {Feature("flag", x.kind, x.name, key, cap(x.weight), cap(x.weight), x, line)}

\* _sql_features: text put into a statement, or placeholders.
SqlFeature(x, line) ==
    CASE x.interpolated ->
            {Feature("sql", "sql_param", "sql", <<"interp">>, SqlAlone, SqlSwap, x, line)}
      [] ~x.interpolated /\ x.placeholder ->
            {Feature("sql_safe", "sql_param", "sql", <<"placeholder">>, 0, SqlSwap, x, line)}
      [] ~x.interpolated /\ ~x.placeholder -> {}

FeaturesOf(x, line) ==
    CASE x.form = "block"  -> BlockFeature(x, line)
      [] x.form = "cond"   -> CondFeature(x, line)
      [] x.form = "call"   -> CallFeature(x, line)
      [] x.form = "api"    -> ApiFeature(x, line)
      [] x.form = "flag"   -> FlagFeature(x, line)
      [] x.form = "sql"    -> SqlFeature(x, line)
      [] x.form = "helper" -> {}

\* extract_features
Features(code) == UNION {FeaturesOf(code[i], i) : i \in DOMAIN code}

\* _call_context: every call counts, guard or not; callees too common to be one do not.
Helpers(code) == {i \in DOMAIN code : code[i].called}
\* _new_helpers: what is passed to helpers that only the second version calls.
NewHelpers(from, to) ==
    UNION {to[i].idents : i \in {j \in Helpers(to) :
                                    \A k \in Helpers(from) : from[k].name # to[j].name}}

------------------------------------------------------------------------------
(* The difference.                                                         *)

Same(F, f) == {g \in F : g.family = f.family /\ g.key = f.key}

\* Mutant: a feature both versions have is dropped wherever it occurs.
UncommonNone(F, G) == {f \in F : Same(G, f) = {}}
\* _drop_common: as many of equal features are dropped, first lines first, as both
\* versions have.
Uncommon(F, G) ==
    {f \in F : Cardinality({g \in Same(F, f) : g.line <= f.line}) > Cardinality(Same(G, f))}

GroupOf(f) == <<f.family, f.kind, f.group>>
InGroup(F, k) == {f \in F : GroupOf(f) = k}

\* _representatives: n of the features F lost, in order.  (No key is left on both sides,
\* so each counts as changed.)
Representatives(F, n) == {f \in F : Cardinality({g \in F : g.line <= f.line}) <= n}

Change(direction, f, conf) == [direction |-> direction, kind |-> f.kind, conf |-> conf, of |-> f]

Alone(direction, F, n) ==
    {Change(direction, f, f.weight) : f \in {g \in Representatives(F, n) : g.weight > 0}}

TwinFamily == [hazard |-> "safe", flag |-> "flag_safe", sql |-> "sql_safe"]
Plus(n) == IF n > 0 THEN n ELSE 0

Swaps(up, down) == Least(Plus(up), Plus(down))

\* A hazard's group k with its safe twins: hazards that came for safe forms that went are
\* swaps (and the other way round); what is left counts alone.
TwinChanges(O, N, k) ==
    LET safe == <<TwinFamily[k[1]], k[2], k[3]>>
        hO == InGroup(O, k)     hN == InGroup(N, k)
        sO == InGroup(O, safe)  sN == InGroup(N, safe)
        dH == Cardinality(hN) - Cardinality(hO)
        dS == Cardinality(sN) - Cardinality(sO)
        worse == Swaps(dH, -dS)
        better == Swaps(-dH, dS)
    IN {Change("weakened", f, f.swap) : f \in Representatives(hN, worse)}
       \cup {Change("strengthened", f, f.swap) : f \in Representatives(hO, better)}
       \cup Alone("weakened", hN, Plus(dH) - worse)
       \cup Alone("strengthened", hO, Plus(-dH) - better)
       \cup Alone("weakened", sO, Plus(-dS) - worse)
       \cup Alone("strengthened", sN, Plus(dS) - better)

\* A guard that went while a new helper takes the same values may have moved into it.
Discounted(f, idents) ==
    IF f.family \in {"block", "cond"} /\ f.idents \cap idents # {}
    THEN (f.weight * HelperDiscount) \div 100 ELSE f.weight

GuardChanges(O, N, k, gone, came) ==
    LET d == Cardinality(InGroup(N, k)) - Cardinality(InGroup(O, k)) IN
    {Change("removed", f, Discounted(f, gone)) :
        f \in {g \in Representatives(InGroup(O, k), Plus(-d)) : g.weight > 0}}
    \cup {Change("added", f, Discounted(f, came)) :
        f \in {g \in Representatives(InGroup(N, k), Plus(d)) : g.weight > 0}}

GroupsOf(F) == {GroupOf(f) : f \in F}

\* The hazards' groups of which, or of whose safe twins, something is left.
TwinGroups(F) ==
    {k \in GroupsOf(F) : k[1] \in DOMAIN TwinFamily}
    \cup {k \in {<<t, g[2], g[3]>> : t \in DOMAIN TwinFamily, g \in GroupsOf(F)} :
            <<TwinFamily[k[1]], k[2], k[3]>> \in GroupsOf(F)}
GuardGroups(F) == {k \in GroupsOf(F) : k[1] \in {"call", "block", "cond"}}

TwinPart(O, N) == UNION {TwinChanges(O, N, k) : k \in TwinGroups(O \cup N)}
GuardPart(O, N, gone, came) == UNION {GuardChanges(O, N, k, gone, came) : k \in GuardGroups(O \cup N)}

\* diff_features
Changes(old, new) ==
    LET O == Uncommon(Features(old), Features(new))
        N == Uncommon(Features(new), Features(old))
    IN TwinPart(O, N) \cup GuardPart(O, N, NewHelpers(old, new), NewHelpers(new, old))

Negative == {"removed", "weakened"}
Score(C) == MapThenSumSet(LAMBDA c : c.conf, C)

\* _decide
Risk(C) ==
    LET neg == Score({c \in C : c.direction \in Negative})
        pos == Score({c \in C : c.direction \notin Negative})
    IN CASE neg >= RiskMin /\ neg - pos >= RiskMargin -> "guard_removed"
         [] pos >= RiskMin /\ pos - neg >= RiskMargin -> "guard_added"
         [] ~(neg >= RiskMin /\ neg - pos >= RiskMargin)
            /\ ~(pos >= RiskMin /\ pos - neg >= RiskMargin) -> "none"

\* is_alert: a risk with a safe form replaced by an unsafe one, or the like.
Alert(C) ==
    Risk(C) = "guard_removed"
    /\ \E c \in C : c.direction = "weakened" /\ c.conf >= AlertMin

\* guard_diff: nothing is said of a language that is not parsed or of a version that is
\* not known (olds and news are empty or hold the one version).
Compared(olds, news, supported) ==
    UNION {Changes(v[1], v[2]) : v \in {w \in olds \X news : supported}}

Protective == {"call", "block", "cond", "safe", "flag_safe", "sql_safe"}

Counts(f) == f.weight > 0 \/ f.swap > 0

\* control_kinds_on_lines, _protective_spans: the kinds of the controls on some lines.
ControlKinds(code, lines) ==
    {f.kind : f \in {g \in Features(code) : g.family \in Protective /\ Counts(g) /\ g.line \in lines}}

------------------------------------------------------------------------------
(* Properties of one pair of versions.                                     *)

Flip == [removed |-> "added", added |-> "removed",
         weakened |-> "strengthened", strengthened |-> "weakened"]

\* "swapping old and new flips every direction" (guard_diff.py:39-40), and with it the risk.
MirrorImage(old, new) ==
    /\ Changes(new, old) = {[c EXCEPT !.direction = Flip[@]] : c \in Changes(old, new)}
    /\ Risk(Changes(old, new)) = "guard_removed" <=> Risk(Changes(new, old)) = "guard_added"

\* Moved code is invisible, also a guard whose rename changed how it is classified.
MovedIsSilent(old, new) ==
    (\E p \in Bijection(DOMAIN old, DOMAIN new) : \A i \in DOMAIN old :
        {<<f.family, f.key>> : f \in FeaturesOf(old[i], 0)}
            = {<<f.family, f.key>> : f \in FeaturesOf(new[p[i]], 0)})
    => Changes(old, new) = {}

\* A construct that is deleted, with everything else as it was, is told and nothing else is,
\* however many of its kind the function keeps: with the whole weight of the last of them, the
\* one that is left when equal ones are dropped.
DeletionIsTold(code) ==
    \A i \in DOMAIN code : \A f \in FeaturesOf(code[i], i) :
        \E g \in Same(Features(code), f) :
            LET direction == CASE g.family \in {"call", "block", "cond"} -> "removed"
                               [] g.family \in DOMAIN TwinFamily -> "strengthened"
                               [] OTHER -> "weakened"
            IN  /\ \A h \in Same(Features(code), f) : h.line <= g.line
                /\ Changes(code, RemoveAt(code, i))
                        = {Change(direction, h, h.weight) : h \in {x \in {g} : x.weight > 0}}

\* What the comparison says was lost from the old version is a control for the check of
\* quotes, too, on the line it was on.
LostIsControl(old, new) ==
    \A c \in {d \in Changes(old, new) : d.of.family \in Protective /\ d.direction \in Negative} :
        c.kind \in ControlKinds(old, {c.of.line})
==============================================================================
