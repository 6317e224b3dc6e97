----------------------------- MODULE SymbolIndex -----------------------------
(***************************************************************************)
(* The symbols of a pull request's files (core/pr_context.py: SymbolIndex, *)
(* PRBundle) and the context a model is given when it asks for more        *)
(* (core/pr_review.py: resolve_context).                                   *)
(*                                                                         *)
(* A definition is [path, name, qual, kind, first, last], a call           *)
(* [callee, caller], where the caller is a set of at most one definition.  *)
(* An index has its definitions and calls in the order of the text.        *)
(***************************************************************************)
EXTENDS Integers, FiniteSets, Sequences, SequencesExt, FiniteSetsExt

CONSTANTS
    MaxContextItems,   \* requests looked at in one answer
    MaxDefs            \* definitions given for each

ASSUME ContextAssumption == MaxContextItems \in Nat /\ MaxDefs \in Nat

\* The elements of s, each at its first place.
Firsts(s) == FoldLeft(LAMBDA acc, x : IF x \in ToSet(acc) THEN acc ELSE Append(acc, x), <<>>, s)

Spans(d, line) == d.first <= line /\ line <= d.last
IsFunction(d) == d.kind \in {"function", "method"}
\* The first of those with the fewest lines.
Innermost(s) ==
    LET i == CHOOSE i \in DOMAIN s :
                \A j \in DOMAIN s : \/ s[i].last - s[i].first < s[j].last - s[j].first
                                    \/ s[i].last - s[i].first = s[j].last - s[j].first /\ i <= j
    IN s[i]

\* SymbolIndex.definitions: by name or qualified name; a file that has none is no hint.
Definitions(index, symbol, file) ==
    LET found == SelectSeq(index.defs, LAMBDA d : d.name = symbol \/ d.qual = symbol)
        scoped == SelectSeq(found, LAMBDA d : d.path = file)
    IN IF scoped = <<>> THEN found ELSE scoped

\* SymbolIndex.callers: the functions that call a name.
Callers(index, symbol) ==
    LET by == SelectSeq(index.calls, LAMBDA c : c.callee = symbol /\ c.caller # {})
    IN Firsts([i \in DOMAIN by |-> CHOOSE d \in by[i].caller : TRUE])

\* SymbolIndex.callees: what has the names a definition calls.
Callees(index, def) ==
    LET calls == SelectSeq(index.calls, LAMBDA c : c.caller = {def})
        names == Firsts([i \in DOMAIN calls |-> calls[i].callee])
        named(name) == SelectSeq(index.defs, LAMBDA d : d.name = name /\ d.kind # "variable" /\ d # def)
    IN Firsts(FlattenSeq([i \in DOMAIN names |-> named(names[i])]))

\* SymbolIndex.enclosing, PRBundle.function_at: the innermost function around a line, if any.
Enclosing(index, path, line) ==
    LET s == SelectSeq(index.defs, LAMBDA d : d.path = path /\ IsFunction(d) /\ Spans(d, line))
    IN {Innermost(t) : t \in {s} \ {<<>>}}

Crosses(outer, inner, class) ==
    /\ outer.first <= class.first /\ class.last <= outer.last
    /\ class.first <= inner.first /\ inner.last <= class.last

\* PRBundle.outermost_function_at: from the innermost function outwards, as long as no class
\* lies between.
Outermost(index, path, line) ==
    LET around == {d \in ToSet(index.defs) : d.path = path /\ IsFunction(d) /\ Spans(d, line)}
        classes == {d \in ToSet(index.defs) : d.path = path /\ d.kind = "class"}
        chain == SetToSortSeq(around, LAMBDA d, e : d.last - d.first < e.last - e.first)
        stops == {i \in 2..Len(chain) :
                    \E c \in classes : Crosses(chain[i], chain[i - 1], c)}
    IN IF chain = <<>> THEN {}
       ELSE {chain[(IF stops = {} THEN Len(chain) + 1 ELSE Min(stops)) - 1]}

\* context_definitions: the first callers and callees of the changed functions.
ContextDefinitions(index, changed, limit) ==
    LET near == FlattenSeq([i \in DOMAIN changed |->
                    Callers(index, changed[i].name) \o Callees(index, changed[i])])
        out == SelectSeq(Firsts(near), LAMBDA d : d.kind # "class" /\ d \notin ToSet(changed))
    IN SubSeq(out, 1, IF Len(out) < limit THEN Len(out) ELSE limit)

------------------------------------------------------------------------------
(* resolve_context.  A request is [symbol, callers, file]; Cost[d] are the *)
(* tokens of a definition.                                                 *)

NoContext == [defs |-> <<>>, unresolved |-> {}, tokens |-> 0, resolved |-> 0, requested |-> 0]

\* Mutant: what was already given is given again.
FreshAll(found, given) == found
Fresh(found, given) == SelectSeq(found, LAMBDA d : d \notin ToSet(given))

\* A definition is taken when it still fits the cap.
TakeDef(state, d, cost, cap) ==
    IF state.tokens + cost > cap THEN state
    ELSE [state EXCEPT !.defs = Append(@, d), !.tokens = @ + cost]

ResolveOne(index, Cost, cap, state, request) ==
    LET found == IF request.callers THEN Callers(index, request.symbol)
                 ELSE Definitions(index, request.symbol, request.file)
        fresh == Fresh(found, state.defs)
        offered == SubSeq(fresh, 1, IF Len(fresh) < MaxDefs THEN Len(fresh) ELSE MaxDefs)
        after == FoldLeft(LAMBDA st, d : TakeDef(st, d, Cost[d], cap),
                          [state EXCEPT !.requested = @ + 1], offered)
    IN IF Len(after.defs) > Len(state.defs) THEN [after EXCEPT !.resolved = @ + 1]
       ELSE [after EXCEPT !.unresolved = @ \cup {request.symbol}]

\* resolve_context
ResolveContext(index, Cost, cap, state, requests) ==
    FoldLeft(LAMBDA st, r : ResolveOne(index, Cost, cap, st, r), state,
             SubSeq(requests, 1, IF Len(requests) < MaxContextItems THEN Len(requests) ELSE MaxContextItems))

------------------------------------------------------------------------------
(* Properties of one index and two rounds of requests.                     *)

\* No definition is given twice, the cap holds over all rounds, a round that resolves nothing
\* adds nothing (run_pr_review asks for the final answer then), and a symbol that is not
\* told as unavailable has something given for it.
ContextSound(index, Cost, cap, rounds) ==
    LET after(rs) == FoldLeft(LAMBDA st, r : ResolveContext(index, Cost, cap, st, r), NoContext, rs)
    IN \A now \in {after(rounds)}, before \in {after(Front(rounds))} :
        /\ IsInjective(now.defs)
        /\ now.tokens <= cap
        /\ now.tokens = FoldLeft(+, 0, [i \in DOMAIN now.defs |-> Cost[now.defs[i]]])
        /\ now.resolved = before.resolved <=> now.defs = before.defs
        /\ now.requested >= now.resolved + Cardinality(now.unresolved)

\* A function's checks reach to the outermost function around it that no class separates
\* from it: any line of that function is answered with it.
ScopesAgree(index, path, lines) ==
    \A x \in lines : \A fn \in Outermost(index, path, x) :
        /\ Enclosing(index, path, x) # {}
        /\ \A inner \in Enclosing(index, path, x) :
            fn.first <= inner.first /\ inner.last <= fn.last
        /\ ~ \E c \in ToSet(index.defs) :
            c.kind = "class" /\ c.path = path /\ fn.first <= c.first /\ c.last <= fn.last
            /\ Spans(c, x) /\ \E inner \in Enclosing(index, path, x) :
                c.first <= inner.first /\ inner.last <= c.last
==============================================================================
