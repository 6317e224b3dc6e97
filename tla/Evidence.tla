------------------------------ MODULE Evidence -------------------------------
(***************************************************************************)
(* The deterministic checks around what a model claims (core/pr_review.py, *)
(* core/evidence.py, core/finding_keys.py): that a finding quotes code of  *)
(* the pull request, that a control it says was removed is code the change *)
(* deleted, that alerts are corroborated, and the keys findings are known  *)
(* by from run to run.                                                     *)
(*                                                                         *)
(* A file is the edit script of its change; a quote is a sequence of lines.*)
(***************************************************************************)
EXTENDS ChangedCode

CONSTANTS
    QuoteWindow,       \* QUOTE_WINDOW: lines around the claimed one looked at first
    LooseRadius,       \* LOOSE_QUOTE_RADIUS
    MaxRemovedLines,   \* MAX_REMOVED_CONTROL_LINES
    GuardWindow,       \* GUARD_EVIDENCE_FALLBACK_WINDOW
    CorroborationLines, \* CORROBORATION_LINES
    ControlTexts,      \* lines control_kinds_on_lines finds a control on
    CommentTexts,      \* lines comment_only_lines finds
    LooseForm          \* LooseForm[t]: t without quote characters and backslashes

ASSUME WindowsAssumption ==
    /\ {QuoteWindow, MaxRemovedLines} \subseteq Nat \ {0}
    /\ {LooseRadius, GuardWindow, CorroborationLines} \subseteq Nat
ASSUME BlankAssumption == LooseForm[Blank] = Blank

NoSpan == <<0, 0>>
\* The lines of a quote that count.
Counted(quote) == Picked(quote, {k \in DOMAIN quote : quote[k] # Blank})
\* locate_quote: the first and last line of a text that a quote was copied from, within lines
\* lo..hi: each line of the quote at its first place behind the one before it, code between
\* them allowed; hi + 1 when it has none.
Located(quote, text, lo, hi) ==
    LET lines == Counted(quote)
        at[k \in 0..Len(lines)] ==
            IF k = 0 THEN lo - 1
            ELSE LET places == {i \in (at[k - 1] + 1)..hi : text[i] = lines[k]}
                 IN  IF places = {} THEN hi + 1 ELSE Min(places)
    IN IF lines = <<>> \/ at[Len(lines)] > hi THEN NoSpan ELSE <<at[1], at[Len(lines)]>>

From(x) == IF x < 1 THEN 1 ELSE x
UpTo(x, n) == IF x < n THEN x ELSE n

\* Mutant: the first place in the file, however far from the claimed line.
LocateFirst(quote, text, claimed) == Located(quote, text, 1, Len(text))
\* locate_in_file, strict: near the claimed line first, then anywhere.
LocateStrict(quote, text, claimed) ==
    LET near == Located(quote, text, From(claimed - QuoteWindow), UpTo(claimed + QuoteWindow, Len(text)))
    IN IF claimed # 0 /\ near # NoSpan THEN near ELSE Located(quote, text, 1, Len(text))

\* locate_in_file, loose: quote characters do not count, near the claimed line only.
Loosely(t) == [k \in DOMAIN t |-> LooseForm[t[k]]]
LocateLoose(quote, text, claimed) ==
    LET span == Located(Loosely(quote), Loosely(text), From(claimed - LooseRadius),
                        UpTo(claimed - 1 + LooseRadius + Len(quote), Len(text)))
    IN IF claimed = 0 \/ Distance(span[1], claimed) > LooseRadius THEN NoSpan ELSE span

\* _comment_only_span
OnlyComments(text, span) ==
    LET wanted == {i \in span[1]..span[2] : text[i] # Blank}
    IN wanted # {} /\ \A i \in wanted : text[i] \in CommentTexts

\* The claimed line is a line of the named file only.
ClaimIn(claimed, file, named) == IF file = named THEN claimed ELSE 0

\* The places of a quote, one of a file at most, and when each is looked at: as it stands in
\* the file named, the prompt's, the others; last, loosely, in the file named.
Places(texts, quote, named, claimed, inPrompt) ==
    LET turn(i) == IF i = named THEN 0 ELSE IF i \in inPrompt THEN 1 ELSE 2
        strict == {[file |-> i, turn |-> turn(i),
                    span |-> LocateStrict(quote, texts[i], ClaimIn(claimed, i, named))] : i \in DOMAIN texts}
        loose == {[file |-> i, turn |-> 3, span |-> LocateLoose(quote, texts[i], claimed)] : i \in {named} \ {0}}
    IN {p \in strict \cup loose : p.span # NoSpan}
SoonerPlace(p, q) == p.turn < q.turn \/ (p.turn = q.turn /\ p.file <= q.file)

\* validate_audit_findings, of one finding: the place its quote is in, none if that is comment.
QuotedAt(texts, quote, named, claimed, inPrompt) ==
    {p \in UNION {{x \in S : \A y \in S : SoonerPlace(x, y)} :
                      S \in {Places(texts, quote, named, claimed, inPrompt)}} :
        ~OnlyComments(texts[p.file], p.span)}

------------------------------------------------------------------------------
(* Removed controls.  E is the script of the candidate's file, P its patch,*)
(* texts the new texts of all files.                                       *)

\* _in_new_code
InNewCode(texts, quote) == \E i \in DOMAIN texts : Located(quote, texts[i], 1, Len(texts[i])) # NoSpan

\* _deleted_lines_with
DeletedWith(E, P, text) == {n \in DeletedOldLines(P) : OldOf(E)[n] = text}

AllDeleted(matched, deleted) == matched \subseteq deleted

\* validate_removed_control: the first old line of the control quoted, none for None.
RemovedControl(E, P, texts, quote, line, alertOld) ==
    LET old == OldOf(E)
        target == OldLineFor(P, line)
        found == Located(quote, old, From(target - QuoteWindow), UpTo(target + QuoteWindow, Len(old)))
        matched(span) == {n \in span[1]..span[2] : n # 0 /\ old[n] # Blank}
        told(lines) == /\ lines # {} /\ AllDeleted(lines, DeletedOldLines(P))
                       /\ \A n \in lines : old[n] \notin CommentTexts
                       /\ \E n \in lines : old[n] \in ControlTexts
                       /\ ~InNewCode(texts, quote) /\ lines \cap alertOld = {}
    IN {span[1] : span \in {f \in {found} : P # <<>> /\ Len(quote) <= MaxRemovedLines /\ told(matched(f))}}

\* guard_alert_spots, its old lines: those that hold the old text of an alert change.
AlertOld(E, P, alerts) == UNION {DeletedWith(E, P, a.old) : a \in {b \in alerts : b.old # None}}
AlertNew(alerts) == {a.line : a \in alerts} \ {0}

\* guard_removal_checks, of one change c = [line, old, alert] (line 0: no new-side anchor): why
\* it is no evidence for the candidate at `first`..`last`, or "none".  fn and oldFn are its
\* outermost function in the two versions, each a set of at most one range.
GuardReason(E, P, texts, c, alerts, first, last, fn, oldFn) ==
    LET hits == DeletedWith(E, P, c.old)
        oldLine == IF hits = {} THEN 0 ELSE Closest(hits, OldLineFor(P, first))
        at == IF c.line # 0 \/ oldLine = 0 THEN c.line ELSE NewLineFor(P, oldLine)
        scope == IF fn # {} THEN fn ELSE {<<first - GuardWindow, last + GuardWindow>>}
        inScope == IF c.line = 0 /\ oldLine # 0 /\ fn # {} /\ oldFn # {}
                   THEN Within(oldLine, oldFn) ELSE Within(at, scope)
    IN CASE c.old = None -> "no_old_code"
         [] c.old # None /\ at = 0 -> "not_located"
         [] c.old # None /\ at # 0 /\ ~inScope -> IF fn = {} THEN "too_far" ELSE "other_function"
         [] c.old # None /\ at # 0 /\ inScope ->
                IF InNewCode(texts, <<c.old>>) THEN "moved"
                ELSE IF \/ c.alert \/ oldLine \in AlertOld(E, P, alerts)
                        \/ (c.line # 0 /\ c.line \in AlertNew(alerts))
                     THEN "alert_reported" ELSE "none"

------------------------------------------------------------------------------
(* Alerts, keys, leads.                                                    *)

\* corroborate_deterministic: what was found within a few lines of an alert d; one without a
\* line is near everything, what has no lines near nothing else.
NearAlert(d, x) ==
    \/ d.line = 0
    \/ /\ x.first # 0
       /\ x.first - CorroborationLines <= d.line /\ d.line <= x.last + CorroborationLines
CorroboratedBy(d, llm, semgrep, byFile) ==
    {"llm" : f \in {g \in llm : /\ g.file = d.file /\ (byFile \/ g.unit = d.unit)
                                /\ NearAlert(d, g)}}
    \cup {"semgrep" : h \in {g \in semgrep : /\ g.file = d.file /\ g.unit = d.unit
                                             /\ ~g.lowConfidence /\ NearAlert(d, g)}}

\* filter_semgrep_hits
SemgrepEvidence(hits, floor, excluded) ==
    {h \in hits : h.severity >= floor /\ h.rule \notin excluded}

\* FileLeads.priority: what is compared first to last.
LeadPriority(leads) ==
    <<\E g \in leads.guard : g.alert, \E h \in leads.semgrep : h.evidence /\ ~h.lowConfidence,
      \E g \in leads.guard : g.risk = "guard_removed", leads.semgrep # {} \/ leads.sinks # {}>>

\* disambiguate_dedupe_keys: the place of finding i among those of its code line, the most
\* severe first, then by weakness and title.
NumberOf(findings, i) ==
    LET f(j) == findings[j]
        group == {j \in DOMAIN findings : f(j).place = f(i).place /\ f(j).key = f(i).key}
        before(j) == \/ f(j).rank < f(i).rank
                     \/ f(j).rank = f(i).rank /\ j < i
    IN 1 + Cardinality({j \in group : before(j)})

\* llm_dedupe_key: the text of the line a finding is anchored to, else of its quote.
LineKey(text, line, quote) ==
    IF line \in DOMAIN text /\ text[line] # Blank THEN text[line]
    ELSE IF quote = <<>> THEN Blank ELSE quote[1]

FindingKey(findings, i) == <<findings[i].place, findings[i].key, NumberOf(findings, i)>>

------------------------------------------------------------------------------
(* Properties.                                                             *)

\* A finding is kept with the place its quote is in, all lines of it that count, in the file it
\* names when that has it; a quote of code that any file has as it stands is found, unless what
\* it finds is comment.
QuotesHoldUp(texts, quote, named, claimed) ==
    LET has == {i \in DOMAIN texts : Located(quote, texts[i], 1, Len(texts[i])) # NoSpan}
        read(t, p) == IF p.turn = 3 THEN Loosely(t) ELSE t
        shows(p, code, lines) ==
            /\ p.span[2] \in DOMAIN code /\ p.span[2] - p.span[1] + 1 >= Len(lines)
            /\ code[p.span[1]] = Head(lines) /\ code[p.span[2]] = Last(lines)
            /\ ToSet(lines) \subseteq {code[i] : i \in p.span[1]..p.span[2]}
        placed == named # 0 /\ claimed # 0 /\ claimed + Len(quote) - 1 <= Len(texts[named])
                  /\ SubSeq(texts[named], claimed, claimed + Len(quote) - 1) = quote
    IN \A at \in {QuotedAt(texts, quote, named, claimed, {1})}, having \in {has} :
        /\ ToSet(Counted(quote)) \ CommentTexts # {} /\ having # {} => at # {}
        /\ \A p \in at :
            /\ shows(p, read(texts[p.file], p), Counted(read(quote, p)))
            /\ named \in having => p.file = named
            /\ placed => Distance(p.span[1], claimed) <= QuoteWindow

\* A line quoted as a removed control is believed exactly when the change deletes it, it is
\* a control and no version of the text is left; and where the comparison of the versions
\* reports the same line in the function the candidate is in, it says the same.
RemovalAgrees(E, line) ==
    LET P == Patch(E, 1)
        new == NewOf(E)
        old == OldOf(E)
        change(text) == [line |-> 0, old |-> text, alert |-> FALSE]
        reason(text) == GuardReason(E, P, <<new>>, change(text), {}, line, line, {<<1, Len(new)>>}, {<<1, Len(old)>>})
        near(text) == {m \in DOMAIN old : old[m] = text /\ Distance(m, OldLineFor(P, line)) <= QuoteWindow}
    IN E # <<>> /\ line \in DOMAIN new =>
        \A text \in ToSet(old) \ {Blank} :
            \A said \in {RemovedControl(E, P, <<new>>, <<text>>, line, {})}, why \in {reason(text)} :
                /\ said # {} <=> near(text) # {} /\ text \notin ToSet(new) /\ text \in ControlTexts \ CommentTexts
                /\ \A quoted \in said : old[quoted] = text /\ why = "none" /\ NewLineFor(P, quoted) \in Touched(P)
                /\ why = "none" => text \notin ToSet(new)

\* No two findings of a report have one key, and the keys do not depend on the order in which
\* the model gave findings of different rank.
KeysHold(findings) ==
    LET F == DOMAIN findings IN
    /\ \A i, j \in F : i # j => FindingKey(findings, i) # FindingKey(findings, j)
    /\ (\A i, j \in F : i # j => findings[i].rank # findings[j].rank) =>
        {<<FindingKey(findings, i), findings[i]>> : i \in F}
            = {<<FindingKey(Reverse(findings), i), Reverse(findings)[i]>> : i \in F}
==============================================================================
