---------------------------- MODULE ActionComments ---------------------------
(***************************************************************************)
(* The comments of the GitHub Action (github_action/scan_pr.py): runs of   *)
(* one pull request list its inline comments, plan what to create, update  *)
(* and delete so that they show the findings of the run's scan, carry the  *)
(* plan out request by request, and upsert a summary comment.              *)
(*                                                                         *)
(* A comment is its marker and its text; ids ascend in posting order, the  *)
(* order GitHub lists them in.  One step is one request, with the          *)
(* computation that follows it; the pages of a list are one request.       *)
(***************************************************************************)
EXTENDS Integers, FiniteSets, Sequences, SequencesExt

CONSTANTS
    Runs,          \* workflow runs of the pull request, one per push
    Markers,       \* markers a comment may carry
    Legacy,        \* Legacy[m]: the markers older servers gave the finding of m, in order
    Wants,         \* what a scan may ask for: sequences of markers of anchored findings
    Texts,         \* wordings of a finding
    OldComments    \* comments earlier versions may have left: ids with [marker, text]

NoMarker == "none"

ASSUME CommentsAssumption ==
    /\ NoMarker \notin Markers
    /\ Legacy \in [Markers -> Seq(Markers)]
    /\ \A W \in Wants : W \in Seq(Markers)
    /\ \A W \in Wants : \A i, j \in DOMAIN W : W[i] = W[j] => i = j
    /\ IsFiniteSet(DOMAIN OldComments) /\ DOMAIN OldComments = 1..Cardinality(DOMAIN OldComments)
    /\ \A i \in DOMAIN OldComments : OldComments[i] \in [marker : Markers, text : Texts]
    \* They had older markers; of the current formula there is at most one for a finding.
    /\ \A i, j \in DOMAIN OldComments :
          OldComments[i].marker = OldComments[j].marker
          /\ OldComments[i].marker \notin UNION {ToSet(Legacy[m]) : m \in Markers} => i = j

VARIABLES
    comments,      \* comments[i]: inline comments of the pull request that carry a marker
    summaries,     \* summaries[i]: summary comments, by the run that wrote them last
    lastId,        \* ids GitHub has given out
    pc,            \* "idle", "create", "edit", "denied", "summary", "done", "crashed"
    want, text,    \* desired: markers in order of the findings, text[r][m]
    create, update, remove,   \* ops, what is left of it
    found,         \* the summary comment _upsert_summary found, 0 if none
    failures,      \* failed requests
    listed,        \* history: the comments the run listed
    undisturbed,   \* history: no other run wrote an inline comment since
    overlapped     \* history: two runs were active at once

shared == <<comments, summaries, lastId>>
commentVars == <<shared, pc, want, text, create, update, remove, found, failures, listed, undisturbed,
          overlapped>>

Active(r) == pc[r] \notin {"idle", "done", "crashed"}

\* Any part of the old comments, with the posted ones' ids behind them.
CommentsInit ==
    /\ \E S \in SUBSET DOMAIN OldComments : comments = [i \in S |-> OldComments[i]]
    /\ summaries = <<>>
    /\ lastId = Cardinality(DOMAIN OldComments)
    /\ pc = [r \in Runs |-> "idle"]
    /\ want = [r \in Runs |-> <<>>] /\ text = [r \in Runs |-> <<>>]
    /\ create = [r \in Runs |-> {}] /\ update = [r \in Runs |-> {}]
    /\ remove = [r \in Runs |-> {}]
    /\ found = [r \in Runs |-> 0] /\ failures = [r \in Runs |-> 0]
    /\ listed = [r \in Runs |-> <<>>] /\ undisturbed = [r \in Runs |-> FALSE]
    /\ overlapped = FALSE

------------------------------------------------------------------------------
(* plan_comment_ops: E the existing comments, W the desired markers, t     *)
(* their texts.                                                            *)

Carrying(E, m) == {i \in DOMAIN E : E[i].marker = m}
Posted(E) == {E[i].marker : i \in DOMAIN E}

\* existing_by_marker[m]: the first of several comments with one marker.
FirstComment(E, m) == CHOOSE i \in Carrying(E, m) : \A j \in Carrying(E, m) : i <= j

\* The legacy markers the desired marker at i may adopt, by position in its list.
Adoptable(E, W, adopt, i) ==
    {k \in DOMAIN Legacy[W[i]] :
        LET l == Legacy[W[i]][k] IN
        /\ l \in Posted(E) /\ l \notin ToSet(W)
        /\ \A j \in 1..(i - 1) : adopt[W[j]] # l}

\* Each desired marker that is not posted adopts its first legacy marker that is posted
\* and that no desired marker before it took.
Adopts(E, W, adopt) ==
    \A i \in DOMAIN W :
        LET free == Adoptable(E, W, adopt, i) IN
        IF W[i] \in Posted(E) \/ free = {} THEN adopt[W[i]] = NoMarker
        ELSE \E k \in free : /\ \A n \in free : k <= n
                             /\ adopt[W[i]] = Legacy[W[i]][k]

\* Mutant: adopted comments are not claimed.
ClaimedPosted(E, W, adopt) == ToSet(W) \cap Posted(E)
Claimed(E, W, adopt) ==
    (ToSet(W) \cap Posted(E)) \cup ({adopt[m] : m \in ToSet(W)} \ {NoMarker})

\* Mutant: a marker that is posted is not looked up.
HomesUnseen(E, W, adopt, m) == {FirstComment(E, adopt[m]) : x \in {adopt[m]} \ {NoMarker}}
\* The comment that shows m from now on, if there is one.
Homes(E, W, adopt, m) ==
    IF m \in Posted(E) THEN {FirstComment(E, m)}
    ELSE {FirstComment(E, adopt[m]) : x \in {adopt[m]} \ {NoMarker}}

ToCreate(E, W, adopt) == {m \in ToSet(W) : Homes(E, W, adopt, m) = {}}

Outdated(body, m, t) == body # [marker |-> m, text |-> t[m]]

ToUpdate(E, W, t, adopt) ==
    {u \in [id : DOMAIN E, marker : ToSet(W)] :
        u.id \in Homes(E, W, adopt, u.marker) /\ Outdated(E[u.id], u.marker, t)}

\* Mutant: duplicates stay.
ToDeleteUnclaimed(E, W, adopt) ==
    {FirstComment(E, m) : m \in Posted(E) \ Claimed(E, W, adopt)}
\* What nothing claims, and every second comment with one marker.
ToDelete(E, W, adopt) ==
    {i \in DOMAIN E : \/ E[i].marker \notin Claimed(E, W, adopt)
                      \/ i # FirstComment(E, E[i].marker)}

------------------------------------------------------------------------------
\* The scan has returned: list the comments and plan.  The workflow declares no
\* concurrency group, so other runs may be active.
Plan(r) ==
    /\ pc[r] = "idle"
    /\ \E W \in Wants : \E t \in [ToSet(W) -> Texts] :
       \E adopt \in [ToSet(W) -> Posted(comments) \cup {NoMarker}] :
        /\ Adopts(comments, W, adopt)
        /\ want' = [want EXCEPT ![r] = W] /\ text' = [text EXCEPT ![r] = t]
        /\ create' = [create EXCEPT ![r] = ToCreate(comments, W, adopt)]
        /\ update' = [update EXCEPT ![r] = ToUpdate(comments, W, t, adopt)]
        /\ remove' = [remove EXCEPT ![r] = ToDelete(comments, W, adopt)]
        /\ pc' = [pc EXCEPT ![r] = IF create'[r] = {} THEN "edit" ELSE "create"]
    /\ listed' = [listed EXCEPT ![r] = comments]
    /\ undisturbed' = [undisturbed EXCEPT ![r] = TRUE]
    /\ overlapped' = (overlapped \/ \E q \in Runs : Active(q))
    /\ UNCHANGED <<shared, found, failures>>

\* Run r writes the inline comments.
WriteComments(r, new) ==
    /\ comments' = new
    /\ undisturbed' = [q \in Runs |-> undisturbed[q] /\ q = r]

\* All comments in one review, which GitHub posts whole or not at all.
PostReview(r) ==
    /\ pc[r] = "create"
    /\ LET ids == (lastId + 1)..(lastId + Cardinality(create[r])) IN
       \E m \in Bijection(ids, create[r]) :
        /\ WriteComments(r, [i \in DOMAIN comments \cup ids |->
                        IF i \in ids THEN [marker |-> m[i], text |-> text[r][m[i]]]
                        ELSE comments[i]])
    /\ lastId' = lastId + Cardinality(create[r])
    /\ create' = [create EXCEPT ![r] = {}]
    /\ pc' = [pc EXCEPT ![r] = "edit"]
    /\ UNCHANGED <<summaries, want, text, update, remove, found, failures, listed>>

\* 403, a fork's token: no comment is touched, the summary is still tried.
Denied(r) ==
    /\ pc[r] = "create"
    /\ pc' = [pc EXCEPT ![r] = "denied"]
    /\ UNCHANGED <<shared, want, text, create, update, remove, found, failures, listed,
                   undisturbed>>

FailedRequest(r) == failures' = [failures EXCEPT ![r] = @ + 1]

\* PATCH: it fails when the comment is gone, and may fail otherwise.
PatchComment(r, u) ==
    /\ pc[r] = "edit" /\ u \in update[r]
    /\ update' = [update EXCEPT ![r] = @ \ {u}]
    /\ \/ /\ u.id \in DOMAIN comments
          /\ WriteComments(r, [comments EXCEPT ![u.id] =
                            [marker |-> u.marker, text |-> text[r][u.marker]]])
          /\ UNCHANGED failures
       \/ /\ FailedRequest(r)
          /\ UNCHANGED <<comments, undisturbed>>
    /\ UNCHANGED <<summaries, lastId, pc, want, text, create, remove, found, listed>>

\* DELETE, after the updates; a comment already gone is no failure.
DeleteComment(r, i) ==
    /\ pc[r] = "edit" /\ update[r] = {} /\ i \in remove[r]
    /\ remove' = [remove EXCEPT ![r] = @ \ {i}]
    /\ \/ /\ WriteComments(r, [j \in DOMAIN comments \ {i} |-> comments[j]])
          /\ UNCHANGED failures
       \/ /\ FailedRequest(r)
          /\ UNCHANGED <<comments, undisturbed>>
    /\ UNCHANGED <<summaries, lastId, pc, want, text, create, update, found, listed>>

SummaryFound ==
    IF DOMAIN summaries = {} THEN 0
    ELSE CHOOSE i \in DOMAIN summaries : \A j \in DOMAIN summaries : i <= j

EditsDone(r) == pc[r] = "edit" /\ update[r] = {} /\ remove[r] = {}

ListSummaries(r) ==
    /\ EditsDone(r) \/ pc[r] = "denied"
    /\ found' = [found EXCEPT ![r] = SummaryFound]
    /\ pc' = [pc EXCEPT ![r] = "summary"]
    /\ UNCHANGED <<shared, want, text, create, update, remove, failures, listed, undisturbed>>

\* PATCH of the first one found, else POST; either may fail.
UpsertSummary(r) ==
    /\ pc[r] = "summary"
    /\ pc' = [pc EXCEPT ![r] = "done"]
    /\ \/ /\ found[r] = 0
          /\ lastId' = lastId + 1
          /\ summaries' = [i \in DOMAIN summaries \cup {lastId + 1} |->
                              IF i = lastId + 1 THEN r ELSE summaries[i]]
          /\ UNCHANGED failures
       \/ /\ found[r] # 0
          /\ summaries' = [summaries EXCEPT ![found[r]] = r]
          /\ UNCHANGED <<lastId, failures>>
       \/ /\ FailedRequest(r)
          /\ UNCHANGED <<summaries, lastId>>
    /\ UNCHANGED <<comments, want, text, create, update, remove, found, listed, undisturbed>>

\* A review refused for another reason, a connection lost, the job cancelled.
CrashRun(r) ==
    /\ Active(r)
    /\ pc' = [pc EXCEPT ![r] = "crashed"]
    /\ UNCHANGED <<shared, want, text, create, update, remove, found, failures, listed,
                   undisturbed>>

CarryOut(r) ==
    \/ PostReview(r) \/ Denied(r)
    \/ \E u \in update[r] : PatchComment(r, u)
    \/ \E i \in remove[r] : DeleteComment(r, i)
    \/ ListSummaries(r) \/ UpsertSummary(r) \/ CrashRun(r)

CommentsNext == \E r \in Runs : Plan(r) \/ (CarryOut(r) /\ UNCHANGED overlapped)
------------------------------------------------------------------------------
(* Properties.                                                             *)

\* The comments show the desired findings, each once, and nothing else.
Exact(C, W, t) ==
    /\ \A m \in ToSet(W) : \E i \in DOMAIN C : C[i] = [marker |-> m, text |-> t[m]]
    /\ \A i \in DOMAIN C : C[i].marker \in ToSet(W)
    /\ \A i, j \in DOMAIN C : C[i].marker = C[j].marker => i = j

\* A run that could do all it planned, with no other run in between, leaves exactly the
\* comments of its findings, whatever older versions, crashed or overlapping runs left
\* before it: duplicates, outdated texts, legacy markers, findings that are gone; and a run
\* whose findings are shown already does nothing (plan_comment_ops, _apply_comment_ops).
CleanRunIsExact ==
    \A r \in Runs :
        /\ /\ undisturbed[r] /\ failures[r] = 0
           /\ EditsDone(r) \/ (pc[r] \in {"summary", "done"} /\ create[r] = {})
           => Exact(comments, want[r], text[r])
        /\ pc[r] # "idle" /\ Exact(listed[r], want[r], text[r]) =>
              create[r] = {} /\ update[r] = {} /\ remove[r] = {}

\* A thread whose finding is still there is never deleted, also when only an older
\* server's marker ties it to the finding, and wherever the run stops: a comment of the
\* finding's marker stays if there is one, else one of its legacy markers.
ThreadsSurvive ==
    \A r \in Runs : undisturbed[r] => \A m \in ToSet(want[r]) :
        LET own == Carrying(listed[r], m)
            old == UNION {Carrying(listed[r], l) : l \in ToSet(Legacy[m])}
            threads == IF own # {} THEN own ELSE old
        IN threads # {} => threads \cap DOMAIN comments # {}

\* While runs do not overlap, whatever runs failed or stopped halfway before, no finding of the
\* current marker formula has two comments and the pull request no two summaries: later pushes
\* update in place (README.md:192-193).  Runs that overlap, as the workflow lets them, may both
\* post: without a concurrency group, both list the comments before either writes.
SerialRunsPostOnce ==
    ~overlapped =>
        /\ \A i, j \in DOMAIN comments :
              comments[i].marker = comments[j].marker
              /\ comments[i].marker \notin UNION {ToSet(Legacy[m]) : m \in Markers} => i = j
        /\ \A i, j \in DOMAIN summaries : i = j
==============================================================================
