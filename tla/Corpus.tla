-------------------------------- MODULE Corpus --------------------------------
(***************************************************************************)
(* Building the corpus of past fixes from the advisories (scripts/         *)
(* build_corpus_from_osv.py): runs that ask GitHub for the fix commits and *)
(* their files, keep every answer and the finished advisories for the next *)
(* run, and write per ecosystem what the vector database is filled from    *)
(* and what the evaluation holds out.  Runs are cut by the rate limit,     *)
(* fail, are killed, are resumed, and may be offline.                      *)
(***************************************************************************)
EXTENDS Integers, Sequences, FiniteSets, SequencesExt, Functions

CONSTANTS
    Ecosystems,     \* in the order they are built
    Listed,         \* the advisories of an ecosystem's archive, in order
    FixOf,          \* of an advisory: its fix commit, or NoFix
    NoFix,
    FilesOf,        \* of a commit: the modified code files with hunks; <<>> also for no parent
    PairsOf,        \* of a file: its [fn, changed, rename, secure, other] pairs of functions
    Gone,           \* the requests that GitHub answers with 404 or with no content
    MaxAdvisories, EvalPercent, MinChanged, MaxFunctions, DropOther, KeepSecure,
    MaxBuilds, MaxBuildFaults    \* bounds of the model

VARIABLES
    answers,    \* the cache of GitHub's answers, by request
    zips,       \* the archives downloaded
    recorded,   \* processed_advisories.json: by advisory its pairs; or cut off
    outputs,    \* by ecosystem the files written: corpus, rejected, held out
    build,      \* the run in progress
    processed,  \* its processed_state
    builds, buildFaults

corpusVars == <<answers, zips, recorded, outputs, build, processed, builds, buildFaults>>

Advisories == UNION {ToSet(Listed[e]) : e \in ToSet(Ecosystems)}
Commits == {FixOf[a] : a \in Advisories} \ {NoFix}
Files == UNION {ToSet(FilesOf[c]) : c \in Commits}
Requests == ({"commit"} \X Commits) \cup ({"post", "pre"} \X Files)

\* What the archives and GitHub hold are lists; an ecosystem is named once.
ASSUME CorpusInputs ==
    /\ Ecosystems \in Seq(ToSet(Ecosystems)) \ {<<>>}
    /\ \A i, j \in DOMAIN Ecosystems : Ecosystems[i] = Ecosystems[j] => i = j
    /\ \A e \in ToSet(Ecosystems) : Listed[e] \in Seq(Advisories)
    /\ \A c \in Commits : FilesOf[c] \in Seq(Files)

NoFile == [of |-> 0, pairs |-> {}]
NoBuild == [phase |-> "idle"]

CorpusInit ==
    /\ answers = [r \in Requests |-> "none"] /\ zips = {} /\ recorded = [torn |-> FALSE, by |-> <<>>] /\ processed = <<>>
    /\ outputs = [e \in ToSet(Ecosystems) |-> [corpus |-> NoFile, rejected |-> NoFile, heldOut |-> NoFile]]
    /\ build = NoBuild /\ builds = 0 /\ buildFaults = 0

Goes(phase) == build.phase = phase
Eco == Ecosystems[build.eco]
Advisory == Listed[Eco][build.at]
Fix == FixOf[Advisory]

------------------------------------------------------------------------------
\* main: a file of finished advisories that cannot be parsed counts as empty.
StartBuild ==
    /\ Goes("idle") /\ builds < MaxBuilds
    /\ \E resume, offline, waits \in BOOLEAN :
        /\ offline => ~waits
        /\ build' = [phase |-> "zip", eco |-> 1, at |-> 1, resume |-> resume, offline |-> offline,
                     waits |-> waits, attempted |-> 0, limited |-> FALSE, cut |-> FALSE,
                     pairs |-> <<>>, got |-> {}, file |-> 0, posted |-> FALSE,
                     missed |-> FALSE, lost |-> FALSE, held |-> {}]
    /\ processed' = IF recorded.torn THEN <<>> ELSE recorded.by
    /\ builds' = builds + 1
    /\ UNCHANGED <<answers, zips, recorded, outputs, buildFaults>>

\* download_osv_zip: under a temporary name first; offline the run ends without it.
OpenZip ==
    /\ Goes("zip")
    /\ IF Eco \in zips \/ ~build.offline
       THEN build' = [build EXCEPT !.phase = "intake"] /\ zips' = zips \cup {Eco}
       ELSE build' = NoBuild /\ UNCHANGED zips
    /\ UNCHANGED <<answers, recorded, outputs, processed, builds, buildFaults>>

Skipped == [build EXCEPT !.phase = "intake", !.at = @ + 1]
Entries(a, pairs) == {[adv |-> a, pair |-> p] : p \in pairs}
TakeAdvisory ==
    /\ Goes("intake")
    /\ build' =
        IF build.at > Len(Listed[Eco]) THEN [build EXCEPT !.phase = "persist"]
        ELSE IF build.attempted >= MaxAdvisories
             THEN [build EXCEPT !.phase = "persist", !.cut = TRUE]
        ELSE IF build.resume /\ Advisory \in DOMAIN processed
             THEN [Skipped EXCEPT !.pairs = Append(@, Entries(Advisory, processed[Advisory].pairs))]
        ELSE IF Fix = NoFix THEN Skipped
        ELSE [build EXCEPT !.phase = "commit", !.attempted = @ + 1, !.got = {}, !.file = 1,
                           !.missed = FALSE, !.lost = FALSE]
    /\ UNCHANGED <<answers, zips, recorded, outputs, processed, builds, buildFaults>>

\* get_json: an answer once had, a 404 too, is never asked for again; the rate limit is waited
\* for or ends the run; another failure is no answer, and the next run asks again.
Replies(r) ==
    IF answers[r] # "none" THEN {answers[r]}
    ELSE IF build.offline THEN {"miss"}
    ELSE {IF r \in Gone THEN "gone" ELSE "there"}
         \cup (IF buildFaults < MaxBuildFaults THEN {"failure"} \cup (IF build.waits THEN {} ELSE {"limit"})
               ELSE {})
GetJson(r, reply) ==
    /\ reply \in Replies(r)
    /\ answers' = [answers EXCEPT ![r] = IF reply \in {"gone", "there"} THEN reply ELSE @]
    /\ buildFaults' = buildFaults + IF reply \in {"failure", "limit"} THEN 1 ELSE 0
    /\ UNCHANGED <<zips, recorded, outputs, processed, builds>>
CutShort == [build EXCEPT !.phase = "persist", !.limited = TRUE, !.cut = TRUE]

AskCommit ==
    /\ Goes("commit")
    /\ \E reply \in {"there", "gone", "miss", "failure", "limit", "torn"} :
        /\ GetJson(<<"commit", Fix>>, reply)
        /\ build' = CASE reply = "torn" -> NoBuild    \* the error ends the program
                      [] reply = "limit" -> CutShort
                      [] reply = "there" -> [build EXCEPT !.phase = "post"]
                      [] OTHER -> Skipped

\* A file's two versions; a file that lacks one adds no pairs.
AskFile ==
    /\ build.phase \in {"post", "pre"} /\ build.file <= Len(FilesOf[Fix])
    /\ \E reply \in {"there", "gone", "miss", "failure", "limit", "torn"} :
        LET f == FilesOf[Fix][build.file]
            noted == [build EXCEPT !.missed = @ \/ reply = "miss", !.lost = @ \/ reply = "failure"]
        IN  /\ GetJson(<<build.phase, f>>, reply)
            /\ build' = CASE reply = "torn" -> NoBuild
                          [] reply = "limit" -> CutShort
                          [] Goes("post") /\ reply \notin {"torn", "limit"} ->
                                [noted EXCEPT !.phase = "pre", !.posted = reply = "there"]
                          [] OTHER ->
                                [noted EXCEPT !.phase = "post", !.file = @ + 1, !.posted = FALSE,
                                              !.got = @ \cup IF build.posted /\ reply = "there"
                                                             THEN PairsOf[f] ELSE {}]

\* Mutant: an advisory counts as processed though the cache lacked one of its files.
UsableAlways(missed) == TRUE
\* Pairs that lack a file missing from the cache are not used, nor the advisory recorded; those
\* that lack a file for a failed request are both.
Usable(missed) == ~missed
RecordAdvisory ==
    /\ Goes("post") /\ build.file > Len(FilesOf[Fix])
    /\ IF Usable(build.missed)
       THEN /\ processed' = [a \in DOMAIN processed \cup {Advisory} |->
                 IF a = Advisory THEN [pairs |-> build.got, lost |-> build.lost] ELSE processed[a]]
            /\ build' = [Skipped EXCEPT !.pairs = Append(@, Entries(Advisory, build.got))]
       ELSE build' = Skipped /\ UNCHANGED processed
    /\ UNCHANGED <<answers, zips, recorded, outputs, builds, buildFaults>>

------------------------------------------------------------------------------
\* Of equal pairs of two advisories the first is kept.
FirstOnly(entries) ==
    UNION {{e \in entries[i] : \A j \in 1..(i - 1) : \A k \in entries[j] : k.pair # e.pair} :
           i \in DOMAIN entries}

\* annotate_quality, quality_reject_reasons.  A pair's function names its file and commit.
FunctionsOf(all, p) == Cardinality({e.pair.fn : e \in {x \in all : x.pair.commit = p.commit}})
Rejected(all, p) ==
    \/ p.changed < MinChanged /\ ~(KeepSecure /\ p.rename /\ p.secure)
    \/ MaxFunctions > 0 /\ MaxFunctions < FunctionsOf(all, p)
    \/ DropOther /\ p.other
RejectedOf(all) == {e \in all : Rejected(all, e.pair)}

\* split_by_advisory: a share of the advisories, in a shuffled order, rounded to the even.
HeldCount(n) ==
    LET whole == (n * EvalPercent) \div 100  rest == (n * EvalPercent) % 100
    IN  whole + IF rest > 50 \/ (rest = 50 /\ whole % 2 = 1) THEN 1 ELSE 0

NextEcosystem ==
    IF build.limited \/ build.eco = Len(Ecosystems) THEN NoBuild
    ELSE [build EXCEPT !.phase = "zip", !.eco = @ + 1, !.at = 1, !.pairs = <<>>, !.cut = FALSE,
                       !.held = {}]
Persist ==
    /\ Goes("persist")
    /\ recorded' = [torn |-> FALSE, by |-> processed]
    /\ LET all == FirstOnly(build.pairs)
           ids == {e.adv : e \in all} IN
       IF all = {} THEN build' = NextEcosystem
       ELSE \E held \in SUBSET ids :
            /\ Cardinality(held) = HeldCount(Cardinality(ids))
            /\ build' = [build EXCEPT !.phase = "corpus", !.held = {e \in all : e.adv \in held}]
    /\ UNCHANGED <<answers, zips, outputs, processed, builds, buildFaults>>

Write(file, pairs) == outputs' = [outputs EXCEPT ![Eco][file] = [of |-> builds, pairs |-> pairs]]
\* write_ecosystem_outputs, build_ecosystem_outputs.
WriteCorpus ==
    /\ Goes("corpus")
    /\ LET all == FirstOnly(build.pairs) IN Write("corpus", (all \ build.held) \ RejectedOf(all))
    /\ build' = [build EXCEPT !.phase = "rejected"]
    /\ UNCHANGED <<answers, zips, recorded, processed, builds, buildFaults>>
WriteRejected ==
    /\ Goes("rejected")
    /\ Write("rejected", RejectedOf(FirstOnly(build.pairs)))
    /\ build' = [build EXCEPT !.phase = "heldOut"]
    /\ UNCHANGED <<answers, zips, recorded, processed, builds, buildFaults>>
\* The held-out file is only written when there is something in it.
WriteHeldOut ==
    /\ Goes("heldOut")
    /\ LET kept == build.held \ RejectedOf(FirstOnly(build.pairs)) IN
       IF kept = {} THEN UNCHANGED outputs ELSE Write("heldOut", kept)
    /\ build' = NextEcosystem
    /\ UNCHANGED <<answers, zips, recorded, processed, builds, buildFaults>>

\* The process is killed, perhaps while it writes an answer or the finished advisories.
KillBuild ==
    /\ ~Goes("idle") /\ buildFaults < MaxBuildFaults
    /\ build' = NoBuild /\ buildFaults' = buildFaults + 1
    /\ \/ UNCHANGED <<answers, recorded>>
       \/ Goes("persist") /\ recorded' = [recorded EXCEPT !.torn = TRUE] /\ UNCHANGED answers
       \/ /\ Goes("commit") /\ "there" \in Replies(<<"commit", Fix>>) /\ answers[<<"commit", Fix>>] = "none"
          /\ answers' = [answers EXCEPT ![<<"commit", Fix>>] = "torn"] /\ UNCHANGED recorded
    /\ UNCHANGED <<zips, outputs, processed, builds>>

CorpusNext ==
    \/ StartBuild \/ OpenZip \/ TakeAdvisory \/ AskCommit \/ AskFile \/ RecordAdvisory
    \/ Persist \/ WriteCorpus \/ WriteRejected \/ WriteHeldOut \/ KillBuild

------------------------------------------------------------------------------
AllPairs(a) ==
    IF FixOf[a] = NoFix THEN {}
    ELSE UNION {PairsOf[f] : f \in {g \in ToSet(FilesOf[FixOf[a]]) :
                                       {<<"post", g>>, <<"pre", g>>} \cap Gone = {}}}
Complete(records) == \A a \in DOMAIN records : ~records[a].lost => records[a].pairs = AllPairs(a)

\* However runs are cut, killed, resumed or offline, the corpus is what GitHub holds: an
\* advisory recorded as processed has all its pairs, unless a request of one of its files
\* failed; a resumed run that is not cut uses every recorded advisory of its archive; and the
\* files that one run wrote share no pair, nor the corpus and the held-out set an advisory.
CorpusAddsUp ==
    /\ Complete(recorded.by)
    /\ Complete(processed)
    /\ Goes("corpus") /\ build.resume /\ ~build.cut =>
          {e.pair : e \in FirstOnly(build.pairs)}
             = UNION {processed[a].pairs : a \in DOMAIN processed \cap ToSet(Listed[Eco])}
    /\ \A e \in ToSet(Ecosystems) :
        LET written == outputs[e]
            pairs(file) == {x.pair : x \in written[file].pairs}
            advisories(file) == {x.adv : x \in written[file].pairs}
        IN  /\ written.corpus.of = written.heldOut.of => advisories("corpus") \cap advisories("heldOut") = {}
            /\ \A file \in {"corpus", "heldOut"} :
                  written.rejected.of = written[file].of => pairs("rejected") \cap pairs(file) = {}
==============================================================================
