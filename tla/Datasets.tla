------------------------------- MODULE Datasets -------------------------------
(***************************************************************************)
(* The data sets the pull request review is evaluated on (scripts/         *)
(* build_pr_eval.py): pull requests made of fix commits, forwards and      *)
(* backwards, of the files beside a fix, and of commits fetched as benign, *)
(* on the two sides of a split that must share nothing.                    *)
(*                                                                         *)
(* A fix commit is [name, repo, osv, bases, files]: bases are its eval     *)
(* pairs, none for a commit the corpus has only; a file is [path, size,    *)
(* pairs, mined, there, says]: its changed lines, the eval pairs in it,    *)
(* whether the corpus has others, whether both sides can be had, whether   *)
(* a changed line is not blank.  A fetched commit is [name, repo, split,   *)
(* size].                                                                  *)
(***************************************************************************)
EXTENDS ChangedCode, Functions

CONSTANTS
    MaxPrFiles, MaxChangedLines, OtherPerRepo,
    SideOf,         \* of an eval pair, in the split file: "dev", "test", or "none"
    DisplayOf       \* of an eval pair: the number of the advisory it is shown under

------------------------------------------------------------------------------
\* reconstruct: both sides of a changed file from what is cached (each may be None).
Unable == <<None, None>>
Reconstruct(status, patch, pre, post) ==
    LET back(text) == IF patch = None THEN None ELSE Applied(text, "new", patch)
        on(text) == IF patch = None THEN None ELSE Applied(text, "old", patch)
        both == CASE status = "added" -> <<<<>>, IF post = None THEN on(<<>>) ELSE post>>
                  [] status = "removed" -> <<IF pre = None THEN back(<<>>) ELSE pre, <<>>>>
                  [] status = "modified" ->
                        <<IF pre = None /\ post # None THEN back(post) ELSE pre,
                          IF post = None /\ pre # None THEN on(pre) ELSE post>>
                  [] OTHER -> Unable
    IN  IF None \in {both[1], both[2]} THEN Unable ELSE both

\* Whatever is cached, what is made of it is the change, or nothing; and it is made whenever
\* the patch and one side are there.
ReconstructsChange(E, n) ==
    LET old == OldOf(E)  new == NewOf(E)
        status == CASE old = <<>> -> "added" [] new = <<>> /\ old # <<>> -> "removed" [] OTHER -> "modified"
    IN  old # new => \A pre \in {old, None}, post \in {new, None}, patch \in {Patch(E, n), None} :
        \A both \in {Reconstruct(status, patch, pre, post)} :
            /\ both \in {Unable, <<old, new>>}
            /\ both = Unable => patch = None \/ (status = "modified" /\ pre = None /\ post = None)

------------------------------------------------------------------------------
ChangedIn(files) == MapThenSumSet(LAMBDA f : f.size, files)
\* select_files: in this order, each file that still fits.
SelectFiles(order) ==
    FoldLeft(LAMBDA kept, f : IF \/ Cardinality(kept) >= MaxPrFiles
                                 \/ ChangedIn(kept) + f.size > MaxChangedLines
                              THEN kept ELSE kept \cup {f}, {}, order)

ByPath(files) == SetToSortSeq(files, LAMBDA f, g : f.path < g.path)
There(c) == {f \in c.files : f.there}
\* The files with vulnerable functions, those with most of them first.
Priority(c) == SetToSortSeq({f \in c.files : f.pairs > 0}, LAMBDA f, g :
                   f.pairs > g.pairs \/ (f.pairs = g.pairs /\ f.path < g.path))

\* split_for_ids
SplitForIds(bases) ==
    LET sides == {SideOf[b] : b \in bases} \ {"none"}
    IN  CASE sides = {} -> "reserve" [] sides = {"dev", "test"} -> "straddles"
          [] OTHER -> CHOOSE s \in sides : TRUE

Item(c, kind, split, kept) ==
    [kind |-> kind, commit |-> c.name, repo |-> c.repo, split |-> split, files |-> kept,
     bases |-> IF kind = "benign" THEN {} ELSE c.bases, osv |-> IF kind = "benign" THEN {} ELSE {c.osv}]
\* build_vuln_items: the fix and its reverse, of the same files.
BuildVulnItems(c) ==
    LET first == Priority(c)
        kept == SelectFiles(SelectSeq(first, LAMBDA f : f.there) \o ByPath(There(c) \ ToSet(first)))
    IN  IF first = <<>> \/ Head(first) \notin kept THEN {}
        ELSE {Item(c, kind, SplitForIds(c.bases), kept) : kind \in {"vuln_introducing", "vuln_fix"}}

Mined(c) == {f \in c.files : f.pairs > 0 \/ f.mined}
\* build_bystander_item: the files that hold no function the fix changed.
BuildBystander(c, split) ==
    LET kept == SelectFiles(ByPath({f \in There(c) \ Mined(c) : f.says}))
    IN  IF Mined(c) = {} \/ kept = {} THEN {} ELSE {Item(c, "benign", split, kept)}

\* build_all.  The sides of a repository are those of its eval commits.
EvalCommits(cs) == {c \in ToSet(cs) : c.bases # {}}
RepoSides(cs, repo) ==
    {SplitForIds(c.bases) : c \in {d \in EvalCommits(cs) : d.repo = repo}} \ {"reserve"}
Builds(cs) == \A c \in EvalCommits(cs) :
    /\ SplitForIds(c.bases) # "straddles" /\ Cardinality(RepoSides(cs, c.repo)) <= 1
RepoSide(cs, repo) == IF RepoSides(cs, repo) = {} THEN "reserve" ELSE CHOOSE s \in RepoSides(cs, repo) : TRUE

OtherCommits(cs, repo) == SelectSeq(cs, LAMBDA c : c.bases = {} /\ c.repo = repo)
\* Of a repository's other commits, those whose turn comes before the cap is reached.
OtherBystanders(cs, repo) ==
    FoldLeft(LAMBDA items, c : IF Cardinality(items) >= OtherPerRepo THEN items
                               ELSE items \cup BuildBystander(c, RepoSide(cs, repo)),
             {}, OtherCommits(cs, repo))
Repos(cs) == {c.repo : c \in ToSet(cs)}
BuildAll(cs) ==
    UNION {BuildVulnItems(c) \cup BuildBystander(c, SplitForIds(c.bases)) : c \in EvalCommits(cs)}
    \cup UNION {OtherBystanders(cs, r) : r \in Repos(cs)}

------------------------------------------------------------------------------
Displays(item) == {DisplayOf[b] : b \in item.bases}
AdvisoryId(item) == IF item.bases = {} THEN {} ELSE {Min(Displays(item))}
OnSide(items, side) == {i \in items : i.split = side}
Shared(items, keys) == UNION {keys[i] : i \in OnSide(items, "dev")} \cap UNION {keys[i] : i \in OnSide(items, "test")}
\* straddling, what main refuses: the advisory an item is named after and its OSV ids.
Straddles(items) ==
    \/ Shared(items, [i \in items |-> {i.repo}]) # {}
    \/ Shared(items, [i \in items |-> AdvisoryId(i) \cup i.osv]) # {}

\* build_v2, real_commit_item: a fetched commit that may be used.
KnownCommits(cs) == {c.name : c \in ToSet(cs)}
RealCommitOk(cs, built, r) ==
    LET repoSide == IF \E i \in built : i.repo = r.repo THEN RepoSide(cs, r.repo) ELSE "reserve" IN
    /\ r.split \in {"dev", "test"} /\ r.split = repoSide
    /\ r.size \in 1..MaxChangedLines /\ r.name \notin KnownCommits(cs)
RealItem(r) == [kind |-> "benign", commit |-> r.name, repo |-> r.repo, split |-> r.split, files |-> {},
                bases |-> {}, osv |-> {}]
BuildV2(built, reals) == {i \in built : i.kind # "benign" /\ i.split # "reserve"} \cup {RealItem(r) : r \in reals}

\* split_leak_check
Leaks(cs, items) ==
    \/ \E i \in items : i.split # RepoSide(cs, i.repo)
    \/ \E i \in items : i.kind # "benign" /\ {SideOf[b] : b \in i.bases} # {i.split}
    \/ Shared(items, [i \in items |-> {i.repo}]) # {} \/ Shared(items, [i \in items |-> {i.commit}]) # {}
    \/ Shared(items, [i \in items |-> i.osv \cup Displays(i)]) # {}

------------------------------------------------------------------------------
\* A data set that is built: every fix comes with its reverse, the file with most vulnerable
\* functions in both; a pull request is cut as little as the caps allow, a benign one holds no
\* file of a fixed function; and what the first check accepts the second does too, if the
\* split file knows every eval pair and each commit is shown under one advisory.
DataSetHolds(cs, fetched) ==
    LET built == BuildAll(cs)
        reals == {r \in fetched : RealCommitOk(cs, built, r)}
        fits(i, f) == Cardinality(i.files) < MaxPrFiles /\ ChangedIn(i.files) + f.size <= MaxChangedLines
        plain == \A c \in EvalCommits(cs) : /\ "none" \notin {SideOf[b] : b \in c.bases}
                                            /\ Cardinality({DisplayOf[b] : b \in c.bases}) = 1
    IN  Builds(cs) =>
        /\ \A i \in built :
            LET c == CHOOSE x \in ToSet(cs) : x.name = i.commit IN
            /\ Cardinality(i.files) <= MaxPrFiles /\ ChangedIn(i.files) <= MaxChangedLines
            /\ i.kind # "benign" =>
                  /\ {j.files : j \in {k \in built : k.commit = i.commit /\ k.kind # "benign"}} = {i.files}
                  /\ Cardinality({k \in built : k.commit = i.commit /\ k.kind # "benign"}) = 2
                  /\ \A f \in c.files : f.pairs > 0 => \E g \in i.files : g.pairs >= f.pairs
                  /\ \A f \in There(c) \ i.files : ~fits(i, f)
            /\ i.kind = "benign" => i.files \cap Mined(c) = {}
                                    /\ \A f \in There(c) \ (Mined(c) \cup i.files) : f.says => ~fits(i, f)
        /\ plain /\ ~Straddles(built) => ~Leaks(cs, BuildV2(built, reals))
==============================================================================
