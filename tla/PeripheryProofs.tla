---------------------------- MODULE PeripheryProofs ---------------------------
(***************************************************************************)
(* The programs around the review, for any number of runs, pull requests   *)
(* and requests.  Each part has an invariant of its own variables; the     *)
(* other parts leave them alone.                                           *)
(***************************************************************************)
EXTENDS Periphery, SelectionProofs
------------------------------------------------------------------------------
(* TeamIngest.                                                             *)

\* Times are those of the clock, and no two pull requests have the same one.
Times ==
    /\ clock \in Nat /\ cursor \in 0..clock
    /\ updated \in [Prs -> 0..clock]
    /\ \A p, q \in Prs : updated[p] = updated[q] /\ updated[p] # 0 => p = q
    /\ gap \in BOOLEAN

Modes == [full : BOOLEAN, recreate : BOOLEAN, mock : BOOLEAN]

\* What a crawl has fetched: documents as new as the pull request, unless it was updated since
\* the start.
Fetched ==
    /\ DOMAIN crawl = {"pc", "count", "docs", "mode", "started", "since"}
    /\ crawl.pc \in {"idle", "crawl", "insert"}
    /\ crawl.count \in Nat
    /\ crawl.docs \in Seq([pr : Prs, at : Nat])
    /\ crawl.pc # "idle" =>
        /\ crawl.started \in cursor..clock
        /\ crawl.since = IF crawl.mode.full THEN 0 ELSE cursor
        /\ \A i \in DOMAIN crawl.docs :
              LET d == crawl.docs[i] IN updated[d.pr] <= crawl.started => d.at = updated[d.pr]

\* The pull requests listed before p, by the times u.
Ahead(u, p) == {q \in Prs : u[q] > u[p]}
Newer(p) == Ahead(updated, p)

\* The documents the running crawl owes: those updated after the last run and not since.
Owed == {p \in Prs \ Silent : updated[p] > crawl.since /\ updated[p] <= crawl.started}
Seen(p) == \E i \in DOMAIN crawl.docs : crawl.docs[i].pr = p

\* What is owed was seen or comes later in the listing; once the listing has ended, it is
\* about to be inserted or was, unless the limit cut it off, which the gap remembers.
Covered == \A p \in Owed : Seen(p) \/ stored[p] = updated[p]
Coming ==
    /\ crawl.pc = "crawl" =>
        /\ ~crawl.mode.mock
        /\ \A p \in Owed : Seen(p) \/ Cardinality(Newer(p)) >= crawl.count
    /\ crawl.pc = "insert" => crawl.mode.mock \/ Covered \/ (gap /\ crawl.count >= PrLimit)

IngestInv == Times /\ Fetched /\ Coming /\ CrawlMissesNothing

\* There are finitely many pull requests before one.
LEMMA AheadFinite ==
    ASSUME NEW u, NEW p
    PROVE  IsFiniteSet(Ahead(u, p)) /\ Cardinality(Ahead(u, p)) \in Nat
BY IngestBounds, FS_Subset, FS_CardinalityType DEF Ahead

\* The older of two pull requests has more before it.
LEMMA OlderIsLater ==
    ASSUME NEW u \in [Prs -> Nat], NEW p \in Prs, NEW q \in Prs, u[p] < u[q]
    PROVE  Cardinality(Ahead(u, q)) < Cardinality(Ahead(u, p))
<1>1. Ahead(u, q) \in SUBSET Ahead(u, p) /\ q \in Ahead(u, p) /\ q \notin Ahead(u, q)
  BY DEF Ahead
<1>2. /\ IsFiniteSet(Ahead(u, p)) /\ Cardinality(Ahead(u, p)) \in Nat
      /\ Cardinality(Ahead(u, q)) \in Nat
  BY AheadFinite
<1>3. Cardinality(Ahead(u, q)) <= Cardinality(Ahead(u, p)) /\ Cardinality(Ahead(u, p)) # Cardinality(Ahead(u, q))
  BY <1>1, <1>2, FS_Subset
<1> QED  BY <1>2, <1>3

\* No two pull requests have the same time, but the open ones.
Distinct(u) == \A p, q \in Prs : u[p] = u[q] /\ u[p] # 0 => p = q

\* If n or more are before p, the listing has a pull request in the place after n, and it is
\* not older than p.
LEMMA PlaceTaken ==
    ASSUME NEW u \in [Prs -> Nat], NEW m \in Nat, \A q \in Prs : u[q] <= m, Distinct(u),
           NEW p \in Prs, u[p] > 0, NEW n \in Nat, Cardinality(Ahead(u, p)) >= n
    PROVE  \E x \in Prs : u[x] >= u[p] /\ Cardinality(Ahead(u, x)) = n
<1> DEFINE Late(x) == x \in Prs /\ u[x] >= u[p] /\ Cardinality(Ahead(u, x)) >= n
           T == {u[x] : x \in {y \in Prs : Late(y)}}
<1>1. T \subseteq 0..m /\ u[p] \in T
  OBVIOUS
<1>2. PICK k \in T : \A j \in T : j <= k
  <2> HIDE DEF T
  <2> QED  BY <1>1, GreatestOfSome
<1>3. PICK x \in Prs : Late(x) /\ k = u[x]
  OBVIOUS
<1>4. Cardinality(Ahead(u, x)) \in Nat /\ IsFiniteSet(Ahead(u, x))
  BY AheadFinite
<1>5. ASSUME Cardinality(Ahead(u, x)) > n PROVE FALSE
  <2> DEFINE R == {u[z] : z \in Ahead(u, x)}
  <2>1. R \subseteq Nat
    BY DEF Ahead
  <2>2. R # {}
    <3>1. Ahead(u, x) # {}
      BY <1>4, <1>5, FS_EmptySet
    <3> QED  BY <3>1
  <2>3. PICK j \in R : \A i \in R : j <= i
    <3> HIDE DEF R
    <3> QED  BY <2>1, <2>2, LeastOfSome
  <2>4. PICK y \in Ahead(u, x) : j = u[y]
    OBVIOUS
  <2>5. y \in Prs /\ u[y] > u[x] /\ u[y] \in Nat /\ u[x] \in Nat
    BY <1>3, <2>4 DEF Ahead
  <2>6. \A z \in Ahead(u, x) : u[y] <= u[z]
    BY <2>3, <2>4
  <2>7. Ahead(u, y) = Ahead(u, x) \ {y}
    <3>1. ASSUME NEW z \in Ahead(u, y) PROVE z \in Ahead(u, x) \ {y}
      BY <2>5 DEF Ahead
    <3>2. ASSUME NEW z \in Ahead(u, x), z # y PROVE z \in Ahead(u, y)
      <4>1. z \in Prs /\ u[z] \in Nat /\ u[z] >= u[y]
        BY <2>6, <2>5 DEF Ahead
      <4>2. u[z] # u[y]
        BY <3>2, <4>1, <2>5 DEF Distinct
      <4> QED  BY <4>1, <4>2, <2>5 DEF Ahead
    <3> QED  BY <3>1, <3>2
  <2>8. Cardinality(Ahead(u, y)) = Cardinality(Ahead(u, x)) - 1
    BY <1>4, <2>4, <2>7, FS_RemoveElement
  <2>9. Late(y)
    BY <1>3, <1>4, <1>5, <2>5, <2>8
  <2> QED  BY <1>2, <1>3, <2>5, <2>9
<1> QED  BY <1>3, <1>4, <1>5

\* A pull request updated now is no longer owed, and the others have as many before them.
LEMMA UpdateInv ==
    ASSUME IngestInv, NEW r \in Prs, UpdatePr(r)
    PROVE  IngestInv'
<1>1. /\ clock \in Nat /\ cursor \in 0..clock /\ updated \in [Prs -> 0..clock] /\ clock' = clock + 1
      /\ updated' = [updated EXCEPT ![r] = clock + 1]
      /\ UNCHANGED <<stored, cursor, crawl, ingests, gap>>
  BY DEF IngestInv, Times, UpdatePr
<1>2. \A q \in Prs : q # r => updated'[q] = updated[q]
  BY <1>1
<1>3. updated'[r] = clock + 1 /\ updated' \in [Prs -> 0..clock']
  BY <1>1
<1>4. Times'
  BY <1>1, <1>2, <1>3 DEF IngestInv, Times
<1>5. Fetched'
  <2>1. ASSUME crawl.pc # "idle", NEW i \in DOMAIN crawl.docs, updated'[crawl.docs[i].pr] <= crawl.started
        PROVE  crawl.docs[i].at = updated'[crawl.docs[i].pr]
    <3>1. crawl.docs \in Seq([pr : Prs, at : Nat]) /\ crawl.started \in cursor..clock
      BY <2>1 DEF IngestInv, Fetched
    <3>2. crawl.docs[i] \in [pr : Prs, at : Nat]
      BY <2>1, <3>1, ElementOfSeq, LenProperties
    <3>3. crawl.docs[i].pr # r
      BY <1>1, <1>3, <2>1, <3>1, SMTT(30)
    <3> QED  BY <1>2, <2>1, <3>2, <3>3 DEF IngestInv, Fetched
  <2> QED  BY <1>1, <2>1 DEF IngestInv, Fetched
<1>6. crawl.pc # "idle" => \A p \in Owed' : p \in Owed /\ p # r /\ updated'[p] = updated[p]
  BY <1>1, <1>2, <1>3 DEF IngestInv, Fetched, Owed
<1>7. ASSUME NEW p \in Prs, p # r PROVE Cardinality(Newer(p)') >= Cardinality(Newer(p))
  <2>1. Newer(p) \in SUBSET (Newer(p)')
    BY <1>1, <1>2, <1>3, <1>7 DEF Newer, Ahead
  <2>2. IsFiniteSet(Newer(p)') /\ Cardinality(Newer(p)') \in Nat /\ Cardinality(Newer(p)) \in Nat
    BY AheadFinite DEF Newer
  <2> QED  BY <2>1, <2>2, FS_Subset
<1>8. Coming'
  <2>1. \A p : Seen(p)' = Seen(p)
    BY <1>1 DEF Seen
  <2>2. ASSUME crawl.pc = "crawl", NEW p \in Owed'
        PROVE  Seen(p) \/ Cardinality(Newer(p)') >= crawl.count
    <3>1. p \in Prs /\ p # r /\ (Seen(p) \/ Cardinality(Newer(p)) >= crawl.count) /\ crawl.count \in Nat
      BY <1>6, <2>2 DEF IngestInv, Coming, Fetched, Owed
    <3>2. Cardinality(Newer(p)') \in Nat /\ Cardinality(Newer(p)) \in Nat
      BY AheadFinite DEF Newer
    <3> QED  BY <1>7, <3>1, <3>2
  <2>3. crawl.pc = "insert" /\ Covered => Covered'
    BY <1>1, <1>6, <2>1 DEF Covered
  <2> QED  BY <1>1, <2>1, <2>2, <2>3 DEF IngestInv, Coming
<1>9. CrawlMissesNothing'
  BY <1>1, <1>2, <1>3 DEF IngestInv, CrawlMissesNothing
<1> QED  BY <1>4, <1>5, <1>8, <1>9 DEF IngestInv

\* A run starts with everything still to come.
LEMMA StartInv ==
    ASSUME IngestInv, NEW mode \in Modes, StartIngest(mode)
    PROVE  IngestInv'
<1>1. /\ UNCHANGED <<clock, updated, cursor>> /\ clock \in Nat /\ cursor \in 0..clock
      /\ gap' = (gap \/ mode.recreate)
      /\ stored' = IF mode.recreate THEN [p \in Prs |-> 0] ELSE stored
      /\ crawl' = [Idle EXCEPT !.pc = IF mode.mock THEN "insert" ELSE "crawl", !.mode = mode,
                             !.started = clock, !.since = IF mode.full THEN 0 ELSE cursor]
      /\ mode.full \in BOOLEAN /\ mode.recreate \in BOOLEAN /\ mode.mock \in BOOLEAN /\ gap \in BOOLEAN
  BY DEF IngestInv, Times, StartIngest, Modes
<1>2. /\ crawl'.pc = (IF mode.mock THEN "insert" ELSE "crawl") /\ crawl'.mode = mode
      /\ crawl'.started = clock /\ crawl'.since = (IF mode.full THEN 0 ELSE cursor)
      /\ crawl'.count = 0 /\ crawl'.docs = <<>>
  BY <1>1 DEF Idle
<1>3. Times'
  BY <1>1 DEF IngestInv, Times
<1>4. Fetched'
  <2>1. crawl'.docs \in Seq([pr : Prs, at : Nat]) /\ DOMAIN crawl'.docs = {}
    BY <1>2, EmptySeq
  <2>2. DOMAIN crawl' = {"pc", "count", "docs", "mode", "started", "since"}
    BY <1>1 DEF Idle
  <2> QED  BY <1>1, <1>2, <2>1, <2>2 DEF Fetched
<1>5. Coming'
  <2>1. \A p : Cardinality(Newer(p)') \in Nat
    BY AheadFinite DEF Newer
  <2> QED  BY <1>1, <1>2, <2>1 DEF Coming
<1>6. CrawlMissesNothing'
  BY <1>1 DEF IngestInv, CrawlMissesNothing
<1> QED  BY <1>3, <1>4, <1>5, <1>6 DEF IngestInv

\* The pull request in the next place is the only one there; it is fetched, and those after it
\* are still to come.
LEMMA NextInv ==
    ASSUME IngestInv, CrawlNext
    PROVE  IngestInv'
<1>1. /\ clock \in Nat /\ cursor \in 0..clock /\ updated \in [Prs -> 0..clock] /\ Distinct(updated)
      /\ UNCHANGED <<clock, updated, stored, cursor, ingests, gap>> /\ crawl.pc = "crawl"
      /\ crawl.count \in Nat /\ crawl.docs \in Seq([pr : Prs, at : Nat]) /\ ~crawl.mode.mock
      /\ crawl.started \in cursor..clock
  BY DEF IngestInv, Times, CrawlNext, Fetched, Coming, Distinct
<1>2. PICK p \in Newest(crawl.count + 1) :
        /\ updated[p] > crawl.since
        /\ crawl' = [crawl EXCEPT !.count = @ + 1,
                     !.docs = IF p \in Silent THEN @ ELSE Append(@, [pr |-> p, at |-> updated[p]])]
  BY DEF CrawlNext
<1>3. p \in Prs /\ updated[p] \in Nat /\ updated[p] # 0 /\ Cardinality(Newer(p)) = crawl.count
  <2>1. p \in Prs /\ updated[p] # 0 /\ Cardinality(Newer(p)) = (crawl.count + 1) - 1
    BY DEF Newest, Newer, Ahead
  <2> QED  BY <1>1, <2>1
<1> DEFINE new == [pr |-> p, at |-> updated[p]]
           docs == IF p \in Silent THEN crawl.docs ELSE Append(crawl.docs, new)
<1>4. new \in [pr : Prs, at : Nat]
  BY <1>3
<1>5. /\ docs \in Seq([pr : Prs, at : Nat])
      /\ \A i \in DOMAIN crawl.docs : i \in DOMAIN docs /\ docs[i] = crawl.docs[i]
      /\ \A i \in DOMAIN docs : docs[i] = new \/ (i \in DOMAIN crawl.docs /\ docs[i] = crawl.docs[i])
      /\ p \notin Silent => \E i \in DOMAIN docs : docs[i] = new
  <2> HIDE DEF new
  <2>1. Len(crawl.docs) \in Nat /\ DOMAIN crawl.docs = 1..Len(crawl.docs)
    BY <1>1, LenProperties
  <2>2. CASE p \in Silent
    BY <1>1, <2>2
  <2>3. CASE p \notin Silent
    <3>1. docs = Append(crawl.docs, new)
      BY <2>3
    <3>2. crawl.docs \in Seq([pr : Prs, at : Nat])
      BY <1>1
    <3> DEFINE D == [pr : Prs, at : Nat]
               old == crawl.docs
    <3>3. new \in D /\ old \in Seq(D)
      BY <1>4, <3>2
    <3> HIDE DEF docs, D, old
    <3>4. /\ Append(old, new) \in Seq(D)
          /\ \A i \in DOMAIN old : i \in DOMAIN Append(old, new) /\ Append(old, new)[i] = old[i]
          /\ \A i \in DOMAIN Append(old, new) :
                Append(old, new)[i] = new \/ (i \in DOMAIN old /\ Append(old, new)[i] = old[i])
          /\ \E i \in DOMAIN Append(old, new) : Append(old, new)[i] = new
      BY ONLY <3>3, AppendFacts
    <3> QED  BY <3>1, <3>4 DEF D, old
  <2> QED  BY <2>2, <2>3
<1>6. /\ crawl'.pc = "crawl" /\ crawl'.count = crawl.count + 1 /\ crawl'.docs = docs
      /\ crawl'.mode = crawl.mode /\ crawl'.started = crawl.started /\ crawl'.since = crawl.since
  <2>1. DOMAIN crawl = {"pc", "count", "docs", "mode", "started", "since"}
    BY DEF IngestInv, Fetched
  <2>2. crawl' = [[crawl EXCEPT !.count = crawl.count + 1] EXCEPT !.docs = docs]
    BY <1>2
  <2> HIDE DEF docs
  <2> QED  BY <1>1, <2>1, <2>2
<1> HIDE DEF docs
<1>7. Times'
  BY <1>1 DEF IngestInv, Times
<1>8. Fetched'
  <2>1. ASSUME NEW i \in DOMAIN docs, updated[docs[i].pr] <= crawl.started
        PROVE  docs[i].at = updated[docs[i].pr]
    <3>1. CASE docs[i] = new
      BY <3>1
    <3>2. CASE i \in DOMAIN crawl.docs /\ docs[i] = crawl.docs[i]
      BY <1>1, <2>1, <3>2 DEF IngestInv, Fetched
    <3> QED  BY <1>5, <3>1, <3>2
  <2>2. DOMAIN crawl' = {"pc", "count", "docs", "mode", "started", "since"} /\ crawl.since = IF crawl.mode.full THEN 0 ELSE cursor
    BY <1>1, <1>2 DEF IngestInv, Fetched
  <2>3. crawl'.count \in Nat
    BY <1>1, <1>6
  <2> HIDE DEF new
  <2> QED  BY <1>1, <1>5, <1>6, <2>1, <2>2, <2>3 DEF Fetched
<1>9. Coming'
  <2>1. \A q : Newer(q)' = Newer(q)
    BY <1>1 DEF Newer
  <2>2. Owed' = Owed
    BY <1>1, <1>6 DEF Owed
  <2>3. ASSUME NEW q \in Owed PROVE Seen(q)' \/ Cardinality(Newer(q)) >= crawl.count + 1
    <3>1. q \in Prs \ Silent /\ updated[q] \in Nat /\ updated[q] <= crawl.started
      BY <1>1 DEF Owed
    <3>2. CASE q = p
      BY <1>5, <1>6, <3>1, <3>2 DEF Seen
    <3>3. CASE Seen(q)
      BY <1>5, <1>6, <3>3 DEF Seen
    <3>4. CASE q # p /\ ~Seen(q)
      <4>1. Cardinality(Newer(q)) >= crawl.count /\ Cardinality(Newer(q)) \in Nat
        BY <1>1, <3>4, AheadFinite DEF IngestInv, Coming, Newer
      <4>2. updated \in [Prs -> Nat] /\ updated[q] # updated[p]
        BY <1>1, <1>3, <3>1, <3>4 DEF Distinct
      <4>3. Cardinality(Newer(q)) # Cardinality(Newer(p))
        <5>1. Cardinality(Newer(p)) \in Nat
          BY <1>1, <1>3
        <5> QED  BY <1>3, <3>1, <4>1, <4>2, <5>1, OlderIsLater DEF Newer
      <4> QED  BY <1>1, <1>3, <4>1, <4>3
    <3> QED  BY <3>2, <3>3, <3>4
  <2> QED  BY <1>1, <1>6, <2>1, <2>2, <2>3 DEF Coming
<1>10. CrawlMissesNothing'
  BY <1>1 DEF IngestInv, CrawlMissesNothing
<1> QED  BY <1>7, <1>8, <1>9, <1>10 DEF IngestInv

\* Without a run there is nothing to show but the property itself.
LEMMA IdleInv ==
    ASSUME IngestInv, crawl' = Idle, UNCHANGED <<clock, updated, stored, cursor>>,
           gap' \in BOOLEAN, gap => gap'
    PROVE  IngestInv'
<1>1. Times'
  BY DEF IngestInv, Times
<1>2. crawl'.pc = "idle" /\ crawl'.count = 0 /\ crawl'.docs = <<>>
  BY DEF Idle
<1>3. Fetched'
  <2>1. crawl'.docs \in Seq([pr : Prs, at : Nat])
    BY <1>2, EmptySeq
  <2>2. DOMAIN crawl' = {"pc", "count", "docs", "mode", "started", "since"}
    BY DEF Idle
  <2> QED  BY <1>2, <2>1, <2>2 DEF Fetched
<1>4. Coming'
  BY <1>2 DEF Coming
<1>5. CrawlMissesNothing'
  BY DEF IngestInv, CrawlMissesNothing
<1> QED  BY <1>1, <1>3, <1>4, <1>5 DEF IngestInv

\* Where the listing has nothing newer in the next place, all that is owed has been seen.
LEMMA EndInv ==
    ASSUME IngestInv, CrawlEnds
    PROVE  IngestInv'
<1> DEFINE More == \E p \in Newest(crawl.count + 1) : updated[p] > crawl.since
<1>1. /\ clock \in Nat /\ cursor \in 0..clock /\ updated \in [Prs -> 0..clock] /\ Distinct(updated)
      /\ UNCHANGED <<clock, updated, stored, cursor, ingests>> /\ crawl.pc = "crawl"
      /\ crawl.count \in Nat /\ crawl.docs \in Seq([pr : Prs, at : Nat])
      /\ crawl.started \in cursor..clock
      /\ crawl.since = IF crawl.mode.full THEN 0 ELSE cursor
      /\ gap \in BOOLEAN /\ gap' = (gap \/ More)
      /\ crawl.count >= PrLimit \/ ~More
  BY DEF IngestInv, Times, CrawlEnds, Fetched, Coming, Distinct
<1> HIDE DEF More
<1>2. CASE crawl.docs = <<>>
  BY <1>1, <1>2, IdleInv DEF CrawlEnds
<1>3. CASE crawl.docs # <<>>
  <2>1. crawl' = [crawl EXCEPT !.pc = "insert"]
    BY <1>3 DEF CrawlEnds
  <2>2. /\ crawl'.pc = "insert" /\ crawl'.count = crawl.count /\ crawl'.docs = crawl.docs
        /\ crawl'.mode = crawl.mode /\ crawl'.started = crawl.started /\ crawl'.since = crawl.since
    BY <2>1 DEF IngestInv, Fetched
  <2>3. Times'
    BY <1>1 DEF IngestInv, Times
  <2>4. Fetched'
    <3>1. DOMAIN crawl' = DOMAIN crawl
      BY <2>1
    <3> QED  BY <1>1, <2>2, <3>1 DEF IngestInv, Fetched
  <2>5. ASSUME ~More, NEW p \in Owed PROVE Seen(p)
    <3>1. /\ p \in Prs /\ updated[p] \in Nat /\ updated[p] > crawl.since /\ crawl.since \in Nat
          /\ updated \in [Prs -> Nat] /\ \A q \in Prs : updated[q] <= clock
      BY <1>1 DEF Owed
    <3>2. SUFFICES ASSUME Cardinality(Newer(p)) >= crawl.count PROVE FALSE
      BY <1>1, <2>5 DEF IngestInv, Coming
    <3>3. PICK x \in Prs : updated[x] >= updated[p] /\ Cardinality(Newer(x)) = crawl.count
      BY <1>1, <3>1, <3>2, PlaceTaken, SMTT(30) DEF Newer
    <3>4. updated[x] \in Nat /\ updated[x] # 0 /\ updated[x] > crawl.since
      BY <3>1, <3>3
    <3>5. Cardinality(Newer(x)) = (crawl.count + 1) - 1
      BY <1>1, <3>3
    <3>6. x \in Newest(crawl.count + 1)
      BY <3>4, <3>5 DEF Newest, Newer, Ahead
    <3> QED  BY <2>5, <3>4, <3>6 DEF More
  <2>6. Coming'
    <3>1. Owed' = Owed /\ \A p : Seen(p)' = Seen(p)
      BY <1>1, <2>2 DEF Owed, Seen
    <3>2. ASSUME ~More PROVE Covered'
      BY <2>5, <3>1, <3>2 DEF Covered
    <3>3. CASE ~More
      BY <2>2, <3>2, <3>3 DEF Coming
    <3>4. CASE More
      <4>1. gap' /\ crawl.count >= PrLimit
        BY <1>1, <3>4
      <4> QED  BY <2>2, <4>1 DEF Coming
    <3> QED  BY <3>3, <3>4
  <2>7. CrawlMissesNothing'
    BY <1>1 DEF IngestInv, CrawlMissesNothing
  <2> QED  BY <2>3, <2>4, <2>6, <2>7 DEF IngestInv
<1> QED  BY <1>2, <1>3

\* Of documents of p that are all as new as at, the newest is.
LEMMA NewestDocument ==
    ASSUME NEW W, NEW p, NEW at \in Nat, \E d \in W : d.pr = p,
           \A d \in W : d.pr = p => d.at = at
    PROVE  (CHOOSE d \in W : d.pr = p /\ \A e \in W : e.pr = p => e.at <= d.at).at = at
<1> DEFINE Latest(d) == d \in W /\ d.pr = p /\ \A e \in W : e.pr = p => e.at <= d.at
<1>1. \E d : Latest(d)
  OBVIOUS
<1>2. Latest(CHOOSE d : Latest(d))
  <2> HIDE DEF Latest
  <2> QED  BY <1>1
<1>3. (CHOOSE d : Latest(d)).at = at
  BY <1>2
<1>4. (CHOOSE d : Latest(d)) = CHOOSE d \in W : d.pr = p /\ \A e \in W : e.pr = p => e.at <= d.at
  OBVIOUS
<1> QED  BY <1>3, <1>4

\* A batch stores what it holds as it was fetched, which is as it is, and leaves the rest
\* for the next.
LEMMA BatchInv ==
    ASSUME IngestInv, InsertBatch
    PROVE  IngestInv'
<1>1. /\ clock \in Nat /\ cursor \in 0..clock /\ updated \in [Prs -> 0..clock]
      /\ UNCHANGED <<clock, updated, cursor, ingests, gap>> /\ crawl.pc = "insert"
      /\ crawl.count \in Nat /\ crawl.docs \in Seq([pr : Prs, at : Nat])
      /\ crawl.started \in cursor..clock
      /\ crawl.since = IF crawl.mode.full THEN 0 ELSE cursor
      /\ DOMAIN crawl = {"pc", "count", "docs", "mode", "started", "since"}
  BY DEF IngestInv, Times, InsertBatch, Fetched
<1>2. PICK n \in 1..Len(crawl.docs) :
        LET written == {crawl.docs[i] : i \in 1..n} IN
        /\ stored' = [p \in Prs |->
              IF \E d \in written : d.pr = p
              THEN (CHOOSE d \in written : d.pr = p /\ \A e \in written : e.pr = p => e.at <= d.at).at
              ELSE stored[p]]
        /\ crawl' = [crawl EXCEPT !.docs = SubSeq(@, n + 1, Len(@))]
  BY DEF InsertBatch
<1> DEFINE W == {crawl.docs[i] : i \in 1..n}
           docs == crawl.docs
           rest == SubSeq(docs, n + 1, Len(docs))
<1>3. Len(docs) \in Nat /\ DOMAIN docs = 1..Len(docs) /\ n \in 1..Len(docs)
  BY <1>1, LenProperties
<1>4. /\ crawl'.pc = "insert" /\ crawl'.count = crawl.count /\ crawl'.docs = rest
      /\ crawl'.mode = crawl.mode /\ crawl'.started = crawl.started /\ crawl'.since = crawl.since
      /\ DOMAIN crawl' = DOMAIN crawl
  BY <1>1, <1>2
<1>5. /\ rest \in Seq([pr : Prs, at : Nat])
      /\ DOMAIN rest = 1..(Len(docs) - n)
      /\ \A i \in 1..(Len(docs) - n) : rest[i] = docs[n + i]
  <2>1. docs \in Seq([pr : Prs, at : Nat])
    BY <1>1
  <2> HIDE DEF docs
  <2> QED  BY <1>3, <2>1, RestFacts
<1>6. \A i \in 1..Len(docs) : updated[docs[i].pr] <= crawl.started => docs[i].at = updated[docs[i].pr]
  BY <1>1, <1>3 DEF IngestInv, Fetched
<1>7. \A p \in Prs : stored'[p] =
          IF \E d \in W : d.pr = p
          THEN (CHOOSE d \in W : d.pr = p /\ \A e \in W : e.pr = p => e.at <= d.at).at
          ELSE stored[p]
  BY <1>2
<1>8. ASSUME NEW p \in Prs, updated[p] <= crawl.started, NEW i \in 1..n, docs[i].pr = p
      PROVE  stored'[p] = updated[p]
  <2>1. docs[i] \in W /\ updated[p] \in Nat
    BY <1>1
  <2>2. ASSUME NEW d \in W, d.pr = p PROVE d.at = updated[p]
    <3>1. PICK j \in 1..n : d = docs[j]
      OBVIOUS
    <3>2. j \in 1..Len(docs)
      BY <1>3
    <3> HIDE DEF docs, W, rest
    <3> QED  BY <1>6, <1>8, <2>2, <3>1, <3>2
  <2> HIDE DEF W, docs, rest
  <2>3. (CHOOSE d \in W : d.pr = p /\ \A e \in W : e.pr = p => e.at <= d.at).at = updated[p]
    BY <1>8, <2>1, <2>2, NewestDocument
  <2> QED  BY <1>7, <1>8, <2>1, <2>3
<1>9. ASSUME NEW p \in Prs, ~\E i \in 1..n : docs[i].pr = p
      PROVE  stored'[p] = stored[p]
  <2>1. ~\E d \in W : d.pr = p
    BY <1>9
  <2> HIDE DEF W
  <2> QED  BY <1>7, <2>1
<1> HIDE DEF W, rest
<1>10. Times'
  BY <1>1 DEF IngestInv, Times
<1>11. Fetched'
  <2>1. ASSUME NEW i \in DOMAIN rest, updated[rest[i].pr] <= crawl.started
        PROVE  rest[i].at = updated[rest[i].pr]
    <3>1. rest[i] = docs[n + i] /\ n + i \in 1..Len(docs)
      BY <1>3, <1>5
    <3> QED  BY <1>6, <2>1, <3>1
  <2> QED  BY <1>1, <1>4, <1>5, <2>1 DEF Fetched
<1>12. Coming'
  <2>1. Owed' = Owed
    BY <1>1, <1>4 DEF Owed
  <2>2. ASSUME Covered, NEW p \in Owed PROVE Seen(p)' \/ stored'[p] = updated[p]
    <3>1. p \in Prs /\ updated[p] <= crawl.started
      BY DEF Owed
    <3>2. CASE \E i \in 1..n : docs[i].pr = p
      BY <1>8, <3>1, <3>2
    <3>3. CASE ~\E i \in 1..n : docs[i].pr = p
      <4>1. CASE Seen(p)
        <5>1. PICK i \in 1..Len(docs) : docs[i].pr = p
          BY <1>3, <4>1 DEF Seen
        <5>2. i - n \in 1..(Len(docs) - n) /\ n + (i - n) = i
          BY <1>3, <3>3, <5>1
        <5>3. i - n \in DOMAIN rest /\ rest[i - n].pr = p
          BY <1>5, <5>1, <5>2
        <5> QED  BY <1>4, <5>3 DEF Seen
      <4>2. CASE stored[p] = updated[p]
        BY <1>9, <3>1, <3>3, <4>2
      <4> QED  BY <2>2, <4>1, <4>2 DEF Covered
    <3> QED  BY <3>2, <3>3
  <2>3. ASSUME Covered PROVE Covered'
    BY <1>1, <2>1, <2>2, <2>3 DEF Covered
  <2>4. crawl.mode.mock \/ Covered \/ (gap /\ crawl.count >= PrLimit)
    BY <1>1 DEF IngestInv, Coming
  <2> QED  BY <1>1, <1>4, <2>3, <2>4 DEF Coming
<1>13. CrawlMissesNothing'
  <2>1. ASSUME ~gap, NEW p \in Prs \ Silent, updated[p] \in 1..cursor
        PROVE  stored'[p] = updated[p]
    <3>1. updated[p] <= crawl.started /\ stored[p] = updated[p]
      BY <1>1, <2>1 DEF IngestInv, CrawlMissesNothing
    <3> QED  BY <1>8, <1>9, <3>1
  <2> QED  BY <1>1, <2>1 DEF CrawlMissesNothing
<1> QED  BY <1>10, <1>11, <1>12, <1>13 DEF IngestInv

\* Once the documents are in, all that was owed is there, or the gap says so.
LEMMA CursorInv ==
    ASSUME IngestInv, SetCursor
    PROVE  IngestInv'
<1>1. /\ clock \in Nat /\ cursor \in 0..clock /\ updated \in [Prs -> 0..clock]
      /\ UNCHANGED <<clock, updated, stored, ingests>> /\ crawl.pc = "insert" /\ crawl.docs = <<>>
      /\ cursor' = IF crawl.mode.mock THEN cursor ELSE crawl.started
      /\ gap' = (gap /\ (crawl.mode.mock \/ ~crawl.mode.full \/ crawl.count >= PrLimit))
      /\ crawl' = Idle /\ crawl.count \in Nat /\ PrLimit \in Nat
      /\ crawl.started \in cursor..clock
      /\ crawl.since = IF crawl.mode.full THEN 0 ELSE cursor
  BY IngestBounds DEF IngestInv, Times, SetCursor, Fetched
<1>2. Times'
  <2>1. gap' \in BOOLEAN
    BY <1>1, Zenon DEF IngestInv, Times
  <2> QED  BY <1>1, <2>1 DEF IngestInv, Times
<1>3. crawl'.pc = "idle" /\ crawl'.count = 0 /\ crawl'.docs = <<>>
  BY <1>1 DEF Idle
<1>4. Fetched'
  <2>1. crawl'.docs \in Seq([pr : Prs, at : Nat])
    BY <1>3, EmptySeq
  <2>2. DOMAIN crawl' = {"pc", "count", "docs", "mode", "started", "since"}
    BY <1>1 DEF Idle
  <2> QED  BY <1>3, <2>1, <2>2 DEF Fetched
<1>5. Coming'
  BY <1>3 DEF Coming
<1>6. CASE crawl.mode.mock
  BY <1>1, <1>2, <1>4, <1>5, <1>6 DEF IngestInv, CrawlMissesNothing
<1>7. CASE ~crawl.mode.mock
  <2>1. ASSUME ~gap', NEW p \in Prs \ Silent, updated[p] \in 1..crawl.started
        PROVE  stored[p] = updated[p]
    <3>1. Covered
      BY <1>1, <1>7, <2>1 DEF IngestInv, Coming
    <3>2. CASE updated[p] > crawl.since
      <4>1. p \in Owed /\ ~Seen(p)
        BY <1>1, <2>1, <3>2 DEF Owed, Seen
      <4> QED  BY <3>1, <4>1 DEF Covered
    <3>3. CASE ~(updated[p] > crawl.since)
      <4>1. ~crawl.mode.full /\ updated[p] \in 1..cursor
        BY <1>1, <2>1, <3>3
      <4>2. ~gap
        BY <1>1, <2>1, <4>1
      <4> QED  BY <2>1, <4>1, <4>2 DEF IngestInv, CrawlMissesNothing
    <3> QED  BY <3>2, <3>3
  <2>2. CrawlMissesNothing'
    BY <1>1, <1>7, <2>1 DEF CrawlMissesNothing
  <2> QED  BY <1>2, <1>4, <1>5, <2>2 DEF IngestInv
<1> QED  BY <1>6, <1>7

\* The crawl is sound from the first run, whatever is interrupted.
LEMMA IngestStep ==
    ASSUME IngestInv, [IngestNext]_ingestVars
    PROVE  IngestInv'
<1>1. CASE UNCHANGED ingestVars
  BY <1>1 DEF IngestInv, Times, Fetched, Coming, CrawlMissesNothing, ingestVars, Covered, Owed, Seen, Newer
<1>2. CASE IngestDies
  BY <1>2, IdleInv DEF IngestDies, IngestInv, Times
<1> QED
  BY <1>1, <1>2, UpdateInv, StartInv, NextInv, EndInv, BatchInv, CursorInv DEF IngestNext, Modes

LEMMA IngestStart ==
    ASSUME IngestInit
    PROVE  IngestInv
<1>1. crawl.pc = "idle" /\ crawl.count = 0 /\ crawl.docs = <<>>
  BY DEF IngestInit, Idle
<1>2. Fetched
  <2>1. crawl.docs \in Seq([pr : Prs, at : Nat])
    BY <1>1, EmptySeq
  <2>2. DOMAIN crawl = {"pc", "count", "docs", "mode", "started", "since"}
    BY DEF IngestInit, Idle
  <2> QED  BY <1>1, <2>1, <2>2 DEF Fetched
<1>3. /\ clock = 0 /\ cursor = 0 /\ gap = FALSE /\ updated = [p \in Prs |-> 0]
  BY DEF IngestInit
<1>4. Times
  <2>1. clock \in Nat /\ cursor \in 0..clock /\ updated \in [Prs -> 0..clock]
    BY <1>3
  <2>3. gap \in BOOLEAN
    BY <1>3, Zenon
  <2>2. \A p, q \in Prs : updated[p] = updated[q] /\ updated[p] # 0 => p = q
    BY <1>3
  <2> QED  BY <2>1, <2>2, <2>3 DEF Times
<1>5. CrawlMissesNothing
  BY <1>3 DEF CrawlMissesNothing
<1>6. Coming
  BY <1>1 DEF Coming
<1> QED  BY <1>2, <1>4, <1>5, <1>6 DEF IngestInv

\* What the cursor says was crawled was, run after run, for any number of pull requests, any
\* limit, and interruptions and updates anywhere (_set_cursor, fetch_team_history).
THEOREM CrawlSound == Spec => []CrawlMissesNothing
<1>1. Init => IngestInv
  BY IngestStart DEF Init
<1>2. IngestInv /\ [Next]_vars => IngestInv'
  <2>1. [Next]_vars => [IngestNext]_ingestVars
    BY Zenon DEF Next, vars, ingestVars
  <2>2. IngestInv /\ [IngestNext]_ingestVars => IngestInv'
    BY IngestStep
  <2> QED  BY <2>1, <2>2
<1>3. IngestInv => CrawlMissesNothing
  BY DEF IngestInv
<1> QED  BY <1>1, <1>2, <1>3, PTL DEF Spec

------------------------------------------------------------------------------
(* Stores.                                                                 *)

Row == [finding : Findings, vote : {-1, 1}]

\* A request is for a finding, and once it has found a vote or was answered there is one.
VotersAsk ==
    /\ voter \in [Voters -> [pc : {"start", "found", "ok", "error"}, finding : Findings \cup {"none"},
                             vote : {-1, 0, 1}, found : BOOLEAN]]
    /\ \A v \in Voters : voter[v].pc # "start" => voter[v].finding \in Findings /\ voter[v].vote \in {-1, 1}
    /\ \A v \in Voters : voter[v].pc \in {"ok", "error"} \/ (voter[v].pc = "found" /\ voter[v].found)
          => \E i \in DOMAIN votes : votes[i].finding = voter[v].finding

\* One row per finding, with the vote of a request answered "ok".
Rows ==
    /\ votes \in Seq(Row)
    /\ \A i, j \in DOMAIN votes : votes[i].finding = votes[j].finding => i = j
    /\ \A i \in DOMAIN votes : \E v \in Voters :
          voter[v].pc = "ok" /\ voter[v].finding = votes[i].finding /\ voter[v].vote = votes[i].vote

VoteInv == VotersAsk /\ Rows

\* A request looks up the vote on its finding.
LEMMA FindInv ==
    ASSUME VoteInv, NEW v \in Voters, FindVote(v)
    PROVE  VoteInv'
<1>1. PICK f \in Findings, n \in {-1, 1} :
        voter' = [voter EXCEPT ![v] = [pc |-> "found", finding |-> f, vote |-> n, found |-> RowOf(f) # {}]]
  BY DEF FindVote
<1>2. votes' = votes /\ voter[v].pc = "start"
  BY DEF FindVote
<1> DEFINE has == RowOf(f) # {}
           r == [pc |-> "found", finding |-> f, vote |-> n, found |-> has]
<1>3. has \in BOOLEAN /\ (has => \E i \in DOMAIN votes : votes[i].finding = f)
  BY DEF RowOf
<1> HIDE DEF has
<1>4. /\ r \in [pc : {"start", "found", "ok", "error"}, finding : Findings \cup {"none"},
                vote : {-1, 0, 1}, found : BOOLEAN]
      /\ r.pc = "found" /\ r.finding = f /\ r.vote = n /\ r.found = has
  BY <1>3
<1>5. voter' = [voter EXCEPT ![v] = r]
  BY <1>1 DEF has
<1> HIDE DEF r
<1>6. voter'[v] = r /\ \A w \in Voters : w # v => voter'[w] = voter[w]
  BY <1>5 DEF VoteInv, VotersAsk
<1>7. VotersAsk'
  <2>1. voter' \in [Voters -> [pc : {"start", "found", "ok", "error"}, finding : Findings \cup {"none"},
                               vote : {-1, 0, 1}, found : BOOLEAN]]
    BY <1>4, <1>5 DEF VoteInv, VotersAsk
  <2>2. \A w \in Voters : voter'[w].pc # "start" => voter'[w].finding \in Findings /\ voter'[w].vote \in {-1, 1}
    BY <1>4, <1>6 DEF VoteInv, VotersAsk
  <2>3. ASSUME NEW w \in Voters, voter'[w].pc \in {"ok", "error"} \/ (voter'[w].pc = "found" /\ voter'[w].found)
        PROVE  \E i \in DOMAIN votes' : votes'[i].finding = voter'[w].finding
    <3>1. CASE w = v
      BY <1>2, <1>3, <1>4, <1>6, <2>3, <3>1
    <3>2. CASE w # v
      BY <1>2, <1>6, <2>3, <3>2 DEF VoteInv, VotersAsk
    <3> QED  BY <3>1, <3>2
  <2> QED  BY <2>1, <2>2, <2>3 DEF VotersAsk
<1>8. Rows'
  <2>1. ASSUME NEW i \in DOMAIN votes
        PROVE  \E w \in Voters : voter'[w].pc = "ok" /\ voter'[w].finding = votes[i].finding /\ voter'[w].vote = votes[i].vote
    BY <1>2, <1>6 DEF VoteInv, Rows
  <2> QED  BY <1>2, <2>1 DEF VoteInv, Rows
<1> QED  BY <1>7, <1>8 DEF VoteInv

\* The commit adds the finding's row, changes it, or is refused because there is one.
LEMMA CommitInv ==
    ASSUME VoteInv, NEW v \in Voters, CommitVote(v)
    PROVE  VoteInv'
<1> DEFINE row == [finding |-> voter[v].finding, vote |-> voter[v].vote]
           Has(rows, w) == \E i \in DOMAIN rows : rows[i].finding = voter[w].finding
<1>1. /\ voter[v].pc = "found" /\ voter[v].finding \in Findings /\ voter[v].vote \in {-1, 1}
      /\ voter' = [voter EXCEPT ![v].pc = IF Refused(v) THEN "error" ELSE "ok"]
      /\ votes' = IF Refused(v) THEN votes
                  ELSE IF voter[v].found
                  THEN [i \in DOMAIN votes |-> IF i \in RowOf(row.finding) THEN row ELSE votes[i]]
                  ELSE Append(votes, row)
      /\ votes \in Seq(Row)
  BY DEF VoteInv, VotersAsk, Rows, CommitVote
<1>2. row \in Row /\ row.finding = voter[v].finding /\ row.vote = voter[v].vote
  BY <1>1 DEF Row
<1>3. /\ \A w \in Voters : w # v => voter'[w] = voter[w]
      /\ voter'[v].pc = (IF Refused(v) THEN "error" ELSE "ok")
      /\ \A w \in Voters : voter'[w].finding = voter[w].finding /\ voter'[w].vote = voter[w].vote
      /\ voter' \in [Voters -> [pc : {"start", "found", "ok", "error"}, finding : Findings \cup {"none"},
                               vote : {-1, 0, 1}, found : BOOLEAN]]
  BY <1>1 DEF VoteInv, VotersAsk
<1>4. \A f : RowOf(f) = {i \in DOMAIN votes : votes[i].finding = f}
  BY DEF RowOf
\* What the rows have to be for the invariant to hold.
<1>5. SUFFICES /\ votes' \in Seq(Row)
               /\ \A i, j \in DOMAIN votes' : votes'[i].finding = votes'[j].finding => i = j
               /\ \A i \in DOMAIN votes' : \/ votes'[i] = row /\ ~Refused(v)
                                           \/ \E k \in DOMAIN votes : votes[k] = votes'[i] /\
                                                 (Refused(v) \/ votes[k].finding # row.finding)
               /\ \A k \in DOMAIN votes : \E i \in DOMAIN votes' : votes'[i].finding = votes[k].finding
               /\ \E i \in DOMAIN votes' : votes'[i].finding = row.finding
  <2> HIDE DEF row
  <2>1. VotersAsk'
    <3>1. ASSUME NEW w \in Voters, voter'[w].pc # "start"
          PROVE  voter'[w].finding \in Findings /\ voter'[w].vote \in {-1, 1}
      BY <1>1, <1>3, <3>1 DEF VoteInv, VotersAsk
    <3>2. ASSUME NEW w \in Voters, voter'[w].pc \in {"ok", "error"} \/ (voter'[w].pc = "found" /\ voter'[w].found)
          PROVE  \E i \in DOMAIN votes' : votes'[i].finding = voter'[w].finding
      <4>1. CASE w = v
        BY <1>2, <1>3, <1>5, <4>1
      <4>2. CASE w # v
        <5>1. \E k \in DOMAIN votes : votes[k].finding = voter[w].finding
          BY <1>3, <3>2, <4>2 DEF VoteInv, VotersAsk
        <5> QED  BY <1>3, <1>5, <4>2, <5>1
      <4> QED  BY <4>1, <4>2
    <3> QED  BY <1>3, <3>1, <3>2 DEF VotersAsk
  <2>2. ASSUME NEW i \in DOMAIN votes'
        PROVE  \E w \in Voters : voter'[w].pc = "ok" /\ voter'[w].finding = votes'[i].finding
                                    /\ voter'[w].vote = votes'[i].vote
    <3>1. CASE votes'[i] = row /\ ~Refused(v)
      BY <1>2, <1>3, <3>1
    <3>2. ASSUME NEW k \in DOMAIN votes, votes[k] = votes'[i]
          PROVE  \E w \in Voters : voter'[w].pc = "ok" /\ voter'[w].finding = votes'[i].finding
                                      /\ voter'[w].vote = votes'[i].vote
      <4>1. PICK w \in Voters : voter[w].pc = "ok" /\ voter[w].finding = votes[k].finding
                                   /\ voter[w].vote = votes[k].vote
        BY DEF VoteInv, Rows
      <4>2. voter'[w] = voter[w]
        BY <1>1, <1>3, <4>1
      <4> QED  BY <3>2, <4>1, <4>2
    <3> QED  BY <1>5, <3>1, <3>2
  <2> QED  BY <1>5, <2>1, <2>2 DEF VoteInv, Rows
<1>6. DOMAIN votes = 1..Len(votes) /\ Len(votes) \in Nat /\ votes \in [1..Len(votes) -> Row]
  BY <1>1, LenProperties
<1>7. CASE Refused(v)
  <2>1. votes' = votes /\ \E i \in DOMAIN votes : votes[i].finding = row.finding
    BY <1>1, <1>7 DEF Refused, RowOf
  <2> HIDE DEF row
  <2> QED  BY <1>1, <1>7, <2>1 DEF VoteInv, Rows
<1>8. CASE ~Refused(v) /\ voter[v].found
  <2> HIDE DEF row
  <2>1. votes' = [i \in DOMAIN votes |-> IF votes[i].finding = row.finding THEN row ELSE votes[i]]
    BY <1>1, <1>4, <1>8
  <2>2. PICK k \in DOMAIN votes : votes[k].finding = row.finding
    BY <1>1, <1>2, <1>8 DEF VoteInv, VotersAsk
  <2>3. DOMAIN votes' = DOMAIN votes /\ \A i \in DOMAIN votes : votes'[i].finding = votes[i].finding
    BY <2>1
  <2>4. votes' \in Seq(Row)
    <3>1. votes' \in [1..Len(votes) -> Row]
      BY <1>2, <1>6, <2>1
    <3> QED  BY <1>6, <3>1, SeqDef
  <2>5. \A i \in DOMAIN votes' : \/ votes'[i] = row
                                 \/ votes[i] = votes'[i] /\ votes[i].finding # row.finding
    BY <2>1, <2>3
  <2>6. \A i, j \in DOMAIN votes' : votes'[i].finding = votes'[j].finding => i = j
    BY <2>3 DEF VoteInv, Rows
  <2> QED  BY <1>8, <2>2, <2>3, <2>4, <2>5, <2>6
<1>9. CASE ~Refused(v) /\ ~voter[v].found
  <2>1. \A i \in DOMAIN votes : votes[i].finding # row.finding
    BY <1>4, <1>9 DEF Refused
  <2> HIDE DEF row
  <2>2. votes' = Append(votes, row)
    BY <1>1, <1>9
  <2>3. votes \in Seq(Row) /\ row \in Row
    BY <1>1, <1>2
  <2>4. /\ votes' \in Seq(Row) /\ Len(votes') = Len(votes) + 1
        /\ \A i \in 1..Len(votes) : votes'[i] = votes[i]
        /\ votes'[Len(votes) + 1] = row
    BY ONLY <2>2, <2>3, AppendProperties
  <2>5. DOMAIN votes' = 1..(Len(votes) + 1)
    BY <2>4, LenProperties
  <2>6. \A i, j \in DOMAIN votes' : votes'[i].finding = votes'[j].finding => i = j
    <3>1. ASSUME NEW i \in 1..(Len(votes) + 1), NEW j \in 1..(Len(votes) + 1),
                 votes'[i].finding = votes'[j].finding
          PROVE  i = j
      <4>1. i \in 1..Len(votes) \/ i = Len(votes) + 1
        BY <1>6
      <4>2. j \in 1..Len(votes) \/ j = Len(votes) + 1
        BY <1>6
      <4> QED  BY <1>6, <2>1, <2>4, <3>1, <4>1, <4>2 DEF VoteInv, Rows
    <3> QED  BY <2>5, <3>1
  <2>7. \A i \in DOMAIN votes' : votes'[i] = row \/ (i \in DOMAIN votes /\ votes[i] = votes'[i])
    BY <1>6, <2>4, <2>5
  <2>8. \A i \in DOMAIN votes : i \in DOMAIN votes' /\ votes'[i] = votes[i]
    BY <1>6, <2>4, <2>5
  <2>9. Len(votes) + 1 \in DOMAIN votes'
    BY <1>6, <2>5, SMTT(30)
  <2> QED  BY <1>9, <2>1, <2>4, <2>6, <2>7, <2>8, <2>9
<1> QED  BY <1>7, <1>8, <1>9

LEMMA VoteStep ==
    ASSUME VoteInv, [StoresNext]_storeVars
    PROVE  VoteInv'
<1>1. CASE UNCHANGED <<votes, voter>>
  BY <1>1 DEF VoteInv, VotersAsk, Rows
<1> QED
  BY <1>1, FindInv, CommitInv, ZenonT(60)
     DEF StoresNext, storeVars, ReadCache, EmbedBatch, SelectKeys, CommitKeys, AnalyzeUnits

LEMMA VotesStart == StoresInit => VoteInv
<1> SUFFICES ASSUME StoresInit PROVE VoteInv
  OBVIOUS
<1>1. votes = <<>> /\ voter = [v \in Voters |-> NewVoter]
  BY DEF StoresInit
<1>2. votes \in Seq(Row) /\ DOMAIN votes = {}
  BY <1>1, EmptySeq
<1>3. VotersAsk
  <2>1. NewVoter \in [pc : {"start", "found", "ok", "error"}, finding : Findings \cup {"none"},
                      vote : {-1, 0, 1}, found : BOOLEAN] /\ NewVoter.pc = "start"
    BY DEF NewVoter
  <2> QED  BY <1>1, <2>1 DEF VotersAsk
<1> QED  BY <1>2, <1>3 DEF VoteInv, Rows

\* A finding counts once, with the vote of a request answered "ok", however many requests race
\* (submit_feedback, get_net_votes).
THEOREM VotesSound == Spec => []VotesCount
<1>1. Init => VoteInv
  BY VotesStart DEF Init
<1>2. VoteInv /\ [Next]_vars => VoteInv'
  <2>1. [Next]_vars => [StoresNext]_storeVars
    BY Zenon DEF Next, vars, storeVars
  <2>2. VoteInv /\ [StoresNext]_storeVars => VoteInv'
    BY VoteStep
  <2> QED  BY <2>1, <2>2
<1>3. VoteInv => VotesCount
  <2> SUFFICES ASSUME VoteInv PROVE VotesCount
    OBVIOUS
  <2>1. ASSUME NEW f \in Findings PROVE Cardinality(RowOf(f)) <= 1
    <3>1. CASE RowOf(f) = {}
      BY <3>1, FS_EmptySet
    <3>2. CASE RowOf(f) # {}
      <4>1. PICK i \in DOMAIN votes : i \in RowOf(f)
        BY <3>2 DEF RowOf
      <4>2. \A j \in RowOf(f) : j \in DOMAIN votes /\ votes[j].finding = votes[i].finding
        BY <4>1 DEF RowOf
      <4>3. RowOf(f) = {i}
        BY <4>1, <4>2 DEF VoteInv, Rows
      <4> QED  BY <4>3, FS_Singleton
    <3> QED  BY <3>1, <3>2
  <2>2. \A v \in Voters : voter[v].pc \in {"ok", "error"} => RowOf(voter[v].finding) # {}
    BY DEF RowOf, VoteInv, VotersAsk
  <2> QED  BY <2>1, <2>2 DEF VotesCount, VoteInv, Rows
<1> QED  BY <1>1, <1>2, <1>3, PTL DEF Spec

\* What a scan shows.

\* A weighed score is a number.
LEMMA WeighedInt ==
    ASSUME NEW match, match.score \in Int, NEW net, \A p \in DOMAIN net : net[p] \in Int
    PROVE  Weighed(match, net) \in Int
<1> DEFINE n == NetOf(net, match.point)
           m == Max({-n, 0})
<1>1. n \in Int
  BY DEF NetOf
<1> HIDE DEF n
<1>2. m \in Int
  BY <1>1, GreaterOfTwo
<1> HIDE DEF m
<1>3. 100 - Downweight * m \in Int
  BY <1>2, StoresInputs
<1>4. Max({30, 100 - Downweight * m}) \in Int
  BY <1>3, GreaterOfTwo
<1>5. Multiplier(n) \in Int
  BY <1>4 DEF Multiplier, m
<1>6. Weighed(match, net) = match.score * Multiplier(n)
  BY DEF Weighed, n
<1> QED  BY <1>5, <1>6

\* The matches of a text that stay among its best.
LEMMA FinalizedFacts ==
    ASSUME NEW t \in UnitTexts, NEW net, \A p \in DOMAIN net : net[p] \in Int
    PROVE  LET matches == CandidateMatches[t]
               F == Finalized(matches, net)
           IN  /\ IsFiniteSet(F) /\ F \subseteq DOMAIN matches /\ F \subseteq Nat
               /\ \A k \in DOMAIN matches : Weighed(matches[k], net) \in Int
               /\ \A k \in F : matches[k] \in MaybeBest(t, net)
               /\ \A x \in SurelyBest(t, net) : \E k \in F : matches[k] = x
<1> DEFINE M == CandidateMatches[t]
           W(k) == Weighed(M[k], net)
           K == {i \in DOMAIN M : Kept(M[i], net)}
           First(i) == {j \in K : W(j) > W(i) \/ (W(j) = W(i) /\ j < i)}
           F == {i \in K : Cardinality(First(i)) < TopK}
<1>1. Finalized(M, net) = F
  BY DEF Finalized
<1>2. /\ M \in Seq(ToSet(M))
      /\ \A x, y \in DOMAIN M : M[x].score \in Int /\ (M[x].point = M[y].point => x = y)
  BY StoresInputs
<1>3. /\ DOMAIN M = 1..Len(M) /\ Len(M) \in Nat /\ IsFiniteSet(DOMAIN M) /\ DOMAIN M \subseteq Nat
  <2>1. DOMAIN M = 1..Len(M) /\ Len(M) \in Nat
    BY <1>2, LenProperties
  <2>2. IsFiniteSet(1..Len(M))
    BY <2>1, FS_Interval
  <2> QED  BY <2>1, <2>2
<1>4. ASSUME NEW k \in DOMAIN M PROVE W(k) \in Int
  BY <1>2, WeighedInt
<1>5. K \subseteq DOMAIN M /\ IsFiniteSet(K) /\ F \subseteq K /\ IsFiniteSet(F)
  BY <1>3, FS_Subset
<1>6. \A i \in K : First(i) \subseteq K /\ IsFiniteSet(First(i)) /\ Cardinality(First(i)) \in Nat
  BY <1>5, FS_Subset, FS_CardinalityType
<1>7. Remain(t, net) = {M[i] : i \in K}
  BY DEF Remain, ToSet
<1>8. ASSUME NEW k \in F PROVE M[k] \in MaybeBest(t, net)
  <2> DEFINE Y == {y \in Remain(t, net) : Weighed(y, net) > Weighed(M[k], net)}
             f == [j \in {j \in K : W(j) > W(k)} |-> M[j]]
             D == {j \in K : W(j) > W(k)}
  <2>1. D \in SUBSET First(k) /\ IsFiniteSet(D) /\ k \in K
    BY <1>5, FS_Subset
  <2>2. Cardinality(D) <= Cardinality(First(k)) /\ Cardinality(D) \in Nat
    <3>1. IsFiniteSet(First(k))
      BY <1>6, <2>1
    <3> HIDE DEF D, First
    <3> QED  BY <2>1, <3>1, FS_Subset, FS_CardinalityType
  <2>3. f \in Surjection(D, Y)
    <3>1. f \in [D -> Y]
      BY <1>7
    <3>2. \A y \in Y : \E j \in D : f[j] = y
      BY <1>7
    <3> HIDE DEF f, D, Y
    <3> QED  BY <3>1, <3>2 DEF Surjection
  <2>4. IsFiniteSet(Y) /\ Cardinality(Y) <= Cardinality(D)
    <3> HIDE DEF f, D, Y
    <3> QED  BY <2>1, <2>3, FS_Surjection
  <2>5. Cardinality(Y) \in Nat
    <3> HIDE DEF Y
    <3> QED  BY <2>4, FS_CardinalityType
  <2>6. Cardinality(First(k)) < TopK /\ Cardinality(First(k)) \in Nat /\ TopK \in Nat
    BY <1>6, <2>1, StoresInputs
  <2>7. Cardinality(Y) < TopK
    <3> HIDE DEF Y, D, First
    <3> QED  BY <2>2, <2>4, <2>5, <2>6
  <2>8. M[k] \in Remain(t, net)
    BY <1>7, <2>1
  <2> QED  BY <2>7, <2>8 DEF MaybeBest
<1>9. ASSUME NEW x \in SurelyBest(t, net) PROVE \E k \in F : M[k] = x
  <2>1. x \in Remain(t, net)
    BY DEF SurelyBest
  <2>2. PICK k \in K : M[k] = x
    BY <1>7, <2>1
  <2> DEFINE Y == {y \in Remain(t, net) \ {x} : Weighed(y, net) >= Weighed(x, net)}
             f == [j \in First(k) |-> M[j]]
  <2>3. f \in Injection(First(k), Y)
    <3>1. ASSUME NEW j \in First(k) PROVE M[j] \in Y
      <4>1. j \in K /\ W(j) \in Int /\ W(k) \in Int /\ j # k /\ W(j) >= W(k)
        BY <1>3, <1>4, <1>5, <2>2
      <4>2. M[j] # M[k]
        BY <1>2, <1>5, <4>1
      <4> QED  BY <1>7, <2>2, <4>1, <4>2
    <3>2. f \in [First(k) -> Y]
      BY <3>1
    <3>3. \A i, j \in First(k) : f[i] = f[j] => i = j
      BY <1>2, <1>5
    <3> HIDE DEF f, First, Y
    <3> QED  BY <3>2, <3>3 DEF Injection, IsInjective
  <2>4. IsFiniteSet(Y)
    <3>1. IsFiniteSet(Remain(t, net))
      <4> DEFINE g == [i \in K |-> M[i]]
      <4>1. g \in Surjection(K, Remain(t, net))
        <5>1. g \in [K -> Remain(t, net)] /\ \A y \in Remain(t, net) : \E i \in K : g[i] = y
          BY <1>7
        <5> HIDE DEF g, K
        <5> QED  BY <5>1 DEF Surjection
      <4> HIDE DEF g, K
      <4> QED  BY <1>5, <4>1, FS_Surjection
    <3>2. Y \in SUBSET Remain(t, net)
      OBVIOUS
    <3> QED  BY <3>1, <3>2, FS_Subset
  <2>5. Cardinality(First(k)) <= Cardinality(Y)
    <3> HIDE DEF f, First, Y
    <3> QED  BY <2>3, <2>4, FS_Injection
  <2>6. Cardinality(Y) < TopK /\ Cardinality(Y) \in Nat /\ TopK \in Nat
    <3>1. Cardinality(Y) < TopK
      BY DEF SurelyBest
    <3> HIDE DEF Y
    <3> QED  BY <2>4, <3>1, FS_CardinalityType, StoresInputs
  <2>7. Cardinality(First(k)) < TopK
    <3>1. Cardinality(First(k)) \in Nat
      BY <1>6
    <3> HIDE DEF First, Y
    <3> QED  BY <2>5, <2>6, <3>1
  <2> QED  BY <2>2, <2>7
<1>10. F \subseteq DOMAIN M /\ F \subseteq Nat
  BY <1>3, <1>5
<1> HIDE DEF F, K, First
<1> QED  BY <1>1, <1>4, <1>5, <1>8, <1>9, <1>10

\* Of a finite row one element has none before it.
LEMMA FirstInRow ==
    ASSUME NEW S, IsFiniteSet(S), S # {}, NEW R, InOrderBy(R, S)
    PROVE  \E x \in S : \A y \in S : x = y \/ <<x, y>> \in R
<1>1. Cardinality(S) \in Nat /\ Cardinality(S) # 0
  BY FS_CardinalityType, FS_EmptySet
<1>2. 1 \in 1..Cardinality(S)
  BY <1>1
<1>3. PICK x \in S : Cardinality(Preceding(R, S, x)) = 1 - 1
  BY <1>2, PlacesInRow
<1>4. IsFiniteSet(Preceding(R, S, x))
  BY FS_Subset DEF Preceding
<1>5. Preceding(R, S, x) = {}
  BY <1>3, <1>4, FS_EmptySet
<1> QED  BY <1>5 DEF Preceding, InOrderBy

\* What a match is anchored as.
AnchoredAs(units, net, i, k) ==
    [point |-> CandidateMatches[units[i]][k].point, score |-> Weighed(CandidateMatches[units[i]][k], net),
     in |-> FunctionOf[units[i]], unit |-> i, place |-> k]
FinalOf(units, net, i) == Finalized(CandidateMatches[units[i]], net)

LEMMA AnchoredFacts ==
    ASSUME NEW units \in Seq(UnitTexts), NEW net, \A p \in DOMAIN net : net[p] \in Int,
           NEW vectors, \A i \in DOMAIN units : vectors[i] = <<"vector", units[i]>>
    PROVE  LET anchored == Anchored(units, vectors, net)
               R == {e \in anchored \X anchored : Better(e[1], e[2])}
           IN  /\ IsFiniteSet(anchored) /\ InOrderBy(R, anchored)
               /\ \A x, y \in anchored : <<x, y>> \in R <=> Better(x, y)
               /\ \A x \in anchored : /\ x.score \in Int
                                   /\ \E i \in DOMAIN units : \E k \in FinalOf(units, net, i) :
                                         x = AnchoredAs(units, net, i, k)
               /\ \A i \in DOMAIN units : \A k \in FinalOf(units, net, i) : AnchoredAs(units, net, i, k) \in anchored
<1> DEFINE anchored == Anchored(units, vectors, net)
           R == {e \in anchored \X anchored : Better(e[1], e[2])}
           A(i) == {AnchoredAs(units, net, i, k) : k \in FinalOf(units, net, i)}
<1>1. anchored = UNION {A(i) : i \in DOMAIN units}
  <2>1. \A i \in DOMAIN units : vectors[i][2] = units[i]
    OBVIOUS
  <2> QED  BY <2>1 DEF Anchored, AnchoredAs, FinalOf
<1>2. DOMAIN units = 1..Len(units) /\ Len(units) \in Nat /\ \A i \in DOMAIN units : units[i] \in UnitTexts
  BY LenProperties, ElementOfSeq
<1>3. ASSUME NEW i \in DOMAIN units
      PROVE  /\ IsFiniteSet(FinalOf(units, net, i)) /\ FinalOf(units, net, i) \subseteq Nat
             /\ \A k \in FinalOf(units, net, i) : Weighed(CandidateMatches[units[i]][k], net) \in Int
  <2>1. units[i] \in UnitTexts
    BY <1>2
  <2> QED  BY <2>1, FinalizedFacts DEF FinalOf
<1>4. IsFiniteSet(anchored)
  <2>1. ASSUME NEW i \in DOMAIN units PROVE IsFiniteSet(A(i))
    <3> DEFINE g == [k \in FinalOf(units, net, i) |-> AnchoredAs(units, net, i, k)]
    <3>1. g \in Surjection(FinalOf(units, net, i), A(i))
      <4>1. g \in [FinalOf(units, net, i) -> A(i)] /\ \A y \in A(i) : \E k \in FinalOf(units, net, i) : g[k] = y
        OBVIOUS
      <4> HIDE DEF g, A
      <4> QED  BY <4>1 DEF Surjection
    <3> HIDE DEF g, A
    <3> QED  BY <1>3, <3>1, FS_Surjection
  <2> DEFINE h == [i \in DOMAIN units |-> A(i)]
             H == {A(i) : i \in DOMAIN units}
  <2>2. h \in Surjection(DOMAIN units, H)
    <3>1. h \in [DOMAIN units -> H] /\ \A y \in H : \E i \in DOMAIN units : h[i] = y
      <4> HIDE DEF A
      <4> QED  OBVIOUS
    <3> HIDE DEF h, H
    <3> QED  BY <3>1 DEF Surjection
  <2>3. IsFiniteSet(DOMAIN units)
    <3>1. IsFiniteSet(1..Len(units))
      BY <1>2, FS_Interval
    <3> QED  BY <1>2, <3>1
  <2>4. IsFiniteSet(H)
    <3> HIDE DEF h, H
    <3> QED  BY <2>2, <2>3, FS_Surjection
  <2>5. \A T \in H : IsFiniteSet(T)
    <3> HIDE DEF A
    <3> QED  BY <2>1
  <2>6. IsFiniteSet(UNION H)
    <3> HIDE DEF H
    <3> QED  BY <2>4, <2>5, FS_UNION
  <2> QED  BY <1>1, <2>6
<1>5. ASSUME NEW x \in anchored
      PROVE  \E j \in DOMAIN units : \E k \in FinalOf(units, net, j) : x = AnchoredAs(units, net, j, k)
  BY <1>1
<1>6. ASSUME NEW i \in DOMAIN units, NEW k \in FinalOf(units, net, i)
      PROVE  AnchoredAs(units, net, i, k) \in anchored
  BY <1>1
<1>7. ASSUME NEW x \in anchored
      PROVE  x.score \in Int /\ x.unit \in Nat /\ x.place \in Nat /\ x = AnchoredAs(units, net, x.unit, x.place)
  <2>1. PICK i \in DOMAIN units : \E k \in FinalOf(units, net, i) : x = AnchoredAs(units, net, i, k)
    BY <1>5
  <2>4. PICK k \in FinalOf(units, net, i) : x = AnchoredAs(units, net, i, k)
    BY <2>1
  <2>2. x.unit = i /\ x.place = k /\ x.score = Weighed(CandidateMatches[units[i]][k], net)
    BY <2>4 DEF AnchoredAs
  <2>3. i \in Nat /\ k \in Nat /\ x.score \in Int
    BY <1>2, <1>3, <2>2
  <2> QED  BY <2>2, <2>3, <2>4
<1>8. InOrderBy(R, anchored) /\ \A x, y \in anchored : <<x, y>> \in R <=> Better(x, y)
  <2>1. \A x, y \in anchored : <<x, y>> \in R <=> Better(x, y)
    <3> HIDE DEF anchored
    <3> QED  OBVIOUS
  <2>2. ASSUME NEW x \in anchored, NEW y \in anchored
        PROVE ~Better(x, x) /\ (x = y \/ Better(x, y) \/ Better(y, x))
    <3>1. /\ x.score \in Int /\ x.unit \in Nat /\ x.place \in Nat
          /\ y.score \in Int /\ y.unit \in Nat /\ y.place \in Nat
      BY <1>7
    <3>2. x.unit = y.unit /\ x.place = y.place => x = y
      BY <1>7
    <3> HIDE DEF anchored
    <3> QED  BY <3>1, <3>2 DEF Better
  <2>3. ASSUME NEW x \in anchored, NEW y \in anchored, NEW z \in anchored, Better(x, y), Better(y, z) PROVE Better(x, z)
    <3>1. /\ x.score \in Int /\ x.unit \in Nat /\ x.place \in Nat
          /\ y.score \in Int /\ y.unit \in Nat /\ y.place \in Nat
          /\ z.score \in Int /\ z.unit \in Nat /\ z.place \in Nat
      BY <1>7
    <3> HIDE DEF anchored
    <3> QED  BY <2>3, <3>1, SMTT(30) DEF Better
  <2> HIDE DEF R, anchored
  <2> QED  BY <2>1, <2>2, <2>3 DEF InOrderBy
<1> HIDE DEF anchored, A
<1> QED  BY <1>4, <1>5, <1>6, <1>7, <1>8 DEF anchored

\* What is shown for units and votes adds up.
AddsUp(units, net, shown) ==
    /\ \A i, j \in DOMAIN shown : i < j => shown[i].score >= shown[j].score /\ ~Same(shown[i], shown[j])
    /\ \A t \in ToSet(units) : \A x \in SurelyBest(t, net) :
          \E k \in DOMAIN shown : /\ shown[k].point = x.point /\ shown[k].in = FunctionOf[t]
                                  /\ shown[k].score >= Weighed(x, net)
    /\ \A k \in DOMAIN shown : \E t \in ToSet(units) : \E x \in MaybeBest(t, net) :
          shown[k] = [point |-> x.point, score |-> Weighed(x, net), in |-> FunctionOf[t]]

LEMMA ShownAddsUp ==
    ASSUME NEW units \in Seq(UnitTexts), NEW net, \A p \in DOMAIN net : net[p] \in Int,
           NEW vectors, \A i \in DOMAIN units : vectors[i] = <<"vector", units[i]>>
    PROVE  AddsUp(units, net, Shown(units, vectors, net))
<1> DEFINE anchored == Anchored(units, vectors, net)
           R == {e \in anchored \X anchored : Better(e[1], e[2])}
           best == {x \in anchored : ~\E y \in anchored : Same(x, y) /\ Better(y, x)}
           n == Cardinality(best)
           order == Ranked(best, LAMBDA x, y : Better(x, y))
           shown == Shown(units, vectors, net)
<1>1. /\ IsFiniteSet(anchored) /\ InOrderBy(R, anchored)
      /\ \A x, y \in anchored : <<x, y>> \in R <=> Better(x, y)
      /\ \A x \in anchored : /\ x.score \in Int
                          /\ \E i \in DOMAIN units : \E k \in FinalOf(units, net, i) :
                                x = AnchoredAs(units, net, i, k)
      /\ \A i \in DOMAIN units : \A k \in FinalOf(units, net, i) : AnchoredAs(units, net, i, k) \in anchored
  BY AnchoredFacts
<1>2. DOMAIN units = 1..Len(units) /\ \A i \in DOMAIN units : units[i] \in UnitTexts
  BY LenProperties, ElementOfSeq
<1>3. ASSUME NEW i \in DOMAIN units
      PROVE  /\ \A k \in FinalOf(units, net, i) : CandidateMatches[units[i]][k] \in MaybeBest(units[i], net)
             /\ \A x \in SurelyBest(units[i], net) :
                   \E k \in FinalOf(units, net, i) : CandidateMatches[units[i]][k] = x
  <2>1. units[i] \in UnitTexts
    BY <1>2
  <2> QED  BY <2>1, FinalizedFacts DEF FinalOf
<1>4. shown = [k \in 1..n |-> [point |-> order[k].point, score |-> order[k].score, in |-> order[k].in]]
  BY DEF Shown, Deduped
<1>5. order = [k \in 1..n |-> CHOOSE x \in best : Cardinality({y \in best : Better(y, x)}) = k - 1]
  BY DEF Ranked
<1> HIDE DEF anchored, R, order, shown
<1>6. best \subseteq anchored /\ IsFiniteSet(best) /\ InOrderBy(R, best)
  BY <1>1, FS_Subset DEF InOrderBy
<1>7. \A x \in best : {y \in best : Better(y, x)} = Preceding(R, best, x)
  BY <1>1 DEF Preceding
<1> HIDE DEF best
<1>8. n \in Nat /\ \A k \in 1..n : \E x \in best : Cardinality({y \in best : Better(y, x)}) = k - 1
  <2>1. n \in Nat /\ \A k \in 1..n : \E x \in best : Cardinality(Preceding(R, best, x)) = k - 1
    BY <1>6, PlacesInRow
  <2>2. ASSUME NEW k \in 1..n
        PROVE \E x \in best : Cardinality({y \in best : Better(y, x)}) = k - 1
    <3>1. PICK x \in best : Cardinality(Preceding(R, best, x)) = k - 1
      BY <2>1
    <3>2. {y \in best : Better(y, x)} = Preceding(R, best, x)
      BY <1>7
    <3>3. Cardinality({y \in best : Better(y, x)}) = k - 1
      BY <3>1, <3>2
    <3> QED  BY <3>3
  <2> QED  BY <2>1, <2>2
<1>9. \A k \in 1..n : order[k] \in best /\ Cardinality({y \in best : Better(y, order[k])}) = k - 1
  <2> HIDE DEF n
  <2> QED  BY <1>5, <1>8
<1>10. \A k \in 1..n : order[k] \in best /\ Cardinality(Preceding(R, best, order[k])) = k - 1
  BY <1>7, <1>9
<1>11. /\ \A x \in best : \E k \in 1..n : order[k] = x
       /\ \A i, j \in 1..n : i < j => <<order[i], order[j]>> \in R
  BY <1>6, <1>10, InRow
<1> HIDE DEF n
<1>12. /\ DOMAIN shown = 1..n
       /\ \A k \in 1..n : shown[k] = [point |-> order[k].point, score |-> order[k].score, in |-> order[k].in]
  BY <1>4
<1>13. ASSUME NEW i \in 1..n, NEW j \in 1..n, i < j
       PROVE  shown[i].score >= shown[j].score /\ ~Same(shown[i], shown[j])
  <2>1. order[i] \in anchored /\ order[j] \in anchored /\ order[j] \in best /\ Better(order[i], order[j])
    BY <1>1, <1>6, <1>10, <1>11, <1>13
  <2>2. ~Same(order[j], order[i])
    BY <2>1 DEF best
  <2>3. order[i].score >= order[j].score
    BY <1>1, <2>1 DEF Better
  <2> QED  BY <1>12, <2>2, <2>3 DEF Same
<1>14. ASSUME NEW t \in ToSet(units), NEW x \in SurelyBest(t, net)
       PROVE  \E k \in DOMAIN shown : /\ shown[k].point = x.point /\ shown[k].in = FunctionOf[t]
                                      /\ shown[k].score >= Weighed(x, net)
  <2>1. PICK i \in DOMAIN units : units[i] = t
    BY DEF ToSet
  <2>2. PICK k \in FinalOf(units, net, i) : CandidateMatches[t][k] = x
    BY <1>3, <2>1
  <2> DEFINE e == AnchoredAs(units, net, i, k)
             G == {y \in anchored : Same(e, y)}
  <2>3. e \in anchored /\ e.point = x.point /\ e.in = FunctionOf[t] /\ e.score = Weighed(x, net)
    BY <1>1, <2>1, <2>2 DEF AnchoredAs
  <2> HIDE DEF e
  <2>4. G \subseteq anchored /\ IsFiniteSet(G) /\ e \in G /\ InOrderBy(R, G)
    BY <1>1, <2>3, FS_Subset DEF InOrderBy, Same
  <2>5. PICK b \in G : \A y \in G : b = y \/ <<b, y>> \in R
    <3> HIDE DEF G
    <3> QED  BY <2>4, FirstInRow
  <2>6. b \in anchored /\ Same(e, b) /\ (b = e \/ Better(b, e))
    BY <1>1, <2>4, <2>5
  <2>7. b \in best
    <3>1. ASSUME NEW y \in anchored, Same(b, y), Better(y, b) PROVE FALSE
      <4>1. y \in G
        BY <2>6, <3>1 DEF Same
      <4>2. <<y, b>> \in R /\ (b = y \/ <<b, y>> \in R)
        BY <1>1, <2>5, <2>6, <3>1, <4>1
      <4> QED  BY <1>1, <2>6, <4>2 DEF InOrderBy
    <3> QED  BY <2>6, <3>1 DEF best
  <2>8. PICK l \in 1..n : order[l] = b
    BY <1>11, <2>7
  <2>9. b.score >= e.score
    BY <1>1, <2>3, <2>6 DEF Better
  <2> QED  BY <1>12, <2>3, <2>6, <2>8, <2>9 DEF Same
<1>15. ASSUME NEW k \in DOMAIN shown
       PROVE  \E t \in ToSet(units) : \E x \in MaybeBest(t, net) :
                 shown[k] = [point |-> x.point, score |-> Weighed(x, net), in |-> FunctionOf[t]]
  <2>1. order[k] \in anchored /\ k \in 1..n
    BY <1>6, <1>10, <1>12
  <2>2. PICK i \in DOMAIN units : \E l \in FinalOf(units, net, i) : order[k] = AnchoredAs(units, net, i, l)
    BY <1>1, <2>1
  <2>3. PICK l \in FinalOf(units, net, i) : order[k] = AnchoredAs(units, net, i, l)
    BY <2>2
  <2> DEFINE x == CandidateMatches[units[i]][l]
  <2>4. x \in MaybeBest(units[i], net) /\ units[i] \in ToSet(units)
    BY <1>3 DEF ToSet
  <2>5. shown[k] = [point |-> x.point, score |-> Weighed(x, net), in |-> FunctionOf[units[i]]]
    BY <1>12, <2>1, <2>3 DEF AnchoredAs
  <2> QED  BY <2>4, <2>5
<1>16. AddsUp(units, net, shown)
  BY <1>12, <1>13, <1>14, <1>15 DEF AddsUp
<1> QED  BY <1>16 DEF shown

\* The cache tells the truth of a text, and so do the records a scan is about to add.
CacheEntry == {[key |-> t, vector |-> <<"vector", t>>] : t \in UnitTexts}
CacheTrue == \A k \in DOMAIN cached : cached[k] = <<"vector", k>>

\* A scan has the vector of each of its units, or has still to embed it.
ScanTrue(x) ==
    /\ DOMAIN x = {"pc", "units", "vectors", "todo", "batches", "records", "known", "net", "shown"}
    /\ x.batches \in Nat
    /\ x.units \in Seq(UnitTexts) /\ x.todo \in Seq(DOMAIN x.units) /\ x.records \in Seq(CacheEntry)
    /\ DOMAIN x.vectors = DOMAIN x.units
    /\ \A i \in DOMAIN x.units :
          x.vectors[i] = <<"vector", x.units[i]>> \/ \E j \in DOMAIN x.todo : x.todo[j] = i
    /\ x.pc = "embed" => x.todo # <<>>
    /\ x.pc \in {"retrieve", "done"} => x.todo = <<>>
    /\ x.pc = "done" => /\ \A p \in DOMAIN x.net : x.net[p] \in Int
                        /\ x.shown = Shown(x.units, x.vectors, x.net)

StoresTrue ==
    /\ CacheTrue
    /\ DOMAIN scan = Scanners /\ \A s \in Scanners : ScanTrue(scan[s])

\* A scan looks its texts up, and puts those the cache has not in a row.
LEMMA ReadInv ==
    ASSUME StoresTrue, NEW s \in Scanners, ReadCache(s)
    PROVE  StoresTrue'
<1>1. PICK units \in Inputs :
        LET misses == {i \in DOMAIN units : units[i] \notin DOMAIN cached}
        IN  scan' = [scan EXCEPT ![s].pc = IF misses = {} THEN "retrieve" ELSE "embed",
                ![s].units = units,
                ![s].vectors = [i \in DOMAIN units |->
                    IF units[i] \in DOMAIN cached THEN cached[units[i]] ELSE <<>>],
                ![s].todo = Ranked(misses, LAMBDA i, j : \/ TextLength[units[i]] < TextLength[units[j]]
                    \/ (TextLength[units[i]] = TextLength[units[j]] /\ i < j))]
  BY DEF ReadCache
<1> DEFINE misses == {i \in DOMAIN units : units[i] \notin DOMAIN cached}
           todo == Ranked(misses, LAMBDA i, j : \/ TextLength[units[i]] < TextLength[units[j]]
                    \/ (TextLength[units[i]] = TextLength[units[j]] /\ i < j))
           before(i, j) == TextLength[units[i]] < TextLength[units[j]]
                              \/ (TextLength[units[i]] = TextLength[units[j]] /\ i < j)
           R == {e \in misses \X misses : before(e[1], e[2])}
           n == Cardinality(misses)
           vectors == [i \in DOMAIN units |-> IF units[i] \in DOMAIN cached THEN cached[units[i]] ELSE <<>>]
           next == IF misses = {} THEN "retrieve" ELSE "embed"
<1>2. /\ units \in Seq(UnitTexts) /\ DOMAIN units = 1..Len(units) /\ Len(units) \in Nat
      /\ \A i \in DOMAIN units : units[i] \in UnitTexts /\ TextLength[units[i]] \in Nat
  <2>1. units \in Seq(UnitTexts)
    BY StoresInputs
  <2>2. DOMAIN units = 1..Len(units) /\ Len(units) \in Nat /\ \A i \in DOMAIN units : units[i] \in UnitTexts
    BY <2>1, LenProperties, ElementOfSeq
  <2> QED  BY <2>1, <2>2, StoresInputs
<1>3. misses \subseteq DOMAIN units /\ IsFiniteSet(misses) /\ misses \subseteq Nat
  <2>1. IsFiniteSet(1..Len(units))
    BY <1>2, FS_Interval
  <2> QED  BY <1>2, <2>1, FS_Subset
<1>4. todo = [k \in 1..n |-> CHOOSE x \in misses : Cardinality({y \in misses : before(y, x)}) = k - 1]
  BY SMTT(30) DEF Ranked
<1>5. scan' = [scan EXCEPT ![s].pc = next, ![s].units = units, ![s].vectors = vectors, ![s].todo = todo]
  BY <1>1
<1>6. next = (IF misses = {} THEN "retrieve" ELSE "embed")
  OBVIOUS
<1>7. /\ DOMAIN vectors = DOMAIN units
      /\ \A i \in DOMAIN units : vectors[i] = <<"vector", units[i]>> \/ i \in misses
  BY DEF StoresTrue, CacheTrue
<1> HIDE DEF todo, vectors, next
<1>8. InOrderBy(R, misses) /\ \A x, y \in misses : <<x, y>> \in R <=> before(x, y)
  <2>1. \A x, y \in misses : <<x, y>> \in R <=> before(x, y)
    OBVIOUS
  <2>2. \A x \in misses : x \in Nat /\ TextLength[units[x]] \in Nat
    BY <1>2, <1>3
  <2> HIDE DEF R, misses
  <2>3. \A x, y \in misses : ~before(x, x) /\ (x = y \/ before(x, y) \/ before(y, x))
    BY <2>2
  <2>4. \A x, y, z \in misses : before(x, y) /\ before(y, z) => before(x, z)
    BY <2>2
  <2> HIDE DEF before
  <2> QED  BY <2>1, <2>3, <2>4 DEF InOrderBy
<1>9. \A x \in misses : {y \in misses : before(y, x)} = Preceding(R, misses, x)
  BY <1>8 DEF Preceding
<1> HIDE DEF R, misses, before
<1>10. n \in Nat /\ \A k \in 1..n : \E x \in misses : Cardinality({y \in misses : before(y, x)}) = k - 1
  <2>1. n \in Nat /\ \A k \in 1..n : \E x \in misses : Cardinality(Preceding(R, misses, x)) = k - 1
    BY <1>3, <1>8, PlacesInRow
  <2>2. ASSUME NEW k \in 1..n
        PROVE \E x \in misses : Cardinality({y \in misses : before(y, x)}) = k - 1
    <3>1. PICK x \in misses : Cardinality(Preceding(R, misses, x)) = k - 1
      BY <2>1
    <3>2. {y \in misses : before(y, x)} = Preceding(R, misses, x)
      BY <1>9
    <3>3. Cardinality({y \in misses : before(y, x)}) = k - 1
      BY <3>1, <3>2
    <3> QED  BY <3>3
  <2> QED  BY <2>1, <2>2
<1>11. \A k \in 1..n : todo[k] \in misses /\ Cardinality({y \in misses : before(y, todo[k])}) = k - 1
  <2> HIDE DEF n
  <2> QED  BY <1>4, <1>10
<1>12. \A k \in 1..n : todo[k] \in misses /\ Cardinality(Preceding(R, misses, todo[k])) = k - 1
  BY <1>9, <1>11
<1>13. \A x \in misses : \E k \in 1..n : todo[k] = x
  BY <1>3, <1>8, <1>12, InRow
<1>14. misses # {} => n # 0
  BY <1>3, FS_EmptySet
<1> HIDE DEF n
<1>15. todo \in Seq(DOMAIN units) /\ DOMAIN todo = 1..n
  <2>1. todo \in [1..n -> DOMAIN units]
    BY <1>3, <1>4, <1>12
  <2> QED  BY <1>10, <2>1, SeqDef
<1>16. todo = <<>> <=> misses = {}
  <2>1. misses # {} => DOMAIN todo # {}
    BY <1>10, <1>13, <1>15
  <2>2. misses = {} => DOMAIN todo = {}
    BY <1>12, <1>15
  <2>3. todo = <<>> <=> DOMAIN todo = {}
    <3>1. DOMAIN todo = 1..Len(todo) /\ Len(todo) \in Nat
      BY <1>15, LenProperties
    <3>2. DOMAIN todo = {} <=> Len(todo) = 0
      BY <3>1
    <3> QED  BY <1>15, <3>2, EmptySeq
  <2> QED  BY <2>1, <2>2, <2>3
<1>17. ScanTrue(scan[s]) /\ DOMAIN scan = Scanners
  BY DEF StoresTrue
<1> DEFINE y == scan'[s]
<1>18. /\ DOMAIN scan' = Scanners /\ \A r \in Scanners : r # s => scan'[r] = scan[r]
       /\ DOMAIN y = DOMAIN scan[s]
       /\ y.pc = next /\ y.units = units /\ y.vectors = vectors /\ y.todo = todo
       /\ y.batches = scan[s].batches /\ y.records = scan[s].records
  BY <1>5, <1>17 DEF ScanTrue
<1> HIDE DEF y
<1>19. ScanTrue(y)
  BY <1>2, <1>6, <1>7, <1>13, <1>15, <1>16, <1>17, <1>18 DEF ScanTrue
<1>20. CacheTrue'
  BY DEF ReadCache, StoresTrue, CacheTrue
<1> QED  BY <1>18, <1>19, <1>20, SMTT(30) DEF StoresTrue, y

\* The vectors of a batch go to the places of their texts.
LEMMA EmbedInv ==
    ASSUME StoresTrue, NEW s \in Scanners, EmbedBatch(s)
    PROVE  StoresTrue'
<1> DEFINE x == scan[s]
           n == Min({BatchSize, Len(x.todo)})
           batch == SubSeq(x.todo, 1, n)
           rest == SubSeq(x.todo, Len(batch) + 1, Len(x.todo))
           new == [j \in DOMAIN batch |-> <<"vector", x.units[batch[j]]>>]
           vectors == Placed(x.vectors, batch, new)
           entries == [j \in DOMAIN batch |-> [key |-> x.units[batch[j]], vector |-> new[j]]]
           next == IF rest = <<>> \/ (x.batches + 1) % FlushEvery = 0 THEN "select" ELSE "embed"
           y == scan'[s]
<1>1. ScanTrue(x) /\ DOMAIN scan = Scanners /\ x.pc = "embed"
  BY ZenonT(60) DEF StoresTrue, EmbedBatch
<1>2. scan' = [scan EXCEPT ![s].vectors = Placed(@, batch, new), ![s].todo = rest,
              ![s].batches = @ + 1, ![s].records = @ \o entries, ![s].pc = next]
  BY DEF EmbedBatch
<1>3. /\ x.todo \in Seq(DOMAIN x.units) /\ x.todo # <<>> /\ x.units \in Seq(UnitTexts)
      /\ x.records \in Seq(CacheEntry) /\ x.batches \in Nat
      /\ DOMAIN x.vectors = DOMAIN x.units
  BY <1>1 DEF ScanTrue
<1>4. Len(x.todo) \in Nat /\ Len(x.todo) # 0 /\ DOMAIN x.todo = 1..Len(x.todo)
  BY <1>3, LenProperties, EmptySeq
<1>5. n \in 1..Len(x.todo)
  <2>1. BatchSize \in Int /\ BatchSize >= 1 /\ Len(x.todo) \in Int
    BY <1>4, StoresInputs
  <2>2. n = IF BatchSize <= Len(x.todo) THEN BatchSize ELSE Len(x.todo)
    BY <2>1, LesserOfTwo
  <2> QED  BY <1>4, <2>1, <2>2
<1> HIDE DEF n
<1>6. /\ batch \in Seq(DOMAIN x.units) /\ Len(batch) = n /\ DOMAIN batch = 1..n
      /\ \A i \in 1..n : batch[i] = x.todo[i]
  BY <1>3, <1>5, FirstFacts, ZenonT(60)
<1>7. \A i \in 1..n : batch[i] \in DOMAIN x.units
  BY <1>6, ElementOfSeq
<1>8. /\ rest \in Seq(DOMAIN x.units) /\ DOMAIN rest = 1..(Len(x.todo) - n)
      /\ \A i \in 1..(Len(x.todo) - n) : rest[i] = x.todo[n + i]
  <2>1. rest = SubSeq(x.todo, n + 1, Len(x.todo))
    BY <1>6
  <2> DEFINE todo == x.todo
  <2>2. todo \in Seq(DOMAIN x.units) /\ n \in 1..Len(todo)
    BY <1>3, <1>5
  <2> HIDE DEF todo
  <2>3. /\ SubSeq(todo, n + 1, Len(todo)) \in Seq(DOMAIN x.units)
        /\ DOMAIN SubSeq(todo, n + 1, Len(todo)) = 1..(Len(todo) - n)
        /\ \A i \in 1..(Len(todo) - n) : SubSeq(todo, n + 1, Len(todo))[i] = todo[n + i]
    BY <2>2, RestFacts
  <2> HIDE DEF batch, rest
  <2> QED  BY <2>1, <2>3 DEF todo
<1> HIDE DEF batch, rest
<1>9. \A i \in DOMAIN x.units : x.units[i] \in UnitTexts
  BY <1>3, ElementOfSeq
<1>10. new = [j \in 1..n |-> <<"vector", x.units[batch[j]]>>]
  BY <1>6
<1>11. entries \in Seq(CacheEntry)
  <2>1. \A j \in 1..n : [key |-> x.units[batch[j]], vector |-> new[j]] \in CacheEntry
    BY <1>7, <1>9, <1>10 DEF CacheEntry
  <2>2. n \in Nat
    BY <1>4, <1>5
  <2> HIDE DEF new
  <2>3. entries \in [1..n -> CacheEntry]
    BY <1>6, <2>1
  <2> QED  BY <2>2, <2>3, SeqDef
<1>12. /\ DOMAIN vectors = DOMAIN x.units
       /\ \A i \in DOMAIN x.units : IF \E j \in 1..n : batch[j] = i THEN vectors[i] = <<"vector", x.units[i]>>
                                                                    ELSE vectors[i] = x.vectors[i]
  <2>1. vectors = [i \in DOMAIN x.units |->
            IF Contains(batch, i) THEN new[CHOOSE j \in DOMAIN batch : batch[j] = i] ELSE x.vectors[i]]
    BY <1>3 DEF Placed
  <2>2. \A i : Contains(batch, i) <=> \E j \in 1..n : batch[j] = i
    BY <1>6 DEF Contains
  <2>3. ASSUME NEW i \in DOMAIN x.units, \E j \in 1..n : batch[j] = i
        PROVE  vectors[i] = <<"vector", x.units[i]>>
    <3> DEFINE j == CHOOSE j \in DOMAIN batch : batch[j] = i
    <3>1. j \in 1..n /\ batch[j] = i
      BY <1>6, <2>3
    <3>2. vectors[i] = new[j]
      BY <2>1, <2>2, <2>3
    <3> HIDE DEF j
    <3> QED  BY <1>10, <3>1, <3>2
  <2> HIDE DEF vectors
  <2> QED  BY <2>1, <2>2, <2>3
<1> HIDE DEF vectors, new, entries
<1>13. x.records \o entries \in Seq(CacheEntry)
  BY <1>3, <1>11, ConcatProperties
<1>14. /\ DOMAIN scan' = Scanners /\ \A r \in Scanners : r # s => scan'[r] = scan[r]
       /\ DOMAIN y = DOMAIN x
       /\ y.pc = next /\ y.units = x.units /\ y.vectors = vectors /\ y.todo = rest
       /\ y.batches = x.batches + 1 /\ y.records = x.records \o entries
  BY <1>1, <1>2 DEF ScanTrue, vectors
<1>15. \A i \in DOMAIN x.units : vectors[i] = <<"vector", x.units[i]>> \/ \E j \in DOMAIN rest : rest[j] = i
  <2>1. ASSUME NEW i \in DOMAIN x.units, vectors[i] # <<"vector", x.units[i]>>
        PROVE  \E j \in DOMAIN rest : rest[j] = i
    <3>1. x.vectors[i] # <<"vector", x.units[i]>> /\ ~\E j \in 1..n : batch[j] = i
      BY <1>12, <2>1
    <3>2. PICK j \in DOMAIN x.todo : x.todo[j] = i
      BY <1>1, <3>1 DEF ScanTrue
    <3>3. j \notin 1..n
      BY <1>6, <3>1, <3>2
    <3>4. j - n \in 1..(Len(x.todo) - n) /\ n + (j - n) = j
      BY <1>4, <1>5, <3>2, <3>3
    <3>5. rest[j - n] = i
      BY <1>8, <3>2, <3>4
    <3> QED  BY <1>8, <3>4, <3>5
  <2> QED  BY <2>1
<1>16. next = "select" \/ (next = "embed" /\ rest # <<>>)
  OBVIOUS
<1> HIDE DEF next, y
<1>17. ScanTrue(y)
  <2> HIDE DEF x
  <2>1. DOMAIN y.vectors = DOMAIN y.units /\ y.units = x.units /\ y.vectors = vectors /\ y.todo = rest
    BY <1>12, <1>14
  <2>2. DOMAIN y = {"pc", "units", "vectors", "todo", "batches", "records", "known", "net", "shown"}
    BY <1>1, <1>14 DEF ScanTrue
  <2>3. y.batches \in Nat /\ y.units \in Seq(UnitTexts) /\ y.todo \in Seq(DOMAIN y.units) /\ y.records \in Seq(CacheEntry)
    BY <1>3, <1>8, <1>13, <1>14, SMTT(30)
  <2>4. /\ y.pc \notin {"retrieve", "done"} /\ (y.pc = "embed" => y.todo # <<>>)
    BY <1>14, <1>16
  <2> QED  BY <1>15, <2>1, <2>2, <2>3, <2>4 DEF ScanTrue
<1>18. CacheTrue'
  BY DEF EmbedBatch, StoresTrue, CacheTrue
<1> HIDE DEF x
<1> QED  BY <1>14, <1>17, <1>18, SMTT(30) DEF StoresTrue, y

\* What put_many finds, it finds by the key.
LEMMA SelectInv ==
    ASSUME StoresTrue, NEW s \in Scanners, SelectKeys(s)
    PROVE  StoresTrue'
<1> DEFINE x == scan[s]
           known == Keys(s) \cap DOMAIN cached
           y == scan'[s]
<1>1. /\ ScanTrue(x) /\ DOMAIN scan = Scanners
      /\ scan' = [scan EXCEPT ![s].pc = "commit", ![s].known = known]
  BY DEF StoresTrue, SelectKeys
<1> HIDE DEF known
<1>2. /\ DOMAIN scan' = Scanners /\ \A r \in Scanners : r # s => scan'[r] = scan[r]
      /\ DOMAIN y = DOMAIN x
      /\ y.pc = "commit" /\ y.units = x.units /\ y.vectors = x.vectors /\ y.todo = x.todo
      /\ y.batches = x.batches /\ y.records = x.records
  BY <1>1 DEF ScanTrue
<1> HIDE DEF x, y
<1>3. ScanTrue(y)
  BY <1>1, <1>2 DEF ScanTrue
<1>4. CacheTrue'
  BY DEF SelectKeys, StoresTrue, CacheTrue
<1> QED  BY <1>2, <1>3, <1>4 DEF StoresTrue, x, y

\* What a commit adds to the cache is true, whoever was faster.
LEMMA FlushInv ==
    ASSUME StoresTrue, NEW s \in Scanners, CommitKeys(s)
    PROVE  StoresTrue'
<1> DEFINE x == scan[s]
           y == scan'[s]
           vector(k) == x.records[CHOOSE i \in DOMAIN x.records : x.records[i].key = k].vector
           keys == Keys(s)
           next == IF x.todo = <<>> THEN "retrieve" ELSE "embed"
<1>1. /\ ScanTrue(x) /\ DOMAIN scan = Scanners
      /\ scan' = [scan EXCEPT ![s].records = <<>>, ![s].known = {}, ![s].pc = next]
  BY DEF StoresTrue, CommitKeys, Flushed
<1>2. \/ cached' = cached
      \/ cached' = [k \in keys \cup DOMAIN cached |-> IF k \in keys THEN vector(k) ELSE cached[k]]
  BY DEF CommitKeys
<1>3. ASSUME NEW k \in keys PROVE vector(k) = <<"vector", k>>
  <2> DEFINE i == CHOOSE i \in DOMAIN x.records : x.records[i].key = k
  <2>1. \E j \in DOMAIN x.records : x.records[j].key = k
    BY DEF Keys
  <2>2. i \in DOMAIN x.records /\ x.records[i].key = k
    BY <2>1
  <2>3. vector(k) = x.records[i].vector
    OBVIOUS
  <2> HIDE DEF i, vector
  <2>4. x.records[i] \in CacheEntry
    BY <1>1, <2>2, ElementOfSeq DEF ScanTrue
  <2> QED  BY <2>2, <2>3, <2>4 DEF CacheEntry
<1> HIDE DEF vector, keys
<1>4. CacheTrue'
  BY <1>2, <1>3 DEF StoresTrue, CacheTrue
<1>5. next = (IF x.todo = <<>> THEN "retrieve" ELSE "embed")
  OBVIOUS
<1> HIDE DEF next
<1>6. /\ DOMAIN scan' = Scanners /\ \A r \in Scanners : r # s => scan'[r] = scan[r]
      /\ DOMAIN y = DOMAIN x
      /\ y.pc = next /\ y.units = x.units /\ y.vectors = x.vectors /\ y.todo = x.todo
      /\ y.batches = x.batches /\ y.records = <<>>
  BY <1>1 DEF ScanTrue
<1> HIDE DEF x, y
<1>7. ScanTrue(y)
  <2>1. <<>> \in Seq(CacheEntry)
    BY EmptySeq
  <2> QED  BY <1>1, <1>5, <1>6, <2>1 DEF ScanTrue
<1> QED  BY <1>4, <1>6, <1>7 DEF StoresTrue, x, y

\* The votes for a memory are numbers.
LEMMA NetVotesInt ==
    ASSUME votes \in Seq(Row), NEW p \in DOMAIN NetVotes
    PROVE  NetVotes[p] \in Int
<1>1. DOMAIN votes = 1..Len(votes) /\ Len(votes) \in Nat
  BY LenProperties
<1>2. IsFiniteSet(DOMAIN votes)
  <2>1. IsFiniteSet(1..Len(votes))
    BY <1>1, FS_Interval
  <2> QED  BY <1>1, <2>1
<1>3. ASSUME NEW n PROVE Cardinality(VotesFor(p, n)) \in Nat
  <2>1. VotesFor(p, n) \subseteq DOMAIN votes
    BY DEF VotesFor
  <2> QED  BY <1>2, <2>1, FS_Subset, FS_CardinalityType
<1>4. NetVotes[p] = Cardinality(VotesFor(p, 1)) - Cardinality(VotesFor(p, -1))
  BY DEF NetVotes
<1>5. Cardinality(VotesFor(p, 1)) \in Int /\ Cardinality(VotesFor(p, -1)) \in Int
  BY <1>3
<1> QED  BY <1>4, <1>5

\* A scan reads the votes once, and shows what its texts retrieve.
LEMMA AnalyzeInv ==
    ASSUME StoresTrue, votes \in Seq(Row), NEW s \in Scanners, AnalyzeUnits(s)
    PROVE  StoresTrue'
<1> DEFINE x == scan[s]
           y == scan'[s]
           shown == Shown(x.units, x.vectors, NetVotes)
           net == NetVotes
<1>1. /\ ScanTrue(x) /\ DOMAIN scan = Scanners /\ x.pc = "retrieve"
      /\ scan' = [scan EXCEPT ![s].pc = "done", ![s].net = net, ![s].shown = shown]
  BY DEF StoresTrue, AnalyzeUnits
<1>2. \A p \in DOMAIN net : net[p] \in Int
  BY NetVotesInt
<1>3. shown = Shown(x.units, x.vectors, net)
  OBVIOUS
<1> HIDE DEF net, shown
<1>4. /\ DOMAIN scan' = Scanners /\ \A r \in Scanners : r # s => scan'[r] = scan[r]
      /\ DOMAIN y = DOMAIN x
      /\ y.pc = "done" /\ y.units = x.units /\ y.vectors = x.vectors /\ y.todo = x.todo
      /\ y.batches = x.batches /\ y.records = x.records /\ y.net = net /\ y.shown = shown
  BY <1>1 DEF ScanTrue
<1> HIDE DEF x, y
<1>5. ScanTrue(y)
  BY <1>1, <1>2, <1>3, <1>4 DEF ScanTrue
<1>6. CacheTrue'
  BY DEF AnalyzeUnits, StoresTrue, CacheTrue
<1> QED  BY <1>4, <1>5, <1>6 DEF StoresTrue, x, y

LEMMA StoresStep ==
    ASSUME StoresTrue, votes \in Seq(Row), [StoresNext]_storeVars
    PROVE  StoresTrue'
<1>1. CASE UNCHANGED <<cached, scan>>
  BY <1>1 DEF StoresTrue, CacheTrue
<1> QED  BY <1>1, ReadInv, EmbedInv, SelectInv, FlushInv, AnalyzeInv
            DEF StoresNext, storeVars, FindVote, CommitVote

LEMMA StoresStart == StoresInit => StoresTrue
<1> SUFFICES ASSUME StoresInit PROVE StoresTrue
  OBVIOUS
<1>1. cached = <<>> /\ scan = [s \in Scanners |-> NewScan]
  BY DEF StoresInit
<1>2. CacheTrue
  BY <1>1, EmptySeq DEF CacheTrue
<1>3. ScanTrue(NewScan)
  <2>1. \A S : <<>> \in Seq(S) /\ DOMAIN <<>> = {}
    BY EmptySeq
  <2> QED  BY <2>1 DEF NewScan, ScanTrue
<1> HIDE DEF NewScan
<1> QED  BY <1>1, <1>2, <1>3 DEF StoresTrue

LEMMA StoresGoal == StoresTrue => RetrievalAddsUp
<1> SUFFICES ASSUME StoresTrue, NEW s \in Scanners, scan[s].pc = "done"
             PROVE  AddsUp(scan[s].units, scan[s].net, scan[s].shown)
  BY DEF RetrievalAddsUp, AddsUp
<1>1. ScanTrue(scan[s])
  BY DEF StoresTrue
<1> DEFINE x == scan[s]
<1>2. /\ x.units \in Seq(UnitTexts) /\ \A p \in DOMAIN x.net : x.net[p] \in Int
      /\ x.shown = Shown(x.units, x.vectors, x.net) /\ x.todo = <<>>
      /\ \A i \in DOMAIN x.units :
            x.vectors[i] = <<"vector", x.units[i]>> \/ \E j \in DOMAIN x.todo : x.todo[j] = i
  BY <1>1 DEF ScanTrue
<1>3. \A i \in DOMAIN x.units : x.vectors[i] = <<"vector", x.units[i]>>
  BY <1>2, EmptySeq
<1> HIDE DEF x
<1>4. AddsUp(x.units, x.net, x.shown)
  BY <1>2, <1>3, ShownAddsUp, ZenonT(60)
<1> QED  BY <1>4 DEF x

------------------------------------------------------------------------------
(* ActionRun.                                                              *)

ActionTypes ==
    /\ job \in [{"scan"} -> {"absent", "queued", "running", "completed", "failed"}]
    /\ runPc \in {"collect", "submit", "poll", "asked", "publish", "exited"}
    /\ threshold \in Thresholds \cup {NoThreshold}
    /\ sinceSubmit \in Nat /\ settledAt \in Nat \cup {Unsettled}
    /\ runPc # "exited" => exitCode = -1 /\ raised = "none"

\* The time the job settled is known once it has, and a round that starts has seen all that
\* settled before the last answer.
Clocked ==
    /\ settledAt # Unsettled <=> job["scan"] \in {"completed", "failed"}
    /\ runPc = "poll" => settledAt \in {Unsettled, sinceSubmit}
    /\ raised = "timeout" => sinceSubmit >= PollDeadline /\ settledAt \notin 0..(PollDeadline - 1)

\* The run publishes what the server completed.
Published == runPc = "publish" => job["scan"] = "completed" /\ result \in Results

\* What an exit with 0 stands for.
Earned ==
    \/ "ok" \notin changed
    \/ /\ job["scan"] = "completed"
       /\ FailOnPartial => ReviewStatusOf(result) = "complete"
       /\ \A i \in DOMAIN result.report :
             GatesBuild(result.report[i]) /\ threshold # NoThreshold
                => result.report[i].severity < threshold

ActionInv == ActionTypes /\ Clocked /\ Published /\ (exitCode = 0 => Earned)

\* A result that passes both gates.
LEMMA GatesPass ==
    ASSUME NEW r \in Results, NEW t \in Thresholds \cup {NoThreshold}, ExitCode(r, t) = 0
    PROVE  /\ FailOnPartial => ReviewStatusOf(r) = "complete"
           /\ \A i \in DOMAIN r.report :
                 GatesBuild(r.report[i]) /\ t # NoThreshold => r.report[i].severity < t
<1>1. SeverityGate(r.report, t) # 1 /\ CoverageGate(r) # 1
  BY DEF ExitCode
<1>2. FailOnPartial => ReviewStatusOf(r) = "complete"
  BY <1>1 DEF CoverageGate
<1>3. ASSUME NEW i \in DOMAIN r.report, GatesBuild(r.report[i]), t # NoThreshold
      PROVE  r.report[i].severity < t
  <2>1. t \in Nat /\ t # 0 /\ r.report[i].severity \in Nat
    BY <1>3, GateValues DEF NoThreshold
  <2>2. ~(r.report[i].severity # 0 /\ r.report[i].severity >= t)
    BY <1>1, <1>3 DEF SeverityGate
  <2> QED  BY <2>1, <2>2
<1> QED  BY <1>2, <1>3

\* The steps of the run before it publishes: none of them exits with 0 but the one that finds
\* nothing to submit.
LEMMA RunInv ==
    ASSUME ActionInv,
           CollectChangedFiles \/ Submit \/ StartRound \/ TimeOut \/ Polled \/ PollFails
    PROVE  ActionInv'
<1>1. runPc # "exited" /\ exitCode = -1 /\ raised = "none"
  BY DEF ActionInv, ActionTypes, CollectChangedFiles, Submit, StartRound, TimeOut, Polled, PollFails
<1>2. CASE CollectChangedFiles
  <2>1. /\ UNCHANGED <<job, sinceSubmit, settledAt, result>> /\ threshold' \in Thresholds
        /\ runPc' \in {"submit", "exited"} /\ raised' \in {"none", "listing"}
        /\ runPc' # "exited" => exitCode' = -1 /\ raised' = "none"
        /\ exitCode' = 0 => "ok" \notin changed'
    BY <1>1, <1>2 DEF CollectChangedFiles, serverVars, GoOn, Exit, Raise
  <2> QED  BY <2>1 DEF ActionInv, ActionTypes, Clocked, Published, Earned
<1>3. CASE Submit
  <2>1. /\ UNCHANGED <<changed, threshold, sinceSubmit, settledAt, result>>
        /\ \/ /\ job["scan"] = "absent" /\ job' = [job EXCEPT !["scan"] = "queued"]
              /\ runPc' = "poll" /\ exitCode' = -1 /\ raised' = "none"
           \/ job' = job /\ runPc' = "exited" /\ exitCode' = 1 /\ raised' = "submit"
    BY <1>1, <1>3 DEF Submit, Server!Accept, serverVars, GoOn, Raise
  <2>2. job' \in [{"scan"} -> {"absent", "queued", "running", "completed", "failed"}]
        /\ (job'["scan"] \in {"completed", "failed"} <=> job["scan"] \in {"completed", "failed"})
    BY <2>1 DEF ActionInv, ActionTypes
  <2>3. runPc' = "poll" => settledAt = Unsettled
    BY <2>1 DEF ActionInv, Clocked
  <2> QED  BY <2>1, <2>2, <2>3 DEF ActionInv, ActionTypes, Clocked, Published
<1>4. CASE StartRound
  <2>1. /\ UNCHANGED <<job, changed, threshold, settledAt, result>>
        /\ \E d \in 1..SlowestPoll : sinceSubmit' = sinceSubmit + d
        /\ runPc' = "asked" /\ exitCode' = -1 /\ raised' = "none"
    BY <1>1, <1>4 DEF StartRound, serverVars, GoOn
  <2>2. sinceSubmit' \in Nat
    BY <2>1, PollTimes DEF ActionInv, ActionTypes
  <2>3. ActionTypes' /\ Published'
    BY <2>1, <2>2 DEF ActionInv, ActionTypes, Published
  <2>4. Clocked'
    BY <2>1 DEF ActionInv, Clocked
  <2> QED  BY <2>1, <2>3, <2>4 DEF ActionInv
<1>5. CASE TimeOut
  <2>1. /\ UNCHANGED <<job, changed, threshold, settledAt, sinceSubmit, result>>
        /\ runPc = "poll" /\ sinceSubmit >= PollDeadline
        /\ runPc' = "exited" /\ exitCode' = 1 /\ raised' = "timeout"
    BY <1>5 DEF TimeOut, serverVars, Raise
  <2>2. settledAt \notin 0..(PollDeadline - 1)
    BY <2>1, PollTimes DEF ActionInv, ActionTypes, Clocked, Unsettled
  <2> QED  BY <2>1, <2>2 DEF ActionInv, ActionTypes, Clocked, Published
<1>6. CASE Polled
  <2>1. /\ UNCHANGED <<job, changed, threshold, settledAt, sinceSubmit>>
        /\ \/ /\ job["scan"] = "completed" /\ result' \in Results
              /\ runPc' = "publish" /\ exitCode' = -1 /\ raised' = "none"
           \/ runPc' = "exited" /\ exitCode' = 1 /\ raised' = "scan failed"
           \/ /\ job["scan"] \notin {"completed", "failed"}
              /\ runPc' = "poll" /\ exitCode' = -1 /\ raised' = "none"
    BY <1>1, <1>6 DEF Polled, serverVars, Raise, GoOn
  <2>2. ActionTypes'
    BY <2>1 DEF ActionInv, ActionTypes
  <2>3. exitCode' # 0
    <3>1. exitCode' = -1 \/ exitCode' = 1
      BY <2>1, Zenon
    <3> QED  BY ONLY <3>1
  <2>4. Published'
    <3>1. runPc' = "publish" => job["scan"] = "completed" /\ result' \in Results
      BY <2>1
    <3> QED  BY <2>1, <3>1 DEF Published
  <2>5. Clocked'
    BY <2>1 DEF ActionInv, Clocked
  <2> QED  BY <2>2, <2>3, <2>4, <2>5 DEF ActionInv
<1>7. CASE PollFails
  <2>1. /\ UNCHANGED <<job, changed, threshold, settledAt, sinceSubmit, result>>
        /\ runPc' = "exited" /\ exitCode' = 1 /\ raised' = "poll"
    BY <1>7 DEF PollFails, serverVars, Raise
  <2> QED  BY <2>1 DEF ActionInv, ActionTypes, Clocked, Published
<1> QED  BY <1>2, <1>3, <1>4, <1>5, <1>6, <1>7

\* The run exits with what the gates say of the result.
LEMMA PublishInv ==
    ASSUME ActionInv, Publish
    PROVE  ActionInv'
<1>1. /\ UNCHANGED <<job, changed, threshold, settledAt, sinceSubmit, result>>
      /\ runPc = "publish" /\ exitCode = -1 /\ raised = "none" /\ runPc' = "exited"
      /\ job["scan"] = "completed" /\ result \in Results /\ threshold \in Thresholds \cup {NoThreshold}
      /\ raised' \in {"none", "publish"}
      /\ exitCode' = ExitCode(result, threshold) \/ exitCode' = 1
  BY DEF Publish, serverVars, Exit, Raise, ActionInv, ActionTypes, Published
<1>2. exitCode' = 0 => Earned'
  <2> SUFFICES ASSUME exitCode' = 0 PROVE Earned'
    OBVIOUS
  <2>1. ExitCode(result, threshold) = 0
    BY <1>1
  <2> QED  BY <1>1, <2>1, GatesPass DEF Earned
<1> QED  BY <1>1, <1>2 DEF ActionInv, ActionTypes, Clocked, Published

\* The server takes back nothing it completed.
LEMMA ServerInv ==
    ASSUME ActionInv, ServerStarts \/ ServerSettles
    PROVE  ActionInv'
<1>1. CASE ServerStarts
  <2>1. /\ UNCHANGED <<runPc, changed, threshold, sinceSubmit, settledAt, result, exitCode, raised>>
        /\ job["scan"] = "queued" /\ job' = [job EXCEPT !["scan"] = "running"]
    BY <1>1 DEF ServerStarts, Server!Start, runVars
  <2>2. job'["scan"] = "running"
        /\ job' \in [{"scan"} -> {"absent", "queued", "running", "completed", "failed"}]
    BY <2>1 DEF ActionInv, ActionTypes
  <2> QED  BY <2>1, <2>2 DEF ActionInv, ActionTypes, Clocked, Published, Earned
<1>2. CASE ServerSettles
  <2>1. /\ UNCHANGED <<runPc, changed, threshold, sinceSubmit, result, exitCode, raised>>
        /\ settledAt' = sinceSubmit /\ job["scan"] \in {"queued", "running"}
        /\ job'["scan"] \in {"completed", "failed"}
        /\ job' \in [{"scan"} -> {"absent", "queued", "running", "completed", "failed"}]
    BY <1>2 DEF ServerSettles, Server!Finish, Server!GiveUp, ActionInv, ActionTypes
  <2>2. Clocked'
    BY <2>1, PollTimes DEF ActionInv, ActionTypes, Clocked, Unsettled
  <2> QED  BY <2>1, <2>2 DEF ActionInv, ActionTypes, Published, Earned
<1> QED  BY <1>1, <1>2

\* The check passes only for a reason, and a scan that settled in time is never reported as
\* timed out, for any deadline, poll time, inputs and results (run_analysis, severity_gate,
\* coverage_gate).
THEOREM ExitSound == Spec => []ExitIsEarned
<1>1. Init => ActionInv
  BY DEF Init, RunInit, Server!JobInit, ActionInv, ActionTypes, Clocked, Published, Unsettled
<1>2. ActionInv /\ [Next]_vars => ActionInv'
  <2> SUFFICES ASSUME ActionInv, [ActionRunNext]_actionRunVars PROVE ActionInv'
    BY Zenon DEF Next, vars, actionRunVars
  <2>1. CASE UNCHANGED actionRunVars
    BY <2>1 DEF actionRunVars, serverVars, runVars, ActionInv, ActionTypes, Clocked, Published, Earned
  <2> QED  BY <2>1, RunInv, PublishInv, ServerInv DEF ActionRunNext, RunStep
<1>3. ActionInv => ExitIsEarned
  BY DEF ActionInv, Clocked, Earned, ExitIsEarned
<1> QED  BY <1>1, <1>2, <1>3, PTL DEF Spec

------------------------------------------------------------------------------
(* ActionComments: what a plan is.                                         *)

\* Comments by id, as GitHub lists them.
Listing(E) == DOMAIN E \subseteq Nat /\ \A i \in DOMAIN E : E[i] \in [marker : Markers, text : Texts]

\* A plan for the desired markers W, by what each of them adopts.
Adopting(E, W, adopt) ==
    W \in Wants /\ adopt \in [ToSet(W) -> Posted(E) \cup {NoMarker}] /\ Adopts(E, W, adopt)

\* The first comment of a posted marker.
LEMMA FirstIsPosted ==
    ASSUME NEW E, Listing(E), NEW m \in Posted(E)
    PROVE  FirstComment(E, m) \in DOMAIN E /\ E[FirstComment(E, m)].marker = m
<1>1. Carrying(E, m) \subseteq Nat /\ Carrying(E, m) # {}
  BY DEF Listing, Carrying, Posted
<1>2. \E i \in Carrying(E, m) : \A j \in Carrying(E, m) : i <= j
  BY <1>1, LeastOfSome
<1>3. FirstComment(E, m) \in Carrying(E, m)
  BY <1>2 DEF FirstComment
<1> QED  BY <1>3 DEF Carrying

\* What a desired marker adopts is a legacy marker of it that is posted, not desired and not
\* adopted by another one; and if it adopts nothing though it is not posted, its legacy markers
\* that are posted are desired or adopted by others.
LEMMA AdoptedOnce ==
    ASSUME NEW E, Listing(E), NEW W, NEW adopt, Adopting(E, W, adopt)
    PROVE  /\ \A m \in ToSet(W) : m \in Markers
           /\ \A m \in ToSet(W) : m \in Posted(E) => adopt[m] = NoMarker
           /\ \A m \in ToSet(W) : adopt[m] # NoMarker =>
                 adopt[m] \in Posted(E) /\ adopt[m] \notin ToSet(W)
           /\ \A m, n \in ToSet(W) : adopt[m] = adopt[n] /\ adopt[m] # NoMarker => m = n
           /\ \A m \in ToSet(W) : m \notin Posted(E) /\ adopt[m] = NoMarker =>
                 \A l \in ToSet(Legacy[m]) \cap Posted(E) :
                    l \in ToSet(W) \/ \E n \in ToSet(W) : adopt[n] = l
<1>1. W \in Seq(Markers) /\ DOMAIN W = 1..Len(W) /\ Len(W) \in Nat /\ \A i \in DOMAIN W : W[i] \in Markers
  BY CommentsAssumption, LenProperties, ElementOfSeq DEF Adopting
<1>2. \A m : m \in ToSet(W) <=> \E i \in DOMAIN W : W[i] = m
  BY DEF ToSet
<1>3. NoMarker \notin Posted(E)
  BY CommentsAssumption DEF Listing, Posted
<1>4. ASSUME NEW i \in DOMAIN W
      PROVE  /\ W[i] \in Posted(E) \/ Adoptable(E, W, adopt, i) = {} => adopt[W[i]] = NoMarker
             /\ W[i] \notin Posted(E) /\ Adoptable(E, W, adopt, i) # {} =>
                   \E k \in Adoptable(E, W, adopt, i) : adopt[W[i]] = Legacy[W[i]][k]
  BY DEF Adopting, Adopts
<1>5. ASSUME NEW i \in DOMAIN W, adopt[W[i]] # NoMarker
      PROVE  /\ adopt[W[i]] \in Posted(E) /\ adopt[W[i]] \notin ToSet(W)
             /\ \A j \in 1..(i - 1) : adopt[W[j]] # adopt[W[i]]
  <2>1. PICK k \in Adoptable(E, W, adopt, i) : adopt[W[i]] = Legacy[W[i]][k]
    BY <1>4, <1>5
  <2> QED  BY <2>1 DEF Adoptable
<1>6. ASSUME NEW i \in DOMAIN W, NEW j \in DOMAIN W, adopt[W[i]] = adopt[W[j]], adopt[W[i]] # NoMarker
      PROVE  i = j
  <2>1. i \in Nat /\ j \in Nat /\ i >= 1 /\ j >= 1
    BY <1>1
  <2>2. ~(j < i) /\ ~(i < j)
    BY <1>5, <1>6, <2>1
  <2> QED  BY <2>1, <2>2
<1>7. ASSUME NEW i \in DOMAIN W, W[i] \notin Posted(E), adopt[W[i]] = NoMarker,
             NEW l \in ToSet(Legacy[W[i]]), l \in Posted(E), l \notin ToSet(W)
      PROVE  \E n \in ToSet(W) : adopt[n] = l
  <2>1. PICK k \in DOMAIN Legacy[W[i]] : Legacy[W[i]][k] = l
    BY <1>7 DEF ToSet
  <2>2. Adoptable(E, W, adopt, i) = {}
    <3>1. SUFFICES ASSUME NEW n \in Adoptable(E, W, adopt, i), adopt[W[i]] = Legacy[W[i]][n] PROVE FALSE
      BY <1>4, <1>7
    <3>2. Legacy[W[i]][n] \in Posted(E)
      BY DEF Adoptable
    <3> QED  BY <1>3, <1>7, <3>1, <3>2
  <2>3. PICK j \in 1..(i - 1) : adopt[W[j]] = l
    BY <1>7, <2>1, <2>2 DEF Adoptable
  <2>4. j \in DOMAIN W
    BY <1>1
  <2> QED  BY <1>2, <2>3, <2>4
<1>8. \A m \in ToSet(W) : m \in Markers
  BY <1>1, <1>2
<1>9. \A m \in ToSet(W) : m \in Posted(E) => adopt[m] = NoMarker
  BY <1>2, <1>4
<1>10. \A m \in ToSet(W) : adopt[m] # NoMarker => adopt[m] \in Posted(E) /\ adopt[m] \notin ToSet(W)
  BY <1>2, <1>5
<1>11. \A m, n \in ToSet(W) : adopt[m] = adopt[n] /\ adopt[m] # NoMarker => m = n
  BY <1>2, <1>6
<1>12. \A m \in ToSet(W) : m \notin Posted(E) /\ adopt[m] = NoMarker =>
          \A l \in ToSet(Legacy[m]) \cap Posted(E) : l \in ToSet(W) \/ \E n \in ToSet(W) : adopt[n] = l
  BY <1>2, <1>7
<1> QED  BY <1>8, <1>9, <1>10, <1>11, <1>12

\* The first comment of a claimed marker is not deleted.
LEMMA ClaimedStays ==
    ASSUME NEW E, Listing(E), NEW W, NEW adopt, Adopting(E, W, adopt), NEW x \in Claimed(E, W, adopt)
    PROVE  /\ x \in Posted(E) /\ FirstComment(E, x) \in DOMAIN E
           /\ E[FirstComment(E, x)].marker = x /\ FirstComment(E, x) \notin ToDelete(E, W, adopt)
<1>1. x \in Posted(E)
  BY AdoptedOnce DEF Claimed
<1>2. FirstComment(E, x) \in DOMAIN E /\ E[FirstComment(E, x)].marker = x
  BY <1>1, FirstIsPosted
<1> QED  BY <1>1, <1>2 DEF ToDelete

\* The comment a desired marker has or adopts, its home, is one, it stays, and it is the home
\* of no other; what stays is the home of a desired marker.
LEMMA HomeIsOne ==
    ASSUME NEW E, Listing(E), NEW W, NEW adopt, Adopting(E, W, adopt)
    PROVE  /\ \A m \in ToSet(W) : \A i, j \in Homes(E, W, adopt, m) : i = j
           /\ \A m \in ToSet(W) : \A i \in Homes(E, W, adopt, m) :
                 i \in DOMAIN E /\ i \notin ToDelete(E, W, adopt)
           /\ \A m, n \in ToSet(W) : \A i \in Homes(E, W, adopt, m) \cap Homes(E, W, adopt, n) : m = n
           /\ \A i \in DOMAIN E \ ToDelete(E, W, adopt) : \E m \in ToSet(W) : i \in Homes(E, W, adopt, m)
<1>1. ASSUME NEW m \in ToSet(W), NEW i \in Homes(E, W, adopt, m)
      PROVE  \/ m \in Posted(E) /\ i = FirstComment(E, m) /\ m \in Claimed(E, W, adopt)
             \/ /\ m \notin Posted(E) /\ adopt[m] # NoMarker /\ i = FirstComment(E, adopt[m])
                /\ adopt[m] \in Claimed(E, W, adopt) /\ adopt[m] \notin ToSet(W)
  BY AdoptedOnce DEF Homes, Claimed
<1>2. ASSUME NEW m \in ToSet(W), NEW i \in Homes(E, W, adopt, m)
      PROVE  /\ i \in DOMAIN E /\ i \notin ToDelete(E, W, adopt)
             /\ E[i].marker = IF m \in Posted(E) THEN m ELSE adopt[m]
  BY <1>1, ClaimedStays
<1>3. ASSUME NEW m \in ToSet(W), NEW n \in ToSet(W), NEW i \in Homes(E, W, adopt, m),
             i \in Homes(E, W, adopt, n)
      PROVE  m = n
  <2>1. E[i].marker = (IF m \in Posted(E) THEN m ELSE adopt[m])
        /\ E[i].marker = (IF n \in Posted(E) THEN n ELSE adopt[n])
    BY <1>2, <1>3
  <2>2. CASE m \in Posted(E) /\ n \in Posted(E)
    BY <2>1, <2>2
  <2>3. CASE m \in Posted(E) /\ n \notin Posted(E)
    BY <1>1, <1>3, <2>1, <2>3
  <2>4. CASE m \notin Posted(E) /\ n \in Posted(E)
    BY <1>1, <1>3, <2>1, <2>4
  <2>5. CASE m \notin Posted(E) /\ n \notin Posted(E)
    BY <1>1, <1>3, <2>1, <2>5, AdoptedOnce
  <2> QED  BY <2>2, <2>3, <2>4, <2>5
<1>4. ASSUME NEW i \in DOMAIN E, i \notin ToDelete(E, W, adopt)
      PROVE  \E m \in ToSet(W) : i \in Homes(E, W, adopt, m)
  <2>1. E[i].marker \in Claimed(E, W, adopt) /\ i = FirstComment(E, E[i].marker)
    BY <1>4 DEF ToDelete
  <2>2. CASE E[i].marker \in ToSet(W) \cap Posted(E)
    BY <2>1, <2>2 DEF Homes
  <2>3. ASSUME NEW m \in ToSet(W), E[i].marker = adopt[m], adopt[m] # NoMarker
        PROVE  i \in Homes(E, W, adopt, m)
    <3>1. m \notin Posted(E)
      BY <2>3, AdoptedOnce
    <3> QED  BY <2>1, <2>3, <3>1 DEF Homes
  <2> QED  BY <2>1, <2>2, <2>3 DEF Claimed
<1>5. \A m \in ToSet(W) : \A i, j \in Homes(E, W, adopt, m) : i = j
  BY <1>1
<1> QED  BY <1>2, <1>3, <1>4, <1>5

\* A finding that had a thread, by its marker or a legacy one, keeps a comment of it.
LEMMA ThreadStays ==
    ASSUME NEW E, Listing(E), NEW W, NEW adopt, Adopting(E, W, adopt), NEW m \in ToSet(W)
    PROVE  LET own == Carrying(E, m)
               old == UNION {Carrying(E, l) : l \in ToSet(Legacy[m])}
               threads == IF own # {} THEN own ELSE old
           IN  threads # {} => \E i \in threads : i \in DOMAIN E /\ i \notin ToDelete(E, W, adopt)
<1>1. \A x \in Posted(E) : Carrying(E, x) # {}
  BY DEF Posted, Carrying
<1>2. \A x : \A i \in Carrying(E, x) : i \in DOMAIN E /\ E[i].marker = x /\ x \in Posted(E)
  BY DEF Posted, Carrying
<1>3. \A x \in Claimed(E, W, adopt) : /\ FirstComment(E, x) \in Carrying(E, x)
                                     /\ FirstComment(E, x) \in DOMAIN E
                                     /\ FirstComment(E, x) \notin ToDelete(E, W, adopt)
  BY ClaimedStays DEF Carrying
<1>4. CASE Carrying(E, m) # {}
  <2>1. m \in Claimed(E, W, adopt)
    BY <1>2, <1>4 DEF Claimed
  <2> QED  BY <1>3, <1>4, <2>1
<1>5. ASSUME Carrying(E, m) = {}, NEW l \in ToSet(Legacy[m]), Carrying(E, l) # {}
      PROVE  \E k \in ToSet(Legacy[m]) : k \in Claimed(E, W, adopt)
  <2>1. m \notin Posted(E) /\ l \in Posted(E)
    BY <1>1, <1>2, <1>5
  <2>2. CASE adopt[m] = NoMarker
    <3>1. l # NoMarker
      BY <2>1, CommentsAssumption DEF Listing, Posted
    <3>2. l \in ToSet(W) \/ \E n \in ToSet(W) : adopt[n] = l
      BY <2>1, <2>2, AdoptedOnce
    <3> QED  BY <2>1, <3>1, <3>2 DEF Claimed
  <2>3. CASE adopt[m] # NoMarker
    <3>1. adopt[m] \in ToSet(Legacy[m])
      <4>1. PICK i \in DOMAIN W : W[i] = m
        BY DEF ToSet
      <4>2. \E k \in Adoptable(E, W, adopt, i) : adopt[m] = Legacy[m][k]
        BY <2>3, <4>1 DEF Adopting, Adopts
      <4> QED  BY <4>1, <4>2 DEF Adoptable, ToSet
    <3> QED  BY <2>3, <3>1 DEF Claimed
  <2> QED  BY <2>2, <2>3
<1>6. ASSUME Carrying(E, m) = {}, NEW l \in ToSet(Legacy[m]), Carrying(E, l) # {}
      PROVE  \E i \in UNION {Carrying(E, k) : k \in ToSet(Legacy[m])} :
                i \in DOMAIN E /\ i \notin ToDelete(E, W, adopt)
  BY <1>3, <1>5, <1>6
<1> QED  BY <1>4, <1>6

\* Where the desired markers, but the new ones, are or will be shown in the comments C: each at
\* one place of its own, which no deletion is left for, and all that is not to be deleted is such
\* a place.
HomesAre(H, C, W, t, new, upd, rem) ==
    /\ H \in [ToSet(W) \ new -> DOMAIN C]
    /\ \A m, n \in ToSet(W) \ new : H[m] = H[n] => m = n
    /\ \A m \in ToSet(W) \ new :
          /\ H[m] \notin rem
          /\ \/ \E u \in upd : u.id = H[m] /\ u.marker = m
             \/ C[H[m]] = [marker |-> m, text |-> t[m]]
    /\ \A u \in upd : u.marker \in ToSet(W) \ new /\ u.id = H[u.marker]
    /\ \A i \in DOMAIN C : i \in rem \/ \E m \in ToSet(W) \ new : i = H[m]

\* A plan has them.
LEMMA PlanHasHomes ==
    ASSUME NEW E, Listing(E), NEW W, NEW t, NEW adopt, Adopting(E, W, adopt)
    PROVE  \E H : HomesAre(H, E, W, t, ToCreate(E, W, adopt), ToUpdate(E, W, t, adopt), ToDelete(E, W, adopt))
<1> DEFINE old == ToSet(W) \ ToCreate(E, W, adopt)
           At(m) == CHOOSE i : i \in Homes(E, W, adopt, m)
           H == [m \in old |-> At(m)]
<1>1. ASSUME NEW m \in old
      PROVE  /\ H[m] \in Homes(E, W, adopt, m) /\ H[m] \in DOMAIN E /\ H[m] \notin ToDelete(E, W, adopt)
             /\ \A i \in Homes(E, W, adopt, m) : i = H[m]
  <2>1. m \in ToSet(W) /\ Homes(E, W, adopt, m) # {}
    BY DEF ToCreate
  <2>2. At(m) \in Homes(E, W, adopt, m)
    BY <2>1
  <2> QED  BY <2>1, <2>2, HomeIsOne
<1> HIDE DEF At
<1>2. H \in [old -> DOMAIN E]
  BY <1>1
<1>3. \A m, n \in old : H[m] = H[n] => m = n
  <2> SUFFICES ASSUME NEW m \in old, NEW n \in old, H[m] = H[n] PROVE m = n
    OBVIOUS
  <2>1. H[m] \in Homes(E, W, adopt, m) \cap Homes(E, W, adopt, n) /\ m \in ToSet(W) /\ n \in ToSet(W)
    BY <1>1
  <2> HIDE DEF H
  <2> QED  BY <2>1, HomeIsOne
<1>4. \A m \in ToSet(W) : \A i \in Homes(E, W, adopt, m) : m \in old
  BY DEF ToCreate
<1> HIDE DEF H, old
<1>5. \A u \in ToUpdate(E, W, t, adopt) : u.marker \in old /\ u.id = H[u.marker]
  BY <1>1, <1>4 DEF ToUpdate
<1>6. ASSUME NEW m \in old
      PROVE  \/ \E u \in ToUpdate(E, W, t, adopt) : u.id = H[m] /\ u.marker = m
             \/ E[H[m]] = [marker |-> m, text |-> t[m]]
  <2>1. m \in ToSet(W)
    BY DEF old
  <2> DEFINE u == [id |-> H[m], marker |-> m]
  <2>2. u \in [id : DOMAIN E, marker : ToSet(W)] /\ u.id = H[m] /\ u.marker = m
    BY <1>1, <2>1
  <2> HIDE DEF u
  <2>3. CASE Outdated(E[H[m]], m, t)
    <3>1. u \in ToUpdate(E, W, t, adopt)
      BY <1>1, <2>2, <2>3 DEF ToUpdate
    <3> QED  BY <2>2, <3>1
  <2> QED  BY <2>3 DEF Outdated
<1>7. \A i \in DOMAIN E : i \in ToDelete(E, W, adopt) \/ \E m \in old : i = H[m]
  <2> SUFFICES ASSUME NEW i \in DOMAIN E, i \notin ToDelete(E, W, adopt) PROVE \E m \in old : i = H[m]
    OBVIOUS
  <2>1. PICK m \in ToSet(W) : i \in Homes(E, W, adopt, m)
    BY HomeIsOne
  <2> QED  BY <1>1, <1>4, <2>1
<1> QED  BY <1>1, <1>2, <1>3, <1>5, <1>6, <1>7 DEF HomesAre, old

\* The review that posts the new ones gives each of them a place.
LEMMA HomesAfterPost ==
    ASSUME NEW H, NEW C, NEW W, NEW t, NEW new, NEW upd, NEW rem,
           HomesAre(H, C, W, t, new, upd, rem), new \subseteq ToSet(W),
           NEW ids, ids \cap DOMAIN C = {}, ids \cap rem = {}, NEW b \in Bijection(ids, new),
           NEW D, DOMAIN D = DOMAIN C \cup ids,
           \A i \in ids : D[i] = [marker |-> b[i], text |-> t[b[i]]],
           \A i \in DOMAIN C : i \notin ids /\ D[i] = C[i]
    PROVE  \E G : HomesAre(G, D, W, t, {}, upd, rem)
<1>1. /\ b \in [ids -> new] /\ \A i, j \in ids : b[i] = b[j] => i = j
      /\ \A m \in new : \E i \in ids : b[i] = m
  BY DEF Bijection, Injection, Surjection, IsInjective
<1> DEFINE At(m) == CHOOSE i \in ids : b[i] = m
           G == [m \in ToSet(W) |-> IF m \in new THEN At(m) ELSE H[m]]
<1>2. \A m \in new : At(m) \in ids /\ b[At(m)] = m
  BY <1>1
<1> HIDE DEF At
<1>3. /\ \A m \in new : G[m] \in ids /\ b[G[m]] = m
      /\ \A m \in ToSet(W) \ new : G[m] = H[m] /\ G[m] \in DOMAIN C
  BY <1>2 DEF HomesAre
<1>4. G \in [ToSet(W) -> DOMAIN D]
  <2>1. DOMAIN D = DOMAIN C \cup ids
    OBVIOUS
  <2>2. \A m \in ToSet(W) : G[m] \in DOMAIN D
    <3> HIDE DEF G
    <3> QED  BY <1>3, <2>1
  <2>3. G = [m \in ToSet(W) |-> G[m]]
    OBVIOUS
  <2> HIDE DEF G
  <2> QED  BY <2>2, <2>3
<1> HIDE DEF G
<1>5. \A m, n \in ToSet(W) : G[m] = G[n] => m = n
  BY <1>3 DEF HomesAre
<1>6. \A i \in ids : D[i] = [marker |-> b[i], text |-> t[b[i]]]
  OBVIOUS
<1>7. \A i \in DOMAIN C : D[i] = C[i]
  OBVIOUS
<1>8. ASSUME NEW m \in ToSet(W)
      PROVE  /\ G[m] \notin rem
             /\ \/ \E u \in upd : u.id = G[m] /\ u.marker = m
                \/ D[G[m]] = [marker |-> m, text |-> t[m]]
  <2>1. CASE m \in new
    BY <1>3, <1>6, <2>1
  <2>2. CASE m \notin new
    <3>1. G[m] = H[m] /\ D[G[m]] = C[H[m]] /\ m \in ToSet(W) \ new
      BY <1>3, <1>7, <2>2
    <3> QED  BY <3>1 DEF HomesAre
  <2> QED  BY <2>1, <2>2
<1>9. \A u \in upd : u.marker \in ToSet(W) /\ u.id = G[u.marker]
  BY <1>3 DEF HomesAre
<1>10. ASSUME NEW i \in DOMAIN D PROVE i \in rem \/ \E m \in ToSet(W) : i = G[m]
  <2>1. CASE i \in ids
    <3>1. b[i] \in new /\ G[b[i]] \in ids /\ b[G[b[i]]] = b[i]
      BY <1>1, <1>3, <2>1
    <3> QED  BY <1>1, <2>1, <3>1
  <2>2. CASE i \in DOMAIN C
    BY <1>3, <2>2 DEF HomesAre
  <2> QED  BY <2>1, <2>2
<1>11. ToSet(W) \ {} = ToSet(W)
  OBVIOUS
<1> HIDE DEF HomesAre
<1>12. HomesAre(G, D, W, t, {}, upd, rem) <=>
          /\ G \in [ToSet(W) -> DOMAIN D]
          /\ \A m, n \in ToSet(W) : G[m] = G[n] => m = n
          /\ \A m \in ToSet(W) :
                /\ G[m] \notin rem
                /\ \/ \E u \in upd : u.id = G[m] /\ u.marker = m
                   \/ D[G[m]] = [marker |-> m, text |-> t[m]]
          /\ \A u \in upd : u.marker \in ToSet(W) /\ u.id = G[u.marker]
          /\ \A i \in DOMAIN D : i \in rem \/ \E m \in ToSet(W) : i = G[m]
  BY ONLY <1>11 DEF HomesAre
<1> QED  BY <1>4, <1>5, <1>8, <1>9, <1>10, <1>12

\* An update and a deletion keep them.
LEMMA HomesAfterPatch ==
    ASSUME NEW H, NEW C, NEW W, NEW t, NEW new, NEW upd, NEW rem,
           HomesAre(H, C, W, t, new, upd, rem), NEW u \in upd,
           NEW D, D = [C EXCEPT ![u.id] = [marker |-> u.marker, text |-> t[u.marker]]]
    PROVE  HomesAre(H, D, W, t, new, upd \ {u}, rem)
<1>1. u.marker \in ToSet(W) \ new /\ u.id = H[u.marker] /\ u.id \in DOMAIN C
  BY DEF HomesAre
<1>2. DOMAIN D = DOMAIN C /\ D[u.id] = [marker |-> u.marker, text |-> t[u.marker]]
      /\ \A i \in DOMAIN C : i # u.id => D[i] = C[i]
  BY <1>1
<1>3. ASSUME NEW m \in ToSet(W) \ new
      PROVE  \/ \E v \in upd \ {u} : v.id = H[m] /\ v.marker = m
             \/ D[H[m]] = [marker |-> m, text |-> t[m]]
  <2>1. CASE m = u.marker
    BY <1>1, <1>2, <2>1
  <2>2. CASE m # u.marker
    <3>1. H[m] # u.id /\ H[m] \in DOMAIN C
      BY <1>1, <2>2 DEF HomesAre
    <3> QED  BY <1>2, <2>2, <3>1, ZenonT(60) DEF HomesAre
  <2> QED  BY <2>1, <2>2
<1> QED  BY <1>2, <1>3 DEF HomesAre

LEMMA HomesAfterDelete ==
    ASSUME NEW H, NEW C, NEW W, NEW t, NEW new, NEW upd, NEW rem,
           HomesAre(H, C, W, t, new, upd, rem), NEW i \in rem,
           NEW D, D = [j \in DOMAIN C \ {i} |-> C[j]]
    PROVE  HomesAre(H, D, W, t, new, upd, rem \ {i})
<1>1. DOMAIN D = DOMAIN C \ {i} /\ \A j \in DOMAIN C \ {i} : D[j] = C[j]
  OBVIOUS
<1>2. ASSUME NEW m \in ToSet(W) \ new PROVE H[m] # i /\ H[m] \in DOMAIN D /\ D[H[m]] = C[H[m]]
  <2>1. H[m] \in DOMAIN C /\ H[m] \notin rem
    BY DEF HomesAre
  <2> QED  BY <1>1, <2>1
<1>3. H \in [ToSet(W) \ new -> DOMAIN D]
  BY <1>2 DEF HomesAre
<1> QED  BY <1>1, <1>2, <1>3 DEF HomesAre

\* With nothing left to do, the comments are those of the findings.
LEMMA HomesExact ==
    ASSUME NEW H, NEW C, NEW W, NEW t, HomesAre(H, C, W, t, {}, {}, {})
    PROVE  Exact(C, W, t)
<1>1. /\ \A m \in ToSet(W) : H[m] \in DOMAIN C /\ C[H[m]] = [marker |-> m, text |-> t[m]]
      /\ \A i \in DOMAIN C : \E m \in ToSet(W) : i = H[m]
  BY DEF HomesAre
<1>2. ASSUME NEW m \in ToSet(W) PROVE C[H[m]].marker = m
  <2>1. C[H[m]] = [marker |-> m, text |-> t[m]]
    BY <1>1
  <2> QED  BY ONLY <2>1
<1>3. \A i \in DOMAIN C : C[i].marker \in ToSet(W) /\ i = H[C[i].marker]
  BY <1>1, <1>2
<1> QED  BY <1>1, <1>3 DEF Exact

\* And where they are those already, a plan has nothing to do.
LEMMA ExactNeedsNothing ==
    ASSUME NEW E, Listing(E), NEW W, NEW t, NEW adopt, Adopting(E, W, adopt), Exact(E, W, t)
    PROVE  /\ ToCreate(E, W, adopt) = {} /\ ToUpdate(E, W, t, adopt) = {}
           /\ ToDelete(E, W, adopt) = {}
<1>1. \A m \in ToSet(W) : m \in Posted(E)
  BY DEF Exact, Posted
<1>2. ASSUME NEW m \in ToSet(W) PROVE E[FirstComment(E, m)] = [marker |-> m, text |-> t[m]]
  <2>1. PICK i \in DOMAIN E : E[i] = [marker |-> m, text |-> t[m]]
    BY DEF Exact
  <2>2. FirstComment(E, m) \in DOMAIN E /\ E[FirstComment(E, m)].marker = m
    BY <1>1, FirstIsPosted
  <2>3. FirstComment(E, m) = i
    BY <2>1, <2>2 DEF Exact
  <2> QED  BY <2>1, <2>3
<1>3. ToCreate(E, W, adopt) = {}
  BY <1>1 DEF ToCreate, Homes
<1>4. ToUpdate(E, W, t, adopt) = {}
  BY <1>1, <1>2 DEF ToUpdate, Homes, Outdated
<1>5. ASSUME NEW i \in DOMAIN E PROVE i \notin ToDelete(E, W, adopt)
  <2>1. E[i].marker \in ToSet(W) \cap Posted(E)
    BY <1>1 DEF Exact
  <2>2. FirstComment(E, E[i].marker) \in DOMAIN E
        /\ E[FirstComment(E, E[i].marker)].marker = E[i].marker
    BY <2>1, FirstIsPosted
  <2>3. i = FirstComment(E, E[i].marker)
    BY <2>2 DEF Exact
  <2> QED  BY <2>1, <2>3 DEF ToDelete, Claimed
<1> QED  BY <1>3, <1>4, <1>5 DEF ToDelete

------------------------------------------------------------------------------
(* ActionComments: what holds of the comments and of each run.             *)

CommentTypes ==
    /\ lastId \in Nat /\ Listing(comments) /\ DOMAIN comments \subseteq 1..lastId
    /\ DOMAIN summaries \subseteq 1..lastId
    /\ pc \in [Runs -> {"idle", "create", "edit", "denied", "summary", "done", "crashed"}]
    /\ failures \in [Runs -> Nat] /\ undisturbed \in [Runs -> BOOLEAN]
    /\ DOMAIN want = Runs /\ DOMAIN text = Runs /\ DOMAIN create = Runs /\ DOMAIN update = Runs
    /\ DOMAIN remove = Runs /\ DOMAIN found = Runs /\ DOMAIN listed = Runs

\* What is left to do is of a plan for what was listed, and while no other run writes, what the
\* plan does not delete is there.
PlanOf(r, adopt) ==
    /\ Adopting(listed[r], want[r], adopt)
    /\ text[r] \in [ToSet(want[r]) -> Texts]
    /\ create[r] \subseteq ToCreate(listed[r], want[r], adopt)
    /\ update[r] \subseteq ToUpdate(listed[r], want[r], text[r], adopt)
    /\ remove[r] \subseteq ToDelete(listed[r], want[r], adopt)
    /\ undisturbed[r] => DOMAIN listed[r] \ ToDelete(listed[r], want[r], adopt) \subseteq DOMAIN comments
PlanKept(r) ==
    pc[r] # "idle" => /\ Listing(listed[r]) /\ DOMAIN listed[r] \subseteq 1..lastId
                      /\ \E adopt : PlanOf(r, adopt)

\* What a run is about to do, by its place.
Phases(r) ==
    /\ undisturbed[r] => pc[r] # "idle"
    /\ pc[r] \in {"create", "denied"} => create[r] # {}
    /\ pc[r] = "edit" => create[r] = {}
    /\ pc[r] \in {"summary", "done"} /\ create[r] = {} => update[r] = {} /\ remove[r] = {}

\* While no other run writes and no request fails, the findings have their places.
HomesKept(r) ==
    undisturbed[r] /\ failures[r] = 0 =>
        \E H : HomesAre(H, comments, want[r], text[r], create[r], update[r], remove[r])

RunKept(r) == PlanKept(r) /\ Phases(r) /\ HomesKept(r)

\* The older markers; what is posted with another one is posted once, unless two runs were
\* active at once.
LegacyMarkers == UNION {ToSet(Legacy[m]) : m \in Markers}
PostedOnce(C) ==
    \A i, j \in DOMAIN C : C[i].marker = C[j].marker /\ C[i].marker \notin LegacyMarkers => i = j
\* The update u is the only one to post its marker.
OnlyHere(C, u) ==
    u.marker \notin LegacyMarkers => \A i \in DOMAIN C : C[i].marker = u.marker => i = u.id
Serial ==
    ~overlapped =>
        /\ \A q, r \in Runs : Active(q) /\ Active(r) => q = r
        /\ PostedOnce(comments)
        /\ \A i, j \in DOMAIN summaries : i = j
        /\ \A r \in Runs : pc[r] = "create" => create[r] \cap Posted(comments) = {}
        /\ \A r \in Runs : pc[r] \in {"create", "edit"} => \A u \in update[r] : OnlyHere(comments, u)
        /\ \A r \in Runs : pc[r] = "summary" =>
              IF found[r] = 0 THEN DOMAIN summaries = {} ELSE found[r] \in DOMAIN summaries

CommentsInv == CommentTypes /\ (\A r \in Runs : RunKept(r)) /\ Serial

\* A run is as before as far as its plan goes, if no other one wrote.
LEMMA RunUndisturbed ==
    ASSUME NEW q \in Runs, RunKept(q), lastId \in Nat, lastId' \in Nat, lastId <= lastId',
           UNCHANGED <<want[q], text[q], create[q], update[q], remove[q], listed[q]>>,
           comments' = comments \/ ~undisturbed'[q], undisturbed'[q] => undisturbed[q],
           failures'[q] = 0 => failures[q] = 0, pc'[q] # "idle" => pc[q] # "idle", Phases(q)'
    PROVE  RunKept(q)'
<1>1. ASSUME NEW adopt, PlanOf(q, adopt) PROVE PlanOf(q, adopt)'
  BY <1>1 DEF PlanOf
<1>2. PlanKept(q)'
  BY <1>1 DEF RunKept, PlanKept
<1>3. HomesKept(q)'
  BY DEF RunKept, HomesKept
<1> QED  BY <1>2, <1>3 DEF RunKept

\* What run r leaves of the others.
SameRun(q) == UNCHANGED <<pc[q], want[q], text[q], create[q], update[q], remove[q], failures[q], listed[q]>>
LEMMA OthersKept ==
    ASSUME CommentsInv, lastId' \in Nat, lastId <= lastId', NEW q \in Runs, SameRun(q),
           comments' = comments \/ ~undisturbed'[q], undisturbed'[q] => undisturbed[q]
    PROVE  RunKept(q)'
<1>1. Phases(q)'
  BY DEF CommentsInv, RunKept, Phases, SameRun
<1> QED  BY <1>1, RunUndisturbed DEF CommentsInv, CommentTypes, SameRun

\* The plan of a run that lists the comments.
LEMMA PlanRunInv ==
    ASSUME CommentsInv, NEW r \in Runs, Plan(r)
    PROVE  CommentsInv'
<1> USE DEF CommentsInv
<1> DEFINE Written(W, t, adopt) ==
        /\ Adopts(comments, W, adopt)
        /\ want' = [want EXCEPT ![r] = W] /\ text' = [text EXCEPT ![r] = t]
        /\ create' = [create EXCEPT ![r] = ToCreate(comments, W, adopt)]
        /\ update' = [update EXCEPT ![r] = ToUpdate(comments, W, t, adopt)]
        /\ remove' = [remove EXCEPT ![r] = ToDelete(comments, W, adopt)]
        /\ pc' = [pc EXCEPT ![r] = IF create'[r] = {} THEN "edit" ELSE "create"]
<1>0. PICK W \in Wants : \E t \in [ToSet(W) -> Texts] :
        \E adopt \in [ToSet(W) -> Posted(comments) \cup {NoMarker}] : Written(W, t, adopt)
  BY DEF Plan
<1>a. PICK t \in [ToSet(W) -> Texts] :
        \E adopt \in [ToSet(W) -> Posted(comments) \cup {NoMarker}] : Written(W, t, adopt)
  BY <1>0
<1>1. PICK adopt \in [ToSet(W) -> Posted(comments) \cup {NoMarker}] : Written(W, t, adopt)
  BY <1>a
<1>2. /\ pc[r] = "idle" /\ listed' = [listed EXCEPT ![r] = comments]
      /\ undisturbed' = [undisturbed EXCEPT ![r] = TRUE]
      /\ overlapped' = (overlapped \/ \E q \in Runs : Active(q))
      /\ UNCHANGED <<comments, summaries, lastId, found, failures>>
  BY DEF Plan, shared
<1>3. CommentTypes /\ Serial /\ Listing(comments)
  BY DEF CommentTypes
<1>4. /\ want'[r] = W /\ text'[r] = t /\ create'[r] = ToCreate(comments, W, adopt)
      /\ update'[r] = ToUpdate(comments, W, t, adopt) /\ remove'[r] = ToDelete(comments, W, adopt)
      /\ listed'[r] = comments /\ undisturbed'[r] = TRUE
      /\ pc'[r] = IF ToCreate(comments, W, adopt) = {} THEN "edit" ELSE "create"
  BY <1>1, <1>2, <1>3 DEF CommentTypes
<1>5. \A q \in Runs \ {r} : SameRun(q) /\ undisturbed'[q] = undisturbed[q]
  BY <1>1, <1>2, <1>3 DEF CommentTypes, SameRun
<1>6. Adopting(comments, W, adopt)
  BY <1>1 DEF Adopting
<1>7. CommentTypes'
  BY <1>1, <1>2, <1>3 DEF CommentTypes
<1>8. RunKept(r)'
  <2>1. PlanOf(r, adopt)'
    BY <1>1, <1>2, <1>4, <1>6 DEF PlanOf
  <2>2. PlanKept(r)'
    BY <1>2, <1>3, <1>4, <2>1 DEF PlanKept, CommentTypes
  <2>3. Phases(r)'
    BY <1>4 DEF Phases
  <2>4. HomesKept(r)'
    BY <1>2, <1>3, <1>4, <1>6, PlanHasHomes DEF HomesKept
  <2> QED  BY <2>2, <2>3, <2>4 DEF RunKept
<1>9. ASSUME NEW q \in Runs, q # r PROVE RunKept(q)'
  BY <1>2, <1>3, <1>5, <1>9, OthersKept DEF CommentTypes
<1>10. Serial'
  <2> SUFFICES ASSUME ~overlapped' PROVE Serial'
    BY DEF Serial
  <2>1. ~overlapped /\ \A q \in Runs : ~Active(q)
    BY <1>2
  <2>2. \A q \in Runs : pc'[q] \in {"create", "edit", "summary"} => q = r
    BY <1>5, <2>1 DEF Active, SameRun
  <2>3. \A q \in Runs : Active(q)' => q = r
    BY <1>5, <2>1 DEF Active, SameRun
  <2>4. PostedOnce(comments)
    BY <1>3, <2>1 DEF Serial
  <2>5. create'[r] \cap Posted(comments) = {}
    BY <1>4 DEF ToCreate, Homes
  <2>6. ASSUME NEW u \in update'[r] PROVE OnlyHere(comments, u)
    <3>1. u \in ToUpdate(comments, W, t, adopt)
      BY <1>4
    <3>2. u.marker \in ToSet(W) /\ u.id \in Homes(comments, W, adopt, u.marker)
      BY <3>1 DEF ToUpdate
    <3>3. ASSUME u.marker \notin LegacyMarkers, NEW i \in DOMAIN comments, comments[i].marker = u.marker
          PROVE  i = u.id
      <4>1. u.marker \in Posted(comments)
        BY <3>3 DEF Posted
      <4>2. u.id \in DOMAIN comments /\ comments[u.id].marker = u.marker
        BY <1>3, <3>2, <4>1, FirstIsPosted DEF Homes
      <4> QED  BY <2>4, <3>3, <4>2 DEF PostedOnce
    <3> QED  BY <3>3 DEF OnlyHere
  <2>7. pc'[r] # "summary"
    BY <1>4
  <2>8. \A i, j \in DOMAIN summaries' : i = j
    BY <1>2, <1>3, <2>1 DEF Serial
  <2>9. PostedOnce(comments')
    BY <1>2, <2>4
  <2>10. \A q \in Runs : pc'[q] = "create" => create'[q] \cap Posted(comments') = {}
    BY <1>2, <2>2, <2>5
  <2>11. \A q \in Runs : pc'[q] \in {"create", "edit"} => \A u \in update'[q] : OnlyHere(comments', u)
    BY <1>2, <2>2, <2>6
  <2>12. \A q, p \in Runs : Active(q)' /\ Active(p)' => q = p
    BY <2>3
  <2> QED  BY <2>2, <2>7, <2>8, <2>9, <2>10, <2>11, <2>12 DEF Serial
<1> QED  BY <1>7, <1>8, <1>9, <1>10

\* While no two runs are active, the others do nothing.
LEMMA Alone ==
    ASSUME Serial, ~overlapped, NEW r \in Runs, Active(r), NEW q \in Runs, q # r
    PROVE  pc[q] \in {"idle", "done", "crashed"}
BY DEF Serial, Active

\* Where run r writes no inline comment and posts no summary, it is enough that its own plan
\* and its summary hold.
LEMMA SerialKept ==
    ASSUME Serial, NEW r \in Runs, Active(r), \A q \in Runs \ {r} : pc'[q] = pc[q],
           UNCHANGED <<comments, summaries, overlapped>>,
           pc'[r] = "create" => create'[r] \cap Posted(comments) = {},
           pc'[r] \in {"create", "edit"} => \A u \in update'[r] : OnlyHere(comments, u),
           pc'[r] = "summary" =>
              IF found'[r] = 0 THEN DOMAIN summaries = {} ELSE found'[r] \in DOMAIN summaries
    PROVE  Serial'
<1> SUFFICES ASSUME ~overlapped' PROVE Serial'
  BY DEF Serial
<1>1. ~overlapped
  OBVIOUS
<1>2. \A q \in Runs \ {r} : pc'[q] \in {"idle", "done", "crashed"}
  BY <1>1, Alone
<1>3. \A q, p \in Runs : Active(q)' /\ Active(p)' => q = p
  BY <1>2 DEF Active
<1>4. PostedOnce(comments') /\ \A i, j \in DOMAIN summaries' : i = j
  BY <1>1 DEF Serial
<1>5. \A q \in Runs : pc'[q] = "create" => create'[q] \cap Posted(comments') = {}
  BY <1>2
<1>6. \A q \in Runs : pc'[q] \in {"create", "edit"} => \A u \in update'[q] : OnlyHere(comments', u)
  BY <1>1, <1>2
<1>7. \A q \in Runs : pc'[q] = "summary" =>
         IF found'[q] = 0 THEN DOMAIN summaries' = {} ELSE found'[q] \in DOMAIN summaries'
  BY <1>1, <1>2
<1> QED  BY <1>3, <1>4, <1>5, <1>6, <1>7 DEF Serial

\* The plan of a run that did a part of it.
LEMMA PlanShrinks ==
    ASSUME NEW r \in Runs, NEW adopt, PlanOf(r, adopt), UNCHANGED <<want[r], text[r], listed[r]>>,
           create'[r] \subseteq create[r], update'[r] \subseteq update[r], remove'[r] \subseteq remove[r],
           undisturbed'[r] => undisturbed[r],
           undisturbed[r] => DOMAIN listed[r] \ ToDelete(listed[r], want[r], adopt) \subseteq DOMAIN comments'
    PROVE  PlanOf(r, adopt)'
BY DEF PlanOf

\* The steps of a run that write no inline comment and leave its plan.
LEMMA QuietInv ==
    ASSUME CommentsInv, NEW r \in Runs,
           Denied(r) \/ ListSummaries(r) \/ UpsertSummary(r) \/ CrashRun(r), UNCHANGED overlapped
    PROVE  CommentsInv'
<1> USE DEF CommentsInv
<1>1. /\ UNCHANGED <<comments, want, text, create, update, remove, listed, undisturbed>>
      /\ pc[r] # "idle" /\ Active(r)
      /\ \E x \in {"denied", "summary", "done", "crashed"} : pc' = [pc EXCEPT ![r] = x]
  BY DEF Denied, ListSummaries, UpsertSummary, CrashRun, shared, Active, EditsDone
<1>2. CommentTypes /\ Serial /\ lastId \in Nat
  BY DEF CommentTypes
<1>3. \A q \in Runs : q # r => pc'[q] = pc[q]
  BY <1>1, <1>2 DEF CommentTypes
<1>4. /\ lastId' \in Nat /\ lastId <= lastId' /\ DOMAIN summaries' \subseteq 1..lastId'
      /\ DOMAIN found' = Runs
      /\ failures' \in [Runs -> Nat] /\ \A q \in Runs : failures'[q] = 0 => failures[q] = 0
      /\ \A q \in Runs \ {r} : failures'[q] = failures[q]
  <2>1. CASE Denied(r) \/ CrashRun(r)
    BY <1>2, <2>1 DEF Denied, CrashRun, shared, CommentTypes
  <2>2. CASE ListSummaries(r)
    BY <1>2, <2>2 DEF ListSummaries, shared, CommentTypes
  <2>3. CASE UpsertSummary(r)
    <3>1. /\ failures' \in [Runs -> Nat] /\ \A q \in Runs : failures'[q] = 0 => failures[q] = 0
          /\ \A q \in Runs \ {r} : failures'[q] = failures[q]
      BY <1>2, <2>3 DEF UpsertSummary, FailedRequest, CommentTypes
    <3>2. lastId' \in Nat /\ lastId <= lastId' /\ DOMAIN summaries' \subseteq 1..lastId' /\ found' = found
      BY <1>2, <2>3 DEF UpsertSummary, CommentTypes
    <3> QED  BY <1>2, <3>1, <3>2 DEF CommentTypes
  <2> QED  BY <2>1, <2>2, <2>3
<1>5. CommentTypes'
  <2>1. DOMAIN comments \subseteq 1..lastId'
    BY <1>2, <1>4 DEF CommentTypes
  <2> QED  BY <1>1, <1>2, <1>4, <2>1 DEF CommentTypes
<1>6. RunKept(r)'
  <2>1. Phases(r)
    BY DEF RunKept
  <2>2. Phases(r)'
    <3>1. CASE Denied(r)
      <4>1. pc[r] = "create" /\ pc'[r] = "denied"
        BY <1>2, <3>1 DEF Denied, CommentTypes
      <4> QED  BY <1>1, <2>1, <4>1 DEF Phases
    <3>2. CASE ListSummaries(r)
      <4>1. pc'[r] = "summary" /\ (EditsDone(r) \/ pc[r] = "denied")
        BY <1>2, <3>2 DEF ListSummaries, CommentTypes
      <4> QED  BY <1>1, <2>1, <4>1 DEF Phases, EditsDone
    <3>3. CASE UpsertSummary(r)
      <4>1. pc[r] = "summary" /\ pc'[r] = "done"
        BY <1>2, <3>3 DEF UpsertSummary, CommentTypes
      <4> QED  BY <1>1, <2>1, <4>1 DEF Phases
    <3>4. CASE CrashRun(r)
      <4>1. pc'[r] = "crashed"
        BY <1>2, <3>4 DEF CrashRun, CommentTypes
      <4> QED  BY <1>1, <2>1, <4>1 DEF Phases
    <3> QED  BY <3>1, <3>2, <3>3, <3>4
  <2> QED  BY <1>1, <1>2, <1>4, <2>2, RunUndisturbed
<1>7. ASSUME NEW q \in Runs, q # r PROVE RunKept(q)'
  <2>1. SameRun(q)
    BY <1>1, <1>3, <1>4, <1>7 DEF SameRun
  <2> QED  BY <1>1, <1>2, <1>4, <2>1, OthersKept
<1>8. Serial'
  <2>1. CASE Denied(r) \/ CrashRun(r)
    <3>1. pc'[r] \in {"denied", "crashed"} /\ UNCHANGED summaries
      BY <1>2, <2>1 DEF Denied, CrashRun, shared, CommentTypes
    <3> QED  BY <1>1, <1>2, <1>3, <3>1, SerialKept
  <2>2. CASE ListSummaries(r)
    <3>1. pc'[r] = "summary" /\ UNCHANGED summaries /\ found'[r] = SummaryFound
      BY <1>2, <2>2 DEF ListSummaries, shared, CommentTypes
    <3>2. ASSUME ~overlapped
          PROVE  IF found'[r] = 0 THEN DOMAIN summaries = {} ELSE found'[r] \in DOMAIN summaries
      <4>1. CASE DOMAIN summaries = {}
        BY <3>1, <4>1 DEF SummaryFound
      <4>2. CASE DOMAIN summaries # {}
        <5>1. \E i \in DOMAIN summaries : \A j \in DOMAIN summaries : i <= j
          <6>1. DOMAIN summaries \subseteq Nat
            BY <1>2 DEF CommentTypes
          <6> QED  BY <4>2, <6>1, LeastOfSome
        <5>2. SummaryFound \in DOMAIN summaries
          BY <4>2, <5>1 DEF SummaryFound
        <5>3. SummaryFound # 0
          BY <1>2, <5>2 DEF CommentTypes
        <5> QED  BY <3>1, <5>2, <5>3
      <4> QED  BY <4>1, <4>2
    <3> QED
      <4>1. CASE overlapped
        BY <4>1 DEF Serial
      <4>2. CASE ~overlapped
        BY <1>1, <1>2, <1>3, <3>1, <3>2, <4>2, SerialKept
      <4> QED  BY <4>1, <4>2
  <2>3. CASE UpsertSummary(r)
    <3> SUFFICES ASSUME ~overlapped' PROVE Serial'
      BY DEF Serial
    <3>1. ~overlapped /\ pc[r] = "summary" /\ pc'[r] = "done"
      BY <1>2, <2>3 DEF UpsertSummary, CommentTypes
    <3>2. \A q \in Runs : pc'[q] \in {"idle", "done", "crashed"}
      BY <1>1, <1>2, <1>3, <3>1, Alone
    <3>3. \A i, j \in DOMAIN summaries' : i = j
      <4>1. (\A i, j \in DOMAIN summaries : i = j) /\ (found[r] = 0 => DOMAIN summaries = {})
        BY <1>2, <3>1 DEF Serial
      <4> QED  BY <2>3, <4>1 DEF UpsertSummary
    <3>4. PostedOnce(comments')
      BY <1>1, <1>2, <3>1 DEF Serial
    <3> QED  BY <3>2, <3>3, <3>4 DEF Serial, Active
  <2> QED  BY <2>1, <2>2, <2>3
<1> QED  BY <1>5, <1>6, <1>7, <1>8

\* The review that posts the new findings, each under an id of its own.
LEMMA PostInv ==
    ASSUME CommentsInv, NEW r \in Runs, PostReview(r), UNCHANGED overlapped
    PROVE  CommentsInv'
<1> USE DEF CommentsInv
<1> DEFINE new == create[r]
           ids == (lastId + 1)..(lastId + Cardinality(new))
           Wrote(b) == comments' = [i \in DOMAIN comments \cup ids |->
                          IF i \in ids THEN [marker |-> b[i], text |-> text[r][b[i]]] ELSE comments[i]]
<1>1. PICK b \in Bijection(ids, new) : Wrote(b)
  BY DEF PostReview, WriteComments
<1>2. /\ pc[r] = "create" /\ Active(r) /\ lastId' = lastId + Cardinality(new)
      /\ create' = [create EXCEPT ![r] = {}] /\ pc' = [pc EXCEPT ![r] = "edit"]
      /\ undisturbed' = [q \in Runs |-> undisturbed[q] /\ q = r]
      /\ UNCHANGED <<summaries, want, text, update, remove, found, failures, listed>>
  BY DEF PostReview, WriteComments, Active
<1>3. CommentTypes /\ Serial /\ lastId \in Nat /\ Listing(comments) /\ RunKept(r)
  BY DEF CommentTypes
<1>4. PICK adopt : PlanOf(r, adopt)
  BY <1>2, <1>3 DEF RunKept, PlanKept
<1>5. new \subseteq ToSet(want[r]) /\ IsFiniteSet(new) /\ Cardinality(new) \in Nat
  <2>1. new \subseteq ToSet(want[r]) /\ want[r] \in Seq(Markers)
    BY <1>4, CommentsAssumption DEF PlanOf, ToCreate, Adopting
  <2>2. IsFiniteSet(ToSet(want[r]))
    <3>1. want[r] \in [1..Len(want[r]) -> Markers] /\ Len(want[r]) \in Nat /\ DOMAIN want[r] = 1..Len(want[r])
      BY <2>1, LenProperties
    <3>2. want[r] \in Surjection(1..Len(want[r]), ToSet(want[r]))
      BY <3>1 DEF Surjection, ToSet
    <3> QED  BY <3>1, <3>2, FS_Surjection, FS_Interval
  <2> QED  BY <2>1, <2>2, FS_Subset, FS_CardinalityType
<1> DEFINE n == Cardinality(new)
<1> HIDE DEF n
<1>6. lastId' = lastId + n /\ n \in Nat /\ ids = (lastId + 1)..(lastId + n)
  BY <1>2, <1>5 DEF n
<1>7. /\ lastId' \in Nat /\ lastId <= lastId' /\ ids \subseteq 1..lastId'
      /\ \A i \in 1..lastId : i \notin ids /\ i \in 1..lastId'
  <2> HIDE DEF ids
  <2> QED  BY <1>3, <1>6
<1>8. /\ b \in [ids -> new] /\ \A i, j \in ids : b[i] = b[j] => i = j
  BY <1>1 DEF Bijection, Injection, IsInjective
<1> HIDE DEF ids
<1>9. /\ DOMAIN comments' = DOMAIN comments \cup ids
      /\ \A i \in ids : comments'[i] = [marker |-> b[i], text |-> text[r][b[i]]]
      /\ \A i \in DOMAIN comments : i \notin ids /\ comments'[i] = comments[i]
  <2>1. \A i \in DOMAIN comments : i \notin ids
    BY <1>3, <1>7 DEF CommentTypes
  <2> QED  BY <1>1, <2>1
<1>10. \A i \in ids : comments'[i] \in [marker : Markers, text : Texts] /\ comments'[i].marker = b[i]
  <2> SUFFICES ASSUME NEW i \in ids
      PROVE  comments'[i] \in [marker : Markers, text : Texts] /\ comments'[i].marker = b[i]
    OBVIOUS
  <2>1. b[i] \in ToSet(want[r])
    BY <1>5, <1>8
  <2>2. b[i] \in Markers
    <3>1. \A m \in ToSet(want[r]) : m \in Markers
      BY <1>4, CommentsAssumption, ElementOfSeq, LenProperties DEF PlanOf, Adopting, ToSet
    <3> QED  BY <2>1, <3>1
  <2>3. text[r][b[i]] \in Texts
    BY <1>4, <2>1 DEF PlanOf
  <2>4. comments'[i] = [marker |-> b[i], text |-> text[r][b[i]]]
    BY <1>9
  <2> QED  BY ONLY <2>2, <2>3, <2>4
<1>11. Listing(comments')
  BY <1>3, <1>7, <1>9, <1>10 DEF Listing
<1>12. CommentTypes'
  <2>1. DOMAIN comments' \subseteq 1..lastId' /\ DOMAIN summaries' \subseteq 1..lastId'
    BY <1>2, <1>3, <1>7, <1>9 DEF CommentTypes
  <2>2. undisturbed' \in [Runs -> BOOLEAN]
    BY <1>2, Zenon
  <2> QED  BY <1>2, <1>3, <1>7, <1>11, <2>1, <2>2 DEF CommentTypes
<1>13. /\ create'[r] = {} /\ pc'[r] = "edit" /\ (undisturbed'[r] <=> undisturbed[r])
       /\ \A q \in Runs \ {r} : ~undisturbed'[q] /\ SameRun(q) /\ pc'[q] = pc[q]
  BY <1>2, <1>3 DEF CommentTypes, SameRun
<1>14. RunKept(r)'
  <2>1. PlanOf(r, adopt)'
    <3>1. undisturbed[r] => DOMAIN listed[r] \ ToDelete(listed[r], want[r], adopt) \subseteq DOMAIN comments'
      BY <1>4, <1>9 DEF PlanOf
    <3> QED  BY <1>2, <1>4, <1>13, <3>1, PlanShrinks
  <2>2. Listing(listed[r]) /\ DOMAIN listed[r] \subseteq 1..lastId
    BY <1>2, <1>3 DEF RunKept, PlanKept
  <2>3. PlanKept(r)'
    BY <1>2, <1>7, <2>1, <2>2 DEF PlanKept
  <2>4. Phases(r)'
    BY <1>13 DEF Phases
  <2>5. HomesKept(r)'
    <3> SUFFICES ASSUME undisturbed[r], failures[r] = 0
        PROVE  \E G : HomesAre(G, comments', want[r], text[r], {}, update[r], remove[r])
      BY <1>2, <1>13 DEF HomesKept
    <3>1. PICK H : HomesAre(H, comments, want[r], text[r], new, update[r], remove[r])
      BY <1>3 DEF RunKept, HomesKept
    <3>2. ids \cap DOMAIN comments = {}
      BY <1>9
    <3>3. ids \cap remove[r] = {}
      BY <1>4, <1>7, <2>2 DEF PlanOf, ToDelete
    <3>4. new \subseteq ToSet(want[r]) /\ b \in Bijection(ids, new)
      BY <1>1, <1>5
    <3> HIDE DEF new
    <3> QED  BY ONLY <1>9, <3>1, <3>2, <3>3, <3>4, HomesAfterPost, SMTT(30)
  <2> QED  BY <2>3, <2>4, <2>5 DEF RunKept
<1>15. ASSUME NEW q \in Runs, q # r PROVE RunKept(q)'
  BY <1>3, <1>7, <1>13, <1>15, OthersKept
<1>16. Serial'
  <2> SUFFICES ASSUME ~overlapped' PROVE Serial'
    BY DEF Serial
  <2>1. ~overlapped
    OBVIOUS
  <2>2. \A q \in Runs \ {r} : pc'[q] \in {"idle", "done", "crashed"}
    BY <1>2, <1>3, <1>13, <2>1, Alone
  <2>3. \A q, p \in Runs : Active(q)' /\ Active(p)' => q = p
    BY <2>2 DEF Active
  <2>4. PostedOnce(comments')
    <3> SUFFICES ASSUME NEW i \in DOMAIN comments', NEW j \in DOMAIN comments',
                        comments'[i].marker = comments'[j].marker,
                        comments'[i].marker \notin LegacyMarkers
        PROVE  i = j
      BY DEF PostedOnce
    <3>1. new \cap Posted(comments) = {} /\ PostedOnce(comments)
      BY <1>2, <1>3, <2>1 DEF Serial
    <3>2. \A k \in DOMAIN comments : comments[k].marker \notin new
      BY <3>1 DEF Posted
    <3>3. CASE i \in ids /\ j \in ids
      BY <1>8, <1>10, <3>3
    <3>4. CASE i \in DOMAIN comments /\ j \in DOMAIN comments
      BY <1>9, <3>1, <3>4 DEF PostedOnce
    <3>5. CASE i \in DOMAIN comments /\ j \in ids
      BY <1>8, <1>9, <1>10, <3>2, <3>5
    <3>6. CASE i \in ids /\ j \in DOMAIN comments
      BY <1>8, <1>9, <1>10, <3>2, <3>6
    <3> QED  BY <1>9, <3>3, <3>4, <3>5, <3>6
  <2>5. ASSUME NEW u \in update[r] PROVE OnlyHere(comments', u)
    <3>1. OnlyHere(comments, u)
      BY <1>2, <1>3, <2>1 DEF Serial
    <3>2. u.marker \notin new
      BY <1>4 DEF PlanOf, ToUpdate, ToCreate
    <3> QED  BY <1>8, <1>9, <1>10, <3>1, <3>2 DEF OnlyHere
  <2>6. \A i, j \in DOMAIN summaries' : i = j
    BY <1>2, <1>3, <2>1 DEF Serial
  <2>7. \A q \in Runs : pc'[q] # "create" /\ pc'[q] # "summary" /\ (pc'[q] = "edit" => q = r)
    BY <1>13, <2>2
  <2> QED  BY <1>2, <2>3, <2>4, <2>5, <2>6, <2>7 DEF Serial
<1> QED  BY <1>12, <1>14, <1>15, <1>16

\* An update shows its finding where the plan has its place, or fails.
LEMMA PatchInv ==
    ASSUME CommentsInv, NEW r \in Runs, NEW u \in update[r], PatchComment(r, u), UNCHANGED overlapped
    PROVE  CommentsInv'
<1> USE DEF CommentsInv
<1> DEFINE shows == [marker |-> u.marker, text |-> text[r][u.marker]]
<1>1. /\ pc[r] = "edit" /\ Active(r) /\ update' = [update EXCEPT ![r] = update[r] \ {u}]
      /\ UNCHANGED <<summaries, lastId, pc, want, text, create, remove, found, listed>>
      /\ \/ /\ u.id \in DOMAIN comments /\ comments' = [comments EXCEPT ![u.id] = shows]
            /\ undisturbed' = [q \in Runs |-> undisturbed[q] /\ q = r]
            /\ failures' = failures
         \/ /\ failures' = [failures EXCEPT ![r] = failures[r] + 1]
            /\ UNCHANGED <<comments, undisturbed>>
  BY DEF PatchComment, WriteComments, FailedRequest, Active
<1>2. CommentTypes /\ Serial /\ lastId \in Nat /\ Listing(comments) /\ RunKept(r)
  BY DEF CommentTypes
<1>3. PICK adopt : PlanOf(r, adopt)
  BY <1>1, <1>2 DEF RunKept, PlanKept
<1>4. /\ u \in ToUpdate(listed[r], want[r], text[r], adopt) /\ u.marker \in ToSet(want[r])
      /\ u.id \in Homes(listed[r], want[r], adopt, u.marker)
  BY <1>3 DEF PlanOf, ToUpdate
<1>5. shows \in [marker : Markers, text : Texts] /\ shows.marker = u.marker
  <2>1. u.marker \in Markers
    <3>1. \A m \in ToSet(want[r]) : m \in Markers
      BY <1>3, CommentsAssumption, ElementOfSeq, LenProperties DEF PlanOf, Adopting, ToSet
    <3> QED  BY <1>4, <3>1
  <2>2. text[r][u.marker] \in Texts
    BY <1>3, <1>4 DEF PlanOf
  <2> QED  BY ONLY <2>1, <2>2
<1> HIDE DEF shows
<1>6. /\ DOMAIN comments' = DOMAIN comments
      /\ \A i \in DOMAIN comments : comments'[i] = comments[i]
                                    \/ (i = u.id /\ comments'[i] = shows)
  BY <1>1
<1>7. CommentTypes'
  <2>1. Listing(comments')
    BY <1>2, <1>5, <1>6 DEF Listing
  <2>2. undisturbed' \in [Runs -> BOOLEAN]
    <3>1. CASE undisturbed' = [q \in Runs |-> undisturbed[q] /\ q = r]
      BY <3>1, Zenon
    <3>2. CASE undisturbed' = undisturbed
      BY <1>2, <3>2 DEF CommentTypes
    <3> QED  BY <1>1, <3>1, <3>2
  <2>3. failures' \in [Runs -> Nat]
    BY <1>1, <1>2 DEF CommentTypes
  <2> QED  BY <1>1, <1>2, <1>6, <2>1, <2>2, <2>3 DEF CommentTypes
<1>8. /\ update'[r] = update[r] \ {u} /\ (undisturbed'[r] <=> undisturbed[r])
      /\ \A q \in Runs \ {r} : SameRun(q) /\ (undisturbed'[q] => undisturbed[q])
                               /\ (comments' = comments \/ ~undisturbed'[q])
  BY <1>1, <1>2 DEF CommentTypes, SameRun
<1>9. RunKept(r)'
  <2>1. PlanOf(r, adopt)'
    <3>1. undisturbed[r] => DOMAIN listed[r] \ ToDelete(listed[r], want[r], adopt) \subseteq DOMAIN comments'
      BY <1>3, <1>6 DEF PlanOf
    <3> QED  BY <1>1, <1>3, <1>8, <3>1, PlanShrinks
  <2>2. PlanKept(r)'
    BY <1>1, <1>2, <2>1 DEF RunKept, PlanKept
  <2>3. Phases(r)'
    BY <1>1, <1>2, <1>8 DEF RunKept, Phases
  <2>4. HomesKept(r)'
    <3> SUFFICES ASSUME undisturbed[r], failures'[r] = 0
        PROVE  \E G : HomesAre(G, comments', want[r], text[r], create[r], update[r] \ {u}, remove[r])
      BY <1>1, <1>8 DEF HomesKept
    <3>1. failures'[r] = failures[r] /\ comments' = [comments EXCEPT ![u.id] = shows]
      BY <1>1, <1>2 DEF CommentTypes
    <3>2. PICK H : HomesAre(H, comments, want[r], text[r], create[r], update[r], remove[r])
      BY <1>2, <3>1 DEF RunKept, HomesKept
    <3> QED  BY <3>1, <3>2, HomesAfterPatch DEF shows
  <2> QED  BY <2>2, <2>3, <2>4 DEF RunKept
<1>10. ASSUME NEW q \in Runs, q # r PROVE RunKept(q)'
  BY <1>1, <1>2, <1>8, <1>10, OthersKept
<1>11. Serial'
  <2> SUFFICES ASSUME ~overlapped' PROVE Serial'
    BY DEF Serial
  <2>1. ~overlapped
    OBVIOUS
  <2>2. \A q \in Runs \ {r} : pc[q] \in {"idle", "done", "crashed"}
    BY <1>1, <1>2, <2>1, Alone
  <2>3. \A q, p \in Runs : Active(q)' /\ Active(p)' => q = p
    BY <1>1, <2>2 DEF Active
  <2>4. PostedOnce(comments) /\ OnlyHere(comments, u)
    BY <1>1, <1>2, <2>1 DEF Serial
  <2>5. PostedOnce(comments')
    <3> SUFFICES ASSUME NEW i \in DOMAIN comments, NEW j \in DOMAIN comments,
                        comments'[i].marker = comments'[j].marker,
                        comments'[i].marker \notin LegacyMarkers
        PROVE  i = j
      BY <1>6 DEF PostedOnce
    <3>1. CASE comments'[i] = comments[i] /\ comments'[j] = comments[j]
      BY <2>4, <3>1 DEF PostedOnce
    <3>2. CASE i = u.id /\ comments'[i] = shows
      BY <1>5, <1>6, <2>4, <3>2 DEF OnlyHere
    <3>3. CASE j = u.id /\ comments'[j] = shows
      BY <1>5, <1>6, <2>4, <3>3 DEF OnlyHere
    <3> QED  BY <1>6, <3>1, <3>2, <3>3
  <2>6. ASSUME NEW v \in update[r] PROVE OnlyHere(comments', v)
    <3>1. OnlyHere(comments, v)
      BY <1>1, <1>2, <2>1 DEF Serial
    <3>2. u.marker = v.marker => u.id = v.id
      <4>1. v.id \in Homes(listed[r], want[r], adopt, v.marker)
        BY <1>3 DEF PlanOf, ToUpdate
      <4>2. Listing(listed[r]) /\ Adopting(listed[r], want[r], adopt)
        BY <1>1, <1>2, <1>3 DEF RunKept, PlanKept, PlanOf
      <4> QED  BY <1>4, <4>1, <4>2, HomeIsOne
    <3> QED  BY <1>5, <1>6, <3>1, <3>2 DEF OnlyHere
  <2>7. \A i, j \in DOMAIN summaries' : i = j
    BY <1>1, <1>2, <2>1 DEF Serial
  <2>8. \A q \in Runs : pc'[q] # "create" /\ pc'[q] # "summary" /\ (pc'[q] = "edit" => q = r)
    BY <1>1, <2>2
  <2>9. \A v \in update'[r] : OnlyHere(comments', v)
    BY <1>8, <2>6
  <2> QED  BY <2>3, <2>5, <2>7, <2>8, <2>9 DEF Serial
<1> QED  BY <1>7, <1>9, <1>10, <1>11

\* A deletion takes what the plan has no place for, or fails.
LEMMA DeleteInv ==
    ASSUME CommentsInv, NEW r \in Runs, NEW d \in remove[r], DeleteComment(r, d), UNCHANGED overlapped
    PROVE  CommentsInv'
<1> USE DEF CommentsInv
<1>1. /\ pc[r] = "edit" /\ Active(r) /\ remove' = [remove EXCEPT ![r] = remove[r] \ {d}]
      /\ UNCHANGED <<summaries, lastId, pc, want, text, create, update, found, listed>>
      /\ \/ /\ comments' = [j \in DOMAIN comments \ {d} |-> comments[j]]
            /\ undisturbed' = [q \in Runs |-> undisturbed[q] /\ q = r]
            /\ failures' = failures
         \/ /\ failures' = [failures EXCEPT ![r] = failures[r] + 1]
            /\ UNCHANGED <<comments, undisturbed>>
  BY DEF DeleteComment, WriteComments, FailedRequest, Active
<1>2. CommentTypes /\ Serial /\ lastId \in Nat /\ Listing(comments) /\ RunKept(r)
  BY DEF CommentTypes
<1>3. PICK adopt : PlanOf(r, adopt)
  BY <1>1, <1>2 DEF RunKept, PlanKept
<1>4. d \in ToDelete(listed[r], want[r], adopt)
  BY <1>3 DEF PlanOf
<1>5. /\ DOMAIN comments' \subseteq DOMAIN comments /\ DOMAIN comments \ {d} \subseteq DOMAIN comments'
      /\ \A i \in DOMAIN comments' : comments'[i] = comments[i]
  BY <1>1
<1>6. CommentTypes'
  <2>1. Listing(comments')
    BY <1>2, <1>5 DEF Listing
  <2>2. undisturbed' \in [Runs -> BOOLEAN]
    <3>1. CASE undisturbed' = [q \in Runs |-> undisturbed[q] /\ q = r]
      BY <3>1, Zenon
    <3>2. CASE undisturbed' = undisturbed
      BY <1>2, <3>2 DEF CommentTypes
    <3> QED  BY <1>1, <3>1, <3>2
  <2>3. failures' \in [Runs -> Nat]
    BY <1>1, <1>2 DEF CommentTypes
  <2>4. DOMAIN comments' \subseteq 1..lastId
    BY <1>2, <1>5 DEF CommentTypes
  <2> QED  BY <1>1, <1>2, <2>1, <2>2, <2>3, <2>4 DEF CommentTypes
<1>7. /\ remove'[r] = remove[r] \ {d} /\ (undisturbed'[r] <=> undisturbed[r])
      /\ \A q \in Runs \ {r} : SameRun(q) /\ (undisturbed'[q] => undisturbed[q])
                               /\ (comments' = comments \/ ~undisturbed'[q])
  BY <1>1, <1>2 DEF CommentTypes, SameRun
<1>8. RunKept(r)'
  <2>1. PlanOf(r, adopt)'
    <3>1. undisturbed[r] => DOMAIN listed[r] \ ToDelete(listed[r], want[r], adopt) \subseteq DOMAIN comments'
      BY <1>3, <1>4, <1>5 DEF PlanOf
    <3> QED  BY <1>1, <1>3, <1>7, <3>1, PlanShrinks
  <2>2. PlanKept(r)'
    BY <1>1, <1>2, <2>1 DEF RunKept, PlanKept
  <2>3. Phases(r)'
    BY <1>1, <1>2, <1>7 DEF RunKept, Phases
  <2>4. HomesKept(r)'
    <3> SUFFICES ASSUME undisturbed[r], failures'[r] = 0
        PROVE  \E G : HomesAre(G, comments', want[r], text[r], create[r], update[r], remove[r] \ {d})
      BY <1>1, <1>7 DEF HomesKept
    <3>1. failures'[r] = failures[r] /\ comments' = [j \in DOMAIN comments \ {d} |-> comments[j]]
      BY <1>1, <1>2 DEF CommentTypes
    <3>2. PICK H : HomesAre(H, comments, want[r], text[r], create[r], update[r], remove[r])
      BY <1>2, <3>1 DEF RunKept, HomesKept
    <3> QED  BY <3>1, <3>2, HomesAfterDelete
  <2> QED  BY <2>2, <2>3, <2>4 DEF RunKept
<1>9. ASSUME NEW q \in Runs, q # r PROVE RunKept(q)'
  BY <1>1, <1>2, <1>7, <1>9, OthersKept
<1>10. Serial'
  <2> SUFFICES ASSUME ~overlapped' PROVE Serial'
    BY DEF Serial
  <2>1. ~overlapped
    OBVIOUS
  <2>2. \A q \in Runs \ {r} : pc[q] \in {"idle", "done", "crashed"}
    BY <1>1, <1>2, <2>1, Alone
  <2>3. \A q, p \in Runs : Active(q)' /\ Active(p)' => q = p
    BY <1>1, <2>2 DEF Active
  <2>4. PostedOnce(comments')
    BY <1>2, <1>5, <2>1 DEF Serial, PostedOnce
  <2>5. \A v \in update'[r] : OnlyHere(comments', v)
    BY <1>1, <1>2, <1>5, <2>1 DEF Serial, OnlyHere
  <2>6. \A i, j \in DOMAIN summaries' : i = j
    BY <1>1, <1>2, <2>1 DEF Serial
  <2>7. \A q \in Runs : pc'[q] # "create" /\ pc'[q] # "summary" /\ (pc'[q] = "edit" => q = r)
    BY <1>1, <2>2
  <2> QED  BY <2>3, <2>4, <2>5, <2>6, <2>7 DEF Serial
<1> QED  BY <1>6, <1>8, <1>9, <1>10

LEMMA CommentsStep ==
    ASSUME CommentsInv, [CommentsNext]_commentVars
    PROVE  CommentsInv'
<1>1. CASE UNCHANGED commentVars
  <2> USE DEF CommentsInv
  <2>1. /\ UNCHANGED <<comments, summaries, lastId, pc, want, text, create, update, remove, found,
                       failures, listed, undisturbed, overlapped>>
    BY <1>1 DEF commentVars, shared
  <2>2. CommentTypes'
    BY <2>1 DEF CommentTypes
  <2>3. ASSUME NEW q \in Runs PROVE RunKept(q)'
    <3>1. SameRun(q) /\ lastId \in Nat
      BY <2>1 DEF SameRun, CommentTypes
    <3> QED  BY <2>1, <3>1, OthersKept
  <2>4. Serial'
    BY <2>1 DEF Serial, Active
  <2> QED  BY <2>2, <2>3, <2>4
<1>2. ASSUME NEW r \in Runs, CarryOut(r), UNCHANGED overlapped PROVE CommentsInv'
  BY <1>2, PostInv, PatchInv, DeleteInv, QuietInv DEF CarryOut
<1> QED  BY <1>1, <1>2, PlanRunInv DEF CommentsNext

LEMMA CommentsStart ==
    ASSUME CommentsInit
    PROVE  CommentsInv
<1>1. PICK S \in SUBSET DOMAIN OldComments : comments = [i \in S |-> OldComments[i]]
  BY DEF CommentsInit
<1>2. lastId \in Nat /\ DOMAIN OldComments = 1..lastId
  BY CommentsAssumption, FS_CardinalityType DEF CommentsInit
<1>3. DOMAIN comments \subseteq 1..lastId /\ \A i \in DOMAIN comments : i \in DOMAIN OldComments /\ comments[i] = OldComments[i]
  BY <1>1, <1>2
<1>4. Listing(comments)
  BY <1>2, <1>3, CommentsAssumption DEF Listing
<1>5. PostedOnce(comments)
  BY <1>3, CommentsAssumption DEF PostedOnce, LegacyMarkers
<1>6. CommentTypes
  <2>1. undisturbed \in [Runs -> BOOLEAN]
    BY Zenon DEF CommentsInit
  <2> QED  BY <1>2, <1>3, <1>4, <2>1 DEF CommentsInit, CommentTypes
<1>7. \A r \in Runs : pc[r] = "idle" /\ ~undisturbed[r]
  BY DEF CommentsInit
<1>8. \A r \in Runs : RunKept(r)
  BY <1>7 DEF RunKept, PlanKept, Phases, HomesKept
<1>9. Serial
  BY <1>5, <1>7 DEF CommentsInit, Serial, Active
<1> QED  BY <1>6, <1>8, <1>9 DEF CommentsInv

LEMMA CommentsAlways == Spec => []CommentsInv
<1>1. Init => CommentsInv
  BY CommentsStart DEF Init
<1>2. CommentsInv /\ [Next]_vars => CommentsInv'
  <2>1. [Next]_vars => [CommentsNext]_commentVars
    BY Zenon DEF Next, vars, commentVars, shared
  <2>2. CommentsInv /\ [CommentsNext]_commentVars => CommentsInv'
    BY CommentsStep
  <2> QED  BY <2>1, <2>2
<1> QED  BY <1>1, <1>2, PTL DEF Spec

\* A thread whose finding is still there is never deleted, for any markers, legacy markers,
\* findings, and runs that stop anywhere (plan_comment_ops, _apply_comment_ops).
THEOREM ThreadsSound == Spec => []ThreadsSurvive
<1>1. CommentsInv => ThreadsSurvive
  <2> SUFFICES ASSUME CommentsInv, NEW r \in Runs, undisturbed[r], NEW m \in ToSet(want[r])
      PROVE  LET own == Carrying(listed[r], m)
                 old == UNION {Carrying(listed[r], l) : l \in ToSet(Legacy[m])}
                 threads == IF own # {} THEN own ELSE old
             IN threads # {} => threads \cap DOMAIN comments # {}
    BY DEF ThreadsSurvive
  <2>1. PICK adopt : PlanOf(r, adopt) /\ Listing(listed[r])
    BY DEF CommentsInv, RunKept, PlanKept, Phases
  <2>2. Adopting(listed[r], want[r], adopt)
        /\ DOMAIN listed[r] \ ToDelete(listed[r], want[r], adopt) \subseteq DOMAIN comments
    BY <2>1 DEF PlanOf
  <2> DEFINE own == Carrying(listed[r], m)
             old == UNION {Carrying(listed[r], l) : l \in ToSet(Legacy[m])}
             threads == IF own # {} THEN own ELSE old
  <2>3. threads # {} => \E i \in threads : i \in DOMAIN listed[r] /\ i \notin ToDelete(listed[r], want[r], adopt)
    BY <2>1, <2>2, ThreadStays
  <2> HIDE DEF threads
  <2>4. threads # {} => threads \cap DOMAIN comments # {}
    BY <2>2, <2>3
  <2> QED  BY <2>4 DEF threads
<1> QED  BY <1>1, CommentsAlways, PTL

\* While runs do not overlap, nothing is posted twice, whatever failed or stopped halfway
\* before (plan_comment_ops, _apply_comment_ops, _upsert_summary).
THEOREM SerialRunsSound == Spec => []SerialRunsPostOnce
<1>1. CommentsInv => SerialRunsPostOnce
  BY DEF CommentsInv, Serial, PostedOnce, LegacyMarkers, SerialRunsPostOnce
<1> QED  BY <1>1, CommentsAlways, PTL

\* A run that could do all it planned leaves exactly the comments of its findings, and one that
\* finds them does nothing (plan_comment_ops, _apply_comment_ops).
THEOREM CleanRunSound == Spec => []CleanRunIsExact
<1>1. CommentsInv => CleanRunIsExact
  <2> SUFFICES ASSUME CommentsInv, NEW r \in Runs
      PROVE  /\ /\ undisturbed[r] /\ failures[r] = 0
                /\ EditsDone(r) \/ (pc[r] \in {"summary", "done"} /\ create[r] = {})
                => Exact(comments, want[r], text[r])
             /\ pc[r] # "idle" /\ Exact(listed[r], want[r], text[r]) =>
                   create[r] = {} /\ update[r] = {} /\ remove[r] = {}
    BY DEF CleanRunIsExact
  <2>1. ASSUME undisturbed[r], failures[r] = 0,
               EditsDone(r) \/ (pc[r] \in {"summary", "done"} /\ create[r] = {})
        PROVE  Exact(comments, want[r], text[r])
    <3>1. create[r] = {} /\ update[r] = {} /\ remove[r] = {}
      BY <2>1 DEF CommentsInv, RunKept, Phases, EditsDone
    <3>2. PICK H : HomesAre(H, comments, want[r], text[r], create[r], update[r], remove[r])
      BY <2>1 DEF CommentsInv, RunKept, HomesKept
    <3> QED  BY <3>1, <3>2, HomesExact
  <2>2. ASSUME pc[r] # "idle", Exact(listed[r], want[r], text[r])
        PROVE  create[r] = {} /\ update[r] = {} /\ remove[r] = {}
    <3>1. PICK adopt : PlanOf(r, adopt) /\ Listing(listed[r])
      BY <2>2 DEF CommentsInv, RunKept, PlanKept
    <3> QED  BY <2>2, <3>1, ExactNeedsNothing DEF PlanOf
  <2> QED  BY <2>1, <2>2
<1> QED  BY <1>1, CommentsAlways, PTL

------------------------------------------------------------------------------
(* The corpus builder.                                                     *)

FixPair == UNION {PairsOf[f] : f \in Files}
Entry == [adv : Advisories, pair : FixPair]
Output == [of : Nat, pairs : SUBSET Entry]
OutputFiles == {"corpus", "rejected", "heldOut"}
Fetching == {"commit", "post", "pre"}
Writing == {"corpus", "rejected", "heldOut"}

\* A run in progress.
BuildInProgress ==
    [phase : {"zip", "intake", "persist"} \cup Fetching \cup Writing,
     eco : DOMAIN Ecosystems, at : Nat, resume : BOOLEAN, offline : BOOLEAN, waits : BOOLEAN,
     attempted : Nat, limited : BOOLEAN, cut : BOOLEAN, pairs : Seq(SUBSET Entry),
     got : SUBSET FixPair, file : Nat, posted : BOOLEAN, missed : BOOLEAN, lost : BOOLEAN,
     held : SUBSET Entry]
Records(r) ==
    DOMAIN r \subseteq Advisories /\ \A a \in DOMAIN r : r[a] \in [pairs : SUBSET FixPair, lost : BOOLEAN]
CorpusTypes ==
    /\ answers \in [Requests -> {"none", "there", "gone", "torn"}]
    /\ build = NoBuild \/ build \in BuildInProgress
    /\ Records(processed) /\ recorded \in [torn : BOOLEAN, by : {recorded.by}] /\ Records(recorded.by)
    /\ builds \in Nat
    /\ outputs \in [ToSet(Ecosystems) -> [corpus : Output, rejected : Output, heldOut : Output]]

\* What the cache of answers says is so.
AnswersTrue ==
    \A r \in Requests : (answers[r] = "there" => r \notin Gone) /\ (answers[r] = "gone" => r \in Gone)

\* The pairs of the first n files of a fix.
Reachable(f) == {<<"post", f>>, <<"pre", f>>} \cap Gone = {}
PairsUpTo(c, n) == UNION {PairsOf[FilesOf[c][i]] : i \in {j \in 1..n : Reachable(FilesOf[c][j])}}

\* A fix that is fetched: its advisory is in hand, and the files so far gave their pairs.
FixInHand ==
    build.phase \in Fetching =>
        /\ build.at <= Len(Listed[Eco]) /\ Fix # NoFix
        /\ build.resume => Advisory \notin DOMAIN processed
        /\ build.file >= 1 /\ build.file <= Len(FilesOf[Fix]) + 1
        /\ build.phase = "pre" => build.file <= Len(FilesOf[Fix])
        /\ build.phase = "commit" => build.file = 1 /\ build.got = {} /\ ~build.missed /\ ~build.lost
        /\ ~build.missed /\ ~build.lost =>
              /\ build.got = PairsUpTo(Fix, build.file - 1)
              /\ build.phase = "pre" => (build.posted <=> <<"post", FilesOf[Fix][build.file]>> \notin Gone)

\* What a resumed run that was not cut has of its archive.
PairsIn(entries) == UNION {{e.pair : e \in entries[i]} : i \in DOMAIN entries}
PairsOfRecorded(A) == UNION {processed[a].pairs : a \in DOMAIN processed \cap A}
Passed == {Listed[Eco][i] : i \in 1..(build.at - 1)}
Resumed ==
    build # NoBuild =>
        /\ build.at >= 1 /\ build.at <= Len(Listed[Eco]) + 1
        /\ build.phase = "zip" => build.at = 1 /\ build.pairs = <<>> /\ ~build.cut
        /\ build.phase \in {"intake"} \cup Fetching => ~build.cut
        /\ build.resume /\ ~build.cut =>
              /\ PairsIn(build.pairs) = PairsOfRecorded(Passed)
              /\ build.phase \in {"persist"} \cup Writing => build.at = Len(Listed[Eco]) + 1

\* The files of the ecosystems this run has not come to are of earlier runs.
OfEarlierRuns(e, files) == \A f \in files : outputs[e][f].of < builds
CorpusOf(all) == (all \ build.held) \ RejectedOf(all)
OutputsDated ==
    /\ \A e \in ToSet(Ecosystems) : \A f \in OutputFiles :
          /\ outputs[e][f].of <= builds
          /\ outputs[e][f].of = 0 => outputs[e][f].pairs = {}
    /\ build # NoBuild =>
          /\ builds > 0
          /\ \A i \in DOMAIN Ecosystems : i > build.eco => OfEarlierRuns(Ecosystems[i], OutputFiles)
          /\ build.phase \notin {"rejected", "heldOut"} => OfEarlierRuns(Eco, OutputFiles)
          /\ build.phase = "rejected" => OfEarlierRuns(Eco, {"rejected", "heldOut"})
          /\ build.phase = "heldOut" =>
                OfEarlierRuns(Eco, {"heldOut"})
                /\ outputs[Eco].rejected.pairs = RejectedOf(FirstOnly(build.pairs))
          /\ build.phase \in {"rejected", "heldOut"} =>
                outputs[Eco].corpus.pairs = CorpusOf(FirstOnly(build.pairs))
          /\ build.phase \in Writing => \E H \in SUBSET Advisories : build.held = {e \in FirstOnly(build.pairs) : e.adv \in H}

\* The files of one run share no pair, nor the corpus and the held-out set an advisory.
OutputsApart ==
    \A e \in ToSet(Ecosystems) :
        /\ outputs[e].corpus.of = outputs[e].heldOut.of =>
              \A x \in outputs[e].corpus.pairs, y \in outputs[e].heldOut.pairs : x.adv # y.adv
        /\ \A f \in {"corpus", "heldOut"} : outputs[e].rejected.of = outputs[e][f].of =>
              \A x \in outputs[e].rejected.pairs, y \in outputs[e][f].pairs : x.pair # y.pair

CorpusInv ==
    /\ CorpusTypes /\ AnswersTrue /\ FixInHand /\ Resumed /\ OutputsDated /\ OutputsApart
    /\ Complete(recorded.by) /\ Complete(processed)

\* The first of equal pairs is one of them: keeping it loses no pair.
LEMMA FirstHasAll ==
    ASSUME NEW entries \in Seq(SUBSET Entry)
    PROVE  /\ FirstOnly(entries) \subseteq Entry
           /\ {e.pair : e \in FirstOnly(entries)} = PairsIn(entries)
<1>0. DOMAIN entries = 1..Len(entries) /\ Len(entries) \in Nat /\ \A i \in DOMAIN entries : entries[i] \subseteq Entry
  BY LenProperties, ElementOfSeq
<1>1. FirstOnly(entries) \subseteq Entry /\ {e.pair : e \in FirstOnly(entries)} \subseteq PairsIn(entries)
  BY <1>0 DEF FirstOnly, PairsIn
<1>2. ASSUME NEW p \in PairsIn(entries) PROVE \E e \in FirstOnly(entries) : e.pair = p
  <2> DEFINE Has == {i \in DOMAIN entries : \E e \in entries[i] : e.pair = p}
  <2>1. Has \subseteq Nat /\ Has # {}
    BY <1>0 DEF PairsIn
  <2>2. PICK i \in Has : \A j \in Has : i <= j
    <3> HIDE DEF Has
    <3> QED  BY <2>1, LeastOfSome
  <2>3. PICK e \in entries[i] : e.pair = p
    OBVIOUS
  <2>4. \A j \in 1..(i - 1) : \A k \in entries[j] : k.pair # e.pair
    <3>1. ASSUME NEW j \in 1..(i - 1), NEW k \in entries[j], k.pair = e.pair PROVE FALSE
      <4>1. j \in DOMAIN entries /\ j < i /\ i \in Nat /\ j \in Nat
        BY <1>0
      <4>2. j \in Has
        BY <2>3, <3>1, <4>1
      <4> HIDE DEF Has
      <4> QED  BY ONLY <2>2, <4>1, <4>2
    <3> QED  BY <3>1
  <2> QED  BY <2>3, <2>4, SMTT(30) DEF FirstOnly
<1> QED  BY <1>1, <1>2

\* One more advisory adds its pairs to those of the run.
LEMMA AppendPairs ==
    ASSUME NEW entries \in Seq(SUBSET Entry), NEW a \in Advisories, NEW pairs \in SUBSET FixPair
    PROVE  /\ Append(entries, Entries(a, pairs)) \in Seq(SUBSET Entry)
           /\ PairsIn(Append(entries, Entries(a, pairs))) = PairsIn(entries) \cup pairs
<1> DEFINE S == Entries(a, pairs)
           t == Append(entries, S)
<1>1. S \in SUBSET Entry /\ {e.pair : e \in S} = pairs
  <2>1. \A p \in pairs : [adv |-> a, pair |-> p] \in Entry
    BY DEF Entry
  <2>2. S = {[adv |-> a, pair |-> p] : p \in pairs}
    BY DEF Entries
  <2>3. S \subseteq Entry
    BY <2>1, <2>2
  <2>4. {e.pair : e \in S} = {[adv |-> a, pair |-> p].pair : p \in pairs}
    BY <2>2
  <2> QED  BY <2>3, <2>4
<1> HIDE DEF S
<1>2. /\ t \in Seq(SUBSET Entry) /\ Len(t) = Len(entries) + 1
      /\ \A i \in 1..Len(entries) : t[i] = entries[i]
      /\ t[Len(entries) + 1] = S
  BY <1>1, AppendProperties
<1>3. DOMAIN t = 1..Len(t) /\ DOMAIN entries = 1..Len(entries) /\ Len(entries) \in Nat
  <2> HIDE DEF t
  <2> QED  BY <1>2, LenProperties
<1> HIDE DEF t
<1>4. DOMAIN t = DOMAIN entries \cup {Len(entries) + 1}
  BY <1>2, <1>3
<1>5. PairsIn(t) = PairsIn(entries) \cup {e.pair : e \in S}
  BY <1>2, <1>3, <1>4 DEF PairsIn
<1> QED  BY <1>1, <1>2, <1>5 DEF t, S

\* Whether a pair is rejected does not depend on the advisory it comes with.
LEMMA RejectedByPair ==
    ASSUME NEW all, NEW x \in RejectedOf(all), NEW y \in all, x.pair = y.pair
    PROVE  y \in RejectedOf(all)
BY DEF RejectedOf, Rejected

\* The run goes on with the next ecosystem, or ends.
Settled ==
    /\ CorpusTypes /\ build # NoBuild
    /\ outputs' \in [ToSet(Ecosystems) -> [corpus : Output, rejected : Output, heldOut : Output]]
    /\ builds' = builds /\ builds > 0
    /\ \A e \in ToSet(Ecosystems) : \A f \in OutputFiles :
          /\ outputs'[e][f].of <= builds
          /\ outputs'[e][f].of = 0 => outputs'[e][f].pairs = {}
    /\ \A i \in DOMAIN Ecosystems : i > build.eco => \A f \in OutputFiles : outputs'[Ecosystems[i]][f].of < builds

\* The inputs are in order: an ecosystem in hand is one, its list is one, no two places name the same.
LEMMA InOrder ==
    /\ DOMAIN Ecosystems = 1..Len(Ecosystems) /\ Len(Ecosystems) \in Nat \ {0}
    /\ \A i \in DOMAIN Ecosystems : Ecosystems[i] \in ToSet(Ecosystems)
    /\ \A e \in ToSet(Ecosystems) : DOMAIN Listed[e] = 1..Len(Listed[e]) /\ Len(Listed[e]) \in Nat
                                    /\ \A i \in DOMAIN Listed[e] : Listed[e][i] \in Advisories
    /\ \A c \in Commits : DOMAIN FilesOf[c] = 1..Len(FilesOf[c]) /\ Len(FilesOf[c]) \in Nat
                          /\ \A i \in DOMAIN FilesOf[c] : FilesOf[c][i] \in Files
<1>1. DOMAIN Ecosystems = 1..Len(Ecosystems) /\ Len(Ecosystems) \in Nat \ {0}
  BY CorpusInputs, LenProperties, EmptySeq
<1>2. \A i \in DOMAIN Ecosystems : Ecosystems[i] \in ToSet(Ecosystems)
  BY DEF ToSet
<1>3. ASSUME NEW e \in ToSet(Ecosystems)
      PROVE  DOMAIN Listed[e] = 1..Len(Listed[e]) /\ Len(Listed[e]) \in Nat
             /\ \A i \in DOMAIN Listed[e] : Listed[e][i] \in Advisories
  <2>1. Listed[e] \in Seq(Advisories)
    BY CorpusInputs
  <2> QED  BY <2>1, LenProperties, ElementOfSeq
<1>4. ASSUME NEW c \in Commits
      PROVE  DOMAIN FilesOf[c] = 1..Len(FilesOf[c]) /\ Len(FilesOf[c]) \in Nat
             /\ \A i \in DOMAIN FilesOf[c] : FilesOf[c][i] \in Files
  <2>1. FilesOf[c] \in Seq(Files)
    BY CorpusInputs
  <2> QED  BY <2>1, LenProperties, ElementOfSeq
<1> QED  BY <1>1, <1>2, <1>3, <1>4

\* Going on to the next ecosystem keeps the types, the dates of what is still to come, and what is resumed.
LEMMA NextEcosystemInv ==
    ASSUME Settled, build' = NextEcosystem
    PROVE  /\ build' = NoBuild \/ build' \in BuildInProgress
           /\ FixInHand' /\ Resumed' /\ OutputsDated'
<1> USE DEF Settled
<1>1. CASE build' = NoBuild
  <2>1. build'.phase = "idle"
    BY <1>1 DEF NoBuild
  <2>2. FixInHand' /\ Resumed'
    BY <1>1, <2>1 DEF FixInHand, Resumed, Fetching
  <2>3. OutputsDated'
    BY <1>1 DEF OutputsDated
  <2> QED  BY <1>1, <2>2, <2>3
<1>2. CASE build' # NoBuild
  <2>1. /\ build \in BuildInProgress /\ build.eco # Len(Ecosystems)
        /\ build' = [build EXCEPT !.phase = "zip", !.eco = @ + 1, !.at = 1, !.pairs = <<>>, !.cut = FALSE,
                       !.held = {}]
    BY <1>2 DEF NextEcosystem, CorpusTypes
  <2>2. build.eco \in 1..Len(Ecosystems) /\ build.eco + 1 \in DOMAIN Ecosystems
    BY <2>1, InOrder DEF BuildInProgress
  <2>3. build' \in BuildInProgress
    <3>1. <<>> \in Seq(SUBSET Entry)
      BY EmptySeq
    <3> QED  BY ONLY <2>1, <2>2, <3>1 DEF BuildInProgress
  <2>4. build'.phase = "zip" /\ build'.at = 1 /\ build'.pairs = <<>> /\ ~build'.cut
        /\ build'.eco = build.eco + 1
    BY <2>1 DEF BuildInProgress
  <2>5. FixInHand'
    BY <2>4 DEF FixInHand, Fetching
  <2>6. Resumed'
    <3>1. Eco' \in ToSet(Ecosystems) /\ Len(Listed[Eco']) \in Nat
      BY <2>2, <2>4, InOrder DEF Eco
    <3>2. PairsIn(build'.pairs) = {}
      <4>1. DOMAIN build'.pairs = {}
        BY <2>4
      <4> QED  BY <4>1 DEF PairsIn
    <3>3. Passed' = {}
      BY <2>4 DEF Passed
    <3>4. PairsOfRecorded(Passed)' = {}
      BY <3>3 DEF PairsOfRecorded
    <3> QED  BY <2>4, <3>1, <3>2, <3>4 DEF Resumed, Fetching, Writing
  <2>7. OutputsDated'
    <3>1. \A i \in DOMAIN Ecosystems : i > build.eco => OfEarlierRuns(Ecosystems[i], OutputFiles)'
      BY DEF OfEarlierRuns
    <3>2. \A i \in DOMAIN Ecosystems : i > build.eco + 1 => i > build.eco
      BY <2>2, InOrder
    <3>3. OfEarlierRuns(Eco, OutputFiles)'
      BY <2>2, <2>4, <3>1 DEF Eco
    <3> QED  BY <2>2, <2>4, <3>1, <3>2, <3>3 DEF OutputsDated, Writing
  <2> QED  BY <2>3, <2>5, <2>6, <2>7
<1> QED  BY <1>1, <1>2

\* The steps that write no output and stay in their ecosystem, or end the run.
LEMMA OutputsKept ==
    ASSUME OutputsDated, OutputsApart, UNCHANGED <<outputs, builds>>,
           \/ build' = NoBuild
           \/ /\ build # NoBuild /\ build.phase \notin {"rejected", "heldOut"}
              /\ build'.eco = build.eco /\ build'.phase \notin Writing
    PROVE  OutputsDated' /\ OutputsApart'
<1>1. OutputsApart'
  BY DEF OutputsApart
<1>2. \A e, F : OfEarlierRuns(e, F)' <=> OfEarlierRuns(e, F)
  BY DEF OfEarlierRuns
<1>3. OutputsDated'
  <2>1. CASE build' = NoBuild
    BY <2>1 DEF OutputsDated
  <2>2. CASE build' # NoBuild
    BY <1>2, <2>2 DEF OutputsDated, Eco, Writing
  <2> QED  BY <2>1, <2>2
<1> QED  BY <1>1, <1>3

\* A run that ends leaves nothing in hand.
LEMMA RunOver ==
    ASSUME build' = NoBuild
    PROVE  FixInHand' /\ Resumed'
<1>1. build'.phase = "idle"
  BY DEF NoBuild
<1> QED  BY <1>1 DEF FixInHand, Resumed, Fetching

\* A run starts: it reads back what was finished.
LEMMA StartBuildInv ==
    ASSUME CorpusInv, StartBuild
    PROVE  CorpusInv'
<1> USE DEF CorpusInv
<1>1. build = NoBuild
  BY DEF StartBuild, Goes, CorpusTypes, BuildInProgress, Fetching, Writing
<1>2. PICK resume \in BOOLEAN, offline \in BOOLEAN, waits \in BOOLEAN :
        build' = [phase |-> "zip", eco |-> 1, at |-> 1, resume |-> resume, offline |-> offline,
                     waits |-> waits, attempted |-> 0, limited |-> FALSE, cut |-> FALSE,
                     pairs |-> <<>>, got |-> {}, file |-> 0, posted |-> FALSE,
                     missed |-> FALSE, lost |-> FALSE, held |-> {}]
  BY DEF StartBuild
<1>3. /\ UNCHANGED <<answers, zips, recorded, outputs, buildFaults>> /\ builds' = builds + 1
      /\ processed' = IF recorded.torn THEN <<>> ELSE recorded.by
  BY DEF StartBuild
<1>4. build' \in BuildInProgress
  <2>1. <<>> \in Seq(SUBSET Entry) /\ 1 \in DOMAIN Ecosystems
    BY EmptySeq, InOrder
  <2> QED  BY ONLY <1>2, <2>1 DEF BuildInProgress
<1>5. /\ build'.phase = "zip" /\ build'.eco = 1 /\ build'.at = 1 /\ build'.pairs = <<>> /\ ~build'.cut
  BY <1>2
<1>6. Records(processed') /\ Complete(processed')
  <2>1. DOMAIN <<>> = {}
    OBVIOUS
  <2> QED  BY <1>3, <2>1 DEF Records, Complete, CorpusTypes
<1>7. CorpusTypes'
  BY <1>3, <1>4, <1>6 DEF CorpusTypes, Records
<1>8. AnswersTrue' /\ FixInHand' /\ OutputsApart' /\ Complete(recorded.by)'
  BY <1>3, <1>5 DEF AnswersTrue, FixInHand, Fetching, OutputsApart, Complete
<1>9. Resumed'
  <2>1. Eco' \in ToSet(Ecosystems) /\ Len(Listed[Eco']) \in Nat
    BY <1>5, InOrder DEF Eco
  <2>2. PairsIn(build'.pairs) = {} /\ PairsOfRecorded(Passed)' = {}
    <3>1. DOMAIN build'.pairs = {} /\ Passed' = {}
      BY <1>5 DEF Passed
    <3> QED  BY <3>1 DEF PairsIn, PairsOfRecorded
  <2> QED  BY <1>5, <2>1, <2>2 DEF Resumed, Fetching, Writing
<1>10. OutputsDated'
  <2>1. \A e \in ToSet(Ecosystems) : \A f \in OutputFiles :
          /\ outputs'[e][f].of <= builds
          /\ outputs'[e][f].of = 0 => outputs'[e][f].pairs = {}
    BY <1>3 DEF OutputsDated
  <2>2. \A e \in ToSet(Ecosystems) : \A f \in OutputFiles : outputs'[e][f].of \in Nat
    BY <1>3 DEF CorpusTypes, OutputFiles, Output
  <2>3. \A e \in ToSet(Ecosystems) : OfEarlierRuns(e, OutputFiles)'
    BY <1>3, <2>1, <2>2 DEF OfEarlierRuns, CorpusTypes
  <2>4. \A e \in ToSet(Ecosystems) : \A f \in OutputFiles : outputs'[e][f].of <= builds'
    BY <1>3, <2>1, <2>2 DEF CorpusTypes
  <2>5. builds' > 0 /\ Eco' \in ToSet(Ecosystems)
    BY <1>3, <1>5, InOrder DEF CorpusTypes, Eco
  <2> QED  BY <1>5, <2>1, <2>3, <2>4, <2>5, InOrder DEF OutputsDated, Writing
<1> QED  BY <1>3, <1>6, <1>7, <1>8, <1>9, <1>10

\* The archive of an ecosystem is opened.
LEMMA OpenZipInv ==
    ASSUME CorpusInv, OpenZip
    PROVE  CorpusInv'
<1> USE DEF CorpusInv
<1>1. /\ build \in BuildInProgress /\ build # NoBuild /\ build.phase = "zip"
      /\ UNCHANGED <<answers, recorded, outputs, processed, builds, buildFaults>>
  BY DEF OpenZip, Goes, CorpusTypes, NoBuild
<1>2. AnswersTrue' /\ Complete(recorded.by)' /\ Complete(processed)' /\ Records(processed)'
      /\ Records(recorded.by)'
  BY <1>1 DEF AnswersTrue, Complete, CorpusTypes, Records
<1>3. CASE build' = NoBuild
  <2>1. CorpusTypes'
    BY <1>1, <1>2, <1>3 DEF CorpusTypes
  <2> QED  BY <1>1, <1>2, <1>3, <2>1, RunOver, OutputsKept
<1>4. CASE build' = [build EXCEPT !.phase = "intake"]
  <2>1. build' \in BuildInProgress
    BY ONLY <1>1, <1>4 DEF BuildInProgress
  <2>2. CorpusTypes'
    BY <1>1, <1>2, <2>1 DEF CorpusTypes
  <2>3. /\ build'.phase = "intake" /\ build'.eco = build.eco /\ build'.at = build.at
        /\ build'.pairs = build.pairs /\ build'.cut = build.cut /\ build'.resume = build.resume
    BY <1>1, <1>4 DEF BuildInProgress
  <2>4. FixInHand'
    BY <2>3 DEF FixInHand, Fetching
  <2>5. Resumed'
    <3>1. Eco' = Eco /\ Passed' = Passed
      BY <2>3 DEF Eco, Passed
    <3>2. PairsOfRecorded(Passed)' = PairsOfRecorded(Passed)
      BY <1>1, <3>1 DEF PairsOfRecorded
    <3> QED  BY <1>1, <2>3, <3>1, <3>2 DEF Resumed, Fetching, Writing
  <2> QED  BY <1>1, <1>2, <2>2, <2>3, <2>4, <2>5, OutputsKept DEF Writing
<1> QED  BY <1>3, <1>4 DEF OpenZip

\* The step to the next advisory of the list.
LEMMA PassedOne ==
    ASSUME CorpusTypes, build \in BuildInProgress, build.at >= 1, build.at <= Len(Listed[Eco]),
           build'.eco = build.eco, build'.at = build.at + 1
    PROVE  /\ Advisory \in Advisories /\ Eco' = Eco /\ Eco \in ToSet(Ecosystems)
           /\ Passed' = Passed \cup {Advisory}
<1>1. Eco \in ToSet(Ecosystems) /\ Eco' = Eco
  BY InOrder DEF Eco, BuildInProgress
<1>2. build.at \in DOMAIN Listed[Eco] /\ build.at \in Nat
  BY <1>1, InOrder DEF BuildInProgress
<1>3. Advisory \in Advisories
  BY <1>1, <1>2, InOrder DEF Advisory
<1>4. 1..(build'.at - 1) = 1..(build.at - 1) \cup {build.at}
  BY <1>2
<1>5. Passed' = Passed \cup {Advisory}
  BY <1>1, <1>4 DEF Passed, Advisory
<1> QED  BY <1>1, <1>3, <1>5

\* An advisory that adds nothing is passed over.
LEMMA SkippedInv ==
    ASSUME CorpusTypes, FixInHand, Resumed, build \in BuildInProgress, build # NoBuild,
           build.phase \in {"intake"} \cup Fetching, build.at <= Len(Listed[Eco]),
           build' = Skipped, processed' = processed,
           build.resume => Advisory \notin DOMAIN processed
    PROVE  /\ build' \in BuildInProgress /\ build'.eco = build.eco /\ build'.phase = "intake" /\ build' # NoBuild
           /\ FixInHand' /\ Resumed'
<1>1. build' = [build EXCEPT !.phase = "intake", !.at = @ + 1]
  BY DEF Skipped
<1>2. build' \in BuildInProgress
  <2>1. build.at + 1 \in Nat
    BY DEF BuildInProgress
  <2> QED  BY ONLY <1>1, <2>1, build \in BuildInProgress DEF BuildInProgress
<1>3. /\ build'.phase = "intake" /\ build'.eco = build.eco /\ build'.at = build.at + 1
      /\ build'.pairs = build.pairs /\ build'.cut = build.cut /\ build'.resume = build.resume
  BY <1>1 DEF BuildInProgress
<1>4. build' # NoBuild
  BY <1>3 DEF NoBuild
<1>5. FixInHand'
  BY <1>3 DEF FixInHand, Fetching
<1>6. build.at >= 1 /\ build.at \in Nat
  BY DEF Resumed, BuildInProgress
<1>7. Eco' = Eco /\ Passed' = Passed \cup {Advisory} /\ Len(Listed[Eco]) \in Nat
  BY <1>3, <1>6, PassedOne, InOrder
<1>8. build.resume => PairsOfRecorded(Passed)' = PairsOfRecorded(Passed)
  <2>1. build.resume => DOMAIN processed \cap (Passed \cup {Advisory}) = DOMAIN processed \cap Passed
    OBVIOUS
  <2> QED  BY <1>7, <2>1 DEF PairsOfRecorded
<1>9. Resumed'
  BY <1>3, <1>6, <1>7, <1>8 DEF Resumed, Fetching, Writing
<1> QED  BY <1>2, <1>3, <1>4, <1>5, <1>9

\* The run leaves the list, at its end or cut short.
LEMMA LeavesList ==
    ASSUME CorpusTypes, Resumed, build \in BuildInProgress, build # NoBuild, processed' = processed,
           \/ build' = [build EXCEPT !.phase = "persist"] /\ build.at > Len(Listed[Eco])
           \/ build' = [build EXCEPT !.phase = "persist", !.cut = TRUE]
           \/ build' = [build EXCEPT !.phase = "persist", !.limited = TRUE, !.cut = TRUE]
    PROVE  /\ build' \in BuildInProgress /\ build'.eco = build.eco /\ build'.phase = "persist" /\ build' # NoBuild
           /\ FixInHand' /\ Resumed'
<1>1. build' \in BuildInProgress
  BY ZenonT(60) DEF BuildInProgress
<1>2. /\ build'.phase = "persist" /\ build'.eco = build.eco /\ build'.at = build.at
      /\ build'.pairs = build.pairs /\ build'.resume = build.resume
      /\ build'.cut \/ (build'.cut = build.cut /\ build.at > Len(Listed[Eco]))
  BY DEF BuildInProgress
<1>3. build' # NoBuild
  BY <1>2 DEF NoBuild
<1>4. FixInHand'
  BY <1>2 DEF FixInHand, Fetching
<1>5. Eco' = Eco /\ Passed' = Passed /\ Len(Listed[Eco]) \in Nat
  BY <1>2, InOrder DEF Eco, Passed, BuildInProgress
<1>6. PairsOfRecorded(Passed)' = PairsOfRecorded(Passed)
  BY <1>5 DEF PairsOfRecorded
<1>7. Resumed'
  BY <1>1, <1>2, <1>5, <1>6, SMTT(30) DEF Resumed, Fetching, Writing, BuildInProgress
<1> QED  BY <1>1, <1>2, <1>3, <1>4, <1>7

\* The steps that keep the stores.
LEMMA StoresKept ==
    ASSUME CorpusInv, UNCHANGED <<answers, recorded, outputs, processed, builds>>,
           build' = NoBuild \/ build' \in BuildInProgress
    PROVE  /\ CorpusTypes' /\ AnswersTrue' /\ Complete(recorded.by)' /\ Complete(processed)'
BY DEF CorpusInv, CorpusTypes, AnswersTrue, Complete, Records

\* An advisory is taken up, passed over, or used as it was recorded.
LEMMA TakeAdvisoryInv ==
    ASSUME CorpusInv, TakeAdvisory
    PROVE  CorpusInv'
<1> USE DEF CorpusInv
<1>1. /\ build \in BuildInProgress /\ build # NoBuild /\ build.phase = "intake"
      /\ UNCHANGED <<answers, recorded, outputs, processed, builds>>
  BY DEF TakeAdvisory, Goes, CorpusTypes, NoBuild
<1>2. build.at \in Nat /\ build.at >= 1 /\ Eco \in ToSet(Ecosystems) /\ Len(Listed[Eco]) \in Nat
  BY <1>1, InOrder DEF Resumed, BuildInProgress, Eco
<1>3. SUFFICES /\ build' \in BuildInProgress /\ build'.eco = build.eco /\ build'.phase \notin Writing
               /\ FixInHand' /\ Resumed'
  BY <1>1, StoresKept, OutputsKept
<1>4. CASE build' = [build EXCEPT !.phase = "persist"] /\ build.at > Len(Listed[Eco])
  BY <1>1, <1>4, LeavesList DEF Writing
<1>5. CASE build' = [build EXCEPT !.phase = "persist", !.cut = TRUE]
  BY <1>1, <1>5, LeavesList DEF Writing
<1>6. CASE /\ build.at <= Len(Listed[Eco]) /\ build.resume /\ Advisory \in DOMAIN processed
           /\ build' = [Skipped EXCEPT !.pairs = Append(@, Entries(Advisory, processed[Advisory].pairs))]
  <2> DEFINE more == Append(build.pairs, Entries(Advisory, processed[Advisory].pairs))
  <2>1. Advisory \in Advisories /\ processed[Advisory].pairs \in SUBSET FixPair
    BY <1>6 DEF CorpusTypes, Records
  <2>2. more \in Seq(SUBSET Entry) /\ PairsIn(more) = PairsIn(build.pairs) \cup processed[Advisory].pairs
    BY <1>1, <2>1, AppendPairs DEF BuildInProgress
  <2> HIDE DEF more
  <2>3. build' = [build EXCEPT !.phase = "intake", !.at = @ + 1, !.pairs = more]
    BY <1>1, <1>6 DEF Skipped, BuildInProgress, more
  <2>4. build' \in BuildInProgress
    <3>1. build.at + 1 \in Nat
      BY <1>2
    <3> QED  BY ONLY <1>1, <2>2, <2>3, <3>1 DEF BuildInProgress
  <2>5. /\ build'.phase = "intake" /\ build'.eco = build.eco /\ build'.at = build.at + 1
        /\ build'.pairs = more /\ build'.cut = build.cut /\ build'.resume = build.resume
    BY <1>1, <2>3 DEF BuildInProgress
  <2>6. FixInHand'
    BY <2>5 DEF FixInHand, Fetching
  <2>7. Eco' = Eco /\ Passed' = Passed \cup {Advisory}
    BY <1>1, <1>2, <1>6, <2>5, PassedOne
  <2>8. PairsOfRecorded(Passed)' = PairsOfRecorded(Passed) \cup processed[Advisory].pairs
    <3>1. DOMAIN processed \cap (Passed \cup {Advisory}) = (DOMAIN processed \cap Passed) \cup {Advisory}
      BY <1>6
    <3> QED  BY <1>1, <2>7, <3>1 DEF PairsOfRecorded
  <2>9. Resumed'
    BY <1>1, <1>2, <1>6, <2>2, <2>5, <2>7, <2>8 DEF Resumed, Fetching, Writing
  <2> QED  BY <2>4, <2>5, <2>6, <2>9 DEF Writing
<1>7. CASE /\ build.at <= Len(Listed[Eco]) /\ ~(build.resume /\ Advisory \in DOMAIN processed)
           /\ build' = Skipped
  BY <1>1, <1>7, SkippedInv DEF Writing
<1>8. CASE /\ build.at <= Len(Listed[Eco]) /\ ~(build.resume /\ Advisory \in DOMAIN processed) /\ Fix # NoFix
           /\ build' = [build EXCEPT !.phase = "commit", !.attempted = @ + 1, !.got = {}, !.file = 1,
                           !.missed = FALSE, !.lost = FALSE]
  <2>1. build' \in BuildInProgress
    <3>1. build.attempted + 1 \in Nat
      BY <1>1 DEF BuildInProgress
    <3> QED  BY ONLY <1>1, <1>8, <3>1 DEF BuildInProgress, Fetching
  <2>2. /\ build'.phase = "commit" /\ build'.eco = build.eco /\ build'.at = build.at
        /\ build'.pairs = build.pairs /\ build'.cut = build.cut /\ build'.resume = build.resume
        /\ build'.got = {} /\ build'.file = 1 /\ ~build'.missed /\ ~build'.lost
    BY <1>1, <1>8 DEF BuildInProgress
  <2>3. Eco' = Eco /\ Advisory' = Advisory /\ Fix' = Fix /\ Passed' = Passed
    BY <2>2 DEF Eco, Advisory, Fix, Passed
  <2>4. FixInHand'
    <3>1. Advisory \in Advisories
      <4>1. build.at \in DOMAIN Listed[Eco]
        BY <1>2, <1>8, InOrder
      <4> QED  BY <1>2, <4>1, InOrder DEF Advisory
    <3>2. Fix \in Commits
      BY <1>8, <3>1 DEF Commits, Fix
    <3>3. Len(FilesOf[Fix]) \in Nat
      BY <3>2, InOrder
    <3>4. PairsUpTo(Fix, build'.file - 1) = {}
      BY <2>2 DEF PairsUpTo
    <3> QED  BY <1>1, <1>8, <2>2, <2>3, <3>3, <3>4 DEF FixInHand
  <2>5. PairsOfRecorded(Passed)' = PairsOfRecorded(Passed)
    BY <1>1, <2>3 DEF PairsOfRecorded
  <2>6. Resumed'
    BY <1>1, <1>2, <2>2, <2>3, <2>5 DEF Resumed, Fetching, Writing
  <2> QED  BY <2>1, <2>2, <2>4, <2>6 DEF Writing
<1> QED  BY <1>2, <1>4, <1>5, <1>6, <1>7, <1>8 DEF TakeAdvisory

\* get_json tells the truth, and the cache stays true.
LEMMA GetJsonTells ==
    ASSUME CorpusTypes, AnswersTrue, NEW r \in Requests, NEW reply, GetJson(r, reply)
    PROVE  /\ answers' \in [Requests -> {"none", "there", "gone", "torn"}] /\ AnswersTrue'
           /\ reply = "there" => r \notin Gone
           /\ reply = "gone" => r \in Gone
           /\ UNCHANGED <<recorded, outputs, processed, builds>>
<1>1. reply \in Replies(r) /\ UNCHANGED <<recorded, outputs, processed, builds>>
      /\ answers' = [answers EXCEPT ![r] = IF reply \in {"gone", "there"} THEN reply ELSE @]
  BY DEF GetJson
<1>2. (reply = "there" => r \notin Gone) /\ (reply = "gone" => r \in Gone)
  BY <1>1 DEF Replies, AnswersTrue
<1>3. answers' \in [Requests -> {"none", "there", "gone", "torn"}]
  BY <1>1 DEF CorpusTypes
<1>4. AnswersTrue'
  BY <1>1, <1>2 DEF AnswersTrue, CorpusTypes
<1> QED  BY <1>1, <1>2, <1>3, <1>4

\* What is in hand while a fix is fetched.
LEMMA InHand ==
    ASSUME CorpusTypes, FixInHand, Resumed, build \in BuildInProgress, build.phase \in Fetching
    PROVE  /\ build # NoBuild /\ build.at \in Nat /\ build.at >= 1 /\ build.at <= Len(Listed[Eco])
           /\ Eco \in ToSet(Ecosystems) /\ Advisory \in Advisories
           /\ Fix \in Commits /\ Len(FilesOf[Fix]) \in Nat
           /\ build.file \in Nat /\ build.file >= 1 /\ build.file <= Len(FilesOf[Fix]) + 1
           /\ build.file <= Len(FilesOf[Fix]) => FilesOf[Fix][build.file] \in Files
           /\ ~build.cut
<1>1. build # NoBuild /\ Eco \in ToSet(Ecosystems) /\ build.at \in Nat /\ build.file \in Nat
  BY InOrder DEF Fetching, NoBuild, Eco, BuildInProgress
<1>2. build.at >= 1 /\ build.at <= Len(Listed[Eco]) /\ Fix # NoFix /\ ~build.cut
      /\ build.file >= 1 /\ build.file <= Len(FilesOf[Fix]) + 1
  BY <1>1 DEF Resumed, FixInHand
<1>3. build.at \in DOMAIN Listed[Eco]
  BY <1>1, <1>2, InOrder
<1>4. Advisory \in Advisories
  BY <1>1, <1>3, InOrder DEF Advisory
<1>5. Fix \in Commits
  BY <1>2, <1>4 DEF Commits, Fix
<1>6. Len(FilesOf[Fix]) \in Nat /\ (build.file <= Len(FilesOf[Fix]) => FilesOf[Fix][build.file] \in Files)
  BY <1>1, <1>2, <1>5, InOrder
<1> QED  BY <1>1, <1>2, <1>4, <1>5, <1>6

\* A step that only moves within the fix keeps what was resumed.
LEMMA SameAdvisory ==
    ASSUME CorpusTypes, FixInHand, Resumed, build \in BuildInProgress, build.phase \in Fetching,
           build' # NoBuild, processed' = processed, build'.phase \in Fetching,
           build'.eco = build.eco, build'.at = build.at, build'.pairs = build.pairs,
           build'.cut = build.cut, build'.resume = build.resume
    PROVE  /\ Resumed' /\ Eco' = Eco /\ Advisory' = Advisory /\ Fix' = Fix
<1>1. Eco' = Eco /\ Advisory' = Advisory /\ Fix' = Fix /\ Passed' = Passed
  BY DEF Eco, Advisory, Fix, Passed
<1>2. PairsOfRecorded(Passed)' = PairsOfRecorded(Passed)
  BY <1>1 DEF PairsOfRecorded
<1>3. build # NoBuild
  BY InHand
<1> QED  BY <1>1, <1>2, <1>3 DEF Resumed, Fetching, Writing

\* The fix commit of an advisory is asked for.
LEMMA AskCommitInv ==
    ASSUME CorpusInv, AskCommit
    PROVE  CorpusInv'
<1> USE DEF CorpusInv
<1>1. build \in BuildInProgress /\ build.phase = "commit" /\ build.phase \in Fetching
  BY DEF AskCommit, Goes, CorpusTypes, NoBuild, Fetching
<1>2. PICK reply \in {"there", "gone", "miss", "failure", "limit", "torn"} :
        /\ GetJson(<<"commit", Fix>>, reply)
        /\ build' = CASE reply = "torn" -> NoBuild
                      [] reply = "limit" -> CutShort
                      [] reply = "there" -> [build EXCEPT !.phase = "post"]
                      [] OTHER -> Skipped
  BY DEF AskCommit
<1>3. <<"commit", Fix>> \in Requests
  BY <1>1, InHand DEF Requests
<1>4. /\ answers' \in [Requests -> {"none", "there", "gone", "torn"}] /\ AnswersTrue'
      /\ UNCHANGED <<recorded, outputs, processed, builds>>
  BY <1>2, <1>3, GetJsonTells
<1>5. SUFFICES /\ build' = NoBuild \/ (build' \in BuildInProgress /\ build'.eco = build.eco /\ build'.phase \notin Writing)
               /\ FixInHand' /\ Resumed'
  <2>1. CorpusTypes'
    BY <1>4, <1>5 DEF CorpusTypes, Records
  <2>2. OutputsDated' /\ OutputsApart'
    BY <1>1, <1>4, <1>5, OutputsKept, InHand
  <2>3. Complete(recorded.by)' /\ Complete(processed)'
    BY <1>4 DEF Complete
  <2> QED  BY <1>4, <1>5, <2>1, <2>2, <2>3
<1>6. CASE reply = "torn"
  BY <1>2, <1>6, RunOver
<1>7. CASE reply = "limit"
  <2>1. build' = [build EXCEPT !.phase = "persist", !.limited = TRUE, !.cut = TRUE]
    BY <1>2, <1>7 DEF CutShort
  <2> QED  BY <1>1, <1>4, <2>1, LeavesList, InHand DEF Writing
<1>8. CASE reply = "there"
  <2>1. build' = [build EXCEPT !.phase = "post"]
    BY <1>2, <1>8
  <2>2. build' \in BuildInProgress
    BY ONLY <1>1, <2>1 DEF BuildInProgress, Fetching
  <2>3. /\ build'.phase = "post" /\ build'.eco = build.eco /\ build'.at = build.at
        /\ build'.pairs = build.pairs /\ build'.cut = build.cut /\ build'.resume = build.resume
        /\ build'.got = build.got /\ build'.file = build.file
        /\ build'.missed = build.missed /\ build'.lost = build.lost
    BY <1>1, <2>1 DEF BuildInProgress
  <2>4. build' # NoBuild /\ build'.phase \in Fetching
    BY <2>3 DEF NoBuild, Fetching
  <2>5. Resumed' /\ Eco' = Eco /\ Advisory' = Advisory /\ Fix' = Fix
    BY <1>1, <1>4, <2>3, <2>4, SameAdvisory
  <2>6. FixInHand'
    BY <1>1, <1>4, <2>3, <2>4, <2>5 DEF FixInHand
  <2> QED  BY <2>2, <2>3, <2>5, <2>6 DEF Writing
<1>9. CASE reply \notin {"torn", "limit", "there"}
  <2>1. build' = Skipped
    BY <1>2, <1>9
  <2>2. build.resume => Advisory \notin DOMAIN processed
    BY <1>1 DEF FixInHand
  <2> QED  BY <1>1, <1>4, <2>1, <2>2, SkippedInv, InHand DEF Writing
<1> QED  BY <1>6, <1>7, <1>8, <1>9

\* One more file of a fix.
LEMMA OneMoreFile ==
    ASSUME NEW c, NEW n \in Nat, n >= 1
    PROVE  PairsUpTo(c, n) = PairsUpTo(c, n - 1)
                             \cup IF Reachable(FilesOf[c][n]) THEN PairsOf[FilesOf[c][n]] ELSE {}
<1>1. 1..n = 1..(n - 1) \cup {n}
  OBVIOUS
<1>2. \A i : i \in {j \in 1..n : Reachable(FilesOf[c][j])}
             <=> \/ i \in {j \in 1..(n - 1) : Reachable(FilesOf[c][j])}
                 \/ i = n /\ Reachable(FilesOf[c][n])
  BY <1>1
<1> QED  BY <1>2 DEF PairsUpTo

\* A version of a file of the fix is asked for.
LEMMA AskFileInv ==
    ASSUME CorpusInv, AskFile
    PROVE  CorpusInv'
<1> USE DEF CorpusInv
<1>1. /\ build \in BuildInProgress /\ build.phase \in {"post", "pre"} /\ build.phase \in Fetching
      /\ build.file <= Len(FilesOf[Fix])
  BY DEF AskFile, CorpusTypes, NoBuild, Fetching
<1> DEFINE f == FilesOf[Fix][build.file]
           noted(reply) == [build EXCEPT !.missed = @ \/ reply = "miss", !.lost = @ \/ reply = "failure"]
<1>2. PICK reply \in {"there", "gone", "miss", "failure", "limit", "torn"} :
        /\ GetJson(<<build.phase, f>>, reply)
        /\ build' = CASE reply = "torn" -> NoBuild
                      [] reply = "limit" -> CutShort
                      [] Goes("post") /\ reply \notin {"torn", "limit"} ->
                                [noted(reply) EXCEPT !.phase = "pre", !.posted = reply = "there"]
                      [] OTHER ->
                                [noted(reply) EXCEPT !.phase = "post", !.file = @ + 1, !.posted = FALSE,
                                              !.got = @ \cup IF build.posted /\ reply = "there"
                                                             THEN PairsOf[f] ELSE {}]
  BY DEF AskFile
<1>3. f \in Files /\ <<build.phase, f>> \in Requests
  BY <1>1, InHand DEF Requests
<1>4. /\ answers' \in [Requests -> {"none", "there", "gone", "torn"}] /\ AnswersTrue'
      /\ UNCHANGED <<recorded, outputs, processed, builds>>
      /\ reply = "there" => <<build.phase, f>> \notin Gone
      /\ reply = "gone" => <<build.phase, f>> \in Gone
  BY <1>2, <1>3, GetJsonTells
<1>5. SUFFICES /\ build' = NoBuild \/ (build' \in BuildInProgress /\ build'.eco = build.eco /\ build'.phase \notin Writing)
               /\ FixInHand' /\ Resumed'
  <2>1. CorpusTypes'
    BY <1>4, <1>5 DEF CorpusTypes, Records
  <2>2. OutputsDated' /\ OutputsApart'
    BY <1>1, <1>4, <1>5, OutputsKept, InHand
  <2>3. Complete(recorded.by)' /\ Complete(processed)'
    BY <1>4 DEF Complete
  <2> QED  BY <1>4, <1>5, <2>1, <2>2, <2>3
<1>6. CASE reply = "torn"
  BY <1>2, <1>6, RunOver
<1>7. CASE reply = "limit"
  <2>1. build' = [build EXCEPT !.phase = "persist", !.limited = TRUE, !.cut = TRUE]
    BY <1>2, <1>7 DEF CutShort
  <2> QED  BY <1>1, <1>4, <2>1, LeavesList, InHand DEF Writing
<1>8. CASE reply \notin {"torn", "limit"} /\ build.phase = "post"
  <2>1. build' = [build EXCEPT !.missed = @ \/ reply = "miss", !.lost = @ \/ reply = "failure",
                               !.phase = "pre", !.posted = reply = "there"]
    BY <1>1, <1>2, <1>8 DEF Goes, BuildInProgress
  <2>2. build' \in BuildInProgress
    <3>1. PICK m \in BOOLEAN, l \in BOOLEAN, p \in BOOLEAN :
            build' = [build EXCEPT !.missed = m, !.lost = l, !.phase = "pre", !.posted = p]
      BY <1>1, <2>1 DEF BuildInProgress
    <3> QED  BY ONLY <1>1, <3>1, ZenonT(60) DEF BuildInProgress, Fetching
  <2>3. /\ build'.phase = "pre" /\ build'.eco = build.eco /\ build'.at = build.at
        /\ build'.pairs = build.pairs /\ build'.cut = build.cut /\ build'.resume = build.resume
        /\ build'.got = build.got /\ build'.file = build.file
        /\ build'.missed = (build.missed \/ reply = "miss") /\ build'.lost = (build.lost \/ reply = "failure")
        /\ build'.posted = (reply = "there")
    BY <1>1, <2>1 DEF BuildInProgress
  <2>4. build' # NoBuild /\ build'.phase \in Fetching
    BY <2>3 DEF NoBuild, Fetching
  <2>5. Resumed' /\ Eco' = Eco /\ Advisory' = Advisory /\ Fix' = Fix
    BY <1>1, <1>4, <2>3, <2>4, SameAdvisory
  <2>6. ~build'.missed /\ ~build'.lost => (build'.posted <=> <<"post", f>> \notin Gone)
    BY <1>4, <1>8, <2>3
  <2>7. FixInHand'
    BY <1>1, <1>4, <1>8, <2>3, <2>4, <2>5, <2>6 DEF FixInHand
  <2> QED  BY <2>2, <2>3, <2>5, <2>7 DEF Writing
<1>9. CASE reply \notin {"torn", "limit"} /\ build.phase = "pre"
  <2> DEFINE more == IF build.posted /\ reply = "there" THEN PairsOf[f] ELSE {}
  <2>1. build' = [build EXCEPT !.missed = @ \/ reply = "miss", !.lost = @ \/ reply = "failure",
                               !.phase = "post", !.file = @ + 1, !.posted = FALSE, !.got = @ \cup more]
    BY <1>1, <1>2, <1>9 DEF Goes, BuildInProgress
  <2>2. build.file \in Nat /\ build.file >= 1 /\ build.file + 1 \in Nat
    BY <1>1, InHand
  <2>3. build.got \cup more \in SUBSET FixPair
    <3>1. more \subseteq FixPair
      BY <1>3 DEF FixPair
    <3> QED  BY <1>1, <3>1 DEF BuildInProgress
  <2> HIDE DEF more
  <2>4. build' \in BuildInProgress
    BY ONLY <1>1, <2>1, <2>2, <2>3, ZenonT(60) DEF BuildInProgress, Fetching
  <2>5. /\ build'.phase = "post" /\ build'.eco = build.eco /\ build'.at = build.at
        /\ build'.pairs = build.pairs /\ build'.cut = build.cut /\ build'.resume = build.resume
        /\ build'.got = build.got \cup more /\ build'.file = build.file + 1
        /\ build'.missed = (build.missed \/ reply = "miss") /\ build'.lost = (build.lost \/ reply = "failure")
    BY <1>1, <2>1 DEF BuildInProgress
  <2>6. build' # NoBuild /\ build'.phase \in Fetching
    BY <2>5 DEF NoBuild, Fetching
  <2>7. Resumed' /\ Eco' = Eco /\ Advisory' = Advisory /\ Fix' = Fix
    BY <1>1, <1>4, <2>5, <2>6, SameAdvisory
  <2>8. ~build'.missed /\ ~build'.lost => build'.got = PairsUpTo(Fix, build.file)
    <3>1. SUFFICES ASSUME ~build'.missed, ~build'.lost
                   PROVE  build'.got = PairsUpTo(Fix, build.file)
      OBVIOUS
    <3>2. ~build.missed /\ ~build.lost /\ reply \in {"there", "gone"}
      BY <1>9, <2>5, <3>1
    <3>3. build.got = PairsUpTo(Fix, build.file - 1) /\ (build.posted <=> <<"post", f>> \notin Gone)
      BY <1>1, <1>9, <3>2 DEF FixInHand
    <3>4. reply = "there" <=> <<"pre", f>> \notin Gone
      BY <1>4, <1>9, <3>2
    <3>5. Reachable(f) <=> build.posted /\ reply = "there"
      BY <3>3, <3>4 DEF Reachable
    <3>6. more = IF Reachable(f) THEN PairsOf[f] ELSE {}
      BY <3>5 DEF more
    <3> QED  BY <2>2, <2>5, <3>3, <3>6, OneMoreFile
  <2>9. build'.file - 1 = build.file /\ build'.file >= 1 /\ build'.file <= Len(FilesOf[Fix]) + 1
    BY <1>1, <2>2, <2>5, InHand
  <2>10. FixInHand'
    BY <1>1, <1>4, <2>5, <2>6, <2>7, <2>8, <2>9 DEF FixInHand
  <2> QED  BY <2>4, <2>5, <2>7, <2>10 DEF Writing
<1> QED  BY <1>1, <1>6, <1>7, <1>8, <1>9

\* All the files of a fix give all the pairs of its advisory.
LEMMA AllFiles ==
    ASSUME NEW a \in Advisories, FixOf[a] # NoFix
    PROVE  AllPairs(a) = PairsUpTo(FixOf[a], Len(FilesOf[FixOf[a]]))
<1> DEFINE F == FilesOf[FixOf[a]]
<1>1. FixOf[a] \in Commits
  BY DEF Commits
<1>2. DOMAIN F = 1..Len(F)
  BY <1>1, InOrder
<1>3. ToSet(F) = {F[i] : i \in 1..Len(F)}
  BY <1>2 DEF ToSet
<1>4. {g \in ToSet(F) : Reachable(g)} = {F[i] : i \in {j \in 1..Len(F) : Reachable(F[j])}}
  BY <1>3
<1> HIDE DEF F
<1>5. AllPairs(a) = UNION {PairsOf[f] : f \in {g \in ToSet(F) : Reachable(g)}}
  BY DEF AllPairs, Reachable, F
<1>6. PairsUpTo(FixOf[a], Len(F)) = UNION {PairsOf[F[i]] : i \in {j \in 1..Len(F) : Reachable(F[j])}}
  BY DEF PairsUpTo, F
<1> QED  BY <1>4, <1>5, <1>6 DEF F

\* A finished advisory is recorded with all its pairs, those of a failed request apart.
LEMMA RecordAdvisoryInv ==
    ASSUME CorpusInv, RecordAdvisory
    PROVE  CorpusInv'
<1> USE DEF CorpusInv
<1>1. /\ build \in BuildInProgress /\ build.phase = "post" /\ build.phase \in Fetching
      /\ build.file > Len(FilesOf[Fix]) /\ UNCHANGED <<answers, recorded, outputs, builds>>
  BY DEF RecordAdvisory, Goes, CorpusTypes, NoBuild, Fetching
<1>2. /\ build # NoBuild /\ build.at \in Nat /\ build.at >= 1 /\ build.at <= Len(Listed[Eco])
      /\ Eco \in ToSet(Ecosystems) /\ Advisory \in Advisories
      /\ Fix \in Commits /\ Len(FilesOf[Fix]) \in Nat
      /\ build.file \in Nat /\ build.file >= 1 /\ build.file <= Len(FilesOf[Fix]) + 1
      /\ ~build.cut
  BY <1>1, InHand
<1>3. SUFFICES /\ build' \in BuildInProgress /\ build'.eco = build.eco /\ build'.phase \notin Writing
               /\ Records(processed)' /\ Complete(processed)' /\ FixInHand' /\ Resumed'
  <2>1. CorpusTypes'
    BY <1>1, <1>3 DEF CorpusTypes, Records
  <2>2. OutputsDated' /\ OutputsApart'
    BY <1>1, <1>2, <1>3, OutputsKept
  <2>3. AnswersTrue' /\ Complete(recorded.by)'
    BY <1>1 DEF Complete, AnswersTrue
  <2> QED  BY <1>3, <2>1, <2>2, <2>3
<1>4. build.resume => Advisory \notin DOMAIN processed
  BY <1>1 DEF FixInHand
<1>5. CASE ~Usable(build.missed)
  <2>1. build' = Skipped /\ processed' = processed
    BY <1>5 DEF RecordAdvisory
  <2>2. Records(processed)' /\ Complete(processed)'
    BY <2>1 DEF CorpusTypes, Records, Complete
  <2> QED  BY <1>1, <1>2, <1>4, <2>1, <2>2, SkippedInv DEF Writing
<1>6. CASE Usable(build.missed)
  <2> DEFINE new == [pairs |-> build.got, lost |-> build.lost]
             more == Append(build.pairs, Entries(Advisory, build.got))
  <2>1. ~build.missed /\ build' = [Skipped EXCEPT !.pairs = more]
        /\ processed' = [a \in DOMAIN processed \cup {Advisory} |->
                            IF a = Advisory THEN new ELSE processed[a]]
    BY <1>1, <1>6 DEF RecordAdvisory, Usable, Skipped, BuildInProgress
  <2>2. build.got \in SUBSET FixPair /\ build.lost \in BOOLEAN /\ build.pairs \in Seq(SUBSET Entry)
    BY <1>1 DEF BuildInProgress
  <2>3. more \in Seq(SUBSET Entry) /\ PairsIn(more) = PairsIn(build.pairs) \cup build.got
    BY <1>2, <2>2, AppendPairs
  <2>4. new \in [pairs : SUBSET FixPair, lost : BOOLEAN] /\ new.pairs = build.got /\ new.lost = build.lost
    BY <2>2
  <2> HIDE DEF new, more
  <2>5. /\ DOMAIN processed' = DOMAIN processed \cup {Advisory}
        /\ processed'[Advisory] = new
        /\ \A a \in DOMAIN processed : a # Advisory => processed'[a] = processed[a]
    BY <2>1
  <2>6. Records(processed)'
    BY <1>2, <2>4, <2>5 DEF CorpusTypes, Records
  <2>7. Complete(processed)'
    <3>1. FixOf[Advisory] # NoFix /\ Fix = FixOf[Advisory]
      BY <1>2 DEF Commits, Fix
    <3>2. ~build.lost => build.got = AllPairs(Advisory)
      <4>1. build.file - 1 = Len(FilesOf[Fix])
        BY <1>1, <1>2
      <4>2. ~build.lost => build.got = PairsUpTo(Fix, build.file - 1)
        BY <1>1, <2>1 DEF FixInHand
      <4> QED  BY <1>2, <3>1, <4>1, <4>2, AllFiles
    <3> QED  BY <2>4, <2>5, <3>2 DEF Complete
  <2>8. build' = [build EXCEPT !.phase = "intake", !.at = @ + 1, !.pairs = more]
    BY <1>1, <2>1 DEF Skipped, BuildInProgress
  <2>9. build' \in BuildInProgress
    <3>1. build.at + 1 \in Nat
      BY <1>2
    <3> QED  BY ONLY <1>1, <2>3, <2>8, <3>1 DEF BuildInProgress
  <2>10. /\ build'.phase = "intake" /\ build'.eco = build.eco /\ build'.at = build.at + 1
         /\ build'.pairs = more /\ build'.cut = build.cut /\ build'.resume = build.resume
    BY <1>1, <2>8 DEF BuildInProgress
  <2>11. FixInHand'
    BY <2>10 DEF FixInHand, Fetching
  <2>12. Eco' = Eco /\ Passed' = Passed \cup {Advisory}
    BY <1>1, <1>2, <2>10, PassedOne
  <2>13. build.resume => PairsOfRecorded(Passed)' = PairsOfRecorded(Passed) \cup build.got
    <3>1. SUFFICES ASSUME build.resume
                   PROVE  PairsOfRecorded(Passed)' = PairsOfRecorded(Passed) \cup build.got
      OBVIOUS
    <3>2. DOMAIN processed' \cap Passed' = (DOMAIN processed \cap Passed) \cup {Advisory}
      BY <1>4, <2>5, <2>12, <3>1
    <3>3. \A a \in DOMAIN processed \cap Passed : processed'[a] = processed[a]
      BY <1>4, <2>5, <3>1
    <3> QED  BY <2>4, <2>5, <3>2, <3>3 DEF PairsOfRecorded
  <2>14. Resumed'
    <3>1. build.resume => PairsIn(build.pairs) = PairsOfRecorded(Passed)
      BY <1>2 DEF Resumed
    <3>2. build.resume => PairsIn(build'.pairs) = PairsOfRecorded(Passed)'
      BY <2>3, <2>10, <2>13, <3>1
    <3> QED  BY <1>2, <2>10, <2>12, <3>2 DEF Resumed, Fetching, Writing
  <2> QED  BY <2>6, <2>7, <2>9, <2>10, <2>11, <2>14 DEF Writing
<1> QED  BY <1>5, <1>6

\* An ecosystem that is finished: the run goes on as NextEcosystem says.
LEMMA EcosystemDone ==
    ASSUME CorpusInv, build \in BuildInProgress, build # NoBuild, build' = NextEcosystem, UNCHANGED <<answers, processed, builds>>,
           recorded' = recorded \/ recorded' = [torn |-> FALSE, by |-> processed],
           outputs' \in [ToSet(Ecosystems) -> [corpus : Output, rejected : Output, heldOut : Output]],
           \A e \in ToSet(Ecosystems) : e # Eco => outputs'[e] = outputs[e],
           \A f \in OutputFiles : /\ outputs'[Eco][f].of <= builds
                                  /\ outputs'[Eco][f].of = 0 => outputs'[Eco][f].pairs = {},
           OutputsApart'
    PROVE  CorpusInv'
<1> USE DEF CorpusInv
<1>1. builds > 0 /\ \A e \in ToSet(Ecosystems) : \A f \in OutputFiles :
          /\ outputs'[e][f].of <= builds
          /\ outputs'[e][f].of = 0 => outputs'[e][f].pairs = {}
  BY DEF OutputsDated
<1>2. \A i \in DOMAIN Ecosystems : i > build.eco => \A f \in OutputFiles : outputs'[Ecosystems[i]][f].of < builds
  <2>1. SUFFICES ASSUME NEW i \in DOMAIN Ecosystems, i > build.eco
                 PROVE  \A f \in OutputFiles : outputs'[Ecosystems[i]][f].of < builds
    OBVIOUS
  <2>2. build.eco \in DOMAIN Ecosystems /\ i # build.eco
    BY <2>1, InOrder DEF BuildInProgress
  <2>3. Ecosystems[i] # Eco
    BY <2>2, CorpusInputs DEF Eco
  <2>4. outputs'[Ecosystems[i]] = outputs[Ecosystems[i]]
    BY <2>3, InOrder
  <2>5. OfEarlierRuns(Ecosystems[i], OutputFiles)
    BY <2>1 DEF OutputsDated
  <2> QED  BY <2>4, <2>5 DEF OfEarlierRuns
<1>3. Settled
  BY <1>1, <1>2 DEF Settled
<1>4. (build' = NoBuild \/ build' \in BuildInProgress) /\ FixInHand' /\ Resumed' /\ OutputsDated'
  BY <1>3, NextEcosystemInv
<1>5. /\ Records(recorded'.by) /\ Complete(recorded'.by) /\ recorded' \in [torn : BOOLEAN, by : {recorded'.by}]
      /\ Records(processed') /\ Complete(processed')
  <2>1. Records(processed') /\ Complete(processed')
    BY DEF CorpusTypes, Records, Complete
  <2>2. CASE recorded' = recorded
    BY <2>1, <2>2 DEF CorpusTypes, Records, Complete
  <2>3. CASE recorded' = [torn |-> FALSE, by |-> processed]
    <3>1. recorded'.by = processed'
      BY <2>3
    <3> QED  BY <2>1, <2>3, <3>1
  <2> QED  BY <2>1, <2>2, <2>3
<1>6. CorpusTypes' /\ AnswersTrue' /\ Complete(recorded.by)' /\ Complete(processed)'
  BY <1>4, <1>5 DEF CorpusTypes, AnswersTrue, Complete, Records
<1> QED  BY <1>4, <1>6

\* The finished advisories are saved, and the held-out advisories drawn.
LEMMA PersistInv ==
    ASSUME CorpusInv, Persist
    PROVE  CorpusInv'
<1> USE DEF CorpusInv
<1>1. /\ build \in BuildInProgress /\ build # NoBuild /\ build.phase = "persist"
      /\ UNCHANGED <<answers, outputs, processed, builds>>
      /\ recorded' = [torn |-> FALSE, by |-> processed]
  <2>1. /\ build.phase = "persist" /\ UNCHANGED <<answers, outputs, processed, builds>>
        /\ recorded' = [torn |-> FALSE, by |-> processed]
    BY DEF Persist, Goes
  <2> QED  BY <2>1 DEF CorpusTypes, NoBuild
<1>2. OutputsApart'
  BY <1>1 DEF OutputsApart
<1> DEFINE all == FirstOnly(build.pairs)
           ids == {e.adv : e \in all}
<1>3. CASE build' = NextEcosystem
  <2>1. Eco \in ToSet(Ecosystems)
    BY <1>1, InOrder DEF Eco, BuildInProgress
  <2>2. \A f \in OutputFiles : /\ outputs'[Eco][f].of <= builds
                               /\ outputs'[Eco][f].of = 0 => outputs'[Eco][f].pairs = {}
    BY <1>1, <2>1 DEF OutputsDated
  <2>3. outputs' \in [ToSet(Ecosystems) -> [corpus : Output, rejected : Output, heldOut : Output]]
    BY <1>1 DEF CorpusTypes
  <2> QED  BY <1>1, <1>2, <1>3, <2>2, <2>3, EcosystemDone
<1>4. CASE \E held \in SUBSET ids :
             build' = [build EXCEPT !.phase = "corpus", !.held = {e \in all : e.adv \in held}]
  <2>1. PICK held \in SUBSET ids :
             build' = [build EXCEPT !.phase = "corpus", !.held = {e \in all : e.adv \in held}]
    BY <1>4
  <2>2. all \subseteq Entry
    BY <1>1, FirstHasAll DEF BuildInProgress
  <2> HIDE DEF all
  <2>3. {e \in all : e.adv \in held} \in SUBSET Entry
    BY <2>2
  <2>4. build' \in BuildInProgress
    BY ONLY <1>1, <2>1, <2>3 DEF BuildInProgress, Writing
  <2>5. /\ build'.phase = "corpus" /\ build'.eco = build.eco /\ build'.at = build.at
        /\ build'.pairs = build.pairs /\ build'.cut = build.cut /\ build'.resume = build.resume
        /\ build'.held = {e \in all : e.adv \in held}
    BY <1>1, <2>1 DEF BuildInProgress
  <2>6. build' # NoBuild
    BY <2>5 DEF NoBuild
  <2>7. Eco' = Eco /\ Passed' = Passed
    BY <2>5 DEF Eco, Passed
  <2>8. PairsOfRecorded(Passed)' = PairsOfRecorded(Passed)
    BY <1>1, <2>7 DEF PairsOfRecorded
  <2>9. FixInHand' /\ Resumed'
    BY <1>1, <2>5, <2>7, <2>8 DEF FixInHand, Resumed, Fetching, Writing
  <2>10. OutputsDated'
    <3>1. \A e, F : OfEarlierRuns(e, F)' <=> OfEarlierRuns(e, F)
      BY <1>1 DEF OfEarlierRuns
    <3>2. held \in SUBSET Advisories
      BY <2>2 DEF Entry
    <3>3. build'.held = {e \in FirstOnly(build'.pairs) : e.adv \in held}
      BY <2>5 DEF all
    <3> QED  BY <1>1, <2>5, <2>7, <3>1, <3>2, <3>3 DEF OutputsDated, Writing
  <2>11. Records(processed)' /\ Records(recorded.by)' /\ Complete(processed)' /\ Complete(recorded.by)'
    BY <1>1 DEF CorpusTypes, Records, Complete
  <2>12. CorpusTypes' /\ AnswersTrue'
    BY <1>1, <2>4, <2>11 DEF CorpusTypes, AnswersTrue
  <2> QED  BY <1>2, <2>9, <2>10, <2>11, <2>12, SMTT(30)
<1>5. QED
  BY <1>3, <1>4 DEF Persist

\* Writing a file of the ecosystem in hand.
LEMMA WriteFacts ==
    ASSUME CorpusTypes, build \in BuildInProgress, NEW f \in OutputFiles, NEW S \in SUBSET Entry, Write(f, S)
    PROVE  /\ outputs' \in [ToSet(Ecosystems) -> [corpus : Output, rejected : Output, heldOut : Output]]
           /\ Eco \in ToSet(Ecosystems)
           /\ \A e \in ToSet(Ecosystems) : e # Eco => outputs'[e] = outputs[e]
           /\ outputs'[Eco][f] = [of |-> builds, pairs |-> S]
           /\ \A g \in OutputFiles : g # f => outputs'[Eco][g] = outputs[Eco][g]
<1>1. Eco \in ToSet(Ecosystems)
  BY InOrder DEF Eco, BuildInProgress
<1>2. [of |-> builds, pairs |-> S] \in Output
  BY DEF CorpusTypes, Output
<1>3. outputs' = [outputs EXCEPT ![Eco][f] = [of |-> builds, pairs |-> S]]
  BY DEF Write
<1>4. outputs[Eco] \in [corpus : Output, rejected : Output, heldOut : Output]
  BY <1>1 DEF CorpusTypes
<1>5. [outputs[Eco] EXCEPT ![f] = [of |-> builds, pairs |-> S]]
        \in [corpus : Output, rejected : Output, heldOut : Output]
  BY <1>2, <1>4 DEF OutputFiles
<1>6. outputs'[Eco] = [outputs[Eco] EXCEPT ![f] = [of |-> builds, pairs |-> S]]
      /\ outputs' \in [ToSet(Ecosystems) -> [corpus : Output, rejected : Output, heldOut : Output]]
      /\ \A e \in ToSet(Ecosystems) : e # Eco => outputs'[e] = outputs[e]
  BY <1>1, <1>3, <1>5 DEF CorpusTypes
<1>7. outputs'[Eco][f] = [of |-> builds, pairs |-> S]
      /\ \A g \in OutputFiles : g # f => outputs'[Eco][g] = outputs[Eco][g]
  BY <1>4, <1>6 DEF OutputFiles
<1> QED  BY <1>1, <1>6, <1>7

\* The run stays in its ecosystem while it writes.
LEMMA SameEcosystem ==
    ASSUME CorpusInv, build \in BuildInProgress, build # NoBuild, UNCHANGED <<answers, recorded, processed, builds>>,
           build.phase \in Writing, NEW next \in Writing, build' = [build EXCEPT !.phase = next],
           outputs' \in [ToSet(Ecosystems) -> [corpus : Output, rejected : Output, heldOut : Output]]
    PROVE  /\ CorpusTypes' /\ AnswersTrue' /\ FixInHand' /\ Resumed'
           /\ Complete(recorded.by)' /\ Complete(processed)'
           /\ build' # NoBuild /\ build'.phase = next /\ Eco' = Eco /\ build'.eco = build.eco
           /\ build'.pairs = build.pairs /\ build'.held = build.held
<1> USE DEF CorpusInv
<1>1. build' \in BuildInProgress
  BY DEF BuildInProgress
<1>2. /\ build'.phase = next /\ build'.eco = build.eco /\ build'.at = build.at
      /\ build'.pairs = build.pairs /\ build'.cut = build.cut /\ build'.resume = build.resume
      /\ build'.held = build.held
  BY DEF BuildInProgress
<1>3. build' # NoBuild
  BY <1>2 DEF NoBuild, Writing
<1>4. Eco' = Eco /\ Passed' = Passed
  BY <1>2 DEF Eco, Passed
<1>5. PairsOfRecorded(Passed)' = PairsOfRecorded(Passed)
  BY <1>4 DEF PairsOfRecorded
<1>6. FixInHand' /\ Resumed'
  BY <1>2, <1>4, <1>5 DEF FixInHand, Resumed, Fetching, Writing
<1>7. Records(processed)' /\ Records(recorded.by)' /\ Complete(processed)' /\ Complete(recorded.by)'
  BY DEF CorpusTypes, Records, Complete
<1>8. CorpusTypes' /\ AnswersTrue'
  BY <1>1, <1>7 DEF CorpusTypes, AnswersTrue
<1> QED  BY <1>2, <1>3, <1>4, <1>6, <1>7, <1>8

\* The corpus of an ecosystem is written.
LEMMA WriteCorpusInv ==
    ASSUME CorpusInv, WriteCorpus
    PROVE  CorpusInv'
<1> DEFINE all == FirstOnly(build.pairs)
<1>1. /\ build \in BuildInProgress /\ build # NoBuild /\ build.phase = "corpus"
      /\ UNCHANGED <<answers, recorded, processed, builds>>
      /\ Write("corpus", CorpusOf(all)) /\ build' = [build EXCEPT !.phase = "rejected"]
  <2>1. /\ build.phase = "corpus" /\ UNCHANGED <<answers, recorded, processed, builds>>
        /\ Write("corpus", CorpusOf(all)) /\ build' = [build EXCEPT !.phase = "rejected"]
    BY DEF WriteCorpus, Goes, CorpusOf
  <2> QED  BY <2>1 DEF CorpusInv, CorpusTypes, NoBuild
<1>2. all \subseteq Entry
  BY <1>1, FirstHasAll DEF BuildInProgress
<1>3. CorpusOf(all) \in SUBSET Entry
  BY <1>2 DEF CorpusOf
<1> HIDE DEF all
<1>4. /\ outputs' \in [ToSet(Ecosystems) -> [corpus : Output, rejected : Output, heldOut : Output]]
      /\ Eco \in ToSet(Ecosystems)
      /\ \A e \in ToSet(Ecosystems) : e # Eco => outputs'[e] = outputs[e]
      /\ outputs'[Eco]["corpus"] = [of |-> builds, pairs |-> CorpusOf(all)]
      /\ \A g \in OutputFiles : g # "corpus" => outputs'[Eco][g] = outputs[Eco][g]
  BY <1>1, <1>3, WriteFacts DEF CorpusInv, OutputFiles
<1>5. /\ CorpusTypes' /\ AnswersTrue' /\ FixInHand' /\ Resumed'
      /\ Complete(recorded.by)' /\ Complete(processed)'
      /\ build' # NoBuild /\ build'.phase = "rejected" /\ Eco' = Eco /\ build'.eco = build.eco
      /\ build'.pairs = build.pairs /\ build'.held = build.held
  BY <1>1, <1>4, SameEcosystem DEF Writing
<1>6. builds > 0 /\ builds \in Nat /\ OfEarlierRuns(Eco, OutputFiles)
      /\ \A i \in DOMAIN Ecosystems : i > build.eco => OfEarlierRuns(Ecosystems[i], OutputFiles)
  BY <1>1 DEF CorpusInv, OutputsDated, CorpusTypes
<1>7. /\ outputs'[Eco].corpus.of = builds /\ outputs'[Eco].corpus.pairs = CorpusOf(all)
      /\ outputs'[Eco].rejected = outputs[Eco].rejected /\ outputs'[Eco].heldOut = outputs[Eco].heldOut
      /\ outputs[Eco].rejected.of < builds /\ outputs[Eco].heldOut.of < builds
      /\ outputs[Eco].rejected.of \in Nat /\ outputs[Eco].heldOut.of \in Nat
  BY <1>4, <1>6 DEF OutputFiles, OfEarlierRuns, CorpusInv, CorpusTypes, Output
<1>8. OutputsApart'
  BY <1>4, <1>6, <1>7 DEF CorpusInv, OutputsApart
<1>9. OutputsDated'
  <2>1. \A e \in ToSet(Ecosystems) : \A f \in OutputFiles :
          /\ outputs'[e][f].of <= builds
          /\ outputs'[e][f].of = 0 => outputs'[e][f].pairs = {}
    <3>1. \A f \in OutputFiles : /\ outputs'[Eco][f].of <= builds
                                 /\ outputs'[Eco][f].of = 0 => outputs'[Eco][f].pairs = {}
      BY <1>4, <1>6, <1>7 DEF CorpusInv, OutputsDated
    <3> QED  BY <1>4, <3>1 DEF CorpusInv, OutputsDated
  <2>2. \A i \in DOMAIN Ecosystems : i > build.eco => OfEarlierRuns(Ecosystems[i], OutputFiles)'
    <3>1. SUFFICES ASSUME NEW i \in DOMAIN Ecosystems, i > build.eco
                   PROVE  OfEarlierRuns(Ecosystems[i], OutputFiles)'
      OBVIOUS
    <3>2. build.eco \in DOMAIN Ecosystems /\ i # build.eco
      BY <1>1, <3>1, InOrder DEF BuildInProgress
    <3>3. outputs'[Ecosystems[i]] = outputs[Ecosystems[i]]
      BY <1>4, <3>2, CorpusInputs, InOrder DEF Eco
    <3> QED  BY <1>1, <1>6, <3>1, <3>3 DEF OfEarlierRuns
  <2>3. OfEarlierRuns(Eco, {"rejected", "heldOut"})'
    BY <1>1, <1>5, <1>7 DEF OfEarlierRuns
  <2>4. CorpusOf(FirstOnly(build.pairs))' = CorpusOf(all) /\ FirstOnly(build.pairs)' = all
    BY <1>5 DEF CorpusOf, all
  <2>5. \E H \in SUBSET Advisories : build'.held = {e \in FirstOnly(build'.pairs) : e.adv \in H}
    BY <1>1, <1>5 DEF CorpusInv, OutputsDated, Writing
  <2> QED  BY <1>1, <1>5, <1>6, <1>7, <2>1, <2>2, <2>3, <2>4, <2>5 DEF OutputsDated, Writing
<1> QED  BY <1>5, <1>8, <1>9 DEF CorpusInv

\* The rejected pairs are written: they share no pair with the corpus.
LEMMA WriteRejectedInv ==
    ASSUME CorpusInv, WriteRejected
    PROVE  CorpusInv'
<1> DEFINE all == FirstOnly(build.pairs)
<1>1. /\ build \in BuildInProgress /\ build # NoBuild /\ build.phase = "rejected"
      /\ UNCHANGED <<answers, recorded, processed, builds>>
      /\ Write("rejected", RejectedOf(all)) /\ build' = [build EXCEPT !.phase = "heldOut"]
  <2>1. /\ build.phase = "rejected" /\ UNCHANGED <<answers, recorded, processed, builds>>
        /\ Write("rejected", RejectedOf(all)) /\ build' = [build EXCEPT !.phase = "heldOut"]
    BY DEF WriteRejected, Goes
  <2> QED  BY <2>1 DEF CorpusInv, CorpusTypes, NoBuild
<1>2. all \subseteq Entry
  BY <1>1, FirstHasAll DEF BuildInProgress
<1>3. RejectedOf(all) \in SUBSET Entry
  BY <1>2 DEF RejectedOf
<1> HIDE DEF all
<1>4. /\ outputs' \in [ToSet(Ecosystems) -> [corpus : Output, rejected : Output, heldOut : Output]]
      /\ Eco \in ToSet(Ecosystems)
      /\ \A e \in ToSet(Ecosystems) : e # Eco => outputs'[e] = outputs[e]
      /\ outputs'[Eco]["rejected"] = [of |-> builds, pairs |-> RejectedOf(all)]
      /\ \A g \in OutputFiles : g # "rejected" => outputs'[Eco][g] = outputs[Eco][g]
  BY <1>1, <1>3, WriteFacts DEF CorpusInv, OutputFiles
<1>5. /\ CorpusTypes' /\ AnswersTrue' /\ FixInHand' /\ Resumed'
      /\ Complete(recorded.by)' /\ Complete(processed)'
      /\ build' # NoBuild /\ build'.phase = "heldOut" /\ Eco' = Eco /\ build'.eco = build.eco
      /\ build'.pairs = build.pairs /\ build'.held = build.held
  BY <1>1, <1>4, SameEcosystem DEF Writing
<1>6a. outputs[Eco].corpus.pairs = CorpusOf(all)
  BY <1>1 DEF CorpusInv, OutputsDated, all
<1>6. builds > 0 /\ builds \in Nat /\ OfEarlierRuns(Eco, {"rejected", "heldOut"})
      /\ \A i \in DOMAIN Ecosystems : i > build.eco => OfEarlierRuns(Ecosystems[i], OutputFiles)
  BY <1>1 DEF CorpusInv, OutputsDated, CorpusTypes
<1>7. /\ outputs'[Eco].rejected.of = builds /\ outputs'[Eco].rejected.pairs = RejectedOf(all)
      /\ outputs'[Eco].corpus = outputs[Eco].corpus /\ outputs'[Eco].heldOut = outputs[Eco].heldOut
      /\ outputs[Eco].heldOut.of < builds /\ outputs[Eco].heldOut.of \in Nat
  BY <1>4, <1>6 DEF OutputFiles, OfEarlierRuns, CorpusInv, CorpusTypes, Output
<1>8. OutputsApart'
  <2>1. \A x \in RejectedOf(all), y \in CorpusOf(all) : x.pair # y.pair
    BY RejectedByPair DEF CorpusOf
  <2>2. ASSUME NEW e \in ToSet(Ecosystems), e # Eco
        PROVE  /\ outputs'[e].corpus.of = outputs'[e].heldOut.of =>
                     \A x \in outputs'[e].corpus.pairs, y \in outputs'[e].heldOut.pairs : x.adv # y.adv
               /\ \A f \in {"corpus", "heldOut"} : outputs'[e].rejected.of = outputs'[e][f].of =>
                     \A x \in outputs'[e].rejected.pairs, y \in outputs'[e][f].pairs : x.pair # y.pair
    <3>1. outputs'[e] = outputs[e]
      BY <1>4, <2>2
    <3> QED  BY ONLY CorpusInv, <2>2, <3>1 DEF CorpusInv, OutputsApart
  <2>3. /\ outputs'[Eco].corpus.of = outputs'[Eco].heldOut.of =>
              \A x \in outputs'[Eco].corpus.pairs, y \in outputs'[Eco].heldOut.pairs : x.adv # y.adv
        /\ \A f \in {"corpus", "heldOut"} : outputs'[Eco].rejected.of = outputs'[Eco][f].of =>
              \A x \in outputs'[Eco].rejected.pairs, y \in outputs'[Eco][f].pairs : x.pair # y.pair
    <3>1. outputs[Eco].corpus.of = outputs[Eco].heldOut.of =>
              \A x \in outputs[Eco].corpus.pairs, y \in outputs[Eco].heldOut.pairs : x.adv # y.adv
      BY <1>4 DEF CorpusInv, OutputsApart
    <3>2. outputs'[Eco].rejected.of # outputs'[Eco].heldOut.of
      BY <1>6, <1>7
    <3>3. /\ outputs'[Eco].corpus = outputs[Eco].corpus /\ outputs'[Eco].heldOut = outputs[Eco].heldOut
          /\ outputs[Eco].corpus.pairs = CorpusOf(all) /\ outputs'[Eco].rejected.pairs = RejectedOf(all)
      BY <1>6a, <1>7
    <3> QED  BY ONLY <2>1, <3>1, <3>2, <3>3
  <2> QED  BY <2>2, <2>3 DEF OutputsApart
<1>9. OutputsDated'
  <2>1. \A e \in ToSet(Ecosystems) : \A f \in OutputFiles :
          /\ outputs'[e][f].of <= builds
          /\ outputs'[e][f].of = 0 => outputs'[e][f].pairs = {}
    <3>1. \A f \in OutputFiles : /\ outputs'[Eco][f].of <= builds
                                 /\ outputs'[Eco][f].of = 0 => outputs'[Eco][f].pairs = {}
      BY <1>4, <1>6, <1>7 DEF CorpusInv, OutputsDated
    <3> QED  BY <1>4, <3>1 DEF CorpusInv, OutputsDated
  <2>2. \A i \in DOMAIN Ecosystems : i > build.eco => OfEarlierRuns(Ecosystems[i], OutputFiles)'
    <3>1. SUFFICES ASSUME NEW i \in DOMAIN Ecosystems, i > build.eco
                   PROVE  OfEarlierRuns(Ecosystems[i], OutputFiles)'
      OBVIOUS
    <3>2. build.eco \in DOMAIN Ecosystems /\ i # build.eco
      BY <1>1, <3>1, InOrder DEF BuildInProgress
    <3>3. outputs'[Ecosystems[i]] = outputs[Ecosystems[i]]
      BY <1>4, <3>2, CorpusInputs, InOrder DEF Eco
    <3> QED  BY <1>1, <1>6, <3>1, <3>3 DEF OfEarlierRuns
  <2>3. OfEarlierRuns(Eco, {"heldOut"})'
    BY <1>1, <1>5, <1>7 DEF OfEarlierRuns
  <2>4. /\ CorpusOf(FirstOnly(build.pairs))' = CorpusOf(all)
        /\ RejectedOf(FirstOnly(build.pairs))' = RejectedOf(all)
    BY <1>5 DEF CorpusOf, all
  <2>5. \E H \in SUBSET Advisories : build'.held = {e \in FirstOnly(build'.pairs) : e.adv \in H}
    BY <1>1, <1>5 DEF CorpusInv, OutputsDated, Writing
  <2>6. builds' = builds /\ builds > 0 /\ build'.phase = "heldOut" /\ Eco' = Eco /\ build'.eco = build.eco
    BY <1>1, <1>5, <1>6
  <2>7. /\ outputs'[Eco].rejected.pairs = RejectedOf(FirstOnly(build.pairs))'
        /\ outputs'[Eco].corpus.pairs = CorpusOf(FirstOnly(build.pairs))'
    <3>1. /\ outputs'[Eco].corpus = outputs[Eco].corpus /\ outputs'[Eco].rejected.pairs = RejectedOf(all)
          /\ outputs[Eco].corpus.pairs = CorpusOf(all)
      BY <1>6a, <1>7
    <3> QED  BY <2>4, <3>1
  <2> QED  BY ONLY <2>1, <2>2, <2>3, <2>5, <2>6, <2>7 DEF OutputsDated, Writing
<1> QED  BY <1>5, <1>8, <1>9 DEF CorpusInv

\* The held-out pairs are written: they share no advisory with the corpus, no pair with the rejected.
LEMMA WriteHeldOutInv ==
    ASSUME CorpusInv, WriteHeldOut
    PROVE  CorpusInv'
<1> DEFINE all == FirstOnly(build.pairs)
           kept == build.held \ RejectedOf(all)
<1>1. /\ build \in BuildInProgress /\ build # NoBuild /\ build.phase = "heldOut"
      /\ UNCHANGED <<answers, recorded, processed, builds>>
      /\ UNCHANGED outputs \/ Write("heldOut", kept)
      /\ build' = NextEcosystem
  <2>1. /\ build.phase = "heldOut" /\ UNCHANGED <<answers, recorded, processed, builds>>
        /\ UNCHANGED outputs \/ Write("heldOut", kept)
        /\ build' = NextEcosystem
    BY DEF WriteHeldOut, Goes
  <2> QED  BY <2>1 DEF CorpusInv, CorpusTypes, NoBuild
<1>2. Eco \in ToSet(Ecosystems)
  BY <1>1, InOrder DEF Eco, BuildInProgress
<1>3. CASE UNCHANGED outputs
  <2>1. OutputsApart' /\ outputs' \in [ToSet(Ecosystems) -> [corpus : Output, rejected : Output, heldOut : Output]]
    BY <1>3 DEF CorpusInv, OutputsApart, CorpusTypes
  <2>2. \A f \in OutputFiles : /\ outputs'[Eco][f].of <= builds
                               /\ outputs'[Eco][f].of = 0 => outputs'[Eco][f].pairs = {}
    BY <1>2, <1>3 DEF CorpusInv, OutputsDated
  <2> QED  BY <1>1, <1>3, <2>1, <2>2, EcosystemDone
<1>4. CASE Write("heldOut", kept)
  <2>1. kept \in SUBSET Entry
    BY <1>1 DEF BuildInProgress
  <2>2. PICK H \in SUBSET Advisories : build.held = {e \in all : e.adv \in H}
    BY <1>1 DEF CorpusInv, OutputsDated, Writing
  <2> HIDE DEF all, kept
  <2>3. /\ outputs' \in [ToSet(Ecosystems) -> [corpus : Output, rejected : Output, heldOut : Output]]
        /\ \A e \in ToSet(Ecosystems) : e # Eco => outputs'[e] = outputs[e]
        /\ outputs'[Eco]["heldOut"] = [of |-> builds, pairs |-> kept]
        /\ \A g \in OutputFiles : g # "heldOut" => outputs'[Eco][g] = outputs[Eco][g]
    BY <1>1, <1>4, <2>1, WriteFacts DEF CorpusInv, OutputFiles
  <2>4. /\ builds > 0 /\ builds \in Nat
        /\ outputs[Eco].corpus.pairs = CorpusOf(all) /\ outputs[Eco].rejected.pairs = RejectedOf(all)
    BY <1>1 DEF CorpusInv, OutputsDated, CorpusTypes, all
  <2>5. /\ outputs'[Eco].heldOut.of = builds /\ outputs'[Eco].heldOut.pairs = kept
        /\ outputs'[Eco].corpus = outputs[Eco].corpus /\ outputs'[Eco].rejected = outputs[Eco].rejected
    BY <2>3 DEF OutputFiles
  <2>6. \A x \in CorpusOf(all), y \in kept : x.adv # y.adv
    BY <2>2 DEF CorpusOf, kept
  <2>7. \A x \in RejectedOf(all), y \in kept : x.pair # y.pair
    <3>1. kept \subseteq all \ RejectedOf(all)
      BY <2>2 DEF kept
    <3> QED  BY <3>1, RejectedByPair
  <2>8. OutputsApart'
    BY <1>2, <2>3, <2>4, <2>5, <2>6, <2>7 DEF CorpusInv, OutputsApart
  <2>9. \A f \in OutputFiles : /\ outputs'[Eco][f].of <= builds
                               /\ outputs'[Eco][f].of = 0 => outputs'[Eco][f].pairs = {}
    BY <1>2, <2>3, <2>4, <2>5 DEF CorpusInv, OutputsDated
  <2> QED  BY <1>1, <2>3, <2>8, <2>9, EcosystemDone
<1> QED  BY <1>1, <1>3, <1>4

\* A run that is killed leaves the files of its run apart.
LEMMA KillBuildInv ==
    ASSUME CorpusInv, KillBuild
    PROVE  CorpusInv'
<1> USE DEF CorpusInv
<1>1. build' = NoBuild /\ UNCHANGED <<outputs, processed, builds>>
  BY DEF KillBuild
<1>2. FixInHand' /\ Resumed' /\ OutputsDated' /\ OutputsApart'
  BY <1>1, RunOver, OutputsKept
<1>3. /\ recorded' \in [torn : BOOLEAN, by : {recorded'.by}] /\ recorded'.by = recorded.by
      /\ answers' \in [Requests -> {"none", "there", "gone", "torn"}] /\ AnswersTrue'
  <2>1. CASE UNCHANGED <<answers, recorded>>
    BY <2>1 DEF CorpusTypes, AnswersTrue
  <2>2. CASE recorded' = [recorded EXCEPT !.torn = TRUE] /\ UNCHANGED answers
    BY <2>2 DEF CorpusTypes, AnswersTrue
  <2>3. CASE answers' = [answers EXCEPT ![<<"commit", Fix>>] = "torn"] /\ UNCHANGED recorded
    BY <2>3 DEF CorpusTypes, AnswersTrue
  <2> QED  BY <2>1, <2>2, <2>3 DEF KillBuild
<1>4. /\ Records(processed)' /\ Records(recorded.by)' /\ Complete(processed)' /\ Complete(recorded.by)'
  BY <1>1, <1>3 DEF CorpusTypes, Records, Complete
<1>5. CorpusTypes'
  BY <1>1, <1>3, <1>4 DEF CorpusTypes
<1> QED  BY <1>2, <1>3, <1>4, <1>5

\* Every step of the builder keeps the invariant.
LEMMA CorpusStep == CorpusInv /\ [CorpusNext]_corpusVars => CorpusInv'
<1> SUFFICES ASSUME CorpusInv, [CorpusNext]_corpusVars PROVE CorpusInv'
  OBVIOUS
<1>1. CASE UNCHANGED corpusVars
  <2>1. UNCHANGED <<Eco, Advisory, Fix, Passed>>
    BY <1>1 DEF corpusVars, Eco, Advisory, Fix, Passed
  <2>2. FixInHand' /\ Resumed'
    BY <1>1, <2>1 DEF corpusVars, CorpusInv, FixInHand, Resumed, PairsOfRecorded
  <2>3. OutputsApart'
    BY <1>1 DEF corpusVars, CorpusInv, OutputsApart
  <2>4. OutputsDated'
    <3>1. UNCHANGED <<outputs, build, builds>>
      BY <1>1 DEF corpusVars
    <3>2. \A e, F : OfEarlierRuns(e, F)' <=> OfEarlierRuns(e, F)
      BY <3>1 DEF OfEarlierRuns
    <3>3. /\ CorpusOf(FirstOnly(build.pairs))' = CorpusOf(FirstOnly(build.pairs))
          /\ RejectedOf(FirstOnly(build.pairs))' = RejectedOf(FirstOnly(build.pairs))
          /\ FirstOnly(build.pairs)' = FirstOnly(build.pairs)
      BY <3>1 DEF CorpusOf
    <3> QED  BY ONLY CorpusInv, <2>1, <3>1, <3>2, <3>3 DEF CorpusInv, OutputsDated
  <2> QED  BY <1>1, <2>2, <2>3, <2>4 DEF corpusVars, CorpusInv, CorpusTypes, AnswersTrue, Records, Complete
<1>2. QED
  BY <1>1, StartBuildInv, OpenZipInv, TakeAdvisoryInv, AskCommitInv, AskFileInv, RecordAdvisoryInv,
     PersistInv, WriteCorpusInv, WriteRejectedInv, WriteHeldOutInv, KillBuildInv DEF CorpusNext

\* The invariant holds at the start.
LEMMA CorpusStart == CorpusInit => CorpusInv
<1> SUFFICES ASSUME CorpusInit PROVE CorpusInv
  OBVIOUS
<1>1. /\ answers = [r \in Requests |-> "none"] /\ recorded = [torn |-> FALSE, by |-> <<>>] /\ processed = <<>>
      /\ outputs = [e \in ToSet(Ecosystems) |-> [corpus |-> NoFile, rejected |-> NoFile, heldOut |-> NoFile]]
      /\ build = NoBuild /\ builds = 0
  BY DEF CorpusInit
<1>2. NoFile \in Output /\ NoFile.of = 0 /\ NoFile.pairs = {}
  BY DEF NoFile, Output
<1>3. DOMAIN <<>> = {}
  OBVIOUS
<1>4. Records(processed) /\ Records(recorded.by) /\ Complete(processed) /\ Complete(recorded.by)
  BY <1>1, <1>3 DEF Records, Complete
<1>5. CorpusTypes /\ AnswersTrue
  BY <1>1, <1>2, <1>4 DEF CorpusTypes, AnswersTrue
<1>6. FixInHand /\ Resumed
  BY <1>1 DEF FixInHand, Resumed, NoBuild, Fetching
<1>7. OutputsDated
  BY <1>1, <1>2 DEF OutputsDated, OutputFiles
<1>8. OutputsApart
  BY <1>1, <1>2 DEF OutputsApart
<1> QED  BY <1>4, <1>5, <1>6, <1>7, <1>8 DEF CorpusInv

\* CorpusAddsUp is what the invariant says of a run that writes.
LEMMA CorpusGoal == CorpusInv => CorpusAddsUp
<1> SUFFICES ASSUME CorpusInv PROVE CorpusAddsUp
  OBVIOUS
<1>1. Goes("corpus") /\ build.resume /\ ~build.cut =>
          {e.pair : e \in FirstOnly(build.pairs)}
             = UNION {processed[a].pairs : a \in DOMAIN processed \cap ToSet(Listed[Eco])}
  <2>1. SUFFICES ASSUME build.phase = "corpus", build.resume, ~build.cut
                 PROVE  {e.pair : e \in FirstOnly(build.pairs)}
                          = UNION {processed[a].pairs : a \in DOMAIN processed \cap ToSet(Listed[Eco])}
    BY DEF Goes
  <2>2. build # NoBuild /\ build \in BuildInProgress
    BY <2>1 DEF CorpusInv, CorpusTypes, NoBuild
  <2>3. PairsIn(build.pairs) = PairsOfRecorded(Passed) /\ build.at = Len(Listed[Eco]) + 1
    BY <2>1, <2>2 DEF CorpusInv, Resumed, Writing
  <2>4. Eco \in ToSet(Ecosystems)
    BY <2>2, InOrder DEF Eco, BuildInProgress
  <2>5. DOMAIN Listed[Eco] = 1..(build.at - 1)
    BY <2>3, <2>4, InOrder
  <2>6. Passed = ToSet(Listed[Eco])
    BY <2>5 DEF Passed, ToSet
  <2>7. {e.pair : e \in FirstOnly(build.pairs)} = PairsIn(build.pairs)
    BY <2>2, FirstHasAll DEF BuildInProgress
  <2> QED  BY <2>3, <2>6, <2>7 DEF PairsOfRecorded
<1>2. ASSUME NEW e \in ToSet(Ecosystems)
      PROVE  LET written == outputs[e]
                 pairs(f) == {x.pair : x \in written[f].pairs}
                 advisories(f) == {x.adv : x \in written[f].pairs}
             IN  /\ written.corpus.of = written.heldOut.of => advisories("corpus") \cap advisories("heldOut") = {}
                 /\ \A f \in {"corpus", "heldOut"} :
                       written.rejected.of = written[f].of => pairs("rejected") \cap pairs(f) = {}
  <2>1. /\ outputs[e].corpus.of = outputs[e].heldOut.of =>
              \A x \in outputs[e].corpus.pairs, y \in outputs[e].heldOut.pairs : x.adv # y.adv
        /\ \A f \in {"corpus", "heldOut"} : outputs[e].rejected.of = outputs[e][f].of =>
              \A x \in outputs[e].rejected.pairs, y \in outputs[e][f].pairs : x.pair # y.pair
    BY DEF CorpusInv, OutputsApart
  <2> QED  BY <2>1
<1> QED  BY <1>1, <1>2 DEF CorpusInv, CorpusAddsUp

\* However runs are cut, killed, resumed or offline, the corpus is what GitHub holds, and the
\* files of a run are apart, for any archives, commits and files (build_corpus_from_osv.main).
THEOREM CorpusSound == Spec => []CorpusAddsUp
<1>1. Init => CorpusInv
  BY CorpusStart DEF Init
<1>2. CorpusInv /\ [Next]_vars => CorpusInv'
  <2>1. [Next]_vars => [CorpusNext]_corpusVars
    BY DEF Next, vars
  <2> QED  BY <2>1, CorpusStep
<1>3. CorpusInv => CorpusAddsUp
  BY CorpusGoal
<1> QED  BY <1>1, <1>2, <1>3, PTL DEF Spec

------------------------------------------------------------------------------
(* The evaluation's runs.                                                  *)

\* A record with just the fields of a run.
ARun(r) == r = [pc |-> r.pc, limits |-> r.limits, calls |-> r.calls, tokens |-> r.tokens,
                rateLimited |-> r.rateLimited, stopped |-> r.stopped, memory |-> r.memory,
                job |-> r.job, log |-> r.log, failed |-> r.failed, notRun |-> r.notRun,
                records |-> r.records]
IsSequence(s) == s \in Seq({s[i] : i \in DOMAIN s})
RunTypes ==
    /\ ARun(run) /\ IsSequence(run.log) /\ IsSequence(run.records)
    /\ run.limits \in [calls : Nat, tokens : Nat] /\ run.calls \in Nat /\ run.job \in Nat \ {0}
    /\ run.calls <= run.limits.calls
EvalTypes ==
    /\ harness \in {"pr", "unit"} /\ RunTypes
    /\ IsSequence(file) /\ (\A i \in DOMAIN file : file[i].readable)
    /\ torn \in BOOLEAN
    /\ IsSequence(bills) /\ (\A i \in DOMAIN bills : bills[i].kept \in BOOLEAN)

\* What the process knows is what the file keeps, and what it paid for since the file lost it.
LostKey(k) == \E i \in DOMAIN bills : bills[i].key = k /\ ~bills[i].kept
MemoryKept ==
    run.pc = "items" =>
        /\ \A k \in DOMAIN Loaded : Cached(Loaded, k) => Cached(run.memory, k) /\ run.memory[k] = Loaded[k]
        /\ \A k \in DOMAIN run.memory : Cached(run.memory, k) => Cached(Loaded, k) \/ LostKey(k)
PaidOnce ==
    /\ \A i, j \in DOMAIN bills : i # j /\ bills[i].key = bills[j].key => ~(bills[i].kept /\ bills[j].kept)
    /\ \A i \in DOMAIN bills : bills[i].kept => Cached(Loaded, bills[i].key)

\* The calls of an item: each was the next one, and its answer is known if it had one.
Prefix(log, n) == [j \in 1..n |-> log[j]]
Known == {"real", "cached", "ok"}
Says(memory, key, said) == Cached(memory, key) /\ memory[key] = said
LogOf(task, memory, log) ==
    \A i \in DOMAIN log :
        /\ log[i].prompt = NextPrompt(task.item, Prefix(log, i - 1)) /\ log[i].prompt # Done
        /\ log[i].how \in Known => Says(memory, KeyOf(task, log[i].prompt), log[i].answer)
        /\ log[i].how \notin Known => log[i].answer = "none"
LogSound ==
    /\ harness = "unit" => run.log = <<>>
    /\ LogOf(Job, run.memory, run.log)
    /\ \A i \in DOMAIN run.log : run.log[i].how \in {"real", "cached"} \/ run.notRun \/ run.failed
RecordOf(r, memory) ==
    /\ r.job.item \in DOMAIN Items /\ IsSequence(r.log) /\ LogOf(r.job, memory, r.log)
    /\ Scored(r) => /\ \A i \in DOMAIN r.log : r.log[i].how \in Known
                    /\ NextPrompt(r.job.item, r.log) = Done
RecordsSound == \A n \in DOMAIN run.records : RecordOf(run.records[n], run.memory)

\* What was claimed of an item none of whose answers was lost can be read off the file.
NoneLost(task) == \A i \in DOMAIN bills : ~bills[i].kept => <<bills[i].key[1], bills[i].key[2]>> # <<task.item, task.repeat>>
WholeLog(task, memory, log) ==
    /\ IsSequence(log) /\ LogOf(task, memory, log) /\ NextPrompt(task.item, log) = Done
    /\ \A i \in DOMAIN log : log[i].how \in Known
WholeTold(x) ==
    \E log : WholeLog(x.job, Loaded, log) /\ (x.hit <=> View(x.view, x.job.item, log) # {})
SettledTold(x) ==
    /\ x.hit /\ x.view = "raw"
    /\ \E log : IsSequence(log) /\ LogOf(x.job, Loaded, log) /\ SettledFinding(x.job.item, log)
ToldOf(x) ==
    /\ x.job.item \in DOMAIN Items /\ x.hit \in BOOLEAN
    /\ x.firm => WholeTold(x) \/ SettledTold(x)
ToldSound == \A x \in told : NoneLost(x.job) => ToldOf(x)

EvalInv == EvalTypes /\ MemoryKept /\ PaidOnce /\ LogSound /\ RecordsSound /\ ToldSound


------------------------------------------------------------------------------
\* A sequence is its places in order; one entry more.
LEMMA SequenceGrows ==
    ASSUME NEW s, IsSequence(s)
    PROVE  /\ Len(s) \in Nat /\ DOMAIN s = 1..Len(s)
           /\ \A e : /\ IsSequence(Append(s, e)) /\ Len(Append(s, e)) = Len(s) + 1
                     /\ DOMAIN Append(s, e) = 1..(Len(s) + 1)
                     /\ \A i \in 1..Len(s) : Append(s, e)[i] = s[i]
                     /\ Append(s, e)[Len(s) + 1] = e
<1>1. Len(s) \in Nat /\ DOMAIN s = 1..Len(s)
  BY LenProperties DEF IsSequence
<1>2. ASSUME NEW e
      PROVE  /\ IsSequence(Append(s, e)) /\ Len(Append(s, e)) = Len(s) + 1
             /\ DOMAIN Append(s, e) = 1..(Len(s) + 1)
             /\ \A i \in 1..Len(s) : Append(s, e)[i] = s[i]
             /\ Append(s, e)[Len(s) + 1] = e
  <2> DEFINE S == {s[i] : i \in DOMAIN s} \cup {e}
             t == Append(s, e)
  <2>1. s \in Seq(S)
    <3>1. s \in Seq({s[i] : i \in DOMAIN s})
      BY DEF IsSequence
    <3>2. \A i \in 1..Len(s) : s[i] \in S
      BY <1>1
    <3>3. s = [i \in 1..Len(s) |-> s[i]]
      BY <3>1, <1>1, SeqDef
    <3> HIDE DEF S
    <3>4. s \in [1..Len(s) -> S]
      BY <3>2, <3>3
    <3> QED  BY <1>1, <3>4, SeqDef
  <2>2. e \in S
    OBVIOUS
  <2>3. t \in Seq(S) /\ Len(t) = Len(s) + 1 /\ (\A i \in 1..Len(s) : t[i] = s[i]) /\ t[Len(s) + 1] = e
    <3> HIDE DEF S
    <3> QED  BY <2>1, <2>2, AppendProperties
  <2>4. DOMAIN t = 1..(Len(s) + 1)
    <3> HIDE DEF t, S
    <3> QED  BY <2>3, LenProperties
  <2>5. t \in Seq({t[i] : i \in DOMAIN t})
    <3>1. t \in [1..(Len(s) + 1) -> S]
      <4> HIDE DEF t, S
      <4> QED  BY <2>3, <2>4, SeqDef
    <3>2. t \in [1..(Len(s) + 1) -> {t[i] : i \in DOMAIN t}]
      <4> HIDE DEF t, S
      <4> QED  BY <3>1, <2>4
    <3>3. Len(s) + 1 \in Nat
      BY <1>1
    <3> HIDE DEF t, S
    <3> QED  BY <3>2, <3>3, SeqDef
  <2> HIDE DEF t, S
  <2>6. IsSequence(t)
    BY <2>5 DEF IsSequence
  <2> QED  BY <2>3, <2>4, <2>6 DEF t
<1> QED  BY <1>1, <1>2

\* The empty sequence is one.
LEMMA EmptySequence == IsSequence(<<>>) /\ DOMAIN <<>> = {}
<1>1. DOMAIN <<>> = {}
  OBVIOUS
<1>2. <<>> \in Seq({<<>>[i] : i \in DOMAIN <<>>})
  BY EmptySeq
<1> QED  BY <1>1, <1>2 DEF IsSequence

\* There is one empty log.
LEMMA EmptyLog ==
    ASSUME NEW s, IsSequence(s)
    PROVE  Len(s) = 0 <=> s = <<>>
<1>1. Len(s) \in Nat /\ DOMAIN s = 1..Len(s)
  BY SequenceGrows
<1>2. ASSUME Len(s) = 0 PROVE s = <<>>
  BY <1>2, EmptySeq, LenProperties DEF IsSequence
<1> QED  BY <1>2, EmptySeq

\* A log up to where it was, and with one call more.
LEMMA PrefixFacts ==
    ASSUME NEW s, IsSequence(s)
    PROVE  /\ Prefix(s, Len(s)) = s
           /\ \A e : \A n \in 0..Len(s) : Prefix(Append(s, e), n) = Prefix(s, n)
           /\ \A n \in 0..Len(s) : IsSequence(Prefix(s, n)) /\ Len(Prefix(s, n)) = n /\ DOMAIN Prefix(s, n) = 1..n
                                   /\ \A i \in 1..n : Prefix(s, n)[i] = s[i]
<1>1. Len(s) \in Nat /\ DOMAIN s = 1..Len(s)
  BY SequenceGrows
<1>2. s = [i \in 1..Len(s) |-> s[i]]
  BY <1>1, SeqDef DEF IsSequence
<1>3. Prefix(s, Len(s)) = s
  BY <1>2 DEF Prefix
<1>4. ASSUME NEW e, NEW n \in 0..Len(s) PROVE Prefix(Append(s, e), n) = Prefix(s, n)
  <2>1. \A i \in 1..n : Append(s, e)[i] = s[i]
    <3>1. \A i \in 1..n : i \in 1..Len(s)
      BY <1>1
    <3> QED  BY <3>1, SequenceGrows
  <2> QED  BY <2>1 DEF Prefix
<1>5. ASSUME NEW n \in 0..Len(s)
      PROVE  IsSequence(Prefix(s, n)) /\ Len(Prefix(s, n)) = n /\ DOMAIN Prefix(s, n) = 1..n
             /\ \A i \in 1..n : Prefix(s, n)[i] = s[i]
  <2> DEFINE p == Prefix(s, n)
  <2>1. DOMAIN p = 1..n /\ (\A i \in 1..n : p[i] = s[i]) /\ p = [i \in 1..n |-> p[i]]
    BY DEF Prefix
  <2>2. n \in Nat
    BY <1>1
  <2> HIDE DEF p
  <2>3. p \in [1..n -> {p[i] : i \in DOMAIN p}]
    BY <2>1
  <2>4. p \in Seq({p[i] : i \in DOMAIN p})
    BY <2>2, <2>3, SeqDef
  <2>5. Len(p) = n
    BY <2>1, <2>2, <2>4, LenProperties
  <2> QED  BY <2>1, <2>4, <2>5 DEF p, IsSequence
<1> QED  BY <1>3, <1>4, <1>5

------------------------------------------------------------------------------
\* Two logs up to n say the same.
Agree(a, b, n) == \A i \in 1..n : a[i].prompt = b[i].prompt /\ a[i].answer = b[i].answer

\* What comes next and what was found depend on the prompts and answers alone.
LEMMA NextOfExchange ==
    ASSUME NEW a, NEW b, IsSequence(a), IsSequence(b), Len(a) = Len(b), Agree(a, b, Len(a)), NEW item
    PROVE  /\ NextPrompt(item, a) = NextPrompt(item, b)
           /\ \A name : View(name, item, a) = View(name, item, b)
           /\ Exchange(a) = Exchange(b)
<1>1. DOMAIN a = 1..Len(a) /\ DOMAIN b = 1..Len(a)
  BY SequenceGrows
<1>2. \A i \in DOMAIN a : a[i].prompt = b[i].prompt /\ a[i].answer = b[i].answer
  BY <1>1 DEF Agree
<1>3. /\ \A chunks : FoundIn(a, chunks) = FoundIn(b, chunks)
      /\ \A c : {j \in DOMAIN a : FindsIn(a[j], c)} = {j \in DOMAIN b : FindsIn(b[j], c)}
  BY <1>1, <1>2 DEF FoundIn, FindsIn
<1>4. Verifications(a) = Verifications(b) /\ \A c : Verified(a, c) = Verified(b, c)
  BY <1>1, <1>2 DEF Verified, Verifications
<1>5. NextPrompt(item, a) = NextPrompt(item, b)
  <2>1. \A chunks : {c \in FoundIn(a, chunks) : ~Verified(a, c)} = {c \in FoundIn(b, chunks) : ~Verified(b, c)}
    BY <1>3, <1>4
  <2>2. \A c : FoundBy(a, c) = FoundBy(b, c)
    BY <1>1, <1>2, <1>3 DEF FoundBy
  <2>3. \A chunks : NextAudit(a, chunks) = NextAudit(b, chunks)
    <3>1. CASE Len(a) = 0
      <4>1. a = <<>> /\ b = <<>>
        BY <3>1, EmptyLog
      <4>2. a = b
        BY <4>1
      <4> QED  BY <4>2
    <3>2. CASE Len(a) # 0
      <4>1. Len(a) \in DOMAIN a /\ a # <<>> /\ b # <<>>
        BY <1>1, <3>2, SequenceGrows, EmptyLog
      <4> QED  BY <1>2, <4>1 DEF NextAudit
    <3> QED  BY <3>1, <3>2
  <2> QED  BY <1>4, <2>1, <2>2, <2>3 DEF NextPrompt
<1>6. Raw(item, a) = Raw(item, b)
  BY <1>3 DEF Raw
<1>7. Confirmed(item, a) = Confirmed(item, b)
  BY <1>1, <1>2, <1>4, <1>6 DEF Confirmed, Verifications
<1>8. Exchange(a) = Exchange(b)
  BY <1>1, <1>2 DEF Exchange
<1> QED  BY <1>5, <1>6, <1>7, <1>8 DEF View

\* The number of chunks of an item.
LEMMA ChunksNat ==
    ASSUME NEW item \in DOMAIN Items, harness \in {"pr", "unit"}
    PROVE  Chunks(item) \in Nat /\ (harness = "unit" => Chunks(item) <= 1)
<1>1. Items[item] \in Nat
  BY EvalBounds, ElementOfSeq, LenProperties
<1>2. Min({1, Items[item]}) \in {1, Items[item]} /\ Min({1, Items[item]}) <= 1
  <2>1. \E x \in {1, Items[item]} : \A y \in {1, Items[item]} : x <= y
    BY <1>1
  <2> QED  BY <1>1, <2>1 DEF Min
<1> QED  BY <1>1, <1>2 DEF Chunks

\* The calls an item may have.
LEMMA BudgetNat == Budget \in Nat
BY EvalBounds DEF Budget

\* A call of the audit has its place: the n-th of the item, for one of its chunks.
AuditCall(p, n, chunks) == p[1] = "audit" /\ p[3] = n /\ p[2] \in 1..chunks /\ n <= Budget

\* The audit goes on until it is done, and after the first verifier call it is.
LEMMA NextCall ==
    ASSUME NEW item, Chunks(item) \in Nat, NEW l, IsSequence(l), NextPrompt(item, l) # Done,
           Len(l) # 0 => \/ AuditCall(l[Len(l)].prompt, Len(l), Chunks(item))
                         \/ l[Len(l)].prompt[1] = "verify"
    PROVE  \/ /\ AuditCall(NextPrompt(item, l), Len(l) + 1, Chunks(item))
              /\ NextPrompt(item, l) = NextAudit(l, Chunks(item))
              /\ Len(l) # 0 => AuditCall(l[Len(l)].prompt, Len(l), Chunks(item))
           \/ NextPrompt(item, l)[1] = "verify" /\ Cardinality(Verifications(l)) < VerifierCap
<1> DEFINE chunks == Chunks(item)
           next == NextAudit(l, chunks)
<1>0. chunks \in Nat /\ Budget \in Nat /\ Len(l) \in Nat
  BY BudgetNat, SequenceGrows
<1>1. CASE next = Done
  BY <1>1 DEF NextPrompt
<1>2. CASE next # Done
  <2>1. NextPrompt(item, l) = next
    BY <1>2 DEF NextPrompt
  <2> HIDE DEF chunks
  <2>2. CASE Len(l) = 0
    <3>1. next = NewChunk(1, 1, chunks)
      BY <2>2, EmptyLog DEF NextAudit
    <3> HIDE DEF next
    <3>2. next = <<"audit", 1, 1, <<>>>> /\ 1 <= chunks /\ 1 <= Budget
      BY <1>2, <3>1 DEF NewChunk
    <3>3. AuditCall(next, Len(l) + 1, chunks)
      BY <1>0, <2>2, <3>2 DEF AuditCall
    <3> QED  BY <2>1, <2>2, <3>3 DEF next, chunks
  <2>3. CASE Len(l) # 0
    <3> DEFINE p == l[Len(l)].prompt
               said == l[Len(l)].answer
    <3>1. next = AfterCall(p, said, chunks)
      BY <2>3, EmptyLog DEF NextAudit
    <3>2. AuditCall(p, Len(l), chunks) \/ p[1] = "verify"
      BY <2>3 DEF chunks
    <3> HIDE DEF next, p, said
    <3>3. AuditCall(p, Len(l), chunks)
      BY <1>2, <3>1, <3>2 DEF AfterCall
    <3>4. p[3] = Len(l) /\ p[2] \in 1..chunks /\ p[1] # "verify"
      BY <3>3 DEF AuditCall
    <3>5. AuditCall(next, Len(l) + 1, chunks)
      <4>1. CASE said \in {"ask", "both", "old"} /\ MayAsk(p, chunks)
        <5>1. next = <<"audit", p[2], p[3] + 1, Append(p[4], said)>>
          BY <3>1, <3>4, <4>1 DEF AfterCall
        <5>2. p[3] + (chunks - p[2]) < Budget
          BY <4>1 DEF MayAsk
        <5>3. Len(l) + 1 <= Budget
          BY <1>0, <3>4, <5>2
        <5> QED  BY <3>4, <5>1, <5>3 DEF AuditCall
      <4>2. CASE ~(said \in {"ask", "both", "old"} /\ MayAsk(p, chunks))
        <5>1. next = NewChunk(p[2] + 1, p[3] + 1, chunks)
          BY <3>1, <3>4, <4>2 DEF AfterCall
        <5>2. next = <<"audit", p[2] + 1, Len(l) + 1, <<>>>> /\ p[2] + 1 <= chunks /\ Len(l) + 1 <= Budget
          BY <1>2, <3>4, <5>1 DEF NewChunk
        <5>3. p[2] + 1 \in 1..chunks
          BY <1>0, <3>4, <5>2
        <5> QED  BY <5>2, <5>3 DEF AuditCall
      <4> QED  BY <4>1, <4>2
    <3> QED  BY <2>1, <3>3, <3>5 DEF next, chunks, p
  <2> QED  BY <2>2, <2>3
<1> QED  BY <1>1, <1>2

\* A log is calls of the audit, each the next one, and calls of the verifier after them.
LEMMA LogShape ==
    ASSUME NEW task, task.item \in DOMAIN Items, harness \in {"pr", "unit"}, NEW memory, NEW log,
           IsSequence(log), LogOf(task, memory, log), NEW i \in 1..Len(log)
    PROVE  \/ /\ AuditCall(log[i].prompt, i, Chunks(task.item))
              /\ log[i].prompt = NextAudit(Prefix(log, i - 1), Chunks(task.item))
              /\ i # 1 => AuditCall(log[i - 1].prompt, i - 1, Chunks(task.item))
           \/ log[i].prompt[1] = "verify" /\ Cardinality(Verifications(Prefix(log, i - 1))) < VerifierCap
<1> DEFINE chunks == Chunks(task.item)
           Audit(n) == /\ AuditCall(log[n].prompt, n, chunks)
                       /\ log[n].prompt = NextAudit(Prefix(log, n - 1), chunks)
                       /\ n # 1 => AuditCall(log[n - 1].prompt, n - 1, chunks)
           Verify(n) == log[n].prompt[1] = "verify" /\ Cardinality(Verifications(Prefix(log, n - 1))) < VerifierCap
           P == {n \in Nat : n \in 1..Len(log) => Audit(n) \/ Verify(n)}
<1>0. chunks \in Nat /\ Len(log) \in Nat /\ DOMAIN log = 1..Len(log)
  BY ChunksNat, SequenceGrows
<1>1. ASSUME NEW n \in 1..Len(log),
             n # 1 => AuditCall(log[n - 1].prompt, n - 1, chunks) \/ log[n - 1].prompt[1] = "verify"
      PROVE  Audit(n) \/ Verify(n)
  <2> DEFINE l == Prefix(log, n - 1)
  <2>1. n - 1 \in 0..Len(log) /\ n \in DOMAIN log
    BY <1>0
  <2>2. /\ IsSequence(l) /\ Len(l) = n - 1 /\ \A j \in 1..(n - 1) : l[j] = log[j]
    BY <2>1, PrefixFacts
  <2>3. log[n].prompt = NextPrompt(task.item, l) /\ log[n].prompt # Done
    BY <2>1 DEF LogOf
  <2> HIDE DEF l
  <2>4. Len(l) # 0 => n # 1 /\ l[Len(l)] = log[n - 1]
    BY <1>0, <2>1, <2>2
  <2>5. (Len(l) + 1 = n) /\ (n # 1 => Len(l) # 0)
    BY <1>0, <2>1, <2>2
  <2>6. Len(l) # 0 => AuditCall(l[Len(l)].prompt, Len(l), chunks) \/ l[Len(l)].prompt[1] = "verify"
    BY <1>1, <2>2, <2>4
  <2>7. \/ /\ AuditCall(NextPrompt(task.item, l), Len(l) + 1, chunks)
           /\ NextPrompt(task.item, l) = NextAudit(l, chunks)
           /\ Len(l) # 0 => AuditCall(l[Len(l)].prompt, Len(l), chunks)
        \/ NextPrompt(task.item, l)[1] = "verify" /\ Cardinality(Verifications(l)) < VerifierCap
    BY <1>0, <2>2, <2>3, <2>6, NextCall
  <2> HIDE DEF chunks
  <2>8. n # 1 /\ (Len(l) # 0 => AuditCall(l[Len(l)].prompt, Len(l), chunks))
        => AuditCall(log[n - 1].prompt, n - 1, chunks)
    BY <2>2, <2>4, <2>5
  <2> QED  BY <2>3, <2>5, <2>7, <2>8 DEF l
<1> HIDE DEF Audit, Verify
<1>2. 0 \in P
  OBVIOUS
<1>3. ASSUME NEW n \in Nat, n \in P PROVE n + 1 \in P
  <2>1. SUFFICES ASSUME n + 1 \in 1..Len(log) PROVE Audit(n + 1) \/ Verify(n + 1)
    OBVIOUS
  <2>2. (n + 1) - 1 = n /\ (n + 1 # 1 => n \in 1..Len(log))
    BY <1>0, <2>1
  <2>3. n + 1 # 1 => AuditCall(log[n].prompt, n, chunks) \/ log[n].prompt[1] = "verify"
    BY <1>3, <2>2 DEF Audit, Verify
  <2> HIDE DEF P, chunks
  <2> QED  BY <1>1, <2>1, <2>2, <2>3
<1>4. Nat \subseteq P
  <2> HIDE DEF P
  <2> QED  BY <1>2, <1>3, SetInduction
<1>5. i \in P /\ i \in 1..Len(log)
  BY <1>0, <1>4
<1> QED  BY <1>5 DEF Audit, Verify

\* A log is one of a bounded number of calls.
LEMMA LogBounds ==
    ASSUME NEW task, task.item \in DOMAIN Items, harness \in {"pr", "unit"}, NEW memory, NEW log,
           IsSequence(log), LogOf(task, memory, log)
    PROVE  Len(log) <= Budget + VerifierCap
<1> DEFINE L == Len(log)
           l == Prefix(log, L - 1)
           chunks == Chunks(task.item)
<1>0. Budget \in Nat /\ VerifierCap \in Nat /\ L \in Nat
  BY BudgetNat, EvalBounds, SequenceGrows
<1>1. CASE L = 0
  BY <1>0, <1>1
<1>2. CASE L # 0 /\ AuditCall(log[L].prompt, L, chunks)
  BY <1>0, <1>2 DEF AuditCall
<1>3. CASE L # 0 /\ ~AuditCall(log[L].prompt, L, chunks)
  <2>1. L \in 1..L /\ L - 1 \in 0..L /\ L - 1 \in Int /\ Budget + 1 \in Int
    BY <1>0, <1>3
  <2>2. Cardinality(Verifications(l)) < VerifierCap
    BY <1>3, <2>1, LogShape
  <2>3. DOMAIN l = 1..(L - 1) /\ \A j \in 1..(L - 1) : l[j] = log[j]
    BY <2>1, PrefixFacts
  <2> HIDE DEF l
  <2>4. ASSUME NEW j \in (Budget + 1)..(L - 1) PROVE j \in Verifications(l)
    <3>1. j \in 1..L /\ j \in 1..(L - 1) /\ ~(j <= Budget)
      BY <1>0, <2>1, <2>4
    <3>2. ~AuditCall(log[j].prompt, j, chunks)
      BY <3>1 DEF AuditCall
    <3>3. log[j].prompt[1] = "verify"
      BY <3>1, <3>2, LogShape
    <3> QED  BY <2>3, <3>1, <3>3 DEF Verifications
  <2>5. IsFiniteSet(1..(L - 1)) /\ Verifications(l) \in SUBSET (1..(L - 1))
    <3>1. IsFiniteSet(1..(L - 1))
      BY <2>1, FS_Interval
    <3>2. Verifications(l) \subseteq 1..(L - 1)
      BY <2>3 DEF Verifications
    <3> QED  BY <3>1, <3>2
  <2>6. IsFiniteSet(Verifications(l)) /\ Cardinality(Verifications(l)) \in Nat
    BY <2>5, FS_Subset, FS_CardinalityType
  <2>7. Cardinality((Budget + 1)..(L - 1)) <= Cardinality(Verifications(l))
    BY <2>4, <2>6, FS_Subset
  <2>8. Cardinality((Budget + 1)..(L - 1)) = IF Budget + 1 > L - 1 THEN 0 ELSE (L - 1) - (Budget + 1) + 1
    BY <2>1, FS_Interval
  <2> DEFINE v == Cardinality(Verifications(l))
             c == Cardinality((Budget + 1)..(L - 1))
  <2> HIDE DEF v, c, L
  <2> QED  BY <1>0, <2>2, <2>6, <2>7, <2>8 DEF v, c, L
<1> QED  BY <1>1, <1>2, <1>3

\* A settled finding of a log is one of every whole log of the job: up to it both make the same
\* calls, because the calls that failed could not have asked for a round.
LEMMA SettledFound ==
    ASSUME NEW task, task.item \in DOMAIN Items, harness \in {"pr", "unit"}, NEW memory, NEW a, NEW b,
           WholeLog(task, memory, a), IsSequence(b), LogOf(task, memory, b), SettledFinding(task.item, b)
    PROVE  View("raw", task.item, a) # {}
<1> DEFINE chunks == Chunks(task.item)
<1>0. /\ IsSequence(a) /\ Len(a) \in Nat /\ DOMAIN a = 1..Len(a) /\ chunks \in Nat
      /\ IsSequence(b) /\ Len(b) \in Nat /\ DOMAIN b = 1..Len(b)
      /\ LogOf(task, memory, a) /\ NextPrompt(task.item, a) = Done
  BY ChunksNat, SequenceGrows DEF WholeLog
<1>1. PICK n \in 1..Len(b) : /\ FindsIn(b[n], b[n].prompt[2])
                             /\ \A j \in 1..n : ~Unsettles(b[j], chunks)
  BY <1>0 DEF SettledFinding
<1> HIDE DEF chunks
<1>2. ASSUME NEW i \in 1..n
      PROVE  /\ AuditCall(b[i].prompt, i, chunks) /\ b[i].prompt = NextAudit(Prefix(b, i - 1), chunks)
             /\ i # 1 => AuditCall(b[i - 1].prompt, i - 1, chunks)
  <2> DEFINE Audit(j) == /\ AuditCall(b[j].prompt, j, chunks) /\ b[j].prompt = NextAudit(Prefix(b, j - 1), chunks)
                         /\ j # 1 => AuditCall(b[j - 1].prompt, j - 1, chunks)
             P == {k \in Nat : k < n => Audit(n - k)}
  <2>1. ASSUME NEW j \in 1..n, b[j].prompt[1] = "audit" PROVE Audit(j)
    <3>1. j \in 1..Len(b)
      BY <1>0
    <3>2. Audit(j) \/ b[j].prompt[1] = "verify"
      BY <1>0, <3>1, LogShape DEF chunks
    <3> QED  BY <2>1, <3>2
  <2>2. 0 \in P
    <3>1. n \in 1..n /\ b[n].prompt[1] = "audit" /\ n - 0 = n
      BY <1>0, <1>1 DEF FindsIn
    <3> QED  BY <2>1, <3>1
  <2>3. ASSUME NEW k \in Nat, k \in P PROVE k + 1 \in P
    <3>1. SUFFICES ASSUME k + 1 < n PROVE Audit(n - (k + 1))
      OBVIOUS
    <3>2. k < n /\ n - k # 1 /\ (n - k) - 1 = n - (k + 1) /\ n - (k + 1) \in 1..n
      BY <1>0, <3>1
    <3>3. AuditCall(b[n - (k + 1)].prompt, n - (k + 1), chunks)
      BY <2>3, <3>2
    <3>4. b[n - (k + 1)].prompt[1] = "audit"
      BY <3>3 DEF AuditCall
    <3> HIDE DEF P, Audit
    <3> QED  BY <2>1, <3>2, <3>4
  <2>4. Nat \subseteq P
    <3> HIDE DEF P
    <3> QED  BY <2>2, <2>3, SetInduction
  <2>5. n - i \in Nat /\ n - i < n /\ n - (n - i) = i
    BY <1>0
  <2>6. n - i \in P
    BY <2>4, <2>5
  <2> HIDE DEF Audit
  <2>7. Audit(i)
    BY <2>5, <2>6
  <2> QED  BY <2>7 DEF Audit
<1> DEFINE Q(i) == i \in 1..n => i \in 1..Len(a) /\ a[i].prompt = b[i].prompt
           P == {i \in Nat : Q(i)}
<1>3. ASSUME NEW i \in 1..n, NextAudit(Prefix(a, i - 1), chunks) = NextAudit(Prefix(b, i - 1), chunks),
             i - 1 \in 0..Len(a)
      PROVE  i \in 1..Len(a) /\ a[i].prompt = b[i].prompt
  <2>1. b[i].prompt = NextAudit(Prefix(b, i - 1), chunks) /\ b[i].prompt # Done
    BY <1>0, <1>2 DEF LogOf
  <2>2. NextPrompt(task.item, Prefix(a, i - 1)) = b[i].prompt
    BY <1>3, <2>1 DEF NextPrompt, chunks
  <2>3. i - 1 # Len(a)
    BY <1>0, <2>1, <2>2, PrefixFacts
  <2>4. i \in 1..Len(a)
    BY <1>0, <1>3, <2>3
  <2> QED  BY <1>0, <2>2, <2>4 DEF LogOf
<1>4. 0 \in P
  OBVIOUS
<1>5. ASSUME NEW i \in Nat, i \in P PROVE i + 1 \in P
  <2>1. SUFFICES ASSUME i + 1 \in 1..n PROVE i + 1 \in 1..Len(a) /\ a[i + 1].prompt = b[i + 1].prompt
    OBVIOUS
  <2>2. (i + 1) - 1 = i
    OBVIOUS
  <2>3. CASE i = 0
    <3>1. 0 \in 0..Len(a) /\ 0 \in 0..Len(b)
      BY <1>0
    <3>2. Prefix(a, 0) = <<>> /\ Prefix(b, 0) = <<>>
      BY <1>0, <3>1, PrefixFacts, EmptyLog
    <3> QED  BY <1>3, <2>1, <2>2, <2>3, <3>1, <3>2
  <2>4. CASE i # 0
    <3>1. i \in 1..n /\ i \in 0..Len(b) /\ i \in 1..Len(b)
      BY <1>0, <2>1, <2>4
    <3>2. i \in 1..Len(a) /\ i \in 0..Len(a) /\ a[i].prompt = b[i].prompt
      BY <1>0, <1>5, <3>1
    <3>3. /\ IsSequence(Prefix(a, i)) /\ Len(Prefix(a, i)) = i /\ Prefix(a, i)[i] = a[i] /\ Prefix(a, i) # <<>>
          /\ IsSequence(Prefix(b, i)) /\ Len(Prefix(b, i)) = i /\ Prefix(b, i)[i] = b[i] /\ Prefix(b, i) # <<>>
      <4>1. i \in 1..i
        BY <3>1
      <4> QED  BY <1>0, <2>4, <3>1, <3>2, <4>1, PrefixFacts, EmptyLog
    <3> HIDE DEF P
    <3>4. /\ NextAudit(Prefix(a, i), chunks) = AfterCall(b[i].prompt, a[i].answer, chunks)
          /\ NextAudit(Prefix(b, i), chunks) = AfterCall(b[i].prompt, b[i].answer, chunks)
      BY <3>2, <3>3 DEF NextAudit
    <3>5. CASE b[i].how \in Known
      <4>1. a[i].answer = b[i].answer
        BY <1>0, <3>1, <3>2, <3>5 DEF LogOf, Says, WholeLog
      <4> QED  BY <1>3, <2>1, <2>2, <3>2, <3>4, <4>1
    <3>6. CASE b[i].how \notin Known
      <4>1. b[i].answer = "none"
        BY <1>0, <3>1, <3>6 DEF LogOf
      <4>2. ~MayAsk(b[i].prompt, chunks)
        BY <1>1, <3>1, <4>1 DEF Unsettles
      <4>3. AfterCall(b[i].prompt, a[i].answer, chunks) = AfterCall(b[i].prompt, b[i].answer, chunks)
        BY <4>2 DEF AfterCall
      <4> QED  BY <1>3, <2>1, <2>2, <3>2, <3>4, <4>3
    <3> QED  BY <3>5, <3>6
  <2> QED  BY <2>3, <2>4
<1>6. Nat \subseteq P
  <2> HIDE DEF P
  <2> QED  BY <1>4, <1>5, SetInduction
<1>7. n \in 1..Len(a) /\ a[n].prompt = b[n].prompt /\ n \in 1..n
  <2>1. n \in P /\ n \in 1..n
    BY <1>0, <1>6
  <2> QED  BY <2>1
<1> HIDE DEF P
<1>8. b[n].answer \in Finds /\ b[n].prompt[1] = "audit"
  BY <1>1 DEF FindsIn
<1>9. a[n].answer = b[n].answer
  <2>1. b[n].answer # "none"
    BY <1>8 DEF Finds
  <2>2. b[n].how \in Known
    BY <1>0, <2>1 DEF LogOf
  <2> QED  BY <1>0, <1>7, <2>2 DEF LogOf, Says, WholeLog
<1>10. b[n].prompt[2] \in 1..chunks
  BY <1>2, <1>7 DEF AuditCall
<1>11. b[n].prompt[2] \in FoundIn(a, chunks)
  BY <1>0, <1>7, <1>8, <1>9, <1>10 DEF FoundIn, FindsIn
<1> QED  BY <1>11 DEF View, Raw, chunks

------------------------------------------------------------------------------
\* Two memories that do not contradict each other.
Compatible(m, n) == \A k : Cached(m, k) /\ Cached(n, k) => m[k] = n[k]

\* A whole log is the only one of its job that compatible memories tell: another log agrees
\* with it as far as it goes, and goes no further.
LEMMA OneWholeLog ==
    ASSUME NEW task, NEW m, NEW n, Compatible(m, n), NEW a, NEW b,
           WholeLog(task, m, a), IsSequence(b), LogOf(task, n, b), \A i \in DOMAIN b : b[i].how \in Known
    PROVE  Len(b) <= Len(a) /\ Agree(a, b, Len(b))
<1>0. /\ IsSequence(a) /\ IsSequence(b) /\ Len(a) \in Nat /\ Len(b) \in Nat
      /\ DOMAIN a = 1..Len(a) /\ DOMAIN b = 1..Len(b)
  BY SequenceGrows DEF WholeLog
<1> DEFINE Q(i) == i <= Len(b) => i <= Len(a) /\ Agree(a, b, i)
           P == {i \in Nat : Q(i)}
<1>1. 0 \in P
  BY <1>0 DEF Agree
<1>2. ASSUME NEW i \in Nat, i \in P PROVE i + 1 \in P
  <2>1. SUFFICES ASSUME i + 1 <= Len(b) PROVE i + 1 <= Len(a) /\ Agree(a, b, i + 1)
    OBVIOUS
  <2>2. i \in 0..Len(a) /\ i \in 0..Len(b) /\ Agree(a, b, i) /\ i + 1 \in 1..Len(b) /\ (i + 1) - 1 = i
    BY <1>0, <1>2, <2>1
  <2>3. /\ IsSequence(Prefix(a, i)) /\ Len(Prefix(a, i)) = i /\ \A j \in 1..i : Prefix(a, i)[j] = a[j]
        /\ IsSequence(Prefix(b, i)) /\ Len(Prefix(b, i)) = i /\ \A j \in 1..i : Prefix(b, i)[j] = b[j]
    BY <1>0, <2>2, PrefixFacts
  <2>4. NextPrompt(task.item, Prefix(a, i)) = NextPrompt(task.item, Prefix(b, i))
    <3>1. Agree(Prefix(a, i), Prefix(b, i), i)
      BY <2>2, <2>3 DEF Agree
    <3> QED  BY <2>3, <3>1, NextOfExchange
  <2>5. /\ b[i + 1].prompt = NextPrompt(task.item, Prefix(b, i)) /\ b[i + 1].prompt # Done
        /\ Says(n, KeyOf(task, b[i + 1].prompt), b[i + 1].answer)
    BY <1>0, <2>2 DEF LogOf
  <2>6. i < Len(a)
    <3>1. i # Len(a)
      <4>1. SUFFICES ASSUME i = Len(a) PROVE FALSE
        OBVIOUS
      <4>2. Prefix(a, i) = a
        BY <1>0, <4>1, PrefixFacts
      <4> QED  BY <2>4, <2>5, <4>2 DEF WholeLog
    <3>2. i \in 0..Len(a) /\ Len(a) \in Nat
      BY <1>0, <2>2
    <3> HIDE DEF P
    <3> QED  BY ONLY <3>1, <3>2
  <2>7. i + 1 \in DOMAIN a
    BY <1>0, <2>2, <2>6
  <2>8. /\ a[i + 1].prompt = NextPrompt(task.item, Prefix(a, i))
        /\ Says(m, KeyOf(task, a[i + 1].prompt), a[i + 1].answer)
    BY <2>2, <2>7 DEF WholeLog, LogOf
  <2>9. a[i + 1].prompt = b[i + 1].prompt /\ a[i + 1].answer = b[i + 1].answer
    BY <2>4, <2>5, <2>8 DEF Compatible, Says
  <2>10. \A j \in 1..(i + 1) : j \in 1..i \/ j = i + 1
    BY <2>2
  <2> QED  BY <1>0, <2>2, <2>7, <2>9, <2>10 DEF Agree
<1>3. Nat \subseteq P
  <2> HIDE DEF P
  <2> QED  BY <1>1, <1>2, SetInduction
<1>4. Len(b) \in P
  BY <1>0, <1>3
<1> QED  BY <1>0, <1>4

------------------------------------------------------------------------------
\* Replayed, a call at a time.
ReplayStep(item, repeat, memory, log) ==
    LET prompt == NextPrompt(item, log)
        key == <<item, repeat, prompt>>
    IN  IF prompt = Done \/ ~Cached(memory, key) THEN log
        ELSE Append(log, [prompt |-> prompt, answer |-> memory[key], how |-> "cached"])
Replays(f, item, repeat, memory) ==
    f = [n \in 0..(Budget + VerifierCap) |->
            IF n = 0 THEN <<>> ELSE ReplayStep(item, repeat, memory, f[n - 1])]

\* There is such a function, whatever the memory.
LEMMA ReplayExists ==
    ASSUME NEW item, Budget + VerifierCap \in Nat, NEW repeat, NEW memory
    PROVE  \E f : Replays(f, item, repeat, memory)
<1> DEFINE Upto(f, n) == f[0] = <<>> /\ \A i \in 1..n : f[i] = ReplayStep(item, repeat, memory, f[i - 1])
           P == {n \in Nat : \E f : Upto(f, n)}
<1>1. 0 \in P
  <2> DEFINE f == [i \in {0} |-> <<>>]
  <2>1. Upto(f, 0)
    OBVIOUS
  <2> HIDE DEF f
  <2> QED  BY <2>1
<1>2. ASSUME NEW n \in Nat, n \in P PROVE n + 1 \in P
  <2>1. PICK f : Upto(f, n)
    BY <1>2
  <2> DEFINE g == [i \in 0..(n + 1) |-> IF i <= n THEN f[i] ELSE ReplayStep(item, repeat, memory, f[n])]
  <2>2. g[0] = <<>>
    BY <2>1
  <2>3. ASSUME NEW i \in 1..(n + 1) PROVE g[i] = ReplayStep(item, repeat, memory, g[i - 1])
    <3>1. i - 1 \in 0..(n + 1) /\ i - 1 <= n /\ i \in 0..(n + 1)
      OBVIOUS
    <3>2. g[i - 1] = f[i - 1]
      BY <3>1
    <3>3. CASE i <= n
      <4>1. i \in 1..n /\ g[i] = f[i]
        BY <3>1, <3>3
      <4> HIDE DEF g
      <4> QED  BY <2>1, <3>2, <4>1
    <3>4. CASE ~(i <= n)
      <4>1. g[i] = ReplayStep(item, repeat, memory, f[n]) /\ i - 1 = n
        BY <3>1, <3>4
      <4> HIDE DEF g
      <4> QED  BY <3>2, <4>1
    <3> QED  BY <3>3, <3>4
  <2> HIDE DEF g
  <2>4. Upto(g, n + 1)
    BY <2>2, <2>3
  <2> QED  BY <2>4
<1>3. Nat \subseteq P
  <2> HIDE DEF P
  <2> QED  BY <1>1, <1>2, SetInduction
<1> DEFINE K == Budget + VerifierCap
<1>4. PICK f : Upto(f, K)
  BY <1>3
<1> HIDE DEF K
<1> DEFINE g == [n \in 0..K |-> f[n]]
<1>5. K \in Nat
  BY DEF K
<1>6. ASSUME NEW n \in 0..K PROVE g[n] = IF n = 0 THEN <<>> ELSE ReplayStep(item, repeat, memory, g[n - 1])
  <2>1. CASE n = 0
    BY <1>4, <2>1
  <2>2. CASE n # 0
    <3>1. n \in 1..K /\ n - 1 \in 0..K
      BY <1>5, <2>2
    <3>2. g[n] = f[n] /\ g[n - 1] = f[n - 1]
      BY <3>1
    <3> HIDE DEF g
    <3> QED  BY <1>4, <2>2, <3>1, <3>2
  <2> QED  BY <2>1, <2>2
<1>7. g = [n \in 0..K |-> IF n = 0 THEN <<>> ELSE ReplayStep(item, repeat, memory, g[n - 1])]
  <2>1. DOMAIN g = 0..K /\ g = [n \in 0..K |-> g[n]]
    OBVIOUS
  <2> HIDE DEF g
  <2> QED  BY <1>6, <2>1
<1>8. Replays(g, item, repeat, memory)
  <2> HIDE DEF g
  <2> QED  BY <1>7 DEF Replays, K
<1> QED  BY <1>8

\* What Replayed computes is its last value.
LEMMA ReplayedIs ==
    ASSUME NEW item, Budget + VerifierCap \in Nat, NEW repeat, NEW memory
    PROVE  \E f : Replays(f, item, repeat, memory)
                  /\ Replayed(item, repeat, memory) = f[Budget + VerifierCap]
<1> DEFINE after == CHOOSE f : Replays(f, item, repeat, memory)
<1>1. Replayed(item, repeat, memory) = after[Budget + VerifierCap]
  BY DEF Replayed, Replays, ReplayStep
<1>2. Replays(after, item, repeat, memory)
  BY ReplayExists
<1> HIDE DEF after
<1> QED  BY <1>1, <1>2

\* A run replays a whole log from the memory that tells it.
LEMMA ReplayTellsAll ==
    ASSUME NEW task, task.item \in DOMAIN Items, harness \in {"pr", "unit"}, NEW memory, NEW log,
           WholeLog(task, memory, log)
    PROVE  /\ Exchange(Replayed(task.item, task.repeat, memory)) = Exchange(log)
           /\ NextPrompt(task.item, Replayed(task.item, task.repeat, memory)) = Done
<1> DEFINE K == Budget + VerifierCap
           L == Len(log)
<1>0. /\ K \in Nat /\ IsSequence(log) /\ L \in Nat /\ DOMAIN log = 1..L /\ L <= K
  BY BudgetNat, EvalBounds, SequenceGrows, LogBounds DEF WholeLog
<1>1. PICK f : Replays(f, task.item, task.repeat, memory) /\ Replayed(task.item, task.repeat, memory) = f[K]
  BY <1>0, ReplayedIs
<1> HIDE DEF K
<1>2. f[0] = <<>> /\ \A n \in 0..K : n # 0 => f[n] = ReplayStep(task.item, task.repeat, memory, f[n - 1])
  <2>1. \A n \in 0..K : f[n] = IF n = 0 THEN <<>> ELSE ReplayStep(task.item, task.repeat, memory, f[n - 1])
    BY <1>1 DEF Replays, K
  <2> QED  BY <1>0, <2>1
<1> HIDE DEF L
<1> DEFINE Least(n) == IF n <= L THEN n ELSE L
           Q(n) == n <= K => IsSequence(f[n]) /\ Len(f[n]) = Least(n) /\ Agree(f[n], log, Least(n))
           P == {n \in Nat : Q(n)}
<1>3. 0 \in P
  <2>1. IsSequence(f[0]) /\ Len(f[0]) = 0 /\ Agree(f[0], log, 0) /\ Least(0) = 0
    BY <1>0, <1>2, EmptySequence DEF Agree
  <2> HIDE DEF Least
  <2> QED  BY <2>1
<1>4. ASSUME NEW n \in Nat, n \in P PROVE n + 1 \in P
  <2>1. SUFFICES ASSUME n + 1 <= K
                 PROVE  IsSequence(f[n + 1]) /\ Len(f[n + 1]) = Least(n + 1) /\ Agree(f[n + 1], log, Least(n + 1))
    OBVIOUS
  <2>2. IsSequence(f[n]) /\ Len(f[n]) = Least(n) /\ Agree(f[n], log, Least(n))
    BY <1>0, <1>4, <2>1
  <2>3. f[n + 1] = ReplayStep(task.item, task.repeat, memory, f[n])
    <3>1. n + 1 \in 0..K /\ n + 1 # 0 /\ (n + 1) - 1 = n
      BY <1>0, <2>1
    <3> QED  BY <1>2, <3>1
  <2> HIDE DEF P
  <2>4. CASE n < L
    <3>1. Least(n) = n /\ Least(n + 1) = n + 1 /\ n \in 0..L /\ n + 1 \in DOMAIN log /\ (n + 1) - 1 = n
      BY <1>0, <2>4
    <3> HIDE DEF Least
    <3>2. IsSequence(Prefix(log, n)) /\ Len(Prefix(log, n)) = n /\ \A j \in 1..n : Prefix(log, n)[j] = log[j]
      BY <1>0, <3>1, PrefixFacts DEF L
    <3>3. NextPrompt(task.item, f[n]) = NextPrompt(task.item, Prefix(log, n))
      <4>1. Agree(f[n], Prefix(log, n), n)
        BY <2>2, <3>1, <3>2 DEF Agree
      <4> QED  BY <2>2, <3>1, <3>2, <4>1, NextOfExchange
    <3>4. /\ log[n + 1].prompt = NextPrompt(task.item, f[n]) /\ log[n + 1].prompt # Done
          /\ Says(memory, KeyOf(task, log[n + 1].prompt), log[n + 1].answer)
      BY <3>1, <3>3 DEF WholeLog, LogOf
    <3> DEFINE e == [prompt |-> log[n + 1].prompt, answer |-> log[n + 1].answer, how |-> "cached"]
    <3>5. f[n + 1] = Append(f[n], e)
      BY <2>3, <3>4 DEF ReplayStep, Says, KeyOf
    <3>6. e.prompt = log[n + 1].prompt /\ e.answer = log[n + 1].answer
      OBVIOUS
    <3> HIDE DEF e
    <3>7. /\ IsSequence(f[n + 1]) /\ Len(f[n + 1]) = n + 1 /\ f[n + 1][n + 1] = e
          /\ \A i \in 1..n : f[n + 1][i] = f[n][i]
      BY <2>2, <3>1, <3>5, SequenceGrows
    <3>8. \A i \in 1..(n + 1) : i \in 1..n \/ i = n + 1
      OBVIOUS
    <3> QED  BY <2>2, <3>1, <3>6, <3>7, <3>8 DEF Agree
  <2>5. CASE ~(n < L)
    <3>1. Least(n) = L /\ Least(n + 1) = L
      BY <1>0, <2>5
    <3> HIDE DEF Least
    <3>2. NextPrompt(task.item, f[n]) = Done
      BY <1>0, <2>2, <3>1, NextOfExchange DEF WholeLog, L
    <3>3. f[n + 1] = f[n]
      BY <2>3, <3>2 DEF ReplayStep
    <3> QED  BY <2>2, <3>1, <3>3
  <2> QED  BY <2>4, <2>5
<1>5. Nat \subseteq P
  <2> HIDE DEF P
  <2> QED  BY <1>3, <1>4, SetInduction
<1>6. IsSequence(f[K]) /\ Len(f[K]) = L /\ Agree(f[K], log, L)
  <2>1. Least(K) = L /\ K <= K
    BY <1>0
  <2>2. Q(K)
    BY <1>0, <1>5
  <2> HIDE DEF Least
  <2> QED  BY <2>1, <2>2
<1> QED  BY <1>0, <1>1, <1>6, NextOfExchange DEF WholeLog, L

------------------------------------------------------------------------------
\* The greatest of a bounded set of numbers.
LEMMA MaxIs ==
    ASSUME NEW n \in Nat, NEW T, T \subseteq 0..n, T # {}
    PROVE  Max(T) \in T /\ \A y \in T : y <= Max(T)
<1>1. PICK x \in T : \A y \in T : y <= x
  BY GreatestOfSome
<1>2. \A y \in T : y \in Nat
  OBVIOUS
<1>3. \E z \in T : \A y \in T : z >= y
  BY <1>1, <1>2
<1>4. Max(T) \in T /\ \A y \in T : Max(T) >= y
  BY <1>3 DEF Max
<1> QED  BY <1>2, <1>4

\* A line more in the file is one answer more; the other answers stay.
LEMMA LoadedGrows ==
    ASSUME IsSequence(file), \A i \in DOMAIN file : file[i].readable, NEW e, e.readable, file' = Append(file, e)
    PROVE  /\ IsSequence(file)' /\ \A i \in DOMAIN file' : file'[i].readable
           /\ \A k : k \in DOMAIN Loaded' <=> k \in DOMAIN Loaded \/ k = e.key
           /\ Loaded'[e.key] = e.answer
           /\ \A k \in DOMAIN Loaded : k # e.key => Loaded'[k] = Loaded[k]
<1> DEFINE Lines(k) == {j \in DOMAIN file : file[j].readable /\ file[j].key = k}
           NewLines(k) == {j \in DOMAIN file' : file'[j].readable /\ file'[j].key = k}
           n == Len(file)
<1>1. /\ n \in Nat /\ DOMAIN file = 1..n /\ IsSequence(file') /\ DOMAIN file' = 1..(n + 1)
      /\ \A i \in 1..n : file'[i] = file[i]
      /\ file'[n + 1] = e
  BY SequenceGrows
<1>2. \A i \in DOMAIN file' : (i \in DOMAIN file \/ i = n + 1) /\ file'[i].readable
  BY <1>1
<1>3. /\ DOMAIN Loaded = {file[i].key : i \in DOMAIN file} /\ DOMAIN Loaded' = {file'[i].key : i \in DOMAIN file'}
      /\ \A k \in DOMAIN Loaded : Loaded[k] = file[Max(Lines(k))].answer
      /\ \A k \in DOMAIN Loaded' : Loaded'[k] = file'[Max(NewLines(k))].answer
  BY <1>2 DEF Loaded
<1>4. ASSUME NEW k PROVE k \in DOMAIN Loaded' <=> k \in DOMAIN Loaded \/ k = e.key
  BY <1>1, <1>2, <1>3
<1>5. Loaded'[e.key] = e.answer
  <2>1. NewLines(e.key) \subseteq 0..(n + 1) /\ n + 1 \in NewLines(e.key) /\ n + 1 \in Nat
    BY <1>1
  <2> DEFINE T == NewLines(e.key)
  <2> HIDE DEF T
  <2>2. Max(T) \in T /\ \A y \in T : y <= Max(T)
    BY <2>1, MaxIs DEF T
  <2>3. Max(T) = n + 1
    <3>1. n + 1 <= Max(T)
      BY <2>1, <2>2 DEF T
    <3>2. T \subseteq 0..(n + 1)
      BY <2>1 DEF T
    <3>3. Max(T) \in 0..(n + 1)
      BY <2>2, <3>2
    <3> QED  BY ONLY <1>1, <3>1, <3>3
  <2> QED  BY <1>1, <1>3, <1>4, <2>3 DEF T
<1>6. ASSUME NEW k \in DOMAIN Loaded, k # e.key PROVE Loaded'[k] = Loaded[k]
  <2>1. NewLines(k) = Lines(k)
    BY <1>1, <1>2, <1>6
  <2>2. Lines(k) \subseteq 0..n /\ Lines(k) # {}
    BY <1>1, <1>3
  <2> DEFINE T == Lines(k)
  <2> HIDE DEF T
  <2>3. Max(T) \in T
    BY <1>1, <2>2, MaxIs DEF T
  <2>4. Max(T) \in 1..n
    BY <1>1, <2>3 DEF T
  <2>5. Loaded[k] = file[Max(T)].answer /\ Loaded'[k] = file'[Max(T)].answer
    BY <1>3, <1>4, <1>6, <2>1 DEF T
  <2> QED  BY <1>1, <2>4, <2>5
<1> QED  BY <1>1, <1>2, <1>4, <1>5, <1>6

\* What memory knows, a grown one knows too.
Grows(m, n) == \A k : Cached(m, k) => Cached(n, k) /\ n[k] = m[k]

\* Appending a paid answer to the file, or to the end of a line that was cut off.
LEMMA PutFacts ==
    ASSUME EvalTypes, NEW key, NEW said, said # "invalid", ~Cached(Loaded, key), Put(key, said)
    PROVE  /\ Grows(Loaded, Loaded') /\ (~torn => Cached(Loaded', key) /\ Loaded'[key] = said)
           /\ \A k : Cached(Loaded', k) /\ ~Cached(Loaded, k) => k = key /\ ~torn
           /\ IsSequence(file)' /\ (\A i \in DOMAIN file' : file'[i].readable) /\ torn' = FALSE
<1> USE DEF EvalTypes
<1>1. CASE torn
  <2>1. file' = file /\ Loaded' = Loaded
    BY <1>1 DEF Put, Loaded
  <2>2. Grows(Loaded, Loaded')
    BY <2>1 DEF Grows
  <2>3. \A k : Cached(Loaded', k) <=> Cached(Loaded, k)
    BY <2>1
  <2>4. IsSequence(file)' /\ (\A i \in DOMAIN file' : file'[i].readable) /\ torn' = FALSE
    BY <2>1 DEF Put, IsSequence
  <2> QED  BY <1>1, <2>2, <2>3, <2>4
<1>2. CASE ~torn
  <2> DEFINE e == [key |-> key, answer |-> said, readable |-> TRUE]
  <2>1. file' = Append(file, e) /\ e.readable /\ e.key = key /\ e.answer = said /\ torn' = FALSE
    BY <1>2 DEF Put
  <2> HIDE DEF e
  <2>2. /\ IsSequence(file)' /\ \A i \in DOMAIN file' : file'[i].readable
        /\ \A k : k \in DOMAIN Loaded' <=> k \in DOMAIN Loaded \/ k = key
        /\ Loaded'[key] = said
        /\ \A k \in DOMAIN Loaded : k # key => Loaded'[k] = Loaded[k]
    BY <2>1, LoadedGrows
  <2>3. Grows(Loaded, Loaded')
    BY <2>2 DEF Grows, Cached
  <2>4. Cached(Loaded', key)
    BY <2>2 DEF Cached
  <2>5. \A k : Cached(Loaded', k) /\ ~Cached(Loaded, k) => k = key
    BY <2>2 DEF Cached
  <2> QED  BY <1>2, <2>1, <2>2, <2>3, <2>4, <2>5
<1> QED  BY <1>1, <1>2

\* Without a line more the file tells the same.
LEMMA LoadedSame == UNCHANGED file => Loaded' = Loaded
BY DEF Loaded

------------------------------------------------------------------------------
\* The harness stays what it is.
LEMMA SameHarness ==
    ASSUME UNCHANGED harness
    PROVE  /\ Jobs' = Jobs
           /\ \A item : Chunks(item)' = Chunks(item)
           /\ \A item, log : NextPrompt(item, log)' = NextPrompt(item, log)
           /\ \A item, log : SettledFinding(item, log)' <=> SettledFinding(item, log)
           /\ \A name, item, log : View(name, item, log)' = View(name, item, log)
<1>1. \A item : Chunks(item)' = Chunks(item)
  BY DEF Chunks
<1>2. Jobs' = Jobs
  BY DEF Jobs
<1>5. /\ \A p, chunks : MayAsk(p, chunks)' <=> MayAsk(p, chunks)
      /\ \A c, n, chunks : NewChunk(c, n, chunks)' = NewChunk(c, n, chunks)
  BY DEF MayAsk, NewChunk, Budget
<1>6. \A p, said, chunks : AfterCall(p, said, chunks)' = AfterCall(p, said, chunks)
  BY <1>5 DEF AfterCall
<1>7. \A log, chunks : NextAudit(log, chunks)' = NextAudit(log, chunks)
  BY <1>5, <1>6 DEF NextAudit
<1>3. \A item, log : NextPrompt(item, log)' = NextPrompt(item, log)
  BY <1>1, <1>7 DEF NextPrompt
<1>8. \A item, log : SettledFinding(item, log)' <=> SettledFinding(item, log)
  BY <1>1, <1>5 DEF SettledFinding, Unsettles
<1>4. \A name, item, log : View(name, item, log)' = View(name, item, log)
  <2>1. \A item, log : Raw(item, log)' = Raw(item, log)
    BY <1>1 DEF Raw
  <2>2. \A item, log : Confirmed(item, log)' = Confirmed(item, log)
    BY <2>1 DEF Confirmed
  <2> QED  BY <2>1, <2>2 DEF View
<1> QED  BY <1>1, <1>2, <1>3, <1>4, <1>8

\* A log, a record, a claim are as true of a grown memory.
LEMMA LogGrows ==
    ASSUME NEW task, NEW m, NEW n, Grows(m, n), NEW log, LogOf(task, m, log)
    PROVE  LogOf(task, n, log)
BY DEF LogOf, Says, Grows

\* A step of the run leaves what is said of a log, a record, a claim true.
LEMMA LogStays ==
    ASSUME UNCHANGED harness, NEW task, NEW m, NEW log, LogOf(task, m, log)
    PROVE  LogOf(task, m, log)'
BY SameHarness DEF LogOf

\* A record is as true of a grown memory.
LEMMA RecordGrows ==
    ASSUME UNCHANGED harness, NEW m, NEW n, Grows(m, n), NEW r, RecordOf(r, m)
    PROVE  RecordOf(r, n)'
<1>1. LogOf(r.job, n, r.log)
  BY LogGrows DEF RecordOf
<1>2. LogOf(r.job, n, r.log)'
  BY <1>1, LogStays
<1> QED  BY <1>2, SameHarness DEF RecordOf

\* A claim is as true of a grown file.
LEMMA ToldGrows ==
    ASSUME UNCHANGED harness, Grows(Loaded, Loaded'), NEW x, ToldOf(x)
    PROVE  ToldOf(x)'
<1>1. ASSUME WholeTold(x) PROVE WholeTold(x)'
  <2>1. PICK log : WholeLog(x.job, Loaded, log) /\ (x.hit <=> View(x.view, x.job.item, log) # {})
    BY <1>1 DEF WholeTold
  <2>2. LogOf(x.job, Loaded', log)
    BY <2>1, LogGrows DEF WholeLog
  <2>3. LogOf(x.job, Loaded, log)'
    BY <2>2, LogStays
  <2>4. WholeLog(x.job, Loaded, log)'
    BY <2>1, <2>3, SameHarness DEF WholeLog
  <2> QED  BY <2>1, <2>4, SameHarness DEF WholeTold
<1>2. ASSUME SettledTold(x) PROVE SettledTold(x)'
  <2>1. PICK log : IsSequence(log) /\ LogOf(x.job, Loaded, log) /\ SettledFinding(x.job.item, log)
    BY <1>2 DEF SettledTold
  <2>2. LogOf(x.job, Loaded', log)
    BY <2>1, LogGrows
  <2>3. LogOf(x.job, Loaded, log)'
    BY <2>2, LogStays
  <2> QED  BY <1>2, <2>1, <2>3, SameHarness DEF SettledTold
<1> QED  BY <1>1, <1>2 DEF ToldOf

------------------------------------------------------------------------------
\* A function on 1..n is a sequence.
LEMMA FunctionIsSequence ==
    ASSUME NEW n \in Nat, NEW f, f = [i \in 1..n |-> f[i]]
    PROVE  IsSequence(f) /\ Len(f) = n
<1>1. DOMAIN f = 1..n
  OBVIOUS
<1>2. f \in [1..n -> {f[i] : i \in DOMAIN f}]
  BY <1>1
<1>3. f \in Seq({f[i] : i \in DOMAIN f})
  BY <1>2, SeqDef
<1>4. Len(f) = n
  BY <1>1, <1>3, LenProperties
<1> QED  BY <1>3, <1>4 DEF IsSequence

\* The job in hand is about an item of the selection.
LEMMA JobItem ==
    ASSUME EvalTypes, run.job <= Len(Jobs)
    PROVE  Job.item \in DOMAIN Items
<1>0. Len(Items) \in Nat /\ DOMAIN Items = 1..Len(Items) /\ Repeats \in Nat /\ run.job \in Nat \ {0}
  BY EvalBounds, LenProperties DEF EvalTypes, RunTypes
<1>1. CASE harness = "pr"
  <2>1. Jobs = [i \in 1..Len(Items) |-> [item |-> i, repeat |-> 0]]
    BY <1>0, <1>1 DEF Jobs
  <2>2. Len(Jobs) = Len(Items)
    BY <1>0, <2>1, FunctionIsSequence
  <2>3. run.job \in 1..Len(Items)
    BY <1>0, <2>2
  <2> QED  BY <1>0, <2>1, <2>3 DEF Job
<1>2. CASE harness # "pr"
  <2> DEFINE n == Repeats * Len(Items)
             l == Len(Items)
  <2>1. n \in Nat /\ (l = 0 => n = 0)
    BY <1>0
  <2>2. Jobs = [i \in 1..n |-> [item |-> ((i - 1) % l) + 1, repeat |-> (i - 1) \div l]]
    BY <1>2 DEF Jobs
  <2>3. l \in Nat
    BY <1>0
  <2> HIDE DEF n, l
  <2>4. Len(Jobs) = n
    BY <2>1, <2>2, FunctionIsSequence
  <2>5. run.job \in 1..n /\ run.job - 1 \in Nat
    BY <1>0, <2>1, <2>4
  <2>6. l \in Nat \ {0}
    BY <2>1, <2>3, <2>5
  <2>7. Job.item = ((run.job - 1) % l) + 1
    BY <2>2, <2>5 DEF Job
  <2>8. (run.job - 1) % l \in 0..(l - 1)
    BY <2>5, <2>6
  <2>9. Job.item \in 1..l
    <3> DEFINE d == (run.job - 1) % l
    <3> HIDE DEF d
    <3>1. d \in 0..(l - 1) /\ Job.item = d + 1
      BY <2>7, <2>8 DEF d
    <3> QED  BY <3>1, <2>6
  <2> QED  BY <1>0, <2>9 DEF l
<1> QED  BY <1>1, <1>2

\* A call more in the log.
LEMMA LogExtended ==
    ASSUME NEW task, NEW memory, NEW log, IsSequence(log), LogOf(task, memory, log), NEW e,
           e.prompt = NextPrompt(task.item, log), e.prompt # Done,
           e.how \in Known => Says(memory, KeyOf(task, e.prompt), e.answer),
           e.how \notin Known => e.answer = "none"
    PROVE  IsSequence(Append(log, e)) /\ LogOf(task, memory, Append(log, e))
<1> DEFINE t == Append(log, e)
<1>1. /\ Len(log) \in Nat /\ DOMAIN log = 1..Len(log) /\ IsSequence(t) /\ DOMAIN t = 1..(Len(log) + 1)
      /\ (\A i \in 1..Len(log) : t[i] = log[i]) /\ t[Len(log) + 1] = e
  BY SequenceGrows
<1>2. \A n \in 0..Len(log) : Prefix(t, n) = Prefix(log, n)
  BY PrefixFacts
<1>3. Prefix(log, Len(log)) = log
  BY PrefixFacts
<1> HIDE DEF t
<1>4. ASSUME NEW i \in DOMAIN t
      PROVE  /\ t[i].prompt = NextPrompt(task.item, Prefix(t, i - 1)) /\ t[i].prompt # Done
             /\ t[i].how \in Known => Says(memory, KeyOf(task, t[i].prompt), t[i].answer)
             /\ t[i].how \notin Known => t[i].answer = "none"
  <2>1. CASE i \in 1..Len(log)
    <3>1. t[i] = log[i] /\ i - 1 \in 0..Len(log) /\ i \in DOMAIN log
      BY <1>1, <2>1
    <3>2. Prefix(t, i - 1) = Prefix(log, i - 1)
      BY <1>2, <3>1
    <3> QED  BY <3>1, <3>2 DEF LogOf
  <2>2. CASE i = Len(log) + 1
    <3>1. t[i] = e /\ i - 1 = Len(log) /\ Len(log) \in 0..Len(log)
      BY <1>1, <2>2
    <3>2. Prefix(t, i - 1) = log
      BY <1>2, <1>3, <3>1
    <3> QED  BY <3>1, <3>2
  <2> QED  BY <1>1, <2>1, <2>2
<1> QED  BY <1>1, <1>4 DEF LogOf, t

\* The steps that pay for nothing.
LEMMA QuietStep ==
    ASSUME EvalInv, UNCHANGED <<harness, file, torn, bills, told>>, RunTypes', LogSound', RecordsSound',
           run'.pc = "items" => run.pc = "items" /\ run'.memory = run.memory
    PROVE  EvalInv'
<1>1. Loaded' = Loaded /\ Grows(Loaded, Loaded')
  BY LoadedSame DEF Grows
<1>2. EvalTypes'
  BY DEF EvalInv, EvalTypes, IsSequence
<1>3. \A k : LostKey(k)' <=> LostKey(k)
  BY DEF LostKey
<1>4. MemoryKept'
  BY <1>1, <1>3 DEF EvalInv, MemoryKept
<1>5. PaidOnce'
  BY <1>1 DEF EvalInv, PaidOnce
<1>6. ToldSound'
  BY <1>1, ToldGrows DEF EvalInv, ToldSound, NoneLost
<1> QED  BY <1>2, <1>4, <1>5, <1>6 DEF EvalInv

\* A call of the review is one more in its log.
LEMMA LogStep ==
    ASSUME EvalInv, Prompt # Done, harness = "pr", UNCHANGED harness, NEW said, NEW how,
           Grows(run.memory, run'.memory), run'.log = Logged(said, how), run'.job = run.job,
           how \in Known => Says(run'.memory, Key, said), how \notin Known => said = "none",
           how \in {"real", "cached"} \/ run'.notRun \/ run'.failed,
           run.notRun => run'.notRun, run.failed => run'.failed
    PROVE  LogSound' /\ IsSequence(run'.log)
<1> DEFINE e == [prompt |-> Prompt, answer |-> said, how |-> how]
<1>1. IsSequence(run.log) /\ LogOf(Job, run.memory, run.log)
  BY DEF EvalInv, EvalTypes, RunTypes, LogSound
<1>2. LogOf(Job, run'.memory, run.log)
  BY <1>1, LogGrows
<1>3. e.prompt = NextPrompt(Job.item, run.log) /\ e.prompt # Done /\ e.how = how /\ e.answer = said
      /\ run'.log = Append(run.log, e) /\ Key = KeyOf(Job, e.prompt)
  BY DEF Prompt, Logged, Key
<1> HIDE DEF e
<1>4. IsSequence(run'.log) /\ LogOf(Job, run'.memory, run'.log)
  BY <1>1, <1>2, <1>3, LogExtended
<1>5. Job' = Job
  BY SameHarness DEF Job
<1>6. LogOf(Job, run.memory, run.log)'
  BY <1>4, <1>5, LogStays
<1>7. \A i \in DOMAIN run'.log : run'.log[i].how \in {"real", "cached"} \/ run'.notRun \/ run'.failed
  <2>1. \A i \in DOMAIN run'.log : run'.log[i] = e \/ (i \in DOMAIN run.log /\ run'.log[i] = run.log[i])
    <3>1. /\ DOMAIN run'.log = 1..(Len(run.log) + 1) /\ run'.log[Len(run.log) + 1] = e
          /\ DOMAIN run.log = 1..Len(run.log) /\ Len(run.log) \in Nat
          /\ \A i \in 1..Len(run.log) : run'.log[i] = run.log[i]
      BY <1>1, <1>3, SequenceGrows
    <3> QED  BY <3>1
  <2> QED  BY <1>3, <2>1 DEF EvalInv, LogSound
<1> QED  BY <1>4, <1>6, <1>7 DEF LogSound

\* The records stay as true as they were.
LEMMA RecordsStay ==
    ASSUME EvalInv, UNCHANGED harness, Grows(run.memory, run'.memory), run'.records = run.records
    PROVE  RecordsSound' /\ IsSequence(run'.records)
<1>1. \A n \in DOMAIN run.records : RecordOf(run.records[n], run.memory)
  BY DEF EvalInv, RecordsSound
<1>2. ASSUME NEW n \in DOMAIN run'.records PROVE RecordOf(run.records[n], run.memory)'
  BY <1>1, <1>2, RecordGrows
<1> QED  BY <1>2 DEF EvalInv, EvalTypes, RunTypes, RecordsSound

\* One record more.
LEMMA RecordAdded ==
    ASSUME EvalInv, UNCHANGED harness, Grows(run.memory, run'.memory), NEW r, RecordOf(r, run'.memory),
           run'.records = Append(run.records, r)
    PROVE  RecordsSound' /\ IsSequence(run'.records)
<1>1. \A n \in DOMAIN run.records : RecordOf(run.records[n], run.memory)
  BY DEF EvalInv, RecordsSound
<1>2. /\ DOMAIN run'.records = 1..(Len(run.records) + 1) /\ run'.records[Len(run.records) + 1] = r
      /\ DOMAIN run.records = 1..Len(run.records) /\ Len(run.records) \in Nat
      /\ \A i \in 1..Len(run.records) : run'.records[i] = run.records[i]
      /\ IsSequence(run'.records)
  BY SequenceGrows DEF EvalInv, EvalTypes, RunTypes
<1>3. ASSUME NEW n \in DOMAIN run'.records PROVE RecordOf(run.records[n], run.memory)'
  <2>1. CASE n \in 1..Len(run.records)
    <3>1. run'.records[n] = run.records[n] /\ RecordOf(run.records[n], run.memory)
      BY <1>1, <1>2, <2>1
    <3> QED  BY <3>1, RecordGrows
  <2>2. CASE n = Len(run.records) + 1
    <3>1. run'.records[n] = r /\ Grows(run'.memory, run'.memory)
      BY <1>2, <2>2 DEF Grows
    <3> QED  BY <3>1, RecordGrows
  <2> QED  BY <1>2, <2>1, <2>2
<1> QED  BY <1>2, <1>3 DEF RecordsSound

\* A call the cache answers.
LEMMA CallCachedInv ==
    ASSUME EvalInv, CallCached
    PROVE  EvalInv'
<1>1. /\ harness = "pr" /\ run.pc = "items" /\ Prompt # Done /\ Cached(run.memory, Key)
      /\ run' = [run EXCEPT !.log = Logged(run.memory[Key], "cached")]
      /\ UNCHANGED <<harness, file, torn, evals, bills, told>>
  BY DEF CallCached, Running
<1>2. /\ ARun(run)' /\ run'.log = Logged(run.memory[Key], "cached") /\ run'.pc = run.pc /\ run'.limits = run.limits
      /\ run'.calls = run.calls /\ run'.job = run.job /\ run'.memory = run.memory /\ run'.records = run.records
      /\ run'.failed = run.failed /\ run'.notRun = run.notRun
  BY <1>1 DEF EvalInv, EvalTypes, RunTypes, ARun
<1>3. Grows(run.memory, run'.memory)
  BY <1>2 DEF Grows
<1>4. LogSound' /\ IsSequence(run'.log)
  BY <1>1, <1>2, <1>3, LogStep DEF Says, Known
<1>5. RecordsSound' /\ IsSequence(run'.records)
  BY <1>1, <1>2, <1>3, RecordsStay
<1>6. RunTypes'
  BY <1>2, <1>4, <1>5 DEF EvalInv, EvalTypes, RunTypes
<1> QED  BY <1>1, <1>2, <1>4, <1>5, <1>6, QuietStep

\* A call that a limit stops.
LEMMA CallRefusedInv ==
    ASSUME EvalInv, CallRefused
    PROVE  EvalInv'
<1>1. /\ harness = "pr" /\ run.pc = "items" /\ Prompt # Done
      /\ run' = [run EXCEPT !.stopped = Stopped, !.notRun = TRUE, !.log = Logged("none", "not_run")]
      /\ UNCHANGED <<harness, file, torn, evals, bills, told>>
  BY DEF CallRefused, Running
<1>2. /\ ARun(run)' /\ run'.log = Logged("none", "not_run") /\ run'.pc = run.pc /\ run'.limits = run.limits
      /\ run'.calls = run.calls /\ run'.job = run.job /\ run'.memory = run.memory /\ run'.records = run.records
      /\ run'.failed = run.failed /\ run'.notRun
  BY <1>1 DEF EvalInv, EvalTypes, RunTypes, ARun
<1>3. Grows(run.memory, run'.memory)
  BY <1>2 DEF Grows
<1>4. LogSound' /\ IsSequence(run'.log)
  BY <1>1, <1>2, <1>3, LogStep DEF Known
<1>5. RecordsSound' /\ IsSequence(run'.records)
  BY <1>1, <1>2, <1>3, RecordsStay
<1>6. RunTypes'
  BY <1>2, <1>4, <1>5 DEF EvalInv, EvalTypes, RunTypes
<1> QED  BY <1>1, <1>2, <1>4, <1>5, <1>6, QuietStep

\* A call that is made was under the limit.
LEMMA UnderLimit ==
    ASSUME EvalTypes, Stopped = "no"
    PROVE  run.calls + 1 <= run.limits.calls /\ run.calls + 1 \in Nat
<1>1. run.calls \in Nat /\ run.limits.calls \in Nat
  BY DEF EvalTypes, RunTypes
<1>2. ~(run.calls >= run.limits.calls)
  BY DEF Stopped
<1> QED  BY <1>1, <1>2

\* A call that fails.
LEMMA CallFailsInv ==
    ASSUME EvalInv, CallFails
    PROVE  EvalInv'
<1>0. PICK kind \in Failures, tokens \in 0..MaxUsage :
        run' = [AfterFailure(Charged(run, tokens), kind) EXCEPT !.failed = TRUE,
                                                                !.log = Logged("none", "error")]
  BY DEF CallFails
<1>1. /\ harness = "pr" /\ run.pc = "items" /\ Prompt # Done /\ Stopped = "no"
      /\ UNCHANGED <<harness, file, torn, evals, bills, told>>
  BY DEF CallFails, Calls, Running
<1>2. /\ ARun(run)' /\ run'.log = Logged("none", "error") /\ run'.pc = run.pc /\ run'.limits = run.limits
      /\ run'.calls = run.calls + 1 /\ run'.job = run.job /\ run'.memory = run.memory /\ run'.records = run.records
      /\ run'.failed /\ run'.notRun = run.notRun
  BY <1>0 DEF EvalInv, EvalTypes, RunTypes, ARun, AfterFailure, Charged
<1>3. Grows(run.memory, run'.memory)
  BY <1>2 DEF Grows
<1>4. LogSound' /\ IsSequence(run'.log)
  BY <1>1, <1>2, <1>3, LogStep DEF Known
<1>5. RecordsSound' /\ IsSequence(run'.records)
  BY <1>1, <1>2, <1>3, RecordsStay
<1>6. RunTypes'
  BY <1>1, <1>2, <1>4, <1>5, UnderLimit DEF EvalInv, EvalTypes, RunTypes
<1> QED  BY <1>1, <1>2, <1>4, <1>5, <1>6, QuietStep

\* A call the user interrupts.
LEMMA CallInterruptedInv ==
    ASSUME EvalInv, CallInterrupted
    PROVE  EvalInv'
<1>1. /\ harness = "pr" /\ run.pc = "items" /\ Prompt # Done /\ Stopped = "no"
      /\ run' = [Charged(run, 0) EXCEPT !.stopped = "interrupted", !.notRun = TRUE,
                                      !.log = Logged("none", "not_run")]
      /\ UNCHANGED <<harness, file, torn, evals, bills, told>>
  BY DEF CallInterrupted, Calls, Running
<1>2. /\ ARun(run)' /\ run'.log = Logged("none", "not_run") /\ run'.pc = run.pc /\ run'.limits = run.limits
      /\ run'.calls = run.calls + 1 /\ run'.job = run.job /\ run'.memory = run.memory /\ run'.records = run.records
      /\ run'.failed = run.failed /\ run'.notRun
  BY <1>1 DEF EvalInv, EvalTypes, RunTypes, ARun, Charged
<1>3. Grows(run.memory, run'.memory)
  BY <1>2 DEF Grows
<1>4. LogSound' /\ IsSequence(run'.log)
  BY <1>1, <1>2, <1>3, LogStep DEF Known
<1>5. RecordsSound' /\ IsSequence(run'.records)
  BY <1>1, <1>2, <1>3, RecordsStay
<1>6. RunTypes'
  BY <1>1, <1>2, <1>4, <1>5, UnderLimit DEF EvalInv, EvalTypes, RunTypes
<1> QED  BY <1>1, <1>2, <1>4, <1>5, <1>6, QuietStep

\* An answer that is paid for: what memory knew it knows still, and the new answer too.
LEMMA RememberedFacts ==
    ASSUME NEW key, NEW said, said # "invalid", ~Cached(run.memory, key)
    PROVE  /\ Grows(run.memory, Remembered(key, said)) /\ Says(Remembered(key, said), key, said)
           /\ \A k : Cached(Remembered(key, said), k) => Cached(run.memory, k) \/ k = key
<1> DEFINE m == Remembered(key, said)
<1>1. /\ DOMAIN m = DOMAIN run.memory \cup {key} /\ m[key] = said
      /\ \A k \in DOMAIN run.memory : k # key => m[k] = run.memory[k]
  BY DEF Remembered
<1> HIDE DEF m
<1>2. Grows(run.memory, m)
  BY <1>1 DEF Grows, Cached
<1>3. Says(m, key, said)
  BY <1>1 DEF Says, Cached
<1>4. \A k : Cached(m, k) => Cached(run.memory, k) \/ k = key
  BY <1>1 DEF Cached
<1> QED  BY <1>2, <1>3, <1>4 DEF m

\* One more bill.
LEMMA BillAdded ==
    ASSUME EvalTypes, NEW key, NEW kept \in BOOLEAN, bills' = Append(bills, [key |-> key, kept |-> kept])
    PROVE  /\ IsSequence(bills)' /\ \A i \in DOMAIN bills' : bills'[i].kept \in BOOLEAN
           /\ \A k : LostKey(k)' <=> LostKey(k) \/ (k = key /\ ~kept)
           /\ \A i \in DOMAIN bills : i \in DOMAIN bills' /\ bills'[i] = bills[i]
           /\ \A i \in DOMAIN bills' : i \in DOMAIN bills \/ (bills'[i].key = key /\ bills'[i].kept = kept)
           /\ \A i, j \in DOMAIN bills' : i \in DOMAIN bills \/ j \in DOMAIN bills \/ i = j
<1> DEFINE e == [key |-> key, kept |-> kept]
           n == Len(bills)
<1>1. e.key = key /\ e.kept = kept /\ bills' = Append(bills, e)
  OBVIOUS
<1> HIDE DEF e
<1>2. /\ n \in Nat /\ DOMAIN bills = 1..n /\ IsSequence(bills)' /\ DOMAIN bills' = 1..(n + 1)
      /\ (\A i \in 1..n : bills'[i] = bills[i]) /\ bills'[n + 1] = e
  BY <1>1, SequenceGrows DEF EvalTypes
<1> HIDE DEF n
<1>3. \A i \in DOMAIN bills' : (i \in DOMAIN bills /\ bills'[i] = bills[i]) \/ (i = n + 1 /\ bills'[i] = e)
  BY <1>2
<1>4. \A i \in DOMAIN bills' : bills'[i].kept \in BOOLEAN
  BY <1>1, <1>3 DEF EvalTypes
<1>5. \A i \in DOMAIN bills : i \in DOMAIN bills' /\ bills'[i] = bills[i]
  BY <1>2
<1>6. n + 1 \in DOMAIN bills' /\ bills'[n + 1] = e
  BY <1>2
<1>7. \A k : LostKey(k)' <=> LostKey(k) \/ (k = key /\ ~kept)
  BY <1>1, <1>3, <1>5, <1>6 DEF LostKey
<1>8. \A i \in DOMAIN bills' : i \in DOMAIN bills \/ (bills'[i].key = key /\ bills'[i].kept = kept)
  BY <1>1, <1>3
<1>9. \A i, j \in DOMAIN bills' : i \in DOMAIN bills \/ j \in DOMAIN bills \/ i = j
  BY <1>3
<1>10. IsSequence(bills)'
  BY <1>2
<1> QED  BY <1>4, <1>5, <1>7, <1>8, <1>9, <1>10

\* The steps that pay for an answer.
LEMMA PaidStep ==
    ASSUME EvalInv, run.pc = "items", NEW key, NEW said, said # "invalid", ~Cached(run.memory, key),
           Put(key, said), run'.memory = Remembered(key, said),
           UNCHANGED <<harness, told>>, RunTypes', LogSound', RecordsSound'
    PROVE  EvalInv'
<1>1. /\ EvalTypes
      /\ \A k : Cached(Loaded, k) => Cached(run.memory, k) /\ run.memory[k] = Loaded[k]
      /\ \A k : Cached(run.memory, k) => Cached(Loaded, k) \/ LostKey(k)
  BY DEF EvalInv, MemoryKept, Cached
<1>2. ~Cached(Loaded, key)
  BY <1>1
<1>3. /\ Grows(Loaded, Loaded') /\ (~torn => Cached(Loaded', key) /\ Loaded'[key] = said)
      /\ \A k : Cached(Loaded', k) /\ ~Cached(Loaded, k) => k = key /\ ~torn
      /\ IsSequence(file)' /\ (\A i \in DOMAIN file' : file'[i].readable) /\ torn' = FALSE
  BY <1>1, <1>2, PutFacts
<1>4. PICK kept \in BOOLEAN : kept = ~torn /\ bills' = Append(bills, [key |-> key, kept |-> kept])
  <2>1. (~torn) \in BOOLEAN
    OBVIOUS
  <2>2. bills' = Append(bills, [key |-> key, kept |-> ~torn])
    BY DEF Put
  <2> QED  BY <2>1, <2>2, Zenon
<1>5. /\ IsSequence(bills)' /\ \A i \in DOMAIN bills' : bills'[i].kept \in BOOLEAN
      /\ \A k : LostKey(k)' <=> LostKey(k) \/ (k = key /\ ~kept)
      /\ \A i \in DOMAIN bills : i \in DOMAIN bills' /\ bills'[i] = bills[i]
      /\ \A i \in DOMAIN bills' : i \in DOMAIN bills \/ (bills'[i].key = key /\ bills'[i].kept = kept)
      /\ \A i, j \in DOMAIN bills' : i \in DOMAIN bills \/ j \in DOMAIN bills \/ i = j
  <2>1. EvalTypes /\ kept \in BOOLEAN /\ bills' = Append(bills, [key |-> key, kept |-> kept])
    BY <1>1, <1>4
  <2> QED  BY ONLY <2>1, BillAdded
<1>6. EvalTypes'
  BY <1>1, <1>3, <1>5 DEF EvalTypes
<1>7. /\ Grows(run.memory, run'.memory) /\ Says(run'.memory, key, said)
      /\ \A k : Cached(run'.memory, k) => Cached(run.memory, k) \/ k = key
  BY RememberedFacts
<1>8. MemoryKept'
  <2>1. ASSUME NEW k, Cached(Loaded', k) PROVE Cached(run'.memory, k) /\ run'.memory[k] = Loaded'[k]
    <3>1. CASE Cached(Loaded, k)
      BY <1>1, <1>3, <1>7, <3>1 DEF Grows
    <3>2. CASE ~Cached(Loaded, k)
      BY <1>3, <1>7, <2>1, <3>2 DEF Says
    <3> QED  BY <3>1, <3>2
  <2>2. ASSUME NEW k, Cached(run'.memory, k) PROVE Cached(Loaded', k) \/ LostKey(k)'
    <3>1. CASE Cached(run.memory, k)
      BY <1>1, <1>3, <1>5, <3>1 DEF Grows
    <3>2. CASE k = key
      BY <1>3, <1>4, <1>5, <3>2
    <3> QED  BY <1>7, <2>2, <3>1, <3>2
  <2> QED  BY <2>1, <2>2 DEF MemoryKept
<1>9. PaidOnce'
  <2>1. \A i \in DOMAIN bills : bills[i].kept => Cached(Loaded, bills[i].key)
    BY DEF EvalInv, PaidOnce
  <2>2. ASSUME NEW i \in DOMAIN bills', bills'[i].kept PROVE Cached(Loaded', bills'[i].key)
    <3>1. CASE i \in DOMAIN bills
      BY <1>3, <1>5, <2>1, <2>2, <3>1 DEF Grows
    <3>2. CASE bills'[i].key = key /\ bills'[i].kept = kept
      BY <1>3, <1>4, <2>2, <3>2
    <3> QED  BY <1>5, <3>1, <3>2
  <2>3. ASSUME NEW i \in DOMAIN bills', NEW j \in DOMAIN bills', i # j, bills'[i].key = bills'[j].key
        PROVE  ~(bills'[i].kept /\ bills'[j].kept)
    <3>1. CASE i \in DOMAIN bills /\ j \in DOMAIN bills
      BY <1>5, <2>3, <3>1 DEF EvalInv, PaidOnce
    <3>2. CASE i \in DOMAIN bills /\ j \notin DOMAIN bills
      BY <1>2, <1>5, <2>1, <2>3, <3>2
    <3>3. CASE i \notin DOMAIN bills /\ j \in DOMAIN bills
      BY <1>2, <1>5, <2>1, <2>3, <3>3
    <3> QED  BY <1>5, <2>3, <3>1, <3>2, <3>3
  <2> QED  BY <2>2, <2>3 DEF PaidOnce
<1>10. ToldSound'
  <2>1. ASSUME NEW x \in told, NoneLost(x.job)' PROVE ToldOf(x)'
    <3>1. NoneLost(x.job)
      BY <1>5, <2>1 DEF NoneLost
    <3> QED  BY <1>3, <2>1, <3>1, ToldGrows DEF EvalInv, ToldSound
  <2> QED  BY <2>1 DEF ToldSound
<1> QED  BY <1>6, <1>8, <1>9, <1>10 DEF EvalInv

\* An answer is never the one that does not count.
LEMMA AnswersCount == \A item, prompt : \A said \in Answers(item, prompt) : said # "invalid" /\ said # "none"
BY DEF Answers

\* A call that is paid for.
LEMMA CallAnsweredInv ==
    ASSUME EvalInv, CallAnswered
    PROVE  EvalInv'
<1>0. PICK said \in Answers(Job.item, Prompt), tokens \in 1..MaxUsage :
        /\ run' = [Charged(run, tokens) EXCEPT !.rateLimited = 0, !.memory = Remembered(Key, said),
                                               !.log = Logged(said, "real")]
        /\ Put(Key, said)
  BY DEF CallAnswered
<1>1. /\ harness = "pr" /\ run.pc = "items" /\ Prompt # Done /\ Stopped = "no" /\ ~Cached(run.memory, Key)
      /\ UNCHANGED <<harness, evals, told>> /\ said # "invalid"
  BY AnswersCount DEF CallAnswered, Calls, Running
<1>2. /\ ARun(run)' /\ run'.log = Logged(said, "real") /\ run'.pc = run.pc /\ run'.limits = run.limits
      /\ run'.calls = run.calls + 1 /\ run'.job = run.job /\ run'.memory = Remembered(Key, said)
      /\ run'.records = run.records /\ run'.failed = run.failed /\ run'.notRun = run.notRun
  BY <1>0 DEF EvalInv, EvalTypes, RunTypes, ARun, Charged
<1>3. Grows(run.memory, run'.memory) /\ Says(run'.memory, Key, said)
  BY <1>1, <1>2, RememberedFacts
<1>4. LogSound' /\ IsSequence(run'.log)
  BY <1>1, <1>2, <1>3, LogStep DEF Known
<1>5. RecordsSound' /\ IsSequence(run'.records)
  BY <1>1, <1>2, <1>3, RecordsStay
<1>6. RunTypes'
  BY <1>1, <1>2, <1>4, <1>5, UnderLimit DEF EvalInv, EvalTypes, RunTypes
<1> QED  BY <1>0, <1>1, <1>2, <1>4, <1>5, <1>6, PaidStep

\* A review that is done becomes a record.
LEMMA FinishItemInv ==
    ASSUME EvalInv, FinishItem
    PROVE  EvalInv'
<1> DEFINE r == [job |-> Jobs[run.job], status |-> Status(run), log |-> run.log]
<1>1. /\ harness = "pr" /\ run.pc = "items" /\ Prompt = Done /\ run.job <= Len(Jobs)
      /\ run' = Recorded(run, Status(run), run.log)
      /\ UNCHANGED <<harness, file, torn, evals, bills, told>>
  BY DEF FinishItem, Running
<1>2. /\ ARun(run)' /\ run'.log = <<>> /\ run'.pc = run.pc /\ run'.limits = run.limits
      /\ run'.calls = run.calls /\ run'.job = run.job + 1 /\ run'.memory = run.memory
      /\ run'.records = Append(run.records, r)
  BY <1>1 DEF EvalInv, EvalTypes, RunTypes, ARun, Recorded
<1>3. r.job = Job /\ r.status = Status(run) /\ r.log = run.log
  BY DEF Job
<1> HIDE DEF r
<1>4. Scored(r) => ~run.notRun /\ ~run.failed
  BY <1>3 DEF Scored, Status
<1>5. RecordOf(r, run'.memory)
  <2>1. Job.item \in DOMAIN Items /\ IsSequence(run.log) /\ LogOf(Job, run.memory, run.log)
    BY <1>1, JobItem DEF EvalInv, EvalTypes, RunTypes, LogSound
  <2>2. Scored(r) => \A i \in DOMAIN run.log : run.log[i].how \in Known
    BY <1>4 DEF EvalInv, LogSound, Known
  <2>3. NextPrompt(Job.item, run.log) = Done
    BY <1>1 DEF Prompt
  <2> QED  BY <1>2, <1>3, <2>1, <2>2, <2>3 DEF RecordOf
<1>6. Grows(run.memory, run'.memory)
  BY <1>2 DEF Grows
<1>7. RecordsSound' /\ IsSequence(run'.records)
  BY <1>1, <1>2, <1>5, <1>6, RecordAdded
<1>8. LogSound' /\ IsSequence(run'.log)
  BY <1>2, EmptySequence DEF LogSound, LogOf
<1>9. RunTypes'
  BY <1>2, <1>7, <1>8 DEF EvalInv, EvalTypes, RunTypes
<1> QED  BY <1>1, <1>2, <1>7, <1>8, <1>9, QuietStep

\* run_llm_stage makes one call of an item, and keeps no log between items.
LEMMA StageRecord ==
    ASSUME EvalInv, Running("unit"), UNCHANGED harness, Grows(run.memory, run'.memory), NEW status, NEW log,
           run'.records = Append(run.records, [job |-> Jobs[run.job], status |-> status, log |-> log]),
           \/ log = <<>> /\ status = "too_large"
           \/ \E said :
                 /\ log = <<[prompt |-> Prompt, answer |-> said, how |-> status]>> /\ Prompt # Done
                 /\ status \in Known => Says(run'.memory, Key, said)
                 /\ status \notin Known => said = "none",
           run'.log = <<>>
    PROVE  RecordsSound' /\ IsSequence(run'.records) /\ LogSound' /\ IsSequence(run'.log)
<1> DEFINE r == [job |-> Jobs[run.job], status |-> status, log |-> log]
<1>1. r.job = Job /\ r.status = status /\ r.log = log
  BY DEF Job
<1>0. run'.records = Append(run.records, r)
  OBVIOUS
<1> HIDE DEF r
<1>2. harness = "unit" /\ run.job <= Len(Jobs) /\ EvalTypes /\ run.log = <<>>
  BY DEF Running, EvalInv, LogSound
<1>3. Job.item \in DOMAIN Items
  BY <1>2, JobItem
<1>4. RecordOf(r, run'.memory)
  <2>1. CASE log = <<>> /\ status = "too_large"
    BY <1>1, <1>3, <2>1, EmptySequence DEF RecordOf, LogOf, Scored
  <2>2. ASSUME NEW said, log = <<[prompt |-> Prompt, answer |-> said, how |-> status]>>, Prompt # Done,
               status \in Known => Says(run'.memory, Key, said),
               status \notin Known => said = "none"
        PROVE  RecordOf(r, run'.memory)
    <3> DEFINE e == [prompt |-> Prompt, answer |-> said, how |-> status]
    <3>1. e.prompt = Prompt /\ e.answer = said /\ e.how = status
      OBVIOUS
    <3>2. log = Append(<<>>, e)
      BY <2>2
    <3> HIDE DEF e
    <3>3. IsSequence(<<>>) /\ LogOf(Job, run'.memory, <<>>) /\ Prompt = NextPrompt(Job.item, <<>>)
      BY <1>2, EmptySequence DEF LogOf, Prompt
    <3>4. IsSequence(log) /\ LogOf(Job, run'.memory, log)
      BY <2>2, <3>1, <3>2, <3>3, LogExtended DEF Key
    <3>5. Len(log) = 1 /\ DOMAIN log = {1} /\ log[1] = e
      <4>1. Len(<<>>) = 0
        OBVIOUS
      <4>2. Len(log) = 0 + 1 /\ DOMAIN log = 1..(0 + 1) /\ log[0 + 1] = e
        BY <3>2, <3>3, <4>1, SequenceGrows
      <4> QED  BY <4>2
    <3>6. NextPrompt(Job.item, log) = Done
      <4> DEFINE chunks == Chunks(Job.item)
      <4>1. chunks \in Nat /\ Budget = 1
        BY <1>2, <1>3, ChunksNat DEF EvalTypes, Budget
      <4> HIDE DEF chunks
      <4>2. Prompt = <<"audit", 1, 1, <<>>>> /\ 1 <= chunks
        BY <1>2, <3>3, <2>2 DEF NextPrompt, NextAudit, NewChunk, chunks
      <4>3. ~MayAsk(Prompt, chunks)
        BY <4>1, <4>2 DEF MayAsk
      <4>4. log # <<>>
        BY ONLY <3>4, <3>5, EmptyLog
      <4>5. NextAudit(log, chunks) = AfterCall(Prompt, said, chunks)
        BY <3>1, <3>5, <4>4 DEF NextAudit
      <4>6. AfterCall(Prompt, said, chunks) = NewChunk(2, 2, chunks)
        BY <4>2, <4>3 DEF AfterCall
      <4>7. NextAudit(log, chunks) = Done
        BY <4>1, <4>5, <4>6 DEF NewChunk
      <4> QED  BY <1>2, <4>7 DEF NextPrompt, chunks
    <3>7. Scored(r) => \A i \in DOMAIN log : log[i].how \in Known
      BY <1>1, <3>1, <3>5 DEF Scored, Known
    <3> QED  BY <1>1, <1>3, <3>4, <3>6, <3>7 DEF RecordOf
  <2> QED  BY <2>1, <2>2
<1>5. RecordsSound' /\ IsSequence(run'.records)
  BY <1>0, <1>4, RecordAdded
<1>6. LogSound' /\ IsSequence(run'.log)
  BY EmptySequence DEF LogSound, LogOf
<1> QED  BY <1>5, <1>6

\* An item too large is not asked about.
LEMMA StageUnaskedInv ==
    ASSUME EvalInv, StageUnasked
    PROVE  EvalInv'
<1>1. /\ Running("unit") /\ run.pc = "items" /\ run' = Recorded(run, "too_large", <<>>)
      /\ UNCHANGED <<harness, file, torn, evals, bills, told>>
  BY DEF StageUnasked, Running
<1>2. /\ ARun(run)' /\ run'.log = <<>> /\ run'.pc = run.pc /\ run'.limits = run.limits
      /\ run'.calls = run.calls /\ run'.job = run.job + 1 /\ run'.memory = run.memory
      /\ run'.records = Append(run.records, [job |-> Jobs[run.job], status |-> "too_large", log |-> <<>>])
  BY <1>1 DEF EvalInv, EvalTypes, RunTypes, ARun, Recorded
<1>3. Grows(run.memory, run'.memory)
  BY <1>2 DEF Grows
<1>4. RecordsSound' /\ IsSequence(run'.records) /\ LogSound' /\ IsSequence(run'.log)
  BY <1>1, <1>2, <1>3, StageRecord
<1>5. RunTypes'
  BY <1>2, <1>4 DEF EvalInv, EvalTypes, RunTypes
<1> QED  BY <1>1, <1>2, <1>4, <1>5, QuietStep

\* The one call of an item, answered by the cache.
LEMMA StageCachedInv ==
    ASSUME EvalInv, StageCached
    PROVE  EvalInv'
<1> DEFINE log == <<[prompt |-> Prompt, answer |-> run.memory[Key], how |-> "cached"]>>
<1>1. /\ Running("unit") /\ run.pc = "items" /\ run' = Recorded(run, "cached", log)
      /\ Prompt # Done /\ Cached(run.memory, Key)
      /\ UNCHANGED <<harness, file, torn, evals, bills, told>>
  BY DEF StageCached, Running, Stage
<1>2. /\ ARun(run)' /\ run'.log = <<>> /\ run'.pc = run.pc /\ run'.limits = run.limits
      /\ run'.calls = run.calls /\ run'.job = run.job + 1 /\ run'.memory = run.memory
      /\ run'.records = Append(run.records, [job |-> Jobs[run.job], status |-> "cached", log |-> log])
  BY <1>1 DEF EvalInv, EvalTypes, RunTypes, ARun, Recorded
<1>3. Grows(run.memory, run'.memory) /\ Says(run'.memory, Key, run.memory[Key]) /\ "cached" \in Known
  BY <1>1, <1>2 DEF Grows, Says, Known
<1>4. RecordsSound' /\ IsSequence(run'.records) /\ LogSound' /\ IsSequence(run'.log)
  BY <1>1, <1>2, <1>3, StageRecord
<1>5. RunTypes'
  BY <1>2, <1>4 DEF EvalInv, EvalTypes, RunTypes
<1> QED  BY <1>1, <1>2, <1>4, <1>5, QuietStep

\* The one call of an item, stopped by a limit.
LEMMA StageRefusedInv ==
    ASSUME EvalInv, StageRefused
    PROVE  EvalInv'
<1> DEFINE log == <<[prompt |-> Prompt, answer |-> "none", how |-> "not_run"]>>
<1>1. /\ Running("unit") /\ run.pc = "items" /\ run' = [Recorded(run, "not_run", log) EXCEPT !.stopped = Stopped]
      /\ Prompt # Done
      /\ UNCHANGED <<harness, file, torn, evals, bills, told>>
  BY DEF StageRefused, Running, Stage
<1>2. /\ ARun(run)' /\ run'.log = <<>> /\ run'.pc = run.pc /\ run'.limits = run.limits
      /\ run'.calls = run.calls /\ run'.job = run.job + 1 /\ run'.memory = run.memory
      /\ run'.records = Append(run.records, [job |-> Jobs[run.job], status |-> "not_run", log |-> log])
  BY <1>1 DEF EvalInv, EvalTypes, RunTypes, ARun, Recorded
<1>3. Grows(run.memory, run'.memory) /\ "not_run" \notin Known
  BY <1>1, <1>2 DEF Grows, Known
<1>4. RecordsSound' /\ IsSequence(run'.records) /\ LogSound' /\ IsSequence(run'.log)
  BY <1>1, <1>2, <1>3, StageRecord
<1>5. RunTypes'
  BY <1>2, <1>4 DEF EvalInv, EvalTypes, RunTypes
<1> QED  BY <1>1, <1>2, <1>4, <1>5, QuietStep

\* The one call of an item fails.
LEMMA StageFailsInv ==
    ASSUME EvalInv, StageFails
    PROVE  EvalInv'
<1> DEFINE log == <<[prompt |-> Prompt, answer |-> "none", how |-> "error"]>>
<1>0. PICK kind \in Failures, tokens \in 0..MaxUsage :
        run' = AfterFailure(Charged(Recorded(run, "error", log), tokens), kind)
  BY DEF StageFails, Stage
<1>1. /\ Running("unit") /\ run.pc = "items" /\ Stopped = "no" /\ Prompt # Done
      /\ UNCHANGED <<harness, file, torn, evals, bills, told>>
  BY DEF StageFails, Calls, Running
<1>2. /\ ARun(run)' /\ run'.log = <<>> /\ run'.pc = run.pc /\ run'.limits = run.limits
      /\ run'.calls = run.calls + 1 /\ run'.job = run.job + 1 /\ run'.memory = run.memory
      /\ run'.records = Append(run.records, [job |-> Jobs[run.job], status |-> "error", log |-> log])
  BY <1>0 DEF EvalInv, EvalTypes, RunTypes, ARun, Recorded, AfterFailure, Charged
<1>3. Grows(run.memory, run'.memory) /\ "error" \notin Known
  BY <1>1, <1>2 DEF Grows, Known
<1>4. RecordsSound' /\ IsSequence(run'.records) /\ LogSound' /\ IsSequence(run'.log)
  BY <1>1, <1>2, <1>3, StageRecord
<1>5. RunTypes'
  BY <1>1, <1>2, <1>4, UnderLimit DEF EvalInv, EvalTypes, RunTypes
<1> QED  BY <1>1, <1>2, <1>4, <1>5, QuietStep

\* The one call of an item is interrupted.
LEMMA StageInterruptedInv ==
    ASSUME EvalInv, StageInterrupted
    PROVE  EvalInv'
<1> DEFINE log == <<[prompt |-> Prompt, answer |-> "none", how |-> "not_run"]>>
<1>1. /\ Running("unit") /\ run.pc = "items" /\ Stopped = "no" /\ Prompt # Done
      /\ run' = [Charged(Recorded(run, "not_run", log), 0) EXCEPT !.stopped = "interrupted"]
      /\ UNCHANGED <<harness, file, torn, evals, bills, told>>
  BY DEF StageInterrupted, Calls, Running, Stage
<1>2. /\ ARun(run)' /\ run'.log = <<>> /\ run'.pc = run.pc /\ run'.limits = run.limits
      /\ run'.calls = run.calls + 1 /\ run'.job = run.job + 1 /\ run'.memory = run.memory
      /\ run'.records = Append(run.records, [job |-> Jobs[run.job], status |-> "not_run", log |-> log])
  BY <1>1 DEF EvalInv, EvalTypes, RunTypes, ARun, Recorded, Charged
<1>3. Grows(run.memory, run'.memory) /\ "not_run" \notin Known
  BY <1>1, <1>2 DEF Grows, Known
<1>4. RecordsSound' /\ IsSequence(run'.records) /\ LogSound' /\ IsSequence(run'.log)
  BY <1>1, <1>2, <1>3, StageRecord
<1>5. RunTypes'
  BY <1>1, <1>2, <1>4, UnderLimit DEF EvalInv, EvalTypes, RunTypes
<1> QED  BY <1>1, <1>2, <1>4, <1>5, QuietStep

\* The one call of an item is paid for.
LEMMA StageAnsweredInv ==
    ASSUME EvalInv, StageAnswered
    PROVE  EvalInv'
<1>0. PICK said \in Answers(Job.item, Prompt), tokens \in 1..MaxUsage :
        /\ run' = [Charged(Stage("ok", said), tokens) EXCEPT !.rateLimited = 0,
                                                             !.memory = Remembered(Key, said)]
        /\ Put(Key, said)
  BY DEF StageAnswered
<1> DEFINE log == <<[prompt |-> Prompt, answer |-> said, how |-> "ok"]>>
<1>1. /\ Running("unit") /\ run.pc = "items" /\ Stopped = "no" /\ Prompt # Done /\ ~Cached(run.memory, Key)
      /\ UNCHANGED <<harness, evals, told>> /\ said # "invalid"
  BY AnswersCount DEF StageAnswered, Calls, Running
<1>2. /\ ARun(run)' /\ run'.log = <<>> /\ run'.pc = run.pc /\ run'.limits = run.limits
      /\ run'.calls = run.calls + 1 /\ run'.job = run.job + 1 /\ run'.memory = Remembered(Key, said)
      /\ run'.records = Append(run.records, [job |-> Jobs[run.job], status |-> "ok", log |-> log])
  BY <1>0 DEF EvalInv, EvalTypes, RunTypes, ARun, Recorded, Charged, Stage
<1>3. Grows(run.memory, run'.memory) /\ Says(run'.memory, Key, said) /\ "ok" \in Known
  BY <1>1, <1>2, RememberedFacts DEF Known
<1>4. RecordsSound' /\ IsSequence(run'.records) /\ LogSound' /\ IsSequence(run'.log)
  BY <1>1, <1>2, <1>3, StageRecord
<1>5. RunTypes'
  BY <1>1, <1>2, <1>4, UnderLimit DEF EvalInv, EvalTypes, RunTypes
<1> QED  BY <1>0, <1>1, <1>2, <1>4, <1>5, PaidStep

\* A process that is not there knows nothing.
LEMMA NoRunFacts ==
    ASSUME run' = NoRun
    PROVE  RunTypes' /\ LogSound' /\ RecordsSound' /\ run'.pc = "idle"
<1>1. /\ ARun(run)' /\ run'.log = <<>> /\ run'.records = <<>> /\ run'.job = 1 /\ run'.calls = 0
      /\ run'.limits = [calls |-> 0, tokens |-> 0] /\ run'.pc = "idle"
  BY DEF NoRun, ARun
<1>2. RunTypes'
  BY <1>1, EmptySequence DEF RunTypes
<1>3. LogSound' /\ RecordsSound'
  BY <1>1, EmptySequence DEF LogSound, LogOf, RecordsSound
<1> QED  BY <1>1, <1>2, <1>3

\* A run starts with what the file tells.
LEMMA StartRunInv ==
    ASSUME EvalInv, StartRun
    PROVE  EvalInv'
<1>1. PICK limits \in RunLimits : run' = [NoRun EXCEPT !.pc = "items", !.limits = limits, !.memory = Loaded]
  BY DEF StartRun
<1>2. UNCHANGED <<harness, file, torn, bills, told>>
  BY DEF StartRun
<1>3. /\ ARun(run)' /\ run'.log = <<>> /\ run'.records = <<>> /\ run'.job = 1 /\ run'.calls = 0
      /\ run'.limits = limits /\ run'.pc = "items" /\ run'.memory = Loaded
  BY <1>1 DEF NoRun, ARun
<1>4. limits \in [calls : Nat, tokens : Nat] /\ 0 <= limits.calls
  BY EvalBounds
<1>5. RunTypes' /\ LogSound' /\ RecordsSound'
  BY <1>3, <1>4, EmptySequence DEF RunTypes, LogSound, LogOf, RecordsSound
<1>6. EvalTypes'
  BY <1>2, <1>5 DEF EvalInv, EvalTypes, IsSequence
<1>7. Loaded' = Loaded /\ Grows(Loaded, Loaded')
  BY <1>2, LoadedSame DEF Grows
<1>8. MemoryKept'
  BY <1>3, <1>7 DEF MemoryKept
<1>9. PaidOnce'
  BY <1>2, <1>7 DEF EvalInv, PaidOnce
<1>10. ToldSound'
  BY <1>2, <1>7, ToldGrows DEF EvalInv, ToldSound, NoneLost
<1> QED  BY <1>5, <1>6, <1>8, <1>9, <1>10 DEF EvalInv

\* A run that is killed takes what it knew along.
LEMMA KillInv ==
    ASSUME EvalInv, Kill
    PROVE  EvalInv'
<1>1. run' = NoRun /\ UNCHANGED <<harness, file, torn, bills, told>>
  BY DEF Kill
<1> QED  BY <1>1, NoRunFacts, QuietStep

\* A run that is killed while it writes loses an answer it paid for.
LEMMA KillInPutInv ==
    ASSUME EvalInv, KillInPut
    PROVE  EvalInv'
<1>1. /\ run' = NoRun /\ torn' = TRUE /\ UNCHANGED <<harness, file, told>>
      /\ bills' = Append(bills, [key |-> Key, kept |-> FALSE])
  BY DEF KillInPut
<1>2. RunTypes' /\ LogSound' /\ RecordsSound' /\ run'.pc = "idle"
  BY <1>1, NoRunFacts
<1>3. /\ IsSequence(bills)' /\ \A i \in DOMAIN bills' : bills'[i].kept \in BOOLEAN
      /\ \A i \in DOMAIN bills : i \in DOMAIN bills' /\ bills'[i] = bills[i]
      /\ \A i \in DOMAIN bills' : i \in DOMAIN bills \/ (bills'[i].key = Key /\ bills'[i].kept = FALSE)
  <2>1. EvalTypes /\ FALSE \in BOOLEAN
    BY DEF EvalInv
  <2> QED  BY ONLY <1>1, <2>1, BillAdded
<1>4. EvalTypes'
  BY <1>1, <1>2, <1>3 DEF EvalInv, EvalTypes, IsSequence
<1>5. Loaded' = Loaded /\ Grows(Loaded, Loaded')
  BY <1>1, LoadedSame DEF Grows
<1>6. MemoryKept'
  BY <1>2 DEF MemoryKept
<1>7. PaidOnce'
  <2>1. \A i \in DOMAIN bills' : bills'[i].kept => i \in DOMAIN bills /\ bills'[i] = bills[i]
    BY <1>3
  <2>2. \A i \in DOMAIN bills : bills[i].kept => Cached(Loaded', bills[i].key)
    BY <1>5 DEF EvalInv, PaidOnce
  <2>3. \A i, j \in DOMAIN bills : i # j /\ bills[i].key = bills[j].key => ~(bills[i].kept /\ bills[j].kept)
    BY DEF EvalInv, PaidOnce
  <2> QED  BY <2>1, <2>2, <2>3 DEF PaidOnce
<1>8. ToldSound'
  <2>1. ASSUME NEW x \in told, NoneLost(x.job)' PROVE ToldOf(x)'
    <3>1. NoneLost(x.job)
      BY <1>3, <2>1 DEF NoneLost
    <3> QED  BY <1>1, <1>5, <2>1, <3>1, ToldGrows DEF EvalInv, ToldSound
  <2> QED  BY <1>1, <2>1 DEF ToldSound
<1> QED  BY <1>2, <1>4, <1>6, <1>7, <1>8 DEF EvalInv

\* A record of an item none of whose answers was lost is as true of the file.
LEMMA LogInFile ==
    ASSUME EvalInv, run.pc = "items", NEW task, NoneLost(task), NEW log, LogOf(task, run.memory, log)
    PROVE  LogOf(task, Loaded, log)
<1>1. ASSUME NEW prompt, NEW said, Says(run.memory, KeyOf(task, prompt), said)
      PROVE  Says(Loaded, KeyOf(task, prompt), said)
  <2> DEFINE k == KeyOf(task, prompt)
  <2>1. Cached(run.memory, k) /\ run.memory[k] = said
    BY <1>1 DEF Says
  <2>2. k[1] = task.item /\ k[2] = task.repeat
    BY DEF KeyOf
  <2>3. ~LostKey(k)
    BY <2>2 DEF LostKey, NoneLost
  <2> HIDE DEF k
  <2>4. Cached(Loaded, k)
    BY <2>1, <2>3 DEF EvalInv, MemoryKept, Cached
  <2>5. Loaded[k] = run.memory[k]
    BY <2>4 DEF EvalInv, MemoryKept, Cached
  <2> QED  BY <2>1, <2>4, <2>5 DEF Says, k
<1> QED  BY <1>1 DEF LogOf

\* What a finished run claims is what its records show.
LEMMA ClaimSound ==
    ASSUME EvalInv, run.pc = "items", NEW n \in DOMAIN run.records, NEW view \in Views, NEW hit \in BOOLEAN,
           IF hit THEN KnownPositive(run.records[n], view) ELSE KnownNegative(run.records[n], view),
           NEW x, x = [job |-> run.records[n].job, view |-> view, hit |-> hit, firm |-> Firm(run.records[n], view)],
           NoneLost(x.job)
    PROVE  ToldOf(x)
<1> DEFINE r == run.records[n]
<1>1. RecordOf(r, run.memory)
  BY DEF EvalInv, RecordsSound
<1>2. x.job = r.job /\ x.view = view /\ x.hit = hit /\ (x.firm <=> Firm(r, view))
  OBVIOUS
<1>3. /\ hit => (Scored(r) \/ PartialResult(r)) /\ View(view, r.job.item, r.log) # {}
      /\ ~hit => Scored(r) /\ View(view, r.job.item, r.log) = {}
  BY DEF KnownPositive, KnownNegative
<1> HIDE DEF r
<1>4. r.job.item \in DOMAIN Items /\ IsSequence(r.log) /\ LogOf(r.job, Loaded, r.log)
  BY <1>1, <1>2, LogInFile DEF RecordOf
<1>5. ASSUME Scored(r)
      PROVE  WholeLog(r.job, Loaded, r.log) /\ (hit <=> View(view, r.job.item, r.log) # {})
  BY <1>1, <1>3, <1>4, <1>5 DEF WholeLog, RecordOf
<1>6. ASSUME Scored(r) PROVE WholeTold(x)
  BY <1>2, <1>5, <1>6 DEF WholeTold
<1>7. ASSUME ~Scored(r), x.firm PROVE SettledTold(x)
  BY <1>2, <1>3, <1>4, <1>7 DEF SettledTold, Firm
<1> QED  BY <1>2, <1>4, <1>6, <1>7 DEF ToldOf

\* A finished run makes its claims.
LEMMA FinishRunInv ==
    ASSUME EvalInv, FinishRun
    PROVE  EvalInv'
<1>1. /\ run.pc = "items" /\ run' = [run EXCEPT !.pc = "finished"] /\ UNCHANGED <<harness, file, torn, bills>>
      /\ \A x \in told' : x \in told \/ \E n \in DOMAIN run.records, view \in Views, hit \in BOOLEAN :
            /\ IF hit THEN KnownPositive(run.records[n], view) ELSE KnownNegative(run.records[n], view)
            /\ x = [job |-> run.records[n].job, view |-> view, hit |-> hit, firm |-> Firm(run.records[n], view)]
  <2> DEFINE known == {x \in (DOMAIN run.records) \X Views \X BOOLEAN :
                IF x[3] THEN KnownPositive(run.records[x[1]], x[2])
                ELSE KnownNegative(run.records[x[1]], x[2])}
  <2>1. /\ run.pc = "items" /\ run' = [run EXCEPT !.pc = "finished"] /\ UNCHANGED <<harness, file, torn, bills>>
        /\ told' = told \cup {[job |-> run.records[x[1]].job, view |-> x[2], hit |-> x[3],
                               firm |-> Firm(run.records[x[1]], x[2])] : x \in known}
    BY DEF FinishRun
  <2>2. \A x \in known : /\ x[1] \in DOMAIN run.records /\ x[2] \in Views /\ x[3] \in BOOLEAN
                         /\ IF x[3] THEN KnownPositive(run.records[x[1]], x[2])
                            ELSE KnownNegative(run.records[x[1]], x[2])
    OBVIOUS
  <2> HIDE DEF known
  <2> QED  BY <2>1, <2>2
<1>2. /\ ARun(run)' /\ run'.log = run.log /\ run'.records = run.records /\ run'.job = run.job
      /\ run'.calls = run.calls /\ run'.limits = run.limits /\ run'.pc = "finished" /\ run'.memory = run.memory
      /\ run'.failed = run.failed /\ run'.notRun = run.notRun
  BY <1>1 DEF EvalInv, EvalTypes, RunTypes, ARun
<1>3. Grows(run.memory, run'.memory)
  BY <1>2 DEF Grows
<1>4. RecordsSound' /\ IsSequence(run'.records)
  BY <1>1, <1>2, <1>3, RecordsStay
<1>5. LogSound'
  <2>1. Job' = Job
    BY <1>1, <1>2, SameHarness DEF Job
  <2>2. LogOf(Job, run.memory, run.log)'
    BY <1>1, <1>2, <2>1, LogStays DEF EvalInv, LogSound
  <2> QED  BY <1>1, <1>2, <2>2 DEF EvalInv, LogSound
<1>6. RunTypes'
  BY <1>2 DEF EvalInv, EvalTypes, RunTypes
<1>7. EvalTypes'
  BY <1>1, <1>6 DEF EvalInv, EvalTypes, IsSequence
<1>8. Loaded' = Loaded /\ Grows(Loaded, Loaded')
  BY <1>1, LoadedSame DEF Grows
<1>9. MemoryKept'
  BY <1>2 DEF MemoryKept
<1>10. PaidOnce'
  BY <1>1, <1>8 DEF EvalInv, PaidOnce
<1>11. ToldSound'
  <2>1. ASSUME NEW x \in told', NoneLost(x.job)' PROVE ToldOf(x)'
    <3>1. NoneLost(x.job)
      BY <1>1, <2>1 DEF NoneLost
    <3>2. ToldOf(x)
      <4>1. CASE x \in told
        BY <3>1, <4>1 DEF EvalInv, ToldSound
      <4>2. CASE x \notin told
        <5>1. PICK n \in DOMAIN run.records, view \in Views, hit \in BOOLEAN :
            /\ IF hit THEN KnownPositive(run.records[n], view) ELSE KnownNegative(run.records[n], view)
            /\ x = [job |-> run.records[n].job, view |-> view, hit |-> hit, firm |-> Firm(run.records[n], view)]
          BY <1>1, <2>1, <4>2
        <5> QED  BY <1>1, <3>1, <5>1, ClaimSound
      <4> QED  BY <4>1, <4>2
    <3> QED  BY <1>1, <1>8, <3>2, ToldGrows
  <2> QED  BY <2>1 DEF ToldSound
<1> QED  BY <1>4, <1>5, <1>7, <1>9, <1>10, <1>11 DEF EvalInv

\* Every step of the runs keeps the invariant.
LEMMA EvalStep == EvalInv /\ [EvalNext]_evalVars => EvalInv'
<1> SUFFICES ASSUME EvalInv, [EvalNext]_evalVars PROVE EvalInv'
  OBVIOUS
<1>1. CASE UNCHANGED evalVars
  <2>1. UNCHANGED <<harness, file, torn, bills, told, run>>
    BY <1>1 DEF evalVars
  <2>2. RunTypes'
    BY <2>1 DEF EvalInv, EvalTypes, RunTypes, ARun, IsSequence
  <2>3. Grows(run.memory, run'.memory)
    BY <2>1 DEF Grows
  <2>4. RecordsSound'
    BY <2>1, <2>3, RecordsStay
  <2>5. LogSound'
    <3>1. Job' = Job
      BY <2>1, SameHarness DEF Job
    <3>2. LogOf(Job, run.memory, run.log)'
      BY <2>1, <3>1, LogStays DEF EvalInv, LogSound
    <3> QED  BY <2>1, <3>2 DEF EvalInv, LogSound
  <2> QED  BY <2>1, <2>2, <2>4, <2>5, QuietStep
<1>2. QED
  BY <1>1, StartRunInv, CallCachedInv, CallRefusedInv, CallAnsweredInv, CallFailsInv, CallInterruptedInv,
     FinishItemInv, StageUnaskedInv, StageCachedInv, StageRefusedInv, StageAnsweredInv, StageFailsInv,
     StageInterruptedInv, FinishRunInv, KillInv, KillInPutInv DEF EvalNext

\* It holds at the start, with or without an old line in the file.
LEMMA EvalStart == EvalInit => EvalInv
<1> SUFFICES ASSUME EvalInit PROVE EvalInv
  OBVIOUS
<1>1. /\ harness \in {"pr", "unit"} /\ file \in {<<>>, <<Old>>} /\ torn = FALSE /\ run = NoRun
      /\ bills = <<>> /\ told = {}
  BY DEF EvalInit
<1>2. /\ ARun(run) /\ run.log = <<>> /\ run.records = <<>> /\ run.job = 1 /\ run.calls = 0
      /\ run.limits = [calls |-> 0, tokens |-> 0] /\ run.pc = "idle"
  BY <1>1 DEF NoRun, ARun
<1>3. RunTypes /\ LogSound /\ RecordsSound
  BY <1>2, EmptySequence DEF RunTypes, LogSound, LogOf, RecordsSound
<1>4. IsSequence(file) /\ \A i \in DOMAIN file : file[i].readable
  <2>1. CASE file = <<>>
    BY <2>1, EmptySequence
  <2>2. CASE file = <<Old>>
    <3>1. file = Append(<<>>, Old) /\ Old.readable /\ Len(<<>>) = 0
      BY <2>2 DEF Old
    <3>2. IsSequence(file) /\ DOMAIN file = 1..(0 + 1) /\ file[0 + 1] = Old
      BY <3>1, EmptySequence, SequenceGrows, ZenonT(60)
    <3> QED  BY <3>1, <3>2
  <2> QED  BY <1>1, <2>1, <2>2
<1>5. EvalTypes
  BY <1>1, <1>3, <1>4, EmptySequence DEF EvalTypes
<1>6. MemoryKept /\ PaidOnce /\ ToldSound
  BY <1>1, <1>2, EmptySequence DEF MemoryKept, PaidOnce, ToldSound
<1> QED  BY <1>3, <1>5, <1>6 DEF EvalInv

\* ResumeIsReplay is what the invariant says of records and bills.
LEMMA ReplayGoal == EvalInv => ResumeIsReplay
<1> SUFFICES ASSUME EvalInv PROVE ResumeIsReplay
  OBVIOUS
<1>1. ASSUME NEW i \in DOMAIN run.records, Scored(run.records[i])
      PROVE  LET r == run.records[i]
                 replay == Replayed(r.job.item, r.job.repeat, run.memory)
             IN  Exchange(replay) = Exchange(r.log) /\ NextPrompt(r.job.item, replay) = Done
  <2> DEFINE r == run.records[i]
  <2>1. WholeLog(r.job, run.memory, r.log) /\ r.job.item \in DOMAIN Items
    BY <1>1 DEF EvalInv, RecordsSound, RecordOf, WholeLog
  <2>2. harness \in {"pr", "unit"}
    BY DEF EvalInv, EvalTypes
  <2> QED  BY <2>1, <2>2, ReplayTellsAll
<1>2. run.calls <= run.limits.calls
  BY DEF EvalInv, EvalTypes, RunTypes
<1> QED  BY <1>1, <1>2 DEF EvalInv, PaidOnce, ResumeIsReplay

\* Two whole logs of a job in one memory show the same findings.
LEMMA SameView ==
    ASSUME NEW task, NEW m, NEW a, NEW b, WholeLog(task, m, a), WholeLog(task, m, b), NEW name
    PROVE  View(name, task.item, a) = View(name, task.item, b)
<1>1. Compatible(m, m)
  BY DEF Compatible
<1>2. IsSequence(a) /\ IsSequence(b) /\ Len(a) \in Nat /\ Len(b) \in Nat
  BY SequenceGrows DEF WholeLog
<1>3. Len(b) <= Len(a) /\ Agree(a, b, Len(b))
  BY <1>1, OneWholeLog DEF WholeLog
<1>4. Len(a) <= Len(b)
  BY <1>1, OneWholeLog DEF WholeLog
<1>5. Len(a) = Len(b)
  BY <1>2, <1>3, <1>4
<1> QED  BY <1>2, <1>3, <1>5, NextOfExchange

\* BoundsHold is what the invariant says of two claims about an item.
LEMMA BoundsGoal == EvalInv => BoundsHold
<1> SUFFICES ASSUME EvalInv, NEW x \in told, NEW y \in told, x.job = y.job, x.view = y.view,
                    x.firm, y.firm, NoneLost(x.job)
             PROVE  x.hit = y.hit
  BY DEF BoundsHold, NoneLost
<1>0. harness \in {"pr", "unit"}
  BY DEF EvalInv, EvalTypes
<1>1. ToldOf(x) /\ ToldOf(y)
  BY DEF EvalInv, ToldSound
<1>2. x.job.item \in DOMAIN Items /\ x.hit \in BOOLEAN /\ y.hit \in BOOLEAN
  BY <1>1 DEF ToldOf
<1>3. ASSUME NEW u, NEW w, u.job = w.job, u.view = w.view, u.job.item \in DOMAIN Items, WholeTold(u), SettledTold(w)
      PROVE  u.hit /\ w.hit
  <2>1. PICK a : WholeLog(u.job, Loaded, a) /\ (u.hit <=> View(u.view, u.job.item, a) # {})
    BY <1>3 DEF WholeTold
  <2>2. /\ w.hit /\ u.view = "raw"
        /\ \E b : IsSequence(b) /\ LogOf(u.job, Loaded, b) /\ SettledFinding(u.job.item, b)
    BY <1>3 DEF SettledTold
  <2>3. View("raw", u.job.item, a) # {}
    BY <1>0, <1>3, <2>1, <2>2, SettledFound
  <2> QED  BY <2>1, <2>2, <2>3
<1>4. CASE WholeTold(x) /\ WholeTold(y)
  <2>1. PICK a : WholeLog(x.job, Loaded, a) /\ (x.hit <=> View(x.view, x.job.item, a) # {})
    BY <1>4 DEF WholeTold
  <2>2. PICK b : WholeLog(x.job, Loaded, b) /\ (y.hit <=> View(x.view, x.job.item, b) # {})
    BY <1>4 DEF WholeTold
  <2>3. View(x.view, x.job.item, a) = View(x.view, x.job.item, b)
    BY <2>1, <2>2, SameView
  <2> QED  BY <1>2, <2>1, <2>2, <2>3
<1>5. CASE SettledTold(x) /\ SettledTold(y)
  BY <1>2, <1>5 DEF SettledTold
<1>6. CASE WholeTold(x) /\ SettledTold(y)
  BY <1>2, <1>3, <1>6
<1>7. CASE SettledTold(x) /\ WholeTold(y)
  BY <1>2, <1>3, <1>7
<1> QED  BY <1>1, <1>4, <1>5, <1>6, <1>7 DEF ToldOf

\* An item that is scored stays scored and keeps its findings: a further run replays exactly its
\* exchange from the cache; and no answer is paid for twice, unless the file lost it (EvalGate,
\* LLMCache, run_llm_stage).
THEOREM ReplaySound == Spec => []ResumeIsReplay
<1>1. Init => EvalInv
  BY EvalStart DEF Init
<1>2. EvalInv /\ [Next]_vars => EvalInv'
  <2>1. [Next]_vars => [EvalNext]_evalVars
    BY DEF Next, vars
  <2> QED  BY <2>1, EvalStep
<1>3. EvalInv => ResumeIsReplay
  BY ReplayGoal
<1> QED  BY <1>1, <1>2, <1>3, PTL DEF Spec

\* What a run claims to know of an item no other run refutes: whole results and, of what the audit
\* found, partial ones whose failed calls could not have asked for a round before the finding (the
\* bounds of sensitivity in run_pr_eval.py).
THEOREM BoundsSound == Spec => []BoundsHold
<1>1. Init => EvalInv
  BY EvalStart DEF Init
<1>2. EvalInv /\ [Next]_vars => EvalInv'
  <2>1. [Next]_vars => [EvalNext]_evalVars
    BY DEF Next, vars
  <2> QED  BY <2>1, EvalStep
<1>3. EvalInv => BoundsHold
  BY BoundsGoal
<1> QED  BY <1>1, <1>2, <1>3, PTL DEF Spec

------------------------------------------------------------------------------
(* VectorStore.                                                            *)

\* The best of some points: of a point that is good enough and left out as many as may be
\* taken are as good.
IsBest(B, score, least, n) ==
    /\ \E m \in Nat : m <= n /\ DOMAIN B = 1..m
    /\ \A k \in DOMAIN B : B[k] \in DOMAIN score /\ score[B[k]] >= least
    /\ \A k, l \in DOMAIN B : B[k] = B[l] => k = l
    /\ \A p \in DOMAIN score : score[p] >= least =>
          \/ \E k \in DOMAIN B : B[k] = p
          \/ Cardinality({q \in DOMAIN score : score[q] >= least /\ score[q] >= score[p]}) > n
LEMMA BestFacts ==
    ASSUME NEW score, IsFiniteSet(DOMAIN score), NEW least \in Int, NEW n \in Nat,
           \A p \in DOMAIN score : score[p] \in Int /\ p.id \in Int,
           \A p, q \in DOMAIN score : p.id = q.id => p = q
    PROVE  IsBest(Best(score, least, n), score, least, n)
<1> DEFINE good == {p \in DOMAIN score : score[p] >= least}
           before(p, q) == score[p] > score[q] \/ (score[p] = score[q] /\ p.id < q.id)
           R == {e \in good \X good : before(e[1], e[2])}
           order == Ranked(good, LAMBDA p, q : score[p] > score[q] \/ (score[p] = score[q] /\ p.id < q.id))
           N == Cardinality(good)
           m == Min({n, N})
           B == Best(score, least, n)
<1>1. IsFiniteSet(good)
  BY FS_Subset
<1>2. order = [k \in 1..N |-> CHOOSE x \in good : Cardinality({y \in good : before(y, x)}) = k - 1]
  BY DEF Ranked
<1>3. B = [k \in 1..m |-> order[k]]
  BY DEF Best
<1>4. InOrderBy(R, good) /\ \A p, q \in good : <<p, q>> \in R <=> before(p, q)
  <2>1. \A p, q \in good : <<p, q>> \in R <=> before(p, q)
    OBVIOUS
  <2>2. \A p \in good : score[p] \in Int /\ p.id \in Int
    OBVIOUS
  <2>3. \A p, q \in good : p.id = q.id => p = q
    OBVIOUS
  <2> HIDE DEF R, good
  <2>4. \A p, q \in good : ~before(p, p) /\ (p = q \/ before(p, q) \/ before(q, p))
    BY <2>2, <2>3
  <2>5. \A p, q, r \in good : before(p, q) /\ before(q, r) => before(p, r)
    BY <2>2
  <2> HIDE DEF before
  <2> QED  BY <2>1, <2>4, <2>5 DEF InOrderBy
<1>5. \A x \in good : {y \in good : before(y, x)} = Preceding(R, good, x)
  BY <1>4 DEF Preceding
<1>6. \A p, q \in good : before(p, q) => score[p] >= score[q]
  OBVIOUS
<1> HIDE DEF R, before, order, B
<1>7. N \in Nat /\ \A k \in 1..N : \E x \in good : Cardinality({y \in good : before(y, x)}) = k - 1
  <2> HIDE DEF good
  <2>1. N \in Nat /\ \A k \in 1..N : \E x \in good : Cardinality(Preceding(R, good, x)) = k - 1
    BY <1>1, <1>4, PlacesInRow
  <2>2. ASSUME NEW k \in 1..N
        PROVE \E x \in good : Cardinality({y \in good : before(y, x)}) = k - 1
    <3>1. PICK x \in good : Cardinality(Preceding(R, good, x)) = k - 1
      BY <2>1
    <3>2. Cardinality({y \in good : before(y, x)}) = k - 1
      BY <1>5, <3>1
    <3> QED  BY <3>2
  <2> QED  BY <2>1, <2>2
<1>8. \A k \in 1..N : order[k] \in good /\ Cardinality({y \in good : before(y, order[k])}) = k - 1
  <2> HIDE DEF N, good
  <2> QED  BY <1>2, <1>7
<1>9. \A k \in 1..N : order[k] \in good /\ Cardinality(Preceding(R, good, order[k])) = k - 1
  <2> HIDE DEF good
  <2> QED  BY <1>5, <1>8
<1>10. /\ \A x \in good : /\ Cardinality(Preceding(R, good, x)) + 1 \in 1..N
                          /\ order[Cardinality(Preceding(R, good, x)) + 1] = x
       /\ \A i, j \in 1..N : order[i] = order[j] => i = j
  <2> HIDE DEF good
  <2> QED  BY <1>1, <1>4, <1>9, InRow
<1>11. m = (IF n <= N THEN n ELSE N) /\ m \in Nat /\ m <= n /\ m <= N
  <2>1. n \in Int /\ N \in Int
    BY <1>7
  <2> HIDE DEF N
  <2>2. m = (IF n <= N THEN n ELSE N)
    BY <2>1, LesserOfTwo
  <2> QED  BY <1>7, <2>2
<1> HIDE DEF m, N
<1>12. DOMAIN B = 1..m /\ \A k \in 1..m : k \in 1..N /\ B[k] = order[k]
  BY <1>3, <1>7, <1>11
<1>13. ASSUME NEW p \in good, ~\E k \in DOMAIN B : B[k] = p
       PROVE  Cardinality({q \in DOMAIN score : score[q] >= least /\ score[q] >= score[p]}) > n
  <2> DEFINE D == Preceding(R, good, p)
             T == {q \in DOMAIN score : score[q] >= least /\ score[q] >= score[p]}
  <2>1. D \subseteq good /\ IsFiniteSet(D) /\ p \notin D
    BY <1>1, <1>4, FS_Subset DEF Preceding, InOrderBy
  <2>2. Cardinality(D) \in Nat
    <3> HIDE DEF D
    <3> QED  BY <2>1, FS_CardinalityType
  <2>3. Cardinality(D) + 1 \in 1..N /\ order[Cardinality(D) + 1] = p
    BY <1>10
  <2>4. Cardinality(D) + 1 \notin 1..m
    BY <1>12, <1>13, <2>3
  <2>5. Cardinality(D) >= n
    <3> HIDE DEF D
    <3> QED  BY <1>7, <1>11, <2>2, <2>3, <2>4
  <2>6. D \cup {p} \subseteq T
    <3>1. \A q \in D : before(q, p)
      BY <1>4 DEF Preceding
    <3> QED  BY <1>6, <2>1, <3>1
  <2>7. Cardinality(D \cup {p}) = Cardinality(D) + 1
    <3> HIDE DEF D
    <3> QED  BY <2>1, FS_AddElement
  <2>8. IsFiniteSet(T)
    BY FS_Subset
  <2> HIDE DEF D, T
  <2>9. Cardinality(D \cup {p}) <= Cardinality(T) /\ Cardinality(T) \in Nat
    BY <2>6, <2>8, FS_Subset, FS_CardinalityType
  <2>10. Cardinality(T) > n
    BY <2>2, <2>5, <2>7, <2>9
  <2> QED  BY <2>10 DEF T
<1>14. \A k \in DOMAIN B : B[k] \in good
  <2> HIDE DEF good
  <2> QED  BY <1>9, <1>12
<1>15. \A k, l \in DOMAIN B : B[k] = B[l] => k = l
  BY <1>10, <1>12
<1>16. IsBest(B, score, least, n)
  BY <1>11, <1>12, <1>13, <1>14, <1>15 DEF IsBest
<1> QED  BY <1>16 DEF B

\* A point as the script makes it of a record.
PointFrom(r) == [id |-> r.id, language |-> r.language, code |-> r.code,
                 fixed |-> IF r.fixed = r.code THEN NoText ELSE r.fixed]
PointsOf == {PointFrom(r) : r \in {r \in CorpusRecords : r.code # NoText}}

LEMMA ShareNat ==
    ASSUME NEW d \in Nat, d # 0
    PROVE  60 \div d \in Nat
<1>1. 60 \div d \in Int
  OBVIOUS
<1>2. 60 = (d * (60 \div d)) + (60 % d) /\ (60 % d) \in 0..(d - 1)
  OBVIOUS
<1> DEFINE q == 60 \div d
<1> HIDE DEF q
<1>3. ASSUME q < 0 PROVE FALSE
  <2>1. q + 1 \in Int /\ q + 1 <= 0 /\ q \in Int
    BY <1>1, <1>3 DEF q
  <2>2. d * (q + 1) <= 0
    BY <2>1
  <2>3. d * (q + 1) = d * q + d
    BY <2>1
  <2> QED  BY <1>2, <2>1, <2>2, <2>3 DEF q
<1> QED  BY <1>1, <1>3 DEF q

LEMMA RankShareNat ==
    ASSUME NEW list, NEW m \in Nat, DOMAIN list = 1..m, Len(list) = m, NEW p
    PROVE  RankShare(list, p) \in Nat
<1>1. CASE Contains(list, p)
  <2> DEFINE i == CHOOSE i \in DOMAIN list : list[i] = p
  <2>1. \E j \in DOMAIN list : list[j] = p
    BY <1>1 DEF Contains
  <2>2. i \in 1..m
    BY <2>1
  <2>3. RankShare(list, p) = 60 \div (1 + i)
    BY <1>1 DEF RankShare
  <2> HIDE DEF i
  <2> QED  BY <2>2, <2>3, ShareNat
<1>2. CASE ~Contains(list, p)
  BY <1>2 DEF RankShare
<1> QED  BY <1>1, <1>2

\* The points that are near enough.
Passing(points, isHybrid, query, language) ==
    {p \in Among(points, language) :
        \/ DenseSim[query][p.code] >= DenseMin
        \/ isHybrid /\ SparseSim[query][p.code] >= SparseMin}

\* A list of some points, each once, that leaves one out only when it has as many as it may.
ListsOf(list, passing) ==
    /\ \E m \in Nat : DOMAIN list = 1..m
    /\ \A k \in DOMAIN list : list[k] \in passing
    /\ \A k, l \in DOMAIN list : list[k] = list[l] => k = l
    /\ \A p \in passing : (\E k \in DOMAIN list : list[k] = p) \/ Cardinality(passing) > AnnCandidates

\* A part of a finite set is no larger.
LEMMA PartIsSmaller ==
    ASSUME NEW S, IsFiniteSet(S), NEW T, T \subseteq S, NEW n \in Nat, Cardinality(T) > n
    PROVE  Cardinality(S) > n
<1>1. Cardinality(T) <= Cardinality(S) /\ IsFiniteSet(T)
  BY FS_Subset
<1>2. Cardinality(T) \in Nat /\ Cardinality(S) \in Nat
  BY <1>1, FS_CardinalityType
<1> QED  BY <1>1, <1>2

\* A dense search takes the nearest, and of them those near enough.
LEMMA DenseFacts ==
    ASSUME NEW points, IsFiniteSet(points), points \subseteq PointsOf,
           \A p, q \in points : p.id = q.id => p = q,
           NEW query \in CodeQueries, NEW language
    PROVE  ListsOf(Found(points, FALSE, query, language), Passing(points, FALSE, query, language))
<1> DEFINE among == Among(points, language)
           dense == [p \in among |-> DenseSim[query][p.code]]
           nearest == Best(dense, 0, AnnCandidates)
           T == {k \in DOMAIN nearest : dense[nearest[k]] >= DenseMin}
           list == Found(points, FALSE, query, language)
           passing == Passing(points, FALSE, query, language)
<1>1. list = Picked(nearest, T)
  BY DEF Found
<1>2. passing = {p \in among : dense[p] >= DenseMin}
  BY DEF Passing
<1>3. /\ IsFiniteSet(among) /\ DOMAIN dense = among
      /\ \A p \in among : dense[p] \in Int /\ p.id \in Int
      /\ \A p, q \in among : p.id = q.id => p = q
  <2>1. among \subseteq points
    BY DEF Among
  <2>2. IsFiniteSet(among)
    BY <2>1, FS_Subset
  <2>3. ASSUME NEW p \in among PROVE DenseSim[query][p.code] \in Int /\ p.id \in Int
    <3>1. PICK r \in CorpusRecords : r.code # NoText /\ p = PointFrom(r)
      BY <2>1 DEF PointsOf
    <3> QED  BY <3>1, VectorInputs DEF PointFrom
  <2> HIDE DEF among
  <2> QED  BY <2>1, <2>2, <2>3
<1> HIDE DEF among, dense, passing
<1>4. AnnCandidates \in Nat /\ DenseMin \in Nat /\ 0 \in Int
  BY VectorInputs
<1>5a. IsBest(nearest, dense, 0, AnnCandidates)
  BY <1>3, <1>4, BestFacts
<1> HIDE DEF nearest
<1>5. /\ \E m \in Nat : m <= AnnCandidates /\ DOMAIN nearest = 1..m
      /\ \A k \in DOMAIN nearest : nearest[k] \in among /\ dense[nearest[k]] >= 0
      /\ \A k, l \in DOMAIN nearest : nearest[k] = nearest[l] => k = l
      /\ \A p \in DOMAIN dense : dense[p] >= 0 =>
            \/ \E k \in DOMAIN nearest : nearest[k] = p
            \/ Cardinality({q \in DOMAIN dense : dense[q] >= 0 /\ dense[q] >= dense[p]}) > AnnCandidates
  BY <1>3, <1>5a DEF IsBest
<1>6. T \subseteq Int /\ IsFiniteSet(T)
  <2>1. PICK m \in Nat : DOMAIN nearest = 1..m
    BY <1>5
  <2>2. IsFiniteSet(1..m)
    BY FS_Interval
  <2> QED  BY <2>1, <2>2, FS_Subset
<1>7. \A k : k \in T <=> k \in DOMAIN nearest /\ nearest[k] \in passing
  BY <1>2, <1>5
<1> HIDE DEF T, list
<1>8. IsPicked(list, nearest, T)
  BY <1>1, <1>6, PickedFacts
<1>9. PICK f : /\ \A k \in DOMAIN list : f[k] \in T /\ list[k] = nearest[f[k]]
               /\ \A k, l \in DOMAIN list : k < l <=> f[k] < f[l]
  BY <1>8 DEF IsPicked
<1>10. ASSUME NEW k \in DOMAIN list, NEW l \in DOMAIN list, list[k] = list[l] PROVE k = l
  <2>1. f[k] = f[l] /\ f[k] \in Int
    BY <1>5, <1>6, <1>7, <1>9, <1>10
  <2>2. k \in Int /\ l \in Int /\ ~(f[k] < f[l]) /\ ~(f[l] < f[k])
    BY <1>8, <2>1 DEF IsPicked
  <2> QED  BY <1>9, <2>2
<1>11. ASSUME NEW p \in passing, ~\E k \in DOMAIN list : list[k] = p
       PROVE  Cardinality(passing) > AnnCandidates
  <2>1. p \in among /\ dense[p] >= DenseMin /\ dense[p] >= 0
    BY <1>2, <1>3, <1>4
  <2>2. ~\E k \in DOMAIN nearest : nearest[k] = p
    BY <1>7, <1>8, <1>11 DEF IsPicked
  <2> DEFINE Q == {q \in DOMAIN dense : dense[q] >= 0 /\ dense[q] >= dense[p]}
  <2>3. Cardinality(Q) > AnnCandidates
    BY <1>3, <1>5, <2>1, <2>2
  <2>4. Q \subseteq passing
    BY <1>2, <1>3, <1>4, <2>1
  <2>5. IsFiniteSet(passing)
    BY <1>2, <1>3, FS_Subset
  <2> HIDE DEF Q
  <2> QED  BY <1>4, <2>3, <2>4, <2>5, PartIsSmaller
<1>12. \A k \in DOMAIN list : list[k] \in passing
  BY <1>7, <1>9
<1>13. ListsOf(list, passing)
  BY <1>8, <1>10, <1>11, <1>12 DEF ListsOf, IsPicked
<1> QED  BY <1>13 DEF list, passing

\* A hybrid search fuses the two lists.
LEMMA HybridFacts ==
    ASSUME NEW points, IsFiniteSet(points), points \subseteq PointsOf,
           \A p, q \in points : p.id = q.id => p = q,
           NEW query \in CodeQueries, NEW language
    PROVE  ListsOf(Found(points, TRUE, query, language), Passing(points, TRUE, query, language))
<1> DEFINE among == Among(points, language)
           dense == [p \in among |-> DenseSim[query][p.code]]
           sparse == [p \in among |-> SparseSim[query][p.code]]
           D == Best(dense, DenseMin, AnnCandidates)
           S == Best(sparse, SparseMin, AnnCandidates)
           both == ToSet(D) \cup ToSet(S)
           share == [p \in both |-> RankShare(D, p) + RankShare(S, p)]
           list == Found(points, TRUE, query, language)
           passing == Passing(points, TRUE, query, language)
<1>1. list = Best(share, 0, AnnCandidates)
  BY DEF Found, Fused
<1>2. passing = {p \in among : dense[p] >= DenseMin \/ sparse[p] >= SparseMin}
  BY DEF Passing
<1>3. /\ IsFiniteSet(among) /\ DOMAIN dense = among /\ DOMAIN sparse = among
      /\ \A p \in among : dense[p] \in Int /\ sparse[p] \in Int /\ p.id \in Int
      /\ \A p, q \in among : p.id = q.id => p = q
  <2>1. among \subseteq points
    BY DEF Among
  <2>2. IsFiniteSet(among)
    BY <2>1, FS_Subset
  <2>3. ASSUME NEW p \in among
        PROVE  DenseSim[query][p.code] \in Int /\ SparseSim[query][p.code] \in Int /\ p.id \in Int
    <3>1. PICK r \in CorpusRecords : r.code # NoText /\ p = PointFrom(r)
      BY <2>1 DEF PointsOf
    <3> QED  BY <3>1, VectorInputs DEF PointFrom
  <2> HIDE DEF among
  <2> QED  BY <2>1, <2>2, <2>3
<1> HIDE DEF among, dense, sparse, passing, list
<1>4. AnnCandidates \in Nat /\ DenseMin \in Nat /\ SparseMin \in Nat /\ 0 \in Int /\ DenseMin \in Int /\ SparseMin \in Int
  BY VectorInputs
<1>5. IsBest(D, dense, DenseMin, AnnCandidates)
  BY <1>3, <1>4, BestFacts
<1>6. IsBest(S, sparse, SparseMin, AnnCandidates)
  <2>1. IsFiniteSet(DOMAIN sparse) /\ \A p \in DOMAIN sparse : sparse[p] \in Int /\ p.id \in Int
    BY <1>3
  <2>2. \A p, q \in DOMAIN sparse : p.id = q.id => p = q
    BY <1>3
  <2> QED  BY <1>4, <2>1, <2>2, BestFacts
<1>7. /\ \E m \in Nat : DOMAIN D = 1..m /\ Len(D) = m
      /\ \E m \in Nat : DOMAIN S = 1..m /\ Len(S) = m
  <2>1. \E m \in Nat : DOMAIN D = 1..m
    BY <1>5 DEF IsBest
  <2>2. \E m \in Nat : DOMAIN S = 1..m
    BY <1>6 DEF IsBest
  <2> HIDE DEF D, S
  <2>3. \A q, m : m \in Nat /\ DOMAIN q = 1..m => Len(q) = m
    OBVIOUS
  <2> QED  BY <2>1, <2>2, <2>3
<1> HIDE DEF D, S
<1>8. both \subseteq passing /\ IsFiniteSet(passing) /\ IsFiniteSet(both)
  <2>1. both \subseteq passing
    BY <1>2, <1>3, <1>5, <1>6 DEF ToSet, IsBest
  <2>2. IsFiniteSet(passing)
    BY <1>2, <1>3, FS_Subset
  <2> HIDE DEF both
  <2> QED  BY <2>1, <2>2, FS_Subset
<1>9. \A p \in both : p \in among
  BY <1>2, <1>8
<1>10. \A p \in both : share[p] \in Int /\ share[p] >= 0
  <2>1. \A p : RankShare(D, p) \in Nat /\ RankShare(S, p) \in Nat
    BY <1>7, RankShareNat
  <2> HIDE DEF both
  <2> QED  BY <2>1
<1>11. DOMAIN share = both
  OBVIOUS
<1>12. \A p : p \in both <=> (\E k \in DOMAIN D : D[k] = p) \/ (\E k \in DOMAIN S : S[k] = p)
  BY DEF ToSet
<1> HIDE DEF share, both
<1>13. \A p \in both : share[p] \in Int /\ p.id \in Int
  BY <1>3, <1>9, <1>10
<1>14. \A p, q \in both : p.id = q.id => p = q
  BY <1>3, <1>9
<1>15. IsBest(list, share, 0, AnnCandidates)
  BY <1>1, <1>4, <1>8, <1>11, <1>13, <1>14, BestFacts
<1>16. ASSUME NEW p \in passing, ~\E k \in DOMAIN list : list[k] = p
       PROVE  Cardinality(passing) > AnnCandidates
  <2>1. CASE p \in both
    <3> DEFINE Q == {q \in DOMAIN share : share[q] >= 0 /\ share[q] >= share[p]}
    <3>1. Cardinality(Q) > AnnCandidates
      BY <1>10, <1>11, <1>15, <1>16, <2>1 DEF IsBest
    <3>2. Q \subseteq passing
      BY <1>8, <1>11
    <3> HIDE DEF Q
    <3> QED  BY <1>4, <1>8, <3>1, <3>2, PartIsSmaller
  <2>2. CASE p \notin both /\ dense[p] >= DenseMin
    <3> DEFINE Q == {q \in DOMAIN dense : dense[q] >= DenseMin /\ dense[q] >= dense[p]}
    <3>1. Cardinality(Q) > AnnCandidates
      BY <1>2, <1>3, <1>5, <1>12, <2>2 DEF IsBest
    <3>2. Q \subseteq passing
      BY <1>2, <1>3
    <3> HIDE DEF Q
    <3> QED  BY <1>4, <1>8, <3>1, <3>2, PartIsSmaller
  <2>3. CASE p \notin both /\ sparse[p] >= SparseMin
    <3> DEFINE Q == {q \in DOMAIN sparse : sparse[q] >= SparseMin /\ sparse[q] >= sparse[p]}
    <3>1. Cardinality(Q) > AnnCandidates
      BY <1>2, <1>3, <1>6, <1>12, <2>3 DEF IsBest
    <3>2. Q \subseteq passing
      BY <1>2, <1>3
    <3> HIDE DEF Q
    <3> QED  BY <1>4, <1>8, <3>1, <3>2, PartIsSmaller
  <2> QED  BY <1>2, <2>1, <2>2, <2>3
<1>17. \A k \in DOMAIN list : list[k] \in passing
  BY <1>8, <1>11, <1>15 DEF IsBest
<1>18. ListsOf(list, passing)
  BY <1>15, <1>16, <1>17 DEF ListsOf, IsBest
<1> QED  BY <1>18 DEF list, passing

\* What a search returns: matches that pass, each point once, with the margin of its record.
LEMMA HitsFacts ==
    ASSUME NEW points, IsFiniteSet(points), points \subseteq PointsOf,
           \A p, q \in points : p.id = q.id => p = q,
           NEW isHybrid \in BOOLEAN, NEW query \in CodeQueries, NEW language
    PROVE  LET hits == Hits(points, isHybrid, query, language)
               passing == Passing(points, isHybrid, query, language)
           IN  /\ \E m \in Nat : DOMAIN hits = 1..m
               /\ \A k \in DOMAIN hits : /\ hits[k].point \in passing
                                         /\ hits[k].margin = TwinMargin(query, hits[k].point)
               /\ \A k, l \in DOMAIN hits : hits[k].point = hits[l].point => k = l
               /\ \A p \in passing : Passes(TwinMargin(query, p)) =>
                     (\E k \in DOMAIN hits : hits[k].point = p) \/ Cardinality(passing) > AnnCandidates
<1> DEFINE list == Found(points, isHybrid, query, language)
           passing == Passing(points, isHybrid, query, language)
           all == [k \in DOMAIN list |-> [point |-> list[k], margin |-> TwinMargin(query, list[k])]]
           T == {k \in DOMAIN all : Passes(all[k].margin)}
           hits == Hits(points, isHybrid, query, language)
<1>1. hits = Picked(all, T)
  BY DEF Hits
<1>2. ListsOf(list, passing)
  BY DenseFacts, HybridFacts
<1> HIDE DEF list, passing, hits
<1>3. /\ DOMAIN all = DOMAIN list
      /\ \A k \in DOMAIN list : all[k].point = list[k] /\ all[k].margin = TwinMargin(query, list[k])
  OBVIOUS
<1>4. \A k : k \in T <=> k \in DOMAIN list /\ Passes(TwinMargin(query, list[k]))
  OBVIOUS
<1> HIDE DEF all
<1>5. T \subseteq Int /\ IsFiniteSet(T)
  <2>1. PICK m \in Nat : DOMAIN list = 1..m
    BY <1>2 DEF ListsOf
  <2>2. IsFiniteSet(1..m)
    BY FS_Interval
  <2> QED  BY <1>3, <2>1, <2>2, FS_Subset
<1> HIDE DEF T
<1>6. IsPicked(hits, all, T)
  BY <1>1, <1>5, PickedFacts
<1>7. PICK f : /\ \A k \in DOMAIN hits : f[k] \in T /\ hits[k] = all[f[k]]
               /\ \A k, l \in DOMAIN hits : k < l <=> f[k] < f[l]
  BY <1>6 DEF IsPicked
<1>8. \A k \in DOMAIN hits : /\ f[k] \in DOMAIN list /\ hits[k].point = list[f[k]]
                             /\ hits[k].margin = TwinMargin(query, hits[k].point)
  BY <1>3, <1>4, <1>7
<1>9. ASSUME NEW k \in DOMAIN hits, NEW l \in DOMAIN hits, hits[k].point = hits[l].point PROVE k = l
  <2>1. f[k] = f[l] /\ f[k] \in Int
    BY <1>2, <1>5, <1>7, <1>8, <1>9 DEF ListsOf
  <2>2. k \in Int /\ l \in Int /\ ~(f[k] < f[l]) /\ ~(f[l] < f[k])
    BY <1>6, <2>1 DEF IsPicked
  <2> QED  BY <1>7, <2>2
<1>10. ASSUME NEW p \in passing, Passes(TwinMargin(query, p)), ~\E k \in DOMAIN hits : hits[k].point = p
       PROVE  Cardinality(passing) > AnnCandidates
  <2>1. ~\E k \in DOMAIN list : list[k] = p
    <3>1. ASSUME NEW k \in DOMAIN list, list[k] = p PROVE FALSE
      <4>1. k \in T
        BY <1>4, <1>10, <3>1
      <4> QED  BY <1>3, <1>6, <1>10, <3>1, <4>1, ZenonT(60) DEF IsPicked
    <3> QED  BY <3>1
  <2> QED  BY <1>2, <2>1 DEF ListsOf
<1>11. \A k \in DOMAIN hits : hits[k].point \in passing
  BY <1>2, <1>8 DEF ListsOf
<1>12. \E m \in Nat : DOMAIN hits = 1..m
  BY <1>6 DEF IsPicked
<1> QED  BY <1>8, <1>9, <1>10, <1>11, <1>12 DEF hits, passing

\* The vectors of a batch go back to the records they came from.
LEMMA EmbedPairsSame ==
    ASSUME NEW records \in Seq(PointsOf)
    PROVE  EmbedPairs(records) = records
<1> DEFINE n == Len(records)
           T == WithFix(records)
           codes == [i \in DOMAIN records |-> records[i].code]
           fixes == [i \in DOMAIN records |-> records[i].fixed]
           picks == Picked(fixes, T)
           S == {records[i].code : i \in 1..n} \cup {records[i].fixed : i \in 1..n}
           batch == BatchOf(records)
           At(i) == Cardinality({j \in T : j <= i})
<1>1. n \in Nat /\ DOMAIN records = 1..n /\ \A i \in 1..n : records[i] \in PointsOf
  BY LenProperties, ElementOfSeq
<1>2. batch = codes \o picks
  BY DEF BatchOf
<1>3. /\ T \subseteq 1..n /\ T \subseteq Int /\ IsFiniteSet(T)
      /\ \A i \in 1..n : i \in T <=> records[i].fixed # NoText
  <2>1. IsFiniteSet(1..n)
    BY <1>1, FS_Interval
  <2> HIDE DEF n
  <2> QED  BY <1>1, <2>1, FS_Subset DEF WithFix
<1> HIDE DEF T
<1>4. IsPicked(picks, fixes, T)
  BY <1>3, PickedFacts
<1>5. EmbedPairs(records) = [i \in 1..n |-> [records[i] EXCEPT
          !.code = batch[i], !.fixed = IF @ = NoText THEN NoText ELSE batch[n + At(i)]]]
  BY <1>1 DEF EmbedPairs, T
<1> HIDE DEF n
<1>6. codes \in Seq(S) /\ Len(codes) = n /\ \A i \in 1..n : codes[i] = records[i].code
  <2>1. codes \in [1..n -> S]
    BY <1>1
  <2>2. codes \in Seq(S)
    BY <1>1, <2>1, SeqDef
  <2>3. Len(codes) = n
    BY <1>1, <2>2, LenProperties
  <2> QED  BY <1>1, <2>2, <2>3
<1>7. \A i \in T : fixes[i] = records[i].fixed /\ fixes[i] \in S
  BY <1>1, <1>3
<1> HIDE DEF codes, fixes, S, picks
<1>8. picks \in Seq(S)
  <2>1. Cardinality(T) \in Nat /\ DOMAIN picks = 1..Cardinality(T)
    BY <1>4 DEF IsPicked
  <2>2. \A k \in DOMAIN picks : picks[k] \in S
    BY <1>4, <1>7 DEF IsPicked
  <2>3. picks = [k \in 1..Cardinality(T) |-> picks[k]]
    <3> DEFINE order == Ranked(T, LAMBDA i, j : i < j)
    <3>1. picks = [k \in 1..Cardinality(T) |-> fixes[order[k]]]
      BY DEF picks, Picked
    <3> HIDE DEF order
    <3> QED  BY <3>1
  <2>4. picks \in [1..Cardinality(T) -> S]
    BY <2>1, <2>2, <2>3
  <2> QED  BY <2>1, <2>4, SeqDef
<1>9. Cardinality(T) \in Nat /\ Len(picks) = Cardinality(T)
  BY <1>4, <1>8, LenProperties DEF IsPicked
<1>10. \A i \in 1..(n + Cardinality(T)) : batch[i] = IF i <= n THEN codes[i] ELSE picks[i - n]
  BY <1>2, <1>6, <1>8, <1>9, ConcatProperties
<1> HIDE DEF batch
<1>11. ASSUME NEW i \in 1..n PROVE batch[i] = records[i].code
  <2>1. i \in 1..(n + Cardinality(T)) /\ i <= n
    BY <1>1, <1>9
  <2> QED  BY <1>6, <1>10, <2>1
<1>12. ASSUME NEW i \in 1..n, records[i].fixed # NoText PROVE batch[n + At(i)] = records[i].fixed
  <2> DEFINE L == {j \in T : j < i}
  <2>1. i \in T
    BY <1>3, <1>12
  <2>2. Cardinality(L) + 1 \in DOMAIN picks /\ picks[Cardinality(L) + 1] = records[i].fixed
    BY <1>4, <1>7, <2>1 DEF IsPicked
  <2>3. {j \in T : j <= i} = L \cup {i}
    <3>1. \A j \in T : j <= i <=> j < i \/ j = i
      BY <1>3, <2>1
    <3> QED  BY <2>1, <3>1
  <2>4. IsFiniteSet(L) /\ i \notin L
    BY <1>3, FS_Subset
  <2>5. At(i) = Cardinality(L) + 1
    <3>1. At(i) = Cardinality(L \cup {i})
      BY <2>3
    <3> HIDE DEF L, At
    <3> QED  BY <2>4, <3>1, FS_AddElement
  <2> HIDE DEF L, At
  <2>6. At(i) \in 1..Cardinality(T) /\ picks[At(i)] = records[i].fixed
    BY <1>4, <2>2, <2>5 DEF IsPicked
  <2>7. n + At(i) \in 1..(n + Cardinality(T)) /\ ~(n + At(i) <= n) /\ (n + At(i)) - n = At(i)
    BY <1>1, <1>9, <2>6
  <2> QED  BY <1>10, <2>6, <2>7
<1>13. ASSUME NEW i \in 1..n
       PROVE  [records[i] EXCEPT !.code = batch[i],
                                 !.fixed = IF @ = NoText THEN NoText ELSE batch[n + At(i)]] = records[i]
  <2> DEFINE r == records[i]
  <2>1. r = [id |-> r.id, language |-> r.language, code |-> r.code, fixed |-> r.fixed]
    BY <1>1 DEF PointsOf, PointFrom
  <2>2. batch[i] = r.code /\ (r.fixed # NoText => batch[n + At(i)] = r.fixed)
    BY <1>11, <1>12
  <2> HIDE DEF r, At
  <2>3. [r EXCEPT !.code = batch[i], !.fixed = IF @ = NoText THEN NoText ELSE batch[n + At(i)]] = r
    BY <2>1, <2>2
  <2> QED  BY <2>3 DEF r
<1> HIDE DEF At
<1>14. EmbedPairs(records) = [i \in 1..n |-> records[i]]
  BY <1>5, <1>13
<1>15. records = [i \in 1..n |-> records[i]]
  BY <1>1
<1> QED  BY <1>14, <1>15

\* The records whose code is the last of their id.
LastOf(corpus, i) ==
    /\ corpus[i].code # NoText
    /\ \A j \in DOMAIN corpus : j > i /\ corpus[j].code # NoText => corpus[j].id # corpus[i].id

\* What is prepared of a corpus: each id once, with its last code.
LEMMA PreparedFacts ==
    ASSUME NEW corpus \in Corpora
    PROVE  LET todo == Prepared(corpus) IN
           /\ todo \in Seq(PointsOf)
           /\ \A k, l \in DOMAIN todo : todo[k].id = todo[l].id => k = l
           /\ \A i \in DOMAIN corpus : LastOf(corpus, i) =>
                 \E k \in DOMAIN todo : todo[k].id = corpus[i].id /\ todo[k].code = corpus[i].code
<1> DEFINE usable == {i \in DOMAIN corpus : corpus[i].code # NoText}
           T == {i \in usable : \A j \in usable : j > i => corpus[j].id # corpus[i].id}
           records == Picked(corpus, T)
           todo == Prepared(corpus)
           N == Cardinality(T)
<1>1. todo = [k \in DOMAIN records |->
                 [records[k] EXCEPT !.fixed = IF @ = records[k].code THEN NoText ELSE @]]
  BY DEF Prepared
<1>2. /\ DOMAIN corpus = 1..Len(corpus) /\ Len(corpus) \in Nat
      /\ \A i \in DOMAIN corpus : corpus[i] \in CorpusRecords
  <2>1. corpus \in Seq(CorpusRecords)
    BY VectorInputs
  <2> QED  BY <2>1, LenProperties, ElementOfSeq
<1>3. T \subseteq DOMAIN corpus /\ T \subseteq Int /\ IsFiniteSet(T)
  <2>1. IsFiniteSet(1..Len(corpus))
    BY <1>2, FS_Interval
  <2>2. T \subseteq DOMAIN corpus
    OBVIOUS
  <2> HIDE DEF T
  <2> QED  BY <1>2, <2>1, <2>2, FS_Subset
<1>4. /\ \A i \in DOMAIN corpus : i \in T <=> LastOf(corpus, i)
      /\ \A i, j \in T : i < j => corpus[i].id # corpus[j].id
  BY <1>2 DEF LastOf
<1> HIDE DEF T
<1>5. IsPicked(records, corpus, T)
  BY <1>3, PickedFacts
<1> HIDE DEF records, todo
<1>6. N \in Nat /\ DOMAIN records = 1..N
  BY <1>5 DEF IsPicked
<1>7. ASSUME NEW k \in DOMAIN records PROVE records[k] \in CorpusRecords /\ records[k].code # NoText
  <2>1. \E i \in T : records[k] = corpus[i]
    BY <1>5 DEF IsPicked
  <2> QED  BY <1>2, <1>3, <1>4, <2>1 DEF LastOf
<1>8. ASSUME NEW k \in DOMAIN records
      PROVE  todo[k] = PointFrom(records[k]) /\ todo[k] \in PointsOf
  <2> DEFINE r == records[k]
  <2>1. r \in CorpusRecords /\ r.code # NoText
    BY <1>7
  <2>2. r = [id |-> r.id, language |-> r.language, code |-> r.code, fixed |-> r.fixed]
    BY <2>1, VectorInputs
  <2>3. todo[k] = [r EXCEPT !.fixed = IF @ = r.code THEN NoText ELSE @]
    BY <1>1
  <2> HIDE DEF r
  <2>4. todo[k] = PointFrom(r)
    BY <2>2, <2>3 DEF PointFrom
  <2> QED  BY <2>1, <2>4 DEF PointsOf, r
<1>9. DOMAIN todo = 1..N
  BY <1>1, <1>6
<1> HIDE DEF N
<1>10. todo \in Seq(PointsOf)
  <2>1. todo \in [1..N -> PointsOf]
    BY <1>1, <1>6, <1>8, <1>9
  <2> QED  BY <1>6, <2>1, SeqDef
<1>11. \A k \in DOMAIN todo : k \in DOMAIN records /\ todo[k].id = records[k].id /\ todo[k].code = records[k].code
  BY <1>6, <1>8, <1>9 DEF PointFrom
<1>12. ASSUME NEW k \in DOMAIN todo, NEW l \in DOMAIN todo, todo[k].id = todo[l].id PROVE k = l
  <2>1. PICK f : /\ \A x \in DOMAIN records : f[x] \in T /\ records[x] = corpus[f[x]]
                 /\ \A x, y \in DOMAIN records : x < y <=> f[x] < f[y]
    BY <1>5 DEF IsPicked
  <2>2. corpus[f[k]].id = corpus[f[l]].id /\ f[k] \in T /\ f[l] \in T
    BY <1>11, <1>12, <2>1
  <2>3. ~(f[k] < f[l]) /\ ~(f[l] < f[k])
    BY <1>4, <2>2
  <2>4. ~(k < l) /\ ~(l < k) /\ k \in Int /\ l \in Int
    BY <1>6, <1>11, <2>1, <2>3
  <2> QED  BY <2>4
<1>13. ASSUME NEW i \in DOMAIN corpus, LastOf(corpus, i)
       PROVE  \E k \in DOMAIN todo : todo[k].id = corpus[i].id /\ todo[k].code = corpus[i].code
  <2>1. \E k \in DOMAIN records : records[k] = corpus[i]
    <3>1. i \in T
      BY <1>4, <1>13
    <3> QED  BY <1>5, <3>1 DEF IsPicked
  <2> QED  BY <1>6, <1>9, <1>11, <2>1
<1> QED  BY <1>10, <1>12, <1>13 DEF todo

\* The points come from records, each under its id.
PointsTrue(points) ==
    /\ IsFiniteSet(DOMAIN points)
    /\ \A id \in DOMAIN points : points[id] \in PointsOf /\ points[id].id = id

CollectionsTrue ==
    /\ DOMAIN collections = {"cve", "team"}
    /\ \A c \in {"cve", "team"} : DOMAIN collections[c] = {"layout", "points"}
    /\ PointsTrue(collections["cve"].points)

\* Until the collection is rebuilt under it, what the API knows of it is so.
ApiTrue ==
    /\ DOMAIN api = {"pc", "hybrid", "error", "fresh"}
    /\ api.hybrid \in BOOLEAN /\ api.error \in BOOLEAN /\ api.fresh \in BOOLEAN
    /\ api.fresh => /\ api.pc = "up" /\ collections["cve"].layout # Absent
                    /\ api.error = SchemaError(collections, api.hybrid)

\* A search that is kept is of what the collections hold.
SearchTrue ==
    /\ searched.outcome = "none" => searched.hits = <<>>
    /\ searched.outcome # "none" =>
          /\ api.pc = "up" /\ searched.c \in {"cve", "team"} /\ searched.query \in CodeQueries
          /\ searched.outcome = Outcome(searched.c)
          /\ searched.hits = IF searched.c = "cve" /\ searched.outcome = "hits"
                             THEN Hits(Range(collections["cve"].points), api.hybrid, searched.query,
                                       searched.language)
                             ELSE <<>>

\* Of each id the last record with code is in the collection or to come, and not both.
InsertTrue(corpus, todo, points) ==
    /\ corpus \in Corpora /\ todo \in Seq(PointsOf)
    /\ \A k, l \in DOMAIN todo : todo[k].id = todo[l].id => k = l
    /\ \A i \in DOMAIN corpus : LastOf(corpus, i) =>
          \/ \E k \in DOMAIN todo : todo[k].id = corpus[i].id /\ todo[k].code = corpus[i].code
          \/ /\ corpus[i].id \in DOMAIN points /\ points[corpus[i].id].code = corpus[i].code
             /\ \A k \in DOMAIN todo : todo[k].id # corpus[i].id

ScriptTrue ==
    /\ DOMAIN script = {"pc", "hybrid", "error", "todo", "corpus"}
    /\ script.hybrid \in BOOLEAN
    /\ script.pc \in {"load", "insert", "done"} => collections["cve"].layout # Absent
    /\ script.pc \in {"insert", "done"} =>
          InsertTrue(script.corpus, script.todo, collections["cve"].points)
    /\ script.pc = "done" => script.todo = <<>>

VectorsTrue == hybrid \in BOOLEAN /\ CollectionsTrue /\ ApiTrue /\ SearchTrue /\ ScriptTrue

\* Creating what is missing changes no collection there is.
LEMMA CreatedFacts ==
    ASSUME CollectionsTrue, NEW h, collections' = Created(h)
    PROVE  /\ CollectionsTrue' /\ collections'["cve"].layout # Absent
           /\ collections["cve"].layout # Absent => collections'["cve"] = collections["cve"]
<1>1. DOMAIN collections' = {"cve", "team"}
  BY DEF Created, CollectionsTrue
<1>2. \A c \in {"cve", "team"} : collections'[c] =
         IF collections[c].layout # Absent THEN collections[c]
         ELSE [layout |-> LayoutOf(c, h), points |-> <<>>]
  BY DEF Created, CollectionsTrue
<1>3. PointsTrue(<<>>)
  <2>1. DOMAIN <<>> = {}
    BY EmptySeq
  <2> QED  BY <2>1, FS_EmptySet DEF PointsTrue
<1>4. LayoutOf("cve", h) # Absent
  <2>1. LayoutOf("cve", h).dense = {"vuln", "fixed"} /\ Absent.dense = {}
    BY DEF LayoutOf, Absent
  <2> QED  BY <2>1
<1>5. \A c \in {"cve", "team"} : DOMAIN collections'[c] = {"layout", "points"}
  BY <1>2 DEF CollectionsTrue
<1>6. PointsTrue(collections'["cve"].points)
  BY <1>2, <1>3 DEF CollectionsTrue
<1>7. CollectionsTrue'
  BY <1>1, <1>5, <1>6 DEF CollectionsTrue
<1> QED  BY <1>2, <1>4, <1>7

LEMMA ApiKept ==
    ASSUME ApiTrue, api' = api, api.fresh => collections'["cve"].layout = collections["cve"].layout
    PROVE  ApiTrue'
BY DEF ApiTrue, SchemaError

LEMMA ScriptKept ==
    ASSUME ScriptTrue, script' = script,
           collections["cve"].layout # Absent => collections'["cve"] = collections["cve"]
    PROVE  ScriptTrue'
<1>1. CASE collections["cve"].layout # Absent
  BY <1>1 DEF ScriptTrue
<1>2. CASE collections["cve"].layout = Absent
  <2>1. script.pc \notin {"load", "insert", "done"}
    BY <1>2 DEF ScriptTrue
  <2> QED  BY <2>1 DEF ScriptTrue
<1> QED  BY <1>1, <1>2

LEMMA SearchKept ==
    ASSUME SearchTrue, UNCHANGED <<collections, api, searched>>
    PROVE  SearchTrue'
BY DEF SearchTrue, Outcome

LEMMA SearchReset ==
    ASSUME searched' = NoSearch
    PROVE  SearchTrue'
BY DEF SearchTrue, NoSearch

\* The two processes start and stop.
LEMMA StartApiInv ==
    ASSUME VectorsTrue, StartApi
    PROVE  VectorsTrue'
<1>1. /\ collections' = Created(hybrid) /\ searched' = NoSearch /\ script' = script /\ hybrid' = hybrid
      /\ api' = [api EXCEPT !.pc = "up", !.hybrid = hybrid, !.error = SchemaError(Created(hybrid), hybrid),
                            !.fresh = TRUE]
  BY DEF StartApi
<1>2. /\ CollectionsTrue' /\ collections'["cve"].layout # Absent
      /\ collections["cve"].layout # Absent => collections'["cve"] = collections["cve"]
  BY <1>1, CreatedFacts DEF VectorsTrue
<1> DEFINE error == SchemaError(collections', hybrid)
<1>3. error \in BOOLEAN
  BY DEF SchemaError
<1>4. error = SchemaError(collections', hybrid)
  OBVIOUS
<1> HIDE DEF error
<1>5. api' = [api EXCEPT !.pc = "up", !.hybrid = hybrid, !.error = error, !.fresh = TRUE]
  BY <1>1, <1>4
<1>6. /\ DOMAIN api' = {"pc", "hybrid", "error", "fresh"}
      /\ api'.pc = "up" /\ api'.hybrid = hybrid /\ api'.error = error /\ api'.fresh = TRUE
  BY <1>5 DEF VectorsTrue, ApiTrue
<1>7. ApiTrue'
  BY <1>2, <1>3, <1>4, <1>6 DEF ApiTrue, VectorsTrue
<1> QED  BY <1>1, <1>2, <1>7, SearchReset, ScriptKept DEF VectorsTrue

LEMMA StopApiInv ==
    ASSUME VectorsTrue, StopApi
    PROVE  VectorsTrue'
<1>1. /\ UNCHANGED <<hybrid, collections, script>> /\ searched' = NoSearch /\ api' = NoApi
  BY DEF StopApi
<1>2. ApiTrue'
  BY <1>1 DEF ApiTrue, NoApi
<1>3. CollectionsTrue' /\ ScriptTrue'
  BY <1>1, ScriptKept DEF VectorsTrue, CollectionsTrue
<1> QED  BY <1>1, <1>2, <1>3, SearchReset DEF VectorsTrue

LEMMA StartScriptInv ==
    ASSUME VectorsTrue, NEW recreate \in BOOLEAN, StartScript(recreate)
    PROVE  VectorsTrue'
<1> DEFINE error == SchemaError(Created(hybrid), hybrid)
           next == IF recreate THEN "drop" ELSE "load"
<1>1. /\ collections' = Created(hybrid) /\ searched' = NoSearch /\ api' = api /\ hybrid' = hybrid
      /\ script' = NoProcess \/ script' = [NoProcess EXCEPT !.pc = next, !.hybrid = hybrid, !.error = error]
  BY DEF StartScript
<1>2. next \in {"drop", "load"}
  OBVIOUS
<1> HIDE DEF error, next
<1>3. /\ CollectionsTrue' /\ collections'["cve"].layout # Absent
      /\ collections["cve"].layout # Absent => collections'["cve"] = collections["cve"]
  BY <1>1, CreatedFacts DEF VectorsTrue
<1>4. ApiTrue'
  <2>1. api.fresh => collections'["cve"].layout = collections["cve"].layout
    BY <1>3 DEF VectorsTrue, ApiTrue
  <2> QED  BY <1>1, <2>1, ApiKept DEF VectorsTrue
<1>5. ScriptTrue'
  <2>1. /\ DOMAIN script' = {"pc", "hybrid", "error", "todo", "corpus"} /\ script'.hybrid \in BOOLEAN
        /\ script'.pc \in {"down", "drop", "load"}
    <3>1. CASE script' = NoProcess
      BY <3>1 DEF NoProcess
    <3>2. CASE script' = [NoProcess EXCEPT !.pc = next, !.hybrid = hybrid, !.error = error]
      <4>1. /\ DOMAIN script' = {"pc", "hybrid", "error", "todo", "corpus"}
            /\ script'.hybrid = hybrid /\ script'.pc = next
        BY <3>2 DEF NoProcess
      <4> QED  BY <1>2, <4>1 DEF VectorsTrue
    <3> QED  BY <1>1, <3>1, <3>2
  <2> QED  BY <1>3, <2>1 DEF ScriptTrue
<1> QED  BY <1>1, <1>3, <1>4, <1>5, SearchReset DEF VectorsTrue

LEMMA DropInv ==
    ASSUME VectorsTrue, DropCollection
    PROVE  VectorsTrue'
<1>1. /\ collections' = [collections EXCEPT !["cve"] = [layout |-> Absent, points |-> <<>>]]
      /\ api' = [api EXCEPT !.fresh = FALSE] /\ script' = [script EXCEPT !.pc = "create"]
      /\ searched' = NoSearch /\ hybrid' = hybrid
  BY DEF DropCollection
<1>2. CollectionsTrue'
  <2>1. PointsTrue(<<>>)
    <3>1. DOMAIN <<>> = {}
      BY EmptySeq
    <3> QED  BY <3>1, FS_EmptySet DEF PointsTrue
  <2>2. /\ DOMAIN collections' = {"cve", "team"} /\ collections'["team"] = collections["team"]
        /\ collections'["cve"] = [layout |-> Absent, points |-> <<>>]
    BY <1>1 DEF VectorsTrue, CollectionsTrue
  <2>3. DOMAIN collections'["cve"] = {"layout", "points"} /\ collections'["cve"].points = <<>>
    BY <2>2
  <2> QED  BY <2>1, <2>2, <2>3 DEF VectorsTrue, CollectionsTrue
<1>3. ApiTrue'
  BY <1>1 DEF VectorsTrue, ApiTrue
<1>4. ScriptTrue'
  BY <1>1 DEF VectorsTrue, ScriptTrue
<1> QED  BY <1>1, <1>2, <1>3, <1>4, SearchReset DEF VectorsTrue

LEMMA CreateInv ==
    ASSUME VectorsTrue, CreateCollection
    PROVE  VectorsTrue'
<1> DEFINE error == SchemaError(Created(script.hybrid), script.hybrid)
<1>1. /\ collections' = Created(script.hybrid) /\ searched' = NoSearch /\ api' = api /\ hybrid' = hybrid
      /\ script' = [script EXCEPT !.pc = "load", !.error = error]
  BY DEF CreateCollection
<1> HIDE DEF error
<1>2. /\ CollectionsTrue' /\ collections'["cve"].layout # Absent
      /\ collections["cve"].layout # Absent => collections'["cve"] = collections["cve"]
  BY <1>1, CreatedFacts DEF VectorsTrue
<1>3. ApiTrue'
  <2>1. api.fresh => collections'["cve"].layout = collections["cve"].layout
    BY <1>2 DEF VectorsTrue, ApiTrue
  <2> QED  BY <1>1, <2>1, ApiKept DEF VectorsTrue
<1>4. ScriptTrue'
  <2>1. DOMAIN script' = DOMAIN script /\ script'.pc = "load" /\ script'.hybrid = script.hybrid
    BY <1>1 DEF VectorsTrue, ScriptTrue
  <2> QED  BY <1>2, <2>1 DEF VectorsTrue, ScriptTrue
<1> QED  BY <1>1, <1>2, <1>3, <1>4, SearchReset DEF VectorsTrue

\* The script loads a corpus.
LEMMA LoadInv ==
    ASSUME VectorsTrue, LoadRecords
    PROVE  VectorsTrue'
<1>1. UNCHANGED <<hybrid, collections, api, searched>> /\ script.pc = "load"
  BY DEF LoadRecords
<1>2. PICK corpus \in Corpora :
        script' = IF script.error THEN NoProcess
                  ELSE [script EXCEPT !.pc = "insert", !.corpus = corpus, !.todo = EmbedPairs(Prepared(corpus))]
  BY DEF LoadRecords
<1>3. CollectionsTrue' /\ ApiTrue' /\ SearchTrue'
  BY <1>1, ApiKept, SearchKept DEF VectorsTrue, CollectionsTrue
<1>4. ScriptTrue'
  <2>1. CASE script' = NoProcess
    BY <2>1 DEF NoProcess, ScriptTrue
  <2> DEFINE todo == Prepared(corpus)
  <2>2. CASE script' = [script EXCEPT !.pc = "insert", !.corpus = corpus, !.todo = EmbedPairs(todo)]
    <3>1. /\ todo \in Seq(PointsOf)
          /\ \A k, l \in DOMAIN todo : todo[k].id = todo[l].id => k = l
          /\ \A i \in DOMAIN corpus : LastOf(corpus, i) =>
                 \E k \in DOMAIN todo : todo[k].id = corpus[i].id /\ todo[k].code = corpus[i].code
      BY PreparedFacts
    <3> HIDE DEF todo
    <3>2. EmbedPairs(todo) = todo
      BY <3>1, EmbedPairsSame
    <3>3. InsertTrue(corpus, todo, collections["cve"].points)
      BY <3>1 DEF InsertTrue
    <3>4. /\ DOMAIN script' = DOMAIN script /\ script'.pc = "insert" /\ script'.hybrid = script.hybrid
          /\ script'.corpus = corpus /\ script'.todo = todo
      BY <2>2, <3>2 DEF VectorsTrue, ScriptTrue
    <3> QED  BY <1>1, <3>3, <3>4 DEF VectorsTrue, ScriptTrue
  <2> QED  BY <1>2, <2>1, <2>2
<1> QED  BY <1>1, <1>3, <1>4 DEF VectorsTrue

\* A batch of upserts takes the first of what is to come, and leaves the rest.
Upserted(todo, n, points) ==
    LET batch == SubSeq(todo, 1, n)
        at(id) == batch[CHOOSE i \in 1..n : batch[i].id = id]
        ids == {batch[i].id : i \in 1..n}
    IN  [id \in ids \cup DOMAIN points |-> IF id \in ids THEN at(id) ELSE points[id]]

LEMMA BatchUpserted ==
    ASSUME NEW corpus, NEW todo, NEW points, InsertTrue(corpus, todo, points), PointsTrue(points),
           NEW n \in 1..Len(todo)
    PROVE  /\ PointsTrue(Upserted(todo, n, points))
           /\ InsertTrue(corpus, SubSeq(todo, n + 1, Len(todo)), Upserted(todo, n, points))
<1> DEFINE batch == SubSeq(todo, 1, n)
           at(id) == batch[CHOOSE i \in 1..n : batch[i].id = id]
           ids == {batch[i].id : i \in 1..n}
           all == Upserted(todo, n, points)
           rest == SubSeq(todo, n + 1, Len(todo))
<1>0. all = [id \in ids \cup DOMAIN points |-> IF id \in ids THEN at(id) ELSE points[id]]
  BY DEF Upserted
<1> HIDE DEF all
<1>1. todo \in Seq(PointsOf) /\ \A k, l \in DOMAIN todo : todo[k].id = todo[l].id => k = l
  BY DEF InsertTrue
<1>2. Len(todo) \in Nat /\ DOMAIN todo = 1..Len(todo) /\ \A k \in DOMAIN todo : todo[k] \in PointsOf
  BY <1>1, LenProperties, ElementOfSeq
<1>3. \A i \in 1..n : batch[i] = todo[i] /\ i \in DOMAIN todo
  BY <1>1, <1>2, FirstFacts
<1>4. /\ rest \in Seq(PointsOf) /\ DOMAIN rest = 1..(Len(todo) - n)
      /\ \A i \in 1..(Len(todo) - n) : rest[i] = todo[n + i]
  BY <1>1, RestFacts
<1> HIDE DEF batch, rest
<1>5. \A i \in DOMAIN rest : rest[i] = todo[n + i] /\ n + i \in DOMAIN todo /\ n + i \notin 1..n
  BY <1>2, <1>4
<1>6. ASSUME NEW i \in 1..n PROVE at(todo[i].id) = todo[i] /\ todo[i].id \in ids
  <2> DEFINE j == CHOOSE j \in 1..n : batch[j].id = todo[i].id
  <2>1. j \in 1..n /\ batch[j].id = todo[i].id
    BY <1>3
  <2>2. at(todo[i].id) = batch[j]
    OBVIOUS
  <2> HIDE DEF j, at
  <2>3. todo[j].id = todo[i].id /\ j \in DOMAIN todo
    BY <1>3, <2>1
  <2>4. j = i
    BY <1>1, <1>3, <2>3
  <2> QED  BY <1>3, <2>2, <2>4
<1>7. \A id \in ids : \E i \in 1..n : todo[i].id = id
  BY <1>3
<1>8. IsFiniteSet(ids)
  <2> DEFINE g == [i \in 1..n |-> batch[i].id]
  <2>1. g \in Surjection(1..n, ids)
    <3>1. g \in [1..n -> ids] /\ \A id \in ids : \E i \in 1..n : g[i] = id
      OBVIOUS
    <3> HIDE DEF g, ids
    <3> QED  BY <3>1 DEF Surjection
  <2>2. IsFiniteSet(1..n)
    BY <1>2, FS_Interval
  <2> HIDE DEF g, ids
  <2> QED  BY <2>1, <2>2, FS_Surjection
<1> HIDE DEF at, ids
<1>9. /\ DOMAIN all = ids \cup DOMAIN points
      /\ \A i \in 1..n : all[todo[i].id] = todo[i]
      /\ \A id \in DOMAIN points : id \notin ids => all[id] = points[id]
  BY <1>0, <1>6
<1>10. PointsTrue(all)
  <2>1. IsFiniteSet(DOMAIN all)
    <3>1. IsFiniteSet(DOMAIN points)
      BY DEF PointsTrue
    <3>2. IsFiniteSet(ids \cup DOMAIN points)
      BY <1>8, <3>1, FS_Union
    <3> QED  BY <1>9, <3>2
  <2>2. ASSUME NEW id \in DOMAIN all PROVE all[id] \in PointsOf /\ all[id].id = id
    <3>1. CASE id \in ids
      <4>1. PICK i \in 1..n : todo[i].id = id
        BY <1>7, <3>1
      <4> QED  BY <1>2, <1>3, <1>9, <4>1
    <3>2. CASE id \notin ids
      BY <1>9, <3>2 DEF PointsTrue
    <3> QED  BY <3>1, <3>2
  <2> QED  BY <2>1, <2>2 DEF PointsTrue
<1>11. ASSUME NEW k \in DOMAIN rest, NEW l \in DOMAIN rest, rest[k].id = rest[l].id PROVE k = l
  <2>1. n + k = n + l
    BY <1>1, <1>5, <1>11
  <2>2. k \in Int /\ l \in Int /\ n \in Int
    BY <1>2, <1>4
  <2> QED  BY <2>1, <2>2
<1>12. ASSUME NEW i \in DOMAIN corpus, LastOf(corpus, i)
       PROVE  \/ \E k \in DOMAIN rest : rest[k].id = corpus[i].id /\ rest[k].code = corpus[i].code
              \/ /\ corpus[i].id \in DOMAIN all /\ all[corpus[i].id].code = corpus[i].code
                 /\ \A k \in DOMAIN rest : rest[k].id # corpus[i].id
  <2>1. CASE \E k \in DOMAIN todo : todo[k].id = corpus[i].id /\ todo[k].code = corpus[i].code
    <3>1. PICK k \in DOMAIN todo : todo[k].id = corpus[i].id /\ todo[k].code = corpus[i].code
      BY <2>1
    <3>2. CASE k \in 1..n
      <4>1. all[corpus[i].id].code = corpus[i].code /\ corpus[i].id \in DOMAIN all
        BY <1>6, <1>9, <3>1, <3>2
      <4>2. \A l \in DOMAIN rest : rest[l].id # corpus[i].id
        BY <1>1, <1>5, <3>1, <3>2
      <4> QED  BY <4>1, <4>2
    <3>3. CASE k \notin 1..n
      <4>1. k - n \in 1..(Len(todo) - n) /\ n + (k - n) = k
        BY <1>2, <3>3
      <4>2. rest[k - n] = todo[k] /\ k - n \in DOMAIN rest
        BY <1>4, <4>1
      <4> QED  BY <3>1, <4>2
    <3> QED  BY <3>2, <3>3
  <2>2. CASE /\ corpus[i].id \in DOMAIN points /\ points[corpus[i].id].code = corpus[i].code
             /\ \A k \in DOMAIN todo : todo[k].id # corpus[i].id
    <3>1. corpus[i].id \notin ids
      BY <1>3, <1>7, <2>2
    <3> QED  BY <1>5, <1>9, <2>2, <3>1
  <2>3. \/ \E k \in DOMAIN todo : todo[k].id = corpus[i].id /\ todo[k].code = corpus[i].code
        \/ /\ corpus[i].id \in DOMAIN points /\ points[corpus[i].id].code = corpus[i].code
           /\ \A k \in DOMAIN todo : todo[k].id # corpus[i].id
    BY <1>12 DEF InsertTrue
  <2> HIDE DEF all, rest
  <2> QED  BY <2>1, <2>2, <2>3
<1>13. InsertTrue(corpus, rest, all)
  BY <1>4, <1>11, <1>12 DEF InsertTrue
<1> QED  BY <1>10, <1>13 DEF all, rest

LEMMA UpsertInv ==
    ASSUME VectorsTrue, UpsertPoints
    PROVE  VectorsTrue'
<1> DEFINE n == Min({UpsertBatch, Len(script.todo)})
           batch == SubSeq(script.todo, 1, n)
           at(id) == batch[CHOOSE i \in 1..n : batch[i].id = id]
           ids == {batch[i].id : i \in 1..n}
           old == collections["cve"].points
           all == [id \in ids \cup DOMAIN old |-> IF id \in ids THEN at(id) ELSE old[id]]
           rest == SubSeq(script.todo, n + 1, Len(script.todo))
<1>1. /\ script.pc = "insert" /\ script.todo # <<>> /\ searched' = NoSearch /\ api' = api /\ hybrid' = hybrid
      /\ \/ /\ collections' = [collections EXCEPT !["cve"].points = all]
            /\ script' = [script EXCEPT !.todo = rest]
         \/ script' = NoProcess /\ collections' = collections
  BY DEF UpsertPoints
<1>2. /\ InsertTrue(script.corpus, script.todo, old) /\ PointsTrue(old)
      /\ collections["cve"].layout # Absent
  BY <1>1 DEF VectorsTrue, ScriptTrue, CollectionsTrue
<1>3. n \in 1..Len(script.todo)
  <2>1. script.todo \in Seq(PointsOf)
    BY <1>2 DEF InsertTrue
  <2>2. Len(script.todo) \in Nat /\ Len(script.todo) # 0
    BY <1>1, <2>1, LenProperties, EmptySeq
  <2>3. UpsertBatch \in Int /\ UpsertBatch >= 1 /\ Len(script.todo) \in Int
    BY <2>2, VectorInputs
  <2>4. n = IF UpsertBatch <= Len(script.todo) THEN UpsertBatch ELSE Len(script.todo)
    BY <2>3, LesserOfTwo
  <2> QED  BY <2>2, <2>3, <2>4
<1> HIDE DEF n
<1>4. PointsTrue(all) /\ InsertTrue(script.corpus, rest, all)
  <2>1. all = Upserted(script.todo, n, old)
    BY DEF Upserted
  <2> HIDE DEF all, old
  <2> QED  BY <1>2, <1>3, <2>1, BatchUpserted
<1> HIDE DEF all, rest
<1>5. CASE collections' = [collections EXCEPT !["cve"].points = all] /\ script' = [script EXCEPT !.todo = rest]
  <2>1. /\ DOMAIN collections' = {"cve", "team"} /\ collections'["team"] = collections["team"]
        /\ collections'["cve"] = [collections["cve"] EXCEPT !.points = all]
    BY <1>5 DEF VectorsTrue, CollectionsTrue
  <2>2. /\ DOMAIN collections'["cve"] = {"layout", "points"} /\ collections'["cve"].points = all
        /\ collections'["cve"].layout = collections["cve"].layout
    BY <2>1 DEF VectorsTrue, CollectionsTrue
  <2>3. CollectionsTrue'
    BY <1>4, <2>1, <2>2 DEF VectorsTrue, CollectionsTrue
  <2>4. ApiTrue'
    BY <1>1, <2>2, ApiKept DEF VectorsTrue
  <2>5. /\ DOMAIN script' = DOMAIN script /\ script'.pc = "insert" /\ script'.hybrid = script.hybrid
        /\ script'.corpus = script.corpus /\ script'.todo = rest
    BY <1>1, <1>5 DEF VectorsTrue, ScriptTrue
  <2>6. ScriptTrue'
    BY <1>2, <1>4, <2>2, <2>5 DEF VectorsTrue, ScriptTrue
  <2> QED  BY <1>1, <2>3, <2>4, <2>6, SearchReset DEF VectorsTrue
<1>6. CASE script' = NoProcess /\ collections' = collections
  <2>1. CollectionsTrue' /\ ApiTrue'
    BY <1>1, <1>6, ApiKept DEF VectorsTrue, CollectionsTrue
  <2>2. ScriptTrue'
    BY <1>6 DEF NoProcess, ScriptTrue
  <2> QED  BY <1>1, <2>1, <2>2, SearchReset DEF VectorsTrue
<1> QED  BY <1>1, <1>5, <1>6

LEMMA SearchInv ==
    ASSUME VectorsTrue, NEW c \in DOMAIN collections, NEW query \in CodeQueries, NEW language,
           Search(c, query, language)
    PROVE  VectorsTrue'
<1>1. UNCHANGED <<hybrid, collections, api, script>> /\ api.pc = "up" /\ c \in {"cve", "team"}
  BY DEF Search, VectorsTrue, CollectionsTrue
<1> DEFINE hits == IF c = "cve" /\ Outcome(c) = "hits"
                   THEN Hits(Range(collections[c].points), api.hybrid, query, language) ELSE <<>>
<1>2. searched' = [c |-> c, query |-> query, language |-> language, outcome |-> Outcome(c), hits |-> hits]
  BY DEF Search
<1>3. hits = IF c = "cve" /\ Outcome(c) = "hits"
             THEN Hits(Range(collections["cve"].points), api.hybrid, query, language) ELSE <<>>
  OBVIOUS
<1> HIDE DEF hits
<1>4. /\ searched'.c = c /\ searched'.query = query /\ searched'.language = language
      /\ searched'.outcome = Outcome(c) /\ searched'.hits = hits
  BY <1>2
<1>5. Outcome(c) # "none" /\ Outcome(c)' = Outcome(c)
  BY <1>1 DEF Outcome
<1>6. SearchTrue'
  BY <1>1, <1>3, <1>4, <1>5 DEF SearchTrue
<1> QED  BY <1>1, <1>6, ApiKept, ScriptKept DEF VectorsTrue, CollectionsTrue

LEMMA ScriptEnds ==
    ASSUME VectorsTrue, EndScript \/ KillScript
    PROVE  VectorsTrue'
<1>1. UNCHANGED <<hybrid, collections, api, searched>>
  BY DEF EndScript, KillScript
<1>2. CollectionsTrue' /\ ApiTrue' /\ SearchTrue'
  BY <1>1, ApiKept, SearchKept DEF VectorsTrue, CollectionsTrue
<1>3. CASE EndScript
  <2>1. script.pc = "insert" /\ script.todo = <<>> /\ script' = [script EXCEPT !.pc = "done"]
    BY <1>3 DEF EndScript
  <2>2. /\ DOMAIN script' = DOMAIN script /\ script'.pc = "done" /\ script'.hybrid = script.hybrid
        /\ script'.corpus = script.corpus /\ script'.todo = script.todo
    BY <2>1 DEF VectorsTrue, ScriptTrue
  <2>3. ScriptTrue'
    BY <1>1, <2>1, <2>2 DEF VectorsTrue, ScriptTrue
  <2> QED  BY <1>1, <1>2, <2>3 DEF VectorsTrue
<1>4. CASE KillScript
  <2>1. ScriptTrue'
    BY <1>4 DEF KillScript, NoProcess, ScriptTrue
  <2> QED  BY <1>1, <1>2, <2>1 DEF VectorsTrue
<1> QED  BY <1>3, <1>4

LEMMA VectorsStep ==
    ASSUME VectorsTrue, [VectorsNext]_vectorVars
    PROVE  VectorsTrue'
<1>1. CASE UNCHANGED vectorVars \/ FlipHybrid
  <2>1. UNCHANGED <<collections, api, script, searched>> /\ hybrid' \in BOOLEAN
    BY <1>1 DEF vectorVars, FlipHybrid, VectorsTrue
  <2> QED  BY <2>1, ApiKept, ScriptKept, SearchKept DEF VectorsTrue, CollectionsTrue
<1> QED
  BY <1>1, StartApiInv, StopApiInv, StartScriptInv, DropInv, CreateInv, LoadInv, UpsertInv, ScriptEnds, SearchInv
     DEF VectorsNext

LEMMA VectorsStart == VectorsInit => VectorsTrue
<1> SUFFICES ASSUME VectorsInit PROVE VectorsTrue
  OBVIOUS
<1>1. /\ hybrid \in BOOLEAN /\ api = NoApi /\ script = NoProcess /\ searched = NoSearch
      /\ \E old \in {Absent, PreTwin} :
           collections = [c \in {"cve", "team"} |->
               [layout |-> IF c = "cve" THEN old ELSE Absent, points |-> <<>>]]
  BY DEF VectorsInit
<1>2. PointsTrue(<<>>)
  <2>1. DOMAIN <<>> = {}
    BY EmptySeq
  <2> QED  BY <2>1, FS_EmptySet DEF PointsTrue
<1>3. CollectionsTrue
  <2>1. /\ DOMAIN collections = {"cve", "team"}
        /\ \A c \in {"cve", "team"} : DOMAIN collections[c] = {"layout", "points"} /\ collections[c].points = <<>>
    BY <1>1
  <2> QED  BY <1>2, <2>1 DEF CollectionsTrue
<1>4. ApiTrue
  BY <1>1 DEF ApiTrue, NoApi
<1>5. SearchTrue
  BY <1>1 DEF SearchTrue, NoSearch
<1>6. ScriptTrue
  BY <1>1 DEF ScriptTrue, NoProcess
<1> QED  BY <1>1, <1>3, <1>4, <1>5, <1>6 DEF VectorsTrue

\* An answer of the API is of the layout it knows.
LEMMA OutcomeFacts ==
    ASSUME VectorsTrue, api.fresh
    PROVE  Outcome("cve") # "broken" /\ (api.error <=> Outcome("cve") # "hits")
<1>1. api.error \in BOOLEAN /\ (api.error <=> SchemaError(collections, api.hybrid))
  BY DEF VectorsTrue, ApiTrue
<1>2. CASE api.error
  <2>1. Outcome("cve") = "refused"
    BY <1>2 DEF Outcome
  <2> QED  BY <1>2, <2>1
<1>3. CASE ~api.error
  <2>1. /\ "vuln" \in collections["cve"].layout.dense
        /\ ~(api.hybrid /\ ~collections["cve"].layout.sparse)
    BY <1>1, <1>3 DEF SchemaError
  <2>2. DenseName("cve", api.hybrid) = "vuln"
    BY DEF DenseName
  <2>3. Outcome("cve") = "hits"
    BY <1>3, <2>1, <2>2 DEF Outcome
  <2> QED  BY <1>3, <2>3
<1> QED  BY <1>2, <1>3

LEMMA VectorsGoal == VectorsTrue => SearchesHold
<1> SUFFICES ASSUME VectorsTrue PROVE SearchesHold
  OBVIOUS
<1> DEFINE points == Range(collections["cve"].points)
           hits == searched.hits
           passing == Passing(points, api.hybrid, searched.query, searched.language)
<1>1. searched.c = "cve" /\ api.fresh => searched.outcome # "broken"
  BY OutcomeFacts DEF VectorsTrue, SearchTrue
<1>2. api.pc = "up" /\ api.fresh => (api.error <=> Outcome("cve") # "hits")
  BY OutcomeFacts
<1>3. /\ IsFiniteSet(points) /\ points \subseteq PointsOf
      /\ \A p, q \in points : p.id = q.id => p = q
  <2> DEFINE old == collections["cve"].points
  <2>1. PointsTrue(old)
    BY DEF VectorsTrue, CollectionsTrue
  <2>2. points = {old[id] : id \in DOMAIN old}
    BY DEF Range
  <2> HIDE DEF old
  <2>3. IsFiniteSet(points)
    <3> DEFINE g == [id \in DOMAIN old |-> old[id]]
    <3>1. g \in Surjection(DOMAIN old, points)
      <4>1. g \in [DOMAIN old -> points] /\ \A p \in points : \E id \in DOMAIN old : g[id] = p
        BY <2>2
      <4> HIDE DEF g, points
      <4> QED  BY <4>1 DEF Surjection
    <3> HIDE DEF g, points
    <3> QED  BY <2>1, <3>1, FS_Surjection DEF PointsTrue
  <2> HIDE DEF points
  <2> QED  BY <2>1, <2>2, <2>3 DEF PointsTrue
<1> HIDE DEF points
<1>4. ASSUME searched.c = "cve", searched.outcome = "hits"
      PROVE  /\ \E m \in Nat : DOMAIN hits = 1..m
             /\ \A k \in DOMAIN hits : /\ hits[k].point \in passing
                                       /\ hits[k].margin = TwinMargin(searched.query, hits[k].point)
             /\ \A k, l \in DOMAIN hits : hits[k].point = hits[l].point => k = l
             /\ \A p \in passing : Passes(TwinMargin(searched.query, p)) =>
                   (\E k \in DOMAIN hits : hits[k].point = p) \/ Cardinality(passing) > AnnCandidates
  <2>1. /\ searched.query \in CodeQueries /\ api.hybrid \in BOOLEAN
        /\ hits = Hits(points, api.hybrid, searched.query, searched.language)
    BY <1>4 DEF VectorsTrue, SearchTrue, ApiTrue, points
  <2> HIDE DEF hits, passing
  <2> QED  BY <1>3, <2>1, HitsFacts DEF hits, passing
<1>5. ASSUME NEW k \in DOMAIN hits PROVE searched.c = "cve" /\ searched.outcome = "hits"
  <2>1. hits # <<>>
    BY EmptySeq
  <2> QED  BY <2>1 DEF VectorsTrue, SearchTrue
<1>6. ASSUME NEW p \in passing PROVE p \in points /\ searched.language \in {NoText, p.language}
  BY DEF Passing, Among
<1>7. passing = {p \in Among(points, searched.language) :
                  \/ DenseSim[searched.query][p.code] >= DenseMin
                  \/ api.hybrid /\ SparseSim[searched.query][p.code] >= SparseMin}
  BY DEF Passing
<1> HIDE DEF hits, passing
<1>8. ASSUME NEW k \in DOMAIN hits
      PROVE  /\ searched.language \in {NoText, hits[k].point.language}
             /\ \E corpus \in Corpora : \E r \in ToSet(corpus) :
                   /\ r.id = hits[k].point.id /\ r.code = hits[k].point.code
                   /\ hits[k].margin = IF r.fixed \in {NoText, r.code} THEN NoMargin
                              ELSE DenseSim[searched.query][r.code] - DenseSim[searched.query][r.fixed]
             /\ \A j \in 1..(k - 1) : hits[j].point.id # hits[k].point.id
  <2> DEFINE p == hits[k].point
  <2>1. p \in points /\ searched.language \in {NoText, p.language} /\ hits[k].margin = TwinMargin(searched.query, p)
    BY <1>4, <1>5, <1>6
  <2>2. PICK r \in CorpusRecords : r.code # NoText /\ p = PointFrom(r)
    BY <1>3, <2>1 DEF PointsOf
  <2>3. PICK corpus \in Corpora : r \in ToSet(corpus)
    BY DEF CorpusRecords
  <2>4. /\ p.id = r.id /\ p.code = r.code /\ p.fixed = IF r.fixed = r.code THEN NoText ELSE r.fixed
    BY <2>2 DEF PointFrom
  <2>5. hits[k].margin = IF r.fixed \in {NoText, r.code} THEN NoMargin
                         ELSE DenseSim[searched.query][r.code] - DenseSim[searched.query][r.fixed]
    BY <2>1, <2>4 DEF TwinMargin
  <2>6. ASSUME NEW j \in 1..(k - 1) PROVE hits[j].point.id # p.id
    <3>1. PICK m \in Nat : DOMAIN hits = 1..m
      BY <1>4, <1>5
    <3>2. j \in DOMAIN hits /\ j # k
      BY <3>1
    <3>3. hits[j].point \in points /\ hits[j].point # p
      BY <1>4, <1>5, <1>6, <3>2
    <3> QED  BY <1>3, <2>1, <3>3
  <2> QED  BY <2>1, <2>3, <2>4, <2>5, <2>6
<1>9. ASSUME searched.outcome = "hits", searched.c = "cve"
      PROVE  /\ {hits[k].point : k \in DOMAIN hits} \subseteq passing
             /\ \A p \in passing \ {hits[k].point : k \in DOMAIN hits} :
                   Passes(TwinMargin(searched.query, p)) => Cardinality(passing) > AnnCandidates
  BY <1>4, <1>9
<1>10. ASSUME script.pc = "done", NEW i \in DOMAIN script.corpus,
              script.corpus[i].code # NoText,
              {j \in DOMAIN script.corpus : j > i /\ script.corpus[j].id = script.corpus[i].id
                                                  /\ script.corpus[j].code # NoText} = {}
       PROVE  /\ script.corpus[i].id \in DOMAIN collections["cve"].points
              /\ collections["cve"].points[script.corpus[i].id].code = script.corpus[i].code
  <2>1. LastOf(script.corpus, i)
    BY <1>10 DEF LastOf
  <2>2. InsertTrue(script.corpus, <<>>, collections["cve"].points)
    BY <1>10 DEF VectorsTrue, ScriptTrue
  <2>3. DOMAIN <<>> = {}
    BY EmptySeq
  <2> QED  BY <2>1, <2>2, <2>3 DEF InsertTrue
<1> QED  BY <1>1, <1>2, <1>7, <1>8, <1>9, <1>10 DEF SearchesHold, hits, points

\* A scan is told what the stores hold, however many fill the cache, vote, and change the
\* collections, for any inputs and any sizes: the matches its own texts retrieve and the votes
\* leave, the best that may be shown and each once; and a search for CVEs leaves out a match only
\* when it has more than it may return, tells code and fix of one record, and fails for no layout
\* that nobody told of (embed_texts, put_many, finalize_matches, _dedupe, _search, embed_pairs).
THEOREM RetrievalHolds == Spec => []RetrievalSound
<1> DEFINE Inv == VoteInv /\ StoresTrue /\ VectorsTrue
<1>1. Init => Inv
  <2> SUFFICES ASSUME Init PROVE Inv
    OBVIOUS
  <2>1. VoteInv
    BY VotesStart DEF Init
  <2> QED  BY <2>1, StoresStart, VectorsStart DEF Init
<1>2. Inv /\ [Next]_vars => Inv'
  <2>1. [Next]_vars => [StoresNext]_storeVars
    BY Zenon DEF Next, vars, storeVars
  <2>2. [Next]_vars => [VectorsNext]_vectorVars
    BY Zenon DEF Next, vars, vectorVars
  <2>3. VoteInv => votes \in Seq(Row)
    BY DEF VoteInv, Rows
  <2> QED  BY <2>1, <2>2, <2>3, VoteStep, StoresStep, VectorsStep
<1>3. Inv => RetrievalSound
  BY StoresGoal, VectorsGoal DEF RetrievalSound
<1> QED  BY <1>1, <1>2, <1>3, PTL DEF Spec
==============================================================================
