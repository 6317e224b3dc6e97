--------------------------- MODULE AlgorithmsProofs ---------------------------
(***************************************************************************)
(* What Algorithms states of the sequential algorithms, for inputs of any  *)
(* kind and length: the report of a review, the answer of a reply, the     *)
(* comparison of two versions, diffs with what is computed from them, the  *)
(* replays of the evaluation, and the evidence of a finding.               *)
(***************************************************************************)
EXTENDS Algorithms, SelectionProofs

------------------------------------------------------------------------------
(* The report of a review (PRReport.tla).                                  *)

\* The findings of the place and line of finding i that are numbered before it.
Sooner(f, j, i) == f[j].rank < f[i].rank \/ (f[j].rank = f[i].rank /\ j < i)

Alike(f, j, i) == f[j].place = f[i].place /\ f[j].key = f[i].key

NumberedBefore(f, i) == {j \in DOMAIN f : Alike(f, j, i) /\ Sooner(f, j, i)}

LEMMA NumberIs ==
    ASSUME NEW f, NEW i
    PROVE  NumberOf(f, i) = 1 + Cardinality(NumberedBefore(f, i))
<1> DEFINE G == {j \in DOMAIN f : f[j].place = f[i].place /\ f[j].key = f[i].key}
<1>1. {j \in G : f[j].rank < f[i].rank \/ (f[j].rank = f[i].rank /\ j < i)} = NumberedBefore(f, i)
  BY DEF NumberedBefore, Alike, Sooner
<1> QED  BY <1>1 DEF NumberOf

\* Of two findings of one place and line the one that is numbered first has the lesser number.
LEMMA SoonerIsLess ==
    ASSUME NEW f, NEW n \in Nat, DOMAIN f = 1..n, \A i \in 1..n : f[i].rank \in Int,
           NEW i \in 1..n, NEW j \in 1..n, Alike(f, j, i), Sooner(f, j, i)
    PROVE  NumberOf(f, j) < NumberOf(f, i) /\ NumberOf(f, i) \in Int
<1>1. IsFiniteSet(NumberedBefore(f, i))
  <2>1. IsFiniteSet(1..n) /\ NumberedBefore(f, i) \in SUBSET (1..n)
    BY FS_Interval DEF NumberedBefore
  <2> QED  BY <2>1, FS_Subset
<1>2. NumberedBefore(f, j) \cup {j} \in SUBSET NumberedBefore(f, i)
  <2>1. ASSUME NEW k \in NumberedBefore(f, j) PROVE Alike(f, k, i) /\ Sooner(f, k, i)
    <3>1. k \in 1..n /\ Alike(f, k, j) /\ Sooner(f, k, j)
      BY DEF NumberedBefore
    <3>2. Alike(f, k, i)
      BY <3>1 DEF Alike
    <3>3. f[k].rank \in Int /\ f[j].rank \in Int /\ f[i].rank \in Int /\ k \in Int /\ j \in Int /\ i \in Int
      BY <3>1
    <3>4. Sooner(f, k, i)
      BY <3>1, <3>3 DEF Sooner
    <3> QED  BY <3>2, <3>4
  <2> QED  BY <2>1 DEF NumberedBefore
<1>3. j \notin NumberedBefore(f, j)
  <2>1. f[j].rank \in Int /\ j \in Int
    OBVIOUS
  <2> QED  BY <2>1 DEF NumberedBefore, Sooner
<1>4. IsFiniteSet(NumberedBefore(f, j))
  BY <1>1, <1>2, FS_Subset
<1> DEFINE a == NumberedBefore(f, j)
           b == NumberedBefore(f, i)
<1> HIDE DEF a, b
<1>5. Cardinality(a \cup {j}) = Cardinality(a) + 1 /\ Cardinality(a) \in Nat
  BY <1>3, <1>4, FS_AddElement, FS_CardinalityType DEF a
<1>6. Cardinality(a \cup {j}) <= Cardinality(b) /\ Cardinality(b) \in Nat
  BY <1>1, <1>2, FS_Subset, FS_CardinalityType DEF a, b
<1>7. NumberOf(f, j) = 1 + Cardinality(a) /\ NumberOf(f, i) = 1 + Cardinality(b)
  BY NumberIs DEF a, b
<1> QED  BY <1>5, <1>6, <1>7

LEMMA KeysDiffer ==
    ASSUME NEW f, NEW n \in Nat, DOMAIN f = 1..n, \A i \in 1..n : f[i].rank \in Int,
           NEW i \in 1..n, NEW j \in 1..n, i # j
    PROVE  FindingKey(f, i) # FindingKey(f, j)
<1>1. SUFFICES ASSUME FindingKey(f, i) = FindingKey(f, j) PROVE FALSE
  OBVIOUS
<1>2. f[i].place = f[j].place /\ f[i].key = f[j].key /\ NumberOf(f, i) = NumberOf(f, j)
  BY <1>1 DEF FindingKey
<1>3. Alike(f, i, j) /\ Alike(f, j, i)
  BY <1>2 DEF Alike
<1>4. f[i].rank \in Int /\ f[j].rank \in Int /\ i \in Int /\ j \in Int
  OBVIOUS
<1>5. Sooner(f, i, j) \/ Sooner(f, j, i)
  BY <1>4 DEF Sooner
<1>6. CASE Sooner(f, i, j)
  <2>1. NumberOf(f, i) < NumberOf(f, j) /\ NumberOf(f, j) \in Int
    BY <1>3, <1>6, SoonerIsLess
  <2> QED  BY <1>2, <2>1
<1>7. CASE Sooner(f, j, i)
  <2>1. NumberOf(f, j) < NumberOf(f, i) /\ NumberOf(f, i) \in Int
    BY <1>3, <1>7, SoonerIsLess
  <2> QED  BY <1>2, <2>1
<1> QED  BY <1>5, <1>6, <1>7

\* Where the ranks differ, turning the list round keeps the numbers.
LEMMA NumbersTurned ==
    ASSUME NEW f, NEW n \in Nat, DOMAIN f = 1..n, \A i \in 1..n : f[i].rank \in Int,
           \A i, j \in 1..n : i # j => f[i].rank # f[j].rank,
           NEW r, DOMAIN r = 1..n, \A i \in 1..n : r[i] = f[n - i + 1], NEW i \in 1..n
    PROVE  NumberOf(r, n - i + 1) = NumberOf(f, i)
<1> DEFINE a == NumberedBefore(f, i)
           k == n - i + 1
           b == NumberedBefore(r, k)
           g == [j \in a |-> n - j + 1]
<1>1. k \in 1..n /\ r[k] = f[i] /\ n - k + 1 = i
  OBVIOUS
<1>2. ASSUME NEW j \in 1..n PROVE /\ n - j + 1 \in 1..n /\ r[n - j + 1] = f[j]
                                  /\ n - (n - j + 1) + 1 = j
  OBVIOUS
<1>3. a = {j \in 1..n : Alike(f, j, i) /\ f[j].rank < f[i].rank}
  <2>1. ASSUME NEW j \in 1..n PROVE Sooner(f, j, i) <=> f[j].rank < f[i].rank
    <3>1. f[j].rank \in Int /\ f[i].rank \in Int /\ j \in Int /\ i \in Int
      OBVIOUS
    <3>2. j < i => f[j].rank # f[i].rank
      OBVIOUS
    <3> QED  BY <3>1, <3>2 DEF Sooner
  <2> QED  BY <2>1 DEF NumberedBefore
<1>4. b = {j \in 1..n : Alike(r, j, k) /\ r[j].rank < r[k].rank}
  <2>1. ASSUME NEW j \in 1..n PROVE Sooner(r, j, k) <=> r[j].rank < r[k].rank
    <3>1. n - j + 1 \in 1..n /\ r[j] = f[n - j + 1] /\ r[k] = f[i] /\ j \in Int /\ k \in Int
      BY <1>1
    <3>2. r[j].rank \in Int /\ r[k].rank \in Int
      BY <3>1
    <3>3. j < k => n - j + 1 # i
      OBVIOUS
    <3>4. j < k => r[j].rank # r[k].rank
      BY <3>1, <3>3
    <3> QED  BY <3>2, <3>4 DEF Sooner
  <2> HIDE DEF k
  <2> QED  BY <2>1 DEF NumberedBefore
<1> HIDE DEF k, a, b
<1>5. ASSUME NEW j \in a PROVE n - j + 1 \in b
  BY <1>1, <1>2, <1>3, <1>4 DEF Alike
<1>6. ASSUME NEW j \in b PROVE n - j + 1 \in a
  <2>1. j \in 1..n /\ n - j + 1 \in 1..n /\ r[j] = f[n - j + 1]
    BY <1>4
  <2> QED  BY <1>1, <1>3, <1>4, <2>1 DEF Alike
<1>7. ASSUME NEW y \in b PROVE \E x \in a : g[x] = y
  <2>1. n - y + 1 \in a /\ y \in 1..n
    BY <1>6, <1>4
  <2>2. g[n - y + 1] = n - (n - y + 1) + 1
    BY <2>1
  <2>3. n - (n - y + 1) + 1 = y
    BY <2>1
  <2> QED  BY <2>1, <2>2, <2>3
<1>8. IsFiniteSet(a)
  <2>1. IsFiniteSet(1..n) /\ a \in SUBSET (1..n)
    BY <1>3, FS_Interval
  <2> QED  BY <2>1, FS_Subset
<1>9. Cardinality(a) = Cardinality(b)
  <2>1. \A x \in a : g[x] \in b
    BY <1>5
  <2>2. \A x, y \in a : g[x] = g[y] => x = y
    BY <1>3
  <2> HIDE DEF g
  <2> QED  BY <1>7, <1>8, <2>1, <2>2, SameSize
<1> QED  BY <1>9, NumberIs DEF a, b, k

LEMMA KeysOfList ==
    ASSUME NEW S, NEW f \in Seq(S), \A i \in DOMAIN f : f[i].rank \in Int
    PROVE  KeysHold(f)
<1> DEFINE n == Len(f)
           r == Reverse(f)
<1>1. n \in Nat /\ DOMAIN f = 1..n
  BY LenProperties
<1>2. r = [i \in 1..n |-> f[n - i + 1]]
  BY DEF Reverse
<1>3. DOMAIN r = 1..n /\ \A i \in 1..n : r[i] = f[n - i + 1]
  BY <1>2
<1> HIDE DEF n, r
<1>4. \A i, j \in 1..n : i # j => FindingKey(f, i) # FindingKey(f, j)
  BY <1>1, KeysDiffer
<1>5. ASSUME \A i, j \in 1..n : i # j => f[i].rank # f[j].rank
      PROVE  {<<FindingKey(f, i), f[i]>> : i \in 1..n} = {<<FindingKey(r, i), r[i]>> : i \in 1..n}
  <2>1. ASSUME NEW i \in 1..n
        PROVE  n - i + 1 \in 1..n /\ r[n - i + 1] = f[i] /\ FindingKey(r, n - i + 1) = FindingKey(f, i)
    <3>1. n - i + 1 \in 1..n /\ n - (n - i + 1) + 1 = i
      BY <1>1
    <3>2. r[n - i + 1] = f[i]
      BY <1>3, <3>1
    <3>3. NumberOf(r, n - i + 1) = NumberOf(f, i)
      BY <1>1, <1>3, <1>5, NumbersTurned, ZenonT(30)
    <3> QED  BY <3>1, <3>2, <3>3 DEF FindingKey
  <2>2. ASSUME NEW i \in 1..n PROVE \E j \in 1..n : n - j + 1 = i
    <3>1. n - i + 1 \in 1..n /\ n - (n - i + 1) + 1 = i
      BY <1>1
    <3> QED  BY <3>1
  <2>3. ASSUME NEW i \in 1..n
        PROVE  <<FindingKey(f, i), f[i]>> \in {<<FindingKey(r, j), r[j]>> : j \in 1..n}
    BY <2>1
  <2>4. ASSUME NEW i \in 1..n
        PROVE  <<FindingKey(r, i), r[i]>> \in {<<FindingKey(f, j), f[j]>> : j \in 1..n}
    BY <2>1, <2>2
  <2> QED  BY <2>3, <2>4
<1> QED  BY <1>1, <1>3, <1>4, <1>5 DEF KeysHold, r

\* What the report of a review is made of: the alerts, and the confirmed candidates.
IsAlertOf(d, c, severity) ==
    /\ d.deterministic = TRUE /\ d.file = c.file /\ d.key = c.key /\ d.severity = severity /\ d.rank = 5 - severity

IsCandidateOf(d, c) ==
    /\ d.deterministic = FALSE /\ d.file = c.file /\ d.severity = c.severity /\ d.rank = 5 - c.severity

Tells(A, changes, severity) ==
    /\ \E m \in Nat : DOMAIN A = 1..m
    /\ A = [i \in DOMAIN A |-> A[i]]
    /\ \A k \in DOMAIN A : A[k].deterministic = TRUE /\ A[k].severity = severity /\ A[k].rank = 5 - severity
    /\ \A i \in DOMAIN changes : changes[i].alert /\ changes[i].weakened /\ changes[i].confident =>
           \E k \in DOMAIN A : IsAlertOf(A[k], changes[i], severity)

LEMMA AlertsTold ==
    ASSUME NEW changes, NEW n \in Nat, DOMAIN changes = 1..n, NEW severity
    PROVE  Tells(AlertFindings(changes, severity), changes, severity)
<1> DEFINE T == {i \in DOMAIN changes : changes[i].alert /\ changes[i].weakened /\ changes[i].confident}
           told == Picked(changes, T)
           A == AlertFindings(changes, severity)
<1>1. T \subseteq 1..n
  OBVIOUS
<1>2. A = [i \in DOMAIN told |->
            [deterministic |-> TRUE, file |-> told[i].file, unit |-> told[i].unit,
             place |-> <<told[i].file, told[i].unit>>, line |-> told[i].line,
             first |-> told[i].line, last |-> told[i].line, key |-> told[i].key,
             severity |-> severity, rank |-> 5 - severity, corroborated |-> {}]]
  BY DEF AlertFindings
<1>3. \A i \in 1..n : changes[i].alert /\ changes[i].weakened /\ changes[i].confident => i \in T
  OBVIOUS
<1> HIDE DEF T, A
<1>4. /\ \E m \in Nat : DOMAIN told = 1..m
      /\ \A i \in T : \E k \in DOMAIN told : told[k] = changes[i]
  <2>1. PicksFrom(told, changes, T)
    BY <1>1, PickedElements
  <2> HIDE DEF told
  <2> QED  BY <2>1 DEF PicksFrom
<1> HIDE DEF told
<1>5. /\ DOMAIN A = DOMAIN told /\ A = [i \in DOMAIN A |-> A[i]]
      /\ \A k \in DOMAIN A : /\ A[k].deterministic = TRUE /\ A[k].severity = severity /\ A[k].rank = 5 - severity
                             /\ A[k].file = told[k].file /\ A[k].key = told[k].key
  BY <1>2
<1>6. \A i \in 1..n : changes[i].alert /\ changes[i].weakened /\ changes[i].confident =>
                  \E k \in DOMAIN A : IsAlertOf(A[k], changes[i], severity)
  BY <1>3, <1>4, <1>5 DEF IsAlertOf
<1> QED  BY <1>4, <1>5, <1>6 DEF A, Tells

\* An alert is corroborated by a candidate or a hit of its file.
LEMMA ByOthers ==
    ASSUME NEW d, NEW llm, NEW hits, CorroboratedBy(d, llm, hits, TRUE) # {}
    PROVE  \/ \E g \in llm : g.file = d.file
           \/ \E h \in hits : h.file = d.file /\ ~h.lowConfidence
BY DEF CorroboratedBy

\* The report: each alert that gates is corroborated by what is there, and no alert is left out.
MadeOf(R, changes, candidates, hits) ==
    /\ \E S : R \in Seq(S)
    /\ \A k \in DOMAIN R : R[k].rank \in Int /\ R[k].severity \in Int
    /\ \A k \in DOMAIN R : R[k].deterministic /\ R[k].corroborated # {} =>
         \/ \E c \in ToSet(candidates) : c.file = R[k].file
         \/ \E h \in hits : h.file = R[k].file /\ ~h.lowConfidence
    /\ \A i \in DOMAIN changes : changes[i].alert /\ changes[i].weakened /\ changes[i].confident =>
           \E k \in DOMAIN R : R[k].deterministic /\ R[k].key = changes[i].key

LEMMA ReportIs ==
    ASSUME NEW changes, NEW n \in Nat, DOMAIN changes = 1..n,
           NEW candidates, NEW m \in Nat, DOMAIN candidates = 1..m,
           \A i \in 1..m : candidates[i].severity \in 0..4,
           NEW hits, NEW severity \in 0..4
    PROVE  MadeOf(Report(changes, candidates, hits, severity), changes, candidates, hits)
<1> DEFINE A == AlertFindings(changes, severity)
           C == [i \in DOMAIN candidates |-> ReportFinding(candidates[i])]
           L == A \o C
           by(d) == CorroboratedBy(d, ToSet(C), hits, TRUE)
           R == Report(changes, candidates, hits, severity)
<1>1. R = [i \in DOMAIN L |-> IF L[i].deterministic THEN [L[i] EXCEPT !.corroborated = by(L[i])] ELSE L[i]]
  BY DEF Report
<1> HIDE DEF R
<1>0. Tells(A, changes, severity)
  BY AlertsTold
<1>2. PICK a \in Nat : DOMAIN A = 1..a
  <2> HIDE DEF A
  <2> QED  BY <1>0 DEF Tells
<1>3. /\ A = [i \in 1..a |-> A[i]]
      /\ \A k \in 1..a : A[k].deterministic = TRUE /\ A[k].severity = severity /\ A[k].rank = 5 - severity
      /\ \A i \in 1..n : changes[i].alert /\ changes[i].weakened /\ changes[i].confident =>
                  \E k \in 1..a : IsAlertOf(A[k], changes[i], severity)
  <2> HIDE DEF A
  <2> QED  BY <1>0, <1>2 DEF Tells
<1>4. /\ DOMAIN C = 1..m /\ C = [i \in 1..m |-> C[i]]
      /\ \A k \in 1..m : IsCandidateOf(C[k], candidates[k])
  BY DEF ReportFinding, IsCandidateOf
<1>5. ASSUME NEW g \in ToSet(C) PROVE \E c \in ToSet(candidates) : c.file = g.file
  <2>1. PICK k \in 1..m : g = C[k]
    BY <1>4 DEF ToSet
  <2>2. candidates[k] \in ToSet(candidates)
    BY DEF ToSet
  <2> QED  BY <1>4, <2>1, <2>2 DEF IsCandidateOf
<1> HIDE DEF A, C
<1>6. /\ DOMAIN L = 1..(a + m)
      /\ \A i \in 1..a : L[i] = A[i]
      /\ \A i \in 1..(a + m) : (i \in 1..a /\ L[i] = A[i]) \/ (i - a \in 1..m /\ L[i] = C[i - a])
  BY <1>2, <1>3, <1>4, InARow
<1> HIDE DEF L
<1>7. DOMAIN R = 1..(a + m) /\ R = [i \in 1..(a + m) |-> R[i]]
  BY <1>1, <1>6
<1>8. ASSUME NEW k \in 1..(a + m)
      PROVE  /\ L[k].severity \in Int /\ L[k].rank \in Int
             /\ R[k] = IF L[k].deterministic THEN [L[k] EXCEPT !.corroborated = by(L[k])] ELSE L[k]
  <2>1. R[k] = IF L[k].deterministic THEN [L[k] EXCEPT !.corroborated = by(L[k])] ELSE L[k]
    BY <1>1, <1>6
  <2> HIDE DEF R, by
  <2>2. CASE k \in 1..a /\ L[k] = A[k]
    <3>1. severity \in Int /\ 5 - severity \in Int
      OBVIOUS
    <3> QED  BY <1>3, <2>1, <2>2, <3>1
  <2>3. CASE k - a \in 1..m /\ L[k] = C[k - a]
    <3>1. candidates[k - a].severity \in Int /\ 5 - candidates[k - a].severity \in Int
      BY <2>3
    <3>2. IsCandidateOf(C[k - a], candidates[k - a])
      BY <1>4, <2>3
    <3> QED  BY <2>1, <2>3, <3>1, <3>2 DEF IsCandidateOf
  <2> QED  BY <1>6, <2>2, <2>3
<1>9. ASSUME NEW k \in 1..(a + m)
      PROVE  /\ R[k].rank = L[k].rank /\ R[k].severity = L[k].severity /\ R[k].file = L[k].file
             /\ R[k].deterministic = L[k].deterministic /\ R[k].key = L[k].key
             /\ L[k].deterministic /\ R[k].corroborated # {} => by(L[k]) # {}
  <2> HIDE DEF by, R
  <2>1. CASE ~L[k].deterministic
    BY <1>8, <2>1
  <2>2. CASE L[k].deterministic
    <3>1. PICK v : R[k] = [L[k] EXCEPT !.corroborated = v] /\ v = by(L[k])
      BY <1>8, <2>2
    <3>2. L[k] = A[k] /\ k \in 1..a
      BY <1>4, <1>6, <2>2 DEF IsCandidateOf
    <3>3. PICK x : A[k] = [deterministic |-> TRUE, file |-> x.file, unit |-> x.unit,
             place |-> <<x.file, x.unit>>, line |-> x.line,
             first |-> x.line, last |-> x.line, key |-> x.key,
             severity |-> severity, rank |-> 5 - severity, corroborated |-> {}]
      <4>1. k \in DOMAIN AlertFindings(changes, severity)
        BY <1>2, <3>2 DEF A
      <4> QED  BY <4>1 DEF A, AlertFindings
    <3>4. /\ R[k].rank = A[k].rank /\ R[k].severity = A[k].severity /\ R[k].file = A[k].file
          /\ R[k].deterministic = A[k].deterministic /\ R[k].key = A[k].key
          /\ R[k].corroborated = v
      BY <3>1, <3>2, <3>3
    <3> QED  BY <3>1, <3>2, <3>4
  <2> QED  BY <2>1, <2>2
<1>10. \E S : R \in Seq(S)
  <2> DEFINE S == {R[i] : i \in 1..(a + m)}
  <2>1. \A i \in 1..(a + m) : R[i] \in S
    OBVIOUS
  <2>2. a + m \in Nat
    OBVIOUS
  <2> HIDE DEF S, R
  <2>3. R \in Seq(S)
    BY <1>7, <2>1, <2>2, ListIsSeq
  <2> QED  BY <2>3
<1>11. ASSUME NEW k \in DOMAIN R, R[k].deterministic, R[k].corroborated # {}
       PROVE  \/ \E c \in ToSet(candidates) : c.file = R[k].file
              \/ \E h \in hits : h.file = R[k].file /\ ~h.lowConfidence
  <2>1. by(L[k]) # {} /\ R[k].file = L[k].file
    BY <1>7, <1>9, <1>11
  <2>2. \/ \E g \in ToSet(C) : g.file = L[k].file
        \/ \E h \in hits : h.file = L[k].file /\ ~h.lowConfidence
    <3>1. CorroboratedBy(L[k], ToSet(C), hits, TRUE) # {}
      BY <2>1
    <3> HIDE DEF by
    <3> QED  BY <3>1, ByOthers
  <2> HIDE DEF R
  <2> QED  BY <1>5, <2>1, <2>2
<1>12. ASSUME NEW i \in 1..n, changes[i].alert /\ changes[i].weakened /\ changes[i].confident
       PROVE  \E k \in DOMAIN R : R[k].deterministic /\ R[k].key = changes[i].key
  <2>1. PICK k \in 1..a : IsAlertOf(A[k], changes[i], severity)
    BY <1>3, <1>12
  <2>2. k \in 1..(a + m) /\ L[k] = A[k]
    BY <1>6
  <2> HIDE DEF R
  <2> QED  BY <1>7, <1>9, <2>1, <2>2, ZenonT(30) DEF IsAlertOf
<1>13. \A k \in DOMAIN R : R[k].rank \in Int /\ R[k].severity \in Int
  <2> HIDE DEF R
  <2> QED  BY <1>7, <1>8, <1>9
<1> QED  BY <1>10, <1>11, <1>12, <1>13 DEF R, MadeOf

\* What a coverage says of an outcome.
LEMMA CoverageIs ==
    ASSUME NEW o \in Outcomes
    PROVE  /\ Coverage(o) \in {"complete", "partial", "failed"}
           /\ Coverage(o) = "complete" <=> Warnings(o) = {}
<1> USE OutcomesAssumption
<1>1. Warnings(o) = {} <=> Clipped(o) = {} /\ DOMAIN o.notReviewed = {} /\ ~(o.unverified > 0)
  <2>1. \A u \in DOMAIN o.notReviewed : o.notReviewed[u] \in Reasons
    OBVIOUS
  <2> QED  BY <2>1 DEF Warnings, Clipped
<1>2. CASE o.reviewed \cup DOMAIN o.notReviewed = {}
  BY <1>1, <1>2 DEF Coverage, Clipped
<1>3. CASE o.reviewed = {} /\ DOMAIN o.notReviewed # {}
  BY <1>1, <1>3 DEF Coverage
<1>4. CASE o.reviewed # {}
  BY <1>1, <1>4 DEF Coverage
<1> QED  BY <1>2, <1>3, <1>4

LEMMA ReportOf ==
    ASSUME NEW o \in Outcomes, NEW changes \in Seq(Alerts), NEW candidates \in Seq(Confirmed),
           NEW hits, NEW severity \in 0..4
    PROVE  ReportHolds(o, changes, candidates, hits, severity)
<1> DEFINE R == Report(changes, candidates, hits, severity)
           status == Coverage(o)
           result == [report |-> R, status |-> status, listsUnreviewed |-> DOMAIN o.notReviewed # {}]
<1>1. /\ DOMAIN changes = 1..Len(changes) /\ Len(changes) \in Nat
      /\ DOMAIN candidates = 1..Len(candidates) /\ Len(candidates) \in Nat
      /\ \A i \in 1..Len(candidates) : candidates[i].severity \in 0..4
  BY LenProperties, ElementOfSeq, SeveritiesAssumption
<1>2. MadeOf(R, changes, candidates, hits)
  <2> HIDE DEF status, result
  <2> QED  BY <1>1, ReportIs
<1> HIDE DEF R
<1>3. PICK S : R \in Seq(S)
  BY <1>2 DEF MadeOf
<1>4. KeysHold(R)
  BY <1>2, <1>3, KeysOfList DEF MadeOf
<1>5. status \in {"complete", "partial", "failed"} /\ (status = "complete" <=> Warnings(o) = {})
  BY CoverageIs
<1> HIDE DEF status
<1>6. ReviewStatusOf(result) = status
  BY <1>5 DEF ReviewStatusOf
<1>7. ASSUME Heading(R, status) = "clean"
      PROVE  Warnings(o) = {} /\ \A t \in 0..4 : ExitCode(result, t) = 0
  <2>1. R = <<>> /\ status = "complete"
    BY <1>5, <1>7 DEF Heading, Banner
  <2>2. result.report = R /\ DOMAIN R = {}
    BY <2>1
  <2> HIDE DEF result
  <2>3. \A t \in 0..4 : SeverityGate(result.report, t) = 0 /\ CoverageGate(result) = 0
    BY <1>6, <2>1, <2>2 DEF SeverityGate, CoverageGate
  <2> QED  BY <1>5, <2>1, <2>3 DEF ExitCode
<1>8. ASSUME NEW t \in 1..4, ExitCode(result, t) = 0, FailOnPartial PROVE status = "complete"
  <2> HIDE DEF result
  <2> QED  BY <1>6, <1>8 DEF ExitCode, CoverageGate
<1>9. ASSUME NEW t \in 1..4, SeverityGate(R, t) = 1, ~GateOnDeterministic
      PROVE  \E i \in DOMAIN R : R[i].severity >= t
                /\ (R[i].deterministic =>
                        \/ \E c \in ToSet(candidates) : c.file = R[i].file
                        \/ \E h \in hits : h.file = R[i].file /\ ~h.lowConfidence)
  <2>1. PICK i \in DOMAIN R : GatesBuild(R[i]) /\ R[i].severity >= t
    BY <1>9 DEF SeverityGate
  <2> QED  BY <1>2, <1>9, <2>1 DEF GatesBuild, MadeOf
<1>10. \A i \in DOMAIN changes : changes[i].alert /\ changes[i].weakened /\ changes[i].confident =>
            \E d \in ToSet(R) : d.deterministic /\ d.key = changes[i].key
  BY <1>2 DEF ToSet, MadeOf
<1> HIDE DEF result
<1>11. ReportHolds(o, changes, candidates, hits, severity)
       <=> /\ status = "complete" <=> Warnings(o) = {}
           /\ Heading(R, status) = "clean" => Warnings(o) = {} /\ \A t \in 0..4 : ExitCode(result, t) = 0
           /\ \A t \in 1..4 : ExitCode(result, t) = 0 /\ FailOnPartial => status = "complete"
           /\ \A t \in 1..4 : SeverityGate(R, t) = 1 /\ ~GateOnDeterministic =>
                \E i \in DOMAIN R : R[i].severity >= t
                /\ (R[i].deterministic =>
                        \/ \E c \in ToSet(candidates) : c.file = R[i].file
                        \/ \E h \in hits : h.file = R[i].file /\ ~h.lowConfidence)
           /\ \A i \in DOMAIN changes :
                changes[i].alert /\ changes[i].weakened /\ changes[i].confident =>
                    \E d \in ToSet(R) : d.deterministic /\ d.key = changes[i].key
           /\ KeysHold(R)
  BY DEF ReportHolds, R, status, result
<1> QED  BY <1>4, <1>5, <1>7, <1>8, <1>9, <1>10, <1>11

------------------------------------------------------------------------------
(* The answer of a reply (Answers.tla).                                    *)

\* The objects a question has a problem p with, and the last of them.
Saying(objects, question, p) == {i \in DOMAIN objects : Problem(objects[i], question) = p}

LastSaying(objects, question, p) ==
    IF Saying(objects, question, p) = {} THEN "none" ELSE objects[Max(Saying(objects, question, p))]

\* What the first acceptable of some candidates, last first, is of the objects.
LEMMA LastValid ==
    ASSUME NEW S, NEW objects \in Seq(S), NEW question \in {"audit", "final_audit", "units", "verify"}
    PROVE  /\ FirstValid(Candidates(objects), question).found = LastSaying(objects, question, "none")
           /\ FirstValid(Candidates(objects), question).fallback = LastSaying(objects, question, "fallback")
<1> DEFINE n == Len(objects)
           C == Candidates(objects)
           w(p) == {i \in 1..n : Problem(objects[i], question) = p}
           c(p) == {i \in 1..n : Problem(C[i], question) = p}
<1>1. n \in Nat /\ DOMAIN objects = 1..n
  BY LenProperties
<1>2. DOMAIN C = 1..n /\ \A i \in 1..n : C[i] = objects[n - i + 1]
  BY DEF Candidates, Reverse
<1> HIDE DEF n, C
<1>3. ASSUME NEW p
      PROVE  /\ c(p) = {} <=> w(p) = {}
             /\ w(p) # {} => C[Min(c(p))] = objects[Max(w(p))]
  <2>1. ASSUME NEW i \in 1..n PROVE n - i + 1 \in 1..n /\ n - (n - i + 1) + 1 = i
    BY <1>1
  <2>2. \A i \in 1..n : i \in w(p) <=> n - i + 1 \in c(p)
    <3>1. \A i \in 1..n : C[n - i + 1] = objects[i]
      BY <1>2, <2>1
    <3> QED  BY <2>1, <3>1
  <2>3. \A i \in 1..n : i \in c(p) <=> n - i + 1 \in w(p)
    BY <1>2, <2>1
  <2>4. c(p) = {} <=> w(p) = {}
    BY <2>1, <2>2, <2>3
  <2>5. ASSUME w(p) # {} PROVE C[Min(c(p))] = objects[Max(w(p))]
    <3>1. c(p) \subseteq 1..n /\ w(p) \subseteq 1..n
      OBVIOUS
    <3> DEFINE a == Min(c(p))
               b == Max(w(p))
    <3>2. a \in c(p) /\ \A y \in c(p) : a <= y
      BY <1>1, <2>4, <2>5, <3>1, LeastPlace
    <3>3. b \in w(p) /\ \A y \in w(p) : y <= b
      BY <1>1, <2>5, <3>1, GreatestPlace
    <3> HIDE DEF a, b
    <3>4. a \in 1..n /\ b \in 1..n
      BY <3>2, <3>3
    <3>5. n - b + 1 \in c(p) /\ n - a + 1 \in w(p)
      BY <2>2, <2>3, <3>2, <3>3, <3>4
    <3>6. a <= n - b + 1 /\ n - a + 1 <= b
      BY <3>2, <3>3, <3>5
    <3>7. a = n - b + 1 /\ n - a + 1 = b
      BY <1>1, <3>4, <3>6
    <3>8. C[a] = objects[n - a + 1]
      BY <1>2, <3>4
    <3> QED  BY <3>7, <3>8 DEF a, b
  <2> QED  BY <2>4, <2>5
<1>4. FirstValid(C, question)
        = [found |-> IF c("none") = {} THEN "none" ELSE C[Min(c("none"))],
           fallback |-> IF c("fallback") = {} THEN "none" ELSE C[Min(c("fallback"))]]
  BY <1>2 DEF FirstValid
<1>5. /\ c("none") = {} <=> w("none") = {}
      /\ c("fallback") = {} <=> w("fallback") = {}
      /\ w("none") # {} => C[Min(c("none"))] = objects[Max(w("none"))]
      /\ w("fallback") # {} => C[Min(c("fallback"))] = objects[Max(w("fallback"))]
  BY <1>3
<1>6. w("none") = Saying(objects, question, "none") /\ w("fallback") = Saying(objects, question, "fallback")
  BY <1>1 DEF Saying
<1> HIDE DEF c, w
<1> QED  BY <1>4, <1>5, <1>6 DEF C, LastSaying

LEMMA HeldIsSeq ==
    ASSUME NEW reply, NEW n \in Nat, DOMAIN reply = 1..n, NEW T, T \subseteq 1..n
    PROVE  /\ \E S : Held(reply, T) \in Seq(S)
           /\ Held(reply, T) = <<>> <=> T = {}
<1> DEFINE p == Picked(reply, T)
           h == Held(reply, T)
<1>1. h = [k \in DOMAIN p |-> p[k].holds]
  BY DEF Held
<1>2. /\ \E m \in Nat : DOMAIN p = 1..m
      /\ \A k \in DOMAIN p : \E i \in T : p[k] = reply[i]
      /\ \A i \in T : \E k \in DOMAIN p : p[k] = reply[i]
  <2>1. PicksFrom(p, reply, T)
    BY PickedElements
  <2> HIDE DEF p, h
  <2> QED  BY <2>1 DEF PicksFrom
<1> HIDE DEF p, h
<1>3. PICK m \in Nat : DOMAIN p = 1..m
  BY <1>2
<1>4. DOMAIN h = 1..m /\ h = [k \in 1..m |-> h[k]]
  BY <1>1, <1>3
<1>5. h \in Seq({h[k] : k \in 1..m}) /\ Len(h) = m
  <2> DEFINE S == {h[k] : k \in 1..m}
  <2>1. \A k \in 1..m : h[k] \in S
    OBVIOUS
  <2> HIDE DEF S
  <2>2. h \in Seq(S) /\ Len(h) = m
    BY <1>4, <2>1, ListIsSeq
  <2> QED  BY <2>2 DEF S
<1>6. h = <<>> <=> T = {}
  <2>1. h = <<>> <=> m = 0
    BY <1>5, EmptySeq
  <2>2. m = 0 => T = {}
    BY <1>2, <1>3
  <2>3. m # 0 => T # {}
    <3>1. m # 0 => 1 \in 1..m
      OBVIOUS
    <3> QED  BY <1>2, <1>3, <3>1
  <2> QED  BY <2>1, <2>2, <2>3
<1> QED  BY <1>5, <1>6 DEF h

\* What an answer may be to a question.
LEMMA ProblemIs ==
    ASSUME NEW kind, NEW question \in {"audit", "final_audit", "units", "verify"}
    PROVE  /\ Problem(kind, question) \in {"none", "fallback", "problem"}
           /\ kind \in {"none", "list", "invalid", "unparsable"} => Problem(kind, question) = "problem"
BY DEF Problem, AuditProblem, UnitsProblem, VerifierProblem

LEMMA LastCounts ==
    ASSUME NEW reply \in Seq(Pieces), NEW question \in {"audit", "final_audit", "units", "verify"},
           reply # <<>>
    PROVE  LastAnswerCounts(reply, question)
<1> DEFINE n == Len(reply)
           reached(i) ==
            /\ \A j \in 1..(i - 1) : reply[j].form # "cut"
            /\ Cardinality({j \in 1..(i - 1) : reply[j].form = "unclosed"}) <= MaxUnclosed
           T == {i \in DOMAIN reply : reply[i].form \in {"object", "fence", "list"} /\ reached(i)}
           U == {i \in DOMAIN reply : reply[i].form = "fence"}
           objects == TopLevel(reply)
           fenced == Held(reply, U)
           whole == Len(reply) = 1 /\ reply[1].form \in {"object", "list"}
           kind == IF reply[1].form = "list" THEN "list" ELSE reply[1].holds
           top == FirstValid(Candidates(objects), question)
           inFences == FirstValid(Candidates(fenced), question)
           first(a, b) == IF a # "none" THEN a ELSE b
           pick == first(first(top.found, inFences.found), first(top.fallback, inFences.fallback))
           answer == ExtractJson(reply, question)
           with(p) == Saying(objects, question, p)
           withF(p) == Saying(fenced, question, p)
<1>1. answer = IF whole THEN IF Problem(kind, question) = "problem" THEN "invalid" ELSE kind
               ELSE IF objects = <<>> /\ fenced = <<>> THEN "unparsable"
               ELSE IF pick = "none" THEN "invalid" ELSE pick
  BY DEF ExtractJson
<1>2. n \in Nat /\ DOMAIN reply = 1..n /\ n # 0
  BY LenProperties, EmptySeq
<1>3. objects = Held(reply, T)
  BY DEF TopLevel
<1>4. T \subseteq 1..n /\ U \subseteq 1..n /\ (T # {} => \E i \in 1..n : reply[i].form \in {"object", "fence", "list"})
  BY <1>2
<1>0. U # {} => \E i \in 1..n : reply[i].form = "fence"
  BY <1>2
<1> HIDE DEF T, U, objects, fenced, reached
<1>5. PICK S : objects \in Seq(S)
  BY <1>2, <1>3, <1>4, HeldIsSeq
<1>6. PICK F : fenced \in Seq(F)
  BY <1>2, <1>4, HeldIsSeq DEF fenced
<1>7. (objects = <<>> <=> T = {}) /\ (fenced = <<>> <=> U = {})
  BY <1>2, <1>3, <1>4, HeldIsSeq DEF fenced
<1>8. /\ top.found = IF with("none") = {} THEN "none" ELSE objects[Max(with("none"))]
      /\ top.fallback = IF with("fallback") = {} THEN "none" ELSE objects[Max(with("fallback"))]
  <2> HIDE DEF with, pick, answer, inFences, withF
  <2>1. top.found = LastSaying(objects, question, "none") /\ top.fallback = LastSaying(objects, question, "fallback")
    BY <1>5, LastValid
  <2> HIDE DEF top
  <2> QED  BY <2>1 DEF LastSaying, with
<1>9. /\ inFences.found = IF withF("none") = {} THEN "none" ELSE fenced[Max(withF("none"))]
      /\ inFences.fallback = IF withF("fallback") = {} THEN "none" ELSE fenced[Max(withF("fallback"))]
  <2> HIDE DEF with, pick, answer, top, withF
  <2>1. inFences.found = LastSaying(fenced, question, "none") /\ inFences.fallback = LastSaying(fenced, question, "fallback")
    BY <1>6, LastValid
  <2> HIDE DEF inFences
  <2> QED  BY <2>1 DEF LastSaying, withF
<1> HIDE DEF top, inFences
<1>10. ASSUME NEW p, with(p) # {} PROVE Problem(objects[Max(with(p))], question) = p
  <2>1. DOMAIN objects = 1..Len(objects) /\ Len(objects) \in Nat
    BY <1>5, LenProperties
  <2>2. with(p) \subseteq 1..Len(objects)
    BY <2>1 DEF Saying
  <2> HIDE DEF with
  <2>3. Max(with(p)) \in with(p)
    BY <1>10, <2>1, <2>2, GreatestPlace
  <2> QED  BY <2>3 DEF with, Saying
<1>11. ASSUME NEW p, withF(p) # {} PROVE Problem(fenced[Max(withF(p))], question) = p
  <2>1. DOMAIN fenced = 1..Len(fenced) /\ Len(fenced) \in Nat
    BY <1>6, LenProperties
  <2>2. withF(p) \subseteq 1..Len(fenced)
    BY <2>1 DEF Saying
  <2> HIDE DEF withF
  <2>3. Max(withF(p)) \in withF(p)
    BY <1>11, <2>1, <2>2, GreatestPlace
  <2> QED  BY <2>3 DEF withF, Saying
<1>12. /\ top.found # "none" => with("none") # {} /\ Problem(top.found, question) = "none"
       /\ inFences.found # "none" => Problem(inFences.found, question) = "none"
       /\ top.fallback # "none" => Problem(top.fallback, question) = "fallback"
       /\ inFences.fallback # "none" => Problem(inFences.fallback, question) = "fallback"
       /\ with("none") # {} => top.found = objects[Max(with("none"))] /\ top.found # "none"
  <2>1. Problem("none", question) = "problem"
    BY ProblemIs
  <2>2. /\ with("none") # {} => Problem(objects[Max(with("none"))], question) = "none"
        /\ with("fallback") # {} => Problem(objects[Max(with("fallback"))], question) = "fallback"
        /\ withF("none") # {} => Problem(fenced[Max(withF("none"))], question) = "none"
        /\ withF("fallback") # {} => Problem(fenced[Max(withF("fallback"))], question) = "fallback"
    BY <1>10, <1>11
  <2> HIDE DEF with, withF
  <2> QED  BY <1>8, <1>9, <2>1, <2>2
<1>13. pick # "none" => Problem(pick, question) \in {"none", "fallback"}
  BY <1>12
<1>14. with("none") # {} => pick = objects[Max(with("none"))] /\ Problem(pick, question) = "none" /\ pick # "none"
  <2> HIDE DEF with
  <2> QED  BY <1>12
<1> HIDE DEF pick, answer
<1>15. Problem("invalid", question) = "problem" /\ Problem("unparsable", question) = "problem"
       /\ Problem("list", question) = "problem"
  BY ProblemIs
<1>16. answer \notin {"invalid", "unparsable"} => Problem(answer, question) # "problem"
  <2> HIDE DEF whole, kind
  <2> QED  BY <1>1, <1>13
<1>17. ASSUME with("none") # {}, ~whole PROVE answer = objects[Max(with("none"))]
  <2>1. objects # <<>>
    <3>1. DOMAIN objects # {}
      BY <1>17 DEF Saying
    <3> QED  BY <3>1
  <2> HIDE DEF with, whole, kind
  <2> QED  BY <1>1, <1>14, <1>17, <2>1
<1>18. ASSUME \A i \in DOMAIN reply : reply[i].form \in {"cut", "prose", "closed"} PROVE answer = "unparsable"
  <2>1. 1 \in DOMAIN reply
    BY <1>2
  <2>2. ~whole
    BY <1>18, <2>1
  <2>3. T = {} /\ U = {}
    BY <1>0, <1>2, <1>4, <1>18
  <2> HIDE DEF whole
  <2> QED  BY <1>1, <1>7, <2>2, <2>3
<1>19. ASSUME Problem(answer, question) = "fallback", with("none") # {} PROVE FALSE
  <2>1. whole
    <3>1. ~whole => Problem(answer, question) = "none"
      <4>1. Problem(objects[Max(with("none"))], question) = "none"
        BY <1>10, <1>19
      <4> HIDE DEF with, whole
      <4> QED  BY <1>17, <1>19, <4>1
    <3> QED  BY <1>19, <3>1
  <2>2. answer = kind /\ reply[1].form = "object" /\ kind = reply[1].holds
    BY <1>1, <1>15, <1>19, <2>1
  <2>3. n = 1
    BY <2>1
  <2>4. \A i \in DOMAIN objects : objects[i] = reply[1].holds
    <3> DEFINE p == Picked(reply, T)
    <3>1. objects = [k \in DOMAIN p |-> p[k].holds]
      BY <1>3 DEF Held
    <3>3. PicksFrom(p, reply, T)
      BY <1>2, <1>4, PickedElements
    <3> HIDE DEF p
    <3>2. \A k \in DOMAIN p : \E i \in T : p[k] = reply[i]
      BY <3>3 DEF PicksFrom
    <3> QED  BY <1>4, <2>3, <3>1, <3>2
  <2>5. Problem(reply[1].holds, question) = "none"
    BY <1>19, <2>4 DEF Saying
  <2> QED  BY <1>19, <2>2, <2>5
<1>20. Len(reply) > 1 => ~whole
  BY <1>2
<1>21. LastAnswerCounts(reply, question) <=>
         /\ answer \notin {"invalid", "unparsable"} => Problem(answer, question) # "problem"
         /\ with("none") # {} /\ Len(reply) > 1 => answer = objects[Max(with("none"))]
         /\ (\A i \in DOMAIN reply : reply[i].form \in {"cut", "prose", "closed"}) => answer = "unparsable"
         /\ Problem(answer, question) = "fallback" => with("none") = {}
  BY DEF LastAnswerCounts, answer, objects, Saying
<1> HIDE DEF with, whole
<1> QED  BY <1>16, <1>17, <1>18, <1>19, <1>20, <1>21

LEMMA UnitAnswersHold ==
    ASSUME NEW findings \in Seq(UnitAnswers), NEW allowed
    PROVE  UnitAnswerHolds(findings, allowed)
<1> DEFINE T == {i \in DOMAIN findings : findings[i].in # {}}
           L == Picked(findings, T)
           D == DOMAIN L
           same(j, i) == UnitOf(L[j]) = UnitOf(L[i]) /\ L[j].key = L[i].key
           kept(i) == \A j \in D : same(j, i) =>
                \/ L[i].rank < L[j].rank
                \/ L[i].rank = L[j].rank /\ i <= j
           made(i) == [unit |-> UnitOf(L[i]), key |-> L[i].key, rank |-> L[i].rank,
                       cve |-> IF L[i].cve \in allowed THEN L[i].cve ELSE "none"]
           out == UnitFindings(findings, allowed)
<1>1. out = {made(i) : i \in {k \in D : kept(k)}}
  BY DEF UnitFindings
<1>2. DOMAIN findings = 1..Len(findings) /\ Len(findings) \in Nat
  BY LenProperties
<1>3. T \subseteq 1..Len(findings)
  BY <1>2
<1>4. PicksFrom(L, findings, T)
  <2> HIDE DEF T
  <2> QED  BY <1>2, <1>3, PickedElements
<1>5. \A i \in DOMAIN findings : findings[i].in # {} => i \in T
  OBVIOUS
<1>6. \A i \in DOMAIN findings : findings[i].rank \in Nat
  BY <1>2, ElementOfSeq, SeveritiesAssumption
<1>7. T \subseteq DOMAIN findings
  OBVIOUS
<1> HIDE DEF out, L, T
<1>8. PICK m \in Nat : D = 1..m
  BY <1>4 DEF PicksFrom
<1>9. \A k \in D : L[k].rank \in Nat
  BY <1>4, <1>6, <1>7 DEF PicksFrom
<1>10. D \subseteq Nat
  BY <1>8
<1> HIDE DEF D
<1>11. ASSUME NEW f \in out, NEW g \in out, f.unit = g.unit, f.key = g.key PROVE f = g
  <2>1. PICK i \in D : kept(i) /\ f = made(i)
    BY <1>1
  <2>2. PICK j \in D : kept(j) /\ g = made(j)
    BY <1>1
  <2>3. f.unit = UnitOf(L[i]) /\ f.key = L[i].key /\ g.unit = UnitOf(L[j]) /\ g.key = L[j].key
    BY <2>1, <2>2
  <2>4. same(j, i) /\ same(i, j)
    BY <1>11, <2>3
  <2>5. L[i].rank \in Nat /\ L[j].rank \in Nat /\ i \in Nat /\ j \in Nat
    BY <1>9, <1>10
  <2>6. i = j
    <3>1. L[i].rank < L[j].rank \/ (L[i].rank = L[j].rank /\ i <= j)
      BY <2>1, <2>4
    <3>2. L[j].rank < L[i].rank \/ (L[j].rank = L[i].rank /\ j <= i)
      BY <2>2, <2>4
    <3> QED  BY ONLY <2>5, <3>1, <3>2
  <2> QED  BY <2>1, <2>2, <2>6
<1>12. ASSUME NEW i \in D
       PROVE  \E f \in out : f.unit = UnitOf(L[i]) /\ f.key = L[i].key /\ f.rank <= L[i].rank
  <2> DEFINE A == {j \in D : same(j, i)}
             R == {L[j].rank : j \in A}
  <2>1. i \in A
    OBVIOUS
  <2>2. PICK r \in R : \A y \in R : r <= y
    <3>1. R \subseteq Nat /\ R # {}
      BY <1>9, <2>1
    <3> HIDE DEF R
    <3> QED  BY <3>1, LeastOfSome
  <2> DEFINE B == {j \in A : L[j].rank = r}
  <2>3. PICK k \in B : \A y \in B : k <= y
    <3>1. B \subseteq Nat /\ B # {}
      BY <1>10, <2>2
    <3> HIDE DEF B
    <3> QED  BY <3>1, LeastOfSome
  <2>4. k \in D /\ same(k, i) /\ L[k].rank = r /\ r \in Nat
    BY <1>9, <2>3
  <2>5. kept(k)
    <3>1. SUFFICES ASSUME NEW j \in D, same(j, k)
                   PROVE  L[k].rank < L[j].rank \/ (L[k].rank = L[j].rank /\ k <= j)
      OBVIOUS
    <3>2. j \in A
      BY <2>4, <3>1
    <3>3. r <= L[j].rank /\ L[j].rank \in Nat
      BY <1>9, <2>2, <3>2
    <3>4. L[j].rank = r => k <= j
      BY <2>3, <3>2
    <3> QED  BY <2>4, <3>3, <3>4
  <2>6. made(k) \in out
    BY <1>1, <2>4, <2>5
  <2>7. r <= L[i].rank
    BY <2>1, <2>2
  <2>8. made(k).unit = UnitOf(L[i]) /\ made(k).key = L[i].key /\ made(k).rank = r
    BY <2>4
  <2> HIDE DEF made
  <2> QED  BY <2>6, <2>7, <2>8
<1>13. ASSUME NEW i \in DOMAIN findings, findings[i].in # {}
       PROVE  \E f \in out : /\ f.unit = UnitOf(findings[i]) /\ f.key = findings[i].key
                             /\ f.rank <= findings[i].rank
  <2>1. PICK k \in D : L[k] = findings[i]
    BY <1>4, <1>5, <1>13 DEF PicksFrom, D
  <2> QED  BY <1>12, <2>1
<1>14. \A f \in out : f.cve \in allowed \cup {"none"}
  BY <1>1
<1> QED  BY <1>11, <1>13, <1>14 DEF UnitAnswerHolds, out

------------------------------------------------------------------------------
(* The comparison of two versions (GuardDiff.tla).                         *)

\* What the feature of a construct is, wherever the construct stands.
IsFeatureOf(x, a, k, g, e, w, s) ==
    /\ \A l : FeaturesOf(x, l) = {Feature(a, k, g, e, w, s, x, l)}
    /\ w \in Nat /\ s \in Nat
    /\ a \in {"call", "block", "cond", "hazard", "safe", "flag", "flag_safe", "sql", "sql_safe"}

\* A construct has no feature on any line, or the same one on each.
HasOne(x) ==
    \/ \A l : FeaturesOf(x, l) = {}
    \/ \E a, k, g, e, w, s : IsFeatureOf(x, a, k, g, e, w, s)

LEMMA FeatureOfConstruct ==
    ASSUME NEW x \in Constructs
    PROVE  HasOne(x)
<1> USE ConstructsAssumption
<1>1. x.form \in {"block", "cond", "call", "api", "flag", "sql", "helper"} /\ x.weight \in Nat /\ x.swap \in Nat
  OBVIOUS
<1>2. CASE x.form = "block"
  <2>1. \A l : FeaturesOf(x, l) = BlockFeature(x, l)
    BY <1>2 DEF FeaturesOf
  <2>2. CASE x.exit = "none"
    <3>1. \A l : BlockFeature(x, l) = {}
      BY <2>2 DEF BlockFeature
    <3> QED  BY <2>1, <3>1 DEF HasOne
  <2>3. CASE x.exit # "none"
    <3>1. PICK kind : kind = BlockKind(x)
      OBVIOUS
    <3>2. PICK w : w = IF kind = "unclassified" THEN 0 ELSE Least(ExitWeight[x.exit] + KindBonus[kind], BlockCap)
      OBVIOUS
    <3>3. \A l : BlockFeature(x, l) = {Feature("block", kind, kind, <<x.exit, x.shape>>, w, w, x, l)}
      BY <2>3, <3>1, <3>2 DEF BlockFeature
    <3>4. w \in Nat
      <4>1. x.exit \in DOMAIN ExitWeight /\ (kind = "unclassified" \/ kind \in DOMAIN KindBonus)
        BY <1>2, <2>3, <3>1 DEF BlockKind, KindBonus
      <4>2. ExitWeight[x.exit] \in Nat
        BY <4>1 DEF ExitWeight
      <4>3. kind # "unclassified" => KindBonus[kind] \in Nat
        BY <4>1 DEF KindBonus
      <4>4. kind # "unclassified" => ExitWeight[x.exit] + KindBonus[kind] \in Nat
        BY <4>2, <4>3
      <4> QED  BY <3>2, <4>4 DEF Least, BlockCap
    <3>5. IsFeatureOf(x, "block", kind, kind, <<x.exit, x.shape>>, w, w)
      BY <2>1, <3>3, <3>4 DEF IsFeatureOf
    <3> QED  BY <3>5 DEF HasOne
  <2> QED  BY <2>2, <2>3
<1>3. CASE x.form = "cond"
  <2>1. \A l : FeaturesOf(x, l) = CondFeature(x, l)
    BY <1>3 DEF FeaturesOf
  <2>2. CASE ~(x.ordered /\ x.sized /\ ~x.guards)
    <3>1. \A l : CondFeature(x, l) = {}
      BY <2>2 DEF CondFeature
    <3> QED  BY <2>1, <3>1 DEF HasOne
  <2>3. CASE x.ordered /\ x.sized /\ ~x.guards
    <3>1. \A l : CondFeature(x, l) = {Feature("cond", "bounds_check", "bounds_check", <<x.shape>>, CondWeight,
                                              CondWeight, x, l)}
      BY <2>3 DEF CondFeature
    <3>2. IsFeatureOf(x, "cond", "bounds_check", "bounds_check", <<x.shape>>, CondWeight, CondWeight)
      BY <2>1, <3>1 DEF IsFeatureOf, CondWeight
    <3> QED  BY <3>2 DEF HasOne
  <2> QED  BY <2>2, <2>3
<1>4. CASE x.form = "call"
  <2>1. \A l : FeaturesOf(x, l) = CallFeature(x, l)
    BY <1>4 DEF FeaturesOf
  <2>2. PICK kind : kind = CASE x.kind # "none" -> x.kind
                             [] x.kind = "none" /\ x.replaces -> "sanitiser"
                             [] x.kind = "none" /\ ~x.replaces -> "none"
    OBVIOUS
  <2>3. PICK w : w = IF x.kind = "none" THEN ReplaceWeight ELSE CallWeight[x.kind]
    OBVIOUS
  <2>4. \A l : CallFeature(x, l) = {Feature("call", kind, kind, <<x.name>>, w, w, x, l) : y \in {kind} \ {"none"}}
    BY <2>2, <2>3 DEF CallFeature
  <2>5. w \in Nat
    <3>1. x.kind \in DOMAIN CallWeight \cup {"none"}
      BY <1>4
    <3> QED  BY <2>3, <3>1 DEF CallWeight, ReplaceWeight
  <2>6. CASE kind = "none"
    <3>1. \A l : CallFeature(x, l) = {}
      BY <2>4, <2>6
    <3> QED  BY <2>1, <3>1 DEF HasOne
  <2>7. CASE kind # "none"
    <3>1. \A l : CallFeature(x, l) = {Feature("call", kind, kind, <<x.name>>, w, w, x, l)}
      BY <2>4, <2>7
    <3>2. IsFeatureOf(x, "call", kind, kind, <<x.name>>, w, w)
      BY <2>1, <2>5, <3>1 DEF IsFeatureOf
    <3> QED  BY <3>2 DEF HasOne
  <2> QED  BY <2>6, <2>7
<1>5. CASE x.form = "api"
  <2>1. \A l : FeaturesOf(x, l) = ApiFeature(x, l)
    BY <1>5 DEF FeaturesOf
  <2>2. CASE x.safe
    <3>1. IsFeatureOf(x, "safe", x.kind, x.group, <<x.group>>, 0, x.swap)
      BY <1>1, <2>1, <2>2 DEF ApiFeature, IsFeatureOf
    <3> QED  BY <3>1 DEF HasOne
  <2>3. CASE ~x.safe
    <3>1. IsFeatureOf(x, "hazard", x.kind, x.group, <<x.group>>, x.weight, x.swap)
      BY <1>1, <2>1, <2>3 DEF ApiFeature, IsFeatureOf
    <3> QED  BY <3>1 DEF HasOne
  <2> QED  BY <2>2, <2>3
<1>6. CASE x.form = "flag"
  <2>1. \A l : FeaturesOf(x, l) = FlagFeature(x, l)
    BY <1>6 DEF FeaturesOf
  <2> DEFINE cap(w) == IF x.inSignature THEN Least(w, SignatureCap) ELSE w
             alone == IF x.defaultSafe THEN 0 ELSE x.weight
             key == <<x.inSignature, x.name>>
  <2>2. \A w \in Nat : cap(w) \in Nat
    BY DEF Least, SignatureCap
  <2>3. cap(alone) \in Nat /\ cap(x.weight) \in Nat
    BY <1>1, <2>2
  <2>4. \A l : FlagFeature(x, l) =
            IF x.safe THEN {Feature("flag_safe", x.kind, x.name, key, cap(alone), cap(x.weight), x, l)}
            ELSE {Feature("flag", x.kind, x.name, key, cap(x.weight), cap(x.weight), x, l)}
    BY DEF FlagFeature
  <2>5. PICK c, d : c = cap(alone) /\ d = cap(x.weight)
    OBVIOUS
  <2> HIDE DEF cap, alone
  <2>6. CASE x.safe
    <3>1. IsFeatureOf(x, "flag_safe", x.kind, x.name, key, c, d)
      BY <2>1, <2>3, <2>4, <2>5, <2>6 DEF IsFeatureOf
    <3> QED  BY <3>1 DEF HasOne
  <2>7. CASE ~x.safe
    <3>1. IsFeatureOf(x, "flag", x.kind, x.name, key, d, d)
      BY <2>1, <2>3, <2>4, <2>5, <2>7 DEF IsFeatureOf
    <3> QED  BY <3>1 DEF HasOne
  <2> QED  BY <2>6, <2>7
<1>7. CASE x.form = "sql"
  <2>1. \A l : FeaturesOf(x, l) = SqlFeature(x, l)
    BY <1>7 DEF FeaturesOf
  <2>2. CASE x.interpolated
    <3>1. IsFeatureOf(x, "sql", "sql_param", "sql", <<"interp">>, SqlAlone, SqlSwap)
      BY <2>1, <2>2 DEF SqlFeature, IsFeatureOf, SqlAlone, SqlSwap
    <3> QED  BY <3>1 DEF HasOne
  <2>3. CASE ~x.interpolated /\ x.placeholder
    <3>1. IsFeatureOf(x, "sql_safe", "sql_param", "sql", <<"placeholder">>, 0, SqlSwap)
      BY <2>1, <2>3 DEF SqlFeature, IsFeatureOf, SqlSwap
    <3> QED  BY <3>1 DEF HasOne
  <2>4. CASE ~x.interpolated /\ ~x.placeholder
    <3>1. \A l : FeaturesOf(x, l) = {}
      BY <2>1, <2>4 DEF SqlFeature
    <3> QED  BY <3>1 DEF HasOne
  <2> QED  BY <2>2, <2>3, <2>4
<1>8. CASE x.form = "helper"
  <2>1. \A l : FeaturesOf(x, l) = {}
    BY <1>8 DEF FeaturesOf
  <2> QED  BY <2>1 DEF HasOne
<1> QED  BY <1>1, <1>2, <1>3, <1>4, <1>5, <1>6, <1>7, <1>8

\* What is said of one feature of a version.
IsOf(f, code) ==
    /\ f.line \in DOMAIN code /\ f \in FeaturesOf(code[f.line], f.line)
    /\ f.weight \in Nat /\ f.swap \in Nat
    /\ f.family \in {"call", "block", "cond", "hazard", "safe", "flag", "flag_safe", "sql", "sql_safe"}

\* The places of a version whose construct has a feature of a family and key.
KeyOf(f) == <<f.family, f.key>>
KeysAt(x) == {KeyOf(f) : f \in FeaturesOf(x, 0)}
KeyPlaces(code, key) == {i \in DOMAIN code : key \in KeysAt(code[i])}

LEMMA FeatureAt ==
    ASSUME NEW x \in Constructs, NEW l, NEW f \in FeaturesOf(x, l)
    PROVE  /\ f.line = l /\ f.weight \in Nat /\ f.swap \in Nat
           /\ f.family \in {"call", "block", "cond", "hazard", "safe", "flag", "flag_safe", "sql", "sql_safe"}
           /\ KeysAt(x) = {KeyOf(f)}
           /\ FeaturesOf(x, l) = {f}
<1>1. PICK a, k, g, e, w, s : IsFeatureOf(x, a, k, g, e, w, s)
  BY FeatureOfConstruct DEF HasOne
<1>2. f = Feature(a, k, g, e, w, s, x, l) /\ FeaturesOf(x, l) = {f} /\ w \in Nat /\ s \in Nat
      /\ a \in {"call", "block", "cond", "hazard", "safe", "flag", "flag_safe", "sql", "sql_safe"}
  BY <1>1 DEF IsFeatureOf
<1>3. f.line = l /\ f.weight = w /\ f.swap = s /\ f.family = a /\ f.key = e
  BY <1>2 DEF Feature
<1>4. KeysAt(x) = {KeyOf(Feature(a, k, g, e, w, s, x, 0))}
  BY <1>1 DEF IsFeatureOf, KeysAt
<1>5. KeyOf(Feature(a, k, g, e, w, s, x, 0)) = <<a, e>>
  BY DEF KeyOf, Feature
<1>6. KeyOf(f) = <<a, e>>
  BY <1>3 DEF KeyOf
<1> QED  BY <1>2, <1>3, <1>4, <1>5, <1>6

LEMMA KeyAt ==
    ASSUME NEW x \in Constructs, NEW l, NEW key \in KeysAt(x)
    PROVE  \E f \in FeaturesOf(x, l) : KeyOf(f) = key
<1>1. FeaturesOf(x, 0) # {}
  BY DEF KeysAt
<1>2. PICK a, k, g, e, w, s : IsFeatureOf(x, a, k, g, e, w, s)
  BY <1>1, FeatureOfConstruct DEF HasOne
<1>3. FeaturesOf(x, l) # {}
  BY <1>2 DEF IsFeatureOf
<1>4. PICK f : f \in FeaturesOf(x, l)
  BY <1>3
<1>5. KeysAt(x) = {KeyOf(f)}
  BY <1>4, FeatureAt
<1> QED  BY <1>4, <1>5

LEMMA FeatureIsOf ==
    ASSUME NEW code \in Seq(Constructs), NEW f
    PROVE  f \in Features(code) <=> IsOf(f, code)
<1>1. \A i \in DOMAIN code : code[i] \in Constructs
  BY ElementOfSeq, LenProperties
<1>2. ASSUME f \in Features(code) PROVE IsOf(f, code)
  <2>1. PICK i \in DOMAIN code : f \in FeaturesOf(code[i], i)
    BY <1>2 DEF Features
  <2> QED  BY <1>1, <2>1, FeatureAt DEF IsOf
<1>3. ASSUME IsOf(f, code) PROVE f \in Features(code)
  BY <1>3 DEF IsOf, Features
<1> QED  BY <1>2, <1>3

\* A version has as many features of a family and key as places with one, one on each line.
LEMMA SameAreOfPlaces ==
    ASSUME NEW code \in Seq(Constructs), NEW f
    PROVE  /\ IsFiniteSet(Same(Features(code), f)) /\ IsFiniteSet(KeyPlaces(code, KeyOf(f)))
           /\ Cardinality(Same(Features(code), f)) = Cardinality(KeyPlaces(code, KeyOf(f)))
           /\ \A g, h \in Same(Features(code), f) : g.line = h.line => g = h
           /\ \A g \in Same(Features(code), f) : g.line \in KeyPlaces(code, KeyOf(f))
           /\ \A i \in KeyPlaces(code, KeyOf(f)) : \E g \in Same(Features(code), f) : g.line = i
<1> DEFINE S == Same(Features(code), f)
           P == KeyPlaces(code, KeyOf(f))
           at == [i \in P |-> CHOOSE g \in S : g.line = i]
<1>1. \A i \in DOMAIN code : code[i] \in Constructs
  BY ElementOfSeq, LenProperties
<1>2. \A g : g \in S <=> IsOf(g, code) /\ KeyOf(g) = KeyOf(f)
  BY FeatureIsOf DEF Same, KeyOf
<1>3. ASSUME NEW g \in S, NEW h \in S, g.line = h.line PROVE g = h
  <2>1. g \in FeaturesOf(code[g.line], g.line) /\ h \in FeaturesOf(code[g.line], g.line) /\ g.line \in DOMAIN code
    BY <1>2, <1>3 DEF IsOf
  <2>2. code[g.line] \in Constructs
    BY <1>1, <2>1
  <2>3. FeaturesOf(code[g.line], g.line) = {g}
    BY <2>1, <2>2, FeatureAt
  <2> QED  BY <2>1, <2>3
<1>4. ASSUME NEW g \in S PROVE g.line \in P
  <2>1. g \in FeaturesOf(code[g.line], g.line) /\ g.line \in DOMAIN code /\ KeyOf(g) = KeyOf(f)
    BY <1>2 DEF IsOf
  <2>2. code[g.line] \in Constructs
    BY <1>1, <2>1
  <2>3. KeysAt(code[g.line]) = {KeyOf(g)}
    BY <2>1, <2>2, FeatureAt
  <2> QED  BY <2>1, <2>3 DEF KeyPlaces
<1>5. ASSUME NEW i \in P PROVE \E g \in S : g.line = i
  <2>1. i \in DOMAIN code /\ code[i] \in Constructs /\ KeyOf(f) \in KeysAt(code[i])
    BY <1>1 DEF KeyPlaces
  <2>2. PICK g \in FeaturesOf(code[i], i) : KeyOf(g) = KeyOf(f)
    BY <2>1, KeyAt
  <2>3. g.line = i /\ IsOf(g, code)
    BY <2>1, <2>2, FeatureAt DEF IsOf
  <2> QED  BY <1>2, <2>2, <2>3
<1>6. IsFiniteSet(P)
  <2>1. IsFiniteSet(DOMAIN code)
    BY LenProperties, FS_Interval
  <2>2. P \in SUBSET DOMAIN code
    BY DEF KeyPlaces
  <2> HIDE DEF P
  <2> QED  BY <2>1, <2>2, FS_Subset
<1> HIDE DEF S, P
<1>7. \A i \in P : at[i] \in S /\ at[i].line = i
  BY <1>5
<1> HIDE DEF at
<1>8. IsFiniteSet(S) /\ Cardinality(S) = Cardinality(P)
  <2>1. \A i \in P : at[i] \in S
    BY <1>7
  <2>2. \A i, j \in P : at[i] = at[j] => i = j
    BY <1>7
  <2>3. \A g \in S : \E i \in P : at[i] = g
    BY <1>3, <1>4, <1>7
  <2> QED  BY <1>6, <2>1, <2>2, <2>3, SameSize
<1> QED  BY <1>3, <1>4, <1>5, <1>6, <1>8 DEF S, P

\* Which features are left when equal ones are dropped.
LEMMA LeftOver ==
    ASSUME NEW A \in Seq(Constructs), NEW B \in Seq(Constructs), NEW f \in Features(A)
    PROVE  /\ Cardinality(KeyPlaces(A, KeyOf(f))) <= Cardinality(KeyPlaces(B, KeyOf(f)))
                => f \notin Uncommon(Features(A), Features(B))
           /\ Cardinality(KeyPlaces(A, KeyOf(f))) = Cardinality(KeyPlaces(B, KeyOf(f))) + 1
                => (f \in Uncommon(Features(A), Features(B))
                        <=> \A h \in Same(Features(A), f) : h.line <= f.line)
<1> DEFINE S == Same(Features(A), f)
           U == {g \in S : g.line <= f.line}
           a == Cardinality(KeyPlaces(A, KeyOf(f)))
           b == Cardinality(KeyPlaces(B, KeyOf(f)))
<1>1. f \in Uncommon(Features(A), Features(B)) <=> Cardinality(U) > b
  <2>1. Cardinality(Same(Features(B), f)) = b
    BY SameAreOfPlaces
  <2> QED  BY <2>1 DEF Uncommon
<1>2. IsFiniteSet(S) /\ Cardinality(S) = a /\ a \in Nat /\ b \in Nat
  BY SameAreOfPlaces, FS_CardinalityType
<1>3. U \in SUBSET S
  OBVIOUS
<1> HIDE DEF S
<1>4. IsFiniteSet(U) /\ Cardinality(U) <= a /\ Cardinality(U) \in Nat /\ (Cardinality(U) = a => U = S)
  <2> HIDE DEF U
  <2>1. IsFiniteSet(U) /\ Cardinality(U) <= Cardinality(S) /\ (Cardinality(S) = Cardinality(U) => S = U)
    BY <1>2, <1>3, FS_Subset
  <2>2. Cardinality(U) \in Nat
    BY <2>1, FS_CardinalityType
  <2> QED  BY <1>2, <2>1, <2>2
<1>5. U = S <=> \A h \in S : h.line <= f.line
  OBVIOUS
<1>6. U = S => Cardinality(U) = a
  BY <1>2
<1> HIDE DEF U, a, b
<1>7. a <= b => f \notin Uncommon(Features(A), Features(B))
  BY <1>1, <1>2, <1>4
<1>8. a = b + 1 => (f \in Uncommon(Features(A), Features(B)) <=> \A h \in S : h.line <= f.line)
  BY <1>1, <1>2, <1>4, <1>5, <1>6
<1> QED  BY <1>7, <1>8 DEF S, a, b

LEMMA NothingLeft ==
    ASSUME NEW old, NEW new,
           Uncommon(Features(old), Features(new)) = {}, Uncommon(Features(new), Features(old)) = {}
    PROVE  Changes(old, new) = {}
<1>1. GroupsOf({} \cup {}) = {}
  BY DEF GroupsOf
<1>2. TwinGroups({} \cup {}) = {} /\ GuardGroups({} \cup {}) = {}
  BY <1>1 DEF TwinGroups, GuardGroups
<1>3. TwinPart({}, {}) = {} /\ \A gone, came : GuardPart({}, {}, gone, came) = {}
  BY <1>2 DEF TwinPart, GuardPart
<1> QED  BY <1>3 DEF Changes

LEMMA UncommonIsPart ==
    ASSUME NEW F, NEW G
    PROVE  Uncommon(F, G) \subseteq F
BY DEF Uncommon

\* Code that only moved is silent.
LEMMA MovedSilent ==
    ASSUME NEW old \in Seq(Constructs), NEW new \in Seq(Constructs)
    PROVE  MovedIsSilent(old, new)
<1>1. SUFFICES ASSUME NEW p \in Bijection(DOMAIN old, DOMAIN new),
                      \A i \in DOMAIN old :
                        {<<f.family, f.key>> : f \in FeaturesOf(old[i], 0)}
                            = {<<f.family, f.key>> : f \in FeaturesOf(new[p[i]], 0)}
               PROVE  Changes(old, new) = {}
  BY DEF MovedIsSilent
<1>2. \A i \in DOMAIN old : KeysAt(old[i]) = KeysAt(new[p[i]])
  BY <1>1 DEF KeysAt, KeyOf
<1>3. /\ \A i \in DOMAIN old : p[i] \in DOMAIN new
      /\ \A i, j \in DOMAIN old : p[i] = p[j] => i = j
      /\ \A j \in DOMAIN new : \E i \in DOMAIN old : p[i] = j
  BY DEF Bijection, Injection, IsInjective, Surjection
<1>4. ASSUME NEW f PROVE Cardinality(KeyPlaces(old, KeyOf(f))) = Cardinality(KeyPlaces(new, KeyOf(f)))
  <2> DEFINE P == KeyPlaces(old, KeyOf(f))
             Q == KeyPlaces(new, KeyOf(f))
  <2>1. \A i \in P : p[i] \in Q
    BY <1>2, <1>3 DEF KeyPlaces
  <2>2. \A i, j \in P : p[i] = p[j] => i = j
    BY <1>3 DEF KeyPlaces
  <2>3. \A j \in Q : \E i \in P : p[i] = j
    BY <1>2, <1>3 DEF KeyPlaces
  <2>4. IsFiniteSet(P)
    BY SameAreOfPlaces
  <2> HIDE DEF P, Q
  <2>5. Cardinality(Q) = Cardinality(P)
    BY <2>1, <2>2, <2>3, <2>4, SameSize
  <2> QED  BY <2>5 DEF P, Q
<1>5. ASSUME NEW f PROVE Cardinality(KeyPlaces(old, KeyOf(f))) \in Nat
  BY SameAreOfPlaces, FS_CardinalityType
<1>6. Uncommon(Features(old), Features(new)) = {}
  <2>1. \A f \in Features(old) : Cardinality(KeyPlaces(old, KeyOf(f))) <= Cardinality(KeyPlaces(new, KeyOf(f)))
    BY <1>4, <1>5
  <2> QED  BY <2>1, LeftOver, UncommonIsPart
<1>7. Uncommon(Features(new), Features(old)) = {}
  <2>1. \A f \in Features(new) : Cardinality(KeyPlaces(new, KeyOf(f))) <= Cardinality(KeyPlaces(old, KeyOf(f)))
    BY <1>4, <1>5
  <2> QED  BY <2>1, LeftOver, UncommonIsPart
<1> QED  BY <1>6, <1>7, NothingLeft

LEMMA PlacesWithout ==
    ASSUME NEW code \in Seq(Constructs), NEW i \in 1..Len(code), NEW f
    PROVE  Cardinality(KeyPlaces(RemoveAt(code, i), KeyOf(f))) = Cardinality(KeyPlaces(code, KeyOf(f)) \ {i})
<1> DEFINE r == RemoveAt(code, i)
           n == Len(code)
           P == KeyPlaces(r, KeyOf(f))
           Q == KeyPlaces(code, KeyOf(f)) \ {i}
           g == [k \in P |-> IF k < i THEN k ELSE k + 1]
<1>1. /\ r \in Seq(Constructs) /\ Len(r) = n - 1 /\ DOMAIN r = 1..(n - 1) /\ DOMAIN code = 1..n /\ n \in Nat
      /\ \A k \in 1..(n - 1) : r[k] = code[IF k < i THEN k ELSE k + 1]
  BY WithoutOne, LenProperties
<1>2. i \in Int /\ i >= 1 /\ i <= n
  BY <1>1
<1>3. P = {k \in 1..(n - 1) : KeyOf(f) \in KeysAt(r[k])}
  BY <1>1 DEF KeyPlaces
<1>4. Q = {k \in 1..n : KeyOf(f) \in KeysAt(code[k]) /\ k # i}
  BY <1>1 DEF KeyPlaces
<1>5. IsFiniteSet(P)
  BY <1>1, SameAreOfPlaces
<1> HIDE DEF P, Q, r, n
<1>6. ASSUME NEW k \in P PROVE g[k] \in Q /\ k \in Int /\ g[k] = IF k < i THEN k ELSE k + 1
  <2>1. k \in 1..(n - 1) /\ KeyOf(f) \in KeysAt(r[k]) /\ r[k] = code[IF k < i THEN k ELSE k + 1]
    BY <1>1, <1>3
  <2>2. g[k] = (IF k < i THEN k ELSE k + 1) /\ g[k] \in 1..n /\ g[k] # i
    BY <1>1, <1>2, <2>1
  <2> HIDE DEF g
  <2>3. KeyOf(f) \in KeysAt(code[g[k]])
    BY <2>1, <2>2
  <2> QED  BY <1>4, <2>1, <2>2, <2>3
<1>7. ASSUME NEW y \in Q PROVE \E k \in P : g[k] = y
  <2> DEFINE k == IF y < i THEN y ELSE y - 1
  <2>1. y \in 1..n /\ y # i /\ KeyOf(f) \in KeysAt(code[y])
    BY <1>4
  <2>2. k \in 1..(n - 1) /\ (IF k < i THEN k ELSE k + 1) = y
    BY <1>1, <1>2, <2>1
  <2> HIDE DEF k
  <2>3. k \in P
    BY <1>1, <1>3, <2>1, <2>2
  <2> QED  BY <2>2, <2>3
<1>8. \A j, k \in P : g[j] = g[k] => j = k
  BY <1>2, <1>6
<1> HIDE DEF g
<1>9. Cardinality(Q) = Cardinality(P)
  BY <1>5, <1>6, <1>7, <1>8, SameSize
<1> QED  BY <1>9 DEF P, Q, r

LEMMA RepresentativesOfOne ==
    ASSUME NEW g, g.line \in Int
    PROVE  /\ \A n : Representatives({}, n) = {}
           /\ Representatives({g}, 1) = {g} /\ Representatives({g}, 0) = {}
<1>1. {h \in {g} : h.line <= g.line} = {g}
  OBVIOUS
<1>2. Cardinality({g}) = 1
  BY FS_Singleton
<1>3. \A n : Representatives({g}, n) = {f \in {g} : 1 <= n}
  BY <1>1, <1>2 DEF Representatives
<1> QED  BY <1>3 DEF Representatives

DirectionOf(g) ==
    CASE g.family \in {"call", "block", "cond"} -> "removed"
      [] g.family \in DOMAIN TwinFamily -> "strengthened"
      [] OTHER -> "weakened"
Told(g) == {Change(DirectionOf(g), h, h.weight) : h \in {x \in {g} : x.weight > 0}}

LEMMA GroupOfOne ==
    ASSUME NEW g, NEW k
    PROVE  InGroup({}, k) = {} /\ InGroup({g}, k) = IF GroupOf(g) = k THEN {g} ELSE {}
BY DEF InGroup

LEMMA AloneOfOne ==
    ASSUME NEW g, g.line \in Int, NEW d
    PROVE  /\ \A n : Alone(d, {}, n) = {}
           /\ Alone(d, {g}, 0) = {}
           /\ Alone(d, {g}, 1) = {Change(d, h, h.weight) : h \in {x \in {g} : x.weight > 0}}
<1> DEFINE R == Representatives({g}, 1)
<1>1. R = {g} /\ Representatives({g}, 0) = {} /\ \A n : Representatives({}, n) = {}
  BY RepresentativesOfOne
<1>2. /\ \A n : Alone(d, {}, n) = {}
      /\ Alone(d, {g}, 0) = {}
  BY <1>1 DEF Alone
<1>3. Alone(d, {g}, 1) = {Change(d, h, h.weight) : h \in {x \in R : x.weight > 0}}
  BY DEF Alone
<1> HIDE DEF R
<1> QED  BY <1>1, <1>2, <1>3

LEMMA Negated ==
    ASSUME NEW n \in Int
    PROVE  -n \in Int /\ -n = 0 - n
OBVIOUS

\* Of two numbers of which one is less by one and the other is not.
LEMMA OneLess ==
    ASSUME NEW a, a = 0 - 1, NEW b, b = 0
    PROVE  /\ Swaps(a, -b) = 0 /\ Swaps(-a, b) = 0 /\ Swaps(b, -a) = 0 /\ Swaps(-b, a) = 0
           /\ Plus(a) = 0 /\ Plus(-a) = 1 /\ Plus(b) = 0 /\ Plus(-b) = 0
<1>1. a \in Int /\ b \in Int
  OBVIOUS
<1>2. -a = 1 /\ -b = 0
  <2>1. -a = 0 - a /\ -b = 0 - b
    BY <1>1, Negated
  <2>2. 0 - a = 1 /\ 0 - b = 0
    OBVIOUS
  <2> QED  BY <2>1, <2>2
<1>3. PICK c, d : c = -a /\ d = -b
  OBVIOUS
<1>4. c = 1 /\ d = 0
  BY <1>2, <1>3
<1>5. /\ Swaps(a, d) = 0 /\ Swaps(c, b) = 0 /\ Swaps(b, c) = 0 /\ Swaps(d, a) = 0
      /\ Plus(a) = 0 /\ Plus(c) = 1 /\ Plus(b) = 0 /\ Plus(d) = 0
  BY ONLY <1>1, <1>4, a = 0 - 1, b = 0 DEF Swaps, Plus, Least
<1> QED  BY <1>3, <1>5

\* A hazard that went, and a safe form that went.
LEMMA HazardGone ==
    ASSUME NEW g, g.line \in Int, NEW t \in {"hazard", "flag", "sql"}, g.family = t
    PROVE  TwinChanges({g}, {}, GroupOf(g)) = {Change("strengthened", h, h.weight) : h \in {x \in {g} : x.weight > 0}}
<1> DEFINE k == GroupOf(g)
           safe == <<TwinFamily[k[1]], k[2], k[3]>>
<1>1. k = <<t, g.kind, g.group>> /\ k[1] = t
  BY DEF GroupOf
<1>2. safe # k
  BY <1>1 DEF TwinFamily
<1> HIDE DEF k, safe
<1>3. /\ InGroup({g}, k) = {g} /\ InGroup({}, k) = {} /\ InGroup({g}, safe) = {} /\ InGroup({}, safe) = {}
  BY <1>2, GroupOfOne DEF k
<1> DEFINE dH == Cardinality(InGroup({}, k)) - Cardinality(InGroup({g}, k))
           dS == Cardinality(InGroup({}, safe)) - Cardinality(InGroup({g}, safe))
<1>4. dH = 0 - 1 /\ dS = 0
  <2>1. Cardinality({}) = 0 /\ Cardinality({g}) = 1
    BY NoneAndOne
  <2>2. /\ Cardinality(InGroup({}, k)) = 0 /\ Cardinality(InGroup({}, safe)) = 0
        /\ Cardinality(InGroup({g}, k)) = 1 /\ Cardinality(InGroup({g}, safe)) = 0
    BY <1>3, <2>1
  <2> QED  BY <2>2
<1> HIDE DEF dH, dS
<1>5. /\ Swaps(dH, -dS) = 0 /\ Swaps(-dH, dS) = 0 /\ Plus(dH) - 0 = 0 /\ Plus(-dH) - 0 = 1
      /\ Plus(-dS) - 0 = 0 /\ Plus(dS) - 0 = 0
  BY <1>4, OneLess
<1>6. TwinChanges({g}, {}, k) =
        {Change("weakened", f, f.swap) : f \in Representatives({}, 0)}
       \cup {Change("strengthened", f, f.swap) : f \in Representatives({g}, 0)}
       \cup Alone("weakened", {}, 0)
       \cup Alone("strengthened", {g}, 1)
       \cup Alone("weakened", {}, 0)
       \cup Alone("strengthened", {}, 0)
  BY <1>3, <1>5 DEF TwinChanges, safe, dH, dS
<1>7. /\ Representatives({}, 0) = {} /\ Representatives({g}, 0) = {}
      /\ Alone("weakened", {}, 0) = {} /\ Alone("strengthened", {}, 0) = {}
      /\ Alone("strengthened", {g}, 1) = {Change("strengthened", h, h.weight) : h \in {x \in {g} : x.weight > 0}}
  <2>1. /\ Representatives({}, 0) = {} /\ Representatives({g}, 0) = {}
        /\ Alone("weakened", {}, 0) = {} /\ Alone("strengthened", {}, 0) = {}
    BY RepresentativesOfOne, AloneOfOne
  <2>2. Alone("strengthened", {g}, 1) = {Change("strengthened", h, h.weight) : h \in {x \in {g} : x.weight > 0}}
    BY AloneOfOne
  <2> QED  BY <2>1, <2>2
<1>8. TwinChanges({g}, {}, k) = Alone("strengthened", {g}, 1)
  BY <1>6, <1>7
<1> QED  BY <1>7, <1>8 DEF k

LEMMA SafeGone ==
    ASSUME NEW g, g.line \in Int, NEW t \in {"hazard", "flag", "sql"}, g.family = TwinFamily[t]
    PROVE  TwinChanges({g}, {}, <<t, g.kind, g.group>>)
             = {Change("weakened", h, h.weight) : h \in {x \in {g} : x.weight > 0}}
<1> DEFINE k == <<t, g.kind, g.group>>
           safe == <<TwinFamily[k[1]], k[2], k[3]>>
<1>1. safe = GroupOf(g) /\ safe = <<TwinFamily[t], g.kind, g.group>> /\ safe # k
  BY DEF GroupOf, TwinFamily
<1> HIDE DEF k, safe
<1>3. /\ InGroup({g}, safe) = {g} /\ InGroup({}, k) = {} /\ InGroup({g}, k) = {} /\ InGroup({}, safe) = {}
  BY <1>1, GroupOfOne
<1> DEFINE dH == Cardinality(InGroup({}, k)) - Cardinality(InGroup({g}, k))
           dS == Cardinality(InGroup({}, safe)) - Cardinality(InGroup({g}, safe))
<1>4. dH = 0 /\ dS = 0 - 1
  <2>1. Cardinality({}) = 0 /\ Cardinality({g}) = 1
    BY NoneAndOne
  <2>2. /\ Cardinality(InGroup({}, k)) = 0 /\ Cardinality(InGroup({}, safe)) = 0
        /\ Cardinality(InGroup({g}, k)) = 0 /\ Cardinality(InGroup({g}, safe)) = 1
    BY <1>3, <2>1
  <2> QED  BY <2>2
<1> HIDE DEF dH, dS
<1>5. /\ Swaps(dH, -dS) = 0 /\ Swaps(-dH, dS) = 0 /\ Plus(dH) - 0 = 0 /\ Plus(-dH) - 0 = 0
      /\ Plus(-dS) - 0 = 1 /\ Plus(dS) - 0 = 0
  BY <1>4, OneLess
<1>6. TwinChanges({g}, {}, k) =
        {Change("weakened", f, f.swap) : f \in Representatives({}, 0)}
       \cup {Change("strengthened", f, f.swap) : f \in Representatives({}, 0)}
       \cup Alone("weakened", {}, 0)
       \cup Alone("strengthened", {}, 0)
       \cup Alone("weakened", {g}, 1)
       \cup Alone("strengthened", {}, 0)
  BY <1>3, <1>5 DEF TwinChanges, safe, dH, dS
<1>7. /\ Representatives({}, 0) = {} 
      /\ Alone("weakened", {}, 0) = {} /\ Alone("strengthened", {}, 0) = {}
      /\ Alone("weakened", {g}, 1) = {Change("weakened", h, h.weight) : h \in {x \in {g} : x.weight > 0}}
  <2>1. /\ Representatives({}, 0) = {} /\ Alone("weakened", {}, 0) = {} /\ Alone("strengthened", {}, 0) = {}
    BY RepresentativesOfOne, AloneOfOne
  <2>2. Alone("weakened", {g}, 1) = {Change("weakened", h, h.weight) : h \in {x \in {g} : x.weight > 0}}
    BY AloneOfOne
  <2> QED  BY <2>1, <2>2
<1>8. TwinChanges({g}, {}, k) = Alone("weakened", {g}, 1)
  BY <1>6, <1>7
<1> QED  BY <1>7, <1>8 DEF k

LEMMA GuardGone ==
    ASSUME NEW g, g.line \in Int, NEW came
    PROVE  GuardChanges({g}, {}, GroupOf(g), {}, came)
             = {Change("removed", h, h.weight) : h \in {x \in {g} : x.weight > 0}}
<1> DEFINE k == GroupOf(g)
<1>1. InGroup({g}, k) = {g} /\ InGroup({}, k) = {}
  BY GroupOfOne
<1> HIDE DEF k
<1> DEFINE d == Cardinality(InGroup({}, k)) - Cardinality(InGroup({g}, k))
<1>2. d = 0 - 1
  BY <1>1, OneFewer, ZenonT(30)
<1> HIDE DEF d
<1>3. Plus(-d) = 1 /\ Plus(d) = 0
  BY <1>2, OneLess
<1>4. \A f : Discounted(f, {}) = f.weight
  BY DEF Discounted
<1>5. GuardChanges({g}, {}, k, {}, came) =
        {Change("removed", f, Discounted(f, {})) : f \in {x \in Representatives({g}, 1) : x.weight > 0}}
        \cup {Change("added", f, Discounted(f, came)) : f \in {x \in Representatives({}, 0) : x.weight > 0}}
  BY <1>1, <1>3 DEF GuardChanges, d
<1>6. Representatives({}, 0) = {} /\ Representatives({g}, 1) = {g}
  BY RepresentativesOfOne
<1>7. GuardChanges({g}, {}, k, {}, came) =
        {Change("removed", f, Discounted(f, {})) : f \in {x \in {g} : x.weight > 0}}
  BY <1>5, <1>6
<1>8. {Change("removed", f, Discounted(f, {})) : f \in {x \in {g} : x.weight > 0}}
        = {Change("removed", h, h.weight) : h \in {x \in {g} : x.weight > 0}}
  BY <1>4
<1> QED  BY <1>7, <1>8 DEF k

Differences(O, N, gone, came) == TwinPart(O, N) \cup GuardPart(O, N, gone, came)

LEMMA ChangesAre ==
    ASSUME NEW old, NEW new
    PROVE  Changes(old, new) =
             Differences(Uncommon(Features(old), Features(new)), Uncommon(Features(new), Features(old)),
                         NewHelpers(old, new), NewHelpers(new, old))
BY DEF Changes, Differences

\* What is told when one feature is all that went.
LEMMA OneGone ==
    ASSUME NEW g, g.line \in Int, NEW came,
           g.family \in {"call", "block", "cond", "hazard", "safe", "flag", "flag_safe", "sql", "sql_safe"}
    PROVE  Differences({g}, {}, {}, came) = Told(g)
<1> DEFINE one == {g} \cup {}
           own == GroupOf(g)
           P == TwinPart({g}, {})
           Q == GuardPart({g}, {}, {}, came)
<1>1. one = {g} /\ GroupsOf(one) = {own} /\ own = <<g.family, g.kind, g.group>> /\ own[1] = g.family /\ own[2] = g.kind /\ own[3] = g.group
  BY DEF GroupsOf, GroupOf
<1>2. TwinFamily = [hazard |-> "safe", flag |-> "flag_safe", sql |-> "sql_safe"]
      /\ DOMAIN TwinFamily = {"hazard", "flag", "sql"}
      /\ TwinFamily["hazard"] = "safe" /\ TwinFamily["flag"] = "flag_safe" /\ TwinFamily["sql"] = "sql_safe"
  BY DEF TwinFamily
<1>3. Differences({g}, {}, {}, came) = P \cup Q
  BY DEF Differences
<1> HIDE DEF one, own, P, Q
<1>4. CASE g.family \in {"call", "block", "cond"}
  <2>1. TwinGroups(one) = {} /\ GuardGroups(one) = {own}
    BY <1>1, <1>2, <1>4 DEF TwinGroups, GuardGroups
  <2>2. Differences({g}, {}, {}, came) = GuardChanges({g}, {}, own, {}, came)
    <3>1. P = {}
      BY <2>1 DEF P, TwinPart, one
    <3>2. Q = GuardChanges({g}, {}, own, {}, came)
      BY <2>1 DEF Q, GuardPart, one
    <3> QED  BY <1>3, <3>1, <3>2
  <2>3. DirectionOf(g) = "removed"
    BY <1>2, <1>4 DEF DirectionOf
  <2> QED  BY <2>2, <2>3, GuardGone DEF Told, own
<1>5. CASE g.family \in {"hazard", "flag", "sql"}
  <2>1. TwinGroups(one) = {own} /\ GuardGroups(one) = {}
    BY <1>1, <1>2, <1>5 DEF TwinGroups, GuardGroups
  <2>2. Differences({g}, {}, {}, came) = TwinChanges({g}, {}, own)
    <3>1. Q = {}
      BY <2>1 DEF Q, GuardPart, one
    <3>2. P = TwinChanges({g}, {}, own)
      BY <2>1 DEF P, TwinPart, one
    <3> QED  BY <1>3, <3>1, <3>2
  <2>3. DirectionOf(g) = "strengthened"
    BY <1>2, <1>5 DEF DirectionOf
  <2> QED  BY <1>5, <2>2, <2>3, HazardGone DEF Told, own
<1>6. CASE g.family \in {"safe", "flag_safe", "sql_safe"}
  <2>1. PICK t \in {"hazard", "flag", "sql"} : g.family = TwinFamily[t] /\ \A u \in {"hazard", "flag", "sql"} : TwinFamily[u] = g.family => u = t
    BY <1>2, <1>6
  <2> DEFINE q == <<t, g.kind, g.group>>
  <2>2. GuardGroups(one) = {}
    BY <1>1, <1>6 DEF GuardGroups
  <2>3. TwinGroups(one) = {q}
    <3>1. {j \in {own} : j[1] \in DOMAIN TwinFamily} = {}
      BY <1>1, <1>2, <1>6
    <3> DEFINE three == {<<u, j[2], j[3]>> : u \in DOMAIN TwinFamily, j \in GroupsOf(one)}
    <3>2. three = {<<u, g.kind, g.group>> : u \in {"hazard", "flag", "sql"}}
      BY <1>1, <1>2
    <3>3. TwinGroups(one) = {} \cup {j \in three : <<TwinFamily[j[1]], j[2], j[3]>> \in {own}}
      BY <1>1, <3>1 DEF TwinGroups
    <3> HIDE DEF three
    <3>4. ASSUME NEW u \in {"hazard", "flag", "sql"}
          PROVE  <<TwinFamily[u], g.kind, g.group>> \in {own} <=> u = t
      BY <1>1, <2>1
    <3>5. {j \in three : <<TwinFamily[j[1]], j[2], j[3]>> \in {own}} = {q}
      BY <3>2, <3>4
    <3> QED  BY <3>3, <3>5
  <2> HIDE DEF q
  <2>4. Differences({g}, {}, {}, came) = TwinChanges({g}, {}, q)
    <3>1. Q = {}
      BY <2>2 DEF Q, GuardPart, one
    <3>2. P = TwinChanges({g}, {}, q)
      BY <2>3 DEF P, TwinPart, one
    <3> QED  BY <1>3, <3>1, <3>2
  <2>5. DirectionOf(g) = "weakened"
    BY <1>2, <1>6 DEF DirectionOf
  <2>6. TwinChanges({g}, {}, q) = {Change("weakened", h, h.weight) : h \in {x \in {g} : x.weight > 0}}
    BY <2>1, SafeGone DEF q
  <2> QED  BY <2>4, <2>5, <2>6 DEF Told
<1> QED  BY <1>4, <1>5, <1>6

\* A version without one of its constructs calls no helper the whole version does not call.
LEMMA NoNewHelpers ==
    ASSUME NEW code \in Seq(Constructs), NEW i \in 1..Len(code)
    PROVE  NewHelpers(code, RemoveAt(code, i)) = {}
<1> DEFINE r == RemoveAt(code, i)
           J == {j \in Helpers(r) : \A k \in Helpers(code) : code[k].name # r[j].name}
<1>1. /\ DOMAIN r = 1..(Len(code) - 1) /\ DOMAIN code = 1..Len(code) /\ Len(code) \in Nat
      /\ \A k \in 1..(Len(code) - 1) : r[k] = code[IF k < i THEN k ELSE k + 1]
  BY WithoutOne, LenProperties
<1>2. \A k \in 1..(Len(code) - 1) : (IF k < i THEN k ELSE k + 1) \in 1..Len(code)
  BY <1>1
<1> HIDE DEF r
<1>3. J = {}
  <2>1. SUFFICES ASSUME NEW j \in J PROVE FALSE
    OBVIOUS
  <2>2. j \in 1..(Len(code) - 1) /\ r[j].called /\ \A k \in Helpers(code) : code[k].name # r[j].name
    BY <1>1, <2>1 DEF Helpers
  <2>3. PICK k \in 1..Len(code) : r[j] = code[k]
    BY <1>1, <1>2, <2>2
  <2>4. k \in Helpers(code)
    BY <1>1, <2>2, <2>3 DEF Helpers
  <2> QED  BY <2>2, <2>3, <2>4
<1>4. NewHelpers(code, r) = UNION {r[j].idents : j \in J}
  BY DEF NewHelpers
<1> HIDE DEF J
<1>5. UNION {r[j].idents : j \in J} = {}
  BY <1>3
<1> QED  BY <1>4, <1>5 DEF r

LEMMA DeletionTold ==
    ASSUME NEW code \in Seq(Constructs)
    PROVE  DeletionIsTold(code)
<1>1. SUFFICES ASSUME NEW i \in DOMAIN code, NEW f \in FeaturesOf(code[i], i)
               PROVE  \E g \in Same(Features(code), f) :
                        /\ \A h \in Same(Features(code), f) : h.line <= g.line
                        /\ Changes(code, RemoveAt(code, i)) = Told(g)
  BY DEF DeletionIsTold, Told, DirectionOf
<1> DEFINE r == RemoveAt(code, i)
           F == Features(code)
           G == Features(r)
           n == Len(code)
<1>2. n \in Nat /\ DOMAIN code = 1..n /\ i \in 1..n /\ r \in Seq(Constructs) /\ code[i] \in Constructs
  BY LenProperties, WithoutOne, ElementOfSeq
<1>3. KeysAt(code[i]) = {KeyOf(f)} /\ i \in KeyPlaces(code, KeyOf(f))
  BY <1>2, FeatureAt DEF KeyPlaces
<1>4. ASSUME NEW h
      PROVE  /\ IsFiniteSet(KeyPlaces(code, KeyOf(h)))
             /\ Cardinality(KeyPlaces(r, KeyOf(h))) = Cardinality(KeyPlaces(code, KeyOf(h)) \ {i})
  BY <1>2, SameAreOfPlaces, PlacesWithout
<1> HIDE DEF r, n
<1>5. ASSUME NEW h
      PROVE  /\ Cardinality(KeyPlaces(r, KeyOf(h))) <= Cardinality(KeyPlaces(code, KeyOf(h)))
             /\ KeyOf(h) = KeyOf(f) => Cardinality(KeyPlaces(code, KeyOf(h))) = Cardinality(KeyPlaces(r, KeyOf(h))) + 1
             /\ KeyOf(h) # KeyOf(f) => Cardinality(KeyPlaces(code, KeyOf(h))) = Cardinality(KeyPlaces(r, KeyOf(h)))
  <2> DEFINE P == KeyPlaces(code, KeyOf(h))
  <2>1. i \in P <=> KeyOf(h) = KeyOf(f)
    BY <1>2, <1>3 DEF KeyPlaces
  <2>2. IsFiniteSet(P) /\ Cardinality(P) \in Nat
    BY <1>4, FS_CardinalityType
  <2>3. Cardinality(P \ {i}) = IF i \in P THEN Cardinality(P) - 1 ELSE Cardinality(P)
    BY <2>2, FS_RemoveElement
  <2>4. Cardinality(KeyPlaces(r, KeyOf(h))) = Cardinality(P \ {i})
    BY <1>4
  <2> HIDE DEF P
  <2>5. /\ Cardinality(KeyPlaces(r, KeyOf(h))) <= Cardinality(P)
        /\ KeyOf(h) = KeyOf(f) => Cardinality(P) = Cardinality(KeyPlaces(r, KeyOf(h))) + 1
        /\ KeyOf(h) # KeyOf(f) => Cardinality(P) = Cardinality(KeyPlaces(r, KeyOf(h)))
    BY <2>1, <2>2, <2>3, <2>4
  <2> QED  BY <2>5 DEF P
<1>6. Uncommon(G, F) = {}
  <2>1. \A h \in G : h \notin Uncommon(G, F)
    BY <1>2, <1>5, LeftOver
  <2> QED  BY <2>1, UncommonIsPart
<1> DEFINE P == KeyPlaces(code, KeyOf(f))
<1>7. Max(P) \in P /\ \A y \in P : y <= Max(P)
  <2>1. P \subseteq 1..n /\ P # {}
    BY <1>2, <1>3 DEF KeyPlaces
  <2> HIDE DEF P
  <2> QED  BY <1>2, <2>1, GreatestPlace
<1>8. PICK g \in Same(F, f) : g.line = Max(P)
  BY <1>2, <1>7, SameAreOfPlaces
<1>9. \A h \in Same(F, f) : h.line <= g.line
  BY <1>2, <1>7, <1>8, SameAreOfPlaces
<1>10. KeyOf(g) = KeyOf(f) /\ g \in F /\ IsOf(g, code)
  <2>1. g \in F /\ KeyOf(g) = KeyOf(f)
    BY DEF Same, KeyOf
  <2> QED  BY <2>1, FeatureIsOf
<1>11. Uncommon(F, G) = {g}
  <2>1. ASSUME NEW h \in F, KeyOf(h) = KeyOf(f) PROVE h \in Uncommon(F, G) <=> h = g
    <3>1. Same(F, h) = Same(F, f) /\ h \in Same(F, f)
      BY <2>1 DEF Same, KeyOf
    <3>2. h \in Uncommon(F, G) <=> \A x \in Same(F, h) : x.line <= h.line
      BY <1>2, <1>5, <2>1, LeftOver
    <3>3. h.line \in P /\ g.line \in P /\ P \subseteq Int
      <4>1. h.line \in P /\ g.line \in P
        BY <1>2, <3>1, SameAreOfPlaces
      <4>2. P \subseteq Int
        BY <1>2 DEF KeyPlaces
      <4> QED  BY <4>1, <4>2
    <3>4. (\A x \in Same(F, f) : x.line <= h.line) => h.line = g.line
      BY <1>9, <3>1, <3>3
    <3>5. h.line = g.line => h = g
      BY <1>2, <3>1, SameAreOfPlaces
    <3> QED  BY <1>9, <3>1, <3>2, <3>4, <3>5
  <2>2. ASSUME NEW h \in F, KeyOf(h) # KeyOf(f) PROVE h \notin Uncommon(F, G)
    <3>1. Cardinality(KeyPlaces(code, KeyOf(h))) <= Cardinality(KeyPlaces(r, KeyOf(h)))
      <4>1. Cardinality(KeyPlaces(code, KeyOf(h))) = Cardinality(KeyPlaces(r, KeyOf(h)))
        BY <1>5, <2>2
      <4>2. Cardinality(KeyPlaces(code, KeyOf(h))) \in Nat
        BY <1>4, FS_CardinalityType
      <4> QED  BY <4>1, <4>2
    <3> QED  BY <1>2, <2>2, <3>1, LeftOver
  <2> QED  BY <1>10, <2>1, <2>2, UncommonIsPart
<1>12. NewHelpers(code, r) = {}
  BY <1>2, NoNewHelpers DEF r
<1>13. Changes(code, r) = Differences({g}, {}, {}, NewHelpers(r, code))
  BY <1>6, <1>11, <1>12, ChangesAre
<1>14. Changes(code, r) = Told(g)
  <2>1. g.line \in Int
    BY <1>2, <1>10 DEF IsOf
  <2>2. g.family \in {"call", "block", "cond", "hazard", "safe", "flag", "flag_safe", "sql", "sql_safe"}
    BY <1>10 DEF IsOf
  <2> QED  BY <1>13, <2>1, <2>2, OneGone
<1> QED  BY <1>9, <1>14 DEF r

\* What is told as lost is a control of the old version, on its line.
IsLost(c, O) == c.of \in O /\ c.of.weight > 0 /\ c.kind = c.of.kind

LEMMA LostControls ==
    ASSUME NEW old \in Seq(Constructs), NEW new \in Seq(Constructs)
    PROVE  LostIsControl(old, new)
<1> DEFINE O == Uncommon(Features(old), Features(new))
           N == Uncommon(Features(new), Features(old))
           gone == NewHelpers(old, new)
           came == NewHelpers(new, old)
<1>1. SUFFICES ASSUME NEW c \in Changes(old, new), c.of.family \in Protective, c.direction \in Negative
               PROVE  c.kind \in ControlKinds(old, {c.of.line})
  BY DEF LostIsControl
<1>2. c \in TwinPart(O, N) \/ c \in GuardPart(O, N, gone, came)
  BY DEF Changes
<1> HIDE DEF O, N, gone, came
<1>3. \A F, n : Representatives(F, n) \subseteq F
  BY DEF Representatives
<1>4. \A F, n, d : \A x \in Alone(d, F, n) : /\ x.direction = d /\ x.of \in F /\ x.of.weight > 0
                                           /\ x.kind = x.of.kind
  BY <1>3 DEF Alone, Change
<1>5. \A F, k : \A x \in InGroup(F, k) : x \in F /\ x.family = k[1]
  BY DEF InGroup, GroupOf
<1>6. ASSUME c \in TwinPart(O, N) PROVE IsLost(c, O)
  <2>1. PICK k \in TwinGroups(O \cup N) : c \in TwinChanges(O, N, k)
    BY <1>6 DEF TwinPart
  <2>2. k[1] \in {"hazard", "flag", "sql"}
    <3>1. DOMAIN TwinFamily = {"hazard", "flag", "sql"}
      BY DEF TwinFamily
    <3> QED  BY <2>1, <3>1 DEF TwinGroups
  <2> DEFINE safe == <<TwinFamily[k[1]], k[2], k[3]>>
             hO == InGroup(O, k)
             hN == InGroup(N, k)
             sO == InGroup(O, safe)
             sN == InGroup(N, safe)
             dH == Cardinality(hN) - Cardinality(hO)
             dS == Cardinality(sN) - Cardinality(sO)
             worse == Swaps(dH, -dS)
             better == Swaps(-dH, dS)
  <2>3. \/ c \in {Change("weakened", f, f.swap) : f \in Representatives(hN, worse)}
        \/ c \in {Change("strengthened", f, f.swap) : f \in Representatives(hO, better)}
        \/ c \in Alone("weakened", hN, Plus(dH) - worse)
        \/ c \in Alone("strengthened", hO, Plus(-dH) - better)
        \/ c \in Alone("weakened", sO, Plus(-dS) - worse)
        \/ c \in Alone("strengthened", sN, Plus(dS) - better)
    BY <2>1 DEF TwinChanges
  <2> HIDE DEF dH, dS, worse, better
  <2>4. \A f \in hN : f.family \notin Protective
    BY <1>5, <2>2 DEF Protective
  <2>5. c.direction # "strengthened"
    BY <1>1 DEF Negative
  <2> HIDE DEF hN, hO, sO, sN
  <2>6. c \in Alone("weakened", sO, Plus(-dS) - worse)
    <3>1. c \notin {Change("weakened", f, f.swap) : f \in Representatives(hN, worse)}
      BY <1>1, <1>3, <2>4 DEF Change
    <3>2. c \notin {Change("strengthened", f, f.swap) : f \in Representatives(hO, better)}
      BY <2>5 DEF Change
    <3>3. c \notin Alone("weakened", hN, Plus(dH) - worse)
      BY <1>1, <1>4, <2>4
    <3>4. c \notin Alone("strengthened", hO, Plus(-dH) - better) /\ c \notin Alone("strengthened", sN, Plus(dS) - better)
      BY <1>4, <2>5
    <3> QED  BY <2>3, <3>1, <3>2, <3>3, <3>4
  <2>7. c.of \in sO /\ c.of.weight > 0 /\ c.kind = c.of.kind
    BY <1>4, <2>6
  <2> QED  BY <1>5, <2>7 DEF sO, IsLost
<1>7. ASSUME c \in GuardPart(O, N, gone, came) PROVE IsLost(c, O)
  <2>1. PICK k \in GuardGroups(O \cup N) : c \in GuardChanges(O, N, k, gone, came)
    BY <1>7 DEF GuardPart
  <2> DEFINE d == Cardinality(InGroup(N, k)) - Cardinality(InGroup(O, k))
  <2>2. \/ c \in {Change("removed", f, Discounted(f, gone)) :
                    f \in {g \in Representatives(InGroup(O, k), Plus(-d)) : g.weight > 0}}
        \/ c \in {Change("added", f, Discounted(f, came)) :
                    f \in {g \in Representatives(InGroup(N, k), Plus(d)) : g.weight > 0}}
    BY <2>1 DEF GuardChanges
  <2> HIDE DEF d
  <2>3. c \notin {Change("added", f, Discounted(f, came)) :
                    f \in {g \in Representatives(InGroup(N, k), Plus(d)) : g.weight > 0}}
    BY <1>1 DEF Change, Negative
  <2>4. PICK f \in Representatives(InGroup(O, k), Plus(-d)) : f.weight > 0 /\ c = Change("removed", f, Discounted(f, gone))
    BY <2>2, <2>3
  <2>5. f \in O
    BY <1>3, <1>5
  <2> QED  BY <2>4, <2>5 DEF Change, IsLost
<1>8. IsLost(c, O)
  BY <1>2, <1>6, <1>7
<1>9. c.of \in Features(old) /\ Counts(c.of) /\ c.kind = c.of.kind
  BY <1>8, UncommonIsPart DEF O, IsLost, Counts
<1> QED  BY <1>1, <1>9 DEF ControlKinds

\* The score of some changes is the sum of their confidences.
Confs(C) == [c \in C |-> c.conf]

LEMMA ScoreIsSum ==
    ASSUME NEW C, IsFiniteSet(C)
    PROVE  Score(C) = SumOver(Confs(C), C)
<1> DEFINE Eq(f) == f = [s \in SUBSET C |-> IF s = {} THEN 0 ELSE Some(s).conf + f[s \ {Some(s)}]]
           iter == CHOOSE f : Eq(f)
<1>1. Score(C) = iter[C]
  BY DEF Score, MapThenSumSet, MapThenFoldSet, Some
<1>2. PICK f : Sum(f, Confs(C), C)
  BY SumExists
<1>3. ASSUME NEW s \in SUBSET C, s # {} PROVE Some(s) \in C /\ Confs(C)[Some(s)] = Some(s).conf
  BY <1>3 DEF Some, Confs
<1>4. ASSUME NEW g PROVE Eq(g) <=> Sum(g, Confs(C), C)
  <2>1. \A s \in SUBSET C : (IF s = {} THEN 0 ELSE Some(s).conf + g[s \ {Some(s)}]) = WithOneMore(g, Confs(C), s)
    BY <1>3 DEF WithOneMore
  <2> QED  BY <2>1 DEF Sum
<1>5. Eq(iter)
  <2>1. Eq(f)
    BY <1>2, <1>4
  <2> HIDE DEF Eq
  <2> QED  BY <2>1
<1>6. Sum(iter, Confs(C), C)
  <2> HIDE DEF Eq, iter
  <2> QED  BY <1>4, <1>5
<1> HIDE DEF Eq, iter
<1>7. PICK g : Sum(g, Confs(C), C) /\ SumOver(Confs(C), C) = g[C]
  BY SumOverIsSum
<1>8. g[C] = iter[C]
  BY <1>6, <1>7, SumOfPart
<1> QED  BY <1>1, <1>7, <1>8

Flipped(c) == [c EXCEPT !.direction = Flip[@]]

\* A change of one of the four directions of a feature of some set.
IsChange(c, F) ==
    \E d \in DOMAIN Flip, f \in F, w \in Nat : w <= f.weight + f.swap /\ c = Change(d, f, w)

LEMMA FlipTwice ==
    ASSUME NEW d \in DOMAIN Flip, NEW f, NEW w
    PROVE  /\ Flipped(Change(d, f, w)) = Change(Flip[d], f, w)
           /\ Flip[d] \in DOMAIN Flip /\ Flip[Flip[d]] = d
           /\ d \in Negative <=> Flip[d] \notin Negative
<1>1. DOMAIN Flip = {"removed", "added", "weakened", "strengthened"}
  BY DEF Flip
<1>2. Flip[d] \in DOMAIN Flip /\ Flip[Flip[d]] = d
  BY <1>1 DEF Flip
<1>3. d \in Negative <=> Flip[d] \notin Negative
  BY <1>1 DEF Flip, Negative
<1>4. Flipped(Change(d, f, w)) = Change(Flip[d], f, w)
  BY DEF Flipped, Change
<1> QED  BY <1>2, <1>3, <1>4

LEMMA FlippedChange ==
    ASSUME NEW F, NEW c, IsChange(c, F)
    PROVE  /\ IsChange(Flipped(c), F) /\ Flipped(Flipped(c)) = c
           /\ Flipped(c).conf = c.conf /\ c.conf \in Nat
           /\ c.direction \in Negative <=> Flipped(c).direction \notin Negative
<1>1. PICK d \in DOMAIN Flip, f \in F, w \in Nat : w <= f.weight + f.swap /\ c = Change(d, f, w)
  BY DEF IsChange
<1>2. Flipped(c) = Change(Flip[d], f, w) /\ Flip[d] \in DOMAIN Flip /\ Flip[Flip[d]] = d
      /\ (d \in Negative <=> Flip[d] \notin Negative)
  BY <1>1, FlipTwice
<1>3. Flipped(Flipped(c)) = Change(Flip[Flip[d]], f, w)
  BY <1>2, FlipTwice
<1>4. c.direction = d /\ c.conf = w /\ Flipped(c).direction = Flip[d] /\ Flipped(c).conf = w
  BY <1>1, <1>2 DEF Change
<1> QED  BY <1>1, <1>2, <1>3, <1>4 DEF IsChange

\* What is left of a version's features.
Weighed(F) == IsFiniteSet(F) /\ \A f \in F : f.weight \in Nat /\ f.swap \in Nat

LEMMA PartCounted ==
    ASSUME NEW F, Weighed(F), NEW k
    PROVE  Cardinality(InGroup(F, k)) \in Nat /\ InGroup(F, k) \subseteq F
<1>1. InGroup(F, k) \in SUBSET F
  BY DEF InGroup
<1>2. IsFiniteSet(InGroup(F, k))
  BY <1>1, FS_Subset DEF Weighed
<1> QED  BY <1>1, <1>2, FS_CardinalityType

LEMMA RepresentativesPart ==
    ASSUME NEW F, NEW n
    PROVE  Representatives(F, n) \subseteq F
BY DEF Representatives

\* What changes from one set of features to another, alone, is what changes the other way, turned.
LEMMA AloneTurned ==
    ASSUME NEW F, NEW G, F \subseteq G, Weighed(G), NEW n, NEW d \in DOMAIN Flip, NEW c \in Alone(d, F, n)
    PROVE  IsChange(c, G) /\ Flipped(c) \in Alone(Flip[d], F, n)
<1>1. PICK f \in Representatives(F, n) : f.weight > 0 /\ c = Change(d, f, f.weight)
  BY DEF Alone
<1>2. f \in G /\ f.weight \in Nat /\ f.weight <= f.weight + f.swap
  BY RepresentativesPart DEF Weighed
<1>3. Flipped(c) = Change(Flip[d], f, f.weight)
  BY <1>1, FlipTwice
<1> QED  BY <1>1, <1>2, <1>3 DEF Alone, IsChange

LEMMA SwapsTurned ==
    ASSUME NEW F, NEW G, F \subseteq G, Weighed(G), NEW n, NEW d \in DOMAIN Flip,
           NEW c \in {Change(d, f, f.swap) : f \in Representatives(F, n)}
    PROVE  IsChange(c, G) /\ Flipped(c) \in {Change(Flip[d], f, f.swap) : f \in Representatives(F, n)}
<1>1. PICK f \in Representatives(F, n) : c = Change(d, f, f.swap)
  OBVIOUS
<1>2. f \in G /\ f.swap \in Nat /\ f.swap <= f.weight + f.swap
  BY RepresentativesPart DEF Weighed
<1>3. Flipped(c) = Change(Flip[d], f, f.swap)
  BY <1>1, FlipTwice
<1> QED  BY <1>1, <1>2, <1>3 DEF IsChange

LEMMA TwinsTurned ==
    ASSUME NEW O, NEW N, Weighed(O \cup N), NEW k, NEW c \in TwinChanges(O, N, k)
    PROVE  IsChange(c, O \cup N) /\ Flipped(c) \in TwinChanges(N, O, k)
<1> DEFINE safe == <<TwinFamily[k[1]], k[2], k[3]>>
           hO == InGroup(O, k)
           hN == InGroup(N, k)
           sO == InGroup(O, safe)
           sN == InGroup(N, safe)
           dH == Cardinality(hN) - Cardinality(hO)
           dS == Cardinality(sN) - Cardinality(sO)
           eH == Cardinality(hO) - Cardinality(hN)
           eS == Cardinality(sO) - Cardinality(sN)
           worse == Swaps(dH, -dS)
           better == Swaps(-dH, dS)
           G == O \cup N
           swapped(d, F, n) == {Change(d, f, f.swap) : f \in Representatives(F, n)}
<1>1. \/ c \in swapped("weakened", hN, worse)
      \/ c \in swapped("strengthened", hO, better)
      \/ c \in Alone("weakened", hN, Plus(dH) - worse)
      \/ c \in Alone("strengthened", hO, Plus(-dH) - better)
      \/ c \in Alone("weakened", sO, Plus(-dS) - worse)
      \/ c \in Alone("strengthened", sN, Plus(dS) - better)
  BY DEF TwinChanges
<1>2. \A x : \/ x \in swapped("weakened", hO, Swaps(eH, -eS))
             \/ x \in swapped("strengthened", hN, Swaps(-eH, eS))
             \/ x \in Alone("weakened", hO, Plus(eH) - Swaps(eH, -eS))
             \/ x \in Alone("strengthened", hN, Plus(-eH) - Swaps(-eH, eS))
             \/ x \in Alone("weakened", sN, Plus(-eS) - Swaps(eH, -eS))
             \/ x \in Alone("strengthened", sO, Plus(eS) - Swaps(-eH, eS))
             => x \in TwinChanges(N, O, k)
  BY DEF TwinChanges
<1>3. hO \subseteq G /\ hN \subseteq G /\ sO \subseteq G /\ sN \subseteq G
  BY DEF InGroup
<1>4. /\ Cardinality(hO) \in Nat /\ Cardinality(hN) \in Nat /\ Cardinality(sO) \in Nat /\ Cardinality(sN) \in Nat
  <2>1. Weighed(O) /\ Weighed(N)
    <3>1. IsFiniteSet(O) /\ IsFiniteSet(N)
      <4>1. IsFiniteSet(O \cup N) /\ O \in SUBSET (O \cup N) /\ N \in SUBSET (O \cup N)
        BY DEF Weighed
      <4> QED  BY <4>1, FS_Subset
    <3> QED  BY <3>1 DEF Weighed
  <2> QED  BY <2>1, PartCounted
<1> HIDE DEF hO, hN, sO, sN, safe
<1>5. dH \in Int /\ dS \in Int /\ eH = 0 - dH /\ eS = 0 - dS
  BY <1>4
<1> HIDE DEF dH, dS, eH, eS
<1>6. -dH = eH /\ -dS = eS /\ -eH = dH /\ -eS = dS
  <2>1. eH \in Int /\ eS \in Int /\ dH = 0 - eH /\ dS = 0 - eS
    BY <1>5
  <2> QED  BY <1>5, <2>1, Negated
<1>7. /\ Swaps(eH, -eS) = better /\ Swaps(-eH, eS) = worse
      /\ Plus(-dH) = Plus(eH) /\ Plus(-dS) = Plus(eS) /\ Plus(-eH) = Plus(dH) /\ Plus(-eS) = Plus(dS)
  BY <1>6
<1> HIDE DEF worse, better, G
<1>8. Weighed(G)
  BY DEF G
<1>9. Flip["weakened"] = "strengthened" /\ Flip["strengthened"] = "weakened"
      /\ "weakened" \in DOMAIN Flip /\ "strengthened" \in DOMAIN Flip
  BY DEF Flip
<1>10. CASE c \in swapped("weakened", hN, worse)
  <2>1. IsChange(c, G) /\ Flipped(c) \in swapped("strengthened", hN, worse)
    BY <1>3, <1>8, <1>9, <1>10, SwapsTurned
  <2> HIDE DEF swapped
  <2> QED  BY <1>2, <1>7, <2>1 DEF G
<1>11. CASE c \in swapped("strengthened", hO, better)
  <2>1. IsChange(c, G) /\ Flipped(c) \in swapped("weakened", hO, better)
    BY <1>3, <1>8, <1>9, <1>11, SwapsTurned
  <2> HIDE DEF swapped
  <2> QED  BY <1>2, <1>7, <2>1 DEF G
<1>12. CASE c \in Alone("weakened", hN, Plus(dH) - worse)
  <2>1. IsChange(c, G) /\ Flipped(c) \in Alone("strengthened", hN, Plus(dH) - worse)
    BY <1>3, <1>8, <1>9, <1>12, AloneTurned
  <2> HIDE DEF swapped
  <2> QED  BY <1>2, <1>7, <2>1 DEF G
<1>13. CASE c \in Alone("strengthened", hO, Plus(-dH) - better)
  <2>1. IsChange(c, G) /\ Flipped(c) \in Alone("weakened", hO, Plus(-dH) - better)
    BY <1>3, <1>8, <1>9, <1>13, AloneTurned
  <2> HIDE DEF swapped
  <2> QED  BY <1>2, <1>7, <2>1 DEF G
<1>14. CASE c \in Alone("weakened", sO, Plus(-dS) - worse)
  <2>1. IsChange(c, G) /\ Flipped(c) \in Alone("strengthened", sO, Plus(-dS) - worse)
    BY <1>3, <1>8, <1>9, <1>14, AloneTurned
  <2> HIDE DEF swapped
  <2> QED  BY <1>2, <1>7, <2>1 DEF G
<1>15. CASE c \in Alone("strengthened", sN, Plus(dS) - better)
  <2>1. IsChange(c, G) /\ Flipped(c) \in Alone("weakened", sN, Plus(dS) - better)
    BY <1>3, <1>8, <1>9, <1>15, AloneTurned
  <2> HIDE DEF swapped
  <2> QED  BY <1>2, <1>7, <2>1 DEF G
<1> HIDE DEF swapped
<1> QED  BY <1>1, <1>10, <1>11, <1>12, <1>13, <1>14, <1>15

LEMMA DiscountedWeighs ==
    ASSUME NEW f, f.weight \in Nat, NEW idents
    PROVE  Discounted(f, idents) \in Nat /\ Discounted(f, idents) <= f.weight
<1>1. \A w \in Nat : (w * 40) \div 100 \in Nat /\ (w * 40) \div 100 <= w
  OBVIOUS
<1> QED  BY <1>1 DEF Discounted, HelperDiscount

LEMMA GuardsTurned ==
    ASSUME NEW O, NEW N, Weighed(O \cup N), NEW k, NEW gone, NEW came, NEW c \in GuardChanges(O, N, k, gone, came)
    PROVE  IsChange(c, O \cup N) /\ Flipped(c) \in GuardChanges(N, O, k, came, gone)
<1> DEFINE d == Cardinality(InGroup(N, k)) - Cardinality(InGroup(O, k))
           e == Cardinality(InGroup(O, k)) - Cardinality(InGroup(N, k))
           told(dir, F, n, idents) ==
             {Change(dir, f, Discounted(f, idents)) : f \in {g \in Representatives(F, n) : g.weight > 0}}
           G == O \cup N
<1>1. \/ c \in told("removed", InGroup(O, k), Plus(-d), gone)
      \/ c \in told("added", InGroup(N, k), Plus(d), came)
  BY DEF GuardChanges
<1>2. \A x : \/ x \in told("removed", InGroup(N, k), Plus(-e), came)
             \/ x \in told("added", InGroup(O, k), Plus(e), gone)
             => x \in GuardChanges(N, O, k, came, gone)
  BY DEF GuardChanges
<1>3. d \in Int /\ e \in Int /\ e = 0 - d /\ d = 0 - e
  <2>1. Weighed(O) /\ Weighed(N)
    <3>1. IsFiniteSet(O) /\ IsFiniteSet(N)
      <4>1. IsFiniteSet(O \cup N) /\ O \in SUBSET (O \cup N) /\ N \in SUBSET (O \cup N)
        BY DEF Weighed
      <4> QED  BY <4>1, FS_Subset
    <3> QED  BY <3>1 DEF Weighed
  <2>2. Cardinality(InGroup(N, k)) \in Nat /\ Cardinality(InGroup(O, k)) \in Nat
    BY <2>1, PartCounted
  <2> QED  BY <2>2
<1> HIDE DEF d, e
<1>4. -d = e /\ -e = d
  BY <1>3, Negated
<1>5. Plus(-e) = Plus(d) /\ Plus(e) = Plus(-d)
  BY <1>4
<1>6. InGroup(N, k) \subseteq G /\ InGroup(O, k) \subseteq G
  BY DEF InGroup
<1>7. Flip["removed"] = "added" /\ Flip["added"] = "removed" /\ "removed" \in DOMAIN Flip /\ "added" \in DOMAIN Flip
  BY DEF Flip
<1>8. ASSUME NEW dir \in DOMAIN Flip, NEW F, F \subseteq G, NEW n, NEW idents, c \in told(dir, F, n, idents)
      PROVE  IsChange(c, G) /\ Flipped(c) \in told(Flip[dir], F, n, idents)
  <2>1. PICK f \in Representatives(F, n) : f.weight > 0 /\ c = Change(dir, f, Discounted(f, idents))
    BY <1>8
  <2>2. f \in G /\ f.weight \in Nat /\ f.swap \in Nat
    BY <1>8, RepresentativesPart DEF Weighed
  <2>3. Discounted(f, idents) \in Nat /\ Discounted(f, idents) <= f.weight + f.swap
    <3>1. PICK w : w = Discounted(f, idents)
      OBVIOUS
    <3>2. w \in Nat /\ w <= f.weight
      BY <2>2, <3>1, DiscountedWeighs
    <3>3. w <= f.weight + f.swap
      BY <2>2, <3>2
    <3> QED  BY <3>1, <3>2, <3>3
  <2>4. Flipped(c) = Change(Flip[dir], f, Discounted(f, idents))
    BY <2>1, FlipTwice
  <2> QED  BY <2>1, <2>2, <2>3, <2>4 DEF IsChange
<1> HIDE DEF told, G
<1>9. CASE c \in told("removed", InGroup(O, k), Plus(-d), gone)
  <2>1. IsChange(c, G) /\ Flipped(c) \in told("added", InGroup(O, k), Plus(-d), gone)
    BY <1>6, <1>7, <1>8, <1>9
  <2> QED  BY <1>2, <1>5, <2>1 DEF G
<1>10. CASE c \in told("added", InGroup(N, k), Plus(d), came)
  <2>1. IsChange(c, G) /\ Flipped(c) \in told("removed", InGroup(N, k), Plus(d), came)
    BY <1>6, <1>7, <1>8, <1>10
  <2> QED  BY <1>2, <1>5, <2>1 DEF G
<1> QED  BY <1>1, <1>9, <1>10

\* Changes of finitely many features are finitely many.
LEMMA ChangesFinite ==
    ASSUME NEW F, Weighed(F), NEW C, \A c \in C : IsChange(c, F)
    PROVE  IsFiniteSet(C)
<1> DEFINE Wide(f) == (DOMAIN Flip) \X (0..(f.weight + f.swap))
           of == [f \in F |-> {Change(p[1], f, p[2]) : p \in Wide(f)}]
           all == {of[f] : f \in F}
<1>1. IsFiniteSet(DOMAIN Flip)
  <2>1. DOMAIN Flip = {"removed", "added", "weakened", "strengthened"}
    BY DEF Flip
  <2>2. IsFiniteSet({"removed"}) /\ IsFiniteSet({"added"}) /\ IsFiniteSet({"weakened"}) /\ IsFiniteSet({"strengthened"})
    BY FS_Singleton
  <2>3. IsFiniteSet({"removed"} \cup {"added"}) /\ IsFiniteSet({"weakened"} \cup {"strengthened"})
    BY <2>2, FS_Union
  <2>4. IsFiniteSet(({"removed"} \cup {"added"}) \cup ({"weakened"} \cup {"strengthened"}))
    BY <2>3, FS_Union
  <2>5. DOMAIN Flip = ({"removed"} \cup {"added"}) \cup ({"weakened"} \cup {"strengthened"})
    BY <2>1
  <2> QED  BY <2>4, <2>5
<1>2. ASSUME NEW f \in F PROVE IsFiniteSet(of[f])
  <2>1. f.weight + f.swap \in Int /\ 0 \in Int
    BY DEF Weighed
  <2>2. IsFiniteSet(0..(f.weight + f.swap))
    BY <2>1, FS_Interval
  <2>3. IsFiniteSet(Wide(f))
    BY <1>1, <2>2, FS_Product
  <2> DEFINE g == [p \in Wide(f) |-> Change(p[1], f, p[2])]
  <2>4. IsFiniteSet({g[p] : p \in Wide(f)})
    <3> HIDE DEF g, Wide
    <3> QED  BY <2>3, FiniteImage
  <2>5. {g[p] : p \in Wide(f)} = {Change(p[1], f, p[2]) : p \in Wide(f)}
    <3> HIDE DEF Wide
    <3> QED  OBVIOUS
  <2> HIDE DEF g, Wide
  <2> QED  BY <2>4, <2>5
<1>3. IsFiniteSet(all)
  <2> HIDE DEF of
  <2> QED  BY FiniteImage DEF Weighed
<1>4. IsFiniteSet(UNION all)
  <2>1. \A T \in all : IsFiniteSet(T)
    <3> HIDE DEF of
    <3> QED  BY <1>2
  <2> HIDE DEF all
  <2> QED  BY <1>3, <2>1, FS_UNION
<1>5. ASSUME NEW c \in C PROVE c \in UNION all
  <2>1. PICK d \in DOMAIN Flip, f \in F, w \in Nat : w <= f.weight + f.swap /\ c = Change(d, f, w)
    BY DEF IsChange
  <2>2. <<d, w>> \in Wide(f)
    BY <2>1 DEF Weighed
  <2>3. c \in of[f]
    <3>1. c = Change(<<d, w>>[1], f, <<d, w>>[2])
      BY <2>1
    <3> HIDE DEF Wide
    <3> QED  BY <2>2, <3>1
  <2> HIDE DEF of
  <2> QED  BY <2>3
<1>6. C \in SUBSET UNION all
  BY <1>5
<1> HIDE DEF all
<1> QED  BY <1>4, <1>6, FS_Subset

\* What differs from one version to the other is what differs the other way, turned.
LEMMA DifferenceTurned ==
    ASSUME NEW O, NEW N, Weighed(O \cup N), NEW gone, NEW came, NEW c \in Differences(O, N, gone, came)
    PROVE  IsChange(c, O \cup N) /\ Flipped(c) \in Differences(N, O, came, gone)
<1>1. O \cup N = N \cup O
  OBVIOUS
<1>2. CASE c \in TwinPart(O, N)
  <2>1. PICK k \in TwinGroups(O \cup N) : c \in TwinChanges(O, N, k)
    BY <1>2 DEF TwinPart
  <2>2. IsChange(c, O \cup N) /\ Flipped(c) \in TwinChanges(N, O, k)
    BY <2>1, TwinsTurned
  <2>3. Flipped(c) \in TwinPart(N, O)
    BY <1>1, <2>1, <2>2 DEF TwinPart
  <2> QED  BY <2>2, <2>3 DEF Differences
<1>3. CASE c \in GuardPart(O, N, gone, came)
  <2>1. PICK k \in GuardGroups(O \cup N) : c \in GuardChanges(O, N, k, gone, came)
    BY <1>3 DEF GuardPart
  <2>2. IsChange(c, O \cup N) /\ Flipped(c) \in GuardChanges(N, O, k, came, gone)
    BY <2>1, GuardsTurned
  <2>3. Flipped(c) \in GuardPart(N, O, came, gone)
    BY <1>1, <2>1, <2>2 DEF GuardPart
  <2> QED  BY <2>2, <2>3 DEF Differences
<1> QED  BY <1>2, <1>3 DEF Differences

LEMMA FeaturesWeighed ==
    ASSUME NEW code \in Seq(Constructs)
    PROVE  Weighed(Features(code))
<1> DEFINE at == [i \in DOMAIN code |-> FeaturesOf(code[i], i)]
           all == {at[i] : i \in DOMAIN code}
<1>1. \A i \in DOMAIN code : code[i] \in Constructs
  BY ElementOfSeq, LenProperties
<1>2. IsFiniteSet(DOMAIN code)
  BY LenProperties, FS_Interval
<1>3. IsFiniteSet(all)
  <2> HIDE DEF at
  <2> QED  BY <1>2, FiniteImage
<1>4. ASSUME NEW i \in DOMAIN code PROVE IsFiniteSet(at[i])
  <2>1. HasOne(code[i])
    BY <1>1, FeatureOfConstruct
  <2>2. at[i] = FeaturesOf(code[i], i)
    OBVIOUS
  <2>3. at[i] = {} \/ \E f : at[i] = {f}
    BY <2>1, <2>2 DEF HasOne, IsFeatureOf
  <2> HIDE DEF at
  <2>4. CASE at[i] = {}
    BY <2>4, FS_EmptySet
  <2>5. CASE \E f : at[i] = {f}
    BY <2>5, FS_Singleton, Zenon
  <2> QED  BY <2>3, <2>4, <2>5
<1>5. UNION all = Features(code)
  BY DEF Features
<1>6. IsFiniteSet(UNION all)
  <2>1. \A T \in all : IsFiniteSet(T)
    <3> HIDE DEF at
    <3> QED  BY <1>4
  <2> HIDE DEF all
  <2> QED  BY <1>3, <2>1, FS_UNION
<1>7. \A f \in Features(code) : f.weight \in Nat /\ f.swap \in Nat
  BY FeatureIsOf DEF IsOf
<1> QED  BY <1>5, <1>6, <1>7 DEF Weighed

\* The same scores, the other way round.
LEMMA ScoresTurned ==
    ASSUME NEW F, Weighed(F), NEW C, \A c \in C : IsChange(c, F),
           NEW D, D = {Flipped(c) : c \in C}
    PROVE  /\ Score({c \in C : c.direction \in Negative}) = Score({c \in D : c.direction \notin Negative})
           /\ Score({c \in C : c.direction \in Negative}) \in Nat
<1> DEFINE S == {c \in C : c.direction \in Negative}
           T == {c \in D : c.direction \notin Negative}
           h == [c \in S |-> Flipped(c)]
<1>1. IsFiniteSet(S) /\ \A c \in S : IsChange(c, F)
  BY ChangesFinite
<1>2. T = {h[c] : c \in S}
  <2>1. \A c \in C : c \in S <=> Flipped(c) \in T
    BY FlippedChange
  <2>2. \A x \in T : \E c \in C : x = Flipped(c)
    OBVIOUS
  <2> HIDE DEF S, T
  <2>3. \A x : x \in T <=> \E c \in S : x = Flipped(c)
    <3>1. \A c \in S : c \in C
      BY DEF S
    <3> QED  BY <2>1, <2>2, <3>1
  <2> QED  BY <2>3
<1> HIDE DEF S, T
<1>3. \A x, y \in S : h[x] = h[y] => x = y
  BY <1>1, FlippedChange
<1>4. IsFiniteSet(T) /\ \A x \in S : h[x] \in T /\ h[x].conf = x.conf /\ x.conf \in Nat
  <2>1. IsFiniteSet(T)
    <3> HIDE DEF h
    <3> QED  BY <1>1, <1>2, FiniteImage
  <2>2. \A x \in S : h[x] \in T
    BY <1>2
  <2>3. \A x \in S : h[x].conf = x.conf /\ x.conf \in Nat
    BY <1>1, FlippedChange
  <2> QED  BY <2>1, <2>2, <2>3
<1> HIDE DEF h
<1>5. \A x \in S : Confs(S)[x] \in Nat /\ Confs(T)[h[x]] = Confs(S)[x]
  BY <1>4 DEF Confs
<1>6. SumOver(Confs(T), {h[c] : c \in S}) = SumOver(Confs(S), S)
  BY <1>1, <1>3, <1>5, SameSum
<1>7. SumOver(Confs(S), S) \in Nat
  BY <1>1, <1>5, SumOverFacts
<1>8. Score(S) = SumOver(Confs(S), S) /\ Score(T) = SumOver(Confs(T), T)
  BY <1>1, <1>4, ScoreIsSum
<1>9. SumOver(Confs(T), T) = SumOver(Confs(S), S)
  BY <1>2, <1>6
<1>10. Score(S) = Score(T) /\ Score(S) \in Nat
  BY <1>7, <1>8, <1>9
<1> QED  BY <1>10 DEF S, T

\* Swapping the versions turns every change, and with them the risk.
LEMMA Mirrored ==
    ASSUME NEW old \in Seq(Constructs), NEW new \in Seq(Constructs)
    PROVE  MirrorImage(old, new)
<1> DEFINE O == Uncommon(Features(old), Features(new))
           N == Uncommon(Features(new), Features(old))
           C == Changes(old, new)
           D == Changes(new, old)
           gone == NewHelpers(old, new)
           came == NewHelpers(new, old)
<1>1. Weighed(O \cup N) /\ N \cup O = O \cup N
  <2>1. O \in SUBSET Features(old) /\ N \in SUBSET Features(new)
    BY UncommonIsPart
  <2>2. Weighed(Features(old)) /\ Weighed(Features(new))
    BY FeaturesWeighed
  <2> HIDE DEF O, N
  <2>3. IsFiniteSet(O) /\ IsFiniteSet(N)
    BY <2>1, <2>2, FS_Subset DEF Weighed
  <2>4. IsFiniteSet(O \cup N)
    BY <2>3, FS_Union
  <2> QED  BY <2>1, <2>2, <2>4 DEF Weighed
<1>2. C = Differences(O, N, gone, came) /\ D = Differences(N, O, came, gone)
  BY ChangesAre
<1> HIDE DEF O, N, C, D, gone, came
<1>3. \A c \in C : IsChange(c, O \cup N) /\ Flipped(c) \in D
  BY <1>1, <1>2, DifferenceTurned
<1>4. \A c \in D : IsChange(c, O \cup N) /\ Flipped(c) \in C
  BY <1>1, <1>2, DifferenceTurned
<1>5. D = {Flipped(c) : c \in C} /\ C = {Flipped(c) : c \in D}
  <2>1. \A c \in C \cup D : Flipped(Flipped(c)) = c
    BY <1>3, <1>4, FlippedChange
  <2> QED  BY <1>3, <1>4, <2>1
<1> DEFINE a == Score({c \in C : c.direction \in Negative})
           b == Score({c \in C : c.direction \notin Negative})
           x == Score({c \in D : c.direction \in Negative})
           y == Score({c \in D : c.direction \notin Negative})
<1>6. a = y /\ a \in Nat
  BY <1>1, <1>3, <1>5, ScoresTurned
<1>7. x = b /\ x \in Nat
  BY <1>1, <1>4, <1>5, ScoresTurned
<1>8. Risk(C) = CASE a >= RiskMin /\ a - b >= RiskMargin -> "guard_removed"
                  [] b >= RiskMin /\ b - a >= RiskMargin -> "guard_added"
                  [] ~(a >= RiskMin /\ a - b >= RiskMargin) /\ ~(b >= RiskMin /\ b - a >= RiskMargin) -> "none"
  BY DEF Risk
<1>9. Risk(D) = CASE x >= RiskMin /\ x - y >= RiskMargin -> "guard_removed"
                  [] y >= RiskMin /\ y - x >= RiskMargin -> "guard_added"
                  [] ~(x >= RiskMin /\ x - y >= RiskMargin) /\ ~(y >= RiskMin /\ y - x >= RiskMargin) -> "none"
  BY DEF Risk
<1> HIDE DEF a, b, x, y
<1>10. ~(a - b >= 25 /\ b - a >= 25)
  BY <1>6, <1>7
<1>11. Risk(C) = "guard_removed" <=> Risk(D) = "guard_added"
  BY <1>6, <1>7, <1>8, <1>9, <1>10 DEF RiskMin, RiskMargin
<1>12. D = {[c EXCEPT !.direction = Flip[@]] : c \in C}
  BY <1>5 DEF Flipped
<1> QED  BY <1>11, <1>12 DEF MirrorImage, C, D

------------------------------------------------------------------------------
(* Diffs and the changes they tell of (Patches.tla, DiffUses.tla,
   ChangedCode.tla).                                                       *)

\* The texts at some places of a script.
TextsAt(E, A) == Texts(Picked(E, A))

\* T are the texts of script E at the places A.
IsTexts(T, E, A, W) ==
    /\ T \in Seq(W) /\ Len(T) = HowMany(A, Len(E)) /\ DOMAIN T = 1..Len(T)
    /\ \A k \in A : HowMany(A, k) \in DOMAIN T /\ T[HowMany(A, k)] = E[k].text

\* The texts at some places of a script: how many there are, and which is at a place.
LEMMA TextsOfPlaces ==
    ASSUME NEW W, NEW E \in Scripts(W), NEW A, A \subseteq DOMAIN E
    PROVE  IsTexts(TextsAt(E, A), E, A, W)
<1> DEFINE p == Picked(E, A)
           T == TextsAt(E, A)
           n == Len(E)
<1>1. n \in Nat /\ DOMAIN E = 1..n /\ \A k \in 1..n : E[k].text \in W
  <2>1. n \in Nat /\ DOMAIN E = 1..n
    BY LenProperties DEF Scripts
  <2>2. \A k \in 1..n : E[k] \in [tag : {"keep", "del", "add"}, text : W]
    BY <2>1, ElementOfSeq DEF Scripts
  <2> QED  BY <2>1, <2>2
<1>2. A \subseteq Int /\ IsFiniteSet(A)
  <2>1. IsFiniteSet(1..n) /\ A \in SUBSET (1..n)
    BY <1>1, FS_Interval
  <2> QED  BY <1>1, <2>1, FS_Subset
<1>3. IsPicked(p, E, A)
  BY <1>2, PickedFacts
<1>4. Cardinality(A) = HowMany(A, n)
  <2>1. {j \in 1..n : j \in A} = A
    BY <1>1
  <2> QED  BY <2>1 DEF HowMany
<1> HIDE DEF p
<1>5. DOMAIN p = 1..HowMany(A, n) /\ HowMany(A, n) \in Nat /\ \A k \in DOMAIN p : \E i \in A : p[k] = E[i]
  BY <1>3, <1>4 DEF IsPicked
<1>6. T = [k \in DOMAIN p |-> p[k].text]
  BY DEF TextsAt, Texts, p
<1> HIDE DEF T
<1>7. T \in Seq(W) /\ Len(T) = HowMany(A, n)
  <2>1. DOMAIN T = 1..HowMany(A, n) /\ T = [k \in 1..HowMany(A, n) |-> T[k]]
    BY <1>5, <1>6
  <2>2. \A k \in 1..HowMany(A, n) : T[k] \in W
    BY <1>1, <1>5, <1>6
  <2> QED  BY <1>5, <2>1, <2>2, ListIsSeq
<1>8. ASSUME NEW k \in A PROVE HowMany(A, k) \in DOMAIN T /\ T[HowMany(A, k)] = E[k].text
  <2>1. k \in Nat /\ k \in 1..n /\ k - 1 \in Nat
    BY <1>1
  <2>2. {j \in A : j < k} = {j \in 1..(k - 1) : j \in A}
    BY <1>1, <2>1
  <2>3. HowMany(A, k) = HowMany(A, k - 1) + 1
    <3>1. PICK l \in Nat : l = k - 1 /\ k = l + 1
      BY <2>1
    <3>2. HowMany(A, l + 1) = HowMany(A, l) + 1
      <4>1. l + 1 \in A
        BY <3>1
      <4> QED  BY <4>1, CountNext
    <3> QED  BY <3>1, <3>2
  <2>4. HowMany(A, k) = Cardinality({j \in A : j < k}) + 1
    <3>1. HowMany(A, k - 1) = Cardinality({j \in A : j < k})
      BY <2>2 DEF HowMany
    <3> QED  BY <2>3, <3>1
  <2>5. HowMany(A, k) \in DOMAIN p /\ p[HowMany(A, k)] = E[k]
    BY <1>3, <2>4 DEF IsPicked
  <2> QED  BY <1>6, <2>5
<1> QED  BY <1>5, <1>6, <1>7, <1>8 DEF IsTexts, T

\* Lines p + 1 to q of a script, as far as they are at places of A.
Stretch(E, A, p, q) == SubSeq(TextsAt(E, A), HowMany(A, p) + 1, HowMany(A, q))

IsStretch(S, E, A, p, q, W) ==
    /\ HowMany(A, p) \in Nat /\ HowMany(A, q) \in Nat /\ HowMany(A, p) <= HowMany(A, q)
    /\ HowMany(A, q) <= Len(TextsAt(E, A)) /\ Len(TextsAt(E, A)) \in Nat
    /\ S \in Seq(W) /\ Len(S) = HowMany(A, q) - HowMany(A, p)
    /\ \A x \in 1..(HowMany(A, q) - HowMany(A, p)) : S[x] = TextsAt(E, A)[HowMany(A, p) + x]

\* The texts of the places from p + 1 to q.
LEMMA StretchOf ==
    ASSUME NEW W, NEW E \in Scripts(W), NEW A, A \subseteq DOMAIN E, NEW p \in 0..Len(E), NEW q \in p..Len(E)
    PROVE  IsStretch(Stretch(E, A, p, q), E, A, p, q, W)
<1> DEFINE T == TextsAt(E, A)
<1>1. T \in Seq(W) /\ Len(T) = HowMany(A, Len(E)) /\ Len(E) \in Nat
  <2>1. Len(E) \in Nat
    BY LenProperties DEF Scripts
  <2> QED  BY <2>1, TextsOfPlaces DEF IsTexts
<1>2. HowMany(A, p) \in Nat /\ HowMany(A, q) \in Nat /\ HowMany(A, p) <= HowMany(A, q) /\ HowMany(A, q) <= Len(T)
      /\ Len(T) \in Nat
  <2>1. p \in 0..q /\ q \in Nat /\ q \in 0..Len(E)
    BY <1>1
  <2> QED  BY <1>1, <2>1, PlaceCounted
<1>3. PICK a, b : a = HowMany(A, p) /\ b = HowMany(A, q)
  OBVIOUS
<1>4. \A i \in (a + 1)..b : T[i] \in W
  <2>1. \A i \in (a + 1)..b : i \in 1..Len(T)
    BY <1>2, <1>3
  <2> QED  BY <1>1, <2>1, ElementOfSeq
<1> HIDE DEF T
<1>5. a + 1 \in Int /\ b \in Int /\ a \in Nat /\ b \in Nat /\ a <= b
  BY <1>2, <1>3
<1>6. /\ SubSeq(T, a + 1, b) \in Seq(W)
      /\ Len(SubSeq(T, a + 1, b)) = IF a + 1 <= b THEN b - (a + 1) + 1 ELSE 0
      /\ \A i \in 1..(b - (a + 1) + 1) : SubSeq(T, a + 1, b)[i] = T[a + 1 + i - 1]
  BY <1>4, <1>5, SubSeqProperties
<1>7. Len(SubSeq(T, a + 1, b)) = b - a /\ \A x \in 1..(b - a) : SubSeq(T, a + 1, b)[x] = T[a + x]
  <2>1. b - (a + 1) + 1 = b - a /\ \A x \in 1..(b - a) : a + 1 + x - 1 = a + x
    BY <1>5
  <2> QED  BY <1>5, <1>6, <2>1
<1>8. Stretch(E, A, p, q) = SubSeq(T, a + 1, b)
  BY <1>3 DEF Stretch, T
<1> QED  BY <1>2, <1>3, <1>6, <1>7, <1>8 DEF T, IsStretch

\* The lines between two places that are on both sides are the same on both.
LEMMA SameBetween ==
    ASSUME NEW W, NEW E \in Scripts(W), NEW A, A \subseteq DOMAIN E, NEW B, B \subseteq DOMAIN E,
           NEW p \in 0..Len(E), NEW q \in p..Len(E), \A k \in (p + 1)..q : k \in A /\ k \in B
    PROVE  Stretch(E, A, p, q) = Stretch(E, B, p, q)
<1>1. Len(E) \in Nat
  BY LenProperties DEF Scripts
<1>2. p \in Nat /\ q \in Nat /\ p <= q /\ q <= Len(E)
  BY <1>1
<1>3. HowMany(A, q) - HowMany(A, p) = q - p /\ HowMany(B, q) - HowMany(B, p) = q - p
  BY <1>2, CountGrows
<1>4. /\ Stretch(E, A, p, q) \in Seq(W) /\ Len(Stretch(E, A, p, q)) = q - p
      /\ Stretch(E, B, p, q) \in Seq(W) /\ Len(Stretch(E, B, p, q)) = q - p
      /\ \A x \in 1..(q - p) : Stretch(E, A, p, q)[x] = TextsAt(E, A)[HowMany(A, p) + x]
      /\ \A x \in 1..(q - p) : Stretch(E, B, p, q)[x] = TextsAt(E, B)[HowMany(B, p) + x]
  <2>1. IsStretch(Stretch(E, A, p, q), E, A, p, q, W)
    BY StretchOf
  <2>2. IsStretch(Stretch(E, B, p, q), E, B, p, q, W)
    BY StretchOf
  <2> QED  BY <1>3, <2>1, <2>2 DEF IsStretch
<1>5. ASSUME NEW x \in 1..(q - p) PROVE Stretch(E, A, p, q)[x] = Stretch(E, B, p, q)[x]
  <2>1. PICK k : k = p + x
    OBVIOUS
  <2>2. k \in Nat /\ p <= k /\ k \in (p + 1)..q /\ k - p = x /\ \A l \in (p + 1)..k : l \in (p + 1)..q
    BY <1>2, <2>1
  <2>3. HowMany(A, k) - HowMany(A, p) = x /\ HowMany(B, k) - HowMany(B, p) = x
    <3>1. \A l \in (p + 1)..k : l \in A /\ l \in B
      BY <2>2
    <3> QED  BY <1>2, <2>2, <3>1, CountGrows
  <2>4. HowMany(A, k) \in Nat /\ HowMany(A, p) \in Nat /\ HowMany(B, k) \in Nat /\ HowMany(B, p) \in Nat
    BY <1>2, <2>2, CountNext
  <2>5. HowMany(A, p) + x = HowMany(A, k) /\ HowMany(B, p) + x = HowMany(B, k)
    BY <1>2, <2>2, <2>3, <2>4
  <2>6. TextsAt(E, A)[HowMany(A, k)] = E[k].text /\ TextsAt(E, B)[HowMany(B, k)] = E[k].text
    BY <2>2, TextsOfPlaces DEF IsTexts
  <2> QED  BY <1>4, <2>5, <2>6
<1> QED  BY <1>4, <1>5, SeqEqual

\* A part of a script is one.
LEMMA PartOfScript ==
    ASSUME NEW W, NEW E \in Scripts(W), NEW i \in 1..Len(E), NEW j \in i..Len(E)
    PROVE  /\ SubSeq(E, i, j) \in Scripts(W) /\ Len(SubSeq(E, i, j)) = j - i + 1
           /\ DOMAIN SubSeq(E, i, j) = 1..(j - i + 1)
           /\ \A m \in 1..(j - i + 1) : SubSeq(E, i, j)[m] = E[m + i - 1] /\ m + i - 1 \in i..j
<1>1. Len(E) \in Nat /\ i \in Int /\ j \in Int /\ i <= j
  BY LenProperties DEF Scripts
<1>2. \A k \in i..j : E[k] \in [tag : {"keep", "del", "add"}, text : W]
  <2>1. \A k \in i..j : k \in 1..Len(E)
    BY <1>1
  <2> QED  BY <2>1, ElementOfSeq DEF Scripts
<1>3. /\ SubSeq(E, i, j) \in Scripts(W) /\ Len(SubSeq(E, i, j)) = IF i <= j THEN j - i + 1 ELSE 0
      /\ \A m \in 1..(j - i + 1) : SubSeq(E, i, j)[m] = E[i + m - 1]
  BY <1>1, <1>2, SubSeqProperties DEF Scripts
<1>4. \A m \in 1..(j - i + 1) : i + m - 1 = m + i - 1 /\ m + i - 1 \in i..j
  BY <1>1
<1>5. DOMAIN SubSeq(E, i, j) = 1..Len(SubSeq(E, i, j))
  BY <1>3, LenProperties DEF Scripts
<1> QED  BY <1>1, <1>3, <1>4, <1>5

\* A side of a part is a stretch of that side.
LEMMA SideOfPart ==
    ASSUME NEW W, NEW E \in Scripts(W), NEW A, A \subseteq DOMAIN E, NEW i \in 1..Len(E), NEW j \in i..Len(E)
    PROVE  TextsAt(SubSeq(E, i, j), PartOf(A, i, j)) = Stretch(E, A, i - 1, j)
<1> DEFINE L == SubSeq(E, i, j)
           B == PartOf(A, i, j)
           T == TextsAt(L, B)
           U == Stretch(E, A, i - 1, j)
<1>1. /\ L \in Scripts(W) /\ Len(L) = j - i + 1 /\ DOMAIN L = 1..(j - i + 1)
      /\ \A m \in 1..(j - i + 1) : L[m] = E[m + i - 1] /\ m + i - 1 \in i..j
  BY PartOfScript
<1>2. B \subseteq DOMAIN L /\ \A m \in B : m \in 1..(j - i + 1) /\ m + i - 1 \in A
  BY <1>1 DEF PartOf
<1>3. Len(E) \in Nat /\ i \in Nat /\ j \in Nat /\ i >= 1 /\ i <= j /\ j <= Len(E) /\ j - i + 1 \in 0..(j - i + 1)
      /\ j - i + 1 \in Nat
  <2>1. Len(E) \in Nat
    BY LenProperties DEF Scripts
  <2> QED  BY <2>1
<1>4. \A k \in 0..(j - i + 1) : HowMany(B, k) = HowMany(A, k + i - 1) - HowMany(A, i - 1)
  BY <1>3, PartCounts
<1>5. HowMany(B, j - i + 1) = HowMany(A, j) - HowMany(A, i - 1)
  <2>1. (j - i + 1) + i - 1 = j
    BY <1>3
  <2> QED  BY <1>3, <1>4, <2>1
<1>6. /\ T \in Seq(W) /\ Len(T) = HowMany(A, j) - HowMany(A, i - 1)
      /\ \A m \in B : T[HowMany(B, m)] = L[m].text
  BY <1>1, <1>2, <1>5, TextsOfPlaces DEF IsTexts
<1>7. /\ U \in Seq(W) /\ Len(U) = HowMany(A, j) - HowMany(A, i - 1)
      /\ HowMany(A, i - 1) \in Nat /\ HowMany(A, j) \in Nat
      /\ \A x \in 1..(HowMany(A, j) - HowMany(A, i - 1)) : U[x] = TextsAt(E, A)[HowMany(A, i - 1) + x]
  <2>1. PICK p : p = i - 1
    OBVIOUS
  <2>2. p \in 0..Len(E) /\ j \in p..Len(E)
    BY <1>3, <2>1
  <2>3. IsStretch(Stretch(E, A, p, j), E, A, p, j, W)
    BY <2>2, StretchOf
  <2> QED  BY <2>1, <2>3 DEF IsStretch
<1> HIDE DEF T, U, L
<1>8. ASSUME NEW x \in 1..Len(T) PROVE T[x] = U[x]
  <2>1. x \in 1..HowMany(B, j - i + 1)
    BY <1>5, <1>6
  <2>2. PICK m \in 1..(j - i + 1) : m \in B /\ HowMany(B, m) = x
    BY <1>3, <2>1, CountReaches
  <2>3. PICK k : k = m + i - 1
    OBVIOUS
  <2>4. k \in A /\ L[m] = E[k] /\ m \in 0..(j - i + 1)
    BY <1>1, <1>2, <1>3, <2>2, <2>3
  <2>5. x = HowMany(A, k) - HowMany(A, i - 1)
    BY <1>4, <2>2, <2>3, <2>4
  <2>6. HowMany(A, k) \in Nat
    <3>1. k \in Nat
      BY <1>3, <2>3
    <3> QED  BY <3>1, CountNext
  <2>7. HowMany(A, i - 1) + x = HowMany(A, k)
    BY <1>7, <2>5, <2>6
  <2>8. TextsAt(E, A)[HowMany(A, k)] = E[k].text
    BY <2>4, TextsOfPlaces DEF IsTexts
  <2> QED  BY <1>6, <1>7, <2>2, <2>4, <2>7, <2>8
<1>9. T = U
  BY <1>6, <1>7, <1>8, SeqEqual
<1> QED  BY <1>9 DEF T, U, L

\* The hunks of a patch, as first and last line.
Bounds(E, n) == Ranked(HunkBounds(E, n), LAMBDA x, y : x[1] < y[1])

IsHunks(Bs, E, n, H) ==
    /\ H \in Nat /\ DOMAIN Bs = 1..H
    /\ \A h \in 1..H : IsRun(Bs[h], Shown(E, n), Len(E))
    /\ \A h, g \in 1..H : h < g => Bs[h][2] + 1 < Bs[g][1]
    /\ \A k \in Shown(E, n) : \E h \in 1..H : k \in Bs[h][1]..Bs[h][2]

\* The hunks of a patch are the runs of shown lines, in their order.
LEMMA HunksOfPatch ==
    ASSUME NEW W, NEW E \in Scripts(W), NEW n \in Nat
    PROVE  /\ \E H : IsHunks(Bounds(E, n), E, n, H)
           /\ Patch(E, n) = [h \in DOMAIN Bounds(E, n) |-> HunkOf(E, Bounds(E, n)[h][1], Bounds(E, n)[h][2])]
<1> DEFINE S == Shown(E, n)
           HB == HunkBounds(E, n)
           N == Len(E)
           R == {e \in HB \X HB : e[1][1] < e[2][1]}
           f == Bounds(E, n)
           H == Cardinality(HB)
<1>1. N \in Nat /\ DOMAIN E = 1..N /\ S \subseteq 1..N
  BY LenProperties DEF Scripts, Shown
<1>2. \A b : b \in HB <=> b \in (1..N) \X (1..N) /\ IsRun(b, S, N)
  <2>1. ASSUME NEW b \in HB PROVE b \in (1..N) \X (1..N) /\ IsRun(b, S, N)
    <3>1. /\ b \in S \X S /\ b[1] <= b[2] /\ b[1]..b[2] \subseteq S /\ b[1] - 1 \notin S /\ b[2] + 1 \notin S
      BY DEF HunkBounds
    <3>2. b = <<b[1], b[2]>> /\ b[1] \in 1..N /\ b[2] \in 1..N /\ b \in (1..N) \X (1..N)
      BY <1>1, <3>1
    <3>3. b[2] \in b[1]..N
      BY <1>1, <3>1, <3>2
    <3> QED  BY <3>1, <3>2, <3>3 DEF IsRun
  <2>2. ASSUME NEW b \in (1..N) \X (1..N), IsRun(b, S, N) PROVE b \in HB
    <3>1. /\ b[1] \in 1..N /\ b[2] \in b[1]..N /\ b = <<b[1], b[2]>> /\ b[1]..b[2] \subseteq S
          /\ b[1] - 1 \notin S /\ b[2] + 1 \notin S
      BY <2>2 DEF IsRun
    <3>2. b[1] <= b[2] /\ b[1] \in b[1]..b[2] /\ b[2] \in b[1]..b[2]
      BY <1>1, <3>1
    <3>3. b \in S \X S
      BY <3>1, <3>2
    <3> QED  BY <3>1, <3>2, <3>3 DEF HunkBounds
  <2> QED  BY <2>1, <2>2
<1> HIDE DEF S, HB, N
<1>3. /\ \A x, y : IsRun(x, S, N) /\ IsRun(y, S, N) => (x[1] < y[1] => x[2] + 1 < y[1]) /\ (x[1] = y[1] => x = y)
      /\ \A k \in S : \E b \in (1..N) \X (1..N) : IsRun(b, S, N) /\ k \in b[1]..b[2]
  BY <1>1, RunsOfShown
<1>4. IsFiniteSet(HB)
  <2>1. IsFiniteSet(1..N)
    BY <1>1, FS_Interval
  <2>2. IsFiniteSet((1..N) \X (1..N))
    BY <2>1, FS_Product
  <2>3. HB \in SUBSET ((1..N) \X (1..N))
    BY <1>2
  <2> QED  BY <2>2, <2>3, FS_Subset
<1>5. InOrderBy(R, HB)
  <2>1. \A x \in HB : x[1] \in Int
    BY <1>2
  <2>2. \A x, y \in HB : <<x, y>> \in R <=> x[1] < y[1]
    OBVIOUS
  <2> HIDE DEF R
  <2>3. \A x \in HB : <<x, x>> \notin R
    BY <2>1, <2>2
  <2>4. \A x, y \in HB : x = y \/ <<x, y>> \in R \/ <<y, x>> \in R
    <3>1. \A x, y \in HB : x[1] = y[1] => x = y
      BY <1>2, <1>3
    <3>2. ASSUME NEW x \in HB, NEW y \in HB PROVE x = y \/ <<x, y>> \in R \/ <<y, x>> \in R
      <4>1. PICK a \in Int, b \in Int : a = x[1] /\ b = y[1]
        BY <2>1
      <4>2. a = b \/ a < b \/ b < a
        OBVIOUS
      <4>3. a = b => x = y
        BY <3>1, <4>1
      <4>4. (a < b => <<x, y>> \in R) /\ (b < a => <<y, x>> \in R)
        BY <2>2, <4>1
      <4> QED  BY <4>2, <4>3, <4>4
    <3> QED  BY <3>2
  <2>5. \A x, y, z \in HB : <<x, y>> \in R /\ <<y, z>> \in R => <<x, z>> \in R
    BY <2>1, <2>2
  <2> QED  BY <2>3, <2>4, <2>5 DEF InOrderBy
<1>6. \A x \in HB : Preceding(R, HB, x) = {y \in HB : y[1] < x[1]}
  BY DEF Preceding
<1>7. H \in Nat /\ \A k \in 1..H : \E x \in HB : Cardinality(Preceding(R, HB, x)) = k - 1
  <2> HIDE DEF R
  <2> QED  BY <1>4, <1>5, PlacesInRow
<1>8. \A k \in 1..H : \E x \in HB : Cardinality({y \in HB : y[1] < x[1]}) = k - 1
  BY <1>6, <1>7
<1>9. f = [k \in 1..H |-> CHOOSE x \in HB : Cardinality({y \in HB : y[1] < x[1]}) = k - 1]
  BY DEF Ranked, Bounds, HB
<1>10. \A k \in 1..H : f[k] \in HB /\ Cardinality({y \in HB : y[1] < f[k][1]}) = k - 1
  <2> HIDE DEF f, H
  <2> QED  BY <1>8, <1>9
<1>11. \A k \in 1..H : f[k] \in HB /\ Cardinality(Preceding(R, HB, f[k])) = k - 1
  BY <1>6, <1>10
<1> HIDE DEF f, R
<1>12. /\ \A x \in HB : /\ Cardinality(Preceding(R, HB, x)) + 1 \in 1..H
                        /\ f[Cardinality(Preceding(R, HB, x)) + 1] = x
       /\ \A i, j \in 1..H : i < j <=> <<f[i], f[j]>> \in R
  BY <1>4, <1>5, <1>11, InRow
<1> HIDE DEF H
<1>13. \A h, g \in 1..H : h < g => f[h][2] + 1 < f[g][1]
  BY <1>2, <1>3, <1>11, <1>12 DEF R
<1>14. \A k \in S : \E h \in 1..H : k \in f[h][1]..f[h][2]
  <2>1. \A k \in S : \E b \in HB : k \in b[1]..b[2]
    BY <1>2, <1>3
  <2> QED  BY <1>12, <2>1
<1>15. DOMAIN f = 1..H
  BY <1>9
<1>16. IsHunks(f, E, n, H)
  BY <1>2, <1>7, <1>11, <1>13, <1>14, <1>15 DEF IsHunks, S, N
<1>17. Patch(E, n) = [h \in DOMAIN f |-> HunkOf(E, f[h][1], f[h][2])]
  BY DEF Patch, f, Bounds
<1> QED  BY <1>16, <1>17 DEF f

\* What a hunk replaces, what it puts there, and after how many lines.
SideFrom(h, side) == IF side = "old" THEN OldOf(h.lines) ELSE NewOf(h.lines)
SideTo(h, side) == IF side = "old" THEN NewOf(h.lines) ELSE OldOf(h.lines)
After(h, side) == LET first == IF side = "old" THEN h.a ELSE h.c
                      length == IF side = "old" THEN h.b ELSE h.d
                  IN IF length > 0 THEN first - 1 ELSE first

\* A hunk of lines i to j of a script with sides A and B.
Replaces(h, side, E, A, B, i, j) ==
    /\ SideFrom(h, side) = Stretch(E, A, i - 1, j) /\ SideTo(h, side) = Stretch(E, B, i - 1, j)
    /\ After(h, side) = HowMany(A, i - 1)

\* What is done after line p of the script.
DoneAt(E, A, B, p) == [ok |-> TRUE, text |-> SubSeq(TextsAt(E, B), 1, HowMany(B, p)), pos |-> HowMany(A, p)]

\* The first p lines, and those from there to q.
LEMMA StretchesJoin ==
    ASSUME NEW W, NEW E \in Scripts(W), NEW A, A \subseteq DOMAIN E, NEW p \in 0..Len(E), NEW q \in p..Len(E)
    PROVE  SubSeq(TextsAt(E, A), 1, HowMany(A, p)) \o Stretch(E, A, p, q) = SubSeq(TextsAt(E, A), 1, HowMany(A, q))
<1>1. IsStretch(Stretch(E, A, p, q), E, A, p, q, W)
  BY StretchOf
<1>2. PICK T : T = TextsAt(E, A)
  OBVIOUS
<1>3. PICK a \in Nat, b \in Nat : a = HowMany(A, p) /\ b = HowMany(A, q)
  BY <1>1 DEF IsStretch
<1>4. T \in Seq(W)
  BY <1>2, TextsOfPlaces DEF IsTexts
<1>5. a <= b /\ b <= Len(T) /\ Len(T) \in Nat
  BY <1>1, <1>2, <1>3 DEF IsStretch
<1>6. 1 \in 1..(Len(T) + 1) /\ a \in (1 - 1)..Len(T) /\ b \in a..Len(T)
  BY <1>5
<1>7. SubSeq(T, 1, a) \o SubSeq(T, a + 1, b) = SubSeq(T, 1, b)
  BY <1>4, <1>6, ConcatAdjacentSubSeq
<1> QED  BY <1>2, <1>3, <1>7 DEF Stretch

\* Applying the hunk of lines i to j to what was done before line i does lines i to j.
LEMMA HunkApplied ==
    ASSUME NEW W, NEW E \in Scripts(W), NEW A, A \subseteq DOMAIN E, NEW B, B \subseteq DOMAIN E,
           NEW i \in 1..Len(E), NEW j \in i..Len(E), NEW p \in 0..(i - 1),
           \A k \in (p + 1)..(i - 1) : k \in A /\ k \in B,
           NEW h, NEW side, Replaces(h, side, E, A, B, i, j)
    PROVE  ApplyHunk(TextsAt(E, A), side, DoneAt(E, A, B, p), h) = DoneAt(E, A, B, j)
<1>1. PICK l \in Nat : l = i - 1 /\ l \in 0..Len(E) /\ p \in 0..l /\ p \in 0..Len(E) /\ l \in p..Len(E) /\ j \in l..Len(E)
  <2>1. Len(E) \in Nat
    BY LenProperties DEF Scripts
  <2> QED  BY <2>1
<1> DEFINE src == TextsAt(E, A)
           done == DoneAt(E, A, B, p)
           from == Stretch(E, A, l, j)
           start == HowMany(A, l)
<1>2. IsStretch(from, E, A, l, j, W)
  BY <1>1, StretchOf
<1>3. IsStretch(Stretch(E, A, p, l), E, A, p, l, W)
  BY <1>1, StretchOf
<1>4. HunkFits(src, from, start, HowMany(A, p))
  <2>1. PICK a \in Nat, b \in Nat, c \in Nat, n \in Nat : a = HowMany(A, p) /\ b = HowMany(A, l) /\ c = HowMany(A, j) /\ n = Len(src)
    BY <1>2, <1>3 DEF IsStretch
  <2>2. a <= b /\ b <= c /\ c <= n /\ Len(from) = c - b /\ \A x \in 1..(c - b) : from[x] = src[b + x]
    BY <1>2, <1>3, <2>1 DEF IsStretch
  <2>3. DOMAIN from = 1..Len(from)
    BY <1>2, LenProperties DEF IsStretch
  <2>4. b + Len(from) <= n
    BY <2>2
  <2>5. \A x \in DOMAIN from : src[b + x] = from[x]
    BY <2>2, <2>3
  <2> HIDE DEF src, from
  <2> QED  BY <2>1, <2>2, <2>4, <2>5 DEF HunkFits
<1>5. start + Len(from) = HowMany(A, j)
  BY <1>2 DEF IsStretch
<1>6. Stretch(E, A, p, l) = Stretch(E, B, p, l)
  BY <1>1, SameBetween
<1>7. SubSeq(src, HowMany(A, p) + 1, start) = Stretch(E, A, p, l)
  BY DEF Stretch
<1>8. SubSeq(TextsAt(E, B), 1, HowMany(B, p)) \o Stretch(E, B, p, l) = SubSeq(TextsAt(E, B), 1, HowMany(B, l))
  BY <1>1, StretchesJoin
<1>9. SubSeq(TextsAt(E, B), 1, HowMany(B, l)) \o Stretch(E, B, l, j) = SubSeq(TextsAt(E, B), 1, HowMany(B, j))
  BY <1>1, StretchesJoin
<1>10. SideFrom(h, side) = from /\ SideTo(h, side) = Stretch(E, B, l, j) /\ After(h, side) = start
  BY <1>1 DEF Replaces
<1>11. done.ok /\ done.pos = HowMany(A, p) /\ done.text = SubSeq(TextsAt(E, B), 1, HowMany(B, p))
  BY DEF DoneAt
<1>12. ApplyHunk(src, side, done, h) =
         IF ~done.ok \/ ~HunkFits(src, SideFrom(h, side), After(h, side), done.pos) THEN Refused
         ELSE [ok |-> TRUE, pos |-> After(h, side) + Len(SideFrom(h, side)),
               text |-> done.text \o SubSeq(src, done.pos + 1, After(h, side)) \o SideTo(h, side)]
  BY DEF ApplyHunk, SideFrom, SideTo, After
<1> HIDE DEF src, done, from, start
<1>13. ApplyHunk(src, side, done, h) =
         [ok |-> TRUE, pos |-> start + Len(from),
          text |-> done.text \o SubSeq(src, done.pos + 1, start) \o Stretch(E, B, l, j)]
  BY <1>4, <1>10, <1>11, <1>12
<1>14. done.text \o SubSeq(src, done.pos + 1, start) \o Stretch(E, B, l, j) = SubSeq(TextsAt(E, B), 1, HowMany(B, j))
  BY <1>6, <1>7, <1>8, <1>9, <1>11
<1>15. ApplyHunk(src, side, done, h) = DoneAt(E, A, B, j)
  BY <1>5, <1>13, <1>14 DEF DoneAt
<1> QED  BY <1>15 DEF src, done

\* What f says is done after each hunk.
IsApplying(f, src, side, P) ==
    f = [i \in 0..Len(P) |-> IF i = 0 THEN [ok |-> TRUE, text |-> <<>>, pos |-> 0]
                             ELSE ApplyHunk(src, side, f[i - 1], P[i])]

\* Where the first h hunks end.
EndOf(Bs, h) == IF h = 0 THEN 0 ELSE Bs[h][2]

\* A patch whose hunks are those of the script.
IsPatchOf(P, side, E, A, B, n, H, Bs) ==
    /\ IsHunks(Bs, E, n, H) /\ Len(P) = H
    /\ \A h \in 1..H : Replaces(P[h], side, E, A, B, Bs[h][1], Bs[h][2])

\* The lines that are on both sides: those of no hunk.
Common(E, A, B, n) == \A k \in DOMAIN E : k \notin Shown(E, n) => k \in A /\ k \in B

\* Each hunk begins after the last one ended, within the script.
LEMMA BetweenHunks ==
    ASSUME NEW W, NEW E \in Scripts(W), NEW n \in Nat, NEW Bs, NEW H, IsHunks(Bs, E, n, H), NEW h \in 0..H
    PROVE  /\ Len(E) \in Nat /\ EndOf(Bs, h) \in 0..Len(E)
           /\ h < H => /\ h + 1 \in 1..H /\ Bs[h + 1][1] \in 1..Len(E) /\ Bs[h + 1][2] \in Bs[h + 1][1]..Len(E)
                       /\ EndOf(Bs, h) \in 0..(Bs[h + 1][1] - 1)
                       /\ \A k \in (EndOf(Bs, h) + 1)..(Bs[h + 1][1] - 1) : k \in DOMAIN E /\ k \notin Shown(E, n)
           /\ h = H => \A k \in (EndOf(Bs, h) + 1)..Len(E) : k \in DOMAIN E /\ k \notin Shown(E, n)
<1>1. Len(E) \in Nat /\ DOMAIN E = 1..Len(E) /\ H \in Nat
  BY LenProperties DEF Scripts, IsHunks
<1>2. \A g \in 1..H : Bs[g][1] \in 1..Len(E) /\ Bs[g][2] \in Bs[g][1]..Len(E)
  BY DEF IsHunks, IsRun
<1>3. \A x, y \in 1..H : x < y => Bs[x][2] + 1 < Bs[y][1]
  BY DEF IsHunks
<1>4. EndOf(Bs, h) \in 0..Len(E)
  BY <1>1, <1>2 DEF EndOf
<1>5. \A g \in 1..h : Bs[g][2] <= EndOf(Bs, h)
  <2>1. ASSUME NEW g \in 1..h PROVE Bs[g][2] <= EndOf(Bs, h)
    <3>1. h \in 1..H /\ g \in 1..H /\ EndOf(Bs, h) = Bs[h][2] /\ (g = h \/ g < h)
      BY <1>1 DEF EndOf
    <3>2. Bs[g][2] \in Int /\ Bs[h][2] \in Int /\ Bs[h][1] \in Int /\ Bs[h][1] <= Bs[h][2]
      BY <1>1, <1>2, <3>1
    <3> QED  BY <1>3, <3>1, <3>2
  <2> QED  BY <2>1
<1>6. ASSUME h < H
      PROVE  /\ h + 1 \in 1..H /\ EndOf(Bs, h) \in 0..(Bs[h + 1][1] - 1)
             /\ \A k \in (EndOf(Bs, h) + 1)..(Bs[h + 1][1] - 1) : k \in DOMAIN E /\ k \notin Shown(E, n)
  <2>1. h + 1 \in 1..H
    BY <1>1, <1>6
  <2>2. PICK g \in 1..H : g = h + 1
    BY <2>1
  <2>3. PICK a \in Nat, e \in Nat : a = Bs[g][1] /\ e = EndOf(Bs, h) /\ a >= 1 /\ a <= Len(E)
    BY <1>1, <1>2, <1>4
  <2>4. e <= a - 1
    <3>1. CASE h = 0
      BY <2>3, <3>1 DEF EndOf
    <3>2. CASE h # 0
      <4>1. h \in 1..H /\ h < g
        BY <1>1, <2>2, <3>2
      <4>2. Bs[h][2] + 1 < Bs[g][1] /\ e = Bs[h][2]
        BY <1>3, <2>3, <3>2, <4>1 DEF EndOf
      <4> QED  BY <2>3, <4>2, SMTT(30)
    <3> QED  BY <3>1, <3>2
  <2>5. ASSUME NEW k \in (e + 1)..(a - 1) PROVE k \in DOMAIN E /\ k \notin Shown(E, n)
    <3>1. k \in DOMAIN E
      BY <1>1, <2>3, SMTT(20)
    <3>2. ASSUME k \in Shown(E, n) PROVE FALSE
      <4>1. PICK x \in 1..H : k \in Bs[x][1]..Bs[x][2]
        BY <3>2 DEF IsHunks
      <4>2. Bs[x][1] \in Int /\ Bs[x][2] \in Int /\ Bs[x][1] <= k /\ k <= Bs[x][2] /\ Bs[g][2] \in Int /\ Bs[x][1] <= Bs[x][2]
        BY <1>1, <1>2, <4>1
      <4>3. x <= h \/ x = g \/ g < x
        BY <1>1, <2>2
      <4>4. x \in 1..h => Bs[x][2] <= e
        BY <1>5, <2>3
      <4>5. g < x => Bs[g][2] + 1 < Bs[x][1]
        BY <1>3
      <4>6. Bs[g][1] <= Bs[g][2]
        BY <1>1, <1>2
      <4>7. k \in Int /\ e + 1 <= k /\ k <= a - 1 /\ Bs[g][1] = a
        BY <2>3
      <4>8. CASE x <= h
        <5>1. x \in 1..h
          BY <1>1, <4>8
        <5> QED  BY <2>3, <4>2, <4>4, <4>7, <5>1, SMTT(30)
      <4>9. CASE x = g
        BY <2>3, <4>2, <4>7, <4>9
      <4>10. CASE g < x
        <5>1. PICK u \in Int, v \in Int : u = Bs[g][2] /\ v = Bs[x][1]
          BY <4>2
        <5>2. u + 1 < v /\ v <= k /\ a <= u
          BY <4>2, <4>5, <4>6, <4>7, <4>10, <5>1
        <5>3. k \in Int /\ k <= a - 1
          BY <4>7
        <5> QED  BY ONLY <5>2, <5>3, u \in Int, v \in Int, a \in Nat
      <4> QED  BY <4>3, <4>8, <4>9, <4>10
    <3> QED  BY <3>1, <3>2
  <2> QED  BY <2>1, <2>2, <2>3, <2>4, <2>5
<1>7. ASSUME h = H PROVE \A k \in (EndOf(Bs, h) + 1)..Len(E) : k \in DOMAIN E /\ k \notin Shown(E, n)
  <2>1. ASSUME NEW k \in (EndOf(Bs, h) + 1)..Len(E), k \in Shown(E, n) PROVE FALSE
    <3>1. PICK x \in 1..H : k \in Bs[x][1]..Bs[x][2]
      BY <2>1 DEF IsHunks
    <3>2. Bs[x][2] <= EndOf(Bs, h) /\ Bs[x][2] \in Int /\ Bs[x][1] \in Int
      BY <1>1, <1>2, <1>5, <1>7
    <3> QED  BY <1>1, <1>4, <3>1, <3>2
  <2>2. \A k \in (EndOf(Bs, h) + 1)..Len(E) : k \in DOMAIN E
    BY <1>1, <1>4
  <2> QED  BY <2>1, <2>2
<1> QED  BY <1>1, <1>2, <1>4, <1>6, <1>7

\* What is done after h hunks is the other side up to the end of hunk h.
LEMMA PatchApplied ==
    ASSUME NEW W, NEW E \in Scripts(W), NEW A, A \subseteq DOMAIN E, NEW B, B \subseteq DOMAIN E,
           NEW n \in Nat, Common(E, A, B, n), NEW side, NEW P, NEW H, NEW Bs,
           IsPatchOf(P, side, E, A, B, n, H, Bs)
    PROVE  Applied(TextsAt(E, A), side, P) = TextsAt(E, B)
<1> DEFINE src == TextsAt(E, A)
           Done(h) == DoneAt(E, A, B, EndOf(Bs, h))
           d == [h \in 0..H |-> Done(h)]
<1>1. H \in Nat /\ Len(P) = H /\ IsHunks(Bs, E, n, H)
  BY DEF IsPatchOf, IsHunks
<1>2. Done(0) = [ok |-> TRUE, text |-> <<>>, pos |-> 0]
  <2>1. HowMany(A, 0) = 0 /\ HowMany(B, 0) = 0
    BY CountNext
  <2>2. TextsAt(E, B) \in Seq(W)
    BY TextsOfPlaces DEF IsTexts
  <2>3. PICK T : T = TextsAt(E, B)
    OBVIOUS
  <2>4. \A i \in 1..0 : T[i] \in W
    OBVIOUS
  <2>5. SubSeq(T, 1, 0) \in Seq(W) /\ Len(SubSeq(T, 1, 0)) = 0
    BY <2>4, SubSeqProperties
  <2>6. SubSeq(T, 1, 0) = <<>>
    BY <2>5, EmptySeq
  <2> QED  BY <2>1, <2>3, <2>6 DEF DoneAt, EndOf
<1>3. ASSUME NEW h \in 1..H PROVE ApplyHunk(src, side, Done(h - 1), P[h]) = Done(h)
  <2>1. PICK g \in 0..H : g = h - 1 /\ g < H /\ h = g + 1
    BY <1>1
  <2>2. /\ Len(E) \in Nat /\ EndOf(Bs, g) \in 0..Len(E)
        /\ Bs[h][1] \in 1..Len(E) /\ Bs[h][2] \in Bs[h][1]..Len(E)
        /\ EndOf(Bs, g) \in 0..(Bs[h][1] - 1)
        /\ \A k \in (EndOf(Bs, g) + 1)..(Bs[h][1] - 1) : k \in DOMAIN E /\ k \notin Shown(E, n)
    <3>1. g \in 0..H /\ n \in Nat
      OBVIOUS
    <3> QED  BY <1>1, <2>1, <3>1, BetweenHunks
  <2>3. PICK i, j, p : i = Bs[h][1] /\ j = Bs[h][2] /\ p = EndOf(Bs, g)
    OBVIOUS
  <2>4. i \in 1..Len(E) /\ j \in i..Len(E) /\ p \in 0..(i - 1)
    BY <2>2, <2>3
  <2>5. \A k \in (p + 1)..(i - 1) : k \in A /\ k \in B
    BY <2>2, <2>3 DEF Common
  <2>6. Replaces(P[h], side, E, A, B, i, j)
    BY <2>3 DEF IsPatchOf
  <2>7. ApplyHunk(TextsAt(E, A), side, DoneAt(E, A, B, p), P[h]) = DoneAt(E, A, B, j)
    BY <2>4, <2>5, <2>6, HunkApplied
  <2>8. EndOf(Bs, h) = j
    BY <1>1, <2>3 DEF EndOf
  <2> QED  BY <2>1, <2>3, <2>7, <2>8
<1> HIDE DEF Done, src
<1>4. IsApplying(d, src, side, P)
  <2>1. \A h \in 0..H : d[h] = IF h = 0 THEN [ok |-> TRUE, text |-> <<>>, pos |-> 0]
                               ELSE ApplyHunk(src, side, d[h - 1], P[h])
    <3>1. ASSUME NEW h \in 0..H, h # 0 PROVE d[h] = ApplyHunk(src, side, d[h - 1], P[h])
      <4>1. h \in 1..H /\ h - 1 \in 0..H
        BY <1>1, <3>1
      <4>2. d[h] = Done(h) /\ d[h - 1] = Done(h - 1)
        BY <4>1
      <4> HIDE DEF d
      <4> QED  BY <1>3, <4>1, <4>2
    <3>2. 0 \in 0..H /\ d[0] = Done(0)
      BY <1>1
    <3> HIDE DEF d
    <3> QED  BY <1>2, <3>1, <3>2
  <2>2. d = [h \in 0..H |-> d[h]]
    OBVIOUS
  <2> HIDE DEF d
  <2> QED  BY <1>1, <2>1, <2>2 DEF IsApplying
<1>5. ASSUME NEW f, IsApplying(f, src, side, P) PROVE f[H] = Done(H)
  <2> DEFINE G == {h \in Nat : h <= H => f[h] = Done(h)}
  <2>1. \A h \in 0..H : f[h] = IF h = 0 THEN [ok |-> TRUE, text |-> <<>>, pos |-> 0]
                               ELSE ApplyHunk(src, side, f[h - 1], P[h])
    <3>1. f = [h \in 0..H |-> IF h = 0 THEN [ok |-> TRUE, text |-> <<>>, pos |-> 0]
                               ELSE ApplyHunk(src, side, f[h - 1], P[h])]
      BY <1>1, <1>5 DEF IsApplying
    <3> QED  BY <3>1
  <2>2. 0 \in G
    <3>1. 0 \in 0..H
      BY <1>1
    <3>2. f[0] = Done(0)
      BY <1>2, <2>1, <3>1
    <3> QED  BY <3>2
  <2>3. ASSUME NEW h \in Nat, h \in G PROVE h + 1 \in G
    <3>1. ASSUME h + 1 <= H PROVE f[h + 1] = Done(h + 1)
      <4>1. h + 1 \in 0..H /\ h + 1 \in 1..H /\ h + 1 # 0 /\ (h + 1) - 1 = h /\ h <= H
        BY <1>1, <3>1
      <4>2. f[h] = Done(h)
        BY <2>3, <4>1
      <4>3. f[h + 1] = ApplyHunk(src, side, f[h], P[h + 1])
        BY <2>1, <4>1
      <4>4. ApplyHunk(src, side, Done(h), P[h + 1]) = Done(h + 1)
        BY <1>3, <4>1
      <4> QED  BY <4>2, <4>3, <4>4
    <3> QED  BY <3>1
  <2>4. Nat \subseteq G
    <3> HIDE DEF G
    <3> QED  BY <2>2, <2>3, SetInduction
  <2>5. H \in G
    BY <1>1, <2>4
  <2> QED  BY <1>1, <2>5
<1> DEFINE f == CHOOSE f : IsApplying(f, src, side, P)
<1>6. Applied(src, side, P) = LET all == f[Len(P)] IN IF all.ok THEN all.text \o SubSeq(src, all.pos + 1, Len(src)) ELSE None
  BY DEF Applied, IsApplying
<1>7. IsApplying(f, src, side, P)
  <2> HIDE DEF d
  <2> QED  BY <1>4
<1> HIDE DEF f, d
<1>8. f[H] = Done(H)
  BY <1>5, <1>7
<1>9. PICK e : e = EndOf(Bs, H) /\ e \in 0..Len(E) /\ Len(E) \in Nat
               /\ \A k \in (e + 1)..Len(E) : k \in DOMAIN E /\ k \notin Shown(E, n)
  <2>1. H \in 0..H
    BY <1>1
  <2> QED  BY <1>1, <2>1, BetweenHunks
<1>10. Done(H) = DoneAt(E, A, B, e)
  BY <1>9 DEF Done
<1>11. Applied(src, side, P) = SubSeq(TextsAt(E, B), 1, HowMany(B, e)) \o SubSeq(src, HowMany(A, e) + 1, Len(src))
  <2>1. PICK all : all = DoneAt(E, A, B, e)
    OBVIOUS
  <2>2. all.ok /\ all.text = SubSeq(TextsAt(E, B), 1, HowMany(B, e)) /\ all.pos = HowMany(A, e)
    BY <2>1 DEF DoneAt
  <2>3. f[Len(P)] = all
    BY <1>1, <1>8, <1>10, <2>1
  <2> QED  BY <1>6, <2>2, <2>3
<1>12. Len(src) = HowMany(A, Len(E)) /\ Len(TextsAt(E, B)) = HowMany(B, Len(E)) /\ TextsAt(E, B) \in Seq(W)
  BY TextsOfPlaces DEF IsTexts, src
<1>13. SubSeq(src, HowMany(A, e) + 1, Len(src)) = Stretch(E, A, e, Len(E))
  BY <1>12 DEF Stretch, src
<1>14. PICK q : q = Len(E) /\ q \in Nat /\ q \in e..Len(E)
  BY <1>9
<1>15. Stretch(E, A, e, q) = Stretch(E, B, e, q)
  <2>1. \A k \in (e + 1)..q : k \in A /\ k \in B
    BY <1>9, <1>14 DEF Common
  <2> QED  BY <1>9, <1>14, <2>1, SameBetween
<1>16. SubSeq(TextsAt(E, B), 1, HowMany(B, e)) \o Stretch(E, B, e, q) = SubSeq(TextsAt(E, B), 1, HowMany(B, q))
  BY <1>9, <1>14, StretchesJoin
<1>17. SubSeq(TextsAt(E, B), 1, HowMany(B, q)) = TextsAt(E, B)
  <2>1. PICK T : T = TextsAt(E, B)
    OBVIOUS
  <2>2. SubSeq(T, 1, Len(T)) = T
    BY <1>12, <2>1, SubSeqFull
  <2> QED  BY <1>12, <1>14, <2>1, <2>2
<1> QED  BY <1>11, <1>13, <1>14, <1>15, <1>16, <1>17 DEF src

\* The lines of the two sides of a script.
OldPlaces(E) == {k \in DOMAIN E : IsOld(E[k])}
NewPlaces(E) == {k \in DOMAIN E : IsNew(E[k])}

\* The sides of a script, how many lines of each come first.
LEMMA SidesOfScript ==
    ASSUME NEW W, NEW E \in Scripts(W)
    PROVE  /\ OldOf(E) = TextsAt(E, OldPlaces(E)) /\ NewOf(E) = TextsAt(E, NewPlaces(E))
           /\ \A k \in 0..Len(E) : /\ Olds(E, k) = HowMany(OldPlaces(E), k)
                                   /\ News(E, k) = HowMany(NewPlaces(E), k)
           /\ Len(E) \in Nat /\ DOMAIN E = 1..Len(E) /\ OldPlaces(E) \subseteq DOMAIN E /\ NewPlaces(E) \subseteq DOMAIN E
           /\ \A k \in DOMAIN E : E[k].tag \in {"keep", "del", "add"} /\ E[k].text \in W
           /\ \A k \in DOMAIN E : /\ k \in OldPlaces(E) <=> E[k].tag \in {"keep", "del"}
                                  /\ k \in NewPlaces(E) <=> E[k].tag \in {"keep", "add"}
<1>1. Len(E) \in Nat /\ DOMAIN E = 1..Len(E)
  BY LenProperties DEF Scripts
<1>2. \A k \in DOMAIN E : E[k].tag \in {"keep", "del", "add"} /\ E[k].text \in W
  <2>1. \A k \in 1..Len(E) : E[k] \in [tag : {"keep", "del", "add"}, text : W]
    BY <1>1, ElementOfSeq DEF Scripts
  <2> QED  BY <1>1, <2>1
<1>3. ASSUME NEW k \in 0..Len(E)
      PROVE  Olds(E, k) = HowMany(OldPlaces(E), k) /\ News(E, k) = HowMany(NewPlaces(E), k)
  <2>1. {j \in 1..k : IsOld(E[j])} = {j \in 1..k : j \in OldPlaces(E)}
    BY <1>1 DEF OldPlaces
  <2>2. {j \in 1..k : IsNew(E[j])} = {j \in 1..k : j \in NewPlaces(E)}
    BY <1>1 DEF NewPlaces
  <2> QED  BY <2>1, <2>2 DEF Olds, News, HowMany
<1>4. OldOf(E) = TextsAt(E, OldPlaces(E)) /\ NewOf(E) = TextsAt(E, NewPlaces(E))
  BY DEF OldOf, NewOf, TextsAt, OldPlaces, NewPlaces
<1>5. \A k \in DOMAIN E : /\ k \in OldPlaces(E) <=> E[k].tag \in {"keep", "del"}
                          /\ k \in NewPlaces(E) <=> E[k].tag \in {"keep", "add"}
  BY <1>2 DEF OldPlaces, NewPlaces, IsOld, IsNew
<1> QED  BY <1>1, <1>2, <1>3, <1>4, <1>5 DEF OldPlaces, NewPlaces

\* A hunk of lines i to j of script E.
IsHunk(h, E, W, i, j) ==
    /\ h = [a |-> h.a, b |-> h.b, c |-> h.c, d |-> h.d, lines |-> h.lines]
    /\ h.lines \in Scripts(W) /\ Len(h.lines) = j - i + 1 /\ DOMAIN h.lines = 1..(j - i + 1)
    /\ \A m \in 1..(j - i + 1) : h.lines[m] = E[m + i - 1]
    /\ \A k \in 0..(j - i + 1) :
          /\ Olds(h.lines, k) = HowMany(OldPlaces(E), k + i - 1) - HowMany(OldPlaces(E), i - 1)
          /\ News(h.lines, k) = HowMany(NewPlaces(E), k + i - 1) - HowMany(NewPlaces(E), i - 1)
    /\ h.b = HowMany(OldPlaces(E), j) - HowMany(OldPlaces(E), i - 1) /\ h.b \in Nat
    /\ h.d = HowMany(NewPlaces(E), j) - HowMany(NewPlaces(E), i - 1) /\ h.d \in Nat
    /\ h.a = HowMany(OldPlaces(E), i - 1) + (IF h.b = 0 THEN 0 ELSE 1)
    /\ h.c = HowMany(NewPlaces(E), i - 1) + (IF h.d = 0 THEN 0 ELSE 1)
    /\ OldOf(h.lines) = Stretch(E, OldPlaces(E), i - 1, j)
    /\ NewOf(h.lines) = Stretch(E, NewPlaces(E), i - 1, j)

\* The two sides of a part of a script.
LEMMA SidesOfPart ==
    ASSUME NEW W, NEW E \in Scripts(W), NEW i \in 1..Len(E), NEW j \in i..Len(E)
    PROVE  /\ OldPlaces(SubSeq(E, i, j)) = PartOf(OldPlaces(E), i, j)
           /\ NewPlaces(SubSeq(E, i, j)) = PartOf(NewPlaces(E), i, j)
<1>1. /\ DOMAIN SubSeq(E, i, j) = 1..(j - i + 1)
      /\ \A m \in 1..(j - i + 1) : SubSeq(E, i, j)[m] = E[m + i - 1] /\ m + i - 1 \in i..j
  BY PartOfScript
<1>2. Len(E) \in Nat /\ DOMAIN E = 1..Len(E)
  BY LenProperties DEF Scripts
<1>3. \A m \in 1..(j - i + 1) : m + i - 1 \in DOMAIN E
  BY <1>1, <1>2
<1>4. PICK L : L = SubSeq(E, i, j)
  OBVIOUS
<1>5. DOMAIN L = 1..(j - i + 1) /\ \A m \in 1..(j - i + 1) : L[m] = E[m + i - 1]
  BY <1>1, <1>4
<1>6. OldPlaces(L) = PartOf(OldPlaces(E), i, j)
  BY <1>3, <1>5 DEF OldPlaces, PartOf
<1>7. NewPlaces(L) = PartOf(NewPlaces(E), i, j)
  BY <1>3, <1>5 DEF NewPlaces, PartOf
<1> QED  BY <1>4, <1>6, <1>7

\* The header of the hunk of lines i to j, its lines and its counts.
LEMMA HunkFacts ==
    ASSUME NEW W, NEW E \in Scripts(W), NEW i \in 1..Len(E), NEW j \in i..Len(E)
    PROVE  IsHunk(HunkOf(E, i, j), E, W, i, j)
<1> DEFINE L == SubSeq(E, i, j)
           h == HunkOf(E, i, j)
           O == OldPlaces(E)
           N == NewPlaces(E)
<1>1. /\ L \in Scripts(W) /\ Len(L) = j - i + 1 /\ DOMAIN L = 1..(j - i + 1)
      /\ \A m \in 1..(j - i + 1) : L[m] = E[m + i - 1]
  BY PartOfScript
<1>2. O \subseteq DOMAIN E /\ N \subseteq DOMAIN E /\ Len(E) \in Nat
  BY SidesOfScript
<1>3. OldPlaces(L) = PartOf(O, i, j) /\ NewPlaces(L) = PartOf(N, i, j)
  BY SidesOfPart
<1>4. i \in Nat /\ i >= 1 /\ j \in Nat /\ i <= j /\ j <= Len(E) /\ j - i + 1 \in Nat /\ j - i + 1 \in 0..(j - i + 1)
      /\ (j - i + 1) + i - 1 = j /\ i - 1 \in Nat /\ i - 1 <= j /\ i - 1 \in 0..Len(E) /\ j \in 0..Len(E)
  BY <1>2
<1>5. /\ OldOf(L) = TextsAt(L, OldPlaces(L)) /\ NewOf(L) = TextsAt(L, NewPlaces(L))
      /\ \A k \in 0..(j - i + 1) : Olds(L, k) = HowMany(OldPlaces(L), k) /\ News(L, k) = HowMany(NewPlaces(L), k)
  <2> HIDE DEF L
  <2> QED  BY <1>1, SidesOfScript
<1>6. TextsAt(L, PartOf(O, i, j)) = Stretch(E, O, i - 1, j) /\ TextsAt(L, PartOf(N, i, j)) = Stretch(E, N, i - 1, j)
  <2> HIDE DEF O, N
  <2>1. TextsAt(SubSeq(E, i, j), PartOf(O, i, j)) = Stretch(E, O, i - 1, j)
    BY <1>2, SideOfPart
  <2>2. TextsAt(SubSeq(E, i, j), PartOf(N, i, j)) = Stretch(E, N, i - 1, j)
    BY <1>2, SideOfPart
  <2> QED  BY <2>1, <2>2
<1>7. ASSUME NEW k \in 0..(j - i + 1)
      PROVE  /\ Olds(L, k) = HowMany(O, k + i - 1) - HowMany(O, i - 1)
             /\ News(L, k) = HowMany(N, k + i - 1) - HowMany(N, i - 1)
  <2> HIDE DEF O, N, L
  <2>1. HowMany(PartOf(O, i, j), k) = HowMany(O, k + i - 1) - HowMany(O, i - 1)
    BY <1>4, PartCounts
  <2>2. HowMany(PartOf(N, i, j), k) = HowMany(N, k + i - 1) - HowMany(N, i - 1)
    BY <1>4, PartCounts
  <2> QED  BY <1>3, <1>5, <2>1, <2>2
<1>8. Olds(L, Len(L)) = HowMany(O, j) - HowMany(O, i - 1) /\ News(L, Len(L)) = HowMany(N, j) - HowMany(N, i - 1)
  <2> HIDE DEF O, N, L
  <2> QED  BY <1>1, <1>4, <1>7
<1>9. HowMany(O, j) - HowMany(O, i - 1) \in Nat /\ HowMany(N, j) - HowMany(N, i - 1) \in Nat
      /\ HowMany(O, i - 1) \in Nat /\ HowMany(N, i - 1) \in Nat
  <2> HIDE DEF O, N
  <2>1. PICK l \in Nat : l = i - 1 /\ l <= j
    BY <1>4
  <2>2. HowMany(O, l) \in Nat /\ HowMany(O, j) \in Nat /\ HowMany(N, l) \in Nat /\ HowMany(N, j) \in Nat
    BY <1>4, CountNext
  <2>3. HowMany(O, l) <= HowMany(O, j)
    BY <1>4, <2>1, CountGrows
  <2>4. HowMany(N, l) <= HowMany(N, j)
    BY <1>4, <2>1, CountGrows
  <2> QED  BY <2>1, <2>2, <2>3, <2>4
<1>10. Olds(E, i - 1) = HowMany(O, i - 1) /\ News(E, i - 1) = HowMany(N, i - 1)
  BY <1>4, SidesOfScript
<1> HIDE DEF L, O, N
<1>11. h = [a |-> RangeStart(Olds(E, i - 1), Olds(L, Len(L))), b |-> Olds(L, Len(L)),
            c |-> RangeStart(News(E, i - 1), News(L, Len(L))), d |-> News(L, Len(L)), lines |-> L]
  BY DEF HunkOf, L
<1> HIDE DEF h
<1>12. /\ h = [a |-> h.a, b |-> h.b, c |-> h.c, d |-> h.d, lines |-> h.lines]
       /\ h.a = RangeStart(Olds(E, i - 1), Olds(L, Len(L))) /\ h.b = Olds(L, Len(L))
       /\ h.c = RangeStart(News(E, i - 1), News(L, Len(L))) /\ h.d = News(L, Len(L)) /\ h.lines = L
  BY <1>11
<1>13. h.b = HowMany(O, j) - HowMany(O, i - 1) /\ h.b \in Nat /\ h.d = HowMany(N, j) - HowMany(N, i - 1) /\ h.d \in Nat
  BY <1>8, <1>9, <1>12
<1>14. h.a = HowMany(O, i - 1) + (IF h.b = 0 THEN 0 ELSE 1) /\ h.c = HowMany(N, i - 1) + (IF h.d = 0 THEN 0 ELSE 1)
  BY <1>9, <1>10, <1>12 DEF RangeStart
<1>15. OldOf(h.lines) = Stretch(E, O, i - 1, j) /\ NewOf(h.lines) = Stretch(E, N, i - 1, j)
  BY <1>3, <1>5, <1>6, <1>12
<1>16. \A k \in 0..(j - i + 1) : /\ Olds(h.lines, k) = HowMany(O, k + i - 1) - HowMany(O, i - 1)
                                /\ News(h.lines, k) = HowMany(N, k + i - 1) - HowMany(N, i - 1)
  BY <1>7, <1>12
<1>17. h.lines \in Scripts(W) /\ Len(h.lines) = j - i + 1 /\ DOMAIN h.lines = 1..(j - i + 1)
       /\ \A m \in 1..(j - i + 1) : h.lines[m] = E[m + i - 1]
  BY <1>1, <1>12
<1>18. h = [a |-> h.a, b |-> h.b, c |-> h.c, d |-> h.d, lines |-> h.lines]
  BY <1>12
<1> QED  BY <1>13, <1>14, <1>15, <1>16, <1>17, <1>18 DEF IsHunk, O, N, h

\* A hunk replaces the one side of its lines by the other.
LEMMA HunkReplaces ==
    ASSUME NEW W, NEW E, NEW i, NEW j, NEW h, IsHunk(h, E, W, i, j), HowMany(OldPlaces(E), i - 1) \in Nat,
           HowMany(NewPlaces(E), i - 1) \in Nat
    PROVE  /\ Replaces(h, "old", E, OldPlaces(E), NewPlaces(E), i, j)
           /\ Replaces(h, "new", E, NewPlaces(E), OldPlaces(E), i, j)
<1>1. "new" # "old"
  OBVIOUS
<1>2. After(h, "old") = HowMany(OldPlaces(E), i - 1) /\ After(h, "new") = HowMany(NewPlaces(E), i - 1)
  BY <1>1 DEF IsHunk, After
<1>3. /\ SideFrom(h, "old") = Stretch(E, OldPlaces(E), i - 1, j) /\ SideTo(h, "old") = Stretch(E, NewPlaces(E), i - 1, j)
      /\ SideFrom(h, "new") = Stretch(E, NewPlaces(E), i - 1, j) /\ SideTo(h, "new") = Stretch(E, OldPlaces(E), i - 1, j)
  BY <1>1 DEF IsHunk, SideFrom, SideTo
<1> QED  BY <1>2, <1>3 DEF Replaces

\* A patch of a script.
IsPatch(P, E, W, n, H, Bs) ==
    /\ IsHunks(Bs, E, n, H) /\ P \in Seq({P[h] : h \in 1..H}) /\ Len(P) = H /\ DOMAIN P = 1..H
    /\ \A h \in 1..H : IsHunk(P[h], E, W, Bs[h][1], Bs[h][2])

\* A patch has the hunks of the runs of shown lines.
LEMMA PatchFacts ==
    ASSUME NEW W, NEW E \in Scripts(W), NEW n \in Nat
    PROVE  \E H, Bs : H \in Nat /\ IsPatch(Patch(E, n), E, W, n, H, Bs)
<1>1. PICK H : IsHunks(Bounds(E, n), E, n, H)
  BY HunksOfPatch
<1>2. PICK Bs : Bs = Bounds(E, n)
  OBVIOUS
<1>3. H \in Nat /\ DOMAIN Bs = 1..H /\ \A h \in 1..H : Bs[h][1] \in 1..Len(E) /\ Bs[h][2] \in Bs[h][1]..Len(E)
  BY <1>1, <1>2 DEF IsHunks, IsRun
<1>4. PICK P : P = Patch(E, n)
  OBVIOUS
<1>5. P = [h \in 1..H |-> HunkOf(E, Bs[h][1], Bs[h][2])]
  <2>1. Patch(E, n) = [h \in DOMAIN Bounds(E, n) |-> HunkOf(E, Bounds(E, n)[h][1], Bounds(E, n)[h][2])]
    BY HunksOfPatch
  <2> QED  BY <1>2, <1>3, <1>4, <2>1
<1>6. DOMAIN P = 1..H /\ P = [h \in 1..H |-> P[h]] /\ \A h \in 1..H : P[h] \in {P[g] : g \in 1..H}
  BY <1>5
<1>7. P \in Seq({P[h] : h \in 1..H}) /\ Len(P) = H
  <2>1. PICK S : S = {P[h] : h \in 1..H}
    OBVIOUS
  <2>2. \A h \in 1..H : P[h] \in S
    BY <2>1
  <2>3. P \in Seq(S) /\ Len(P) = H
    BY <1>3, <1>6, <2>2, ListIsSeq
  <2> QED  BY <2>1, <2>3
<1>8. \A h \in 1..H : IsHunk(P[h], E, W, Bs[h][1], Bs[h][2])
  <2>1. ASSUME NEW h \in 1..H PROVE IsHunk(P[h], E, W, Bs[h][1], Bs[h][2])
    <3>1. PICK i, j : i = Bs[h][1] /\ j = Bs[h][2]
      OBVIOUS
    <3>2. i \in 1..Len(E) /\ j \in i..Len(E)
      BY <1>3, <3>1
    <3>3. IsHunk(HunkOf(E, i, j), E, W, i, j)
      BY <3>2, HunkFacts
    <3>4. P[h] = HunkOf(E, i, j)
      BY <1>5, <3>1
    <3> QED  BY <3>1, <3>3, <3>4
  <2> QED  BY <2>1
<1>9. IsPatch(P, E, W, n, H, Bs)
  BY <1>1, <1>2, <1>6, <1>7, <1>8 DEF IsPatch
<1> QED  BY <1>3, <1>4, <1>9

\* No line but the last uses up the counts of the header.
Unspent(L, b, d) == \A k \in 0..(Len(L) - 1) : ~(Olds(L, k) >= b /\ News(L, k) >= d)

\* A hunk is read to its last line, and not beyond.
LEMMA HunkUnspent ==
    ASSUME NEW W, NEW E \in Scripts(W), NEW i \in 1..Len(E), NEW j \in i..Len(E), NEW h, IsHunk(h, E, W, i, j)
    PROVE  /\ Unspent(h.lines, h.b, h.d) /\ Len(h.lines) \in Nat /\ Len(h.lines) >= 1
           /\ Olds(h.lines, Len(h.lines)) = h.b /\ News(h.lines, Len(h.lines)) = h.d
<1> DEFINE O == OldPlaces(E)
           N == NewPlaces(E)
<1>1. /\ Len(E) \in Nat /\ DOMAIN E = 1..Len(E) /\ \A k \in DOMAIN E : k \in O \/ k \in N
  BY SidesOfScript
<1>2. i \in Nat /\ i >= 1 /\ j \in Nat /\ i <= j /\ j <= Len(E)
  BY <1>1
<1> HIDE DEF O, N
<1>3. /\ Len(h.lines) = j - i + 1
      /\ \A k \in 0..(j - i + 1) : /\ Olds(h.lines, k) = HowMany(O, k + i - 1) - HowMany(O, i - 1)
                                   /\ News(h.lines, k) = HowMany(N, k + i - 1) - HowMany(N, i - 1)
      /\ h.b = HowMany(O, j) - HowMany(O, i - 1) /\ h.d = HowMany(N, j) - HowMany(N, i - 1)
  BY DEF IsHunk, O, N
<1>4. ASSUME NEW k \in 0..(j - i) PROVE ~(Olds(h.lines, k) >= h.b /\ News(h.lines, k) >= h.d)
  <2>1. PICK l \in Nat, m \in Nat : l = k + i - 1 /\ l < j /\ m = i - 1 /\ l + 1 \in 1..Len(E)
    BY <1>2
  <2>2. HowMany(O, l) \in Nat /\ HowMany(O, j) \in Nat /\ HowMany(N, l) \in Nat /\ HowMany(N, j) \in Nat
        /\ HowMany(O, m) \in Nat /\ HowMany(N, m) \in Nat
    BY <1>2, CountNext
  <2>3. l + 1 \in O => HowMany(O, l) < HowMany(O, j)
    BY <1>2, <2>1, CountGrows
  <2>4. l + 1 \in N => HowMany(N, l) < HowMany(N, j)
    BY <1>2, <2>1, CountGrows
  <2>5. l + 1 \in O \/ l + 1 \in N
    BY <1>1, <2>1
  <2>6. k \in 0..(j - i + 1)
    BY <1>2
  <2>7. /\ Olds(h.lines, k) = HowMany(O, l) - HowMany(O, m) /\ News(h.lines, k) = HowMany(N, l) - HowMany(N, m)
        /\ h.b = HowMany(O, j) - HowMany(O, m) /\ h.d = HowMany(N, j) - HowMany(N, m)
    BY <1>3, <2>1, <2>6
  <2> QED  BY ONLY <2>2, <2>3, <2>4, <2>5, <2>7
<1>5. Len(h.lines) - 1 = j - i /\ Len(h.lines) \in Nat /\ Len(h.lines) >= 1
  BY <1>2, <1>3
<1>6. Olds(h.lines, Len(h.lines)) = h.b /\ News(h.lines, Len(h.lines)) = h.d
  <2>1. j - i + 1 \in 0..(j - i + 1) /\ (j - i + 1) + i - 1 = j
    BY <1>2
  <2> QED  BY <1>3, <2>1
<1> QED  BY <1>4, <1>5, <1>6 DEF Unspent

\* A hunk whose counts last is read with all its lines.
LEMMA ReadWhole ==
    ASSUME NEW W, NEW h, h.lines \in Scripts(W), NEW n \in Nat, n = Len(h.lines),
           \A k \in 0..(n - 1) : ~(Olds(h.lines, k) >= h.b /\ News(h.lines, k) >= h.d)
    PROVE  Parsed(h) = [h EXCEPT !.lines = h.lines]
<1> DEFINE spent(k) == Olds(h.lines, k) >= h.b /\ News(h.lines, k) >= h.d
           Q(k) == (spent(k) \/ k = n) /\ \A j \in 0..(k - 1) : ~spent(j)
           upto == CHOOSE k \in 0..n : Q(k)
<1>1. Parsed(h) = [h EXCEPT !.lines = SubSeq(h.lines, 1, upto)]
  BY DEF Parsed
<1>2. \A k \in 0..(n - 1) : ~spent(k)
  OBVIOUS
<1> HIDE DEF spent
<1>3. n \in 0..n /\ Q(n)
  BY <1>2
<1>4. \A k \in 0..n : Q(k) => k = n
  <2>1. \A k \in 0..n : k = n \/ k \in 0..(n - 1)
    OBVIOUS
  <2> QED  BY <1>2, <2>1
<1> HIDE DEF Q
<1>5. upto \in 0..n /\ Q(upto)
  BY <1>3
<1>6. upto = n
  BY <1>4, <1>5
<1>7. PICK L : L = h.lines
  OBVIOUS
<1>8. SubSeq(L, 1, Len(L)) = L
  BY <1>7, SubSeqFull DEF Scripts
<1> QED  BY <1>1, <1>6, <1>7, <1>8

\* The lines of a list but the last.
LEMMA AllButLast ==
    ASSUME NEW S, NEW s \in Seq(S), Len(s) >= 1
    PROVE  /\ Front(s) \in Seq(S) /\ Len(Front(s)) = Len(s) - 1 /\ Len(s) - 1 \in Nat
           /\ \A x \in 1..(Len(s) - 1) : Front(s)[x] = s[x]
<1>1. Len(s) \in Nat /\ DOMAIN s = 1..Len(s)
  BY LenProperties
<1>2. PICK m \in Nat : m = Len(s) - 1
  <2>1. Len(s) - 1 \in Nat
    BY <1>1
  <2> QED  BY <2>1
<1>3. \A x \in 1..m : s[x] \in S
  <2>1. \A x \in 1..m : x \in 1..Len(s)
    BY <1>1, <1>2
  <2> QED  BY <2>1, ElementOfSeq
<1>4. /\ SubSeq(s, 1, m) \in Seq(S) /\ Len(SubSeq(s, 1, m)) = IF 1 <= m THEN m - 1 + 1 ELSE 0
      /\ \A x \in 1..(m - 1 + 1) : SubSeq(s, 1, m)[x] = s[1 + x - 1]
  BY <1>3, SubSeqProperties
<1>5. Len(SubSeq(s, 1, m)) = m /\ m - 1 + 1 = m /\ \A x \in 1..m : 1 + x - 1 = x
  BY <1>4
<1>6. Front(s) = SubSeq(s, 1, m)
  BY <1>2 DEF Front
<1> QED  BY <1>2, <1>4, <1>5, <1>6

\* A hunk that is cut off is noticed.
LEMMA CutIsNoticed ==
    ASSUME NEW W, NEW E \in Scripts(W), NEW i \in 1..Len(E), NEW j \in i..Len(E), NEW h, IsHunk(h, E, W, i, j)
    PROVE  ~Whole(Parsed([h EXCEPT !.lines = Front(h.lines)]))
<1> DEFINE L == h.lines
           F == Front(L)
           c == [h EXCEPT !.lines = Front(h.lines)]
<1>1. /\ Unspent(L, h.b, h.d) /\ Len(L) \in Nat /\ Len(L) >= 1
  BY HunkUnspent
<1>2. L \in Scripts(W)
  BY DEF IsHunk
<1>3. /\ F \in Scripts(W) /\ Len(F) = Len(L) - 1 /\ Len(L) - 1 \in Nat /\ \A x \in 1..(Len(L) - 1) : F[x] = L[x]
  BY <1>1, <1>2, AllButLast DEF Scripts
<1>4. c.lines = F /\ c.b = h.b /\ c.d = h.d /\ [c EXCEPT !.lines = c.lines] = c
  <2>1. h = [a |-> h.a, b |-> h.b, c |-> h.c, d |-> h.d, lines |-> h.lines]
    BY DEF IsHunk
  <2>2. PICK g : g = F
    OBVIOUS
  <2>3. PICK x, y, z, w, l : h = [a |-> x, b |-> y, c |-> z, d |-> w, lines |-> l]
    BY <2>1
  <2>4. c = [a |-> x, b |-> y, c |-> z, d |-> w, lines |-> g]
    BY <2>2, <2>3
  <2> HIDE DEF c
  <2>5. c.lines = g /\ c.b = y /\ c.d = w /\ [c EXCEPT !.lines = c.lines] = c /\ h.b = y /\ h.d = w
    BY <2>3, <2>4
  <2> QED  BY <2>2, <2>5
<1> HIDE DEF c
<1>5. ASSUME NEW k \in 0..(Len(L) - 1) PROVE ~(Olds(F, k) >= h.b /\ News(F, k) >= h.d)
  <2>1. {x \in 1..k : IsOld(F[x])} = {x \in 1..k : IsOld(L[x])} /\ {x \in 1..k : IsNew(F[x])} = {x \in 1..k : IsNew(L[x])}
    <3>1. \A x \in 1..k : F[x] = L[x]
      BY <1>1, <1>3
    <3> QED  BY <3>1
  <2>2. Olds(F, k) = Olds(L, k) /\ News(F, k) = News(L, k)
    BY <2>1 DEF Olds, News
  <2> QED  BY <1>1, <2>2 DEF Unspent
<1> HIDE DEF L, F
<1>6. Parsed(c) = c
  <2>1. PICK n \in Nat : n = Len(c.lines) /\ n = Len(L) - 1
    BY <1>3, <1>4
  <2>2. \A k \in 0..(n - 1) : ~(Olds(c.lines, k) >= c.b /\ News(c.lines, k) >= c.d)
    <3>1. \A k \in 0..(n - 1) : k \in 0..(Len(L) - 1)
      BY <2>1
    <3> QED  BY <1>4, <1>5, <3>1
  <2>3. c.lines \in Scripts(W)
    BY <1>3, <1>4
  <2>4. Parsed(c) = [c EXCEPT !.lines = c.lines]
    BY <2>1, <2>2, <2>3, ReadWhole
  <2> QED  BY <1>4, <2>4
<1>7. ~Whole(c)
  <2>1. Len(L) - 1 \in 0..(Len(L) - 1) /\ h.b \in Nat /\ h.d \in Nat
    BY <1>3 DEF IsHunk
  <2>2. ~(Olds(F, Len(L) - 1) >= h.b /\ News(F, Len(L) - 1) >= h.d)
    BY <1>5, <2>1
  <2>3. ~(Olds(F, Len(F)) = h.b /\ News(F, Len(F)) = h.d)
    BY <1>3, <2>1, <2>2
  <2> QED  BY <1>4, <2>3 DEF Whole
<1> QED  BY <1>6, <1>7 DEF c

\* A patch is read back, both ways, and refused when its last hunk is cut off.
LEMMA RoundTripHolds ==
    ASSUME NEW W, NEW E \in Scripts(W), NEW n \in Nat
    PROVE  RoundTrips(E, n)
<1>1. PICK H, Bs : H \in Nat /\ IsPatch(Patch(E, n), E, W, n, H, Bs)
  BY PatchFacts
<1>2. PICK P : P = Patch(E, n)
  OBVIOUS
<1>3. PICK O, N : O = OldPlaces(E) /\ N = NewPlaces(E)
  OBVIOUS
<1>4. /\ IsHunks(Bs, E, n, H) /\ P \in Seq({P[h] : h \in 1..H}) /\ Len(P) = H /\ DOMAIN P = 1..H
      /\ \A h \in 1..H : IsHunk(P[h], E, W, Bs[h][1], Bs[h][2])
  BY <1>1, <1>2 DEF IsPatch
<1>5. \A h \in 1..H : Bs[h][1] \in 1..Len(E) /\ Bs[h][2] \in Bs[h][1]..Len(E)
  BY <1>4 DEF IsHunks, IsRun
<1>6. /\ OldOf(E) = TextsAt(E, O) /\ NewOf(E) = TextsAt(E, N) /\ O \subseteq DOMAIN E /\ N \subseteq DOMAIN E
      /\ Len(E) \in Nat
  BY <1>3, SidesOfScript
<1>7. \A h \in 1..H : /\ Replaces(P[h], "old", E, O, N, Bs[h][1], Bs[h][2])
                      /\ Replaces(P[h], "new", E, N, O, Bs[h][1], Bs[h][2])
  <2>1. ASSUME NEW h \in 1..H PROVE /\ Replaces(P[h], "old", E, O, N, Bs[h][1], Bs[h][2])
                                    /\ Replaces(P[h], "new", E, N, O, Bs[h][1], Bs[h][2])
    <3>1. PICK i, j, g : i = Bs[h][1] /\ j = Bs[h][2] /\ g = P[h]
      OBVIOUS
    <3>2. PICK l \in Nat : l = i - 1
      BY <1>5, <1>6, <3>1
    <3>3. HowMany(OldPlaces(E), i - 1) \in Nat /\ HowMany(NewPlaces(E), i - 1) \in Nat
      BY <3>2, CountNext
    <3>4. IsHunk(g, E, W, i, j)
      BY <1>4, <3>1
    <3>5. Replaces(g, "old", E, OldPlaces(E), NewPlaces(E), i, j) /\ Replaces(g, "new", E, NewPlaces(E), OldPlaces(E), i, j)
      BY <3>3, <3>4, HunkReplaces
    <3> QED  BY <1>3, <3>1, <3>5
  <2> QED  BY <2>1
<1>8. Common(E, O, N, n) /\ Common(E, N, O, n)
  <2>1. ASSUME NEW k \in DOMAIN E, k \notin Shown(E, n) PROVE k \in O /\ k \in N
    <3>1. E[k].tag = "keep"
      <4>1. DOMAIN E = 1..Len(E)
        BY SidesOfScript
      <4>2. Distance(k, k) <= n
        BY <1>6, <4>1 DEF Distance
      <4> QED  BY <2>1, <4>2 DEF Shown
    <3> QED  BY <1>3, <3>1, SidesOfScript
  <2> QED  BY <2>1 DEF Common
<1>9. Applied(OldOf(E), "old", P) = NewOf(E)
  <2>1. IsPatchOf(P, "old", E, O, N, n, H, Bs)
    BY <1>4, <1>7 DEF IsPatchOf
  <2>2. Applied(TextsAt(E, O), "old", P) = TextsAt(E, N)
    BY <1>6, <1>8, <2>1, PatchApplied
  <2> QED  BY <1>6, <2>2
<1>10. Applied(NewOf(E), "new", P) = OldOf(E)
  <2>1. IsPatchOf(P, "new", E, N, O, n, H, Bs)
    BY <1>4, <1>7 DEF IsPatchOf
  <2>2. Applied(TextsAt(E, N), "new", P) = TextsAt(E, O)
    BY <1>6, <1>8, <2>1, PatchApplied
  <2> QED  BY <1>6, <2>2
<1>11. \A h \in 1..H : Parsed(P[h]) = P[h] /\ Whole(P[h])
  <2>1. ASSUME NEW h \in 1..H PROVE Parsed(P[h]) = P[h] /\ Whole(P[h])
    <3>1. PICK i, j, g : i = Bs[h][1] /\ j = Bs[h][2] /\ g = P[h]
      OBVIOUS
    <3>2. i \in 1..Len(E) /\ j \in i..Len(E) /\ IsHunk(g, E, W, i, j)
      BY <1>4, <1>5, <3>1
    <3>3. /\ Unspent(g.lines, g.b, g.d) /\ Len(g.lines) \in Nat
          /\ Olds(g.lines, Len(g.lines)) = g.b /\ News(g.lines, Len(g.lines)) = g.d
      BY <3>2, HunkUnspent
    <3>4. g.lines \in Scripts(W) /\ g = [a |-> g.a, b |-> g.b, c |-> g.c, d |-> g.d, lines |-> g.lines]
      BY <3>2 DEF IsHunk
    <3>5. PICK m \in Nat : m = Len(g.lines)
      BY <3>3
    <3>6. Parsed(g) = [g EXCEPT !.lines = g.lines]
      <4>1. \A k \in 0..(m - 1) : ~(Olds(g.lines, k) >= g.b /\ News(g.lines, k) >= g.d)
        BY <3>3, <3>5 DEF Unspent
      <4> QED  BY <3>4, <3>5, <4>1, ReadWhole
    <3>7. [g EXCEPT !.lines = g.lines] = g
      <4>1. PICK x, y, z, w, l : g = [a |-> x, b |-> y, c |-> z, d |-> w, lines |-> l]
        BY <3>4
      <4> QED  BY <4>1
    <3> QED  BY <3>1, <3>3, <3>6, <3>7 DEF Whole
  <2> QED  BY <2>1
<1>12. ASSUME P # <<>>
       PROVE  /\ ReverseApply(NewOf(E), P) = OldOf(E)
              /\ ReverseApply(NewOf(E), [P EXCEPT ![Len(P)] = [Last(P) EXCEPT !.lines = Front(Last(P).lines)]]) = None
  <2>1. H \in 1..H
    <3>1. H # 0
      <4>1. PICK S : S = {P[h] : h \in 1..H}
        OBVIOUS
      <4> QED  BY <1>4, <1>12, <4>1, EmptySeq
    <3> QED  BY <1>1, <3>1
  <2>2. [h \in DOMAIN P |-> Parsed(P[h])] = P
    <3>1. P = [h \in 1..H |-> P[h]]
      BY <1>4
    <3> QED  BY <1>4, <1>11, <3>1
  <2>3. ReverseApply(NewOf(E), P) = OldOf(E)
    BY <1>4, <1>10, <1>11, <1>12, <2>2 DEF ReverseApply
  <2> DEFINE h == Last(P)
             c == [h EXCEPT !.lines = Front(h.lines)]
             cut == [P EXCEPT ![Len(P)] = c]
             Q == [x \in DOMAIN cut |-> Parsed(cut[x])]
  <2>4. h = P[H]
    BY <1>4 DEF Last
  <2>5. ~Whole(Parsed(c))
    <3>1. PICK i, j : i = Bs[H][1] /\ j = Bs[H][2]
      OBVIOUS
    <3>2. i \in 1..Len(E) /\ j \in i..Len(E) /\ IsHunk(h, E, W, i, j)
      BY <1>4, <1>5, <2>1, <2>4, <3>1
    <3> HIDE DEF h
    <3> QED  BY <3>2, CutIsNoticed
  <2> HIDE DEF c
  <2>6. DOMAIN cut = 1..H /\ cut[H] = c
    BY <1>4, <2>1
  <2> HIDE DEF cut
  <2>7. H \in DOMAIN Q /\ ~Whole(Q[H])
    BY <2>1, <2>5, <2>6
  <2>8. ReverseApply(NewOf(E), cut) = IF Q = <<>> \/ \E i \in DOMAIN Q : ~Whole(Q[i]) THEN None ELSE Applied(NewOf(E), "new", Q)
    BY DEF ReverseApply
  <2> HIDE DEF Q
  <2>9. ReverseApply(NewOf(E), cut) = None
    BY <2>7, <2>8
  <2> QED  BY <2>3, <2>9 DEF cut, c
<1> QED  BY <1>2, <1>9, <1>10, <1>12 DEF RoundTrips

\* The numbers line p of the script has in a hunk, or would have.
Numbered(h, E, i, p) ==
    /\ OldNo(h, p - i + 1) = HowMany(OldPlaces(E), p - 1) + 1
    /\ NewNo(h, p - i + 1) = HowMany(NewPlaces(E), p - 1) + 1
StartsAfter(h, E, i) == OldStart(h) = HowMany(OldPlaces(E), i - 1) + 1

\* The numbers of the lines of a hunk are those of the script.
LEMMA NumbersInHunk ==
    ASSUME NEW W, NEW E, NEW i \in Nat, i >= 1, NEW j \in Nat, i <= j, NEW h, IsHunk(h, E, W, i, j),
           NEW p \in i..(j + 1)
    PROVE  Numbered(h, E, i, p) /\ StartsAfter(h, E, i)
<1>1. PICK O, N : O = OldPlaces(E) /\ N = NewPlaces(E)
  OBVIOUS
<1>2. PICK y \in 0..(j - i + 1) : y = p - i /\ y + i - 1 = p - 1 /\ (p - i + 1) - 1 = y
  <2>1. p - i \in 0..(j - i + 1) /\ (p - i) + i - 1 = p - 1 /\ (p - i + 1) - 1 = p - i
    OBVIOUS
  <2> QED  BY <2>1
<1>3. PICK l \in Nat, m \in Nat : l = i - 1 /\ m = p - 1
  <2>1. i - 1 \in Nat /\ p - 1 \in Nat
    OBVIOUS
  <2> QED  BY <2>1
<1>4. HowMany(O, l) \in Nat /\ HowMany(N, l) \in Nat /\ HowMany(O, m) \in Nat /\ HowMany(N, m) \in Nat
  BY CountNext
<1>5. /\ Olds(h.lines, y) = HowMany(O, m) - HowMany(O, l) /\ News(h.lines, y) = HowMany(N, m) - HowMany(N, l)
      /\ h.a = HowMany(O, l) + (IF h.b = 0 THEN 0 ELSE 1) /\ h.c = HowMany(N, l) + (IF h.d = 0 THEN 0 ELSE 1)
      /\ h.b \in Nat /\ h.d \in Nat
  BY <1>1, <1>2, <1>3 DEF IsHunk
<1>6. OldStart(h) = HowMany(O, l) + 1 /\ NewStart(h) = HowMany(N, l) + 1
  BY <1>4, <1>5 DEF OldStart, NewStart
<1>7. OldNo(h, p - i + 1) = OldStart(h) + Olds(h.lines, y) /\ NewNo(h, p - i + 1) = NewStart(h) + News(h.lines, y)
  BY <1>2 DEF OldNo, NewNo
<1> QED  BY <1>1, <1>3, <1>4, <1>5, <1>6, <1>7 DEF Numbered, StartsAfter

\* No hunk shows lines p + 1 to k.
Unshown(E, n, p, k) == \A x \in (p + 1)..k : x \in DOMAIN E /\ x \notin Shown(E, n)

\* Such lines are as many on either side.
LEMMA UnshownEven ==
    ASSUME NEW W, NEW E \in Scripts(W), NEW n \in Nat, NEW p \in Nat, NEW k \in Nat, p <= k, Unshown(E, n, p, k)
    PROVE  /\ HowMany(OldPlaces(E), k) - HowMany(OldPlaces(E), p) = k - p
           /\ HowMany(NewPlaces(E), k) - HowMany(NewPlaces(E), p) = k - p
<1>1. ASSUME NEW x \in (p + 1)..k PROVE x \in OldPlaces(E) /\ x \in NewPlaces(E)
  <2>1. x \in DOMAIN E /\ x \notin Shown(E, n) /\ DOMAIN E = 1..Len(E) /\ Len(E) \in Nat
    BY SidesOfScript DEF Unshown
  <2>2. Distance(x, x) <= n
    BY <2>1 DEF Distance
  <2>3. E[x].tag = "keep"
    BY <2>1, <2>2 DEF Shown
  <2> QED  BY <2>1, <2>3, SidesOfScript
<1> QED  BY <1>1, CountGrows

\* A number for each hunk says whether it begins at or before line k.
TellsStarts(from, line, Bs, k, H) == DOMAIN from = 1..H /\ \A h \in 1..H : from[h] <= line <=> Bs[h][1] <= k

\* g is the last hunk that does, and no hunk shows what lies between it and line k.
IsLast(g, P, E, n, Bs, from, line, k) ==
    /\ LastWith(P, from, line) = P[g] /\ from[g] <= line /\ Bs[g][1] <= k /\ Unshown(E, n, Bs[g][2], k)

\* The last hunk that starts at or before a line is the last run that does.
LEMMA LastBefore ==
    ASSUME NEW W, NEW E \in Scripts(W), NEW n \in Nat, NEW H \in Nat, NEW Bs, NEW P, IsPatch(P, E, W, n, H, Bs),
           NEW k \in 1..Len(E), NEW from, NEW line, TellsStarts(from, line, Bs, k, H)
    PROVE  \/ (\A h \in 1..H : ~(from[h] <= line)) /\ Unshown(E, n, 0, k)
           \/ \E g \in 1..H : IsLast(g, P, E, n, Bs, from, line, k)
<1>1. IsHunks(Bs, E, n, H) /\ Len(E) \in Nat /\ DOMAIN P = 1..H
  BY SidesOfScript DEF IsPatch
<1>0. DOMAIN from = 1..H /\ \A h \in 1..H : from[h] <= line <=> Bs[h][1] <= k
  BY DEF TellsStarts
<1> DEFINE T == {h \in 1..H : from[h] <= line}
<1>2. CASE T = {}
  <2>1. \A h \in 1..H : ~(from[h] <= line) /\ ~(Bs[h][1] <= k)
    BY <1>0, <1>2
  <2>2. \A x \in 1..k : x \in DOMAIN E /\ x \notin Shown(E, n)
    <3>1. 0 \in 0..H
      OBVIOUS
    <3>2. EndOf(Bs, 0) = 0
      BY DEF EndOf
    <3>3. PICK z : z = 0
      OBVIOUS
    <3>4. z \in 0..H /\ EndOf(Bs, z) = 0
      BY <3>1, <3>2, <3>3
    <3>5. /\ z < H => /\ z + 1 \in 1..H /\ Bs[z + 1][1] \in 1..Len(E)
                      /\ \A x \in (EndOf(Bs, z) + 1)..(Bs[z + 1][1] - 1) : x \in DOMAIN E /\ x \notin Shown(E, n)
          /\ z = H => \A x \in (EndOf(Bs, z) + 1)..Len(E) : x \in DOMAIN E /\ x \notin Shown(E, n)
      BY <1>1, <3>4, BetweenHunks, ZenonT(30)
    <3>6. CASE z < H
      <4>1. PICK b : b = Bs[z + 1][1]
        OBVIOUS
      <4>2. b \in 1..Len(E) /\ ~(b <= k) /\ \A x \in 1..(b - 1) : x \in DOMAIN E /\ x \notin Shown(E, n)
        BY <2>1, <3>4, <3>5, <3>6, <4>1
      <4>3. \A x \in 1..k : x \in 1..(b - 1)
        BY <1>1, <4>2
      <4> QED  BY <4>2, <4>3
    <3>7. CASE z = H
      <4>1. \A x \in 1..Len(E) : x \in DOMAIN E /\ x \notin Shown(E, n)
        BY <3>4, <3>5, <3>7
      <4>2. \A x \in 1..k : x \in 1..Len(E)
        BY <1>1
      <4> QED  BY <4>1, <4>2
    <3> QED  BY <3>3, <3>6, <3>7
  <2>3. 0 + 1 = 1
    OBVIOUS
  <2> QED  BY <2>1, <2>2, <2>3 DEF Unshown
<1>3. CASE T # {}
  <2>1. T \subseteq 1..H
    OBVIOUS
  <2>2. Max(T) \in T /\ \A y \in T : y <= Max(T)
    <3> HIDE DEF T
    <3> QED  BY <1>3, <2>1, GreatestPlace
  <2>3. PICK g \in 1..H : g = Max(T)
    BY <2>1, <2>2
  <2>4. from[g] <= line /\ Bs[g][1] <= k /\ \A y \in 1..H : from[y] <= line => y <= g
    BY <1>0, <2>2, <2>3
  <2>5. LastWith(P, from, line) = P[g]
    <3>1. T = {x \in DOMAIN P : from[x] <= line}
      BY <1>1
    <3> QED  BY <2>3, <3>1 DEF LastWith
  <2>6. \A x \in (Bs[g][2] + 1)..k : x \in DOMAIN E /\ x \notin Shown(E, n)
    <3>1. g \in 0..H /\ EndOf(Bs, g) = Bs[g][2]
      BY DEF EndOf
    <3>2. /\ g < H => /\ g + 1 \in 1..H /\ Bs[g + 1][1] \in 1..Len(E)
                      /\ \A x \in (EndOf(Bs, g) + 1)..(Bs[g + 1][1] - 1) : x \in DOMAIN E /\ x \notin Shown(E, n)
          /\ g = H => \A x \in (EndOf(Bs, g) + 1)..Len(E) : x \in DOMAIN E /\ x \notin Shown(E, n)
          /\ EndOf(Bs, g) \in 0..Len(E)
      BY <1>1, <3>1, BetweenHunks
    <3>3. PICK e \in Nat : e = Bs[g][2]
      BY <1>1, <3>1, <3>2
    <3>4. CASE g < H
      <4>1. PICK b : b = Bs[g + 1][1]
        OBVIOUS
      <4>2. b \in 1..Len(E) /\ ~(b <= k) /\ \A x \in (e + 1)..(b - 1) : x \in DOMAIN E /\ x \notin Shown(E, n)
        <5>1. ~(g + 1 <= g) /\ g + 1 \in 1..H
          BY <3>2, <3>4
        <5>2. ~(from[g + 1] <= line)
          BY <2>4, <5>1
        <5> QED  BY <1>0, <3>1, <3>2, <3>3, <3>4, <4>1, <5>1, <5>2
      <4>3. \A x \in (e + 1)..k : x \in (e + 1)..(b - 1)
        BY <1>1, <4>2
      <4> QED  BY <3>3, <4>2, <4>3
    <3>5. CASE g = H
      <4>1. \A x \in (e + 1)..Len(E) : x \in DOMAIN E /\ x \notin Shown(E, n)
        BY <3>1, <3>2, <3>3, <3>5
      <4>2. \A x \in (e + 1)..k : x \in (e + 1)..Len(E)
        BY <1>1
      <4> QED  BY <3>3, <4>1, <4>2
    <3> QED  BY <3>4, <3>5
  <2> QED  BY <2>4, <2>5, <2>6 DEF IsLast, Unshown
<1> QED  BY <1>2, <1>3

\* The new number of a line of the old side.
LEMMA NewLineIs ==
    ASSUME NEW W, NEW E \in Scripts(W), NEW n \in Nat, NEW H \in Nat, NEW Bs, NEW P, IsPatch(P, E, W, n, H, Bs),
           NEW k \in DOMAIN E
    PROVE  /\ E[k].tag = "keep" => NewLineFor(P, Olds(E, k)) = News(E, k)
           /\ E[k].tag = "del" => NewLineFor(P, Olds(E, k)) \in Touched(P)
<1>1. PICK O, N : O = OldPlaces(E) /\ N = NewPlaces(E)
  OBVIOUS
<1>2. Len(E) \in Nat /\ DOMAIN E = 1..Len(E) /\ k \in 1..Len(E) /\ k \in Nat /\ k >= 1
  BY SidesOfScript
<1>3. PICK line : line = Olds(E, k) /\ line = HowMany(O, k) /\ News(E, k) = HowMany(N, k)
  <2>1. k \in 0..Len(E)
    BY <1>2
  <2> QED  BY <1>1, <2>1, SidesOfScript
<1>4. /\ k \in O <=> E[k].tag \in {"keep", "del"}
      /\ k \in N <=> E[k].tag \in {"keep", "add"}
  BY <1>1, SidesOfScript
<1>5. SUFFICES ASSUME k \in O
               PROVE  /\ E[k].tag = "keep" => NewLineFor(P, line) = HowMany(N, k)
                      /\ E[k].tag = "del" => NewLineFor(P, line) \in Touched(P)
  BY <1>3, <1>4
<1>6. /\ IsHunks(Bs, E, n, H) /\ DOMAIN P = 1..H
      /\ \A h \in 1..H : IsHunk(P[h], E, W, Bs[h][1], Bs[h][2])
      /\ \A h \in 1..H : Bs[h][1] \in 1..Len(E) /\ Bs[h][2] \in Bs[h][1]..Len(E)
  BY DEF IsPatch, IsHunks, IsRun
<1> DEFINE from == [h \in DOMAIN P |-> OldStart(P[h])]
<1>7. ASSUME NEW h \in 1..H PROVE from[h] <= line <=> Bs[h][1] <= k
  <2>1. PICK i \in Nat, j \in Nat : i = Bs[h][1] /\ j = Bs[h][2] /\ i >= 1 /\ i <= j
    BY <1>2, <1>6
  <2>2. OldStart(P[h]) = HowMany(O, i - 1) + 1
    <3>1. IsHunk(P[h], E, W, i, j) /\ i \in i..(j + 1)
      BY <1>6, <2>1
    <3>2. StartsAfter(P[h], E, i)
      BY <2>1, <3>1, NumbersInHunk
    <3> QED  BY <1>1, <3>2 DEF StartsAfter
  <2>3. PICK l \in Nat : l = i - 1
    BY <2>1
  <2>4. HowMany(O, l) \in Nat /\ HowMany(O, k) \in Nat /\ (HowMany(O, l) < HowMany(O, k) <=> l < k)
    BY <1>2, <1>5, CountsOfPlaces
  <2>5. from[h] = OldStart(P[h])
    BY <1>6
  <2>6. from[h] = HowMany(O, l) + 1 /\ line = HowMany(O, k) /\ Bs[h][1] = l + 1
    BY <1>3, <2>1, <2>2, <2>3, <2>5
  <2> HIDE DEF from
  <2> QED  BY ONLY <1>2, <2>4, <2>6, l \in Nat
<1>8. DOMAIN from = 1..H /\ \A h \in 1..H : from[h] \in Int
  <2>1. ASSUME NEW h \in 1..H PROVE from[h] \in Int
    <3>1. OldStart(P[h]) \in Int
      <4>1. PICK i \in Nat, j \in Nat : i = Bs[h][1] /\ j = Bs[h][2] /\ i >= 1 /\ i <= j
        BY <1>2, <1>6
      <4>2. IsHunk(P[h], E, W, i, j) /\ i \in i..(j + 1)
        BY <1>6, <4>1
      <4>3. OldStart(P[h]) = HowMany(O, i - 1) + 1
        <5>1. StartsAfter(P[h], E, i)
          BY <4>1, <4>2, NumbersInHunk
        <5> QED  BY <1>1, <5>1 DEF StartsAfter
      <4>4. PICK l \in Nat : l = i - 1
        BY <4>1
      <4>5. HowMany(O, l) \in Nat
        BY CountNext
      <4> QED  BY <4>3, <4>4, <4>5
    <3> QED  BY <1>6, <3>1
  <2> QED  BY <1>6, <2>1
<1>9. line \in Nat
  <2>1. HowMany(O, k) \in Nat
    BY <1>2, CountNext
  <2> QED  BY <1>3, <2>1
<1>10. NewLineFor(P, line) =
         IF \A x \in DOMAIN P : from[x] > line THEN line
         ELSE LET h == LastWith(P, from, line)
                  here == {m \in DOMAIN h.lines : IsOld(h.lines[m]) /\ OldNo(h, m) = line}
                  end == Len(h.lines) + 1
              IN IF here # {} THEN NewNo(h, CHOOSE m \in here : TRUE)
                 ELSE line + NewNo(h, end) - OldNo(h, end)
  BY DEF NewLineFor
<1> HIDE DEF from
<1>11. \/ (\A h \in 1..H : ~(from[h] <= line)) /\ Unshown(E, n, 0, k)
       \/ \E g \in 1..H : IsLast(g, P, E, n, Bs, from, line, k)
  <2>1. TellsStarts(from, line, Bs, k, H)
    BY <1>7, <1>8 DEF TellsStarts
  <2> QED  BY <1>2, <2>1, LastBefore
<1>12. CASE (\A h \in 1..H : ~(from[h] <= line)) /\ Unshown(E, n, 0, k)
  <2>1. \A x \in DOMAIN P : from[x] > line
    BY <1>6, <1>8, <1>9, <1>12
  <2>2. NewLineFor(P, line) = line
    BY <1>10, <2>1
  <2>3. E[k].tag = "keep" /\ k \in N
    <3>1. k \notin Shown(E, n)
      BY <1>2, <1>12 DEF Unshown
    <3>2. Distance(k, k) <= n
      BY <1>2 DEF Distance
    <3>3. E[k].tag = "keep"
      BY <1>2, <3>1, <3>2 DEF Shown
    <3> QED  BY <1>4, <3>3
  <2>4. HowMany(O, k) = HowMany(N, k)
    <3>1. PICK z \in Nat : z = 0 /\ HowMany(O, z) = 0 /\ HowMany(N, z) = 0
      BY CountNext
    <3>2. HowMany(O, k) - HowMany(O, z) = k - z /\ HowMany(N, k) - HowMany(N, z) = k - z
      <4>1. Unshown(E, n, z, k) /\ z <= k
        BY <1>2, <1>12, <3>1
      <4>2. /\ HowMany(OldPlaces(E), k) - HowMany(OldPlaces(E), z) = k - z
            /\ HowMany(NewPlaces(E), k) - HowMany(NewPlaces(E), z) = k - z
        BY <1>2, <4>1, UnshownEven
      <4> QED  BY <1>1, <4>2
    <3>3. HowMany(O, k) \in Nat /\ HowMany(N, k) \in Nat
      BY <1>2, CountNext
    <3> QED  BY <3>1, <3>2, <3>3
  <2> QED  BY <1>3, <2>2, <2>3, <2>4
<1>13. ASSUME NEW g \in 1..H, IsLast(g, P, E, n, Bs, from, line, k)
       PROVE  /\ E[k].tag = "keep" => NewLineFor(P, line) = HowMany(N, k)
              /\ E[k].tag = "del" => NewLineFor(P, line) \in Touched(P)
  <2>0. LastWith(P, from, line) = P[g] /\ from[g] <= line /\ Bs[g][1] <= k /\ Unshown(E, n, Bs[g][2], k)
    BY <1>13 DEF IsLast
  <2>50. PICK h : h = P[g]
    OBVIOUS
  <2>1. PICK i \in Nat, j \in Nat : i = Bs[g][1] /\ j = Bs[g][2] /\ h = P[g] /\ i >= 1 /\ i <= j /\ j <= Len(E) /\ i <= k
    BY <1>2, <1>6, <2>0, <2>50
  <2>2. IsHunk(h, E, W, i, j)
    BY <1>6, <2>1
  <2>3. /\ DOMAIN h.lines = 1..(j - i + 1) /\ Len(h.lines) = j - i + 1
        /\ \A m \in 1..(j - i + 1) : h.lines[m] = E[m + i - 1]
    BY <2>2 DEF IsHunk
  <2>4. \A p \in i..(j + 1) : /\ OldNo(h, p - i + 1) = HowMany(O, p - 1) + 1
                              /\ NewNo(h, p - i + 1) = HowMany(N, p - 1) + 1
    <3>1. ASSUME NEW p \in i..(j + 1)
          PROVE  OldNo(h, p - i + 1) = HowMany(O, p - 1) + 1 /\ NewNo(h, p - i + 1) = HowMany(N, p - 1) + 1
      <4>1. Numbered(h, E, i, p)
        BY <2>1, <2>2, NumbersInHunk
      <4> QED  BY <1>1, <4>1 DEF Numbered
    <3> QED  BY <3>1
  <2> DEFINE here == {m \in DOMAIN h.lines : IsOld(h.lines[m]) /\ OldNo(h, m) = line}
             end == Len(h.lines) + 1
  <2>5. ~(\A x \in DOMAIN P : from[x] > line)
    <3>1. from[g] \in Int
      BY <1>8
    <3>2. g \in DOMAIN P /\ ~(from[g] > line)
      BY <1>6, <1>9, <2>0, <3>1
    <3> QED  BY <3>2
  <2>6. NewLineFor(P, line) = IF here # {} THEN NewNo(h, CHOOSE m \in here : TRUE)
                              ELSE line + NewNo(h, end) - OldNo(h, end)
    BY <1>10, <2>0, <2>1, <2>5
  <2>7. ASSUME NEW m \in 1..(j - i + 1)
        PROVE  m \in here <=> m + i - 1 = k
    <3>1. PICK p \in Nat : p = m + i - 1 /\ p >= 1 /\ p <= Len(E) /\ p \in i..(j + 1) /\ p - i + 1 = m
      <4>1. m \in Int /\ 1 <= m /\ m <= j - i + 1 /\ i \in Int /\ j \in Int /\ 1 <= i /\ i <= j /\ j <= Len(E) /\ Len(E) \in Int
        BY <1>2, <2>1
      <4>2. m + i - 1 \in Nat /\ m + i - 1 >= 1 /\ m + i - 1 <= Len(E) /\ m + i - 1 \in i..(j + 1) /\ (m + i - 1) - i + 1 = m
        BY ONLY <4>1
      <4> QED  BY <4>2
    <3>2. OldNo(h, m) = HowMany(O, p - 1) + 1
      BY <2>4, <3>1
    <3>3. IsOld(h.lines[m]) <=> p \in O
      <4>1. p \in DOMAIN E
        BY <1>2, <3>1
      <4>2. h.lines[m] = E[p]
        BY <2>3, <3>1
      <4> QED  BY <1>1, <4>1, <4>2 DEF OldPlaces
    <3>4. p \in O => HowMany(O, p - 1) + 1 = HowMany(O, p)
      BY <3>1, CountsOfPlaces
    <3>5. p \in O => (HowMany(O, p) = HowMany(O, k) <=> p = k)
      <4>1. ASSUME p \in O PROVE HowMany(O, p) = HowMany(O, k) <=> p = k
        <5>1. HowMany(O, p) \in Nat /\ HowMany(O, k) \in Nat /\ (HowMany(O, p) < HowMany(O, k) <=> p < k)
          BY <1>2, <1>5, CountsOfPlaces
        <5>2. HowMany(O, k) < HowMany(O, p) <=> k < p
          BY <1>2, <3>1, <4>1, CountsOfPlaces
        <5> QED  BY <1>2, <5>1, <5>2
      <4> QED  BY <4>1
    <3>6. m \in here <=> p \in O /\ HowMany(O, p - 1) + 1 = line
      BY <2>3, <3>2, <3>3
    <3> QED  BY <1>3, <1>5, <3>1, <3>4, <3>5, <3>6
  <2>8. \A m \in here : m \in 1..(j - i + 1)
    BY <2>3
  <2> HIDE DEF here
  <2>9. CASE k <= j
    <3>1. PICK m \in 1..(j - i + 1) : m = k - i + 1 /\ m + i - 1 = k
      <4>1. k \in Int /\ i \in Int /\ j \in Int /\ i <= k /\ k <= j
        BY <1>2, <2>1, <2>9
      <4>2. k - i + 1 \in 1..(j - i + 1) /\ (k - i + 1) + i - 1 = k
        BY ONLY <4>1
      <4> QED  BY <4>2
    <3>2. \A x \in here : x = m
      <4>1. ASSUME NEW x \in here PROVE x = m
        <5>1. x \in 1..(j - i + 1) /\ x + i - 1 = k
          BY <2>7, <2>8
        <5> QED  BY <3>1, <5>1
      <4> QED  BY <4>1
    <3>3. m \in here
      BY <2>7, <3>1
    <3>4. NewLineFor(P, line) = NewNo(h, m)
      <4>1. (CHOOSE x \in here : TRUE) = m /\ here # {}
        BY <3>2, <3>3
      <4> QED  BY <2>6, <4>1
    <3>5. NewNo(h, m) = HowMany(N, k - 1) + 1
      <4>1. k \in i..(j + 1)
        BY <1>2, <2>1, <2>9
      <4> QED  BY <2>4, <3>1, <4>1
    <3>6. k \in N => HowMany(N, k - 1) + 1 = HowMany(N, k)
      BY <1>2, CountsOfPlaces
    <3>7. ASSUME E[k].tag = "del" PROVE NewNo(h, m) \in Touched(P)
      <4>1. PICK q : q = <<g, m>>
        OBVIOUS
      <4>2. q[1] = g /\ q[2] = m
        BY <4>1
      <4>3. q \in Tagged(P, "del")
        <5>1. h.lines[m].tag = "del" /\ m \in DOMAIN P[g].lines /\ g \in DOMAIN P
          BY <1>6, <2>1, <2>3, <3>1, <3>7
        <5>2. q \in UNION {{x} \X DOMAIN P[x].lines : x \in DOMAIN P}
          BY <4>1, <5>1
        <5> QED  BY <2>1, <4>2, <5>1, <5>2 DEF Tagged
      <4>4. NewNo(h, m) = NewNo(P[q[1]], q[2])
        BY <2>1, <4>2
      <4> HIDE DEF NewNo
      <4> QED  BY <4>3, <4>4 DEF Touched
    <3> QED  BY <1>4, <3>4, <3>5, <3>6, <3>7
  <2>10. CASE j < k
    <3>1. here = {}
      <4>1. ASSUME NEW x \in here PROVE FALSE
        <5>1. x \in 1..(j - i + 1) /\ x + i - 1 = k
          BY <2>7, <2>8
        <5>2. x \in Int /\ x <= j - i + 1 /\ i \in Int /\ j \in Int /\ k \in Int /\ j < k
          BY <1>2, <2>10, <5>1
        <5> QED  BY ONLY <5>1, <5>2
      <4> QED  BY <4>1
    <3>2. OldNo(h, end) = HowMany(O, j) + 1 /\ NewNo(h, end) = HowMany(N, j) + 1
      <4>1. PICK p : p = j + 1
        OBVIOUS
      <4>0. end = (j - i + 1) + 1
        BY <2>3
      <4>4. i \in Int /\ j \in Int /\ i <= j
        BY <2>1
      <4> HIDE DEF end
      <4>2. p \in i..(j + 1) /\ p - i + 1 = end /\ p - 1 = j
        BY ONLY <4>0, <4>1, <4>4
      <4>3. OldNo(h, p - i + 1) = HowMany(O, p - 1) + 1 /\ NewNo(h, p - i + 1) = HowMany(N, p - 1) + 1
        BY <2>4, <4>2
      <4> QED  BY <4>2, <4>3
    <3>3. HowMany(O, k) - HowMany(O, j) = k - j /\ HowMany(N, k) - HowMany(N, j) = k - j
      <4>1. Unshown(E, n, j, k) /\ j <= k
        BY <1>2, <2>0, <2>1, <2>10
      <4>2. /\ HowMany(OldPlaces(E), k) - HowMany(OldPlaces(E), j) = k - j
            /\ HowMany(NewPlaces(E), k) - HowMany(NewPlaces(E), j) = k - j
        BY <1>2, <4>1, UnshownEven
      <4> QED  BY <1>1, <4>2
    <3>4. HowMany(O, k) \in Nat /\ HowMany(N, k) \in Nat /\ HowMany(O, j) \in Nat /\ HowMany(N, j) \in Nat
      BY <1>2, CountNext
    <3>5. NewLineFor(P, line) = line + NewNo(h, end) - OldNo(h, end)
      BY <2>6, <3>1
    <3> HIDE DEF end
    <3>6. NewLineFor(P, line) = HowMany(N, k)
      <4>1. line = HowMany(O, k) /\ j \in Int /\ k \in Int
        BY <1>2, <1>3, <2>1
      <4> QED  BY ONLY <3>2, <3>3, <3>4, <3>5, <4>1
    <3>7. E[k].tag = "keep"
      <4>1. k \in (Bs[g][2] + 1)..k
        BY <1>2, <2>1, <2>10, SMTT(30)
      <4>2. k \notin Shown(E, n)
        BY <2>0, <4>1 DEF Unshown
      <4>3. Distance(k, k) <= n
        BY <1>2 DEF Distance
      <4> QED  BY <4>2, <4>3 DEF Shown
    <3> QED  BY <3>6, <3>7
  <2> QED  BY <1>2, <2>1, <2>9, <2>10
<1> QED  BY <1>11, <1>12, <1>13

\* Where a line is kept, each hunk shows one that is.
LEMMA HunksHaveKept ==
    ASSUME NEW W, NEW E \in Scripts(W), NEW n \in Nat, n >= 1, NEW k \in DOMAIN E, E[k].tag = "keep",
           NEW b, IsRun(b, Shown(E, n), Len(E)), NEW h, IsHunk(h, E, W, b[1], b[2])
    PROVE  h.b > 0 /\ h.d > 0
<1>1. Len(E) \in Nat /\ DOMAIN E = 1..Len(E)
  BY SidesOfScript
<1>2. PICK i \in Nat, j \in Nat : i = b[1] /\ j = b[2] /\ i >= 1 /\ i <= j /\ j <= Len(E)
                                  /\ i - 1 \notin Shown(E, n) /\ j + 1 \notin Shown(E, n)
  <2>1. b[1] \in 1..Len(E) /\ b[2] \in b[1]..Len(E) /\ b[1] - 1 \notin Shown(E, n) /\ b[2] + 1 \notin Shown(E, n)
    BY DEF IsRun
  <2>2. b[1] \in Nat /\ b[2] \in Nat /\ b[1] >= 1 /\ b[1] <= b[2] /\ b[2] <= Len(E)
    BY <1>1, <2>1
  <2> QED  BY <2>1, <2>2
<1>3. \E x \in i..j : E[x].tag = "keep"
  <2>1. ASSUME \A x \in i..j : E[x].tag # "keep" PROVE FALSE
    <3>1. i = 1
      <4>1. ASSUME i > 1 PROVE FALSE
        <5>1. i - 1 \in DOMAIN E /\ i \in DOMAIN E /\ Distance(i, i - 1) <= n
          BY <1>1, <1>2, <4>1, SMTT(30) DEF Distance
        <5>2. E[i].tag # "keep"
          BY <1>2, <2>1
        <5> QED  BY <1>2, <5>1, <5>2 DEF Shown
      <4> QED  BY <1>2, <4>1
    <3>2. j = Len(E)
      <4>1. ASSUME j < Len(E) PROVE FALSE
        <5>1. j + 1 \in DOMAIN E /\ j \in DOMAIN E /\ Distance(j, j + 1) <= n
          BY <1>1, <1>2, <4>1, SMTT(30) DEF Distance
        <5>2. E[j].tag # "keep"
          BY <1>2, <2>1, SMTT(30)
        <5> QED  BY <1>2, <5>1, <5>2 DEF Shown
      <4> QED  BY <1>1, <1>2, <4>1
    <3> QED  BY <1>1, <2>1, <3>1, <3>2
  <2> QED  BY <2>1
<1>4. PICK x \in i..j : E[x].tag = "keep"
  BY <1>3
<1>5. PICK O, N : O = OldPlaces(E) /\ N = NewPlaces(E)
  OBVIOUS
<1>6. x \in O /\ x \in N /\ x \in Nat /\ x >= 1 /\ i <= x /\ x <= j
  <2>1. x \in DOMAIN E
    BY <1>1, <1>2
  <2> QED  BY <1>2, <1>4, <1>5, <2>1, SidesOfScript
<1>7. PICK l \in Nat : l = i - 1 /\ l < x
  BY <1>2, <1>6
<1>8. HowMany(O, l) < HowMany(O, x) /\ HowMany(O, x) <= HowMany(O, j)
  <2>1. HowMany(O, l) < HowMany(O, x)
    BY <1>6, <1>7, CountGrows
  <2>2. HowMany(O, x) <= HowMany(O, j)
    BY <1>6, CountGrows
  <2> QED  BY <2>1, <2>2
<1>9. HowMany(N, l) < HowMany(N, x) /\ HowMany(N, x) <= HowMany(N, j)
  <2>1. HowMany(N, l) < HowMany(N, x)
    BY <1>6, <1>7, CountGrows
  <2>2. HowMany(N, x) <= HowMany(N, j)
    BY <1>6, CountGrows
  <2> QED  BY <2>1, <2>2
<1>10. HowMany(O, l) \in Nat /\ HowMany(O, x) \in Nat /\ HowMany(O, j) \in Nat
       /\ HowMany(N, l) \in Nat /\ HowMany(N, x) \in Nat /\ HowMany(N, j) \in Nat
  BY <1>2, <1>6, <1>7, CountNext
<1>11. h.b = HowMany(O, j) - HowMany(O, l) /\ h.d = HowMany(N, j) - HowMany(N, l)
  BY <1>2, <1>5, <1>7 DEF IsHunk
<1> QED  BY <1>8, <1>9, <1>10, <1>11

TaggedAs(L, tag) == {m \in DOMAIN L : L[m].tag = tag}

\* The removed lines less the added ones are the old ones less the new ones.
LEMMA RemovedLessAdded ==
    ASSUME NEW W, NEW L \in Scripts(W), NEW w \in 0..Len(L)
    PROVE  /\ HowMany(TaggedAs(L, "del"), w) - HowMany(TaggedAs(L, "add"), w) = Olds(L, w) - News(L, w)
           /\ HowMany(TaggedAs(L, "del"), w) \in Nat /\ HowMany(TaggedAs(L, "add"), w) \in Nat
           /\ Olds(L, w) \in Nat /\ News(L, w) \in Nat
<1>1. PICK O, N, D, A : O = OldPlaces(L) /\ N = NewPlaces(L) /\ D = TaggedAs(L, "del") /\ A = TaggedAs(L, "add")
  OBVIOUS
<1>2. /\ Len(L) \in Nat /\ DOMAIN L = 1..Len(L)
      /\ \A k \in DOMAIN L : L[k].tag \in {"keep", "del", "add"}
      /\ \A k \in DOMAIN L : (k \in O <=> L[k].tag \in {"keep", "del"}) /\ (k \in N <=> L[k].tag \in {"keep", "add"})
      /\ \A k \in 0..Len(L) : Olds(L, k) = HowMany(O, k) /\ News(L, k) = HowMany(N, k)
  BY <1>1, SidesOfScript
<1>3. \A k \in DOMAIN L : (k \in D <=> L[k].tag = "del") /\ (k \in A <=> L[k].tag = "add")
  BY <1>1 DEF TaggedAs
<1>4. \A k \in Nat : HowMany(O, k) \in Nat /\ HowMany(N, k) \in Nat /\ HowMany(D, k) \in Nat /\ HowMany(A, k) \in Nat
  BY CountNext
<1> DEFINE P == {k \in Nat : k <= Len(L) => HowMany(D, k) - HowMany(A, k) = HowMany(O, k) - HowMany(N, k)}
<1>5. 0 \in P
  <2>1. HowMany(D, 0) = 0 /\ HowMany(A, 0) = 0 /\ HowMany(O, 0) = 0 /\ HowMany(N, 0) = 0
    BY CountNext
  <2> QED  BY <2>1
<1>6. ASSUME NEW k \in Nat, k \in P PROVE k + 1 \in P
  <2>1. ASSUME k + 1 <= Len(L)
        PROVE  HowMany(D, k + 1) - HowMany(A, k + 1) = HowMany(O, k + 1) - HowMany(N, k + 1)
    <3>1. HowMany(D, k) - HowMany(A, k) = HowMany(O, k) - HowMany(N, k)
      BY <1>2, <1>6, <2>1
    <3>2. k + 1 \in DOMAIN L
      BY <1>2, <2>1
    <3>3. /\ HowMany(D, k + 1) = HowMany(D, k) + (IF k + 1 \in D THEN 1 ELSE 0)
          /\ HowMany(A, k + 1) = HowMany(A, k) + (IF k + 1 \in A THEN 1 ELSE 0)
          /\ HowMany(O, k + 1) = HowMany(O, k) + (IF k + 1 \in O THEN 1 ELSE 0)
          /\ HowMany(N, k + 1) = HowMany(N, k) + (IF k + 1 \in N THEN 1 ELSE 0)
      BY CountNext
    <3>0. HowMany(D, k) \in Nat /\ HowMany(A, k) \in Nat /\ HowMany(O, k) \in Nat /\ HowMany(N, k) \in Nat
      BY <1>4
    <3>4. CASE L[k + 1].tag = "keep"
      <4>1. k + 1 \notin D /\ k + 1 \notin A /\ k + 1 \in O /\ k + 1 \in N
        BY <1>2, <1>3, <3>2, <3>4
      <4> QED  BY <3>0, <3>1, <3>3, <4>1
    <3>5. CASE L[k + 1].tag = "del"
      <4>1. k + 1 \in D /\ k + 1 \notin A /\ k + 1 \in O /\ k + 1 \notin N
        BY <1>2, <1>3, <3>2, <3>5
      <4> QED  BY <3>0, <3>1, <3>3, <4>1, SMTT(30)
    <3>6. CASE L[k + 1].tag = "add"
      <4>1. k + 1 \notin D /\ k + 1 \in A /\ k + 1 \notin O /\ k + 1 \in N
        BY <1>2, <1>3, <3>2, <3>6
      <4> QED  BY <3>0, <3>1, <3>3, <4>1, SMTT(30)
    <3> QED  BY <1>2, <3>2, <3>4, <3>5, <3>6
  <2> QED  BY <2>1
<1>7. Nat \subseteq P
  <2> HIDE DEF P
  <2> QED  BY <1>5, <1>6, SetInduction
<1>8. w \in Nat /\ w <= Len(L) /\ w \in P
  BY <1>2, <1>7
<1> QED  BY <1>1, <1>2, <1>4, <1>8

\* The old number of a kept line.
LEMMA OldLineIs ==
    ASSUME NEW W, NEW E \in Scripts(W), NEW n \in Nat, n >= 1, NEW H \in Nat, NEW Bs, NEW P,
           IsPatch(P, E, W, n, H, Bs), NEW k \in DOMAIN E, E[k].tag = "keep"
    PROVE  OldLineFor(P, News(E, k)) = Olds(E, k)
<1>1. PICK O, N : O = OldPlaces(E) /\ N = NewPlaces(E)
  OBVIOUS
<1>2. Len(E) \in Nat /\ DOMAIN E = 1..Len(E) /\ k \in 1..Len(E) /\ k \in Nat /\ k >= 1 /\ k \in O /\ k \in N
  BY <1>1, SidesOfScript
<1>3. PICK line : line = News(E, k) /\ line = HowMany(N, k) /\ Olds(E, k) = HowMany(O, k) /\ line \in Nat
  <2>1. k \in 0..Len(E)
    BY <1>2
  <2>2. HowMany(N, k) \in Nat
    BY <1>2, CountNext
  <2> QED  BY <1>1, <2>1, <2>2, SidesOfScript
<1>4. /\ IsHunks(Bs, E, n, H) /\ DOMAIN P = 1..H
      /\ \A h \in 1..H : IsHunk(P[h], E, W, Bs[h][1], Bs[h][2])
      /\ \A h \in 1..H : IsRun(Bs[h], Shown(E, n), Len(E))
      /\ \A h \in 1..H : Bs[h][1] \in 1..Len(E) /\ Bs[h][2] \in Bs[h][1]..Len(E)
  BY DEF IsPatch, IsHunks, IsRun
<1>5. ASSUME NEW h \in 1..H
      PROVE  /\ P[h].a = HowMany(O, Bs[h][1] - 1) + 1 /\ P[h].c = HowMany(N, Bs[h][1] - 1) + 1
             /\ HowMany(O, Bs[h][1] - 1) \in Nat /\ HowMany(N, Bs[h][1] - 1) \in Nat
             /\ HowMany(N, Bs[h][1] - 1) < HowMany(N, k) <=> Bs[h][1] <= k
  <2>1. PICK g, b : g = P[h] /\ b = Bs[h]
    OBVIOUS
  <2>2. IsRun(b, Shown(E, n), Len(E)) /\ IsHunk(g, E, W, b[1], b[2])
    BY <1>4, <2>1
  <2>3. g.b > 0 /\ g.d > 0 /\ g.b \in Nat /\ g.d \in Nat
    <3>1. g.b > 0 /\ g.d > 0
      BY <2>2, HunksHaveKept
    <3> QED  BY <2>2, <3>1 DEF IsHunk
  <2>4. g.a = HowMany(O, b[1] - 1) + 1 /\ g.c = HowMany(N, b[1] - 1) + 1
    BY <1>1, <2>2, <2>3 DEF IsHunk
  <2>5. PICK l \in Nat : l = b[1] - 1 /\ b[1] = l + 1
    <3>1. b[1] \in Nat /\ b[1] >= 1
      BY <1>2, <1>4, <2>1
    <3>2. b[1] - 1 \in Nat /\ b[1] = (b[1] - 1) + 1
      BY <3>1
    <3> QED  BY <3>2
  <2>6. HowMany(O, l) \in Nat /\ HowMany(N, l) \in Nat /\ (HowMany(N, l) < HowMany(N, k) <=> l < k)
    BY <1>2, CountNext, CountsOfPlaces
  <2>7. l < k <=> b[1] <= k
    BY <1>2, <2>5
  <2> QED  BY <2>1, <2>4, <2>5, <2>6, <2>7
<1> DEFINE from == [h \in DOMAIN P |-> P[h].c]
<1>6. DOMAIN from = 1..H /\ \A h \in 1..H : from[h] = P[h].c
  BY <1>4
<1>7. OldLineFor(P, line) =
        IF \A x \in DOMAIN P : from[x] > line THEN line
        ELSE LET h == LastWith(P, from, line)
                 walked == {m \in DOMAIN h.lines : h.c + News(h.lines, m - 1) <= line}
                 count(tag) == Cardinality({m \in walked : h.lines[m].tag = tag})
             IN line + h.a - h.c + count("del") - count("add")
  BY DEF OldLineFor
<1> HIDE DEF from
<1>8. TellsStarts(from, line, Bs, k, H)
  <2>1. ASSUME NEW h \in 1..H PROVE from[h] <= line <=> Bs[h][1] <= k
    <3>1. PICK before : before = HowMany(N, Bs[h][1] - 1)
      OBVIOUS
    <3>2. before \in Nat /\ line \in Nat /\ (before < line <=> Bs[h][1] <= k)
      BY <1>3, <1>5, <3>1
    <3>3. from[h] = before + 1
      BY <1>5, <1>6, <3>1
    <3> QED  BY ONLY <3>2, <3>3
  <2> QED  BY <1>6, <2>1 DEF TellsStarts
<1>9. \/ (\A h \in 1..H : ~(from[h] <= line)) /\ Unshown(E, n, 0, k)
      \/ \E g \in 1..H : IsLast(g, P, E, n, Bs, from, line, k)
  BY <1>2, <1>8, LastBefore
<1>10. \A h \in 1..H : from[h] \in Int
  <2>1. ASSUME NEW h \in 1..H PROVE from[h] \in Int
    <3>1. P[h].c = HowMany(N, Bs[h][1] - 1) + 1 /\ HowMany(N, Bs[h][1] - 1) \in Nat
      BY <1>5
    <3> QED  BY <1>6, <3>1
  <2> QED  BY <2>1
<1>11. CASE (\A h \in 1..H : ~(from[h] <= line)) /\ Unshown(E, n, 0, k)
  <2>1. \A x \in DOMAIN P : from[x] > line
    BY <1>3, <1>4, <1>10, <1>11
  <2>2. OldLineFor(P, line) = line
    BY <1>7, <2>1
  <2>3. PICK z \in Nat : z = 0 /\ HowMany(O, z) = 0 /\ HowMany(N, z) = 0
    BY CountNext
  <2>4. /\ HowMany(OldPlaces(E), k) - HowMany(OldPlaces(E), z) = k - z
        /\ HowMany(NewPlaces(E), k) - HowMany(NewPlaces(E), z) = k - z
    <3>1. Unshown(E, n, z, k) /\ z <= k
      BY <1>2, <1>11, <2>3
    <3> QED  BY <1>2, <3>1, UnshownEven
  <2>5. HowMany(O, k) \in Nat /\ HowMany(N, k) \in Nat
    BY <1>2, CountNext
  <2>6. HowMany(O, k) = HowMany(N, k)
    BY <1>1, <2>3, <2>4, <2>5
  <2> QED  BY <1>3, <2>2, <2>6
<1>12. ASSUME NEW g \in 1..H, IsLast(g, P, E, n, Bs, from, line, k)
       PROVE  OldLineFor(P, line) = HowMany(O, k)
  <2>0. LastWith(P, from, line) = P[g] /\ from[g] <= line /\ Bs[g][1] <= k /\ Unshown(E, n, Bs[g][2], k)
    BY <1>12 DEF IsLast
  <2>50. PICK h : h = P[g]
    OBVIOUS
  <2>1. PICK i \in Nat, j \in Nat : i = Bs[g][1] /\ j = Bs[g][2] /\ h = P[g] /\ i >= 1 /\ i <= j /\ j <= Len(E) /\ i <= k
    BY <1>2, <1>4, <2>0, <2>50
  <2>2. IsHunk(h, E, W, i, j)
    BY <1>4, <2>1
  <2>3. /\ h.lines \in Scripts(W) /\ DOMAIN h.lines = 1..(j - i + 1) /\ Len(h.lines) = j - i + 1
        /\ \A y \in 0..(j - i + 1) : /\ Olds(h.lines, y) = HowMany(O, y + i - 1) - HowMany(O, i - 1)
                                     /\ News(h.lines, y) = HowMany(N, y + i - 1) - HowMany(N, i - 1)
    BY <1>1, <2>2 DEF IsHunk
  <2>4. PICK l \in Nat : l = i - 1 /\ i = l + 1
    <3>1. i - 1 \in Nat /\ i = (i - 1) + 1
      BY <2>1, SMTT(30)
    <3> QED  BY <3>1
  <2>5. h.a = HowMany(O, l) + 1 /\ h.c = HowMany(N, l) + 1 /\ HowMany(O, l) \in Nat /\ HowMany(N, l) \in Nat
    BY <1>5, <2>1, <2>4
  <2>20. i \in Int /\ j \in Int /\ k \in Int /\ l \in Int /\ 1 <= i /\ i <= j /\ i <= k /\ l = i - 1 /\ i = l + 1
    BY <1>2, <2>1, <2>4, SMTT(30)
  <2>6. PICK e \in Nat : e = (IF k <= j THEN k ELSE j) /\ e <= j /\ e <= k /\ i <= e /\ e - l \in 0..(j - i + 1)
                         /\ e - l \in 0..(j - l)
    <3>1. CASE k <= j
      <4>1. k \in Nat /\ k <= j /\ k <= k /\ k - l \in 0..(j - i + 1) /\ k - l \in 0..(j - l)
        BY ONLY <2>20, <3>1
      <4> QED  BY <2>20, <3>1, <4>1
    <3>2. CASE ~(k <= j)
      <4>1. j \in Nat /\ j <= j /\ j <= k /\ j - l \in 0..(j - i + 1) /\ j - l \in 0..(j - l)
        BY ONLY <2>20, <3>2
      <4> QED  BY <2>20, <3>2, <4>1
    <3> QED  BY <3>1, <3>2
  <2> DEFINE walked == {m \in DOMAIN h.lines : h.c + News(h.lines, m - 1) <= line}
             count(tag) == Cardinality({m \in walked : h.lines[m].tag = tag})
  <2>7. ~(\A x \in DOMAIN P : from[x] > line)
    <3>1. g \in DOMAIN P /\ from[g] \in Int /\ ~(from[g] > line)
      BY <1>3, <1>4, <1>10, <2>0
    <3> QED  BY <3>1
  <2>8. OldLineFor(P, line) = line + h.a - h.c + count("del") - count("add")
    BY <1>7, <2>0, <2>1, <2>7
  <2>9. walked = 1..(e - l)
    <3>1. ASSUME NEW m \in 1..(j - i + 1)
          PROVE  h.c + News(h.lines, m - 1) <= line <=> m <= e - l
      <4>1. m \in Int /\ 1 <= m /\ m <= j - i + 1 /\ m - 1 \in 0..(j - i + 1)
        BY ONLY <2>20, m \in 1..(j - i + 1)
      <4>2. PICK q \in Nat : q = (m - 1) + i - 1 /\ q = m - 1 + l /\ q < j
        <5>1. (m - 1) + i - 1 \in Nat /\ (m - 1) + i - 1 = m - 1 + l /\ (m - 1) + i - 1 < j
          BY ONLY <2>20, <4>1
        <5> QED  BY <5>1
      <4>3. News(h.lines, m - 1) = HowMany(N, q) - HowMany(N, l)
        BY <2>3, <2>4, <4>1, <4>2
      <4>4. HowMany(N, q) \in Nat /\ HowMany(N, k) \in Nat /\ (HowMany(N, q) < HowMany(N, k) <=> q < k)
        BY <1>2, CountsOfPlaces
      <4>5. h.c + News(h.lines, m - 1) <= line <=> q < k
        BY <1>3, <2>5, <4>3, <4>4
      <4>6. q < k <=> m <= e - l
        <5>1. e = (IF k <= j THEN k ELSE j) /\ q = m - 1 + l /\ q < j /\ q \in Int
          BY <2>6, <4>2
        <5> QED  BY ONLY <2>20, <4>1, <5>1
      <4> QED  BY <4>5, <4>6
    <3>0. e \in Int /\ e <= j
      BY <2>6
    <3>2. \A m \in 1..(e - l) : m \in 1..(j - i + 1)
      BY ONLY <2>20, <3>0
    <3>3. \A m \in walked : m \in 1..(j - i + 1) /\ m \in 1..(e - l)
      <4>1. ASSUME NEW m \in walked PROVE m \in 1..(j - i + 1) /\ m \in 1..(e - l)
        <5>1. m \in 1..(j - i + 1) /\ h.c + News(h.lines, m - 1) <= line
          BY <2>3
        <5>2. m <= e - l
          BY <3>1, <5>1
        <5>3. m \in 1..(e - l)
          BY ONLY <2>20, <3>0, <5>1, <5>2
        <5> QED  BY <5>1, <5>3
      <4> QED  BY <4>1
    <3>4. \A m \in 1..(e - l) : m \in walked
      <4>1. ASSUME NEW m \in 1..(e - l) PROVE m \in walked
        <5>1. m \in 1..(j - i + 1) /\ m <= e - l
          BY ONLY <2>20, <3>0, <3>2, m \in 1..(e - l)
        <5>2. h.c + News(h.lines, m - 1) <= line
          BY <3>1, <5>1
        <5> QED  BY <2>3, <5>1, <5>2
      <4> QED  BY <4>1
    <3> HIDE DEF walked
    <3> QED  BY <3>3, <3>4
  <2>10. PICK w : w = e - l
    OBVIOUS
  <2>11. w \in 0..Len(h.lines) /\ w + i - 1 = e /\ w \in 0..(j - i + 1)
    <3>1. e \in Int /\ e <= j /\ e - l \in 0..(j - i + 1)
      BY <2>6
    <3>2. w \in 0..(j - i + 1) /\ w + i - 1 = e
      BY ONLY <2>10, <2>20, <3>1
    <3> QED  BY <2>3, <3>2
  <2>12. count("del") = HowMany(TaggedAs(h.lines, "del"), w) /\ count("add") = HowMany(TaggedAs(h.lines, "add"), w)
    <3>1. \A m \in 1..w : m \in DOMAIN h.lines
      <4>1. \A m \in 1..w : m \in 1..(j - i + 1)
        BY ONLY <2>11, <2>20
      <4> QED  BY <2>3, <4>1
    <3> HIDE DEF walked
    <3>2. walked = 1..w
      BY <2>9, <2>10
    <3>3. {m \in walked : h.lines[m].tag = "del"} = {m \in 1..w : m \in TaggedAs(h.lines, "del")}
      BY <3>1, <3>2 DEF TaggedAs
    <3>4. {m \in walked : h.lines[m].tag = "add"} = {m \in 1..w : m \in TaggedAs(h.lines, "add")}
      BY <3>1, <3>2 DEF TaggedAs
    <3> QED  BY <3>3, <3>4 DEF HowMany
  <2> HIDE DEF count
  <2>13. /\ HowMany(TaggedAs(h.lines, "del"), w) - HowMany(TaggedAs(h.lines, "add"), w) = Olds(h.lines, w) - News(h.lines, w)
         /\ HowMany(TaggedAs(h.lines, "del"), w) \in Nat /\ HowMany(TaggedAs(h.lines, "add"), w) \in Nat
    BY <2>3, <2>11, RemovedLessAdded
  <2>14. Olds(h.lines, w) = HowMany(O, e) - HowMany(O, l) /\ News(h.lines, w) = HowMany(N, e) - HowMany(N, l)
    BY <2>3, <2>4, <2>11
  <2>15. HowMany(O, k) - HowMany(O, e) = HowMany(N, k) - HowMany(N, e)
    <3>1. CASE k <= j
      <4>1. HowMany(O, k) \in Nat /\ HowMany(N, k) \in Nat
        BY <1>2, CountNext
      <4> QED  BY <2>6, <3>1, <4>1
    <3>2. CASE ~(k <= j)
      <4>1. Unshown(E, n, j, k) /\ j <= k /\ e = j
        BY <1>2, <2>0, <2>1, <2>6, <3>2
      <4>2. /\ HowMany(OldPlaces(E), k) - HowMany(OldPlaces(E), j) = k - j
            /\ HowMany(NewPlaces(E), k) - HowMany(NewPlaces(E), j) = k - j
        BY <1>2, <4>1, UnshownEven
      <4> QED  BY <1>1, <4>1, <4>2
    <3> QED  BY <3>1, <3>2
  <2>16. HowMany(O, k) \in Nat /\ HowMany(N, k) \in Nat /\ HowMany(O, e) \in Nat /\ HowMany(N, e) \in Nat
    BY <1>2, CountNext
  <2>17. PICK a \in Nat, b \in Nat, c \in Nat, d \in Nat, x \in Nat, y \in Nat, u \in Nat, v \in Nat :
            /\ a = HowMany(O, k) /\ b = HowMany(N, k) /\ c = HowMany(O, e) /\ d = HowMany(N, e)
            /\ x = HowMany(O, l) /\ y = HowMany(N, l) /\ u = count("del") /\ v = count("add")
    BY <2>5, <2>12, <2>13, <2>16
  <2>18. u - v = (c - x) - (d - y) /\ a - c = b - d /\ h.a = x + 1 /\ h.c = y + 1 /\ line = b
    BY <1>3, <2>5, <2>12, <2>13, <2>14, <2>15, <2>17
  <2>19. line + h.a - h.c + u - v = a
    BY ONLY <2>18, a \in Nat, b \in Nat, c \in Nat, d \in Nat, x \in Nat, y \in Nat, u \in Nat, v \in Nat
  <2> QED  BY <2>8, <2>17, <2>19
<1> QED  BY <1>3, <1>9, <1>11, <1>12

\* The two line maps agree with the script.
LEMMA MapsHold ==
    ASSUME NEW W, NEW E \in Scripts(W), NEW n \in Nat, n >= 1
    PROVE  MapsAgree(E, n)
<1>1. PICK H, Bs : H \in Nat /\ IsPatch(Patch(E, n), E, W, n, H, Bs)
  BY PatchFacts
<1>2. ASSUME NEW k \in DOMAIN E
      PROVE  /\ E[k].tag = "keep" => OldLineFor(Patch(E, n), News(E, k)) = Olds(E, k)
             /\ E[k].tag = "keep" => NewLineFor(Patch(E, n), Olds(E, k)) = News(E, k)
             /\ E[k].tag = "del" => NewLineFor(Patch(E, n), Olds(E, k)) \in Touched(Patch(E, n))
  <2>1. PICK P : P = Patch(E, n) /\ IsPatch(P, E, W, n, H, Bs)
    BY <1>1
  <2>2. /\ E[k].tag = "keep" => NewLineFor(P, Olds(E, k)) = News(E, k)
        /\ E[k].tag = "del" => NewLineFor(P, Olds(E, k)) \in Touched(P)
    BY <1>1, <2>1, NewLineIs
  <2>3. E[k].tag = "keep" => OldLineFor(P, News(E, k)) = Olds(E, k)
    BY <1>1, <2>1, OldLineIs
  <2> QED  BY <2>1, <2>2, <2>3
<1> QED  BY <1>2 DEF MapsAgree

\* p is the place of a hunk's line m in the script, and q its hunk and place there.
IsPlaceOf(q, P, E, Bs, H, p) ==
    /\ q = <<q[1], q[2]>> /\ q[1] \in 1..H /\ q[2] \in DOMAIN P[q[1]].lines
    /\ p = q[2] + Bs[q[1]][1] - 1 /\ p \in Nat /\ p >= 1 /\ p \in DOMAIN E
    /\ P[q[1]].lines[q[2]] = E[p]
    /\ NewNo(P[q[1]], q[2]) = HowMany(NewPlaces(E), p - 1) + 1
    /\ OldNo(P[q[1]], q[2]) = HowMany(OldPlaces(E), p - 1) + 1

\* The lines of the hunks are lines of the script.
LEMMA PlacesOfLines ==
    ASSUME NEW W, NEW E \in Scripts(W), NEW n \in Nat, NEW H \in Nat, NEW Bs, NEW P, IsPatch(P, E, W, n, H, Bs),
           NEW q \in UNION {{i} \X DOMAIN P[i].lines : i \in DOMAIN P}
    PROVE  \E p : IsPlaceOf(q, P, E, Bs, H, p)
<1>1. Len(E) \in Nat /\ DOMAIN E = 1..Len(E)
  BY SidesOfScript
<1>2. /\ DOMAIN P = 1..H /\ \A h \in 1..H : IsHunk(P[h], E, W, Bs[h][1], Bs[h][2])
      /\ \A h \in 1..H : Bs[h][1] \in 1..Len(E) /\ Bs[h][2] \in Bs[h][1]..Len(E)
  BY DEF IsPatch, IsHunks, IsRun
<1>3. PICK g, m : g \in 1..H /\ q = <<g, m>> /\ m \in DOMAIN P[g].lines /\ q[1] = g /\ q[2] = m
  BY <1>2
<1>50. PICK h : h = P[g]
  OBVIOUS
<1>4. PICK i \in Nat, j \in Nat : i = Bs[g][1] /\ j = Bs[g][2] /\ h = P[g] /\ i >= 1 /\ i <= j /\ j <= Len(E)
  BY <1>1, <1>2, <1>3, <1>50
<1>5. IsHunk(h, E, W, i, j)
  BY <1>2, <1>3, <1>4
<1>6. m \in 1..(j - i + 1) /\ h.lines[m] = E[m + i - 1]
  BY <1>3, <1>4, <1>5 DEF IsHunk
<1>7. PICK p \in Nat : p = m + i - 1 /\ p >= 1 /\ p <= Len(E) /\ p \in i..(j + 1) /\ p - i + 1 = m
  <2>1. m \in Int /\ 1 <= m /\ m <= j - i + 1 /\ i \in Int /\ j \in Int /\ 1 <= i /\ i <= j /\ j <= Len(E) /\ Len(E) \in Int
    BY <1>1, <1>4, <1>6
  <2>2. m + i - 1 \in Nat /\ m + i - 1 >= 1 /\ m + i - 1 <= Len(E) /\ m + i - 1 \in i..(j + 1) /\ (m + i - 1) - i + 1 = m
    BY ONLY <2>1
  <2> QED  BY <2>2
<1>8. NewNo(h, m) = HowMany(NewPlaces(E), p - 1) + 1 /\ OldNo(h, m) = HowMany(OldPlaces(E), p - 1) + 1
  <2>1. Numbered(h, E, i, p)
    BY <1>4, <1>5, <1>7, NumbersInHunk
  <2> QED  BY <1>7, <2>1 DEF Numbered
<1>9. p \in DOMAIN E
  BY <1>1, <1>7
<1> QED  BY <1>3, <1>4, <1>6, <1>7, <1>8, <1>9 DEF IsPlaceOf

\* The shown lines are lines of the hunks.
LEMMA LinesOfPlaces ==
    ASSUME NEW W, NEW E \in Scripts(W), NEW n \in Nat, NEW H \in Nat, NEW Bs, NEW P, IsPatch(P, E, W, n, H, Bs),
           NEW p \in Shown(E, n)
    PROVE  \E q \in UNION {{i} \X DOMAIN P[i].lines : i \in DOMAIN P} : IsPlaceOf(q, P, E, Bs, H, p)
<1>1. Len(E) \in Nat /\ DOMAIN E = 1..Len(E) /\ p \in 1..Len(E) /\ p \in Nat /\ p >= 1
  BY SidesOfScript DEF Shown
<1>2. /\ DOMAIN P = 1..H /\ \A h \in 1..H : IsHunk(P[h], E, W, Bs[h][1], Bs[h][2])
      /\ \A h \in 1..H : Bs[h][1] \in 1..Len(E) /\ Bs[h][2] \in Bs[h][1]..Len(E)
      /\ \A k \in Shown(E, n) : \E h \in 1..H : k \in Bs[h][1]..Bs[h][2]
  BY DEF IsPatch, IsHunks, IsRun
<1>3. PICK g \in 1..H : p \in Bs[g][1]..Bs[g][2]
  BY <1>2
<1>50. PICK h : h = P[g]
  OBVIOUS
<1>4. PICK i \in Nat, j \in Nat : i = Bs[g][1] /\ j = Bs[g][2] /\ h = P[g] /\ i >= 1 /\ i <= j /\ j <= Len(E)
                                    /\ i <= p /\ p <= j
  BY <1>1, <1>2, <1>3, <1>50
<1>5. IsHunk(h, E, W, i, j)
  BY <1>2, <1>4
<1>6. PICK m \in 1..(j - i + 1) : p = m + i - 1 /\ p - i + 1 = m
  <2>1. p \in Int /\ i \in Int /\ j \in Int /\ i <= p /\ p <= j
    BY <1>1, <1>4
  <2>2. p - i + 1 \in 1..(j - i + 1) /\ p = (p - i + 1) + i - 1
    BY ONLY <2>1
  <2> QED  BY <2>2
<1>7. m \in DOMAIN h.lines /\ h.lines[m] = E[p]
  BY <1>5, <1>6 DEF IsHunk
<1>8. NewNo(h, m) = HowMany(NewPlaces(E), p - 1) + 1 /\ OldNo(h, m) = HowMany(OldPlaces(E), p - 1) + 1
  <2>0. p \in i..(j + 1)
    BY <1>1, <1>4
  <2>1. Numbered(h, E, i, p)
    BY <1>4, <1>5, <2>0, NumbersInHunk
  <2> QED  BY <1>6, <2>1 DEF Numbered
<1>9. PICK q : q = <<g, m>> /\ q[1] = g /\ q[2] = m
  <2>1. PICK q : q = <<g, m>>
    OBVIOUS
  <2>2. q[1] = g /\ q[2] = m
    BY <2>1
  <2> QED  BY <2>1, <2>2
<1>10. q \in UNION {{x} \X DOMAIN P[x].lines : x \in DOMAIN P}
  BY <1>2, <1>4, <1>7, <1>9
<1>11. IsPlaceOf(q, P, E, Bs, H, p)
  BY <1>1, <1>4, <1>6, <1>7, <1>8, <1>9 DEF IsPlaceOf
<1> QED  BY <1>10, <1>11

\* A line of the new side has the number of lines of that side up to it.
LEMMA NumberOfNew ==
    ASSUME NEW W, NEW E \in Scripts(W), NEW p \in NewPlaces(E)
    PROVE  /\ p \in Nat /\ p >= 1 /\ p \in DOMAIN E
           /\ News(E, p) = HowMany(NewPlaces(E), p) /\ HowMany(NewPlaces(E), p - 1) + 1 = News(E, p)
           /\ Len(NewOf(E)) \in Nat /\ News(E, p) \in 1..Len(NewOf(E))
<1>1. Len(E) \in Nat /\ DOMAIN E = 1..Len(E) /\ p \in 1..Len(E) /\ p \in 0..Len(E) /\ p \in Nat /\ p >= 1 /\ p <= Len(E)
  BY SidesOfScript
<1>2. News(E, p) = HowMany(NewPlaces(E), p)
  BY <1>1, SidesOfScript
<1>3. /\ HowMany(NewPlaces(E), p) \in Nat /\ p - 1 \in Nat
      /\ HowMany(NewPlaces(E), p - 1) + 1 = HowMany(NewPlaces(E), p)
  BY <1>1, CountsOfPlaces
<1>4. HowMany(NewPlaces(E), p - 1) \in Nat
  BY <1>3, CountNext
<1>5. HowMany(NewPlaces(E), p) <= HowMany(NewPlaces(E), Len(E)) /\ HowMany(NewPlaces(E), Len(E)) \in Nat
  BY <1>1, PlaceCounted
<1>6. Len(NewOf(E)) = HowMany(NewPlaces(E), Len(E))
  <2>1. IsTexts(TextsAt(E, NewPlaces(E)), E, NewPlaces(E), W)
    BY SidesOfScript, TextsOfPlaces
  <2> QED  BY <2>1, SidesOfScript DEF IsTexts
<1> QED  BY <1>1, <1>2, <1>3, <1>4, <1>5, <1>6

\* The numbers of the lines of one kind that a diff shows.
Numbers(E, tag) == {News(E, k) : k \in {j \in DOMAIN E : E[j].tag = tag}}

\* The added lines of a patch are those of the script.
LEMMA AddedAre ==
    ASSUME NEW W, NEW E \in Scripts(W), NEW n \in Nat, NEW H \in Nat, NEW Bs, NEW P, IsPatch(P, E, W, n, H, Bs)
    PROVE  /\ AddedLines(P) = Numbers(E, "add") /\ CommentableLines(P) \subseteq 1..Len(NewOf(E))
           /\ AddedLines(P) \subseteq CommentableLines(P) /\ Len(NewOf(E)) \in Nat
<1>1. ASSUME NEW tag \in {"keep", "add"}, NEW q \in Tagged(P, tag)
      PROVE  \E p \in DOMAIN E : /\ E[p].tag = tag /\ NewNo(P[q[1]], q[2]) = News(E, p)
                                 /\ News(E, p) \in 1..Len(NewOf(E))
  <2>1. q \in UNION {{i} \X DOMAIN P[i].lines : i \in DOMAIN P} /\ P[q[1]].lines[q[2]].tag = tag
    BY <1>1 DEF Tagged
  <2>2. PICK p : IsPlaceOf(q, P, E, Bs, H, p)
    BY <2>1, PlacesOfLines
  <2>3. p \in DOMAIN E /\ E[p].tag = tag /\ NewNo(P[q[1]], q[2]) = HowMany(NewPlaces(E), p - 1) + 1
    BY <2>1, <2>2 DEF IsPlaceOf
  <2>4. p \in NewPlaces(E)
    BY <2>3, SidesOfScript
  <2>5. HowMany(NewPlaces(E), p - 1) + 1 = News(E, p) /\ News(E, p) \in 1..Len(NewOf(E))
    BY <2>4, NumberOfNew
  <2> QED  BY <2>3, <2>5
<1>2. ASSUME NEW p \in DOMAIN E, E[p].tag = "add"
      PROVE  News(E, p) \in AddedLines(P)
  <2>1. p \in Shown(E, n)
    <3>1. p \in Nat
      BY SidesOfScript
    <3>2. Distance(p, p) <= n
      BY <3>1 DEF Distance
    <3> QED  BY <1>2, <3>2 DEF Shown
  <2>2. PICK q \in UNION {{i} \X DOMAIN P[i].lines : i \in DOMAIN P} : IsPlaceOf(q, P, E, Bs, H, p)
    BY <2>1, LinesOfPlaces
  <2>3. P[q[1]].lines[q[2]].tag = "add" /\ NewNo(P[q[1]], q[2]) = HowMany(NewPlaces(E), p - 1) + 1
    BY <1>2, <2>2 DEF IsPlaceOf
  <2>4. HowMany(NewPlaces(E), p - 1) + 1 = News(E, p)
    <3>1. p \in NewPlaces(E)
      BY <1>2, SidesOfScript
    <3> QED  BY <3>1, NumberOfNew
  <2>5. q \in Tagged(P, "add")
    BY <2>2, <2>3 DEF Tagged
  <2> QED  BY <2>3, <2>4, <2>5 DEF AddedLines
<1>3. AddedLines(P) = Numbers(E, "add")
  <2>1. ASSUME NEW x \in AddedLines(P) PROVE x \in Numbers(E, "add")
    <3>1. PICK q \in Tagged(P, "add") : x = NewNo(P[q[1]], q[2])
      BY <2>1 DEF AddedLines
    <3>2. PICK p \in DOMAIN E : E[p].tag = "add" /\ NewNo(P[q[1]], q[2]) = News(E, p)
      BY <1>1
    <3> QED  BY <3>1, <3>2 DEF Numbers
  <2>2. ASSUME NEW x \in Numbers(E, "add") PROVE x \in AddedLines(P)
    BY <1>2 DEF Numbers
  <2> QED  BY <2>1, <2>2
<1>4. ASSUME NEW x \in CommentableLines(P) PROVE x \in 1..Len(NewOf(E))
  <2>1. PICK tag, q : tag \in {"keep", "add"} /\ q \in Tagged(P, tag) /\ x = NewNo(P[q[1]], q[2])
    <3>1. \/ x \in {NewNo(P[q[1]], q[2]) : q \in Tagged(P, "add")}
          \/ x \in {NewNo(P[q[1]], q[2]) : q \in Tagged(P, "keep")}
      BY DEF CommentableLines, AddedLines
    <3> QED  BY <3>1
  <2>2. \E p \in DOMAIN E : NewNo(P[q[1]], q[2]) = News(E, p) /\ News(E, p) \in 1..Len(NewOf(E))
    BY <1>1, <2>1, Zenon
  <2> QED  BY <2>1, <2>2
<1>5. Len(NewOf(E)) \in Nat
  BY SidesOfScript, TextsOfPlaces DEF IsTexts
<1> QED  BY <1>3, <1>4, <1>5 DEF CommentableLines

\* Of a nonempty set of numbers one is nearest to x.
LEMMA ClosestIs ==
    ASSUME NEW S, S \subseteq Nat, S # {}, NEW x \in Nat
    PROVE  Closest(S, x) \in S /\ \A t \in S : Distance(Closest(S, x), x) <= Distance(t, x)
<1> DEFINE D == {Distance(s, x) : s \in S}
<1>1. \A s \in S : Distance(s, x) \in Nat
  BY DEF Distance
<1>2. D \subseteq Nat /\ D # {}
  BY <1>1
<1>3. \E d \in D : \A e \in D : d <= e
  <2> HIDE DEF D
  <2> QED  BY <1>2, LeastOfSome
<1>4. \E s \in S : \A t \in S : Distance(s, x) <= Distance(t, x)
  BY <1>3
<1> QED  BY <1>4 DEF Closest

\* A comment's anchor is a line the diff shows, and there is one when some line changed.
LEMMA AnchorIsShown ==
    ASSUME NEW changed, NEW commentable, changed \subseteq commentable, commentable \subseteq Nat, 0 \notin commentable,
           NEW exact \in Nat, NEW start \in Nat
    PROVE  /\ AnchorLine(exact, start, changed, commentable) \in commentable \cup {0}
           /\ changed # {} => AnchorLine(exact, start, changed, commentable) # 0
<1>1. PICK from \in Nat : from = IF exact = 0 THEN start ELSE exact
  OBVIOUS
<1>2. PICK after : after = {l \in changed : from = 0 \/ l >= from}
  OBVIOUS
<1>3. PICK line : line = AnchorLine(exact, start, changed, commentable)
  OBVIOUS
<1>4. line =
         CASE exact # 0 /\ AnchorsAt(exact, changed, commentable) -> exact
           [] ~(exact # 0 /\ AnchorsAt(exact, changed, commentable)) /\ changed = {} ->
                IF exact # 0 /\ commentable # {} THEN Closest(commentable, exact) ELSE 0
           [] ~(exact # 0 /\ AnchorsAt(exact, changed, commentable)) /\ changed # {} ->
                IF from \in changed THEN from
                ELSE IF after # {} THEN Min(after)
                ELSE Closest(changed, from)
  BY <1>1, <1>2, <1>3, Zenon DEF AnchorLine
<1>5. commentable # {} => Closest(commentable, exact) \in commentable
  BY ClosestIs
<1>6. changed # {} => Closest(changed, from) \in changed
  BY ClosestIs
<1>7. after # {} => Min(after) \in changed
  <2>1. ASSUME after # {} PROVE Min(after) \in changed
    <3>1. after \subseteq Nat
      BY <1>2
    <3>2. \E x \in after : \A y \in after : x <= y
      BY <2>1, <3>1, LeastOfSome
    <3>3. Min(after) \in after
      BY <3>2 DEF Min
    <3> QED  BY <1>2, <3>3
  <2> QED  BY <2>1
<1>8. CASE exact # 0 /\ AnchorsAt(exact, changed, commentable)
  <2>1. line = exact
    BY <1>4, <1>8
  <2> QED  BY <1>3, <1>8, <2>1 DEF AnchorsAt
<1>9. CASE ~(exact # 0 /\ AnchorsAt(exact, changed, commentable)) /\ changed = {}
  <2>1. line = IF exact # 0 /\ commentable # {} THEN Closest(commentable, exact) ELSE 0
    BY <1>4, <1>9
  <2> QED  BY <1>3, <1>5, <1>9, <2>1
<1>10. CASE ~(exact # 0 /\ AnchorsAt(exact, changed, commentable)) /\ changed # {}
  <2>1. line = IF from \in changed THEN from ELSE IF after # {} THEN Min(after) ELSE Closest(changed, from)
    BY <1>4, <1>10
  <2>2. line \in changed
    BY <1>6, <1>7, <1>10, <2>1
  <2> QED  BY <1>3, <2>2
<1> QED  BY <1>8, <1>9, <1>10

\* So it is for every diff.
LEMMA AnchorsHold ==
    ASSUME NEW W, NEW E \in Scripts(W)
    PROVE  Anchored(E)
<1>1. PICK n \in Nat : n = 1
  OBVIOUS
<1>2. PICK P, Bs, H : H \in Nat /\ P = Patch(E, n) /\ IsPatch(P, E, W, n, H, Bs)
  <2>1. PICK H, Bs : H \in Nat /\ IsPatch(Patch(E, n), E, W, n, H, Bs)
    BY PatchFacts
  <2> QED  BY <2>1
<1>3. /\ AddedLines(P) \subseteq CommentableLines(P) /\ CommentableLines(P) \subseteq 1..Len(NewOf(E))
      /\ Len(NewOf(E)) \in Nat
  BY <1>2, AddedAre
<1>4. CommentableLines(P) \subseteq Nat /\ 0 \notin CommentableLines(P)
  BY <1>3
<1>5. ASSUME NEW exact \in 0..(Len(NewOf(E)) + 1), NEW start \in 0..(Len(NewOf(E)) + 1)
      PROVE  /\ AnchorLine(exact, start, AddedLines(P), CommentableLines(P)) \in CommentableLines(P) \cup {0}
             /\ AddedLines(P) # {} => AnchorLine(exact, start, AddedLines(P), CommentableLines(P)) # 0
  <2>1. exact \in Nat /\ start \in Nat
    BY <1>3
  <2> QED  BY <1>3, <1>4, <2>1, AnchorIsShown
<1> QED  BY <1>1, <1>2, <1>5 DEF Anchored

\* One function is paired with another of its name when the codes differ and a range meets it.
LEMMA OnePair ==
    ASSUME NEW old, NEW new, old.name = new.name, NEW R
    PROVE  PairFunctions({old}, {new}, R, {}) =
             IF old.code # new.code /\ \E r \in R : new.first <= r[2] /\ r[1] <= new.last
             THEN {<<old, new>>} ELSE {}
<1>1. {old} \X {new} = {<<old, new>>}
  OBVIOUS
<1>2. {f \in {old} : f.name = new.name} = {old}
  OBVIOUS
<1>3. PICK meets \in BOOLEAN : meets = (\E r \in R : new.first <= r[2] /\ r[1] <= new.last)
  OBVIOUS
<1>4. ASSUME NEW p
      PROVE  p \in PairFunctions({old}, {new}, R, {}) <=>
               p = <<old, new>> /\ old.code # new.code /\ meets
  <2>1. p \in PairFunctions({old}, {new}, R, {}) <=>
          /\ p \in {old} \X {new} /\ {f \in {old} : f.name = p[2].name} = {p[1]}
          /\ p[1].code # p[2].code /\ <<p[1].code, p[2].code>> \notin {}
          /\ \E r \in R : p[2].first <= r[2] /\ r[1] <= p[2].last
    BY DEF PairFunctions
  <2>2. CASE p = <<old, new>>
    <3>1. p[1] = old /\ p[2] = new
      BY <2>2
    <3>2. p \in {old} \X {new}
      BY <2>2
    <3>3. (\E r \in R : p[2].first <= r[2] /\ r[1] <= p[2].last) <=> meets
      BY <1>3, <3>1
    <3>4. {f \in {old} : f.name = p[2].name} = {p[1]}
      BY <1>2, <3>1
    <3> QED  BY <2>1, <2>2, <3>1, <3>2, <3>3, <3>4
  <2>3. CASE p # <<old, new>>
    BY <1>1, <2>1, <2>3
  <2> QED  BY <2>2, <2>3
<1>5. CASE old.code # new.code /\ meets
  <2>1. PairFunctions({old}, {new}, R, {}) = {<<old, new>>}
    BY <1>4, <1>5
  <2> QED  BY <1>3, <1>5, <2>1
<1>6. CASE ~(old.code # new.code /\ meets)
  <2>1. PairFunctions({old}, {new}, R, {}) = {}
    BY <1>4, <1>6
  <2> QED  BY <1>3, <1>6, <2>1
<1> QED  BY <1>5, <1>6

\* Of two with the same name neither is.
LEMMA NoPair ==
    ASSUME NEW old, NEW other, NEW new, old.name = new.name, other.name = new.name, old # other, NEW R
    PROVE  PairFunctions({old, other}, {new}, R, {}) = {}
<1>1. ASSUME NEW p \in PairFunctions({old, other}, {new}, R, {}) PROVE FALSE
  <2>1. p \in {old, other} \X {new} /\ {f \in {old, other} : f.name = p[2].name} = {p[1]}
    BY DEF PairFunctions
  <2>2. p[2] = new
    BY <2>1
  <2>3. {f \in {old, other} : f.name = p[2].name} = {old, other}
    BY <2>2
  <2> QED  BY <2>1, <2>3
<1> QED  BY <1>1

\* Between two kept lines that have others between them on the two sides, a hunk has a range.
LEMMA ChangeInRange ==
    ASSUME NEW W, NEW E \in Scripts(W), NEW n \in Nat, n >= 1, NEW H \in Nat, NEW Bs, NEW P,
           IsPatch(P, E, W, n, H, Bs), NEW a \in DOMAIN E, NEW z \in DOMAIN E, a <= z,
           E[a].tag = "keep", E[z].tag = "keep", NEW k \in a..z, E[k].tag # "keep"
    PROVE  \E r \in HunkRanges(P) : News(E, a) <= r[2] /\ r[1] <= News(E, z)
<1>1. PICK N : N = NewPlaces(E)
  OBVIOUS
<1>2. Len(E) \in Nat /\ DOMAIN E = 1..Len(E) /\ k \in DOMAIN E /\ k \in Nat /\ a \in Nat /\ z \in Nat
      /\ a >= 1 /\ a <= k /\ k <= z /\ a \in N /\ z \in N
  BY <1>1, SidesOfScript
<1>3. News(E, a) = HowMany(N, a) /\ News(E, z) = HowMany(N, z)
  BY <1>1, <1>2, NumberOfNew
<1>4. /\ DOMAIN P = 1..H /\ \A h \in 1..H : IsHunk(P[h], E, W, Bs[h][1], Bs[h][2])
      /\ \A h \in 1..H : IsRun(Bs[h], Shown(E, n), Len(E))
      /\ \A x \in Shown(E, n) : \E h \in 1..H : x \in Bs[h][1]..Bs[h][2]
  BY DEF IsPatch, IsHunks
<1>5. k \in Shown(E, n)
  <2>1. Distance(k, k) <= n
    BY <1>2 DEF Distance
  <2> QED  BY <1>2, <2>1 DEF Shown
<1>6. PICK g \in 1..H : k \in Bs[g][1]..Bs[g][2]
  BY <1>4, <1>5
<1>7. PICK h, b : h = P[g] /\ b = Bs[g]
  OBVIOUS
<1>8. IsRun(b, Shown(E, n), Len(E)) /\ IsHunk(h, E, W, b[1], b[2])
  BY <1>4, <1>7
<1>9. h.b > 0 /\ h.d > 0
  BY <1>8, HunksHaveKept
<1>10. PICK i \in Nat, j \in Nat : i = b[1] /\ j = b[2] /\ i >= 1 /\ i <= k /\ k <= j
  BY <1>2, <1>6, <1>7, <1>8 DEF IsRun
<1>11. PICK l \in Nat : l = i - 1
  BY <1>10
<1>12. h.d = HowMany(N, j) - HowMany(N, l) /\ h.d \in Nat /\ h.c = HowMany(N, l) + 1
  <2>1. IsHunk(h, E, W, i, j)
    BY <1>8, <1>10
  <2> QED  BY <1>1, <1>9, <1>11, <2>1 DEF IsHunk
<1>13. HowMany(N, l) \in Nat /\ HowMany(N, j) \in Nat /\ HowMany(N, a) \in Nat /\ HowMany(N, z) \in Nat
  BY <1>2, CountNext
<1>14. HowMany(N, a) <= HowMany(N, j)
  <2>1. a <= j
    BY <1>2, <1>10
  <2> QED  BY <1>2, <2>1, CountGrows
<1>15. HowMany(N, l) < HowMany(N, z)
  <2>1. l < z /\ z >= 1
    BY <1>2, <1>10, <1>11
  <2>2. HowMany(N, l) < HowMany(N, z) <=> l < z
    BY <1>2, <2>1, CountsOfPlaces
  <2> QED  BY <2>1, <2>2
<1>16. PICK r : r = <<h.c, h.c + h.d - 1>>
  OBVIOUS
<1>17. r \in HunkRanges(P) /\ r[1] = h.c /\ r[2] = h.c + h.d - 1
  <2>1. g \in {x \in DOMAIN P : P[x].d > 0}
    BY <1>4, <1>7, <1>9
  <2> QED  BY <1>7, <1>16, <2>1 DEF HunkRanges
<1>18. r[2] = HowMany(N, j) /\ r[1] <= HowMany(N, z)
  BY <1>12, <1>13, <1>15, <1>17
<1> QED  BY <1>3, <1>14, <1>17, <1>18

\* A changed function is paired with its old version, and with no namesake.
LEMMA PairsHold ==
    ASSUME NEW W, NEW E \in Scripts(W)
    PROVE  ChangedArePaired(E)
<1>1. PICK n \in Nat : n = 1
  OBVIOUS
<1>2. PICK P, Bs, H : H \in Nat /\ P = Patch(E, n) /\ IsPatch(P, E, W, n, H, Bs)
  <2>1. PICK H, Bs : H \in Nat /\ IsPatch(Patch(E, n), E, W, n, H, Bs)
    BY PatchFacts
  <2> QED  BY <2>1
<1>3. ASSUME NEW a \in DOMAIN E, NEW z \in DOMAIN E, E[a].tag = "keep", E[z].tag = "keep", a <= z,
             NEW old, old = [name |-> "f", code |-> SubSeq(OldOf(E), Olds(E, a), Olds(E, z)),
                             first |-> Olds(E, a), last |-> Olds(E, z)],
             NEW new, new = [name |-> "f", code |-> SubSeq(NewOf(E), News(E, a), News(E, z)),
                             first |-> News(E, a), last |-> News(E, z)]
      PROVE  /\ PairFunctions({old}, {new}, HunkRanges(P), {}) = IF old.code = new.code THEN {} ELSE {<<old, new>>}
             /\ PairFunctions({old, [old EXCEPT !.first = 0]}, {new}, HunkRanges(P), {}) = {}
  <2>1. PICK O, N : O = OldPlaces(E) /\ N = NewPlaces(E)
    OBVIOUS
  <2>2. Len(E) \in Nat /\ DOMAIN E = 1..Len(E) /\ a \in Nat /\ z \in Nat /\ a >= 1 /\ z >= 1 /\ z <= Len(E)
        /\ O \subseteq DOMAIN E /\ N \subseteq DOMAIN E /\ a \in O /\ z \in O /\ a \in N /\ z \in N
    BY <1>3, <2>1, SidesOfScript
  <2>3. /\ Olds(E, a) = HowMany(O, a) /\ Olds(E, z) = HowMany(O, z)
        /\ News(E, a) = HowMany(N, a) /\ News(E, z) = HowMany(N, z)
    <3>1. a \in 0..Len(E) /\ z \in 0..Len(E)
      BY <2>2
    <3> QED  BY <2>1, <3>1, SidesOfScript
  <2>4. PICK p \in Nat : p = a - 1
    BY <2>2
  <2>5. HowMany(O, p) + 1 = HowMany(O, a) /\ HowMany(N, p) + 1 = HowMany(N, a)
        /\ HowMany(O, p) \in Nat /\ HowMany(N, p) \in Nat
    <3>1. HowMany(O, a - 1) + 1 = HowMany(O, a) /\ HowMany(N, a - 1) + 1 = HowMany(N, a)
      BY <2>2, CountsOfPlaces
    <3>2. HowMany(O, p) \in Nat /\ HowMany(N, p) \in Nat
      BY CountNext
    <3> QED  BY <2>4, <3>1, <3>2
  <2>6. old.code = Stretch(E, O, p, z) /\ new.code = Stretch(E, N, p, z)
    <3>1. OldOf(E) = TextsAt(E, O) /\ NewOf(E) = TextsAt(E, N)
      BY <2>1, SidesOfScript
    <3> QED  BY <1>3, <2>3, <2>5, <3>1 DEF Stretch
  <2>7. ASSUME old.code # new.code
        PROVE  \E r \in HunkRanges(P) : new.first <= r[2] /\ r[1] <= new.last
    <3>1. p \in 0..Len(E) /\ z \in p..Len(E)
      BY <1>3, <2>2, <2>4
    <3>2. ~(\A k \in (p + 1)..z : k \in O /\ k \in N)
      BY <2>2, <2>6, <2>7, <3>1, SameBetween
    <3>3. PICK k \in (p + 1)..z : ~(k \in O /\ k \in N)
      BY <3>2
    <3>4. k \in a..z /\ k \in DOMAIN E
      BY <2>2, <2>4
    <3>5. E[k].tag # "keep"
      BY <2>1, <3>3, <3>4, SidesOfScript
    <3>6. \E r \in HunkRanges(P) : News(E, a) <= r[2] /\ r[1] <= News(E, z)
      BY <1>1, <1>2, <1>3, <3>4, <3>5, ChangeInRange
    <3> QED  BY <1>3, <3>6
  <2>8. old.name = new.name /\ [old EXCEPT !.first = 0].name = new.name
    BY <1>3
  <2>9. old # [old EXCEPT !.first = 0]
    <3>1. old.first # 0
      BY <1>3, <2>3, <2>5
    <3>2. [old EXCEPT !.first = 0].first = 0
      BY <1>3
    <3> QED  BY <3>1, <3>2
  <2>10. PairFunctions({old, [old EXCEPT !.first = 0]}, {new}, HunkRanges(P), {}) = {}
    <3>1. PICK other : other = [old EXCEPT !.first = 0]
      OBVIOUS
    <3> QED  BY <2>8, <2>9, <3>1, NoPair
  <2>11. PairFunctions({old}, {new}, HunkRanges(P), {}) =
             IF old.code # new.code /\ \E r \in HunkRanges(P) : new.first <= r[2] /\ r[1] <= new.last
             THEN {<<old, new>>} ELSE {}
    BY <2>8, OnePair
  <2> QED  BY <2>7, <2>10, <2>11
<1>4. ASSUME NEW a \in {k \in DOMAIN E : E[k].tag = "keep"}, NEW z \in {k \in DOMAIN E : E[k].tag = "keep"}, a <= z
      PROVE  LET fn(text, first, last) == [name |-> "f", code |-> SubSeq(text, first, last),
                                           first |-> first, last |-> last]
                 old == fn(OldOf(E), Olds(E, a), Olds(E, z))
                 new == fn(NewOf(E), News(E, a), News(E, z))
                 pairs(pre) == PairFunctions(pre, {new}, HunkRanges(Patch(E, 1)), {})
             IN  /\ pairs({old}) = IF old.code = new.code THEN {} ELSE {<<old, new>>}
                 /\ pairs({old, [old EXCEPT !.first = 0]}) = {}
  <2> DEFINE old == [name |-> "f", code |-> SubSeq(OldOf(E), Olds(E, a), Olds(E, z)),
                     first |-> Olds(E, a), last |-> Olds(E, z)]
             new == [name |-> "f", code |-> SubSeq(NewOf(E), News(E, a), News(E, z)),
                     first |-> News(E, a), last |-> News(E, z)]
  <2>1. /\ PairFunctions({old}, {new}, HunkRanges(P), {}) = IF old.code = new.code THEN {} ELSE {<<old, new>>}
        /\ PairFunctions({old, [old EXCEPT !.first = 0]}, {new}, HunkRanges(P), {}) = {}
    BY <1>3, <1>4
  <2>2. P = Patch(E, 1)
    BY <1>1, <1>2
  <2> QED  BY <2>1, <2>2
<1> QED  BY <1>4 DEF ChangedArePaired

Earlier(E) == {p \in (DOMAIN E) \X (DOMAIN E) : Precedes(E, p[1], p[2])}

\* The reverse diff has line j before line k.
IsSooner(E, j, k) ==
    LET block(i) == HowMany(TaggedAs(E, "keep"), i)
        rank(i) == IF E[i].tag = "keep" THEN 0 ELSE IF E[i].tag = "add" THEN 1 ELSE 2
    IN  \/ block(j) < block(k)
        \/ block(j) = block(k) /\ rank(j) < rank(k)
        \/ block(j) = block(k) /\ rank(j) = rank(k) /\ j < k

\* The order of the reverse diff, in the counts used here.
LEMMA SoonerInSwap ==
    ASSUME NEW W, NEW E \in Scripts(W), NEW j \in DOMAIN E, NEW k \in DOMAIN E
    PROVE  Precedes(E, j, k) <=> IsSooner(E, j, k)
<1>1. ASSUME NEW i \in DOMAIN E
      PROVE  /\ Cardinality({l \in 1..i : E[l].tag = "keep"}) = HowMany(TaggedAs(E, "keep"), i)
             /\ TagOrder[Turned[E[i].tag]] = IF E[i].tag = "keep" THEN 0 ELSE IF E[i].tag = "add" THEN 1 ELSE 2
  <2>1. Len(E) \in Nat /\ DOMAIN E = 1..Len(E) /\ E[i].tag \in {"keep", "del", "add"}
    BY SidesOfScript
  <2>2. \A l \in 1..i : l \in DOMAIN E
    BY <2>1
  <2>3. {l \in 1..i : E[l].tag = "keep"} = {l \in 1..i : l \in TaggedAs(E, "keep")}
    BY <2>2 DEF TaggedAs
  <2>4. TagOrder[Turned["keep"]] = 0 /\ TagOrder[Turned["add"]] = 1 /\ TagOrder[Turned["del"]] = 2
    BY DEF TagOrder, Turned
  <2> QED  BY <2>1, <2>3, <2>4 DEF HowMany
<1> QED  BY <1>1 DEF Precedes, IsSooner

\* It puts the lines of a script in a row.
LEMMA EarlierInRow ==
    ASSUME NEW W, NEW E \in Scripts(W)
    PROVE  InOrderBy(Earlier(E), DOMAIN E)
<1>1. DOMAIN E \subseteq Nat
  BY SidesOfScript
<1>2. PICK block : block = [k \in DOMAIN E |-> HowMany(TaggedAs(E, "keep"), k)]
  OBVIOUS
<1>3. PICK rank : rank = [k \in DOMAIN E |-> IF E[k].tag = "keep" THEN 0 ELSE IF E[k].tag = "add" THEN 1 ELSE 2]
  OBVIOUS
<1>4. \A k \in DOMAIN E : block[k] \in Int /\ rank[k] \in Int /\ k \in Int
  <2>1. ASSUME NEW k \in DOMAIN E PROVE block[k] \in Int /\ rank[k] \in Int /\ k \in Int
    <3>1. k \in Nat
      BY <1>1
    <3>2. HowMany(TaggedAs(E, "keep"), k) \in Nat
      BY <3>1, CountNext
    <3> QED  BY <1>2, <1>3, <3>1, <3>2
  <2> QED  BY <2>1
<1>5. ASSUME NEW x \in DOMAIN E, NEW y \in DOMAIN E
      PROVE  <<x, y>> \in Earlier(E) <=>
               \/ block[x] < block[y]
               \/ block[x] = block[y] /\ rank[x] < rank[y]
               \/ block[x] = block[y] /\ rank[x] = rank[y] /\ x < y
  <2>1. <<x, y>> \in Earlier(E) <=> IsSooner(E, x, y)
    <3>1. <<x, y>> \in Earlier(E) <=> Precedes(E, x, y)
      BY DEF Earlier
    <3> QED  BY <3>1, SoonerInSwap
  <2> QED  BY <1>2, <1>3, <2>1 DEF IsSooner
<1>6. PICK D : D = DOMAIN E
  OBVIOUS
<1>7. PICK R : R = Earlier(E)
  OBVIOUS
<1>8. \A x, y \in D : <<x, y>> \in R <=>
               \/ block[x] < block[y]
               \/ block[x] = block[y] /\ rank[x] < rank[y]
               \/ block[x] = block[y] /\ rank[x] = rank[y] /\ x < y
  BY <1>5, <1>6, <1>7
<1>9. \A k \in D : block[k] \in Int /\ rank[k] \in Int /\ k \in Int
  BY <1>4, <1>6
<1>10. \A x \in D : <<x, x>> \notin R
  BY ONLY <1>8, <1>9
<1>11. \A x, y \in D : x = y \/ <<x, y>> \in R \/ <<y, x>> \in R
  <2>1. \A x, y \in D : /\ block[x] < block[y] \/ block[x] = block[y] \/ block[y] < block[x]
                        /\ rank[x] < rank[y] \/ rank[x] = rank[y] \/ rank[y] < rank[x]
                        /\ x < y \/ x = y \/ y < x
    BY ONLY <1>9
  <2> QED  BY ONLY <1>8, <2>1
<1>12. \A x, y, z \in D : <<x, y>> \in R /\ <<y, z>> \in R => <<x, z>> \in R
  BY ONLY <1>8, <1>9
<1> QED  BY <1>6, <1>7, <1>10, <1>11, <1>12 DEF InOrderBy

\* f says where the reverse diff S has each line of E.
IsSwap(S, E, f, W) ==
    /\ S \in Scripts(W) /\ Len(S) = Len(E) /\ DOMAIN S = DOMAIN E
    /\ \A k \in DOMAIN E : f[k] \in DOMAIN E /\ S[f[k]].tag = Turned[E[k].tag] /\ S[f[k]].text = E[k].text
    /\ \A q \in DOMAIN E : \E k \in DOMAIN E : f[k] = q
    /\ \A j, k \in DOMAIN E : (f[j] < f[k] <=> IsSooner(E, j, k)) /\ (f[j] = f[k] => j = k)

\* The reverse diff is a script, with every line of the first at a place of its own.
LEMMA SwappedIs ==
    ASSUME NEW W, NEW E \in Scripts(W)
    PROVE  \E f : IsSwap(Swapped(E), E, f, W)
<1>1. PICK n \in Nat : n = Len(E) /\ DOMAIN E = 1..n
  BY SidesOfScript
<1>2. IsFiniteSet(DOMAIN E) /\ Cardinality(DOMAIN E) = n
  <2>1. 1 \in Int /\ n \in Int
    BY <1>1
  <2>2. IsFiniteSet(1..n) /\ Cardinality(1..n) = IF 1 > n THEN 0 ELSE n - 1 + 1
    BY <2>1, FS_Interval
  <2> QED  BY <1>1, <2>2
<1>3. PICK D : D = DOMAIN E
  OBVIOUS
<1>4. PICK R : R = Earlier(E)
  OBVIOUS
<1> DEFINE c(x) == Cardinality(Preceding(R, D, x))
           order == [k \in 1..Cardinality(D) |-> CHOOSE x \in D : c(x) = k - 1]
<1>5. InOrderBy(R, D) /\ IsFiniteSet(D) /\ Cardinality(D) = n /\ D = 1..n
  BY <1>1, <1>2, <1>3, <1>4, EarlierInRow
<1>6. /\ \A x \in D : c(x) \in 0..(n - 1)
      /\ \A k \in 1..n : \E x \in D : c(x) = k - 1
  <2> HIDE DEF c
  <2>1. /\ \A x \in D : Cardinality(Preceding(R, D, x)) \in 0..(Cardinality(D) - 1)
        /\ \A k \in 1..Cardinality(D) : \E x \in D : Cardinality(Preceding(R, D, x)) = k - 1
    BY <1>5, PlacesInRow, ZenonT(30)
  <2> QED  BY <1>5, <2>1 DEF c
<1>7. Ranked(DOMAIN E, LAMBDA i, j : Precedes(E, i, j)) = order
  <2>1. ASSUME NEW x \in D PROVE {y \in D : Precedes(E, y, x)} = Preceding(R, D, x)
    BY <1>3, <1>4 DEF Preceding, Earlier
  <2>2. Ranked(DOMAIN E, LAMBDA i, j : Precedes(E, i, j)) =
          [k \in 1..Cardinality(D) |-> CHOOSE x \in D : Cardinality({y \in D : Precedes(E, y, x)}) = k - 1]
    BY <1>3 DEF Ranked
  <2>3. \A k \in 1..Cardinality(D) :
          (CHOOSE x \in D : Cardinality({y \in D : Precedes(E, y, x)}) = k - 1) = CHOOSE x \in D : c(x) = k - 1
    BY <2>1
  <2> QED  BY <2>2, <2>3
<1>8. \A k \in 1..n : order[k] \in D /\ c(order[k]) = k - 1
  <2> HIDE DEF c
  <2> QED  BY <1>5, <1>6
<1>9. DOMAIN order = 1..n
  BY <1>5
<1>10. Swapped(E) = [k \in DOMAIN order |-> [tag |-> Turned[E[order[k]].tag], text |-> E[order[k]].text]]
  <2> HIDE DEF order
  <2> QED  BY <1>7 DEF Swapped
<1> HIDE DEF order
<1>11. /\ \A x \in D : Cardinality(Preceding(R, D, x)) + 1 \in 1..Cardinality(D) /\ order[Cardinality(Preceding(R, D, x)) + 1] = x
       /\ \A i, j \in 1..Cardinality(D) : i < j <=> <<order[i], order[j]>> \in R
       /\ \A i, j \in 1..Cardinality(D) : order[i] = order[j] => i = j
  <2>1. \A k \in 1..Cardinality(D) : order[k] \in D /\ Cardinality(Preceding(R, D, order[k])) = k - 1
    BY <1>5, <1>8
  <2> HIDE DEF c
  <2>2. PICK o : o = order
    OBVIOUS
  <2>3. \A k \in 1..Cardinality(D) : o[k] \in D /\ Cardinality(Preceding(R, D, o[k])) = k - 1
    BY <2>1, <2>2
  <2>4. /\ \A x \in D : Cardinality(Preceding(R, D, x)) + 1 \in 1..Cardinality(D) /\ o[Cardinality(Preceding(R, D, x)) + 1] = x
        /\ \A i, j \in 1..Cardinality(D) : i < j <=> <<o[i], o[j]>> \in R
        /\ \A i, j \in 1..Cardinality(D) : o[i] = o[j] => i = j
    <3>1. IsFiniteSet(D) /\ InOrderBy(R, D)
      BY <1>5
    <3> QED  BY ONLY <2>3, <3>1, InRow
  <2> QED  BY <2>2, <2>4
<1> DEFINE f == [k \in D |-> c(k) + 1]
           S == [k \in DOMAIN order |-> [tag |-> Turned[E[order[k]].tag], text |-> E[order[k]].text]]
<1>12. \A k \in D : f[k] \in 1..n /\ order[f[k]] = k
  BY <1>5, <1>11
<1>13. \A q \in 1..n : order[q] \in D /\ f[order[q]] = q
  <2>1. ASSUME NEW q \in 1..n PROVE order[q] \in D /\ f[order[q]] = q
    <3>1. order[q] \in D /\ c(order[q]) = q - 1
      BY <1>8
    <3> HIDE DEF c
    <3> QED  BY <3>1
  <2> QED  BY <2>1
<1> HIDE DEF f
<1>14. \A j, k \in D : (f[j] < f[k] <=> IsSooner(E, j, k)) /\ (f[j] = f[k] => j = k)
  <2>1. ASSUME NEW j \in D, NEW k \in D PROVE (f[j] < f[k] <=> IsSooner(E, j, k)) /\ (f[j] = f[k] => j = k)
    <3>1. f[j] \in 1..Cardinality(D) /\ f[k] \in 1..Cardinality(D) /\ order[f[j]] = j /\ order[f[k]] = k
      BY <1>5, <1>12
    <3>2. f[j] < f[k] <=> <<j, k>> \in R
      <4>1. f[j] < f[k] <=> <<order[f[j]], order[f[k]]>> \in R
        BY <1>11, <3>1
      <4> QED  BY <3>1, <4>1
    <3>3. <<j, k>> \in R <=> IsSooner(E, j, k)
      <4>1. <<j, k>> \in R <=> Precedes(E, j, k)
        BY <1>3, <1>4 DEF Earlier
      <4> QED  BY <1>3, <4>1, SoonerInSwap
    <3> QED  BY <3>1, <3>2, <3>3
  <2> QED  BY <2>1
<1>15. S \in Scripts(W) /\ Len(S) = n /\ DOMAIN S = 1..n
  <2>1. \A t \in {"keep", "del", "add"} : Turned[t] \in {"keep", "del", "add"}
    BY DEF Turned
  <2>2. ASSUME NEW k \in 1..n
        PROVE  [tag |-> Turned[E[order[k]].tag], text |-> E[order[k]].text] \in [tag : {"keep", "del", "add"}, text : W]
    <3>1. order[k] \in DOMAIN E
      BY <1>3, <1>13
    <3>2. E[order[k]].tag \in {"keep", "del", "add"} /\ E[order[k]].text \in W
      BY <3>1, SidesOfScript
    <3> QED  BY <2>1, <3>2
  <2>3. S = [k \in 1..n |-> [tag |-> Turned[E[order[k]].tag], text |-> E[order[k]].text]]
    BY <1>9
  <2>4. PICK T : T = [tag : {"keep", "del", "add"}, text : W]
    OBVIOUS
  <2>5. S \in [1..n -> T]
    BY <2>2, <2>3, <2>4
  <2> HIDE DEF S
  <2>6. S \in Seq(T)
    BY <2>5, SeqDef
  <2>7. S \in Scripts(W)
    BY <2>4, <2>6 DEF Scripts
  <2>8. DOMAIN S = 1..n
    BY <2>5
  <2>9. Len(S) = n
    BY <2>6, <2>8, LenProperties
  <2> QED  BY <2>7, <2>8, <2>9
<1>16. \A k \in D : S[f[k]].tag = Turned[E[k].tag] /\ S[f[k]].text = E[k].text
  <2>1. ASSUME NEW k \in D PROVE S[f[k]].tag = Turned[E[k].tag] /\ S[f[k]].text = E[k].text
    <3>1. f[k] \in DOMAIN order /\ order[f[k]] = k
      BY <1>9, <1>12
    <3> QED  BY <3>1
  <2> QED  BY <2>1
<1> HIDE DEF S
<1>17. IsSwap(S, E, f, W)
  BY <1>1, <1>3, <1>5, <1>12, <1>13, <1>14, <1>15, <1>16 DEF IsSwap
<1> QED  BY <1>10, <1>17 DEF S

\* The reverse diff keeps the order of the lines of the new side.
LEMMA SoonerOnSide ==
    ASSUME NEW W, NEW E \in Scripts(W), NEW j \in NewPlaces(E), NEW k \in NewPlaces(E)
    PROVE  IsSooner(E, j, k) <=> j < k
<1> DEFINE block(i) == HowMany(TaggedAs(E, "keep"), i)
           rank(i) == IF E[i].tag = "keep" THEN 0 ELSE IF E[i].tag = "add" THEN 1 ELSE 2
<1>1. DOMAIN E \subseteq Nat /\ NewPlaces(E) \subseteq DOMAIN E
  BY SidesOfScript
<1>2. ASSUME NEW x \in NewPlaces(E), NEW y \in NewPlaces(E), x < y
      PROVE  /\ block(x) \in Nat /\ block(y) \in Nat /\ block(x) <= block(y)
             /\ block(x) = block(y) => rank(y) = 1
             /\ rank(x) \in {0, 1}
  <2>1. x \in Nat /\ y \in Nat /\ x <= y
    BY <1>1, <1>2
  <2>2. block(x) \in Nat /\ block(y) \in Nat
    BY <2>1, CountNext
  <2>3. block(x) <= block(y)
    BY <2>1, CountGrows
  <2>4. y \in TaggedAs(E, "keep") => block(x) < block(y)
    BY <1>2, <2>1, CountGrows
  <2>5. E[y].tag \in {"keep", "add"} /\ E[x].tag \in {"keep", "add"}
    BY <1>1, SidesOfScript
  <2>6. E[y].tag = "keep" => y \in TaggedAs(E, "keep")
    BY <1>1 DEF TaggedAs
  <2> HIDE DEF block
  <2> QED  BY <2>2, <2>3, <2>4, <2>5, <2>6
<1>3. IsSooner(E, j, k) <=> \/ block(j) < block(k)
                            \/ block(j) = block(k) /\ rank(j) < rank(k)
                            \/ block(j) = block(k) /\ rank(j) = rank(k) /\ j < k
  BY DEF IsSooner
<1> HIDE DEF block, rank
<1>4. j \in Nat /\ k \in Nat
  BY <1>1
<1>5. CASE j < k
  <2>1. /\ block(j) \in Nat /\ block(k) \in Nat /\ block(j) <= block(k)
        /\ block(j) = block(k) => rank(k) = 1
        /\ rank(j) \in {0, 1}
    BY <1>2, <1>5
  <2> QED  BY <1>3, <1>5, <2>1
<1>6. CASE k < j
  <2>1. /\ block(k) \in Nat /\ block(j) \in Nat /\ block(k) <= block(j)
        /\ block(k) = block(j) => rank(j) = 1
        /\ rank(k) \in {0, 1}
    BY <1>2, <1>6
  <2> QED  BY <1>3, <1>4, <1>6, <2>1
<1>7. CASE j = k
  <2>1. block(j) \in Nat
    BY <1>4, CountNext DEF block
  <2>2. rank(j) \in {0, 1, 2}
    BY DEF rank
  <2> QED  BY <1>3, <1>4, <1>7, <2>1, <2>2
<1> QED  BY <1>4, <1>5, <1>6, <1>7

\* So a line has the same number on the new side of the one and the old side of the other.
LEMMA SwapCounts ==
    ASSUME NEW W, NEW E \in Scripts(W), NEW S, NEW f, IsSwap(S, E, f, W)
    PROVE  /\ \A k \in NewPlaces(E) : f[k] \in OldPlaces(S) /\ Olds(S, f[k]) = News(E, k)
           /\ Len(OldOf(S)) = Len(NewOf(E))
<1>1. Len(E) \in Nat /\ DOMAIN E = 1..Len(E) /\ NewPlaces(E) \subseteq DOMAIN E
  BY SidesOfScript
<1>2. /\ S \in Scripts(W) /\ Len(S) = Len(E) /\ DOMAIN S = DOMAIN E
      /\ \A k \in DOMAIN E : f[k] \in DOMAIN E /\ S[f[k]].tag = Turned[E[k].tag]
      /\ \A q \in DOMAIN E : \E k \in DOMAIN E : f[k] = q
      /\ \A j, k \in DOMAIN E : (f[j] < f[k] <=> IsSooner(E, j, k)) /\ (f[j] = f[k] => j = k)
  BY DEF IsSwap
<1>3. PICK N, O : N = NewPlaces(E) /\ O = OldPlaces(S)
  OBVIOUS
<1>4. ASSUME NEW k \in DOMAIN E PROVE f[k] \in O <=> k \in N
  <2>1. Turned["keep"] = "keep" /\ Turned["add"] = "del" /\ Turned["del"] = "add"
    BY DEF Turned
  <2>2. E[k].tag \in {"keep", "del", "add"} /\ (k \in N <=> E[k].tag \in {"keep", "add"})
    BY <1>3, SidesOfScript
  <2>3. f[k] \in O <=> S[f[k]].tag \in {"keep", "del"}
    <3>1. f[k] \in DOMAIN S
      BY <1>2
    <3> QED  BY <1>2, <1>3, <3>1, SidesOfScript
  <2>4. S[f[k]].tag = Turned[E[k].tag]
    BY <1>2
  <2> QED  BY <2>1, <2>2, <2>3, <2>4
<1>5. \A j, k \in N : f[j] < f[k] <=> j < k
  <2>1. ASSUME NEW j \in N, NEW k \in N PROVE f[j] < f[k] <=> j < k
    <3>1. IsSooner(E, j, k) <=> j < k
      BY <1>3, SoonerOnSide
    <3> QED  BY <1>1, <1>2, <1>3, <3>1
  <2> QED  BY <2>1
<1>6. ASSUME NEW p \in 0..Len(E), NEW r \in 0..Len(E),
             \A j \in N : f[j] <= r <=> j <= p
      PROVE  HowMany(O, r) = HowMany(N, p)
  <2>1. PICK U, V : U = {j \in 1..p : j \in N} /\ V = {q \in 1..r : q \in O}
    OBVIOUS
  <2>2. IsFiniteSet(U)
    <3>1. p \in Nat
      OBVIOUS
    <3> QED  BY <2>1, <3>1, CountNext
  <2>3. \A j \in U : f[j] \in V
    <3>1. ASSUME NEW j \in U PROVE f[j] \in V
      <4>1. j \in N /\ j \in DOMAIN E /\ j <= p
        BY <1>1, <1>3, <2>1
      <4>2. f[j] \in O /\ f[j] <= r /\ f[j] \in DOMAIN E
        BY <1>2, <1>4, <1>6, <4>1
      <4>3. f[j] \in 1..r
        BY <1>1, <4>2
      <4> QED  BY <2>1, <4>2, <4>3
    <3> QED  BY <3>1
  <2>4. \A j, k \in U : f[j] = f[k] => j = k
    BY <1>1, <1>2, <1>3, <2>1
  <2>5. \A q \in V : \E j \in U : f[j] = q
    <3>1. ASSUME NEW q \in V PROVE \E j \in U : f[j] = q
      <4>1. q \in O /\ q \in DOMAIN E /\ q <= r /\ q \in 1..r
        BY <1>1, <2>1
      <4>2. PICK j \in DOMAIN E : f[j] = q
        BY <1>2, <4>1
      <4>3. j \in N
        BY <1>4, <4>1, <4>2
      <4>4. j <= p
        BY <1>6, <4>1, <4>2, <4>3
      <4>5. j \in 1..p
        BY <1>1, <4>2, <4>4
      <4> QED  BY <2>1, <4>2, <4>3, <4>5
    <3> QED  BY <3>1
  <2>6. Cardinality(V) = Cardinality(U)
    BY <2>2, <2>3, <2>4, <2>5, SameSize
  <2> QED  BY <2>1, <2>6 DEF HowMany
<1>7. ASSUME NEW k \in N PROVE f[k] \in O /\ Olds(S, f[k]) = News(E, k)
  <2>1. k \in DOMAIN E /\ k \in 0..Len(E) /\ f[k] \in DOMAIN E /\ f[k] \in 0..Len(E)
    BY <1>1, <1>2, <1>3
  <2>2. \A j \in N : f[j] <= f[k] <=> j <= k
    <3>1. ASSUME NEW j \in N PROVE f[j] <= f[k] <=> j <= k
      <4>1. j \in DOMAIN E /\ j \in Int /\ k \in Int /\ f[j] \in Int /\ f[k] \in Int
        <5>1. j \in DOMAIN E /\ k \in DOMAIN E
          BY <1>1, <1>3
        <5>2. f[j] \in DOMAIN E /\ f[k] \in DOMAIN E
          BY <1>2, <5>1
        <5> QED  BY <1>1, <5>1, <5>2
      <4>2. (f[k] < f[j] <=> k < j)
        BY <1>5
      <4> QED  BY <4>1, <4>2
    <3> QED  BY <3>1
  <2>3. HowMany(O, f[k]) = HowMany(N, k)
    <3>1. PICK r : r = f[k]
      OBVIOUS
    <3>2. r \in 0..Len(E) /\ \A j \in N : f[j] <= r <=> j <= k
      BY <2>1, <2>2, <3>1
    <3>3. HowMany(O, r) = HowMany(N, k)
      BY <1>6, <2>1, <3>2
    <3> QED  BY <3>1, <3>3
  <2>4. Olds(S, f[k]) = HowMany(O, f[k])
    <3>1. f[k] \in 0..Len(S)
      BY <1>2, <2>1
    <3> QED  BY <1>2, <1>3, <3>1, SidesOfScript
  <2>5. News(E, k) = HowMany(N, k)
    BY <1>3, <2>1, SidesOfScript
  <2> QED  BY <1>4, <2>1, <2>3, <2>4, <2>5
<1>8. Len(OldOf(S)) = Len(NewOf(E))
  <2>1. PICK n : n = Len(E)
    OBVIOUS
  <2>2. n \in 0..Len(E)
    BY <1>1, <2>1
  <2>3. \A j \in N : f[j] <= n <=> j <= n
    <3>1. \A j \in N : j \in DOMAIN E
      BY <1>1, <1>3
    <3> QED  BY <1>1, <1>2, <2>1, <3>1
  <2>4. HowMany(O, n) = HowMany(N, n)
    BY <1>6, <2>2, <2>3
  <2>5. Len(NewOf(E)) = HowMany(N, Len(E))
    BY <1>3, SidesOfScript, TextsOfPlaces DEF IsTexts
  <2>6. Len(OldOf(S)) = HowMany(O, Len(S))
    <3>1. OldOf(S) = TextsAt(S, O) /\ O \subseteq DOMAIN S
      BY <1>2, <1>3, SidesOfScript
    <3> QED  BY <1>2, <3>1, TextsOfPlaces DEF IsTexts
  <2> QED  BY <1>2, <2>1, <2>4, <2>5, <2>6
<1> QED  BY <1>3, <1>7, <1>8

\* Each changed line is in a block of changed lines.
LEMMA BlockOf ==
    ASSUME NEW W, NEW E \in Scripts(W), NEW k \in DOMAIN E, E[k].tag # "keep"
    PROVE  \E b \in ChangeBlocks(E) : k \in b[1]..b[2]
<1>1. PICK n \in Nat : n = Len(E) /\ DOMAIN E = 1..n
  BY SidesOfScript
<1>2. PICK S : S = {j \in DOMAIN E : E[j].tag # "keep"}
  OBVIOUS
<1>3. S \subseteq 1..n /\ k \in S
  BY <1>1, <1>2
<1>4. PICK b \in (1..n) \X (1..n) : IsRun(b, S, n) /\ k \in b[1]..b[2]
  BY <1>3, RunsOfShown
<1>5. b[1] \in 1..n /\ b[2] \in b[1]..n /\ b[1]..b[2] \subseteq S /\ b[1] - 1 \notin S /\ b[2] + 1 \notin S
  BY <1>4 DEF IsRun
<1>6. b[1] <= b[2] /\ \A j \in b[1]..b[2] : E[j].tag # "keep"
  BY <1>1, <1>2, <1>5
<1>7. b[1] = 1 \/ E[b[1] - 1].tag = "keep"
  <2>1. ASSUME b[1] # 1 PROVE b[1] - 1 \in 1..n
    BY <1>5, <2>1
  <2> QED  BY <1>1, <1>2, <1>5, <2>1
<1>8. b[2] = Len(E) \/ E[b[2] + 1].tag = "keep"
  <2>1. ASSUME b[2] # n PROVE b[2] + 1 \in 1..n
    BY <1>5, <2>1
  <2> QED  BY <1>1, <1>2, <1>5, <2>1
<1>9. b \in (DOMAIN E) \X (DOMAIN E)
  BY <1>1, <1>4
<1> QED  BY <1>4, <1>6, <1>7, <1>8, <1>9 DEF ChangeBlocks

GoneIn(F, b) == {k \in b[1]..b[2] : F[k].tag = "del"}
SayingBlocks(F) == {b \in ChangeBlocks(F) : \E k \in b[1]..b[2] : F[k].text # Blank}
\* The lines of one block.
FixOf(F, b) ==
    IF GoneIn(F, b) # {} THEN {Olds(F, k) : k \in GoneIn(F, b)}
    ELSE AroundGap(Olds(F, b[2]), 1, Len(OldOf(F)))

\* The lines of a fix are those of its blocks that say something.
LEMMA FixLinesAre ==
    ASSUME NEW F, NEW x
    PROVE  x \in FixLines(F, 1) <=> \E b \in SayingBlocks(F) : x \in FixOf(F, b)
<1>1. FixLines(F, 1) = UNION {FixOf(F, b) : b \in SayingBlocks(F)}
  BY DEF FixLines, FixOf, SayingBlocks, GoneIn
<1> QED  BY <1>1

\* A line of the old side is of its lines; as many of them come first as the text has at most.
LEMMA NumberOfOld ==
    ASSUME NEW W, NEW F \in Scripts(W), NEW k \in DOMAIN F
    PROVE  /\ k \in Nat /\ Len(OldOf(F)) \in Nat /\ Olds(F, k) \in 0..Len(OldOf(F))
           /\ k \in OldPlaces(F) => Olds(F, k) >= 1
<1>1. Len(F) \in Nat /\ DOMAIN F = 1..Len(F) /\ k \in 1..Len(F) /\ k \in 0..Len(F) /\ k \in Nat /\ k >= 1
  BY SidesOfScript
<1>2. Olds(F, k) = HowMany(OldPlaces(F), k)
  BY <1>1, SidesOfScript
<1>3. Len(OldOf(F)) = HowMany(OldPlaces(F), Len(F))
  BY SidesOfScript, TextsOfPlaces DEF IsTexts
<1>4. /\ HowMany(OldPlaces(F), k) \in Nat /\ HowMany(OldPlaces(F), Len(F)) \in Nat
      /\ HowMany(OldPlaces(F), k) <= HowMany(OldPlaces(F), Len(F))
  BY <1>1, PlaceCounted
<1>5. k \in OldPlaces(F) => HowMany(OldPlaces(F), k - 1) + 1 = HowMany(OldPlaces(F), k) /\ k - 1 \in Nat
  BY <1>1, CountsOfPlaces
<1>6. k - 1 \in Nat => HowMany(OldPlaces(F), k - 1) \in Nat
  BY CountNext
<1> QED  BY <1>1, <1>2, <1>3, <1>4, <1>5, <1>6

\* The lines of a fix are of the old text, and there are some of each block that says something.
LEMMA FixOfBlock ==
    ASSUME NEW W, NEW F \in Scripts(W), NEW b \in ChangeBlocks(F)
    PROVE  FixOf(F, b) \subseteq 1..Len(OldOf(F)) /\ (Len(OldOf(F)) # 0 => FixOf(F, b) # {})
<1>1. Len(F) \in Nat /\ DOMAIN F = 1..Len(F) /\ Len(OldOf(F)) \in Nat
  BY SidesOfScript, TextsOfPlaces DEF IsTexts
<1>2. b[1] \in 1..Len(F) /\ b[2] \in 1..Len(F)
  BY <1>1 DEF ChangeBlocks
<1>3. CASE GoneIn(F, b) # {}
  <2>1. FixOf(F, b) = {Olds(F, k) : k \in GoneIn(F, b)}
    BY <1>3 DEF FixOf
  <2>2. ASSUME NEW k \in GoneIn(F, b) PROVE Olds(F, k) \in 1..Len(OldOf(F))
    <3>1. k \in DOMAIN F /\ F[k].tag = "del"
      BY <1>1, <1>2 DEF GoneIn
    <3>2. k \in OldPlaces(F)
      BY <3>1, SidesOfScript
    <3> QED  BY <1>1, <3>1, <3>2, NumberOfOld
  <2> QED  BY <1>3, <2>1, <2>2
<1>4. CASE GoneIn(F, b) = {}
  <2>1. PICK g \in 0..Len(OldOf(F)) : g = Olds(F, b[2])
    BY <1>1, <1>2, NumberOfOld
  <2>2. PICK n \in Nat : n = Len(OldOf(F))
    BY <1>1
  <2>3. FixOf(F, b) = ((g - 1 + 1)..(g + 1)) \cap 1..n
    BY <1>4, <2>1, <2>2 DEF FixOf, AroundGap
  <2>4. n # 0 => (g \in ((g - 1 + 1)..(g + 1)) \cap 1..n \/ g + 1 \in ((g - 1 + 1)..(g + 1)) \cap 1..n)
    BY <2>1, <2>2
  <2> QED  BY <2>2, <2>3, <2>4
<1> QED  BY <1>3, <1>4

\* The vulnerable lines of a change, when the whole text counts.
LEMMA VulnLinesAre ==
    ASSUME NEW W, NEW E \in Scripts(W), NEW n, n = Len(NewOf(E))
    PROVE  /\ VulnLines(E, {<<1, n>>}) \subseteq 1..n
           /\ Numbers(E, "add") # {} => VulnLines(E, {<<1, n>>}) = Numbers(E, "add")
           /\ n # 0 /\ (\E k \in DOMAIN E : E[k].tag # "keep") => VulnLines(E, {<<1, n>>}) # {}
<1>1. Len(E) \in Nat /\ DOMAIN E = 1..Len(E) /\ n \in Nat
  BY SidesOfScript, TextsOfPlaces DEF IsTexts
<1>2. PICK R : R = {<<1, n>>}
  OBVIOUS
<1> DEFINE gaps == {News(E, b[2]) : b \in {c \in ChangeBlocks(E) : \A k \in c[1]..c[2] : E[k].tag = "del"}}
           near(g) == LET p == IF g < 1 THEN 1 ELSE g IN ((p - 2)..(p + 2)) \cap 1..n
           inside == {l \in Numbers(E, "add") : Within(l, R)}
           around == {h \in gaps : \E r \in R : r[1] - 1 <= h /\ h <= r[2]}
<1>3. VulnLines(E, {<<1, n>>}) = IF inside # {} THEN inside ELSE UNION {near(g) : g \in around}
  BY <1>2 DEF VulnLines, Numbers
<1>4. Numbers(E, "add") \subseteq 1..n
  <2>1. ASSUME NEW k \in DOMAIN E, E[k].tag = "add" PROVE News(E, k) \in 1..n
    <3>1. k \in NewPlaces(E)
      BY <2>1, SidesOfScript
    <3> QED  BY <3>1, NumberOfNew
  <2> QED  BY <2>1 DEF Numbers
<1>5. inside = Numbers(E, "add")
  <2>1. \A l \in 1..n : Within(l, R)
    BY <1>1, <1>2 DEF Within
  <2> QED  BY <1>4, <2>1
<1>6. \A g : near(g) \subseteq 1..n
  OBVIOUS
<1> HIDE DEF near
<1>7. VulnLines(E, {<<1, n>>}) \subseteq 1..n
  BY <1>3, <1>4, <1>5, <1>6
<1>8. ASSUME n # 0, NEW k \in DOMAIN E, E[k].tag # "keep", Numbers(E, "add") = {}
      PROVE  \E g \in around : near(g) # {}
  <2>1. PICK b \in ChangeBlocks(E) : k \in b[1]..b[2]
    BY <1>8, BlockOf
  <2>2. b[1] \in 1..Len(E) /\ b[2] \in 1..Len(E) /\ \A j \in b[1]..b[2] : E[j].tag # "keep"
    BY <1>1 DEF ChangeBlocks
  <2>3. \A j \in b[1]..b[2] : E[j].tag = "del"
    <3>1. \A j \in DOMAIN E : E[j].tag # "add"
      BY <1>8 DEF Numbers
    <3>2. \A j \in b[1]..b[2] : j \in DOMAIN E
      BY <1>1, <2>2
    <3> QED  BY <2>2, <3>1, <3>2, SidesOfScript
  <2>4. PICK g : g = News(E, b[2])
    OBVIOUS
  <2>5. g \in 0..n
    <3>1. b[2] \in 0..Len(E)
      BY <2>2
    <3>2. News(E, b[2]) = HowMany(NewPlaces(E), b[2])
      BY <3>1, SidesOfScript
    <3>3. n = HowMany(NewPlaces(E), Len(E))
      BY SidesOfScript, TextsOfPlaces DEF IsTexts
    <3>4. /\ HowMany(NewPlaces(E), b[2]) \in Nat /\ HowMany(NewPlaces(E), Len(E)) \in Nat
          /\ HowMany(NewPlaces(E), b[2]) <= HowMany(NewPlaces(E), Len(E))
      BY <1>1, <3>1, PlaceCounted
    <3> QED  BY <2>4, <3>2, <3>3, <3>4
  <2>6. g \in around
    <3>1. g \in gaps
      BY <2>3, <2>4
    <3>2. <<1, n>> \in R /\ <<1, n>>[1] - 1 <= g /\ g <= <<1, n>>[2]
      BY <1>1, <1>2, <2>5
    <3> HIDE DEF gaps
    <3> QED  BY <3>1, <3>2
  <2>7. near(g) # {}
    <3>1. PICK p \in Nat : p = (IF g < 1 THEN 1 ELSE g) /\ 1 <= p /\ p <= n
      BY <1>1, <1>8, <2>5
    <3>2. near(g) = ((p - 2)..(p + 2)) \cap 1..n
      BY <3>1 DEF near
    <3>3. p \in ((p - 2)..(p + 2)) \cap 1..n
      BY <1>1, <3>1
    <3> QED  BY <3>2, <3>3
  <2> QED  BY <2>6, <2>7
<1> HIDE DEF around, inside
<1> QED  BY <1>3, <1>5, <1>7, <1>8

\* The two evaluations agree on the lines of a weakness.
LEMMA TruthsHold ==
    ASSUME NEW W, NEW E \in Scripts(W)
    PROVE  TruthAgrees(E)
<1>1. PICK S, f : S = Swapped(E) /\ IsSwap(S, E, f, W)
  BY SwappedIs
<1>2. /\ S \in Scripts(W) /\ DOMAIN S = DOMAIN E
      /\ \A k \in DOMAIN E : f[k] \in DOMAIN E /\ S[f[k]].tag = Turned[E[k].tag] /\ S[f[k]].text = E[k].text
  BY <1>1 DEF IsSwap
<1>3. PICK n \in Nat : n = Len(NewOf(E)) /\ n = Len(OldOf(S)) /\ DOMAIN NewOf(E) = 1..n
  <2>1. IsTexts(NewOf(E), E, NewPlaces(E), W)
    BY SidesOfScript, TextsOfPlaces
  <2>2. Len(OldOf(S)) = Len(NewOf(E))
    BY <1>1, SwapCounts
  <2>3. Len(NewOf(E)) \in Nat /\ DOMAIN NewOf(E) = 1..Len(NewOf(E))
    BY <2>1, LenProperties DEF IsTexts
  <2> QED  BY <2>2, <2>3
<1>4. PICK fix, vuln : fix = FixLines(S, 1) /\ vuln = VulnLines(E, {<<1, n>>})
  OBVIOUS
<1>5. /\ vuln \subseteq 1..n
      /\ Numbers(E, "add") # {} => vuln = Numbers(E, "add")
      /\ n # 0 /\ (\E k \in DOMAIN E : E[k].tag # "keep") => vuln # {}
  BY <1>3, <1>4, VulnLinesAre
<1>6. fix \subseteq 1..n
  <2>1. ASSUME NEW x \in fix PROVE x \in 1..n
    <3>1. PICK b \in SayingBlocks(S) : x \in FixOf(S, b)
      BY <1>4, FixLinesAre
    <3>2. b \in ChangeBlocks(S)
      BY DEF SayingBlocks
    <3> QED  BY <1>2, <1>3, <3>1, <3>2, FixOfBlock
  <2> QED  BY <2>1
<1>7. ASSUME NEW k \in DOMAIN E, E[k].tag # "keep", E[k].text # Blank
      PROVE  \E b \in SayingBlocks(S) : b \in ChangeBlocks(S) /\ f[k] \in b[1]..b[2]
  <2>1. f[k] \in DOMAIN S /\ S[f[k]].tag # "keep" /\ S[f[k]].text # Blank
    <3>1. E[k].tag \in {"del", "add"}
      BY <1>7, SidesOfScript
    <3>2. Turned["del"] = "add" /\ Turned["add"] = "del"
      BY DEF Turned
    <3> QED  BY <1>2, <1>7, <3>1, <3>2
  <2>2. PICK b \in ChangeBlocks(S) : f[k] \in b[1]..b[2]
    BY <1>2, <2>1, BlockOf
  <2> QED  BY <2>1, <2>2 DEF SayingBlocks
<1>8. ASSUME NEW k \in DOMAIN E, E[k].tag = "add", E[k].text # Blank
      PROVE  News(E, k) \in vuln \cap fix
  <2>1. News(E, k) \in vuln
    <3>1. News(E, k) \in Numbers(E, "add")
      BY <1>8 DEF Numbers
    <3> QED  BY <1>5, <3>1
  <2>2. PICK b \in SayingBlocks(S) : b \in ChangeBlocks(S) /\ f[k] \in b[1]..b[2]
    BY <1>7, <1>8
  <2>3. f[k] \in GoneIn(S, b)
    <3>1. S[f[k]].tag = "del"
      BY <1>2, <1>8 DEF Turned
    <3> QED  BY <2>2, <3>1 DEF GoneIn
  <2>4. Olds(S, f[k]) = News(E, k)
    <3>1. k \in NewPlaces(E)
      BY <1>8, SidesOfScript
    <3> QED  BY <1>1, <3>1, SwapCounts
  <2>5. News(E, k) \in FixOf(S, b)
    BY <2>3, <2>4 DEF FixOf
  <2>6. News(E, k) \in fix
    BY <1>4, <2>5, FixLinesAre
  <2> QED  BY <2>1, <2>6
<1>9. ASSUME n # 0, NEW k \in DOMAIN E, E[k].tag # "keep", E[k].text # Blank
      PROVE  fix # {} /\ vuln # {}
  <2>1. PICK b \in SayingBlocks(S) : b \in ChangeBlocks(S)
    BY <1>7, <1>9
  <2>2. FixOf(S, b) # {}
    BY <1>2, <1>3, <1>9, <2>1, FixOfBlock
  <2>3. PICK x : x \in FixOf(S, b)
    BY <2>2
  <2>4. x \in fix
    BY <1>4, <2>3, FixLinesAre
  <2> QED  BY <1>5, <1>9, <2>4
<1>10. NewOf(E) # <<>> => n # 0
  <2>1. NewOf(E) \in Seq(W)
    BY SidesOfScript, TextsOfPlaces DEF IsTexts
  <2> QED  BY <1>3, <2>1, EmptySeq
<1>11. {News(E, k) : k \in {j \in DOMAIN E : E[j].tag = "add" /\ E[j].text # Blank}} \subseteq vuln \cap fix
  BY <1>8
<1>12. fix = FixLines(Swapped(E), 1) /\ vuln = VulnLines(E, {<<1, Len(NewOf(E))>>})
  BY <1>1, <1>3, <1>4
<1>13. fix \cup vuln \subseteq DOMAIN NewOf(E)
  BY <1>3, <1>5, <1>6
<1>14. NewOf(E) # <<>> /\ (\E k \in DOMAIN E : E[k].tag # "keep" /\ E[k].text # Blank) => fix # {} /\ vuln # {}
  BY <1>9, <1>10
<1> QED  BY <1>11, <1>12, <1>13, <1>14 DEF TruthAgrees

\* A patch is a row of hunks, and empty only if nothing is changed.
LEMMA PatchTyped ==
    ASSUME NEW W, NEW E \in Scripts(W), NEW n \in Nat
    PROVE  Patch(E, n) \in Seq(Hunks(W)) /\ (Patch(E, n) = <<>> <=> \A k \in DOMAIN E : E[k].tag = "keep")
<1>1. PICK P, Bs, H : H \in Nat /\ P = Patch(E, n) /\ IsPatch(P, E, W, n, H, Bs)
  <2>1. PICK H, Bs : H \in Nat /\ IsPatch(Patch(E, n), E, W, n, H, Bs)
    BY PatchFacts
  <2> QED  BY <2>1
<1>2. /\ IsHunks(Bs, E, n, H) /\ P \in Seq({P[h] : h \in 1..H}) /\ Len(P) = H /\ DOMAIN P = 1..H
      /\ \A h \in 1..H : IsHunk(P[h], E, W, Bs[h][1], Bs[h][2])
      /\ \A h \in 1..H : Bs[h][1] \in 1..Len(E) /\ Bs[h][2] \in Bs[h][1]..Len(E)
  BY <1>1 DEF IsPatch, IsHunks, IsRun
<1>3. Len(E) \in Nat /\ DOMAIN E = 1..Len(E) /\ \A k \in DOMAIN E : E[k].tag \in {"keep", "del", "add"}
  BY SidesOfScript
<1>4. ASSUME NEW g \in 1..H PROVE P[g] \in Hunks(W)
  <2>1. PICK h, i, j : h = P[g] /\ i = Bs[g][1] /\ j = Bs[g][2]
    OBVIOUS
  <2>2. IsHunk(h, E, W, i, j) /\ i \in Nat /\ j \in Nat /\ i >= 1
    BY <1>2, <1>3, <2>1, SMTT(30)
  <2>3. HowMany(OldPlaces(E), i - 1) \in Nat /\ HowMany(NewPlaces(E), i - 1) \in Nat
    <3>1. i - 1 \in Nat
      BY <2>2
    <3> QED  BY <3>1, CountNext
  <2>4. /\ h = [a |-> h.a, b |-> h.b, c |-> h.c, d |-> h.d, lines |-> h.lines]
        /\ h.lines \in Scripts(W) /\ h.b \in Nat /\ h.d \in Nat
        /\ h.a = HowMany(OldPlaces(E), i - 1) + (IF h.b = 0 THEN 0 ELSE 1)
        /\ h.c = HowMany(NewPlaces(E), i - 1) + (IF h.d = 0 THEN 0 ELSE 1)
    BY <2>2 DEF IsHunk
  <2>5. h.a \in Nat /\ h.c \in Nat
    BY <2>3, <2>4
  <2> QED  BY <2>1, <2>4, <2>5 DEF Hunks
<1>5. P \in Seq(Hunks(W))
  <2>1. \A k \in 1..Len(P) : P[k] \in Hunks(W)
    BY <1>2, <1>4
  <2>2. P = [k \in 1..H |-> P[k]]
    <3>1. P \in [1..Len(P) -> {P[h] : h \in 1..H}]
      BY <1>2, LenProperties
    <3> QED  BY <1>2, <3>1
  <2>3. P \in [1..H -> Hunks(W)]
    BY <1>4, <2>2
  <2> QED  BY <1>1, <2>3, SeqDef
<1>6. P = <<>> <=> H = 0
  BY <1>2, EmptySeq
<1>7. ASSUME NEW k \in DOMAIN E, E[k].tag # "keep" PROVE H # 0
  <2>1. k \in Shown(E, n)
    <3>1. Distance(k, k) <= n
      BY <1>3 DEF Distance
    <3> QED  BY <1>7, <3>1 DEF Shown
  <2>2. \A x \in Shown(E, n) : \E h \in 1..H : x \in Bs[h][1]..Bs[h][2]
    BY <1>2 DEF IsHunks
  <2>3. PICK h : h \in 1..H
    BY <2>1, <2>2
  <2> QED  BY <1>1, <2>3
<1>8. ASSUME \A k \in DOMAIN E : E[k].tag = "keep" PROVE H = 0
  <2>1. Shown(E, n) = {}
    BY <1>8 DEF Shown
  <2>2. ASSUME NEW h \in 1..H PROVE FALSE
    <3>1. IsRun(Bs[h], Shown(E, n), Len(E))
      BY <1>2 DEF IsHunks
    <3>2. Bs[h][1] \in Bs[h][1]..Bs[h][2]
      BY <1>2, <1>3
    <3> QED  BY <2>1, <3>1, <3>2 DEF IsRun
  <2>3. 1 \notin 1..H
    BY <2>2
  <2> QED  BY <1>1, <2>3
<1> QED  BY <1>1, <1>5, <1>6, <1>7, <1>8

\* A change is got back from its new side and its patch.
LEMMA ChangeReconstructed ==
    ASSUME NEW W, NEW E \in Scripts(W), NEW n \in Nat, None \notin Seq(W), None \notin Seq(Hunks(W))
    PROVE  ReconstructsChange(E, n)
<1>1. PICK old, new, P : old = OldOf(E) /\ new = NewOf(E) /\ P = Patch(E, n)
  OBVIOUS
<1>2. old # None /\ new # None /\ P # None
  <2>1. OldOf(E) \in Seq(W) /\ NewOf(E) \in Seq(W)
    BY SidesOfScript, TextsOfPlaces DEF IsTexts
  <2> QED  BY <1>1, <2>1, PatchTyped
<1>3. Applied(old, "old", P) = new /\ Applied(new, "new", P) = old
  BY <1>1, RoundTripHolds DEF RoundTrips
<1>4. PICK status : status = CASE old = <<>> -> "added" [] new = <<>> /\ old # <<>> -> "removed" [] OTHER -> "modified"
  OBVIOUS
<1>5. \/ status = "added" /\ old = <<>>
      \/ status = "removed" /\ new = <<>> /\ old # <<>>
      \/ status = "modified" /\ old # <<>> /\ new # <<>>
  BY <1>4
<1>6. ASSUME old # new, NEW pre \in {old, None}, NEW post \in {new, None}, NEW patch \in {P, None}
      PROVE  /\ Reconstruct(status, patch, pre, post) \in {Unable, <<old, new>>}
             /\ Reconstruct(status, patch, pre, post) = Unable =>
                  patch = None \/ (status = "modified" /\ pre = None /\ post = None)
  <2> DEFINE back(text) == IF patch = None THEN None ELSE Applied(text, "new", patch)
             on(text) == IF patch = None THEN None ELSE Applied(text, "old", patch)
             both == CASE status = "added" -> <<<<>>, IF post = None THEN on(<<>>) ELSE post>>
                       [] status = "removed" -> <<IF pre = None THEN back(<<>>) ELSE pre, <<>>>>
                       [] status = "modified" ->
                             <<IF pre = None /\ post # None THEN back(post) ELSE pre,
                               IF post = None /\ pre # None THEN on(pre) ELSE post>>
                       [] OTHER -> Unable
  <2>1. Reconstruct(status, patch, pre, post) = IF None \in {both[1], both[2]} THEN Unable ELSE both
    BY DEF Reconstruct
  <2>2. patch = None \/ (on(old) = new /\ back(new) = old)
    BY <1>2, <1>3, <1>6
  <2>3. patch = None => \A t : on(t) = None /\ back(t) = None
    OBVIOUS
  <2>4. Unable # <<old, new>>
    <3>1. Unable[1] = None /\ <<old, new>>[1] = old
      BY DEF Unable
    <3> QED  BY <1>2, <3>1
  <2>5. \E x, y : /\ both = <<x, y>> /\ x \in {old, None} /\ y \in {new, None}
                  /\ x = None \/ y = None => patch = None \/ (status = "modified" /\ pre = None /\ post = None)
    <3> HIDE DEF on, back
    <3>1. CASE status = "added" /\ old = <<>>
      <4>1. PICK y : y = IF post = None THEN on(<<>>) ELSE post
        OBVIOUS
      <4>2. both = <<old, y>>
        BY <3>1, <4>1
      <4>3. y \in {new, None} /\ (y = None => patch = None)
        BY <1>2, <1>6, <2>2, <2>3, <3>1, <4>1
      <4> QED  BY <1>2, <4>2, <4>3
    <3>2. CASE status = "removed" /\ new = <<>>
      <4>1. PICK x : x = IF pre = None THEN back(<<>>) ELSE pre
        OBVIOUS
      <4>2. both = <<x, new>>
        BY <3>2, <4>1
      <4>3. x \in {old, None} /\ (x = None => patch = None)
        BY <1>2, <1>6, <2>2, <2>3, <3>2, <4>1
      <4> QED  BY <1>2, <4>2, <4>3
    <3>3. CASE status = "modified"
      <4>1. PICK x : x = IF pre = None /\ post # None THEN back(post) ELSE pre
        OBVIOUS
      <4>2. PICK y : y = IF post = None /\ pre # None THEN on(pre) ELSE post
        OBVIOUS
      <4>3. both = <<x, y>>
        BY <3>3, <4>1, <4>2
      <4>4. x \in {old, None} /\ (x = None => patch = None \/ (pre = None /\ post = None))
        BY <1>2, <1>6, <2>2, <2>3, <4>1
      <4>5. y \in {new, None} /\ (y = None => patch = None \/ (pre = None /\ post = None))
        BY <1>2, <1>6, <2>2, <2>3, <4>2
      <4> QED  BY <3>3, <4>3, <4>4, <4>5
    <3> QED  BY <1>5, <3>1, <3>2, <3>3
  <2> HIDE DEF both
  <2>6. PICK x, y : /\ both = <<x, y>> /\ x \in {old, None} /\ y \in {new, None}
                    /\ x = None \/ y = None => patch = None \/ (status = "modified" /\ pre = None /\ post = None)
    BY <2>5
  <2>7. both[1] = x /\ both[2] = y
    BY <2>6
  <2>8. CASE x = None \/ y = None
    <3>1. Reconstruct(status, patch, pre, post) = Unable
      BY <2>1, <2>7, <2>8
    <3> QED  BY <2>6, <2>8, <3>1
  <2>9. CASE x # None /\ y # None
    <3>1. Reconstruct(status, patch, pre, post) = <<old, new>>
      BY <2>1, <2>6, <2>7, <2>9
    <3> QED  BY <2>4, <3>1
  <2> QED  BY <2>8, <2>9
<1> QED  BY <1>1, <1>4, <1>6 DEF ReconstructsChange

\* Some line is changed when the sides differ.
LEMMA SomeChange ==
    ASSUME NEW W, NEW E \in Scripts(W), OldOf(E) # NewOf(E)
    PROVE  \E k \in DOMAIN E : E[k].tag # "keep"
<1>1. ASSUME \A k \in DOMAIN E : E[k].tag = "keep" PROVE FALSE
  <2>1. OldPlaces(E) = NewPlaces(E)
    <3>1. \A k \in DOMAIN E : k \in OldPlaces(E) <=> k \in NewPlaces(E)
      BY <1>1, SidesOfScript
    <3> QED  BY <3>1, SidesOfScript, ZenonT(30)
  <2> QED  BY <2>1, SidesOfScript
<1> QED  BY <1>1

\* What is made of a file as clients send it.
LEMMA FileNormal ==
    ASSUME NEW W, NEW E \in Scripts(W), NEW f \in Sendable(E), None \notin Seq(W), None \notin Seq(Hunks(W))
    PROVE  /\ NormalOld(f) = OldOf(E) /\ OldOf(E) # None /\ NewOf(E) # None
           /\ f.new = NewOf(E) /\ f.lines = None
           /\ \E m \in {1, 3} : NormalPatch(f, E) = Patch(E, m)
           /\ \A m \in Nat : Patch(E, m) # None
<1>1. /\ f.new = NewOf(E) /\ f.old \in {OldOf(E), None} /\ f.patch \in {Patch(E, 1), None}
      /\ f.added = FALSE /\ f.lines = None /\ OldOf(E) # NewOf(E) /\ (f.old # None \/ f.patch # None)
  BY DEF Sendable
<1>2. OldOf(E) # None /\ NewOf(E) # None /\ \A m \in Nat : Patch(E, m) # None
  <2>1. OldOf(E) \in Seq(W) /\ NewOf(E) \in Seq(W)
    BY SidesOfScript, TextsOfPlaces DEF IsTexts
  <2> QED  BY <2>1, PatchTyped
<1>3. Patch(E, 1) # <<>>
  BY <1>1, SomeChange, PatchTyped
<1>4. ReverseApply(NewOf(E), Patch(E, 1)) = OldOf(E)
  <2>1. RoundTrips(E, 1)
    BY RoundTripHolds
  <2> QED  BY <1>3, <2>1 DEF RoundTrips
<1>5. NormalOld(f) = OldOf(E)
  <2>1. CASE f.old # None
    <3>1. NormalOld(f) = f.old
      BY <2>1 DEF NormalOld
    <3> QED  BY <1>1, <2>1, <3>1
  <2>2. CASE f.old = None
    <3>1. f.new # None /\ f.patch = Patch(E, 1) /\ f.patch # None /\ ~f.added
      BY <1>1, <1>2, <2>2
    <3>2. NormalOld(f) = IF f.patch = None THEN None ELSE ReverseApply(f.new, f.patch)
      BY <2>2, <3>1 DEF NormalOld
    <3> QED  BY <1>1, <1>4, <3>1, <3>2
  <2> QED  BY <2>1, <2>2
<1>6. NormalPatch(f, E) = Patch(E, 1) \/ NormalPatch(f, E) = Patch(E, 3)
  <2>1. CASE f.patch = None
    BY <1>1, <1>2, <1>5, <2>1 DEF NormalPatch
  <2>2. CASE f.patch # None
    BY <1>1, <2>2 DEF NormalPatch
  <2> QED  BY <2>1, <2>2
<1> QED  BY <1>1, <1>2, <1>5, <1>6

\* The patch is read as it was written.
LEMMA ReadAsWritten ==
    ASSUME NEW W, NEW E \in Scripts(W), NEW n \in Nat
    PROVE  [i \in DOMAIN Patch(E, n) |-> Parsed(Patch(E, n)[i])] = Patch(E, n)
<1>1. PICK P, Bs, H : H \in Nat /\ P = Patch(E, n) /\ IsPatch(P, E, W, n, H, Bs)
  <2>1. PICK H, Bs : H \in Nat /\ IsPatch(Patch(E, n), E, W, n, H, Bs)
    BY PatchFacts
  <2> QED  BY <2>1
<1>2. /\ P \in Seq({P[h] : h \in 1..H}) /\ Len(P) = H /\ DOMAIN P = 1..H
      /\ \A h \in 1..H : IsHunk(P[h], E, W, Bs[h][1], Bs[h][2])
      /\ \A h \in 1..H : Bs[h][1] \in 1..Len(E) /\ Bs[h][2] \in Bs[h][1]..Len(E)
  BY <1>1 DEF IsPatch, IsHunks, IsRun
<1>3. ASSUME NEW g \in 1..H PROVE Parsed(P[g]) = P[g]
  <2>1. PICK h, i, j : h = P[g] /\ i = Bs[g][1] /\ j = Bs[g][2]
    OBVIOUS
  <2>2. IsHunk(h, E, W, i, j) /\ i \in 1..Len(E) /\ j \in i..Len(E)
    BY <1>2, <2>1
  <2>3. Unspent(h.lines, h.b, h.d) /\ Len(h.lines) \in Nat
    BY <2>2, HunkUnspent
  <2>4. PICK l \in Nat : l = Len(h.lines)
    BY <2>3
  <2>5. \A k \in 0..(l - 1) : ~(Olds(h.lines, k) >= h.b /\ News(h.lines, k) >= h.d)
    BY <2>3, <2>4 DEF Unspent
  <2>6. h = [a |-> h.a, b |-> h.b, c |-> h.c, d |-> h.d, lines |-> h.lines] /\ h.lines \in Scripts(W)
    BY <2>2 DEF IsHunk
  <2>7. Parsed(h) = [h EXCEPT !.lines = h.lines]
    BY <2>4, <2>5, <2>6, ReadWhole
  <2> QED  BY <2>1, <2>6, <2>7
<1>4. P = [k \in 1..H |-> P[k]]
  <2>1. P \in [1..Len(P) -> {P[h] : h \in 1..H}]
    BY <1>2, LenProperties
  <2> QED  BY <1>2, <2>1
<1>5. [i \in DOMAIN P |-> Parsed(P[i])] = [k \in 1..H |-> P[k]]
  BY <1>2, <1>3
<1> QED  BY <1>1, <1>4, <1>5

\* A function whose first line is kept is compared with the one whose first line that was.
LEMMA OwnVersionHolds ==
    ASSUME NEW W, NEW E \in Scripts(W), None \notin Seq(W), None \notin Seq(Hunks(W))
    PROVE  OwnOldVersion(E)
<1>1. ASSUME NEW f \in Sendable(E), NEW k \in DOMAIN E, E[k].tag = "keep", NEW namesake \in DOMAIN OldOf(E)
      PROVE  OldVersion(f, NormalPatch(f, E), {namesake, Olds(E, k)}, News(E, k)) = Olds(E, k)
  <2>1. PICK m, P : m \in Nat /\ m >= 1 /\ NormalPatch(f, E) = P /\ P = Patch(E, m)
    BY FileNormal
  <2>2. NormalOld(f) = OldOf(E) /\ OldOf(E) # None
    BY FileNormal
  <2>3. OldLineFor(P, News(E, k)) = Olds(E, k)
    <3>1. PICK H, Bs : H \in Nat /\ IsPatch(Patch(E, m), E, W, m, H, Bs)
      BY <2>1, PatchFacts
    <3> QED  BY <1>1, <2>1, <3>1, OldLineIs
  <2>4. PICK olds, target : olds = {namesake, target} /\ target = Olds(E, k)
    OBVIOUS
  <2>5. target \in Nat /\ namesake \in Nat
    <3>1. Olds(E, k) \in Nat
      BY NumberOfOld
    <3>2. OldOf(E) \in Seq(W)
      BY SidesOfScript, TextsOfPlaces DEF IsTexts
    <3>3. DOMAIN OldOf(E) = 1..Len(OldOf(E)) /\ Len(OldOf(E)) \in Nat
      BY <3>2, LenProperties
    <3> QED  BY <2>4, <3>1, <3>3
  <2>6. OldVersion(f, P, olds, News(E, k)) = Nearest(olds, P, News(E, k))
    BY <2>2, <2>4 DEF OldVersion
  <2>7. Nearest(olds, P, News(E, k)) = CHOOSE o \in olds : \A q \in olds : Distance(o, target) <= Distance(q, target)
    BY <2>3, <2>4 DEF Nearest
  <2>8. \A q \in olds : Distance(q, target) \in Nat /\ (Distance(q, target) <= 0 => q = target)
    BY <2>4, <2>5 DEF Distance
  <2>9. Distance(target, target) = 0
    BY <2>5 DEF Distance
  <2>10. target \in olds /\ \A q \in olds : Distance(target, target) <= Distance(q, target)
    BY <2>4, <2>8, <2>9
  <2>11. \A o \in olds : (\A q \in olds : Distance(o, target) <= Distance(q, target)) => o = target
    BY <2>8, <2>9, <2>10
  <2>12. (CHOOSE o \in olds : \A q \in olds : Distance(o, target) <= Distance(q, target)) = target
    BY <2>10, <2>11
  <2> QED  BY <2>1, <2>4, <2>6, <2>7, <2>12
<1> QED  BY <1>1 DEF OwnOldVersion

\* What a removed line touches.
TouchedBy(P, q) ==
    LET h == P[q[1]]
        runStarts == q[2] = 1 \/ h.lines[q[2] - 1].tag # "del"
        at == NewNo(h, q[2])
    IN {at} \cup {x \in {at - 1} : runStarts /\ x >= 1}

\* The touched lines of a patch are those its added and removed lines touch.
LEMMA TouchedAre ==
    ASSUME NEW P
    PROVE  /\ AddedLines(P) \subseteq Touched(P)
           /\ \A q \in Tagged(P, "del") : TouchedBy(P, q) \subseteq Touched(P)
           /\ \A x \in Touched(P) : x \in AddedLines(P) \/ \E q \in Tagged(P, "del") : x \in TouchedBy(P, q)
<1>1. Touched(P) = AddedLines(P) \cup UNION {TouchedBy(P, q) : q \in Tagged(P, "del")}
  BY DEF Touched, TouchedBy
<1> QED  BY <1>1

\* A removed line is shown, and the line behind it on the new side is touched.
LEMMA RemovedInPatch ==
    ASSUME NEW W, NEW E \in Scripts(W), NEW n \in Nat, NEW H \in Nat, NEW Bs, NEW P, IsPatch(P, E, W, n, H, Bs),
           NEW k \in DOMAIN E, E[k].tag = "del"
    PROVE  \E q \in Tagged(P, "del") : IsPlaceOf(q, P, E, Bs, H, k) /\ NewNo(P[q[1]], q[2]) = News(E, k) + 1
<1>1. Len(E) \in Nat /\ DOMAIN E = 1..Len(E) /\ k \in Nat /\ k >= 1 /\ k \in 0..Len(E)
  BY SidesOfScript
<1>2. k \in Shown(E, n)
  <2>1. Distance(k, k) <= n
    BY <1>1 DEF Distance
  <2> QED  BY <2>1 DEF Shown
<1>3. PICK q \in UNION {{i} \X DOMAIN P[i].lines : i \in DOMAIN P} : IsPlaceOf(q, P, E, Bs, H, k)
  BY <1>2, LinesOfPlaces
<1>4. P[q[1]].lines[q[2]].tag = "del" /\ NewNo(P[q[1]], q[2]) = HowMany(NewPlaces(E), k - 1) + 1
  BY <1>3 DEF IsPlaceOf
<1>5. q \in Tagged(P, "del")
  BY <1>3, <1>4 DEF Tagged
<1>6. HowMany(NewPlaces(E), k - 1) = News(E, k)
  <2>1. News(E, k) = HowMany(NewPlaces(E), k)
    BY <1>1, SidesOfScript
  <2>2. k \notin NewPlaces(E)
    BY SidesOfScript
  <2>3. PICK l \in Nat : l = k - 1 /\ l + 1 = k
    <3>1. k - 1 \in Nat /\ (k - 1) + 1 = k
      BY <1>1
    <3> QED  BY <3>1
  <2>4. HowMany(NewPlaces(E), l + 1) = HowMany(NewPlaces(E), l) + (IF l + 1 \in NewPlaces(E) THEN 1 ELSE 0)
    BY CountNext
  <2>5. HowMany(NewPlaces(E), l) \in Nat
    BY CountNext
  <2> QED  BY <2>1, <2>2, <2>3, <2>4, <2>5
<1> QED  BY <1>3, <1>4, <1>5, <1>6

\* So is the line before it.
LEMMA GapTouched ==
    ASSUME NEW W, NEW E \in Scripts(W), NEW n \in Nat, NEW H \in Nat, NEW Bs, NEW P, IsPatch(P, E, W, n, H, Bs),
           NEW k \in DOMAIN E, E[k].tag = "del"
    PROVE  /\ News(E, k) \in Nat /\ News(E, k) + 1 \in Touched(P)
           /\ News(E, k) >= 1 => News(E, k) \in Touched(P)
<1>1. Len(E) \in Nat /\ DOMAIN E = 1..Len(E) /\ k \in 1..Len(E) /\ k \in Nat /\ k >= 1 /\ k \in 0..Len(E)
  BY SidesOfScript
<1>2. News(E, k) \in Nat
  <2>1. News(E, k) = HowMany(NewPlaces(E), k)
    BY <1>1, SidesOfScript
  <2>2. HowMany(NewPlaces(E), k) \in Nat
    BY <1>1, CountNext
  <2> QED  BY <2>1, <2>2
<1>3. News(E, k) + 1 \in Touched(P)
  <2>1. PICK q \in Tagged(P, "del") : NewNo(P[q[1]], q[2]) = News(E, k) + 1
    BY RemovedInPatch
  <2>2. NewNo(P[q[1]], q[2]) \in TouchedBy(P, q)
    BY DEF TouchedBy
  <2> QED  BY <2>1, <2>2, TouchedAre
<1>4. ASSUME News(E, k) >= 1 PROVE News(E, k) \in Touched(P)
  <2>1. PICK S : S = {j \in DOMAIN E : E[j].tag = "del"}
    OBVIOUS
  <2>2. PICK N : N = Len(E)
    OBVIOUS
  <2>3. S \subseteq 1..N /\ k \in S /\ N \in Nat
    BY <1>1, <2>1, <2>2
  <2>4. PICK b \in (1..N) \X (1..N) : IsRun(b, S, N) /\ k \in b[1]..b[2]
    BY <2>3, RunsOfShown
  <2>5. PICK i : i = b[1]
    OBVIOUS
  <2>6. i \in 1..N /\ i \in Nat /\ i <= k /\ i - 1 \notin S /\ \A j \in i..k : j \in S
    <3>1. b[1] \in 1..N /\ b[2] \in b[1]..N /\ b[1]..b[2] \subseteq S /\ b[1] - 1 \notin S
      BY <2>4 DEF IsRun
    <3>2. i \in 1..N /\ i \in Nat /\ i <= k
      BY <2>3, <2>4, <2>5, <3>1
    <3>3. \A j \in i..k : j \in b[1]..b[2]
      BY <1>1, <2>3, <2>4, <2>5, <3>1
    <3> QED  BY <2>5, <3>1, <3>2, <3>3
  <2>7. i \in DOMAIN E /\ E[i].tag = "del"
    <3>1. i \in S
      BY <1>1, <2>6
    <3> QED  BY <2>1, <3>1
  <2>8. News(E, i) = News(E, k)
    <3>1. i \in 0..Len(E)
      BY <2>2, <2>6
    <3>2. News(E, i) = HowMany(NewPlaces(E), i) /\ News(E, k) = HowMany(NewPlaces(E), k)
      BY <1>1, <3>1, SidesOfScript
    <3>3. \A j \in (i + 1)..k : j \notin NewPlaces(E)
      <4>1. ASSUME NEW j \in (i + 1)..k PROVE j \notin NewPlaces(E)
        <5>1. j \in i..k
          BY <1>1, <2>6
        <5>2. j \in DOMAIN E /\ E[j].tag = "del"
          BY <2>1, <2>6, <5>1
        <5> QED  BY <5>2, SidesOfScript
      <4> QED  BY <4>1
    <3>4. HowMany(NewPlaces(E), k) = HowMany(NewPlaces(E), i)
      BY <1>1, <2>6, <3>3, CountGrows
    <3> QED  BY <3>2, <3>4
  <2>9. PICK q \in Tagged(P, "del") : IsPlaceOf(q, P, E, Bs, H, i) /\ NewNo(P[q[1]], q[2]) = News(E, i) + 1
    BY <2>7, RemovedInPatch, SMTT(30)
  <2>10. PICK g, m, h : g = q[1] /\ m = q[2] /\ h = P[g]
    OBVIOUS
  <2>11. m = 1 \/ h.lines[m - 1].tag # "del"
    <3>1. ASSUME m # 1 PROVE h.lines[m - 1].tag # "del"
      <4>1. g \in 1..H /\ m \in DOMAIN h.lines /\ i = m + Bs[g][1] - 1
        BY <2>9, <2>10 DEF IsPlaceOf
      <4>2. PICK x, y : x = Bs[g][1] /\ y = Bs[g][2]
        OBVIOUS
      <4>3. IsHunk(h, E, W, x, y) /\ x \in 1..Len(E) /\ y \in x..Len(E)
        BY <2>10, <4>1, <4>2 DEF IsPatch, IsHunks, IsRun
      <4>4. DOMAIN h.lines = 1..(y - x + 1) /\ \A z \in 1..(y - x + 1) : h.lines[z] = E[z + x - 1]
        BY <4>3 DEF IsHunk
      <4>5. m - 1 \in 1..(y - x + 1) /\ (m - 1) + x - 1 = i - 1 /\ i - 1 \in 1..Len(E)
        <5>1. m \in 1..(y - x + 1) /\ i = m + x - 1
          BY <4>1, <4>2, <4>4
        <5>2. x \in Int /\ y \in Int /\ 1 <= x /\ x <= y /\ i \in Int /\ i <= Len(E) /\ Len(E) \in Int
          BY <1>1, <2>2, <2>6, <4>3
        <5> QED  BY ONLY <3>1, <5>1, <5>2
      <4>6. h.lines[m - 1] = E[i - 1] /\ i - 1 \in DOMAIN E
        BY <1>1, <4>4, <4>5
      <4>7. E[i - 1].tag # "del"
        BY <2>1, <2>6, <4>6
      <4> QED  BY <4>6, <4>7
    <3> QED  BY <3>1
  <2>12. NewNo(h, m) = News(E, k) + 1
    BY <2>8, <2>9, <2>10
  <2>13. NewNo(h, m) - 1 \in TouchedBy(P, q)
    <3>1. PICK at : at = NewNo(h, m)
      OBVIOUS
    <3>2. TouchedBy(P, q) = {at} \cup {x \in {at - 1} : (m = 1 \/ h.lines[m - 1].tag # "del") /\ x >= 1}
      BY <2>10, <3>1 DEF TouchedBy
    <3>3. at - 1 >= 1
      BY <1>2, <1>4, <2>12, <3>1
    <3> QED  BY <2>11, <3>1, <3>2, <3>3
  <2>14. NewNo(h, m) - 1 = News(E, k)
    BY <1>2, <2>12
  <2> QED  BY <2>13, <2>14, TouchedAre
<1> QED  BY <1>2, <1>3, <1>4

\* Only lines of the new side are touched, or the one behind its last.
LEMMA TouchedNumbers ==
    ASSUME NEW W, NEW E \in Scripts(W), NEW n \in Nat, NEW H \in Nat, NEW Bs, NEW P, IsPatch(P, E, W, n, H, Bs)
    PROVE  Touched(P) \subseteq 1..(Len(NewOf(E)) + 1)
<1>1. /\ AddedLines(P) \subseteq CommentableLines(P) /\ CommentableLines(P) \subseteq 1..Len(NewOf(E))
      /\ Len(NewOf(E)) \in Nat
  BY AddedAre
<1>2. ASSUME NEW q \in Tagged(P, "del"), NEW x \in TouchedBy(P, q) PROVE x \in 1..(Len(NewOf(E)) + 1)
  <2>1. q \in UNION {{i} \X DOMAIN P[i].lines : i \in DOMAIN P}
    BY DEF Tagged
  <2>2. PICK p : IsPlaceOf(q, P, E, Bs, H, p)
    BY <2>1, PlacesOfLines
  <2>3. PICK at : at = NewNo(P[q[1]], q[2])
    OBVIOUS
  <2>4. p \in Nat /\ p >= 1 /\ p \in DOMAIN E /\ at = HowMany(NewPlaces(E), p - 1) + 1
    BY <2>2, <2>3 DEF IsPlaceOf
  <2>5. PICK l \in 0..Len(E) : l = p - 1
    <3>1. Len(E) \in Nat /\ DOMAIN E = 1..Len(E)
      BY SidesOfScript
    <3>2. p - 1 \in 0..Len(E)
      BY <2>4, <3>1
    <3> QED  BY <3>2
  <2>6. /\ HowMany(NewPlaces(E), l) \in Nat /\ HowMany(NewPlaces(E), Len(E)) \in Nat
        /\ HowMany(NewPlaces(E), l) <= HowMany(NewPlaces(E), Len(E))
    <3>1. Len(E) \in Nat
      BY SidesOfScript
    <3> QED  BY <3>1, PlaceCounted
  <2>7. Len(NewOf(E)) = HowMany(NewPlaces(E), Len(E))
    BY SidesOfScript, TextsOfPlaces DEF IsTexts
  <2>8. at \in 1..(Len(NewOf(E)) + 1)
    BY <2>4, <2>5, <2>6, <2>7
  <2>9. x = at \/ (x = at - 1 /\ x >= 1)
    BY <2>3 DEF TouchedBy
  <2> QED  BY <1>1, <2>8, <2>9
<1>3. ASSUME NEW x \in Touched(P) PROVE x \in 1..(Len(NewOf(E)) + 1)
  <2>1. CASE x \in AddedLines(P)
    BY <1>1, <2>1
  <2>2. CASE \E q \in Tagged(P, "del") : x \in TouchedBy(P, q)
    BY <1>2, <2>2
  <2> QED  BY <2>1, <2>2, TouchedAre
<1> QED  BY <1>3

\* None of these sets of numbers stands for no lines.
KnownLines(m) == \A L \in SUBSET (1..m) : L # None

\* The lines L of a change show all of it.
ShowsChange(L, E) ==
    /\ L # None /\ Numbers(E, "add") \subseteq L
    /\ \A k \in DOMAIN E, s, e \in DOMAIN NewOf(E) :
          s <= e /\ E[k].tag = "del" /\ News(E, k) \in (s - 1)..e => \E x \in L : x \in s..e

\* The changed lines a file is planned with show all of the change.
LEMMA LinesOfChange ==
    ASSUME NEW W, NEW E \in Scripts(W), NEW f \in Sendable(E), None \notin Seq(W), None \notin Seq(Hunks(W)),
           KnownLines(Len(E) + 1)
    PROVE  ShowsChange(NormalLines(f, E), E)
<1>1. /\ NormalOld(f) = OldOf(E) /\ OldOf(E) # None /\ NewOf(E) # None /\ f.new = NewOf(E) /\ f.lines = None
      /\ \A m \in Nat : Patch(E, m) # None
  BY FileNormal
<1>2. PICK m, P : m \in Nat /\ NormalPatch(f, E) = P /\ P = Patch(E, m)
  <2>1. \E m \in {1, 3} : NormalPatch(f, E) = Patch(E, m)
    BY FileNormal
  <2> QED  BY <2>1
<1>3. PICK Bs, H : H \in Nat /\ IsPatch(P, E, W, m, H, Bs)
  <2>1. PICK H, Bs : H \in Nat /\ IsPatch(Patch(E, m), E, W, m, H, Bs)
    BY <1>2, PatchFacts
  <2> QED  BY <1>2, <2>1
<1>4. PICK n \in Nat : n = Len(NewOf(E)) /\ DOMAIN NewOf(E) = 1..n /\ n <= Len(E) /\ Len(E) \in Nat
  <2>1. Len(NewOf(E)) = HowMany(NewPlaces(E), Len(E)) /\ NewOf(E) \in Seq(W)
    BY SidesOfScript, TextsOfPlaces DEF IsTexts
  <2>2. PICK z \in Nat : z = 0 /\ HowMany(NewPlaces(E), z) = 0
    BY CountNext
  <2>3. Len(E) \in Nat /\ z <= Len(E)
    BY <2>2, SidesOfScript
  <2>4. HowMany(NewPlaces(E), Len(E)) - HowMany(NewPlaces(E), z) <= Len(E) - z
    BY <2>3, CountGrows
  <2>5. HowMany(NewPlaces(E), Len(E)) \in Nat
    BY <2>3, CountNext
  <2>6. Len(NewOf(E)) \in Nat /\ DOMAIN NewOf(E) = 1..Len(NewOf(E))
    BY <2>1, LenProperties
  <2> QED  BY <2>1, <2>2, <2>3, <2>4, <2>5, <2>6
<1>5. Numbers(E, "add") = AddedLines(P) /\ Numbers(E, "add") \subseteq 1..n
  <2>1. /\ AddedLines(P) = Numbers(E, "add") /\ AddedLines(P) \subseteq CommentableLines(P)
        /\ CommentableLines(P) \subseteq 1..Len(NewOf(E))
    BY <1>2, <1>3, AddedAre
  <2> QED  BY <1>4, <2>1
<1>6. NormalLines(f, E) = IF Status(f) = "added" THEN DOMAIN f.new ELSE Touched(P)
  <2>1. CASE Status(f) = "added"
    BY <1>1, <2>1 DEF NormalLines
  <2>2. CASE Status(f) # "added"
    <3>1. NormalLines(f, E) = IF P = None \/ f.new = None THEN None
                              ELSE Touched([i \in DOMAIN P |-> Parsed(P[i])])
      BY <1>1, <1>2, <2>2 DEF NormalLines
    <3>2. P # None /\ f.new # None
      BY <1>1, <1>2
    <3>3. [i \in DOMAIN P |-> Parsed(P[i])] = P
      BY <1>2, ReadAsWritten
    <3> QED  BY <2>2, <3>1, <3>2, <3>3
  <2> QED  BY <2>1, <2>2
<1>7. PICK L : L = NormalLines(f, E)
  OBVIOUS
<1>8. L = 1..n \/ L = Touched(P)
  BY <1>1, <1>4, <1>6, <1>7
<1>9. L # None
  <2>1. Touched(P) \subseteq 1..(Len(NewOf(E)) + 1)
    BY <1>2, <1>3, TouchedNumbers
  <2>2. L \subseteq 1..(Len(E) + 1)
    BY <1>4, <1>8, <2>1
  <2> QED  BY <2>2 DEF KnownLines
<1>10. Numbers(E, "add") \subseteq L
  <2>1. AddedLines(P) \subseteq Touched(P)
    BY TouchedAre
  <2> QED  BY <1>5, <1>8, <2>1
<1>11. ASSUME NEW k \in DOMAIN E, NEW s \in DOMAIN NewOf(E), NEW e \in DOMAIN NewOf(E), s <= e, E[k].tag = "del",
              News(E, k) \in (s - 1)..e
       PROVE  \E x \in L : x \in s..e
  <2>1. s \in Nat /\ e \in Nat /\ s >= 1 /\ s \in 1..n
    BY <1>4
  <2>2. CASE L = 1..n
    <3>1. s \in L /\ s \in s..e
      BY <1>11, <2>1, <2>2
    <3> QED  BY <3>1
  <2>3. CASE L = Touched(P)
    <3>1. PICK g \in Nat : g = News(E, k) /\ g + 1 \in L /\ (g >= 1 => g \in L)
      BY <1>2, <1>3, <1>11, <2>3, GapTouched
    <3>2. s - 1 <= g /\ g <= e
      BY <1>11, <2>1, <3>1
    <3>3. CASE g = e
      <4>1. g \in s..e /\ g >= 1
        BY <1>11, <2>1, <3>3
      <4> QED  BY <3>1, <4>1
    <3>4. CASE g # e
      <4>1. g + 1 \in s..e
        BY <2>1, <3>2, <3>4
      <4> QED  BY <3>1, <4>1
    <3> QED  BY <3>3, <3>4
  <2> QED  BY <1>8, <2>2, <2>3
<1>12. ShowsChange(L, E)
  BY <1>9, <1>10, <1>11 DEF ShowsChange
<1> QED  BY <1>7, <1>12

\* A function with a changed line is planned, and the whole file when one is outside it.
LEMMA PlannedOfOne ==
    ASSUME NEW fn, ~fn.ignored, NEW L, L # None
    PROVE  /\ (\E x \in L : x \in fn.start..fn.end) => fn \in PlanUnits({fn}, L, TRUE, FALSE)
           /\ ~(L \subseteq fn.start..fn.end) => WholeFile \in PlanUnits({fn}, L, TRUE, FALSE)
<1>1. UNION {g.start..g.end : g \in {fn}} = fn.start..fn.end
  OBVIOUS
<1>2. ASSUME NEW x \in L, x \in fn.start..fn.end PROVE fn \in PlanUnits({fn}, L, TRUE, FALSE)
  <2>1. Selected(fn, L)
    BY <1>2 DEF Selected
  <2> QED  BY <2>1 DEF PlanUnits
<1>3. ASSUME ~(L \subseteq fn.start..fn.end) PROVE WholeFile \in PlanUnits({fn}, L, TRUE, FALSE)
  BY <1>1, <1>3 DEF PlanUnits
<1> QED  BY <1>2, <1>3

\* So a function with an added line, or with removed ones in it or next to it, is planned.
LEMMA ChangesArePlanned ==
    ASSUME NEW W, NEW E \in Scripts(W), None \notin Seq(W), None \notin Seq(Hunks(W)), KnownLines(Len(E) + 1)
    PROVE  ChangesPlanned(E)
<1>1. ASSUME NEW f \in Sendable(E), NEW s \in DOMAIN NewOf(E), NEW e \in DOMAIN NewOf(E), s <= e
      PROVE  LET fn == [start |-> s, end |-> e, ignored |-> FALSE]
                 added == {News(E, k) : k \in {j \in DOMAIN E : E[j].tag = "add"}}
                 gaps == {News(E, k) : k \in {j \in DOMAIN E : E[j].tag = "del"}}
                 units == PlanUnits({fn}, NormalLines(f, E), TRUE, FALSE)
             IN  /\ added \cap s..e # {} \/ gaps \cap (s - 1)..e # {} => fn \in units
                 /\ added \subseteq s..e \/ WholeFile \in units
  <2> DEFINE fn == [start |-> s, end |-> e, ignored |-> FALSE]
             added == {News(E, k) : k \in {j \in DOMAIN E : E[j].tag = "add"}}
             gaps == {News(E, k) : k \in {j \in DOMAIN E : E[j].tag = "del"}}
             units == PlanUnits({fn}, NormalLines(f, E), TRUE, FALSE)
  <2>1. PICK L : L = NormalLines(f, E)
    OBVIOUS
  <2>2. ShowsChange(L, E)
    BY <2>1, LinesOfChange
  <2>3. /\ L # None /\ added \subseteq L
        /\ \A k \in DOMAIN E : E[k].tag = "del" /\ News(E, k) \in (s - 1)..e => \E x \in L : x \in s..e
    BY <1>1, <2>2 DEF ShowsChange, Numbers
  <2>4. /\ (\E x \in L : x \in fn.start..fn.end) => fn \in units
        /\ ~(L \subseteq fn.start..fn.end) => WholeFile \in units
    <3>1. PICK g : g = fn
      OBVIOUS
    <3>2. ~g.ignored
      BY <3>1
    <3>3. /\ (\E x \in L : x \in g.start..g.end) => g \in PlanUnits({g}, L, TRUE, FALSE)
          /\ ~(L \subseteq g.start..g.end) => WholeFile \in PlanUnits({g}, L, TRUE, FALSE)
      BY <2>3, <3>2, PlannedOfOne
    <3> QED  BY <2>1, <3>1, <3>3
  <2>5. fn.start = s /\ fn.end = e
    OBVIOUS
  <2>6. ASSUME gaps \cap (s - 1)..e # {} PROVE \E x \in L : x \in s..e
    <3>1. PICK k \in DOMAIN E : E[k].tag = "del" /\ News(E, k) \in (s - 1)..e
      BY <2>6
    <3> QED  BY <2>3, <3>1
  <2> HIDE DEF fn, added, gaps, units
  <2>7. added \cap s..e # {} \/ gaps \cap (s - 1)..e # {} => fn \in units
    BY <2>3, <2>4, <2>5, <2>6
  <2>8. added \subseteq s..e \/ WholeFile \in units
    BY <2>3, <2>4, <2>5
  <2> QED  BY <2>7, <2>8 DEF fn, added, gaps, units
<1> QED  BY <1>1 DEF ChangesPlanned

------------------------------------------------------------------------------
(* The replays of the evaluation (EvalScores.tla).                         *)

\* t is the first elements of the n of s, at most top.
Begins(s, n, top, t) ==
    \E m \in 0..n : m = (IF top <= n THEN top ELSE n) /\ t = [k \in 1..m |-> s[k]]

LEMMA FirstOfIs ==
    ASSUME NEW n \in Nat, NEW s, DOMAIN s = 1..n, s = [k \in 1..n |-> s[k]], NEW top \in Nat
    PROVE  Begins(s, n, top, FirstOf(s, top))
<1> DEFINE S == {s[k] : k \in 1..n}
<1>1. s \in Seq(S) /\ Len(s) = n
  BY ListIsSeq
<1>2. PICK m \in 0..n : m = IF top <= n THEN top ELSE n
  OBVIOUS
<1>3. FirstOf(s, top) = SubSeq(s, 1, m)
  BY <1>1, <1>2, LesserOfTwo, SMTT(30) DEF FirstOf
<1>4. 1 \in Int /\ m \in Int /\ \A i \in 1..m : s[i] \in S
  BY <1>2
<1> HIDE DEF S
<1>5. PICK t : t = SubSeq(s, 1, m)
  OBVIOUS
<1>6. t \in Seq(S) /\ Len(t) = m /\ \A i \in 1..m : t[i] = s[i]
  <2>2. /\ SubSeq(s, 1, m) \in Seq(S) /\ Len(SubSeq(s, 1, m)) = IF 1 <= m THEN m - 1 + 1 ELSE 0
        /\ \A i \in 1 .. m - 1 + 1 : SubSeq(s, 1, m)[i] = s[1 + i - 1]
    BY ONLY <1>4, SubSeqProperties
  <2>3. m - 1 + 1 = m /\ \A i \in 1..m : 1 + i - 1 = i
    BY <1>2
  <2>4. (IF 1 <= m THEN m - 1 + 1 ELSE 0) = m
    BY <1>2
  <2> QED  BY <1>5, <2>2, <2>3, <2>4
<1>7. t = [k \in 1..m |-> t[k]]
  <2>1. t \in [1..Len(t) -> S]
    BY <1>6, LenProperties
  <2> QED  BY <1>6, <2>1
<1>8. FirstOf(s, top) = [k \in 1..m |-> s[k]]
  BY ONLY <1>3, <1>5, <1>6, <1>7
<1> QED  BY <1>2, <1>8 DEF Begins

\* The first of a row are a row.
FirstRow(t, r, w, S, top) ==
    \E m \in 0..Cardinality(S) :
        /\ m = (IF top <= Cardinality(S) THEN top ELSE Cardinality(S))
        /\ t = [k \in 1..m |-> r[k]]
        /\ IsRow(t, w, {r[k] : k \in 1..m})
        /\ IsFiniteSet({r[k] : k \in 1..m}) /\ Cardinality({r[k] : k \in 1..m}) = m

LEMMA FirstOfRow ==
    ASSUME NEW S, NEW w, NEW r, IsRow(r, w, S), NEW top \in Nat
    PROVE  FirstRow(FirstOf(r, top), r, w, S, top)
<1>1. PICK n \in Nat : n = Cardinality(S) /\ DOMAIN r = 1..n /\ r = [k \in 1..n |-> r[k]]
  BY DEF IsRow
<1>2. PICK m \in 0..n : m = (IF top <= n THEN top ELSE n) /\ FirstOf(r, top) = [k \in 1..m |-> r[k]]
  <2>1. Begins(r, n, top, FirstOf(r, top))
    BY <1>1, FirstOfIs
  <2> QED  BY <2>1 DEF Begins
<1>3. PICK q : q = [k \in 1..m |-> k]
  OBVIOUS
<1>4. /\ m \in Nat /\ DOMAIN q = 1..m /\ \A k \in 1..m : q[k] = k
      /\ 1..m \subseteq 1..Cardinality(S)
  BY <1>1, <1>2, <1>3
<1>5. PICK B : B = 1..m
  OBVIOUS
<1>6. /\ B \subseteq 1..Cardinality(S) /\ m \in Nat /\ DOMAIN q = 1..m /\ q = [k \in 1..m |-> q[k]]
      /\ (\A k \in 1..m : q[k] \in B) /\ (\A x \in B : \E k \in 1..m : q[k] = x)
      /\ \A j, k \in 1..m : j < k <=> q[j] < q[k]
  BY <1>3, <1>4, <1>5
<1>7. LET T == {r[k] : k \in B} IN
      /\ IsFiniteSet(T) /\ Cardinality(T) = m
      /\ IsRow([k \in 1..m |-> r[q[k]]], w, T)
  BY ONLY <1>6, IsRow(r, w, S), PartOfRow, ZenonT(30)
<1>8. [k \in 1..m |-> r[q[k]]] = [k \in 1..m |-> r[k]]
  BY <1>4
<1> QED  BY <1>1, <1>2, <1>5, <1>7, <1>8 DEF FirstRow

\* The matches of a sweep are all scored or none is.
AlikeScored(found) ==
    \/ \A i \in 1..Len(found) : found[i].prob # Unscored
    \/ \A i \in 1..Len(found) : found[i].prob = Unscored

PassingOf(found) == {i \in 1..Len(found) : found[i].sim >= SimThreshold /\ PassesTwinMargin(found[i])}
ConfirmedOf(found) == {i \in PassingOf(found) : found[i].prob # Unscored => found[i].prob >= RerankThreshold}

LEMMA RelevancesAre ==
    ASSUME NEW found \in Seq(Retrieved)
    PROVE  /\ Len(found) \in Nat /\ DOMAIN found = 1..Len(found)
           /\ \A i \in 1..Len(found) : /\ found[i].sim \in Int
                                       /\ found[i].prob = Unscored \/ found[i].prob \in Int
                                       /\ Relevances(found)[i] = Relevance(found[i])
                                       /\ Relevances(found)[i] \in Int
<1>1. /\ Len(found) \in Nat /\ DOMAIN found = 1..Len(found)
      /\ \A i \in 1..Len(found) : found[i] \in Retrieved
  BY LenProperties, ElementOfSeq
<1>2. \A i \in 1..Len(found) : found[i].sim \in Int /\ (found[i].prob = Unscored \/ found[i].prob \in Int)
  BY <1>1, RecordedAssumption
<1>3. \A i \in 1..Len(found) : Relevances(found)[i] = Relevance(found[i])
  BY <1>1 DEF Relevances
<1>4. \A i \in 1..Len(found) : Relevance(found[i]) \in Int
  BY <1>2 DEF Relevance
<1> QED  BY <1>1, <1>2, <1>3, <1>4

\* The candidates of the reranking, in the order of their relevance.
LEMMA RerankCandidatesSorted ==
    ASSUME NEW found \in Seq(Retrieved)
    PROVE  SortedFrom(RerankCandidates(found), found, Relevances(found), PassingOf(found))
<1>1. PICK n \in Nat : n = Len(found) /\ DOMAIN found = 1..n
  BY RelevancesAre
<1>2. PICK A : A = PassingOf(found)
  OBVIOUS
<1>3. A \subseteq 1..n /\ A = {i \in DOMAIN found : found[i].sim >= SimThreshold /\ PassesTwinMargin(found[i])}
  BY <1>1, <1>2 DEF PassingOf
<1>4. PICK w : w = Relevances(found)
  OBVIOUS
<1>5. \A i \in A : w[i] = Relevance(found[i]) /\ w[i] \in Int
  BY <1>1, <1>3, <1>4, RelevancesAre
<1>6. NumbersOn(A, w)
  BY <1>3, <1>5 DEF NumbersOn
<1>7. PICK v : v = Relevances(Picked(found, A))
  OBVIOUS
<1>8. SameWeight(Picked(found, A), v, found, w, A)
  BY <1>5, <1>7 DEF Relevances, SameWeight
<1>9. SortedFrom(Stably(Picked(found, A), v), found, w, A)
  BY <1>3, <1>6, <1>8, PickedSorted
<1>10. RerankCandidates(found) = Stably(Picked(found, A), v)
  BY <1>3, <1>7 DEF RerankCandidates
<1> QED  BY <1>2, <1>4, <1>9, <1>10

\* What the reranking confirms, sorted again, is what the search confirms, sorted once.
LEMMA ConfirmedSorted ==
    ASSUME NEW found \in Seq(Retrieved), NEW near, near = RerankCandidates(found),
           NEW B, B = {i \in DOMAIN near : near[i].prob # Unscored => near[i].prob >= RerankThreshold},
           NEW sure, sure = Picked(near, B)
    PROVE  SortedFrom(Stably(sure, Relevances(sure)), found, Relevances(found), ConfirmedOf(found))
<1>1. PICK w : w = Relevances(found)
  OBVIOUS
<1>2. PICK A : A = PassingOf(found)
  OBVIOUS
<1>3. PICK a : a = Cardinality(A)
  OBVIOUS
<1>4. PICK h : IsRow(h, w, A) /\ near = [k \in 1..a |-> found[h[k]]]
  BY <1>1, <1>2, <1>3, RerankCandidatesSorted DEF SortedFrom
<1>5. A \subseteq 1..Len(found) /\ A \subseteq Int
  BY <1>2, RelevancesAre DEF PassingOf
<1>6. \A i \in A : w[i] = Relevance(found[i]) /\ w[i] \in Int
  BY <1>1, <1>5, RelevancesAre, SMTT(30)
<1>7. /\ a \in Nat /\ \A k \in 1..a : h[k] \in A
      /\ \A x \in A : \E k \in 1..a : h[k] = x
  BY <1>3, <1>4 DEF IsRow
<1>8. DOMAIN near = 1..a /\ \A k \in 1..a : near[k] = found[h[k]]
  BY <1>4
<1>9. B \subseteq 1..a /\ \A k \in 1..a : k \in B <=> h[k] \in ConfirmedOf(found)
  BY <1>2, <1>7, <1>8 DEF ConfirmedOf
<1>10. PICK q, b : Ascending(q, B, b) /\ sure = [k \in 1..b |-> near[q[k]]]
  <2>1. TakenInOrder(sure, near, B)
    <3>1. TakenInOrder(Picked(near, B), near, B)
      BY ONLY <1>7, <1>9, PickedAre
    <3> QED  BY <3>1
  <2> QED  BY <2>1 DEF TakenInOrder
<1>11. /\ b \in Nat /\ DOMAIN q = 1..b /\ q = [k \in 1..b |-> q[k]]
       /\ (\A k \in 1..b : q[k] \in B) /\ (\A x \in B : \E k \in 1..b : q[k] = x)
       /\ \A j, k \in 1..b : j < k <=> q[j] < q[k]
  BY <1>10 DEF Ascending
<1>12. PICK e : e = [k \in 1..b |-> h[q[k]]]
  OBVIOUS
<1>13. PICK C : C = ConfirmedOf(found)
  OBVIOUS
<1>14. C = {h[k] : k \in B} /\ C \subseteq A
  BY <1>2, <1>7, <1>9, <1>13 DEF ConfirmedOf
<1>15. IsFiniteSet(C) /\ Cardinality(C) = b /\ IsRow(e, w, C)
  <2>1. B \subseteq 1..Cardinality(A)
    BY <1>3, <1>9
  <2>2. LET T == {h[k] : k \in B} IN
        IsFiniteSet(T) /\ Cardinality(T) = b /\ IsRow([k \in 1..b |-> h[q[k]]], w, T)
    BY ONLY <1>4, <1>11, <2>1, PartOfRow, ZenonT(30)
  <2> QED  BY <1>12, <1>14, <2>2
<1>16. C \subseteq Int /\ \A i \in C : w[i] \in Int
  BY <1>5, <1>6, <1>14
<1>17. Steady(e, w, b, C)
  <2>1. Steady(e, w, Cardinality(C), C)
    BY ONLY <1>15, <1>16, RowIsSteady
  <2> QED  BY <1>15, <2>1
<1>18. sure = [k \in 1..b |-> found[e[k]]]
  BY <1>8, <1>9, <1>10, <1>11, <1>12
<1>19. \A k \in 1..b : e[k] \in A
  BY <1>14, <1>15, <1>17 DEF Steady
<1>20. PICK v : v = Relevances(sure)
  OBVIOUS
<1>21. \A k \in 1..b : v[k] = w[e[k]]
  BY <1>6, <1>18, <1>19, <1>20 DEF Relevances
<1>22. NumbersOn(C, w) /\ TakenAlong(sure, v, found, w, e, b)
  BY <1>16, <1>18, <1>21 DEF NumbersOn, TakenAlong
<1>23. SortedFrom(Stably(sure, v), found, w, C)
  BY ONLY <1>17, <1>22, StablyIsRow
<1> QED  BY <1>1, <1>13, <1>20, <1>23

\* What the search of the evaluation finds likely, sorted once.
LEMMA LikelySorted ==
    ASSUME NEW found \in Seq(Retrieved), AlikeScored(found),
           NEW g, g = Gather(found), NEW B,
           B = {i \in DOMAIN g : /\ g[i].m.sim >= SimThreshold /\ PassesTwinMargin(g[i].m)
                                 /\ g[i].prob >= RerankT(found)},
           NEW likely, likely = Picked(g, B)
    PROVE  /\ B = ConfirmedOf(found)
           /\ SortedFrom(Stably(likely, Probabilities(likely)), g, Relevances(found), B)
<1>1. PICK n \in Nat : n = Len(found) /\ DOMAIN found = 1..n
  BY RelevancesAre
<1>2. PICK w : w = Relevances(found)
  OBVIOUS
<1>3. /\ DOMAIN g = 1..n
      /\ \A i \in 1..n : g[i].m = found[i] /\ g[i].prob = Relevance(found[i])
  BY <1>1 DEF Gather
<1>4. \A i \in 1..n : w[i] = Relevance(found[i]) /\ w[i] \in Int
  BY <1>1, <1>2, RelevancesAre
<1>5. B = ConfirmedOf(found)
  <2>1. ConfirmedOf(found) = {i \in 1..n : /\ found[i].sim >= SimThreshold /\ PassesTwinMargin(found[i])
                                           /\ found[i].prob # Unscored => found[i].prob >= RerankThreshold}
    BY <1>1 DEF ConfirmedOf, PassingOf
  <2>2. B = {i \in 1..n : /\ found[i].sim >= SimThreshold /\ PassesTwinMargin(found[i])
                          /\ Relevance(found[i]) >= RerankT(found)}
    BY <1>3
  <2>3. ASSUME NEW i \in 1..n, found[i].sim >= SimThreshold
        PROVE  Relevance(found[i]) >= RerankT(found)
                  <=> (found[i].prob # Unscored => found[i].prob >= RerankThreshold)
    <3>1. CASE \A k \in 1..n : found[k].prob # Unscored
      <4>1. RerankT(found) = RerankThreshold
        BY <1>1, <3>1 DEF RerankT
      <4> QED  BY <3>1, <4>1 DEF Relevance
    <3>2. CASE \A k \in 1..n : found[k].prob = Unscored
      <4>1. RerankT(found) = 0
        BY <1>1, <3>2 DEF RerankT
      <4>2. Relevance(found[i]) = found[i].sim
        BY <3>2 DEF Relevance
      <4>3. found[i].sim \in Int /\ SimThreshold \in Nat
        BY <1>1, RelevancesAre, ScoresAssumption
      <4>4. found[i].sim >= 0
        BY <2>3, <4>3
      <4> QED  BY <3>2, <4>1, <4>2, <4>4
    <3>3. (\A k \in 1..n : found[k].prob # Unscored) \/ \A k \in 1..n : found[k].prob = Unscored
      BY <1>1 DEF AlikeScored
    <3> QED  BY <3>1, <3>2, <3>3
  <2> QED  BY <2>1, <2>2, <2>3
<1>6. B \subseteq 1..n
  BY <1>3
<1>7. NumbersOn(B, w)
  BY <1>4, <1>6 DEF NumbersOn
<1>8. PICK v : v = Probabilities(likely)
  OBVIOUS
<1>9. SameWeight(Picked(g, B), v, g, w, B)
  BY <1>3, <1>4, <1>6, <1>8 DEF Probabilities, SameWeight
<1>10. SortedFrom(Stably(Picked(g, B), v), g, w, B)
  BY <1>6, <1>7, <1>9, PickedSorted
<1> QED  BY <1>2, <1>5, <1>8, <1>10

\* The first of what is sorted.
FirstSorted(t, s, w, S, top) ==
    /\ IsFiniteSet(S)
    /\ \E h, m : /\ IsRow(h, w, S) /\ m \in Nat
                 /\ m = (IF top <= Cardinality(S) THEN top ELSE Cardinality(S))
                 /\ t = [k \in 1..m |-> s[h[k]]]

LEMMA FirstOfSorted ==
    ASSUME NEW t, NEW s, NEW w, NEW S, SortedFrom(t, s, w, S), NEW top \in Nat
    PROVE  FirstSorted(FirstOf(t, top), s, w, S, top)
<1>1. PICK h : IsRow(h, w, S) /\ t = [k \in 1..Cardinality(S) |-> s[h[k]]]
  BY DEF SortedFrom
<1>2. PICK n \in Nat : n = Cardinality(S)
  BY <1>1 DEF IsRow
<1>3. DOMAIN t = 1..n /\ \A k \in 1..n : t[k] = s[h[k]]
  BY <1>1, <1>2
<1>4. t = [k \in 1..n |-> t[k]]
  BY <1>1, <1>2, <1>3
<1>5. Begins(t, n, top, FirstOf(t, top))
  BY ONLY <1>3, <1>4, top \in Nat, n \in Nat, FirstOfIs
<1>6. PICK m \in 0..n : m = (IF top <= n THEN top ELSE n) /\ FirstOf(t, top) = [k \in 1..m |-> t[k]]
  BY <1>5 DEF Begins
<1>7. m \in Nat /\ \A k \in 1..m : k \in 1..n
  BY <1>6
<1>8. FirstOf(t, top) = [k \in 1..m |-> s[h[k]]]
  BY <1>3, <1>6, <1>7
<1>9. IsFiniteSet(S)
  BY DEF SortedFrom
<1> QED  BY <1>1, <1>2, <1>6, <1>7, <1>8, <1>9 DEF FirstSorted

\* What the evaluation shows its model is what the program finds.
LEMMA SameMatches ==
    ASSUME NEW found \in Seq(Retrieved), AlikeScored(found),
           NEW shown, shown = OperatingCves(Gather(found), RerankT(found))
    PROVE  /\ [k \in DOMAIN shown |-> shown[k].m] = FindVulnerabilities(found)
           /\ shown # <<>> <=> ConfirmedOf(found) # {}
<1>1. PICK g : g = Gather(found)
  OBVIOUS
<1>2. PICK w : w = Relevances(found)
  OBVIOUS
<1>3. PICK C : C = ConfirmedOf(found)
  OBVIOUS
<1>4. RetrievalTopK \in Nat /\ RetrievalTopK > 0
  BY ScoresAssumption
<1>5. FirstSorted(shown, g, w, C, RetrievalTopK)
  <2>1. PICK B : B = {i \in DOMAIN g : /\ g[i].m.sim >= SimThreshold /\ PassesTwinMargin(g[i].m)
                                       /\ g[i].prob >= RerankT(found)}
    OBVIOUS
  <2>2. PICK likely : likely = Picked(g, B)
    OBVIOUS
  <2>3. PICK t : t = Stably(likely, Probabilities(likely))
    OBVIOUS
  <2>4. B = C /\ SortedFrom(t, g, w, B)
    BY <1>1, <1>2, <1>3, <2>1, <2>2, <2>3, LikelySorted
  <2>5. FirstSorted(FirstOf(t, RetrievalTopK), g, w, C, RetrievalTopK)
    BY <1>4, <2>4, FirstOfSorted
  <2>6. shown = FirstOf(t, RetrievalTopK)
    BY <1>1, <2>1, <2>2, <2>3 DEF OperatingCves
  <2> QED  BY <2>5, <2>6
<1>6. FirstSorted(FindVulnerabilities(found), found, w, C, RetrievalTopK)
  <2>1. PICK near : near = RerankCandidates(found)
    OBVIOUS
  <2>2. PICK B : B = {i \in DOMAIN near : near[i].prob # Unscored => near[i].prob >= RerankThreshold}
    OBVIOUS
  <2>3. PICK sure : sure = Picked(near, B)
    OBVIOUS
  <2>4. PICK t : t = Stably(sure, Relevances(sure))
    OBVIOUS
  <2>5. SortedFrom(t, found, w, C)
    BY <1>2, <1>3, <2>1, <2>2, <2>3, <2>4, ConfirmedSorted
  <2>6. FirstSorted(FirstOf(t, RetrievalTopK), found, w, C, RetrievalTopK)
    BY <1>4, <2>5, FirstOfSorted
  <2>7. FindVulnerabilities(found) = FirstOf(t, RetrievalTopK)
    BY <2>1, <2>2, <2>3, <2>4 DEF FindVulnerabilities
  <2> QED  BY <2>6, <2>7
<1>7. PICK h, m : /\ IsRow(h, w, C) /\ m \in Nat
                  /\ m = (IF RetrievalTopK <= Cardinality(C) THEN RetrievalTopK ELSE Cardinality(C))
                  /\ shown = [k \in 1..m |-> g[h[k]]]
  BY <1>5 DEF FirstSorted
<1>8. PICK r, l : /\ IsRow(r, w, C) /\ l \in Nat
                  /\ l = (IF RetrievalTopK <= Cardinality(C) THEN RetrievalTopK ELSE Cardinality(C))
                  /\ FindVulnerabilities(found) = [k \in 1..l |-> found[r[k]]]
  BY <1>6 DEF FirstSorted
<1>9. C \subseteq 1..Len(found) /\ Len(found) \in Nat /\ DOMAIN found = 1..Len(found)
  BY <1>3, RelevancesAre DEF ConfirmedOf, PassingOf
<1>10. C \subseteq Int /\ IsFiniteSet(C) /\ \A i \in C : w[i] \in Int
  BY <1>2, <1>5, <1>9, RelevancesAre DEF FirstSorted
<1>11. h = r
  BY ONLY <1>7, <1>8, <1>10, OneRow
<1>12. /\ Cardinality(C) \in Nat /\ \A k \in 1..Cardinality(C) : h[k] \in C
       /\ \A x \in C : \E k \in 1..Cardinality(C) : h[k] = x
  BY <1>7 DEF IsRow
<1>13. m = l /\ m <= Cardinality(C)
  BY <1>4, <1>7, <1>8, <1>12
<1>14. \A k \in 1..m : g[h[k]].m = found[h[k]]
  <2>1. \A k \in 1..m : k \in 1..Cardinality(C)
    BY <1>7, <1>12, <1>13
  <2>2. \A k \in 1..m : h[k] \in DOMAIN found
    BY <1>9, <1>12, <2>1
  <2> QED  BY <1>1, <2>2 DEF Gather
<1>15. DOMAIN shown = 1..m /\ \A k \in 1..m : shown[k].m = found[h[k]]
  BY <1>7, <1>14
<1>16. [k \in DOMAIN shown |-> shown[k].m] = FindVulnerabilities(found)
  BY <1>8, <1>11, <1>13, <1>15
<1>17. shown # <<>> <=> m > 0
  <2>1. ASSUME m > 0 PROVE shown # <<>>
    BY <1>7, <1>15, <2>1
  <2>2. ASSUME m = 0 PROVE shown = <<>>
    BY <1>7, <2>2
  <2> QED  BY <1>7, <2>1, <2>2
<1>18. m > 0 <=> C # {}
  <2>1. m > 0 <=> Cardinality(C) > 0
    BY <1>4, <1>7, <1>12
  <2>2. ASSUME C # {} PROVE Cardinality(C) > 0
    <3>1. PICK x \in C : TRUE
      BY <2>2
    <3>2. PICK k \in 1..Cardinality(C) : h[k] = x
      BY <1>12
    <3> QED  BY <1>12, <3>2
  <2>3. ASSUME Cardinality(C) > 0 PROVE C # {}
    <3>1. 1 \in 1..Cardinality(C)
      BY <1>12, <2>3
    <3> QED  BY <1>12, <3>1
  <2> QED  BY <2>1, <2>2, <2>3
<1> QED  BY <1>3, <1>16, <1>17, <1>18

\* The prediction from the best of the probabilities.
LEMMA PredictedIs ==
    ASSUME NEW found \in Seq(Retrieved), AlikeScored(found)
    PROVE  Predicted(Gather(found), RerankT(found)) <=> ConfirmedOf(found) # {}
<1>1. PICK g : g = Gather(found)
  OBVIOUS
<1>2. PICK T \in Int : T = RerankT(found)
  BY ScoresAssumption DEF RerankT
<1>3. PICK n \in Nat : n = Len(found) /\ DOMAIN found = 1..n
  BY RelevancesAre
<1>4. /\ DOMAIN g = 1..n
      /\ \A i \in 1..n : g[i].m = found[i] /\ g[i].prob = Relevance(found[i]) /\ g[i].prob \in Int
  BY <1>1, <1>3, RelevancesAre DEF Gather
<1>5. PICK A : A = {i \in DOMAIN g : g[i].m.sim >= SimThreshold /\ PassesTwinMargin(g[i].m)}
  OBVIOUS
<1>6. PICK P : P = {g[i].prob : i \in A}
  OBVIOUS
<1>7. A \subseteq 1..n
  BY <1>4, <1>5
<1>8. IsFiniteSet(A)
  <2>1. IsFiniteSet(1..n) /\ A \in SUBSET (1..n)
    BY <1>7, Numbers1ToN
  <2> QED  BY <2>1, FS_Subset
<1>9. P \subseteq Int
  BY <1>4, <1>6, <1>7
<1>10. IsFiniteSet(P)
  <2>1. PICK p : p = [i \in A |-> g[i].prob]
    OBVIOUS
  <2>2. P = {p[i] : i \in A}
    BY <1>6, <2>1
  <2> QED  BY <1>8, <2>2, FiniteImage
<1>11. {i \in DOMAIN g : /\ g[i].m.sim >= SimThreshold /\ PassesTwinMargin(g[i].m)
                         /\ g[i].prob >= T} = ConfirmedOf(found)
  <2>1. PICK B : B = {i \in DOMAIN g : /\ g[i].m.sim >= SimThreshold /\ PassesTwinMargin(g[i].m)
                                       /\ g[i].prob >= RerankT(found)}
    OBVIOUS
  <2>2. B = ConfirmedOf(found)
    BY <1>1, <2>1, LikelySorted
  <2> QED  BY <1>2, <2>1, <2>2
<1>12. ConfirmedOf(found) = {i \in A : g[i].prob >= T}
  BY <1>5, <1>11
<1>13. Predicted(g, T) <=> A # {} /\ Max(P) >= T
  BY <1>5, <1>6 DEF Predicted
<1>14. CASE A = {}
  BY <1>1, <1>2, <1>12, <1>13, <1>14
<1>15. CASE A # {}
  <2>1. P # {}
    BY <1>6, <1>15
  <2>2. Max(P) \in P /\ \A y \in P : y <= Max(P)
    BY <1>9, <1>10, <2>1, MaxOfNumbers
  <2>3. Max(P) >= T <=> \E i \in A : g[i].prob >= T
    <3>1. PICK M \in Int : M = Max(P) /\ M \in P /\ \A y \in P : y <= M
      BY <1>9, <2>2
    <3>2. PICK j \in A : g[j].prob = M
      BY <1>6, <3>1
    <3>3. \A i \in A : g[i].prob \in Int /\ g[i].prob <= M
      BY <1>4, <1>6, <1>7, <3>1
    <3> QED  BY <3>1, <3>2, <3>3
  <2> QED  BY <1>1, <1>2, <1>12, <1>13, <1>15, <2>3
<1> QED  BY <1>14, <1>15

LEMMA OperatingPointHolds ==
    ASSUME NEW found \in Seq(Retrieved), AlikeScored(found)
    PROVE  OperatingPoint(found)
<1>1. PICK shown : shown = OperatingCves(Gather(found), RerankT(found))
  OBVIOUS
<1>2. [k \in DOMAIN shown |-> shown[k].m] = FindVulnerabilities(found)
      /\ (shown # <<>> <=> ConfirmedOf(found) # {})
  BY <1>1, SameMatches
<1>3. Predicted(Gather(found), RerankT(found)) <=> ConfirmedOf(found) # {}
  BY PredictedIs
<1> QED  BY <1>1, <1>2, <1>3 DEF OperatingPoint

MaySuggest(cands, S) == {i \in S : Eligible(cands[i])}

LEMMA CandidatesAre ==
    ASSUME NEW cands \in Seq(EvalCandidates)
    PROVE  /\ Len(cands) \in Nat /\ DOMAIN cands = 1..Len(cands)
           /\ \A i \in 1..Len(cands) :
                 /\ cands[i].severity \in Int /\ (cands[i].audit = Unscored \/ cands[i].audit \in Int)
                 /\ cands[i].confidence \in Int /\ AuditRating(cands[i]) \in Int
                 /\ cands[i].verdict \in {"confirmed", "uncertain", "rejected", "none"}
                 /\ cands[i].evidence \in BOOLEAN
                 /\ {"verdict", "confidence", "evidence"} \subseteq DOMAIN cands[i]
                 /\ Urgency(cands)[i] \in Int
<1>1. /\ Len(cands) \in Nat /\ DOMAIN cands = 1..Len(cands)
      /\ \A i \in 1..Len(cands) : cands[i] \in EvalCandidates
  BY LenProperties, ElementOfSeq
<1>2. ASSUME NEW i \in 1..Len(cands)
      PROVE  /\ cands[i].severity \in Int /\ (cands[i].audit = Unscored \/ cands[i].audit \in Int)
             /\ cands[i].confidence \in Int
             /\ cands[i].verdict \in {"confirmed", "uncertain", "rejected", "none"}
             /\ cands[i].evidence \in BOOLEAN
             /\ {"verdict", "confidence", "evidence"} \subseteq DOMAIN cands[i]
  BY <1>1, RecordedAssumption
<1>3. ASSUME NEW i \in 1..Len(cands) PROVE AuditRating(cands[i]) \in Int
  BY <1>2, ScoresAssumption DEF AuditRating
<1>4. ASSUME NEW i \in 1..Len(cands) PROVE Urgency(cands)[i] \in Int
  <2>1. Urgency(cands)[i] = cands[i].severity * 100 + AuditRating(cands[i])
    BY <1>1 DEF Urgency
  <2>2. PICK a \in Int : a = cands[i].severity
    BY <1>2
  <2>3. PICK b \in Int : b = AuditRating(cands[i])
    BY <1>3
  <2> QED  BY <2>1, <2>2, <2>3
<1> QED  BY <1>1, <1>2, <1>3, <1>4

\* The candidates of a review that are verified, and in which order.
VerifiedRow(cands, r, R) ==
    /\ R \subseteq ToVerify(cands) /\ R \subseteq 1..Len(cands) /\ IsFiniteSet(R)
    /\ IsRow(r, Urgency(cands), R) /\ ToSet(r) = R

LEMMA ReviewedIs ==
    ASSUME NEW cands \in Seq(EvalCandidates)
    PROVE  VerifiedRow(cands, Reviewed(cands), ToSet(Reviewed(cands)))
<1>1. PICK n \in Nat : n = Len(cands) /\ DOMAIN cands = 1..n
  BY CandidatesAre
<1>2. PICK S : S = ToVerify(cands)
  OBVIOUS
<1>3. PICK w : w = Urgency(cands)
  OBVIOUS
<1>4. S \subseteq 1..n
  BY <1>1, <1>2 DEF ToVerify
<1>5. S \subseteq Int /\ \A i \in S : w[i] \in Int
  BY <1>1, <1>3, <1>4, CandidatesAre
<1>6. IsFiniteSet(S)
  <2>1. IsFiniteSet(1..n) /\ S \in SUBSET (1..n)
    BY <1>4, Numbers1ToN
  <2> QED  BY <2>1, FS_Subset
<1>7. PICK r : r = HeaviestFirst(S, w)
  OBVIOUS
<1>8. IsRow(r, w, S)
  BY ONLY <1>5, <1>6, <1>7, RankedIsRow
<1>9. MaxVerifierCalls \in Nat
  BY ScoresAssumption
<1>10. PICK t : t = FirstOf(r, MaxVerifierCalls)
  OBVIOUS
<1>11. FirstRow(t, r, w, S, MaxVerifierCalls)
  BY ONLY <1>8, <1>9, <1>10, FirstOfRow
<1>12. PICK m \in 0..Cardinality(S) :
          /\ t = [k \in 1..m |-> r[k]]
          /\ IsRow(t, w, {r[k] : k \in 1..m}) /\ IsFiniteSet({r[k] : k \in 1..m})
  BY <1>11 DEF FirstRow
<1>13. ToSet(t) = {r[k] : k \in 1..m}
  BY <1>12 DEF ToSet
<1>14. Cardinality(S) \in Nat /\ \A k \in 1..Cardinality(S) : r[k] \in S
  BY <1>8 DEF IsRow
<1>15. \A k \in 1..m : r[k] \in S
  BY <1>14
<1>16. t = Reviewed(cands)
  BY <1>2, <1>3, <1>7, <1>10 DEF Reviewed, VerifyOrder
<1>17. {r[k] : k \in 1..m} \subseteq S
  BY <1>15
<1> QED  BY <1>1, <1>2, <1>3, <1>4, <1>12, <1>13, <1>16, <1>17 DEF VerifiedRow

\* What becomes of them: the first of those that may be suggested.
SuggestedRow(cands, t, E) ==
    /\ E \subseteq 1..Len(cands) /\ IsFiniteSet(E)
    /\ \E p : /\ IsRow(p, Urgency(cands), E)
              /\ t = FirstOf(p, MaxSuggestions)
              /\ FirstRow(t, p, Urgency(cands), E, MaxSuggestions)

LEMMA SuggestedIs ==
    ASSUME NEW cands \in Seq(EvalCandidates)
    PROVE  SuggestedRow(cands, Suggested(cands), MaySuggest(cands, ToSet(Reviewed(cands))))
<1>1. PICK r : r = Reviewed(cands)
  OBVIOUS
<1>2. PICK R : R = ToSet(r)
  OBVIOUS
<1>3. PICK w : w = Urgency(cands)
  OBVIOUS
<1>4. R \subseteq 1..Len(cands) /\ IsRow(r, w, R) /\ IsFiniteSet(R)
  BY <1>1, <1>2, <1>3, ReviewedIs DEF VerifiedRow
<1>5. PICK n \in Nat : n = Cardinality(R) /\ DOMAIN r = 1..n
  BY <1>4 DEF IsRow
<1>6. (\A k \in 1..n : r[k] \in R) /\ \A x \in R : \E k \in 1..n : r[k] = x
  BY <1>4, <1>5 DEF IsRow
<1>7. PICK B : B = {k \in DOMAIN r : Eligible(cands[r[k]])}
  OBVIOUS
<1>8. PICK p : p = Picked(r, B)
  OBVIOUS
<1>9. B \subseteq 1..n
  BY <1>5, <1>7
<1>10. PICK q, b : Ascending(q, B, b) /\ p = [k \in 1..b |-> r[q[k]]]
  <2>1. TakenInOrder(p, r, B)
    BY <1>8, <1>9, PickedAre
  <2> QED  BY <2>1 DEF TakenInOrder
<1>11. /\ b \in Nat /\ DOMAIN q = 1..b /\ q = [k \in 1..b |-> q[k]]
       /\ (\A k \in 1..b : q[k] \in B) /\ (\A x \in B : \E k \in 1..b : q[k] = x)
       /\ \A j, k \in 1..b : j < k <=> q[j] < q[k]
  BY <1>10 DEF Ascending
<1>12. PICK E : E = {r[k] : k \in B}
  OBVIOUS
<1>13. IsFiniteSet(E) /\ IsRow(p, w, E)
  <2>1. B \subseteq 1..Cardinality(R)
    BY <1>5, <1>9
  <2>2. LET T == {r[k] : k \in B} IN
        IsFiniteSet(T) /\ Cardinality(T) = b /\ IsRow([k \in 1..b |-> r[q[k]]], w, T)
    BY ONLY <1>4, <1>11, <2>1, PartOfRow, ZenonT(30)
  <2> QED  BY <1>10, <1>12, <2>2
<1>14. E = MaySuggest(cands, R)
  BY <1>5, <1>6, <1>7, <1>12 DEF MaySuggest
<1>15. MaxSuggestions \in Nat
  BY ScoresAssumption
<1>16. PICK t : t = FirstOf(p, MaxSuggestions)
  OBVIOUS
<1>17. FirstRow(t, p, w, E, MaxSuggestions)
  BY ONLY <1>13, <1>15, <1>16, FirstOfRow
<1>18. t = Suggested(cands)
  BY <1>1, <1>7, <1>8, <1>16 DEF Suggested
<1>19. E \subseteq 1..Len(cands)
  BY <1>4, <1>14 DEF MaySuggest
<1> QED  BY <1>1, <1>2, <1>3, <1>13, <1>14, <1>16, <1>17, <1>18, <1>19 DEF SuggestedRow

\* The record of a run says of a candidate what the run did with it.
LEMMA RecordIs ==
    ASSUME NEW cands \in Seq(EvalCandidates), NEW record, record = Recorded(cands),
           NEW R, R = ToSet(Reviewed(cands))
    PROVE  /\ DOMAIN record = 1..Len(cands)
           /\ \A i \in 1..Len(cands) :
                 /\ record[i].bound <=> i \in ToVerify(cands)
                 /\ record[i].c.severity = cands[i].severity /\ record[i].c.audit = cands[i].audit
                 /\ record[i].c.verdict \in {"confirmed", "uncertain", "rejected", "none"}
                 /\ record[i].c.confidence \in Int
                 /\ Eligible(record[i].c) <=> i \in R /\ Eligible(cands[i])
                 /\ i \in R => record[i].c.verdict = cands[i].verdict
                               /\ record[i].c.confidence = cands[i].confidence
                 /\ i \notin R => record[i].c.verdict = "none" /\ ~record[i].c.evidence
<1>1. DOMAIN record = 1..Len(cands)
  BY CandidatesAre DEF Recorded
<1>2. ASSUME NEW i \in 1..Len(cands)
      PROVE  /\ record[i].bound <=> i \in ToVerify(cands)
             /\ record[i].c.severity = cands[i].severity /\ record[i].c.audit = cands[i].audit
             /\ record[i].c.verdict \in {"confirmed", "uncertain", "rejected", "none"}
             /\ record[i].c.confidence \in Int
             /\ Eligible(record[i].c) <=> i \in R /\ Eligible(cands[i])
             /\ i \in R => record[i].c.verdict = cands[i].verdict
                           /\ record[i].c.confidence = cands[i].confidence
             /\ i \notin R => record[i].c.verdict = "none" /\ ~record[i].c.evidence
  <2>1. PICK c : c = cands[i]
    OBVIOUS
  <2>2. /\ c.confidence \in Int /\ c.verdict \in {"confirmed", "uncertain", "rejected", "none"}
        /\ c.evidence \in BOOLEAN /\ {"verdict", "confidence", "evidence"} \subseteq DOMAIN c
        /\ DOMAIN cands = 1..Len(cands)
    BY <2>1, CandidatesAre
  <2>3. PICK d : d = [c EXCEPT !.verdict = IF i \in R THEN @ ELSE "none",
                               !.confidence = IF i \in R THEN @ ELSE 0,
                               !.evidence = @ /\ c.verdict # "rejected" /\ i \in R]
    OBVIOUS
  <2>4. record[i].c = d /\ (record[i].bound <=> i \in ToVerify(cands))
    BY <2>1, <2>2, <2>3 DEF Recorded
  <2>5. /\ d.verdict = (IF i \in R THEN c.verdict ELSE "none")
        /\ d.confidence = (IF i \in R THEN c.confidence ELSE 0)
        /\ d.evidence = (c.evidence /\ c.verdict # "rejected" /\ i \in R)
        /\ d.severity = c.severity /\ d.audit = c.audit
    BY ONLY <2>2, <2>3
  <2>6. CASE i \in R
    <3>1. d.verdict = c.verdict /\ d.confidence = c.confidence /\ (d.evidence <=> c.evidence /\ c.verdict # "rejected")
      BY <2>5, <2>6
    <3>2. Eligible(d) <=> Eligible(c)
      BY <3>1 DEF Eligible
    <3> QED  BY <2>1, <2>2, <2>4, <2>5, <2>6, <3>1, <3>2
  <2>7. CASE i \notin R
    <3>1. d.verdict = "none" /\ d.confidence = 0 /\ ~d.evidence
      BY <2>5, <2>7
    <3>2. ~Eligible(d)
      BY <3>1 DEF Eligible
    <3> QED  BY <2>1, <2>4, <2>5, <2>7, <3>1, <3>2
  <2> QED  BY <2>6, <2>7
<1> QED  BY <1>1, <1>2

\* What each policy keeps.
LEMMA KeepsIs ==
    ASSUME NEW c, NEW k
    PROVE  /\ Keeps(c, "confirmed", k) <=> c.verdict = "confirmed" /\ c.confidence >= k
           /\ Keeps(c, "with_review", k) <=>
                \/ c.verdict = "confirmed" /\ c.confidence >= k
                \/ /\ c.evidence /\ c.confidence >= SuggestFloor
                   /\ c.verdict = "uncertain" \/ (c.verdict = "confirmed" /\ c.confidence < k)
           /\ Keeps(c, "any_confirmed", k) <=> c.verdict = "confirmed"
           /\ Keeps(c, "uncertain", k) <=> c.verdict \in {"confirmed", "uncertain"}
           /\ Keeps(c, "all", k)
<1>1. Keeps(c, "confirmed", k) <=> c.verdict = "confirmed" /\ c.confidence >= k
  BY DEF Keeps
<1>2. Keeps(c, "with_review", k) <=>
        \/ c.verdict = "confirmed" /\ c.confidence >= k
        \/ /\ c.evidence /\ c.confidence >= SuggestFloor
           /\ c.verdict = "uncertain" \/ (c.verdict = "confirmed" /\ c.confidence < k)
  BY DEF Keeps
<1>3. Keeps(c, "any_confirmed", k) <=> c.verdict = "confirmed"
  BY DEF Keeps
<1>4. Keeps(c, "uncertain", k) <=> c.verdict \in {"confirmed", "uncertain"}
  BY DEF Keeps
<1>5. Keeps(c, "all", k)
  BY DEF Keeps
<1> QED  BY <1>1, <1>2, <1>3, <1>4, <1>5

\* The replays of the record at the run's own cutoff.
LEMMA AtOwnCutoff ==
    ASSUME NEW cands \in Seq(EvalCandidates), NEW record, record = Recorded(cands),
           NEW R, R = ToSet(Reviewed(cands))
    PROVE  /\ PolicyFindings(record, "confirmed", MinConfidence) = Reported(cands)
           /\ PolicyFindings(record, "with_review", MinConfidence) = Reported(cands) \cup MaySuggest(cands, R)
<1>1. R \subseteq ToVerify(cands) /\ R \subseteq 1..Len(cands)
  BY ReviewedIs DEF VerifiedRow
<1>2. Reported(cands) = {i \in R : cands[i].verdict = "confirmed" /\ cands[i].confidence >= MinConfidence}
  BY DEF Reported
<1>3. ASSUME NEW i \in 1..Len(cands)
      PROVE  i \in PolicyFindings(record, "confirmed", MinConfidence) <=> i \in Reported(cands)
  <2>1. i \in PolicyFindings(record, "confirmed", MinConfidence)
          <=> i \in ToVerify(cands) /\ record[i].c.verdict = "confirmed" /\ record[i].c.confidence >= MinConfidence
    BY RecordIs, KeepsIs DEF PolicyFindings
  <2>2. CASE i \in R
    BY <1>1, <1>2, <2>1, <2>2, RecordIs
  <2>3. CASE i \notin R
    BY <1>2, <2>1, <2>3, RecordIs
  <2> QED  BY <2>2, <2>3
<1>4. ASSUME NEW i \in 1..Len(cands)
      PROVE  i \in PolicyFindings(record, "with_review", MinConfidence) <=> i \in Reported(cands) \cup MaySuggest(cands, R)
  <2>1. PICK c : c = record[i].c
    OBVIOUS
  <2>2. i \in PolicyFindings(record, "with_review", MinConfidence)
          <=> i \in ToVerify(cands) /\ ((c.verdict = "confirmed" /\ c.confidence >= MinConfidence) \/ Eligible(c))
    <3>1. Keeps(c, "with_review", MinConfidence)
            <=> (c.verdict = "confirmed" /\ c.confidence >= MinConfidence) \/ Eligible(c)
      BY KeepsIs DEF Eligible
    <3> QED  BY <2>1, <3>1, RecordIs DEF PolicyFindings
  <2>3. Eligible(c) <=> i \in R /\ Eligible(cands[i])
    BY <2>1, RecordIs
  <2>4. CASE i \in R
    <3>1. c.verdict = cands[i].verdict /\ c.confidence = cands[i].confidence
      BY <2>1, <2>4, RecordIs
    <3> QED  BY <1>1, <1>2, <2>2, <2>3, <2>4, <3>1 DEF MaySuggest
  <2>5. CASE i \notin R
    <3>1. c.verdict = "none"
      BY <2>1, <2>5, RecordIs
    <3> QED  BY <1>2, <2>2, <2>3, <2>5, <3>1 DEF MaySuggest
  <2> QED  BY <2>4, <2>5
<1>5. /\ PolicyFindings(record, "confirmed", MinConfidence) \subseteq 1..Len(cands)
      /\ PolicyFindings(record, "with_review", MinConfidence) \subseteq 1..Len(cands)
      /\ Reported(cands) \subseteq 1..Len(cands) /\ MaySuggest(cands, R) \subseteq 1..Len(cands)
  BY <1>1, <1>2, RecordIs DEF PolicyFindings, MaySuggest
<1> QED  BY <1>3, <1>4, <1>5

\* A wider policy keeps more.
LEMMA WiderKeepsMore ==
    ASSUME NEW cands \in Seq(EvalCandidates), NEW record, record = Recorded(cands)
    PROVE  /\ \A k \in 2..10 :
                 /\ PolicyFindings(record, "confirmed", k) \subseteq PolicyFindings(record, "confirmed", k - 1)
                 /\ PolicyFindings(record, "confirmed", k) \subseteq PolicyFindings(record, "with_review", k)
                 /\ PolicyFindings(record, "with_review", k) \subseteq PolicyFindings(record, "uncertain", k)
           /\ PolicyFindings(record, "any_confirmed", 0) \subseteq PolicyFindings(record, "uncertain", 0)
           /\ \A k : PolicyFindings(record, "uncertain", k) \subseteq PolicyFindings(record, "all", 0)
<1>1. \A i \in DOMAIN record : record[i].c.confidence \in Int
  <2>1. PICK R : R = ToSet(Reviewed(cands))
    OBVIOUS
  <2> QED  BY <2>1, RecordIs
<1>2. ASSUME NEW k \in 2..10
      PROVE  PolicyFindings(record, "confirmed", k) \subseteq PolicyFindings(record, "confirmed", k - 1)
  <2>1. ASSUME NEW i \in DOMAIN record, Keeps(record[i].c, "confirmed", k)
        PROVE  Keeps(record[i].c, "confirmed", k - 1)
    <3>1. PICK v \in Int : v = record[i].c.confidence
      BY <1>1
    <3>2. record[i].c.verdict = "confirmed" /\ v >= k
      BY <2>1, <3>1, KeepsIs
    <3>3. v >= k - 1
      BY <3>2
    <3> QED  BY <3>1, <3>2, <3>3, KeepsIs
  <2> QED  BY <2>1 DEF PolicyFindings
<1>3. ASSUME NEW k
      PROVE  PolicyFindings(record, "confirmed", k) \subseteq PolicyFindings(record, "with_review", k)
  <2>1. \A i \in DOMAIN record : Keeps(record[i].c, "confirmed", k) => Keeps(record[i].c, "with_review", k)
    BY KeepsIs
  <2> QED  BY <2>1 DEF PolicyFindings
<1>4. ASSUME NEW k
      PROVE  PolicyFindings(record, "with_review", k) \subseteq PolicyFindings(record, "uncertain", k)
  <2>1. \A i \in DOMAIN record : Keeps(record[i].c, "with_review", k) => Keeps(record[i].c, "uncertain", k)
    BY KeepsIs
  <2> QED  BY <2>1 DEF PolicyFindings
<1>5. ASSUME NEW k
      PROVE  PolicyFindings(record, "any_confirmed", k) \subseteq PolicyFindings(record, "uncertain", k)
  <2>1. \A i \in DOMAIN record : Keeps(record[i].c, "any_confirmed", k) => Keeps(record[i].c, "uncertain", k)
    BY KeepsIs
  <2> QED  BY <2>1 DEF PolicyFindings
<1>6. ASSUME NEW k PROVE PolicyFindings(record, "uncertain", k) \subseteq PolicyFindings(record, "all", 0)
  <2>1. \A i \in DOMAIN record : Keeps(record[i].c, "all", 0)
    BY KeepsIs
  <2> QED  BY <2>1 DEF PolicyFindings
<1> QED  BY <1>2, <1>3, <1>4, <1>5, <1>6

\* The old record's worth-a-look items are those of the run when every candidate has a rating.
LEMMA ReplayedIsSuggested ==
    ASSUME NEW cands \in Seq(EvalCandidates), \A i \in DOMAIN cands : cands[i].audit # Unscored
    PROVE  Replayed(Recorded(cands)) = Suggested(cands)
<1>1. PICK record : record = Recorded(cands)
  OBVIOUS
<1>2. PICK R : R = ToSet(Reviewed(cands))
  OBVIOUS
<1>3. PICK w : w = Urgency(cands)
  OBVIOUS
<1>4. PICK n \in Nat : n = Len(cands) /\ DOMAIN cands = 1..n
  BY CandidatesAre
<1>5. PICK E : E = MaySuggest(cands, R)
  OBVIOUS
<1>6. R \subseteq ToVerify(cands) /\ R \subseteq 1..n
  BY <1>2, <1>4, ReviewedIs DEF VerifiedRow
<1>7. /\ DOMAIN record = 1..n
      /\ \A i \in 1..n : /\ record[i].bound <=> i \in ToVerify(cands)
                         /\ Eligible(record[i].c) <=> i \in R /\ Eligible(cands[i])
                         /\ record[i].c.severity = cands[i].severity /\ record[i].c.audit = cands[i].audit
  BY <1>1, <1>2, <1>4, RecordIs
<1>8. E = {i \in DOMAIN record : record[i].bound /\ Eligible(record[i].c)}
  BY <1>5, <1>6, <1>7 DEF MaySuggest
<1>9. PICK v : v = [i \in DOMAIN record |-> record[i].c.severity * 100 + OldRating(record[i].c)]
  OBVIOUS
<1>10. \A i \in E : v[i] = w[i] /\ w[i] \in Int
  <2>1. ASSUME NEW i \in E PROVE v[i] = w[i] /\ w[i] \in Int
    <3>1. i \in 1..n
      BY <1>7, <1>8
    <3>2. OldRating(record[i].c) = cands[i].audit /\ AuditRating(cands[i]) = cands[i].audit
      BY <1>4, <1>7, <3>1 DEF OldRating, AuditRating
    <3>3. v[i] = cands[i].severity * 100 + cands[i].audit
      BY <1>7, <1>9, <3>1, <3>2
    <3>4. w[i] = cands[i].severity * 100 + cands[i].audit
      BY <1>3, <1>4, <3>1, <3>2 DEF Urgency
    <3> QED  BY <1>3, <1>4, <3>1, <3>3, <3>4, CandidatesAre
  <2> QED  BY <2>1
<1>11. /\ E \subseteq 1..n /\ IsFiniteSet(E)
       /\ \E p : IsRow(p, w, E) /\ Suggested(cands) = FirstOf(p, MaxSuggestions)
  BY <1>2, <1>3, <1>4, <1>5, SuggestedIs DEF SuggestedRow
<1>12. PICK p : IsRow(p, w, E) /\ Suggested(cands) = FirstOf(p, MaxSuggestions)
  BY <1>11
<1>13. PICK q : q = HeaviestFirst(E, v)
  OBVIOUS
<1>14. E \subseteq Int /\ IsFiniteSet(E) /\ (\A i \in E : v[i] \in Int) /\ \A i \in E : w[i] \in Int
  BY <1>10, <1>11
<1>15. IsRow(q, v, E)
  BY ONLY <1>13, <1>14, RankedIsRow
<1>16. IsRow(q, w, E)
  <2>1. \A i \in E : w[i] = v[i]
    BY <1>10
  <2> QED  BY ONLY <1>15, <2>1, SameWeights
<1>17. q = p
  BY ONLY <1>12, <1>14, <1>16, OneRow
<1>18. Replayed(record) = FirstOf(q, MaxSuggestions)
  BY <1>8, <1>9, <1>13 DEF Replayed
<1> QED  BY <1>1, <1>12, <1>17, <1>18

\* The suggested are of those that may be, and all of them when there is room.
LEMMA SuggestedAre ==
    ASSUME NEW cands \in Seq(EvalCandidates), NEW E, E = MaySuggest(cands, ToSet(Reviewed(cands)))
    PROVE  /\ ToSet(Suggested(cands)) \subseteq E
           /\ Cardinality(ToSet(Suggested(cands))) < MaxSuggestions => ToSet(Suggested(cands)) = E
<1>1. PICK t : t = Suggested(cands)
  OBVIOUS
<1>2. PICK w : w = Urgency(cands)
  OBVIOUS
<1>3. PICK p : IsRow(p, w, E) /\ FirstRow(t, p, w, E, MaxSuggestions)
  BY <1>1, <1>2, SuggestedIs DEF SuggestedRow
<1>4. PICK m \in 0..Cardinality(E) :
        /\ m = (IF MaxSuggestions <= Cardinality(E) THEN MaxSuggestions ELSE Cardinality(E))
        /\ t = [k \in 1..m |-> p[k]]
        /\ Cardinality({p[k] : k \in 1..m}) = m
  BY <1>3 DEF FirstRow
<1>5. ToSet(t) = {p[k] : k \in 1..m}
  BY <1>4 DEF ToSet
<1>6. /\ Cardinality(E) \in Nat /\ \A k \in 1..Cardinality(E) : p[k] \in E
      /\ \A x \in E : \E k \in 1..Cardinality(E) : p[k] = x
  BY <1>3 DEF IsRow
<1>7. ToSet(t) \subseteq E
  <2>1. \A k \in 1..m : p[k] \in E
    BY <1>6
  <2> QED  BY <1>5, <2>1
<1>8. ASSUME Cardinality(ToSet(t)) < MaxSuggestions PROVE ToSet(t) = E
  <2>1. m < MaxSuggestions /\ MaxSuggestions \in Nat
    BY <1>4, <1>5, <1>8, ScoresAssumption
  <2>2. m = Cardinality(E)
    BY <1>4, <1>6, <2>1
  <2> QED  BY <1>5, <1>6, <1>7, <2>2
<1> QED  BY <1>1, <1>7, <1>8

LEMMA PoliciesReplayHolds ==
    ASSUME NEW cands \in Seq(EvalCandidates)
    PROVE  PoliciesReplay(cands)
<1>1. PICK record : record = Recorded(cands)
  OBVIOUS
<1>2. PICK E : E = MaySuggest(cands, ToSet(Reviewed(cands)))
  OBVIOUS
<1>3. PICK suggested : suggested = ToSet(Suggested(cands))
  OBVIOUS
<1>4. /\ PolicyFindings(record, "confirmed", MinConfidence) = Reported(cands)
      /\ PolicyFindings(record, "with_review", MinConfidence) = Reported(cands) \cup E
  BY <1>1, <1>2, AtOwnCutoff
<1>5. suggested \subseteq E /\ (Cardinality(suggested) < MaxSuggestions => suggested = E)
  BY <1>2, <1>3, SuggestedAre
<1>6. (\A i \in DOMAIN cands : cands[i].audit # Unscored) => Replayed(record) = Suggested(cands)
  BY <1>1, ReplayedIsSuggested
<1>7. /\ \A k \in 2..10 :
            /\ PolicyFindings(record, "confirmed", k) \subseteq PolicyFindings(record, "confirmed", k - 1)
            /\ PolicyFindings(record, "confirmed", k) \subseteq PolicyFindings(record, "with_review", k)
            /\ PolicyFindings(record, "with_review", k) \subseteq PolicyFindings(record, "uncertain", k)
      /\ PolicyFindings(record, "any_confirmed", 0) \subseteq PolicyFindings(record, "uncertain", 0)
      /\ PolicyFindings(record, "uncertain", 0) \subseteq PolicyFindings(record, "all", 0)
  BY <1>1, WiderKeepsMore
<1>8. Reported(cands) \cup suggested \subseteq PolicyFindings(record, "with_review", MinConfidence)
  BY <1>4, <1>5
<1>9. Cardinality(suggested) < MaxSuggestions
        => PolicyFindings(record, "with_review", MinConfidence) = Reported(cands) \cup suggested
  BY <1>4, <1>5
<1> QED  BY <1>1, <1>3, <1>4, <1>6, <1>7, <1>8, <1>9 DEF PoliciesReplay

\* The levels of a set of findings, and of a smaller one.
LEMMA LevelsWiden ==
    ASSUME NEW truth, NEW fs, NEW gs, fs \subseteq gs
    PROVE  /\ \A n \in 1..3 : Levels(truth, fs)[n] => Levels(truth, fs)[n + 1]
           /\ \A n \in 1..4 : Levels(truth, fs)[n] => Levels(truth, gs)[n]
<1> DEFINE first(S) == Localised(truth, S)
           second(S) == first(S) \/ OnAnchor(truth, S)
           third(S) == second(S) \/ InFunction(truth, S)
           some(S) == S # {}
<1>1. ASSUME NEW S PROVE /\ Levels(truth, S)[1] = first(S) /\ Levels(truth, S)[2] = second(S)
                         /\ Levels(truth, S)[3] = third(S) /\ Levels(truth, S)[4] = some(S)
  BY DEF Levels
<1>2. ASSUME NEW S PROVE /\ first(S) => second(S)
                         /\ second(S) => third(S)
                         /\ third(S) => some(S)
  BY DEF Localised, OnAnchor, InFunction
<1>3. /\ first(fs) => first(gs)
      /\ second(fs) => second(gs)
      /\ third(fs) => third(gs)
      /\ some(fs) => some(gs)
  BY DEF Localised, OnAnchor, InFunction
<1> HIDE DEF first, second, third, some
<1>4. ASSUME NEW n \in 1..3 PROVE Levels(truth, fs)[n] => Levels(truth, fs)[n + 1]
  <2>1. CASE n = 1
    BY <1>1, <1>2, <2>1
  <2>2. CASE n = 2
    BY <1>1, <1>2, <2>2
  <2>3. CASE n = 3
    BY <1>1, <1>2, <2>3
  <2> QED  BY <2>1, <2>2, <2>3
<1>5. ASSUME NEW n \in 1..4 PROVE Levels(truth, fs)[n] => Levels(truth, gs)[n]
  <2>1. CASE n = 1
    BY <1>1, <1>3, <2>1
  <2>2. CASE n = 2
    BY <1>1, <1>3, <2>2
  <2>3. CASE n = 3
    BY <1>1, <1>3, <2>3
  <2>4. CASE n = 4
    BY <1>1, <1>3, <2>4
  <2> QED  BY <2>1, <2>2, <2>3, <2>4
<1> QED  BY <1>4, <1>5

LEMMA LevelsNestHolds ==
    ASSUME NEW truth, NEW cands \in Seq(EvalCandidates)
    PROVE  LevelsNest(truth, cands)
<1> DEFINE F(S) == {cands[i].finding : i \in S}
           at(S) == Levels(truth, F(S))
<1>1. PICK record : record = Recorded(cands)
  OBVIOUS
<1>2. PICK a, b, c, d : /\ a = Reported(cands)
                        /\ b = Reported(cands) \cup ToSet(Suggested(cands))
                        /\ c = PolicyFindings(record, "all", 0)
                        /\ d = DOMAIN cands
  OBVIOUS
<1>3. a \subseteq b
  BY <1>2
<1>4. b \subseteq c
  <2>1. PICK E : E = MaySuggest(cands, ToSet(Reviewed(cands)))
    OBVIOUS
  <2>2. PolicyFindings(record, "with_review", MinConfidence) = Reported(cands) \cup E
        /\ ToSet(Suggested(cands)) \subseteq E
    BY <1>1, <2>1, AtOwnCutoff, SuggestedAre
  <2>3. PolicyFindings(record, "with_review", MinConfidence) \subseteq c
    <3>1. \A i \in DOMAIN record : Keeps(record[i].c, "all", 0)
      BY KeepsIs
    <3> QED  BY <1>2, <3>1 DEF PolicyFindings
  <2> QED  BY <1>2, <2>2, <2>3
<1>5. c \subseteq d
  BY <1>1, <1>2 DEF PolicyFindings, Recorded
<1>6. PICK views : views = <<a, b, c, d>>
  OBVIOUS
<1>7. F(a) \subseteq F(b) /\ F(b) \subseteq F(c) /\ F(c) \subseteq F(d)
  BY <1>3, <1>4, <1>5
<1>8. DOMAIN views = 1..4 /\ views[1] = a /\ views[2] = b /\ views[3] = c /\ views[4] = d
  BY <1>6
<1> HIDE DEF F
<1>9. ASSUME NEW v \in DOMAIN views, NEW n \in 1..3 PROVE at(views[v])[n] => at(views[v])[n + 1]
  <2>1. PICK S : S = F(views[v])
    OBVIOUS
  <2>2. S \subseteq S
    OBVIOUS
  <2> QED  BY <2>1, <2>2, LevelsWiden
<1>10. ASSUME NEW v \in 1..3, NEW n \in 1..4 PROVE at(views[v])[n] => at(views[v + 1])[n]
  <2>1. F(views[v]) \subseteq F(views[v + 1])
    <3>1. CASE v = 1
      BY <1>7, <1>8, <3>1
    <3>2. CASE v = 2
      BY <1>7, <1>8, <3>2
    <3>3. CASE v = 3
      BY <1>7, <1>8, <3>3
    <3> QED  BY <3>1, <3>2, <3>3
  <2> QED  BY <2>1, LevelsWiden
<1> QED  BY <1>1, <1>2, <1>6, <1>9, <1>10 DEF LevelsNest, F

------------------------------------------------------------------------------
(* What a scan reports (Semgrep.tla), and where what a finding quotes is   *)
(* found (Evidence.tla).                                                   *)

\* Units of a file, with lines numbered from 1.
IsUnits(units, n) ==
    /\ n \in Nat /\ DOMAIN units = 1..n
    /\ \A i \in 1..n : units[i].first \in Nat \ {0} /\ units[i].lines \in Nat

\* A snippet's file has the lines of the unit where they are in the whole file, and nothing else.
LEMMA SnippetLines ==
    ASSUME NEW u, u.first \in Nat \ {0}, u.lines \in Nat
    PROVE  /\ UnitSpan(u) \subseteq DOMAIN BuildTargetSource(u)
           /\ DOMAIN BuildTargetSource(u) \subseteq Nat \ {0}
           /\ \A k \in DOMAIN BuildTargetSource(u) :
                 BuildTargetSource(u)[k] = IF k \in UnitSpan(u) THEN k ELSE 0
<1> DEFINE pre == IF u.first >= 2 THEN [k \in 1..(u.first - 2) |-> 0] \o <<0>> ELSE <<>>
           code == [k \in 1..u.lines |-> u.first + k - 1]
           post == IF u.wrapper = "class" THEN <<0>> ELSE <<>>
           b == BuildTargetSource(u)
<1>1. PICK f \in Nat : f = u.first /\ f >= 1
  OBVIOUS
<1>2. PICK n \in Nat : n = u.lines
  OBVIOUS
<1>3. pre \in Seq(Int) /\ Len(pre) = f - 1 /\ \A k \in 1..(f - 1) : pre[k] = 0
  <2>1. CASE f >= 2
    <3>1. PICK m \in Nat : m = f - 2
      BY <2>1
    <3>2. PICK z : z = [k \in 1..m |-> 0]
      OBVIOUS
    <3>3. z \in Seq(Int) /\ Len(z) = m /\ \A k \in 1..m : z[k] = 0
      <4>1. DOMAIN z = 1..m /\ \A k \in 1..m : z[k] = 0
        BY <3>2
      <4>2. z \in [1..m -> Int]
        BY <3>2
      <4> QED  BY <4>1, <4>2, LenProperties
    <3>4. pre = z \o <<0>>
      BY <1>1, <2>1, <3>1, <3>2
    <3>5. <<0>> \in Seq(Int) /\ Len(<<0>>) = 1 /\ <<0>>[1] = 0
      OBVIOUS
    <3>6. /\ z \o <<0>> \in Seq(Int) /\ Len(z \o <<0>>) = m + 1
          /\ \A k \in 1..(m + 1) : (z \o <<0>>)[k] = IF k <= m THEN z[k] ELSE <<0>>[k - m]
      BY <3>3, <3>5, ConcatProperties
    <3>7. \A k \in 1..(m + 1) : (z \o <<0>>)[k] = 0
      <4>1. ASSUME NEW k \in 1..(m + 1) PROVE (z \o <<0>>)[k] = 0
        <5>1. k <= m \/ k - m = 1
          OBVIOUS
        <5> QED  BY <3>3, <3>5, <3>6, <5>1
      <4> QED  BY <4>1
    <3>8. m + 1 = f - 1
      BY <3>1
    <3> QED  BY <3>4, <3>6, <3>7, <3>8
  <2>2. CASE f = 1
    <3>1. pre = <<>>
      BY <1>1, <2>2
    <3> QED  BY <2>2, <3>1
  <2> QED  BY <1>1, <2>1, <2>2
<1>4. code \in Seq(Int) /\ Len(code) = n /\ \A k \in 1..n : code[k] = f + k - 1
  <2>1. PICK z : z = [k \in 1..n |-> f + k - 1]
    OBVIOUS
  <2>2. DOMAIN z = 1..n /\ (\A k \in 1..n : z[k] = f + k - 1) /\ z \in [1..n -> Int]
    BY <2>1
  <2>3. z \in Seq(Int) /\ Len(z) = n
    BY <2>2, LenProperties
  <2> QED  BY <1>1, <1>2, <2>1, <2>2, <2>3
<1>5. PICK l \in 0..1 : post \in Seq(Int) /\ Len(post) = l /\ \A k \in 1..l : post[k] = 0
  <2>1. CASE u.wrapper = "class"
    <3>1. post = <<0>> /\ <<0>> \in Seq(Int) /\ Len(<<0>>) = 1 /\ \A k \in 1..1 : <<0>>[k] = 0
      BY <2>1
    <3> QED  BY <3>1
  <2>2. CASE u.wrapper # "class"
    <3>1. post = <<>> /\ <<>> \in Seq(Int) /\ Len(<<>>) = 0
      BY <2>2
    <3> QED  BY <3>1
  <2> QED  BY <2>1, <2>2
<1>6. b = (pre \o code) \o post
  BY DEF BuildTargetSource
<1> HIDE DEF pre, code, post, b
<1>7. PICK c : c = pre \o code
  OBVIOUS
<1>15. PICK e \in Nat : e = f - 1
  BY <1>1
<1>9. PICK m \in Nat : m = e + n
  OBVIOUS
<1>8. /\ c \in Seq(Int) /\ Len(c) = m
      /\ \A k \in 1..m : c[k] = IF k <= e THEN pre[k] ELSE code[k - e]
  <2>1. pre \in Seq(Int) /\ code \in Seq(Int) /\ Len(pre) = e /\ Len(code) = n
    BY <1>3, <1>4, <1>15
  <2>2. /\ pre \o code \in Seq(Int) /\ Len(pre \o code) = e + n
        /\ \A k \in 1..(e + n) : (pre \o code)[k] = IF k <= e THEN pre[k] ELSE code[k - e]
    BY <2>1, ConcatProperties, ZenonT(30)
  <2> QED  BY <1>7, <1>9, <2>2
<1>10. /\ b \in Seq(Int) /\ Len(b) = m + l
       /\ \A k \in 1..(m + l) : b[k] = IF k <= m THEN c[k] ELSE post[k - m]
  <2>1. c \in Seq(Int) /\ post \in Seq(Int) /\ Len(c) = m /\ Len(post) = l
    BY <1>5, <1>8
  <2>2. /\ c \o post \in Seq(Int) /\ Len(c \o post) = m + l
        /\ \A k \in 1..(m + l) : (c \o post)[k] = IF k <= m THEN c[k] ELSE post[k - m]
    BY <2>1, ConcatProperties
  <2> QED  BY <1>6, <1>7, <2>2
<1>11. DOMAIN b = 1..(m + l)
  BY <1>10, LenProperties
<1>12. UnitSpan(u) = f..m
  <2>1. f + n - 1 = m
    BY <1>9, <1>15
  <2> QED  BY <1>1, <1>2, <2>1 DEF UnitSpan
<1>13. ASSUME NEW k \in 1..(m + l) PROVE b[k] = IF k \in f..m THEN k ELSE 0
  <2>1. CASE k < f
    <3>1. k \in 1..(f - 1) /\ k <= m /\ k \in 1..m /\ k <= e /\ k \notin f..m
      BY <1>1, <1>9, <1>15, <2>1
    <3>2. b[k] = pre[k]
      BY <1>8, <1>10, <3>1
    <3> QED  BY <1>3, <3>1, <3>2
  <2>2. CASE k \in f..m
    <3>1. k <= m /\ k \in 1..m /\ ~(k <= e) /\ k - e \in 1..n
      BY <1>1, <1>9, <1>15, <2>2
    <3>2. b[k] = code[k - e]
      BY <1>8, <1>10, <3>1
    <3>3. code[k - e] = f + (k - e) - 1
      BY <1>4, <3>1
    <3> QED  BY <1>15, <2>2, <3>2, <3>3
  <2>3. CASE k > m
    <3>1. ~(k <= m) /\ k - m \in 1..l /\ k \notin f..m
      BY <2>3
    <3> QED  BY <1>5, <1>10, <3>1
  <2> QED  BY <2>1, <2>2, <2>3
<1>14. f..m \subseteq 1..(m + l)
  BY <1>1
<1> QED  BY <1>11, <1>12, <1>13, <1>14 DEF b

\* Unit i is of the target and has the line.
HasLine(units, t, line, i) == i \in DOMAIN units /\ TargetOf(units, i) = t /\ line \in UnitSpan(units[i])

\* Unit j is further in than unit i.
Inner(units, j, i) ==
    units[j].lines < units[i].lines \/ (units[j].lines = units[i].lines /\ j < i)

\* Of the units that have a line one is the innermost.
LEMMA OwnerFound ==
    ASSUME NEW units, NEW n, IsUnits(units, n), NEW t, NEW line, NEW in,
           in = {j \in DOMAIN units : TargetOf(units, j) = t /\ line \in UnitSpan(units[j])}
    PROVE  IF in = {} THEN Owner(units, t, line) = 0
           ELSE /\ Owner(units, t, line) \in in
                /\ \A j \in in : ~Inner(units, j, Owner(units, t, line))
<1>1. n \in Nat /\ in \subseteq 1..n /\ \A j \in in : j \in Nat /\ units[j].lines \in Nat
  BY DEF IsUnits
<1>2. Owner(units, t, line) = IF in = {} THEN 0
         ELSE CHOOSE k \in in : \A j \in in : \/ units[k].lines < units[j].lines
                                              \/ units[k].lines = units[j].lines /\ k <= j
  BY DEF Owner
<1>3. ASSUME NEW j \in in, NEW k \in in
      PROVE  (\/ units[k].lines < units[j].lines
              \/ units[k].lines = units[j].lines /\ k <= j) <=> ~Inner(units, j, k)
  BY <1>1 DEF Inner
<1>4. ASSUME in # {}
      PROVE  \E k \in in : \A j \in in : \/ units[k].lines < units[j].lines
                                         \/ units[k].lines = units[j].lines /\ k <= j
  <2>1. PICK T : T = {units[j].lines : j \in in}
    OBVIOUS
  <2>2. T \subseteq Nat /\ T # {}
    BY <1>1, <1>4, <2>1
  <2>3. PICK x \in T : \A y \in T : x <= y
    BY <2>2, LeastOfSome
  <2>4. PICK Q : Q = {j \in in : units[j].lines = x}
    OBVIOUS
  <2>5. Q \subseteq Nat /\ Q # {}
    BY ONLY <1>1, <2>1, <2>3, <2>4
  <2>6. PICK k \in Q : \A j \in Q : k <= j
    BY <2>5, LeastOfSome
  <2>7. ASSUME NEW j \in in
        PROVE  units[k].lines < units[j].lines \/ (units[k].lines = units[j].lines /\ k <= j)
    <3>1. units[k].lines = x /\ x <= units[j].lines /\ units[j].lines \in Nat /\ x \in Nat
      BY ONLY <1>1, <2>1, <2>2, <2>3, <2>4, <2>6, <2>7
    <3>2. CASE units[j].lines = x
      <4>1. k <= j
        BY ONLY <2>4, <2>6, <2>7, <3>2
      <4> QED  BY <3>1, <3>2, <4>1
    <3>3. CASE units[j].lines # x
      BY <3>1, <3>3
    <3> QED  BY <3>2, <3>3
  <2> QED  BY <2>4, <2>7
<1>5. CASE in = {}
  BY <1>2, <1>5
<1>6. CASE in # {}
  <2>1. PICK o : o = Owner(units, t, line)
    OBVIOUS
  <2>2. o \in in /\ \A j \in in : \/ units[o].lines < units[j].lines
                                  \/ units[o].lines = units[j].lines /\ o <= j
    BY ONLY <1>2, <1>4, <1>6, <2>1
  <2>3. \A j \in in : ~Inner(units, j, o)
    BY <1>3, <2>2
  <2> QED  BY <1>6, <2>1, <2>2, <2>3
<1> QED  BY <1>5, <1>6

\* The owner of a line is the innermost unit that has it.
LEMMA OwnerIs ==
    ASSUME NEW units, NEW n, IsUnits(units, n), NEW t, NEW line, NEW i \in 1..n
    PROVE  Owner(units, t, line) = i
              <=> /\ HasLine(units, t, line, i)
                  /\ ~\E j \in 1..n : HasLine(units, t, line, j) /\ Inner(units, j, i)
<1>1. n \in Nat /\ DOMAIN units = 1..n /\ \A j \in 1..n : units[j].lines \in Nat
  BY DEF IsUnits
<1>2. PICK in : in = {j \in DOMAIN units : TargetOf(units, j) = t /\ line \in UnitSpan(units[j])}
  OBVIOUS
<1>3. in \subseteq 1..n /\ \A j \in 1..n : j \in in <=> HasLine(units, t, line, j)
  BY <1>1, <1>2 DEF HasLine
<1>4. IF in = {} THEN Owner(units, t, line) = 0
      ELSE Owner(units, t, line) \in in /\ \A j \in in : ~Inner(units, j, Owner(units, t, line))
  BY <1>2, OwnerFound
<1>5. ASSUME NEW j \in in, NEW k \in in PROVE j = k \/ Inner(units, j, k) \/ Inner(units, k, j)
  <2>0. j \in 1..n /\ k \in 1..n
    BY ONLY <1>3
  <2>1. units[j].lines \in Nat /\ units[k].lines \in Nat /\ j \in Nat /\ k \in Nat
    BY ONLY <1>1, <2>0
  <2> QED  BY <2>1 DEF Inner
<1>6. CASE in = {}
  BY <1>3, <1>4, <1>6
<1>7. CASE in # {}
  <2>1. PICK o : o = Owner(units, t, line) /\ o \in in /\ \A j \in in : ~Inner(units, j, o)
    BY <1>4, <1>7
  <2>2. ASSUME o = i
        PROVE  HasLine(units, t, line, i) /\ ~\E j \in 1..n : HasLine(units, t, line, j) /\ Inner(units, j, i)
    BY <1>3, <2>1, <2>2
  <2>3. ASSUME HasLine(units, t, line, i), ~\E j \in 1..n : HasLine(units, t, line, j) /\ Inner(units, j, i)
        PROVE  o = i
    <3>1. i \in in /\ \A j \in in : ~Inner(units, j, i)
      BY <1>3, <2>3
    <3> QED  BY <1>5, <2>1, <3>1
  <2> QED  BY <2>1, <2>2, <2>3
<1> QED  BY <1>6, <1>7

\* A line has an owner or none.
LEMMA OwnerOrNone ==
    ASSUME NEW units, NEW n, IsUnits(units, n), NEW t, NEW line, Owner(units, t, line) # 0
    PROVE  Owner(units, t, line) \in 1..n
<1>1. PICK in : in = {j \in DOMAIN units : TargetOf(units, j) = t /\ line \in UnitSpan(units[j])}
  OBVIOUS
<1>2. in \subseteq 1..n
  BY <1>1 DEF IsUnits
<1>3. in # {} /\ Owner(units, t, line) \in in
  BY <1>1, OwnerFound
<1> QED  BY <1>2, <1>3

\* Weaknesses of a file.
IsWeak(weak) == \A w \in weak : w.line \in Nat \ {0} /\ w.end \in Int

\* What is reported has the line of a weakness, or is a line of a wrapper.
LineReported(units, weak, r) ==
    \/ \E w \in weak : /\ r = [target |-> r.target, line |-> w.line, end |-> w.end, rule |-> w.rule]
    \/ r.target # 0 /\ r.line \notin UnitSpan(units[r.target])

\* What the engine reports of a file.
LEMMA ReportsAre ==
    ASSUME NEW units, NEW n, IsUnits(units, n), NEW weak, IsWeak(weak)
    PROVE  /\ \A r \in EngineReports(units, weak) :
                 /\ r.target \in Scanned(units) /\ r.line \in Nat /\ r.end \in Int
                 /\ LineReported(units, weak, r)
           /\ \A t \in Scanned(units), w \in weak :
                 t = 0 \/ w.line \in UnitSpan(units[t])
                    => [target |-> t, line |-> w.line, end |-> w.end, rule |-> w.rule] \in EngineReports(units, weak)
<1> DEFINE lineIn(t, l) == IF t = 0 THEN {l}
                  ELSE {k \in DOMAIN BuildTargetSource(units[t]) : BuildTargetSource(units[t])[k] = l}
           of(t) == UNION {{[target |-> t, line |-> k, end |-> k + w.end - w.line, rule |-> w.rule] :
                            k \in lineIn(t, w.line)} : w \in weak}
           wrappers(t) == IF t = 0 THEN {}
                  ELSE {[target |-> t, line |-> k, end |-> k, rule |-> "wrapper"] :
                           k \in {j \in DOMAIN BuildTargetSource(units[t]) : BuildTargetSource(units[t])[j] = 0}}
<1>1. EngineReports(units, weak) = UNION {of(t) \cup wrappers(t) : t \in Scanned(units)}
  BY DEF EngineReports
<1>2. ASSUME NEW t \in Scanned(units), t # 0
      PROVE  /\ t \in 1..n /\ UnitSpan(units[t]) \subseteq DOMAIN BuildTargetSource(units[t])
             /\ UnitSpan(units[t]) \subseteq Nat \ {0}
             /\ DOMAIN BuildTargetSource(units[t]) \subseteq Nat \ {0}
             /\ \A k \in DOMAIN BuildTargetSource(units[t]) :
                   BuildTargetSource(units[t])[k] = IF k \in UnitSpan(units[t]) THEN k ELSE 0
  <2>1. t \in 1..n
    <3>1. PICK i \in DOMAIN units : TargetOf(units, i) = t
      BY DEF Scanned
    <3>2. t # NotScanned
      BY DEF Scanned, Targets
    <3> QED  BY <1>2, <3>1, <3>2 DEF TargetOf, IsUnits
  <2>2. units[t].first \in Nat \ {0} /\ units[t].lines \in Nat
    BY <2>1 DEF IsUnits
  <2>3. UnitSpan(units[t]) \subseteq Nat \ {0}
    BY <2>2 DEF UnitSpan
  <2> QED  BY <2>1, <2>2, <2>3, SnippetLines
<1>3. ASSUME NEW t \in Scanned(units), NEW w \in weak
      PROVE  lineIn(t, w.line) = IF t = 0 \/ w.line \in UnitSpan(units[t]) THEN {w.line} ELSE {}
  <2>1. w.line \in Nat \ {0}
    BY DEF IsWeak
  <2>2. CASE t = 0
    BY <2>2
  <2>3. CASE t # 0
    BY <1>2, <2>1, <2>3
  <2> QED  BY <2>2, <2>3
<1>4. ASSUME NEW t \in Scanned(units), NEW r \in of(t)
      PROVE  r.target = t /\ r.line \in Nat /\ r.end \in Int /\ LineReported(units, weak, r)
  <2>1. PICK w \in weak : \E k \in lineIn(t, w.line) :
           r = [target |-> t, line |-> k, end |-> k + w.end - w.line, rule |-> w.rule]
    OBVIOUS
  <2>2. r = [target |-> t, line |-> w.line, end |-> w.line + w.end - w.line, rule |-> w.rule]
    BY <1>3, <2>1, ZenonT(30)
  <2>3. w.line \in Nat /\ w.end \in Int /\ w.line + w.end - w.line = w.end
    BY DEF IsWeak
  <2>4. r = [target |-> t, line |-> w.line, end |-> w.end, rule |-> w.rule]
    BY <2>2, <2>3
  <2> QED  BY <2>3, <2>4 DEF LineReported
<1>5. ASSUME NEW t \in Scanned(units), NEW r \in wrappers(t)
      PROVE  r.target = t /\ r.line \in Nat /\ r.end \in Int /\ LineReported(units, weak, r)
  <2>1. t # 0
    OBVIOUS
  <2>2. PICK k \in DOMAIN BuildTargetSource(units[t]) : 
           BuildTargetSource(units[t])[k] = 0 /\ r = [target |-> t, line |-> k, end |-> k, rule |-> "wrapper"]
    BY <2>1
  <2>3. k \in Nat \ {0} /\ k \notin UnitSpan(units[t])
    BY <1>2, <2>1, <2>2
  <2> QED  BY <2>1, <2>2, <2>3 DEF LineReported
<1>6. ASSUME NEW t \in Scanned(units), NEW w \in weak, t = 0 \/ w.line \in UnitSpan(units[t])
      PROVE  [target |-> t, line |-> w.line, end |-> w.end, rule |-> w.rule] \in of(t)
  <2>1. lineIn(t, w.line) = {w.line}
    BY <1>3, <1>6
  <2>2. [target |-> t, line |-> w.line, end |-> w.line + w.end - w.line, rule |-> w.rule] \in of(t)
    BY <2>1
  <2>3. w.line + w.end - w.line = w.end
    BY DEF IsWeak
  <2> QED  BY <2>2, <2>3
<1> HIDE DEF of, wrappers, lineIn
<1>7. ASSUME NEW r \in EngineReports(units, weak)
      PROVE  r.target \in Scanned(units) /\ r.line \in Nat /\ r.end \in Int /\ LineReported(units, weak, r)
  <2>1. PICK t \in Scanned(units) : r \in of(t) \/ r \in wrappers(t)
    BY <1>1
  <2> QED  BY <1>4, <1>5, <2>1
<1> QED  BY <1>1, <1>6, <1>7

\* The hits of what the engine reports.
HitsOf(units, res) == {HitOf(units, r) : r \in {s \in res : Owner(units, s.target, s.line) # 0}}

SameHit(g, h) == h.key = g.key /\ h.rule = g.rule /\ h.line = g.line

\* Of the hits of a key, a rule and a line exactly one stays.
LEMMA OneHitStays ==
    ASSUME NEW units, NEW res
    PROVE  /\ ParseResults(units, res) \subseteq HitsOf(units, res)
           /\ \A g \in HitsOf(units, res) : \E h \in ParseResults(units, res) : SameHit(g, h)
           /\ \A g, h \in ParseResults(units, res) : SameHit(g, h) => g = h
<1> DEFINE H == HitsOf(units, res)
           C(g) == CHOOSE h \in H : h.key = g.key /\ h.rule = g.rule /\ h.line = g.line
<1>1. ParseResults(units, res) = {C(g) : g \in H}
  BY DEF ParseResults, HitsOf
<1>2. ASSUME NEW g \in H PROVE C(g) \in H /\ SameHit(g, C(g))
  <2>1. \E h \in H : h.key = g.key /\ h.rule = g.rule /\ h.line = g.line
    OBVIOUS
  <2> QED  BY ONLY <2>1 DEF SameHit
<1>3. ASSUME NEW g \in H, NEW h \in H, SameHit(g, h) PROVE C(g) = C(h)
  BY ONLY <1>3 DEF SameHit
<1> HIDE DEF H, C
<1>4. ASSUME NEW p \in {C(g) : g \in H}, NEW q \in {C(g) : g \in H}, SameHit(p, q) PROVE p = q
  <2>1. PICK g \in H, h \in H : p = C(g) /\ q = C(h)
    OBVIOUS
  <2>2. SameHit(g, p) /\ SameHit(h, q)
    BY <1>2, <2>1
  <2>3. SameHit(g, h)
    BY <1>4, <2>2 DEF SameHit
  <2> QED  BY <1>3, <2>1, <2>3
<1> QED  BY <1>1, <1>2, <1>4 DEF H

\* Unit i owns the hit: it is filed under its key, lies in it, and no inner unit has it.
OwnedBy(units, n, h, i) ==
    /\ h.key = UnitKey(units[i]) /\ {h.line, h.end} \subseteq UnitSpan(units[i])
    /\ \E t \in Scanned(units) : HasLine(units, t, h.line, i)
               /\ ~\E j \in 1..n : HasLine(units, t, h.line, j) /\ Inner(units, j, i)

\* A hit has an owner, and is that of a weakness.
LEMMA HitIs ==
    ASSUME NEW units, NEW n, IsUnits(units, n), NEW weak, IsWeak(weak),
           NEW res, res \subseteq EngineReports(units, weak), NEW h \in HitsOf(units, res)
    PROVE  /\ h.line <= h.end
           /\ \E w \in weak : w.line = h.line /\ w.rule = h.rule
           /\ \E i \in 1..n : OwnedBy(units, n, h, i)
<1>1. PICK r \in res : Owner(units, r.target, r.line) # 0 /\ h = HitOf(units, r)
  BY DEF HitsOf
<1>2. r.target \in Scanned(units) /\ r.line \in Nat /\ r.end \in Int /\ LineReported(units, weak, r)
  BY <1>1, ReportsAre
<1>3. PICK i \in 1..n : i = Owner(units, r.target, r.line)
  BY <1>1, OwnerOrNone
<1>4. HasLine(units, r.target, r.line, i)
      /\ ~\E j \in 1..n : HasLine(units, r.target, r.line, j) /\ Inner(units, j, i)
  BY <1>3, OwnerIs
<1>5. TargetOf(units, i) = r.target /\ r.line \in UnitSpan(units[i])
  BY <1>4 DEF HasLine
<1>6. PICK f \in Nat, l \in Nat : f = units[i].first /\ l = units[i].lines
  BY DEF IsUnits
<1>7. PICK e : e = IF r.end < r.line THEN r.line ELSE IF r.end > f + l - 1 THEN f + l - 1 ELSE r.end
  OBVIOUS
<1>8. h = [key |-> UnitKey(units[i]), rule |-> r.rule, line |-> r.line, end |-> e]
  BY <1>1, <1>3, <1>6, <1>7 DEF HitOf
<1>9. f <= r.line /\ r.line <= f + l - 1 /\ UnitSpan(units[i]) = f..(f + l - 1)
  BY <1>2, <1>5, <1>6 DEF UnitSpan
<1>10. r.line <= e /\ e \in f..(f + l - 1) /\ r.line \in f..(f + l - 1)
  <2>1. PICK a \in Nat, b \in Int : a = r.line /\ b = r.end
    BY <1>2
  <2>2. e = IF b < a THEN a ELSE IF b > f + l - 1 THEN f + l - 1 ELSE b
    BY ONLY <1>7, <2>1
  <2>3. f <= a /\ a <= f + l - 1
    BY <1>9, <2>1
  <2>4. a <= e /\ e \in f..(f + l - 1) /\ a \in f..(f + l - 1)
    BY <2>2, <2>3
  <2> QED  BY <2>1, <2>4
<1>11. \E w \in weak : w.line = r.line /\ w.rule = r.rule
  <2>1. CASE \E w \in weak : r = [target |-> r.target, line |-> w.line, end |-> w.end, rule |-> w.rule]
    BY <2>1
  <2>2. CASE r.target # 0 /\ r.line \notin UnitSpan(units[r.target])
    <3>1. r.target # NotScanned
      BY <1>2 DEF Scanned, Targets
    <3>2. r.target = i
      BY <1>5, <2>2, <3>1 DEF TargetOf
    <3> QED  BY <1>5, <2>2, <3>2
  <2> QED  BY <1>2, <2>1, <2>2 DEF LineReported
<1>12. h.key = UnitKey(units[i]) /\ h.line = r.line /\ h.end = e /\ h.rule = r.rule
  BY <1>8
<1>13. OwnedBy(units, n, h, i)
  BY <1>2, <1>4, <1>9, <1>10, <1>12 DEF OwnedBy
<1> QED  BY <1>10, <1>11, <1>12, <1>13

\* What static analysis reports comes back to the key of the unit that has the line, once.
LEMMA ScanSound ==
    ASSUME NEW units, NEW n, IsUnits(units, n), NEW weak, IsWeak(weak)
    PROVE  ScanHolds(units, weak)
<1> DEFINE results == EngineReports(units, weak)
           hits == ScanUnits(units, TRUE, results)
           mine(i) == {w \in weak : w.line \in UnitSpan(units[i]) /\ w.rule \notin ExcludedRules}
           inner(i, w) == \E j \in DOMAIN units : j # i /\ TargetOf(units, j) = TargetOf(units, i)
                          /\ w.line \in UnitSpan(units[j])
                          /\ (units[j].lines < units[i].lines \/ (units[j].lines = units[i].lines /\ j < i))
           owns(i) == {<<UnitKey(units[i]), w.rule, w.line>> : w \in {v \in mine(i) : ~inner(i, v)}}
           told == {j \in DOMAIN units : TargetOf(units, j) \in Scanned(units)}
<1>0. n \in Nat /\ DOMAIN units = 1..n /\ \A i \in 1..n : units[i].lines \in Nat
  BY DEF IsUnits
<1>1. PICK res : res = {r \in results : r.target \in Scanned(units)}
  OBVIOUS
<1>2. res = results
  BY <1>1, ReportsAre
<1>3. PICK kept : kept = ParseResults(units, res)
  OBVIOUS
<1>4. hits = {h \in kept : h.rule \notin ExcludedRules}
  <2>1. CASE Scanned(units) = {}
    <3>1. res = {}
      BY <1>1, <2>1
    <3>2. kept = {}
      BY <1>3, <3>1 DEF ParseResults
    <3> QED  BY <2>1, <3>2 DEF ScanUnits
  <2>2. CASE Scanned(units) # {}
    BY <1>1, <1>3, <2>2 DEF ScanUnits
  <2> QED  BY <2>1, <2>2
<1>5. ASSUME NEW h \in kept
      PROVE  /\ h.line <= h.end
             /\ \E w \in weak : w.line = h.line /\ w.rule = h.rule
             /\ \E i \in 1..n : OwnedBy(units, n, h, i)
  BY <1>2, <1>3, HitIs, OneHitStays
<1>6. ASSUME NEW i \in 1..n, NEW w \in weak
      PROVE  inner(i, w) <=> \E j \in 1..n : HasLine(units, TargetOf(units, i), w.line, j) /\ Inner(units, j, i)
  <2>1. \A j \in 1..n : Inner(units, j, i) => j # i
    <3>1. units[i].lines \in Nat /\ i \in Nat
      BY <1>0
    <3> QED  BY <3>1 DEF Inner
  <2> QED  BY <1>0, <2>1 DEF HasLine, Inner
<1> HIDE DEF results, hits, inner
<1>7. {<<h.key, h.rule, h.line>> : h \in hits} = UNION {owns(i) : i \in told}
  <2>1. ASSUME NEW h \in hits PROVE \E i \in told : <<h.key, h.rule, h.line>> \in owns(i)
    <3>1. h \in kept /\ h.rule \notin ExcludedRules
      BY <1>4
    <3>2. PICK w \in weak : w.line = h.line /\ w.rule = h.rule
      BY <1>5, <3>1
    <3>3. PICK i \in 1..n, t \in Scanned(units) :
             /\ h.key = UnitKey(units[i]) /\ HasLine(units, t, h.line, i)
             /\ ~\E j \in 1..n : HasLine(units, t, h.line, j) /\ Inner(units, j, i)
      BY <1>5, <3>1 DEF OwnedBy
    <3>4. t = TargetOf(units, i) /\ h.line \in UnitSpan(units[i]) /\ i \in told
      BY <1>0, <3>3 DEF HasLine
    <3>5. ~inner(i, w)
      BY <1>6, <3>2, <3>3, <3>4
    <3>6. w \in mine(i)
      BY <3>1, <3>2, <3>4
    <3> HIDE DEF mine, told
    <3>7. <<UnitKey(units[i]), w.rule, w.line>> \in owns(i)
      BY <3>5, <3>6
    <3> QED  BY <3>2, <3>3, <3>4, <3>7
  <2>2. ASSUME NEW i \in told, NEW w \in mine(i), ~inner(i, w)
        PROVE  \E h \in hits : <<h.key, h.rule, h.line>> = <<UnitKey(units[i]), w.rule, w.line>>
    <3>0. i \in 1..n
      BY <1>0
    <3>1. PICK t : t = TargetOf(units, i)
      OBVIOUS
    <3>2. t \in Scanned(units) /\ t # NotScanned
      BY <3>1 DEF Scanned, Targets
    <3>3. w \in weak /\ w.line \in UnitSpan(units[i]) /\ w.rule \notin ExcludedRules
      OBVIOUS
    <3>4. t = 0 \/ t = i
      BY <3>1, <3>2 DEF TargetOf
    <3>5. PICK r : r = [target |-> t, line |-> w.line, end |-> w.end, rule |-> w.rule]
      OBVIOUS
    <3>6. r \in res
      <4>1. t = 0 \/ w.line \in UnitSpan(units[t])
        BY <3>3, <3>4
      <4> QED  BY <1>2, <3>2, <3>3, <3>5, <4>1, ReportsAre DEF results
    <3>7. Owner(units, r.target, r.line) = i
      <4>1. HasLine(units, t, w.line, i)
        BY <1>0, <3>0, <3>1, <3>3 DEF HasLine
      <4>2. ~\E j \in 1..n : HasLine(units, t, w.line, j) /\ Inner(units, j, i)
        BY <1>6, <2>2, <3>0, <3>1, <3>3
      <4>3. Owner(units, t, w.line) = i
        BY <3>0, <4>1, <4>2, OwnerIs
      <4> QED  BY <3>5, <4>3
    <3>8. HitOf(units, r) \in HitsOf(units, res)
      BY <1>0, <3>0, <3>6, <3>7 DEF HitsOf
    <3>9. PICK h \in kept : SameHit(HitOf(units, r), h)
      BY <1>3, <3>8, OneHitStays
    <3>10. HitOf(units, r).key = UnitKey(units[i]) /\ HitOf(units, r).rule = w.rule /\ HitOf(units, r).line = w.line
      BY <3>5, <3>7 DEF HitOf
    <3>11. h.key = UnitKey(units[i]) /\ h.rule = w.rule /\ h.line = w.line
      BY <3>9, <3>10 DEF SameHit
    <3> QED  BY <1>4, <3>3, <3>11
  <2>3. ASSUME NEW x \in UNION {owns(i) : i \in told}
        PROVE  \E h \in hits : <<h.key, h.rule, h.line>> = x
    <3>1. PICK i \in told : x \in owns(i)
      OBVIOUS
    <3> HIDE DEF mine, told
    <3>2. PICK w \in mine(i) : ~inner(i, w) /\ x = <<UnitKey(units[i]), w.rule, w.line>>
      BY <3>1
    <3> QED  BY <2>2, <3>2
  <2> HIDE DEF mine, owns, told
  <2> QED  BY <2>1, <2>3
<1>8. \A g, h \in hits : g.key = h.key /\ g.rule = h.rule /\ g.line = h.line => g = h
  <2>1. \A g, h \in kept : SameHit(g, h) => g = h
    BY <1>3, OneHitStays
  <2> QED  BY <1>4, <2>1 DEF SameHit
<1>9. \A h \in hits : h.line <= h.end /\ \E i \in DOMAIN units :
         h.key = UnitKey(units[i]) /\ {h.line, h.end} \subseteq UnitSpan(units[i])
  BY <1>0, <1>4, <1>5 DEF OwnedBy
<1>10. ScanUnits(units, FALSE, results) = {}
  BY DEF ScanUnits
<1> QED  BY <1>7, <1>8, <1>9, <1>10 DEF ScanHolds, results, hits, mine, inner, owns, told

\* A quote is found where its lines are, all of them in their order; and whenever they are somewhere.
LEMMA LocatedIs ==
    ASSUME NEW quote, NEW text, NEW lo \in Nat, lo >= 1, NEW hi \in Int,
           NEW lines, lines = Counted(quote), NEW m \in Nat, DOMAIN lines = 1..m, lines \in Seq({lines[k] : k \in 1..m})
    PROVE  /\ Located(quote, text, lo, hi) # NoSpan => IsSpan(Located(quote, text, lo, hi), lines, text, lo, hi, m)
           /\ m >= 1 /\ (\E g : PlacedAt(g, lines, text, lo, hi, m)) => Located(quote, text, lo, hi) # NoSpan
<1>1. Len(lines) = m
  BY LenProperties
<1> DEFINE IsAt(f) == f = [k \in 0..m |-> IF k = 0 THEN lo - 1
                                          ELSE NextPlace(text, lines[k], f[k - 1], hi)]
           at == CHOOSE f : IsAt(f)
<1>2. Located(quote, text, lo, hi) = IF lines = <<>> \/ at[m] > hi THEN NoSpan ELSE <<at[1], at[m]>>
  BY <1>1 DEF Located, NextPlace
<1>3. \E f : IsAt(f)
  <2>1. PICK f : IsTrail(f, lines, text, lo, hi, m)
    BY TrailExists
  <2>2. PICK g : g = [k \in 0..m |-> f[k]]
    OBVIOUS
  <2>3. \A k \in 0..m : g[k] = IF k = 0 THEN lo - 1 ELSE NextPlace(text, lines[k], g[k - 1], hi)
    <3>1. ASSUME NEW k \in 0..m, k # 0 PROVE g[k] = NextPlace(text, lines[k], g[k - 1], hi)
      <4>1. k \in 1..m /\ k - 1 \in 0..m
        BY <3>1
      <4> QED  BY <2>1, <2>2, <4>1 DEF IsTrail
    <3>2. g[0] = lo - 1
      BY <2>1, <2>2 DEF IsTrail
    <3> QED  BY <3>1, <3>2
  <2>4. g = [k \in 0..m |-> g[k]]
    BY <2>2
  <2>5. IsAt(g)
    BY <2>3, <2>4
  <2> QED  BY <2>5
<1>4. IsAt(at)
  <2> HIDE DEF IsAt
  <2> QED  BY <1>3
<1>5. IsTrail(at, lines, text, lo, hi, m)
  <2> HIDE DEF at
  <2>1. \A k \in 0..m : at[k] = IF k = 0 THEN lo - 1 ELSE NextPlace(text, lines[k], at[k - 1], hi)
    BY <1>4
  <2>2. DOMAIN at = 0..m
    BY <1>4
  <2>3. \A k \in 1..m : k \in 0..m /\ k # 0
    OBVIOUS
  <2>4. 0 \in 0..m
    OBVIOUS
  <2> QED  BY <2>1, <2>2, <2>3, <2>4 DEF IsTrail
<1> HIDE DEF at, IsAt
<1>6. CASE m = 0
  <2>1. lines = <<>>
    BY <1>1, <1>6, EmptySeq
  <2> QED  BY <1>2, <1>6, <2>1
<1>7. CASE m >= 1
  <2>1. lines # <<>>
    BY <1>1, <1>7
  <2>2. /\ \A k \in 1..m : at[k] \in Int
        /\ at[m] <= hi => PlacedAt(at, lines, text, lo, hi, m)
        /\ \A g : PlacedAt(g, lines, text, lo, hi, m) => at[m] <= hi
    BY <1>5, <1>7, TrailPlaces
  <2>3. 1 \in 1..m /\ m \in 1..m
    BY <1>7
  <2>4. PICK a \in Int, z \in Int : a = at[1] /\ z = at[m]
    BY <2>2, <2>3
  <2>5. CASE z > hi
    <3>1. ~(z <= hi)
      BY <2>5
    <3> QED  BY <1>2, <2>2, <2>4, <2>5, <3>1
  <2>6. CASE ~(z > hi)
    <3>1. z <= hi
      BY <2>6
    <3>2. PlacedAt(at, lines, text, lo, hi, m)
      BY <2>2, <2>4, <3>1
    <3>3. Located(quote, text, lo, hi) = <<at[1], at[m]>>
      BY <1>2, <2>1, <2>4, <2>6
    <3>4. at[1] \in lo..hi
      BY <2>3, <3>2 DEF PlacedAt
    <3>5. <<at[1], at[m]>> # NoSpan
      BY <3>4 DEF NoSpan
    <3> QED  BY <1>7, <3>2, <3>3, <3>5 DEF IsSpan
  <2> QED  BY <2>5, <2>6
<1> QED  BY <1>6, <1>7

\* The lines of a quote that count, in their order.
AreCounted(lines, quote, n, f, m) ==
    /\ m \in Nat /\ DOMAIN lines = 1..m /\ lines \in Seq({lines[k] : k \in 1..m}) /\ Len(lines) = m
    /\ Ascending(f, {k \in 1..n : quote[k] # Blank}, m)
    /\ \A k \in 1..m : lines[k] = quote[f[k]]

LEMMA CountedAre ==
    ASSUME NEW quote, NEW n \in Nat, DOMAIN quote = 1..n
    PROVE  \E f, m : AreCounted(Counted(quote), quote, n, f, m)
<1>1. PICK B : B = {k \in 1..n : quote[k] # Blank}
  OBVIOUS
<1>2. PICK lines : lines = Counted(quote)
  OBVIOUS
<1>3. lines = Picked(quote, B)
  BY <1>1, <1>2 DEF Counted
<1>4. TakenInOrder(lines, quote, B)
  BY <1>1, <1>3, PickedAre
<1>5. PICK f, m : Ascending(f, B, m) /\ lines = [k \in 1..m |-> quote[f[k]]]
  BY <1>4 DEF TakenInOrder
<1>6. m \in Nat
  BY <1>5 DEF Ascending
<1>7. DOMAIN lines = 1..m /\ lines = [k \in 1..m |-> lines[k]] /\ \A k \in 1..m : lines[k] = quote[f[k]]
  BY <1>5
<1>8. PICK S : S = {lines[k] : k \in 1..m}
  OBVIOUS
<1>9. \A k \in 1..m : lines[k] \in S
  BY <1>8
<1>10. lines \in Seq(S) /\ Len(lines) = m
  BY <1>6, <1>7, <1>9, ListIsSeq
<1>11. AreCounted(lines, quote, n, f, m)
  BY <1>1, <1>5, <1>6, <1>7, <1>8, <1>10 DEF AreCounted
<1> QED  BY <1>2, <1>11

IsText(t) == Len(t) \in Nat /\ DOMAIN t = 1..Len(t)

\* A span of a text has the lines of a quote that count.
SpanHas(span, code, lines) ==
    /\ span[1] \in DOMAIN code /\ span[2] \in DOMAIN code /\ span[2] - span[1] + 1 >= Len(lines)
    /\ code[span[1]] = Head(lines) /\ code[span[2]] = Last(lines)
    /\ ToSet(lines) \subseteq {code[i] : i \in span[1]..span[2]}

\* Where a quote is located, there are its lines.
LEMMA LocatedShows ==
    ASSUME NEW quote, NEW n \in Nat, DOMAIN quote = 1..n, NEW code, NEW c \in Nat, DOMAIN code = 1..c,
           NEW lo \in Nat, lo >= 1, NEW hi \in Int, hi <= c, NEW span, span = Located(quote, code, lo, hi), span # NoSpan
    PROVE  SpanHas(span, code, Counted(quote)) /\ span[1] \in lo..hi
<1>1. PICK lines : lines = Counted(quote)
  OBVIOUS
<1>2. PICK f, m : AreCounted(lines, quote, n, f, m)
  BY <1>1, CountedAre
<1>3. m \in Nat /\ DOMAIN lines = 1..m /\ lines \in Seq({lines[k] : k \in 1..m}) /\ Len(lines) = m
  BY <1>2 DEF AreCounted
<1>4. IsSpan(span, lines, code, lo, hi, m)
  BY <1>1, <1>3, LocatedIs
<1>5. PICK g : PlacedAt(g, lines, code, lo, hi, m) /\ span = <<g[1], g[m]>> /\ m >= 1
  BY <1>4 DEF IsSpan
<1>6. 1 \in 1..m /\ m \in 1..m
  BY <1>3, <1>5
<1>7. PICK a \in lo..hi, z \in lo..hi : a = g[1] /\ z = g[m] /\ code[a] = lines[1] /\ code[z] = lines[m]
  BY <1>5, <1>6 DEF PlacedAt
<1>8. z - a + 1 >= m
  <2>1. CASE m = 1
    BY <1>7, <2>1
  <2>2. CASE 1 < m
    BY <1>3, <1>5, <1>6, <1>7, <2>2, SMTT(30) DEF PlacedAt
  <2> QED  BY <1>3, <1>5, <2>1, <2>2
<1>9. ASSUME NEW k \in 1..m PROVE \E i \in a..z : code[i] = lines[k]
  <2>1. PICK x \in lo..hi : x = g[k] /\ code[x] = lines[k]
    BY <1>5 DEF PlacedAt
  <2>2. a <= x
    <3>1. CASE k = 1
      BY <1>7, <2>1, <3>1
    <3>2. CASE 1 < k
      <4>1. g[k] - g[1] >= k - 1
        BY <1>5, <1>6, <3>2 DEF PlacedAt
      <4> QED  BY <1>7, <2>1, <3>2, <4>1
    <3> QED  BY <3>1, <3>2
  <2>3. x <= z
    <3>1. CASE k = m
      BY <1>7, <2>1, <3>1
    <3>2. CASE k < m
      <4>1. g[m] - g[k] >= m - k
        BY <1>5, <1>6, <3>2 DEF PlacedAt
      <4> QED  BY <1>3, <1>7, <2>1, <3>2, <4>1, SMTT(30)
    <3> QED  BY <1>3, <3>1, <3>2
  <2> QED  BY <2>1, <2>2, <2>3
<1>10. span[1] = a /\ span[2] = z
  BY <1>5, <1>7
<1>11. a \in 1..c /\ z \in 1..c
  BY <1>7
<1>12. Head(lines) = lines[1] /\ Last(lines) = lines[m]
  <2>1. Last(lines) = lines[m]
    BY <1>3 DEF Last
  <2>2. lines # <<>>
    BY <1>3, <1>5
  <2> QED  BY <1>3, <2>1, <2>2, HeadTailProperties
<1>13. ToSet(lines) \subseteq {code[i] : i \in a..z}
  BY <1>3, <1>9 DEF ToSet
<1>14. SpanHas(span, code, lines)
  BY <1>3, <1>7, <1>8, <1>10, <1>11, <1>12, <1>13 DEF SpanHas
<1> QED  BY <1>1, <1>7, <1>10, <1>14

\* The window around a claimed line is within the text.
LEMMA WindowIs ==
    ASSUME NEW x \in Int, NEW n \in Nat
    PROVE  From(x) \in Nat /\ From(x) >= 1 /\ From(x) >= x /\ (x >= 1 => From(x) = x)
           /\ UpTo(x, n) \in Int /\ UpTo(x, n) <= n /\ UpTo(x, n) <= x
BY DEF From, UpTo

\* What is looked for as it stands, or loosely, is found where it is.
LEMMA StrictShows ==
    ASSUME NEW quote, IsText(quote), NEW text, IsText(text), NEW claimed \in Nat
    PROVE  /\ LocateStrict(quote, text, claimed) # NoSpan
                 => SpanHas(LocateStrict(quote, text, claimed), text, Counted(quote))
           /\ Located(quote, text, 1, Len(text)) # NoSpan => LocateStrict(quote, text, claimed) # NoSpan
           /\ claimed # 0 /\ Located(quote, text, From(claimed - QuoteWindow), UpTo(claimed + QuoteWindow, Len(text))) # NoSpan
                 => Distance(LocateStrict(quote, text, claimed)[1], claimed) <= QuoteWindow
<1>1. PICK n \in Nat, c \in Nat : n = Len(quote) /\ DOMAIN quote = 1..n /\ c = Len(text) /\ DOMAIN text = 1..c
  BY Zenon DEF IsText
<1>2. PICK lo, hi : lo = From(claimed - QuoteWindow) /\ hi = UpTo(claimed + QuoteWindow, c)
  OBVIOUS
<1>3. lo \in Nat /\ lo >= 1 /\ lo >= claimed - QuoteWindow /\ hi \in Int /\ hi <= c /\ hi <= claimed + QuoteWindow
      /\ QuoteWindow \in Nat
  <2>1. claimed - QuoteWindow \in Int /\ claimed + QuoteWindow \in Int /\ QuoteWindow \in Nat
    BY WindowsAssumption
  <2> QED  BY <1>2, <2>1, WindowIs
<1>4. PICK near, all, s : /\ near = Located(quote, text, lo, hi) /\ all = Located(quote, text, 1, c)
                         /\ s = LocateStrict(quote, text, claimed)
  OBVIOUS
<1>5. s = IF claimed # 0 /\ near # NoSpan THEN near ELSE all
  BY <1>1, <1>2, <1>4 DEF LocateStrict
<1>6. near # NoSpan => SpanHas(near, text, Counted(quote)) /\ near[1] \in lo..hi
  BY <1>1, <1>3, <1>4, LocatedShows
<1>7. all # NoSpan => SpanHas(all, text, Counted(quote))
  <2>1. 1 \in Nat /\ c \in Int /\ c <= c
    OBVIOUS
  <2> QED  BY <1>1, <1>4, <2>1, LocatedShows
<1>8. near # NoSpan => Distance(near[1], claimed) <= QuoteWindow
  <2>1. ASSUME near # NoSpan PROVE Distance(near[1], claimed) <= QuoteWindow
    <3>1. PICK a \in lo..hi : a = near[1]
      BY <1>6, <2>1
    <3>2. a >= claimed - QuoteWindow /\ a <= claimed + QuoteWindow
      BY <1>3, <3>1
    <3> QED  BY <1>3, <3>1, <3>2 DEF Distance
  <2> QED  BY <2>1
<1>9. /\ s # NoSpan => SpanHas(s, text, Counted(quote))
      /\ all # NoSpan => s # NoSpan
      /\ claimed # 0 /\ near # NoSpan => Distance(s[1], claimed) <= QuoteWindow
  BY ONLY <1>5, <1>6, <1>7, <1>8
<1> QED  BY ONLY <1>1, <1>2, <1>4, <1>9

LEMMA LooseShows ==
    ASSUME NEW quote, IsText(quote), NEW text, IsText(text), NEW claimed \in Nat,
           LocateLoose(quote, text, claimed) # NoSpan
    PROVE  SpanHas(LocateLoose(quote, text, claimed), Loosely(text), Counted(Loosely(quote)))
<1>1. PICK n \in Nat, c \in Nat : n = Len(quote) /\ DOMAIN quote = 1..n /\ c = Len(text) /\ DOMAIN text = 1..c
  BY Zenon DEF IsText
<1>2. PICK q, t : q = Loosely(quote) /\ t = Loosely(text)
  OBVIOUS
<1>3. DOMAIN q = 1..n /\ DOMAIN t = 1..c
  BY <1>1, <1>2 DEF Loosely
<1>4. PICK lo, hi : lo = From(claimed - LooseRadius) /\ hi = UpTo(claimed - 1 + LooseRadius + n, c)
  OBVIOUS
<1>5. lo \in Nat /\ lo >= 1 /\ hi \in Int /\ hi <= c
  <2>1. claimed - LooseRadius \in Int /\ claimed - 1 + LooseRadius + n \in Int
    BY WindowsAssumption
  <2> QED  BY <1>4, <2>1, WindowIs
<1>6. PICK s : s = Located(q, t, lo, hi)
  OBVIOUS
<1>7. LocateLoose(quote, text, claimed) = s /\ s # NoSpan
  BY <1>1, <1>2, <1>4, <1>6 DEF LocateLoose
<1>8. SpanHas(s, t, Counted(q))
  BY ONLY <1>3, <1>5, <1>6, <1>7, LocatedShows, n \in Nat, c \in Nat
<1> QED  BY ONLY <1>2, <1>7, <1>8

\* Where a text has the whole quote.
HasAt(text, quote, at) == at + Len(quote) - 1 <= Len(text) /\ SubSeq(text, at, at + Len(quote) - 1) = quote

\* Where a text has the whole quote, the lines of it that count are at their places.
LEMMA PlacedFound ==
    ASSUME NEW quote, IsText(quote), NEW S, NEW text \in Seq(S), NEW at \in Nat, at >= 1, HasAt(text, quote, at),
           Counted(quote) # <<>>, NEW lo \in Nat, lo >= 1, lo <= at, NEW hi \in Int, at + Len(quote) - 1 <= hi
    PROVE  Located(quote, text, lo, hi) # NoSpan
<1>1. PICK n \in Nat, c \in Nat : n = Len(quote) /\ DOMAIN quote = 1..n /\ c = Len(text) /\ DOMAIN text = 1..c
  BY LenProperties, Zenon DEF IsText
<1>2. at + n - 1 <= c /\ quote = SubSeq(text, at, at + n - 1) /\ at + n - 1 <= hi
  BY <1>1 DEF HasAt
<1>3. \A i \in 1..n : quote[i] = text[at + i - 1]
  <2>1. PICK e \in Int : e = at + n - 1
    OBVIOUS
  <2>2. \A i \in at..e : text[i] \in S
    <3>1. \A i \in at..e : i \in 1..c
      BY <1>2, <2>1
    <3>2. \A i \in 1..c : text[i] \in S
      BY <1>1, ElementOfSeq
    <3> QED  BY <3>1, <3>2
  <2>3. \A i \in 1..(e - at + 1) : SubSeq(text, at, e)[i] = text[at + i - 1]
    BY ONLY <2>1, <2>2, SubSeqProperties, at \in Nat
  <2>4. e - at + 1 = n
    BY <2>1
  <2> QED  BY <1>2, <2>1, <2>3, <2>4
<1>4. PICK lines : lines = Counted(quote)
  OBVIOUS
<1>5. PICK f, m : AreCounted(lines, quote, n, f, m)
  BY <1>1, <1>4, CountedAre
<1>6. PICK B : B = {k \in 1..n : quote[k] # Blank}
  OBVIOUS
<1>7. /\ m \in Nat /\ DOMAIN lines = 1..m /\ lines \in Seq({lines[k] : k \in 1..m}) /\ Len(lines) = m
      /\ Ascending(f, B, m) /\ \A k \in 1..m : lines[k] = quote[f[k]]
  BY <1>5, <1>6 DEF AreCounted
<1>8. m >= 1
  <2>1. m # 0
    BY <1>4, <1>7, EmptySeq
  <2> QED  BY <1>7, <2>1
<1>9. \A k \in 1..m : f[k] \in 1..n
  BY <1>6, <1>7 DEF Ascending
<1>10. PICK g : g = [k \in 1..m |-> at + f[k] - 1]
  OBVIOUS
<1>11. ASSUME NEW k \in 1..m PROVE g[k] \in lo..hi /\ text[g[k]] = lines[k]
  <2>1. PICK x \in 1..n : x = f[k]
    BY <1>9
  <2>2. g[k] = at + x - 1
    BY <1>10, <2>1
  <2>3. at + x - 1 \in lo..hi
    BY <1>2, <2>1
  <2> QED  BY <1>3, <1>7, <2>1, <2>2, <2>3
<1>12. ASSUME NEW j \in 1..m, NEW k \in 1..m, j < k PROVE g[k] - g[j] >= k - j
  <2>1. B \subseteq Int
    BY <1>6
  <2>2. f[k] - f[j] >= k - j
    BY <1>7, <1>12, <2>1, RisingGaps
  <2>3. PICK x \in 1..n, y \in 1..n : x = f[j] /\ y = f[k]
    BY <1>9
  <2>4. g[j] = at + x - 1 /\ g[k] = at + y - 1
    BY <1>10, <2>3
  <2>5. x \in Int /\ y \in Int /\ y - x >= k - j
    BY <2>2, <2>3
  <2> QED  BY ONLY <2>4, <2>5, at \in Nat, j \in 1..m, k \in 1..m
<1>13. PlacedAt(g, lines, text, lo, hi, m)
  BY <1>11, <1>12 DEF PlacedAt
<1> QED  BY ONLY <1>1, <1>4, <1>7, <1>8, <1>13, LocatedIs, lo \in Nat, lo >= 1, hi \in Int

\* A quote that a text has where it is claimed is found near there, and so in the text.
LEMMA FoundNear ==
    ASSUME NEW quote, IsText(quote), Len(quote) <= QuoteWindow + 1, NEW S, NEW text \in Seq(S),
           NEW at \in Nat, at >= 1, HasAt(text, quote, at), Counted(quote) # <<>>
    PROVE  /\ Located(quote, text, From(at - QuoteWindow), UpTo(at + QuoteWindow, Len(text))) # NoSpan
           /\ Located(quote, text, 1, Len(text)) # NoSpan
<1>1. PICK n \in Nat, c \in Nat, w \in Nat : n = Len(quote) /\ c = Len(text) /\ w = QuoteWindow
  BY LenProperties, WindowsAssumption DEF IsText
<1>2. at + n - 1 <= c /\ n <= w + 1
  BY <1>1 DEF HasAt
<1>3. PICK lo, hi : lo = From(at - w) /\ hi = UpTo(at + w, c)
  OBVIOUS
<1>4. lo \in Nat /\ lo >= 1 /\ lo <= at /\ hi \in Int /\ at + n - 1 <= hi
  BY <1>2, <1>3 DEF From, UpTo
<1>5. Located(quote, text, lo, hi) # NoSpan
  BY <1>1, <1>4, PlacedFound
<1>6. Located(quote, text, 1, c) # NoSpan
  <2>1. 1 \in Nat /\ 1 >= 1 /\ 1 <= at /\ c \in Int
    OBVIOUS
  <2> QED  BY <1>1, <1>2, <2>1, PlacedFound
<1> QED  BY <1>1, <1>3, <1>5, <1>6

\* A place of a quote: as it stands in a file, or loosely in the file named.
StrictPlace(p, texts, N, quote, named, claimed) ==
    /\ p.file \in 1..N /\ p.turn \in 0..2 /\ (p.turn = 0 <=> p.file = named)
    /\ p.span = LocateStrict(quote, texts[p.file], ClaimIn(claimed, p.file, named)) /\ p.span # NoSpan

LoosePlace(p, texts, N, quote, named, claimed) ==
    /\ named \in 1..N /\ p.file = named /\ p.turn = 3
    /\ p.span = LocateLoose(quote, texts[named], claimed) /\ p.span # NoSpan

\* The places of a quote are such places, and every file that has it as it stands gives one.
LEMMA PlacesAre ==
    ASSUME NEW texts, NEW N \in Nat, DOMAIN texts = 1..N, NEW quote, NEW named \in 0..N, NEW claimed, NEW prompt
    PROVE  /\ \A p \in Places(texts, quote, named, claimed, prompt) :
                 StrictPlace(p, texts, N, quote, named, claimed) \/ LoosePlace(p, texts, N, quote, named, claimed)
           /\ \A i \in 1..N : LocateStrict(quote, texts[i], ClaimIn(claimed, i, named)) # NoSpan =>
                 \E p \in Places(texts, quote, named, claimed, prompt) :
                    p.file = i /\ StrictPlace(p, texts, N, quote, named, claimed)
<1> DEFINE turn(i) == IF i = named THEN 0 ELSE IF i \in prompt THEN 1 ELSE 2
           Strict(i) == [file |-> i, turn |-> turn(i),
                         span |-> LocateStrict(quote, texts[i], ClaimIn(claimed, i, named))]
           Loose(i) == [file |-> i, turn |-> 3, span |-> LocateLoose(quote, texts[i], claimed)]
<1>1. Places(texts, quote, named, claimed, prompt)
        = {p \in {Strict(i) : i \in DOMAIN texts} \cup {Loose(i) : i \in {named} \ {0}} : p.span # NoSpan}
  BY DEF Places
<1>2. ASSUME NEW i \in 1..N, Strict(i).span # NoSpan
      PROVE  StrictPlace(Strict(i), texts, N, quote, named, claimed) /\ Strict(i).file = i
  BY <1>2 DEF StrictPlace
<1>3. ASSUME named # 0, Loose(named).span # NoSpan
      PROVE  LoosePlace(Loose(named), texts, N, quote, named, claimed)
  BY <1>3 DEF LoosePlace
<1>4. \A i \in 1..N : Strict(i).span = LocateStrict(quote, texts[i], ClaimIn(claimed, i, named))
  OBVIOUS
<1> HIDE DEF Strict, Loose
<1>5. ASSUME NEW p \in Places(texts, quote, named, claimed, prompt)
      PROVE  StrictPlace(p, texts, N, quote, named, claimed) \/ LoosePlace(p, texts, N, quote, named, claimed)
  BY <1>1, <1>2, <1>3
<1>6. ASSUME NEW i \in 1..N, LocateStrict(quote, texts[i], ClaimIn(claimed, i, named)) # NoSpan
      PROVE  \E p \in Places(texts, quote, named, claimed, prompt) :
                    p.file = i /\ StrictPlace(p, texts, N, quote, named, claimed)
  <2>1. Strict(i) \in Places(texts, quote, named, claimed, prompt)
    BY <1>1, <1>4, <1>6
  <2> QED  BY <1>2, <1>4, <1>6, <2>1
<1> QED  BY <1>5, <1>6

\* Some place is the soonest.
LEMMA SoonestPlace ==
    ASSUME NEW S, S # {}, \A p \in S : p.turn \in Nat /\ p.file \in Nat
    PROVE  \E p \in S : \A q \in S : SoonerPlace(p, q)
<1>1. PICK T : T = {p.turn : p \in S}
  OBVIOUS
<1>2. T \subseteq Nat /\ T # {}
  BY <1>1
<1>3. PICK t \in T : \A u \in T : t <= u
  BY <1>2, LeastOfSome
<1>4. PICK F : F = {p.file : p \in {r \in S : r.turn = t}}
  OBVIOUS
<1>5. F \subseteq Nat /\ F # {}
  BY <1>1, <1>3, <1>4
<1>6. PICK f \in F : \A g \in F : f <= g
  BY <1>5, LeastOfSome
<1>7. PICK p \in S : p.turn = t /\ p.file = f
  BY <1>4, <1>6
<1>8. ASSUME NEW q \in S PROVE SoonerPlace(p, q)
  <2>1. t <= q.turn /\ q.turn \in Nat /\ t \in Nat
    BY <1>1, <1>2, <1>3
  <2>2. q.turn = t => f <= q.file
    BY <1>4, <1>6
  <2> QED  BY <1>7, <2>1, <2>2 DEF SoonerPlace
<1> QED  BY <1>8

\* Where nothing counts, nothing is found, loosely neither.
LEMMA NowhereStrict ==
    ASSUME NEW quote, IsText(quote), Counted(quote) = <<>>, NEW text, NEW claimed
    PROVE  LocateStrict(quote, text, claimed) = NoSpan
BY DEF LocateStrict, Located

LEMMA NowhereLoose ==
    ASSUME NEW quote, IsText(quote), Counted(quote) = <<>>, NEW text, NEW claimed
    PROVE  LocateLoose(quote, text, claimed) = NoSpan
<1>1. PICK n \in Nat : DOMAIN quote = 1..n
  BY DEF IsText
<1>2. PICK f, m : AreCounted(Counted(quote), quote, n, f, m)
  BY <1>1, CountedAre
<1>3. \A k \in 1..n : quote[k] = Blank
  BY <1>2 DEF AreCounted, Ascending
<1>4. PICK q : q = Loosely(quote)
  OBVIOUS
<1>5. DOMAIN q = 1..n /\ \A k \in 1..n : q[k] = Blank
  BY <1>1, <1>3, <1>4, BlankAssumption DEF Loosely
<1>6. PICK g, l : AreCounted(Counted(q), q, n, g, l)
  BY <1>5, CountedAre
<1>7. l = 0
  <2>1. l \in Nat /\ \A k \in 1..l : g[k] \in {}
    BY <1>5, <1>6 DEF AreCounted, Ascending
  <2>2. 1 \notin 1..l
    BY <2>1
  <2> QED  BY <2>1, <2>2
<1>8. Counted(q) = <<>>
  BY <1>6, <1>7, EmptySeq DEF AreCounted
<1> QED  BY <1>4, <1>8, SMTT(30) DEF LocateLoose, Located

\* A finding is kept with the place its quote is in, and a quote of code is found.
LEMMA QuotesAreFound ==
    ASSUME NEW S, NEW N \in Nat, NEW texts, DOMAIN texts = 1..N, \A i \in 1..N : texts[i] \in Seq(S),
           NEW quote, IsText(quote), Len(quote) <= QuoteWindow + 1, NEW named \in 0..N, NEW claimed \in Nat
    PROVE  QuotesHoldUp(texts, quote, named, claimed)
<1>1. \A i \in 1..N : IsText(texts[i])
  BY LenProperties DEF IsText
<1>2. PICK having : having = {i \in DOMAIN texts : Located(quote, texts[i], 1, Len(texts[i])) # NoSpan}
  OBVIOUS
<1>3. PICK places : places = Places(texts, quote, named, claimed, {1})
  OBVIOUS
<1>4. PICK at : at = QuotedAt(texts, quote, named, claimed, {1})
  OBVIOUS
<1>5. \A p : p \in at <=> p \in places /\ (\A q \in places : SoonerPlace(p, q)) /\ ~OnlyComments(texts[p.file], p.span)
  BY <1>3, <1>4 DEF QuotedAt
<1>6. \A p \in places : StrictPlace(p, texts, N, quote, named, claimed) \/ LoosePlace(p, texts, N, quote, named, claimed)
  BY <1>3, PlacesAre
<1>7. \A i \in 1..N : ClaimIn(claimed, i, named) \in Nat
  BY DEF ClaimIn
<1>8. ASSUME NEW i \in having
      PROVE  i \in 1..N /\ \E p \in places : p.file = i /\ StrictPlace(p, texts, N, quote, named, claimed)
  <2>1. i \in 1..N /\ Located(quote, texts[i], 1, Len(texts[i])) # NoSpan
    BY <1>2
  <2>2. PICK cl \in Nat : cl = ClaimIn(claimed, i, named)
    BY <1>7, <2>1
  <2>3. LocateStrict(quote, texts[i], cl) # NoSpan
    BY <1>1, <2>1, StrictShows
  <2> QED  BY <1>3, <2>1, <2>2, <2>3, PlacesAre
<1>9. ASSUME NEW p \in places, StrictPlace(p, texts, N, quote, named, claimed)
      PROVE  p.turn # 3 /\ SpanHas(p.span, texts[p.file], Counted(quote))
  <2>1. PICK i \in 1..N : i = p.file
    BY <1>9 DEF StrictPlace
  <2>2. PICK cl \in Nat : cl = ClaimIn(claimed, i, named)
    BY <1>7
  <2>3. p.span = LocateStrict(quote, texts[i], cl) /\ p.span # NoSpan /\ p.turn \in 0..2
    BY <1>9, <2>1, <2>2 DEF StrictPlace
  <2> QED  BY <1>1, <2>1, <2>3, StrictShows
<1>10. ASSUME NEW p \in places, LoosePlace(p, texts, N, quote, named, claimed)
       PROVE  p.turn = 3 /\ SpanHas(p.span, Loosely(texts[p.file]), Counted(Loosely(quote)))
  <2>1. /\ named \in 1..N /\ p.file = named /\ p.turn = 3
        /\ p.span = LocateLoose(quote, texts[named], claimed) /\ p.span # NoSpan
    BY <1>10 DEF LoosePlace
  <2> QED  BY <1>1, <2>1, LooseShows
<1>11. ASSUME ToSet(Counted(quote)) \ CommentTexts # {}, having # {} PROVE at # {}
  <2>1. PICK s \in places : StrictPlace(s, texts, N, quote, named, claimed)
    BY <1>8, <1>11
  <2>2. \A p \in places : p.turn \in Nat /\ p.file \in Nat
    <3>1. ASSUME NEW p \in places PROVE p.turn \in Nat /\ p.file \in Nat
      <4>1. CASE StrictPlace(p, texts, N, quote, named, claimed)
        BY <4>1 DEF StrictPlace
      <4>2. CASE LoosePlace(p, texts, N, quote, named, claimed)
        BY <4>2 DEF LoosePlace
      <4> QED  BY <1>6, <4>1, <4>2
    <3> QED  BY <3>1
  <2>3. PICK p \in places : \A q \in places : SoonerPlace(p, q)
    BY <2>1, <2>2, SoonestPlace
  <2>4. StrictPlace(p, texts, N, quote, named, claimed)
    <3>1. s.turn \in 0..2
      BY <2>1 DEF StrictPlace
    <3>2. p.turn <= s.turn /\ p.turn \in Nat
      BY <2>2, <2>3, <3>1 DEF SoonerPlace
    <3>3. p.turn # 3
      BY <3>1, <3>2
    <3> QED  BY <1>6, <1>10, <3>3
  <2>5. SpanHas(p.span, texts[p.file], Counted(quote))
    BY <1>9, <2>4
  <2>6. PICK w \in ToSet(Counted(quote)) : w \notin CommentTexts
    BY <1>11
  <2>7. w # Blank
    <3>1. PICK n \in Nat : DOMAIN quote = 1..n
      BY Zenon DEF IsText
    <3>2. PICK f, m : AreCounted(Counted(quote), quote, n, f, m)
      BY <3>1, CountedAre
    <3>3. PICK k \in 1..m : w = Counted(quote)[k]
      BY ONLY <2>6, <3>2 DEF ToSet, AreCounted
    <3>4. Counted(quote)[k] = quote[f[k]] /\ f[k] \in {j \in 1..n : quote[j] # Blank}
      BY ONLY <3>2, <3>3 DEF AreCounted, Ascending
    <3> QED  BY <3>3, <3>4, SMTT(30)
  <2>8. PICK i \in p.span[1]..p.span[2] : texts[p.file][i] = w
    BY <2>5, <2>6 DEF SpanHas
  <2>9. ~OnlyComments(texts[p.file], p.span)
    BY <2>6, <2>7, <2>8 DEF OnlyComments
  <2> QED  BY <1>5, <2>3, <2>9
<1>12. ASSUME NEW p \in at
       PROVE  LET code == IF p.turn = 3 THEN Loosely(texts[p.file]) ELSE texts[p.file]
                  lines == Counted(IF p.turn = 3 THEN Loosely(quote) ELSE quote)
              IN  SpanHas(p.span, code, lines)
  BY <1>5, <1>6, <1>9, <1>10
<1>13. ASSUME NEW p \in at, named \in having
       PROVE  p.file = named /\ StrictPlace(p, texts, N, quote, named, claimed)
  <2>1. PICK s \in places : s.file = named /\ StrictPlace(s, texts, N, quote, named, claimed)
    BY <1>8, <1>13
  <2>2. s.turn = 0
    BY <2>1 DEF StrictPlace
  <2>3. p \in places /\ SoonerPlace(p, s)
    BY <1>5, <2>1
  <2>4. p.turn \in 0..3
    <3>1. CASE StrictPlace(p, texts, N, quote, named, claimed)
      BY <3>1 DEF StrictPlace
    <3>2. CASE LoosePlace(p, texts, N, quote, named, claimed)
      BY <3>2 DEF LoosePlace
    <3> QED  BY <1>6, <2>3, <3>1, <3>2
  <2>5. p.turn = 0
    BY <2>2, <2>3, <2>4 DEF SoonerPlace
  <2>6. StrictPlace(p, texts, N, quote, named, claimed)
    BY <1>6, <1>10, <2>3, <2>5
  <2> QED  BY <2>5, <2>6 DEF StrictPlace
<1>14. ASSUME NEW p \in at, named # 0, claimed # 0, HasAt(texts[named], quote, claimed)
       PROVE  Distance(p.span[1], claimed) <= QuoteWindow
  <2>1. named \in 1..N /\ texts[named] \in Seq(S) /\ claimed >= 1
    BY <1>14
  <2>2. Counted(quote) # <<>>
    <3> SUFFICES ASSUME Counted(quote) = <<>> PROVE FALSE
      OBVIOUS
    <3>1. p \in places
      BY <1>5
    <3>2. CASE StrictPlace(p, texts, N, quote, named, claimed)
      <4>1. PICK i \in 1..N : i = p.file
        BY <3>2 DEF StrictPlace
      <4>2. PICK cl \in Nat : cl = ClaimIn(claimed, i, named)
        BY <1>7
      <4>3. p.span # NoSpan /\ p.span = LocateStrict(quote, texts[i], cl)
        BY <3>2, <4>1, <4>2 DEF StrictPlace
      <4> QED  BY <4>3, NowhereStrict
    <3>3. CASE LoosePlace(p, texts, N, quote, named, claimed)
      <4>1. p.span # NoSpan /\ p.span = LocateLoose(quote, texts[named], claimed)
        BY <3>3 DEF LoosePlace
      <4> QED  BY <4>1, NowhereLoose
    <3> QED  BY <1>6, <3>1, <3>2, <3>3
  <2>4. /\ Located(quote, texts[named], From(claimed - QuoteWindow), UpTo(claimed + QuoteWindow, Len(texts[named]))) # NoSpan
        /\ Located(quote, texts[named], 1, Len(texts[named])) # NoSpan
    BY <1>14, <2>1, <2>2, FoundNear
  <2>5. named \in having
    BY <1>2, <2>1, <2>4
  <2>6. p.file = named /\ p.span = LocateStrict(quote, texts[named], claimed)
    BY <1>13, <2>5 DEF StrictPlace, ClaimIn
  <2>7. IsText(texts[named])
    BY <1>1, <2>1
  <2> QED  BY <1>14, <2>4, <2>6, <2>7, StrictShows
<1> QED  BY <1>2, <1>4, <1>11, <1>12, <1>13, <1>14 DEF QuotesHoldUp, SpanHas, HasAt

\* The number of the old side that a line has is a number.
LEMMA OldLineNumber ==
    ASSUME NEW W, NEW P \in Seq(Hunks(W)), NEW line \in Int
    PROVE  OldLineFor(P, line) \in Int
<1>1. PICK H \in Nat : H = Len(P) /\ DOMAIN P = 1..H
  BY LenProperties
<1>2. PICK from : from = [i \in DOMAIN P |-> P[i].c]
  OBVIOUS
<1>3. CASE \A i \in DOMAIN P : from[i] > line
  BY <1>2, <1>3 DEF OldLineFor
<1>4. CASE ~\A i \in DOMAIN P : from[i] > line
  <2>1. PICK T : T = {i \in DOMAIN P : from[i] <= line}
    OBVIOUS
  <2>2. T \subseteq 1..H /\ T # {}
    <3>1. PICK i \in 1..H : ~(from[i] > line)
      BY <1>1, <1>4
    <3>2. P[i] \in Hunks(W)
      BY <1>1, ElementOfSeq
    <3>3. from[i] \in Nat
      BY <1>1, <1>2, <3>2 DEF Hunks
    <3> QED  BY <1>1, <2>1, <3>1, <3>3
  <2>3. PICK g : g = Max(T)
    OBVIOUS
  <2>4. g \in 1..H
    BY <2>2, <2>3, GreatestPlace
  <2>5. PICK h : h = P[g]
    OBVIOUS
  <2>6. h \in Hunks(W)
    BY <1>1, <2>4, <2>5, ElementOfSeq
  <2>7. LastWith(P, from, line) = h
    BY <2>1, <2>3, <2>5 DEF LastWith
  <2>8. h.a \in Nat /\ h.c \in Nat /\ h.lines \in Scripts(W)
    BY <2>6 DEF Hunks
  <2> DEFINE walked == {k \in DOMAIN h.lines : h.c + News(h.lines, k - 1) <= line}
             count(tag) == Cardinality({k \in walked : h.lines[k].tag = tag})
  <2>9. OldLineFor(P, line) = line + h.a - h.c + count("del") - count("add")
    BY <1>2, <1>4, <2>7 DEF OldLineFor
  <2>10. ASSUME NEW tag PROVE count(tag) \in Nat
    <3>1. PICK l \in Nat : DOMAIN h.lines = 1..l
      BY <2>8, LenProperties DEF Scripts
    <3>2. {k \in walked : h.lines[k].tag = tag} \in SUBSET (1..l)
      BY <3>1
    <3>3. IsFiniteSet({k \in walked : h.lines[k].tag = tag})
      <4> HIDE DEF walked
      <4> QED  BY <3>2, Numbers1ToN, FS_Subset
    <3> HIDE DEF walked
    <3> QED  BY <3>3, FS_CardinalityType
  <2> HIDE DEF count
  <2>11. count("del") \in Nat /\ count("add") \in Nat
    BY <2>10
  <2> QED  BY <2>8, <2>9, <2>11
<1> QED  BY <1>3, <1>4

\* The lines a patch deletes are the removed lines of the script.
DelNumbers(E) == {Olds(E, k) : k \in {j \in DOMAIN E : E[j].tag = "del"}}

\* The number of a line of the old text.
LEMMA OldOfPlace ==
    ASSUME NEW W, NEW E \in Scripts(W), NEW p \in OldPlaces(E)
    PROVE  /\ HowMany(OldPlaces(E), p - 1) + 1 = Olds(E, p) /\ Olds(E, p) \in 1..Len(OldOf(E))
           /\ OldOf(E)[Olds(E, p)] = E[p].text
<1>1. p \in DOMAIN E /\ p \in Nat /\ p >= 1 /\ p \in 0..Len(E)
  BY SidesOfScript
<1>2. Olds(E, p) = HowMany(OldPlaces(E), p)
  BY <1>1, SidesOfScript
<1>3. HowMany(OldPlaces(E), p - 1) + 1 = HowMany(OldPlaces(E), p)
  BY <1>1, CountsOfPlaces
<1>4. IsTexts(OldOf(E), E, OldPlaces(E), W)
  BY SidesOfScript, TextsOfPlaces
<1> QED  BY <1>2, <1>3, <1>4 DEF IsTexts

LEMMA DeletedAre ==
    ASSUME NEW W, NEW E \in Scripts(W), NEW n \in Nat, NEW H \in Nat, NEW Bs, NEW P, IsPatch(P, E, W, n, H, Bs)
    PROVE  DeletedOldLines(P) = DelNumbers(E)
<1>1. ASSUME NEW q \in Tagged(P, "del")
      PROVE  \E p \in DOMAIN E : E[p].tag = "del" /\ OldNo(P[q[1]], q[2]) = Olds(E, p)
  <2>1. q \in UNION {{i} \X DOMAIN P[i].lines : i \in DOMAIN P} /\ P[q[1]].lines[q[2]].tag = "del"
    BY DEF Tagged
  <2>2. PICK p : IsPlaceOf(q, P, E, Bs, H, p)
    BY <2>1, PlacesOfLines
  <2>3. p \in DOMAIN E /\ E[p].tag = "del" /\ OldNo(P[q[1]], q[2]) = HowMany(OldPlaces(E), p - 1) + 1
    BY <2>1, <2>2 DEF IsPlaceOf
  <2>4. p \in OldPlaces(E)
    BY <2>3, SidesOfScript
  <2>5. HowMany(OldPlaces(E), p - 1) + 1 = Olds(E, p)
    BY <2>4, OldOfPlace
  <2> QED  BY <2>3, <2>5
<1>2. ASSUME NEW k \in DOMAIN E, E[k].tag = "del"
      PROVE  \E q \in Tagged(P, "del") : OldNo(P[q[1]], q[2]) = Olds(E, k)
  <2>1. PICK q \in Tagged(P, "del") : IsPlaceOf(q, P, E, Bs, H, k)
    BY <1>2, RemovedInPatch
  <2>2. OldNo(P[q[1]], q[2]) = HowMany(OldPlaces(E), k - 1) + 1
    BY <2>1 DEF IsPlaceOf
  <2>3. k \in OldPlaces(E)
    BY <1>2, SidesOfScript
  <2>4. HowMany(OldPlaces(E), k - 1) + 1 = Olds(E, k)
    BY <2>3, OldOfPlace
  <2> QED  BY <2>1, <2>2, <2>4
<1>3. ASSUME NEW x \in DeletedOldLines(P) PROVE x \in DelNumbers(E)
  <2>1. PICK q \in Tagged(P, "del") : x = OldNo(P[q[1]], q[2])
    BY <1>3 DEF DeletedOldLines
  <2>2. PICK p \in DOMAIN E : E[p].tag = "del" /\ OldNo(P[q[1]], q[2]) = Olds(E, p)
    BY <1>1
  <2> QED  BY <2>1, <2>2 DEF DelNumbers
<1>4. ASSUME NEW x \in DelNumbers(E) PROVE x \in DeletedOldLines(P)
  <2>1. PICK k \in DOMAIN E : E[k].tag = "del" /\ x = Olds(E, k)
    BY <1>4 DEF DelNumbers
  <2> QED  BY <1>2, <2>1 DEF DeletedOldLines
<1> QED  BY <1>3, <1>4

\* A line of the old text that the new text does not have is a removed one.
LEMMA GoneIsDeleted ==
    ASSUME NEW W, NEW E \in Scripts(W), NEW m \in DOMAIN OldOf(E), OldOf(E)[m] \notin ToSet(NewOf(E))
    PROVE  \E k \in DOMAIN E : E[k].tag = "del" /\ Olds(E, k) = m
<1>1. IsTexts(OldOf(E), E, OldPlaces(E), W) /\ IsTexts(NewOf(E), E, NewPlaces(E), W)
  BY SidesOfScript, TextsOfPlaces
<1>2. Len(E) \in Nat /\ m \in 1..HowMany(OldPlaces(E), Len(E))
  BY <1>1, SidesOfScript DEF IsTexts
<1>3. PICK k \in 1..Len(E) : k \in OldPlaces(E) /\ HowMany(OldPlaces(E), k) = m
  BY <1>2, CountReaches
<1>4. Olds(E, k) = m /\ k \in DOMAIN E /\ E[k].tag \in {"keep", "del"}
  BY <1>3, SidesOfScript
<1>5. OldOf(E)[m] = E[k].text
  BY <1>3, <1>4, OldOfPlace
<1>6. k \notin NewPlaces(E)
  <2>1. ASSUME k \in NewPlaces(E) PROVE E[k].text \in ToSet(NewOf(E))
    BY <1>1, <2>1 DEF IsTexts, ToSet
  <2> QED  BY <1>5, <2>1
<1>7. E[k].tag = "del"
  BY <1>4, <1>6, SidesOfScript
<1> QED  BY <1>4, <1>7

\* A quote of one line is found at a line that is alike, if there is one.
OneFound(span, w, text, lo, hi) ==
    IF \E i \in lo..hi : text[i] = w THEN \E i \in lo..hi : text[i] = w /\ span = <<i, i>> ELSE span = NoSpan

LEMMA OneLineFound ==
    ASSUME NEW w, w # Blank, NEW text, NEW lo \in Nat, lo >= 1, NEW hi \in Int
    PROVE  OneFound(Located(<<w>>, text, lo, hi), w, text, lo, hi)
<1>1. PICK q : q = <<w>>
  OBVIOUS
<1>2. DOMAIN q = 1..1 /\ q[1] = w
  BY <1>1
<1>3. PICK lines : lines = Counted(q)
  OBVIOUS
<1>4. PICK f, m : AreCounted(lines, q, 1, f, m)
  BY <1>2, <1>3, CountedAre
<1>5. /\ m \in Nat /\ DOMAIN lines = 1..m /\ lines \in Seq({lines[k] : k \in 1..m})
      /\ Ascending(f, {k \in 1..1 : q[k] # Blank}, m) /\ \A k \in 1..m : lines[k] = q[f[k]]
  BY <1>4 DEF AreCounted
<1>6. {k \in 1..1 : q[k] # Blank} = {1}
  BY <1>2
<1>7. Ascending(f, {1}, m)
  BY <1>5, <1>6
<1>8. m = 1 /\ f[1] = 1
  <2>1. /\ \A k \in 1..m : f[k] = 1
        /\ \E k \in 1..m : f[k] = 1
        /\ \A j, k \in 1..m : j < k <=> f[j] < f[k]
    BY <1>7 DEF Ascending
  <2>2. m >= 1 /\ 1 \in 1..m
    BY <1>5, <2>1
  <2>3. ~(1 < m)
    <3>1. m \in 1..m /\ f[m] = 1 /\ f[1] = 1
      BY <1>5, <2>1, <2>2
    <3>2. 1 < m <=> f[1] < f[m]
      BY <2>1, <2>2, <3>1
    <3> QED  BY <3>1, <3>2
  <2> QED  BY <1>5, <2>1, <2>2, <2>3
<1>9. lines[1] = w
  BY <1>2, <1>5, <1>8
<1>10. PICK span : span = Located(q, text, lo, hi)
  OBVIOUS
<1>11. /\ span # NoSpan => IsSpan(span, lines, text, lo, hi, m)
       /\ m >= 1 /\ (\E g : PlacedAt(g, lines, text, lo, hi, m)) => span # NoSpan
  BY <1>3, <1>5, <1>10, LocatedIs
<1>12. ASSUME NEW i \in lo..hi, text[i] = w PROVE span # NoSpan
  <2>1. PICK g : g = [k \in 1..1 |-> i]
    OBVIOUS
  <2>2. g[1] = i
    BY <2>1
  <2>3. PlacedAt(g, lines, text, lo, hi, 1)
    BY <1>9, <1>12, <2>2 DEF PlacedAt
  <2> QED  BY <1>8, <1>11, <2>3
<1>13. ASSUME span # NoSpan PROVE \E i \in lo..hi : text[i] = w /\ span = <<i, i>>
  <2>1. PICK g : PlacedAt(g, lines, text, lo, hi, 1) /\ span = <<g[1], g[1]>>
    BY <1>8, <1>11, <1>13 DEF IsSpan
  <2>2. 1 \in 1..1
    OBVIOUS
  <2>3. g[1] \in lo..hi /\ text[g[1]] = w
    BY <1>9, <2>1, <2>2 DEF PlacedAt
  <2> QED  BY <2>1, <2>3
<1> QED  BY <1>1, <1>10, <1>12, <1>13 DEF OneFound

\* A line is in the new code where the new text has it.
LEMMA InNewCodeIs ==
    ASSUME NEW S, NEW new \in Seq(S), NEW w, w # Blank
    PROVE  InNewCode(<<new>>, <<w>>) <=> w \in ToSet(new)
<1>1. PICK n \in Nat : n = Len(new) /\ DOMAIN new = 1..n
  BY LenProperties
<1>2. PICK texts : texts = <<new>>
  OBVIOUS
<1>3. DOMAIN texts = {1} /\ texts[1] = new
  BY <1>2
<1>4. InNewCode(texts, <<w>>) <=> Located(<<w>>, new, 1, n) # NoSpan
  BY <1>1, <1>3 DEF InNewCode
<1>5. OneFound(Located(<<w>>, new, 1, n), w, new, 1, n)
  <2>1. 1 \in Nat /\ 1 >= 1 /\ n \in Int
    OBVIOUS
  <2> QED  BY <2>1, OneLineFound
<1>6. w \in ToSet(new) <=> \E i \in 1..n : new[i] = w
  BY <1>1 DEF ToSet
<1>7. \A i \in 1..n : <<i, i>> # NoSpan
  BY DEF NoSpan
<1> QED  BY <1>2, <1>4, <1>5, <1>6, <1>7 DEF OneFound

\* The old line of a removed control, where it is believed.
NearLines(old, text, target) == {m \in DOMAIN old : old[m] = text /\ Distance(m, target) <= QuoteWindow}

SaidIs(said, near, P, text, new) ==
    IF near = {} THEN said = {}
    ELSE \E m \in near : said = IF /\ P # <<>> /\ m \in DeletedOldLines(P) /\ text \notin CommentTexts
                                   /\ text \in ControlTexts /\ text \notin ToSet(new)
                                THEN {m} ELSE {}

LEMMA RemovedControlIs ==
    ASSUME NEW E, NEW P, NEW S, NEW old \in Seq(S), old = OldOf(E), NEW R, NEW new \in Seq(R),
           NEW text, text # Blank, NEW line, NEW target \in Int, target = OldLineFor(P, line)
    PROVE  SaidIs(RemovedControl(E, P, <<new>>, <<text>>, line, {}), NearLines(old, text, target), P, text, new)
<1> DEFINE near == NearLines(old, text, target)
           said == RemovedControl(E, P, <<new>>, <<text>>, line, {})
           matched(span) == {n \in span[1]..span[2] : n # 0 /\ old[n] # Blank}
           told(lines) == /\ lines # {} /\ AllDeleted(lines, DeletedOldLines(P))
                          /\ \A n \in lines : old[n] \notin CommentTexts
                          /\ \E n \in lines : old[n] \in ControlTexts
                          /\ ~InNewCode(<<new>>, <<text>>) /\ lines \cap {} = {}
<1>1. PICK c \in Nat, w \in Nat : c = Len(old) /\ DOMAIN old = 1..c /\ w = QuoteWindow /\ 1 <= MaxRemovedLines
  BY LenProperties, WindowsAssumption
<1>2. PICK lo, hi : lo = From(target - w) /\ hi = UpTo(target + w, c)
  OBVIOUS
<1>3. lo \in Nat /\ lo >= 1 /\ hi \in Int /\ \A m \in Int : m \in lo..hi <=> m \in 1..c /\ Distance(m, target) <= w
  BY <1>2, SMTT(30) DEF From, UpTo, Distance
<1>4. PICK found : found = Located(<<text>>, old, lo, hi)
  OBVIOUS
<1>5. OneFound(found, text, old, lo, hi)
  BY <1>3, <1>4, OneLineFound
<1>6. Len(<<text>>) <= MaxRemovedLines
  BY <1>1
<1>7. said = {span[1] : span \in {f \in {found} : P # <<>> /\ Len(<<text>>) <= MaxRemovedLines /\ told(matched(f))}}
  BY <1>1, <1>2, <1>4 DEF RemovedControl
<1>8. said = IF P # <<>> /\ told(matched(found)) THEN {found[1]} ELSE {}
  <2> HIDE DEF told, matched, said
  <2> QED  BY <1>6, <1>7
<1>9. near = {m \in lo..hi : old[m] = text}
  BY <1>1, <1>3 DEF NearLines
<1> HIDE DEF said, near
<1>10. ASSUME near = {} PROVE SaidIs(said, near, P, text, new)
  <2>1. found = NoSpan
    BY <1>5, <1>9, <1>10 DEF OneFound
  <2>2. matched(found) = {}
    BY <2>1 DEF NoSpan
  <2> QED  BY <1>8, <1>10, <2>2 DEF SaidIs
<1>11. ASSUME near # {} PROVE SaidIs(said, near, P, text, new)
  <2>1. PICK m \in lo..hi : old[m] = text /\ found = <<m, m>>
    BY <1>5, <1>9, <1>11 DEF OneFound
  <2>2. m \in near /\ m # 0 /\ m \in Int /\ found[1] = m /\ found[2] = m
    BY <1>3, <1>9, <2>1
  <2>3. matched(found) = {m}
    BY <2>1, <2>2
  <2>4. told({m}) <=> /\ m \in DeletedOldLines(P) /\ text \notin CommentTexts /\ text \in ControlTexts
                      /\ text \notin ToSet(new)
    BY <2>1, InNewCodeIs DEF AllDeleted
  <2>5. said = IF /\ P # <<>> /\ m \in DeletedOldLines(P) /\ text \notin CommentTexts
                  /\ text \in ControlTexts /\ text \notin ToSet(new) THEN {m} ELSE {}
    BY <1>8, <2>2, <2>3, <2>4
  <2> QED  BY <1>11, <2>2, <2>5 DEF SaidIs
<1> QED  BY <1>10, <1>11 DEF said, near

\* Of a nonempty set of numbers one is nearest, to whatever number.
LEMMA ClosestInSet ==
    ASSUME NEW S, S \subseteq Nat, S # {}, NEW x \in Int
    PROVE  Closest(S, x) \in S
<1> DEFINE D == {Distance(s, x) : s \in S}
<1>1. \A s \in S : Distance(s, x) \in Nat
  BY DEF Distance
<1>2. D \subseteq Nat /\ D # {}
  BY <1>1
<1>3. \E d \in D : \A e \in D : d <= e
  <2> HIDE DEF D
  <2> QED  BY <1>2, LeastOfSome
<1>4. \E s \in S : \A t \in S : Distance(s, x) <= Distance(t, x)
  BY <1>3
<1> QED  BY <1>4 DEF Closest

\* The comparison of the versions: why the removal of a line is no evidence within a whole file.
LEMMA ReasonIs ==
    ASSUME NEW E, NEW P, NEW new, NEW S, NEW old \in Seq(S), old = OldOf(E), NEW text, text # None,
           NEW line, OldLineFor(P, line) \in Int,
           DeletedOldLines(P) \subseteq DOMAIN old,
           \A m \in DeletedOldLines(P) : NewLineFor(P, m) # 0,
           NEW why, why = GuardReason(E, P, <<new>>, [line |-> 0, old |-> text, alert |-> FALSE], {}, line, line,
                                      {<<1, Len(new)>>}, {<<1, Len(old)>>})
    PROVE  /\ InNewCode(<<new>>, <<text>>) => why # "none"
           /\ ~InNewCode(<<new>>, <<text>>) /\ (\E m \in DeletedOldLines(P) : old[m] = text) => why = "none"
<1> DEFINE c == [line |-> 0, old |-> text, alert |-> FALSE]
           fn == {<<1, Len(new)>>}
           oldFn == {<<1, Len(old)>>}
           hits == DeletedWith(E, P, c.old)
           oldLine == IF hits = {} THEN 0 ELSE Closest(hits, OldLineFor(P, line))
           at == IF c.line # 0 \/ oldLine = 0 THEN c.line ELSE NewLineFor(P, oldLine)
           scope == IF fn # {} THEN fn ELSE {<<line - GuardWindow, line + GuardWindow>>}
           inScope == IF c.line = 0 /\ oldLine # 0 /\ fn # {} /\ oldFn # {}
                      THEN Within(oldLine, oldFn) ELSE Within(at, scope)
           moved == InNewCode(<<new>>, <<c.old>>)
           reported == \/ c.alert \/ oldLine \in AlertOld(E, P, {})
                       \/ (c.line # 0 /\ c.line \in AlertNew({}))
<1>1. c.line = 0 /\ c.old = text /\ c.alert = FALSE
  OBVIOUS
<1>2. why = CASE c.old = None -> "no_old_code"
              [] c.old # None /\ at = 0 -> "not_located"
              [] c.old # None /\ at # 0 /\ ~inScope -> IF fn = {} THEN "too_far" ELSE "other_function"
              [] c.old # None /\ at # 0 /\ inScope ->
                    IF moved THEN "moved" ELSE IF reported THEN "alert_reported" ELSE "none"
  BY DEF GuardReason
<1>3. moved <=> InNewCode(<<new>>, <<text>>)
  OBVIOUS
<1>4. fn # {} /\ oldFn # {}
  OBVIOUS
<1>5. hits = {n \in DeletedOldLines(P) : old[n] = text}
  BY DEF DeletedWith
<1>6. ~reported
  BY <1>1 DEF AlertOld
<1>7. ASSUME \E m \in DeletedOldLines(P) : old[m] = text PROVE at # 0 /\ inScope
  <2>1. hits # {} /\ hits \subseteq DeletedOldLines(P)
    BY <1>5, <1>7
  <2>2. DOMAIN old = 1..Len(old) /\ Len(old) \in Nat
    BY LenProperties
  <2>3. hits \subseteq Nat /\ hits \subseteq 1..Len(old)
    BY <2>1, <2>2
  <2>4. oldLine = Closest(hits, OldLineFor(P, line))
    BY <2>1
  <2>5. oldLine \in hits
    <3> HIDE DEF hits, oldLine
    <3> QED  BY <2>1, <2>3, <2>4, ClosestInSet
  <2> HIDE DEF hits, oldLine
  <2>6. oldLine # 0 /\ oldLine \in 1..Len(old)
    BY <2>3, <2>5
  <2>7. at = NewLineFor(P, oldLine)
    BY <2>6
  <2>8. at # 0
    BY <2>1, <2>5, <2>7
  <2>9. Within(oldLine, oldFn)
    BY <2>6 DEF Within
  <2> QED  BY <1>1, <1>4, <2>6, <2>8, <2>9
<1> HIDE DEF at, inScope, moved, reported, fn
<1>8. why = IF at = 0 THEN "not_located" ELSE IF ~inScope THEN "other_function"
            ELSE IF moved THEN "moved" ELSE "none"
  <2>1. c.old # None
    BY <1>1
  <2> HIDE DEF c
  <2>2. CASE at = 0
    BY <1>2, <2>1, <2>2
  <2>3. CASE at # 0 /\ ~inScope
    BY <1>2, <1>4, <2>1, <2>3
  <2>4. CASE at # 0 /\ inScope
    BY <1>2, <1>6, <2>1, <2>4
  <2> QED  BY <2>2, <2>3, <2>4
<1> HIDE DEF c
<1> QED  BY <1>3, <1>7, <1>8

\* What RemovalAgrees says of one text.
TextAgrees(text, said, why, near, P, old, new) ==
    /\ said # {} <=> near # {} /\ text \notin ToSet(new) /\ text \in ControlTexts \ CommentTexts
    /\ \A quoted \in said : old[quoted] = text /\ why = "none" /\ NewLineFor(P, quoted) \in Touched(P)
    /\ why = "none" => text \notin ToSet(new)

\* RemovalAgrees, of a patch and the texts of the script.
AgreesFor(E, line, P, old, new) ==
    E # <<>> /\ line \in DOMAIN new =>
        \A text \in ToSet(old) \ {Blank} :
            \A said \in {RemovedControl(E, P, <<new>>, <<text>>, line, {})},
               why \in {GuardReason(E, P, <<new>>, [line |-> 0, old |-> text, alert |-> FALSE], {}, line, line,
                                    {<<1, Len(new)>>}, {<<1, Len(old)>>})} :
                TextAgrees(text, said, why,
                           {m \in DOMAIN old : old[m] = text /\ Distance(m, OldLineFor(P, line)) <= QuoteWindow},
                           P, old, new)

\* A removed control that is quoted and the comparison of the versions agree.
LEMMA RemovalHolds ==
    ASSUME NEW W, None \notin W, NEW E \in Scripts(W), NEW line \in Nat
    PROVE  RemovalAgrees(E, line)
<1>1. PICK P, Bs, H : H \in Nat /\ P = Patch(E, 1) /\ IsPatch(P, E, W, 1, H, Bs)
  <2>1. PICK H, Bs : H \in Nat /\ IsPatch(Patch(E, 1), E, W, 1, H, Bs)
    BY PatchFacts
  <2> QED  BY <2>1
<1>2. P \in Seq(Hunks(W)) /\ (P = <<>> <=> \A k \in DOMAIN E : E[k].tag = "keep")
  BY <1>1, PatchTyped
<1>3. PICK old, new : old = OldOf(E) /\ new = NewOf(E)
  OBVIOUS
<1>4. old \in Seq(W) /\ new \in Seq(W) /\ Len(new) \in Nat /\ DOMAIN old = 1..Len(old)
  BY <1>3, SidesOfScript, TextsOfPlaces, LenProperties DEF IsTexts
<1>5. PICK target : target = OldLineFor(P, line) /\ target \in Int
  BY <1>2, OldLineNumber
<1>6. DeletedOldLines(P) = DelNumbers(E)
  BY <1>1, DeletedAre
<1>7. ASSUME NEW m \in DelNumbers(E)
      PROVE  P # <<>> /\ m \in DOMAIN old /\ NewLineFor(P, m) \in Touched(P)
  <2>1. PICK k \in DOMAIN E : E[k].tag = "del" /\ m = Olds(E, k)
    BY <1>7 DEF DelNumbers
  <2>2. k \in OldPlaces(E)
    BY <2>1, SidesOfScript
  <2>3. m \in 1..Len(old)
    BY <1>3, <2>1, <2>2, OldOfPlace
  <2>4. NewLineFor(P, m) \in Touched(P)
    BY <1>1, <2>1, NewLineIs
  <2>5. "del" # "keep"
    OBVIOUS
  <2> QED  BY <1>2, <1>4, <2>1, <2>3, <2>4, <2>5
<1>8. DelNumbers(E) \subseteq DOMAIN old
  BY <1>7
<1>9. \A m \in DelNumbers(E) : NewLineFor(P, m) # 0
  <2>1. Touched(P) \subseteq 1..(Len(new) + 1)
    BY <1>1, <1>3, TouchedNumbers
  <2> QED  BY <1>4, <1>7, <2>1
<1>10. ASSUME NEW text \in ToSet(old) \ {Blank}, NEW said, NEW why,
              said = RemovedControl(E, P, <<new>>, <<text>>, line, {}),
              why = GuardReason(E, P, <<new>>, [line |-> 0, old |-> text, alert |-> FALSE], {}, line, line,
                                {<<1, Len(new)>>}, {<<1, Len(old)>>})
       PROVE  TextAgrees(text, said, why, NearLines(old, text, target), P, old, new)
  <2>1. text \in W /\ text # None /\ text # Blank
    BY <1>4, ElementOfSeq DEF ToSet
  <2>2. PICK near : near = NearLines(old, text, target)
    OBVIOUS
  <2>3. SaidIs(said, near, P, text, new)
    BY <1>3, <1>4, <1>5, <1>10, <2>1, <2>2, RemovedControlIs
  <2>4. InNewCode(<<new>>, <<text>>) <=> text \in ToSet(new)
    BY <1>4, <2>1, InNewCodeIs
  <2>5. /\ InNewCode(<<new>>, <<text>>) => why # "none"
        /\ ~InNewCode(<<new>>, <<text>>) /\ (\E m \in DeletedOldLines(P) : old[m] = text) => why = "none"
    BY <1>3, <1>4, <1>5, <1>6, <1>8, <1>9, <1>10, <2>1, ReasonIs
  <2>6. ASSUME NEW m \in near, text \notin ToSet(new) PROVE m \in DelNumbers(E)
    <3>1. m \in DOMAIN old /\ old[m] = text
      BY <2>2, <2>6 DEF NearLines
    <3>2. PICK k \in DOMAIN E : E[k].tag = "del" /\ Olds(E, k) = m
      BY <1>3, <2>6, <3>1, GoneIsDeleted
    <3> QED  BY <3>2 DEF DelNumbers
  <2>7. ASSUME near = {} PROVE said = {}
    BY <2>3, <2>7 DEF SaidIs
  <2>8. ASSUME near # {}, text \notin ToSet(new), text \in ControlTexts \ CommentTexts PROVE said # {}
    <3>1. PICK m \in near : said = IF /\ P # <<>> /\ m \in DeletedOldLines(P) /\ text \notin CommentTexts
                                      /\ text \in ControlTexts /\ text \notin ToSet(new) THEN {m} ELSE {}
      BY <2>3, <2>8 DEF SaidIs
    <3>2. m \in DeletedOldLines(P) /\ P # <<>>
      BY <1>6, <1>7, <2>6, <2>8
    <3> QED  BY <2>8, <3>1, <3>2
  <2>9. ASSUME NEW quoted \in said
        PROVE  /\ near # {} /\ text \notin ToSet(new) /\ text \in ControlTexts \ CommentTexts
               /\ old[quoted] = text /\ quoted \in DelNumbers(E)
    <3>1. near # {}
      BY <2>7, <2>9
    <3>2. PICK m \in near : said = IF /\ P # <<>> /\ m \in DeletedOldLines(P) /\ text \notin CommentTexts
                                      /\ text \in ControlTexts /\ text \notin ToSet(new) THEN {m} ELSE {}
      BY <2>3, <3>1 DEF SaidIs
    <3>3. /\ quoted = m /\ m \in DeletedOldLines(P) /\ text \notin CommentTexts
          /\ text \in ControlTexts /\ text \notin ToSet(new)
      BY <2>9, <3>2
    <3>4. old[m] = text
      BY <2>2, <3>2 DEF NearLines
    <3> QED  BY <1>6, <3>1, <3>3, <3>4
  <2>10. ASSUME NEW quoted \in said PROVE why = "none" /\ NewLineFor(P, quoted) \in Touched(P)
    <3>1. quoted \in DeletedOldLines(P) /\ old[quoted] = text /\ text \notin ToSet(new)
      BY <1>6, <2>9, <2>10
    <3>2. why = "none"
      BY <2>4, <2>5, <3>1
    <3>3. NewLineFor(P, quoted) \in Touched(P)
      BY <1>6, <1>7, <3>1
    <3> QED  BY <3>2, <3>3
  <2>11. said # {} <=> near # {} /\ text \notin ToSet(new) /\ text \in ControlTexts \ CommentTexts
    BY <2>8, <2>9
  <2>12. why = "none" => text \notin ToSet(new)
    BY <2>4, <2>5
  <2> QED  BY <2>2, <2>9, <2>10, <2>11, <2>12 DEF TextAgrees
<1>11. ASSUME NEW text \in ToSet(old) \ {Blank},
              NEW said \in {RemovedControl(E, P, <<new>>, <<text>>, line, {})},
              NEW why \in {GuardReason(E, P, <<new>>, [line |-> 0, old |-> text, alert |-> FALSE], {}, line, line,
                                       {<<1, Len(new)>>}, {<<1, Len(old)>>})}
       PROVE  TextAgrees(text, said, why, {m \in DOMAIN old : old[m] = text /\ Distance(m, OldLineFor(P, line)) <= QuoteWindow},
                         P, old, new)
  BY <1>5, <1>10 DEF NearLines
<1>12. AgreesFor(E, line, P, old, new)
  BY <1>11 DEF AgreesFor
<1>13. AgreesFor(E, line, Patch(E, 1), OldOf(E), NewOf(E)) => RemovalAgrees(E, line)
  BY DEF AgreesFor, TextAgrees, RemovalAgrees
<1> QED  BY <1>1, <1>3, <1>12, <1>13

------------------------------------------------------------------------------
(* The inputs.                                                             *)

Reports == [llm : Seq(Confirmed), alerts : Seq(Alerts), outcome : Outcomes]
Versions == [old : Seq(Constructs), new : Seq(Constructs)]

\* What the input of each topic is made of.
InputTyped ==
    /\ topic = "report" => input \in Reports
    /\ topic = "reply" => input \in Seq(Pieces)
    /\ topic = "units" => input \in Seq(UnitAnswers)
    /\ topic = "versions" => input \in Versions
    /\ topic = "script" => input \in Scripts(Words["script"]) /\ Len(input) <= MaxLines["script"]
    /\ topic = "retrieval" => input \in Seq(Retrieved) /\ AlikeScored(input)
    /\ topic = "candidates" => input \in Seq(EvalCandidates)
    /\ topic = "removal" => input \in Scripts(Words["removal"])
    /\ topic = "quotes" => input \in [1..2 -> Seq(QuoteWords)]
    /\ topic = "scan" => input \in Seq(ScanUnitShapes)

\* A behaviour has one topic, and a step adds to its input.
LEMMA OneTopic ==
    ASSUME [Next]_vars
    PROVE  /\ topic' = topic
           /\ input' # input => CASE topic = "report" -> AddFinding
                                  [] topic = "reply" -> AddPiece
                                  [] topic = "units" -> AddUnitAnswer
                                  [] topic = "versions" -> AddConstruct
                                  [] topic = "script" -> AddLine
                                  [] topic = "retrieval" -> AddRetrieved
                                  [] topic = "candidates" -> AddCandidate
                                  [] topic = "removal" -> AddLine
                                  [] topic = "quotes" -> AddText
                                  [] topic = "scan" -> AddScanUnit
                                  [] OTHER -> TRUE
BY DEF Next, vars, AddLine, AddConstruct, AddText, AddFinding, AddPiece, AddUnitAnswer, AddRow, AddClaim,
   AddFile, AddSymbol, AddRequests, AddRetrieved, AddCandidate, AddItem, AddFixCommit, AddScanUnit

LEMMA FindingsGrow ==
    ASSUME input \in Reports, AddFinding
    PROVE  input' \in Reports
<1>1. /\ input.llm \in Seq(Confirmed) /\ input.alerts \in Seq(Alerts) /\ input.outcome \in Outcomes
      /\ input = [llm |-> input.llm, alerts |-> input.alerts, outcome |-> input.outcome]
  BY DEF Reports
<1>2. CASE \E f \in Confirmed : input' = [input EXCEPT !.llm = Append(@, f)]
  <2>1. PICK f \in Confirmed : input' = [input EXCEPT !.llm = Append(@, f)]
    BY <1>2
  <2>2. PICK v : v = Append(input.llm, f) /\ v \in Seq(Confirmed)
    BY <1>1, AppendProperties
  <2>3. input' = [llm |-> v, alerts |-> input.alerts, outcome |-> input.outcome]
    BY <1>1, <2>1, <2>2
  <2> QED  BY <1>1, <2>2, <2>3 DEF Reports
<1>3. CASE \E c \in Alerts : input' = [input EXCEPT !.alerts = Append(@, c)]
  <2>1. PICK c \in Alerts : input' = [input EXCEPT !.alerts = Append(@, c)]
    BY <1>3
  <2>2. PICK v : v = Append(input.alerts, c) /\ v \in Seq(Alerts)
    BY <1>1, AppendProperties
  <2>3. input' = [llm |-> input.llm, alerts |-> v, outcome |-> input.outcome]
    BY <1>1, <2>1, <2>2
  <2> QED  BY <1>1, <2>2, <2>3 DEF Reports
<1> QED  BY <1>2, <1>3 DEF AddFinding

LEMMA ConstructsGrow ==
    ASSUME input \in Versions, AddConstruct
    PROVE  input' \in Versions
<1>1. PICK side \in {"old", "new"}, x \in Constructs : input' = [input EXCEPT ![side] = Append(@, x)]
  BY DEF AddConstruct
<1>2. /\ input.old \in Seq(Constructs) /\ input.new \in Seq(Constructs)
      /\ input = [old |-> input.old, new |-> input.new]
  BY DEF Versions
<1>3. CASE side = "old"
  <2>1. PICK v : v = Append(input.old, x) /\ v \in Seq(Constructs)
    BY <1>2, AppendProperties
  <2>2. input' = [old |-> v, new |-> input.new]
    BY <1>1, <1>2, <1>3, <2>1
  <2> QED  BY <1>2, <2>1, <2>2 DEF Versions
<1>4. CASE side = "new"
  <2>1. PICK v : v = Append(input.new, x) /\ v \in Seq(Constructs)
    BY <1>2, AppendProperties
  <2>2. input' = [old |-> input.old, new |-> v]
    BY <1>1, <1>2, <1>4, <2>1
  <2> QED  BY <1>2, <2>1, <2>2 DEF Versions
<1> QED  BY <1>3, <1>4

LEMMA ScriptGrows ==
    ASSUME topic \in {"script", "removal"}, input \in Scripts(Words[topic]), AddLine
    PROVE  input' \in Scripts(Words[topic]) /\ (topic = "script" => Len(input') <= MaxLines["script"])
<1>1. PICK t \in {"keep", "del", "add"}, w \in Words[topic] :
          input' = Append(input, [tag |-> t, text |-> w])
  BY DEF AddLine
<1>2. PICK S : S = [tag : {"keep", "del", "add"}, text : Words[topic]]
  OBVIOUS
<1>3. input \in Seq(S) /\ [tag |-> t, text |-> w] \in S
  BY <1>2 DEF Scripts
<1>4. input' \in Seq(S) /\ Len(input') = Len(input) + 1 /\ Len(input) \in Nat
  BY <1>1, <1>3, AppendProperties, LenProperties
<1>5. topic = "script" => Len(input) < MaxLines["script"] /\ MaxLines["script"] \in Nat
  BY NoneAssumption DEF AddLine
<1> QED  BY <1>2, <1>4, <1>5 DEF Scripts

LEMMA MatchesGrow ==
    ASSUME input \in Seq(Retrieved), AlikeScored(input), AddRetrieved
    PROVE  input' \in Seq(Retrieved) /\ AlikeScored(input')
<1>1. PICK m \in Retrieved : /\ input # <<>> => (m.prob = Unscored <=> input[1].prob = Unscored)
                             /\ input' = Append(input, m)
  BY DEF AddRetrieved
<1>2. PICK n \in Nat : n = Len(input)
  BY LenProperties
<1>3. /\ input' \in Seq(Retrieved) /\ Len(input') = n + 1
      /\ (\A i \in 1..n : input'[i] = input[i]) /\ input'[n + 1] = m
  BY <1>1, <1>2, AppendProperties
<1>4. CASE n = 0
  <2>1. \A i \in 1..(n + 1) : i = n + 1
    BY <1>4
  <2> QED  BY <1>3, <2>1 DEF AlikeScored
<1>5. CASE n > 0
  <2>1. input # <<>> /\ 1 \in 1..n /\ \A i \in 1..(n + 1) : i \in 1..n \/ i = n + 1
    BY <1>2, <1>5
  <2>2. m.prob = Unscored <=> input[1].prob = Unscored
    BY <1>1, <2>1
  <2> QED  BY <1>2, <1>3, <2>1, <2>2 DEF AlikeScored
<1> QED  BY <1>2, <1>3, <1>4, <1>5

\* The inputs of a behaviour are made of what its topic says.
THEOREM InputsTyped == Spec => []InputTyped
<1>1. ASSUME Init PROVE InputTyped
  <2>1. <<>> \in Seq(Confirmed) /\ <<>> \in Seq(Alerts) /\ <<>> \in Seq(Pieces) /\ <<>> \in Seq(UnitAnswers)
        /\ <<>> \in Seq(Constructs)
    BY EmptySeq
  <2>2. CASE topic \notin {"report", "versions", "script", "retrieval", "candidates", "removal", "quotes", "scan"}
    BY <1>1, <2>1, <2>2 DEF Init, InputTyped
  <2>3. CASE topic = "report"
    <3>1. PICK o \in Outcomes : input = [llm |-> <<>>, alerts |-> <<>>, outcome |-> o]
      BY <1>1, <2>3 DEF Init
    <3>2. input \in Reports
      BY <2>1, <3>1 DEF Reports
    <3> QED  BY <2>3, <3>2 DEF InputTyped
  <2>4. CASE topic = "versions"
    <3>1. input = [old |-> <<>>, new |-> <<>>]
      BY <1>1, <2>4 DEF Init
    <3>2. input \in Versions
      BY <2>1, <3>1 DEF Versions
    <3> QED  BY <2>4, <3>2 DEF InputTyped
  <2>5. CASE topic = "script"
    <3>1. input = <<>>
      BY <1>1, <2>5 DEF Init
    <3>2. input \in Scripts(Words["script"]) /\ Len(input) = 0
      BY <3>1, EmptySeq DEF Scripts
    <3> QED  BY <2>5, <3>2, NoneAssumption DEF InputTyped
  <2>6. CASE topic \in {"retrieval", "candidates"}
    <3>1. input = <<>>
      BY <1>1, <2>6 DEF Init
    <3>2. <<>> \in Seq(Retrieved) /\ <<>> \in Seq(EvalCandidates) /\ Len(<<>>) = 0
      BY EmptySeq
    <3>3. AlikeScored(<<>>)
      BY <3>2 DEF AlikeScored
    <3> QED  BY <2>6, <3>1, <3>2, <3>3 DEF InputTyped
  <2>7. CASE topic \in {"removal", "scan"}
    <3>1. input = <<>>
      BY <1>1, <2>7 DEF Init
    <3>2. input \in Scripts(Words["removal"]) /\ input \in Seq(ScanUnitShapes)
      BY <3>1, EmptySeq DEF Scripts
    <3> QED  BY <2>7, <3>2 DEF InputTyped
  <2>8. CASE topic = "quotes"
    <3>1. input = <<<<>>, <<>>>>
      BY <1>1, <2>8 DEF Init
    <3>2. <<>> \in Seq(QuoteWords)
      BY EmptySeq
    <3>3. PICK e, S : e = <<>> /\ S = Seq(QuoteWords)
      OBVIOUS
    <3>4. input = <<e, e>> /\ e \in S
      BY <3>1, <3>2, <3>3
    <3>5. input \in [1..2 -> S]
      BY ONLY <3>4
    <3> QED  BY <2>8, <3>3, <3>5 DEF InputTyped
  <2> QED  BY <2>2, <2>3, <2>4, <2>5, <2>6, <2>7, <2>8
<1>2. ASSUME InputTyped, [Next]_vars PROVE InputTyped'
  <2>1. topic' = topic
    BY <1>2, OneTopic
  <2>2. CASE input' = input
    BY <1>2, <2>1, <2>2 DEF InputTyped
  <2>3. CASE topic = "report" /\ input' # input
    BY <1>2, <2>1, <2>3, OneTopic, FindingsGrow DEF InputTyped
  <2>4. CASE topic = "reply" /\ input' # input
    <3>1. input \in Seq(Pieces) /\ AddPiece
      BY <1>2, <2>4, OneTopic DEF InputTyped
    <3>2. input' \in Seq(Pieces)
      BY <3>1, AppendProperties DEF AddPiece
    <3> QED  BY <2>1, <2>4, <3>2 DEF InputTyped
  <2>5. CASE topic = "units" /\ input' # input
    <3>1. input \in Seq(UnitAnswers) /\ AddUnitAnswer
      BY <1>2, <2>5, OneTopic DEF InputTyped
    <3>2. input' \in Seq(UnitAnswers)
      BY <3>1, AppendProperties DEF AddUnitAnswer
    <3> QED  BY <2>1, <2>5, <3>2 DEF InputTyped
  <2>6. CASE topic = "versions" /\ input' # input
    BY <1>2, <2>1, <2>6, OneTopic, ConstructsGrow DEF InputTyped
  <2>7. CASE topic = "script" /\ input' # input
    <3>1. input' \in Scripts(Words["script"]) /\ Len(input') <= MaxLines["script"]
      BY <1>2, <2>7, OneTopic, ScriptGrows DEF InputTyped
    <3> QED  BY <2>1, <2>7, <3>1 DEF InputTyped
  <2>8. CASE topic = "retrieval" /\ input' # input
    <3>1. input \in Seq(Retrieved) /\ AlikeScored(input) /\ AddRetrieved
      BY <1>2, <2>8, OneTopic DEF InputTyped
    <3>2. input' \in Seq(Retrieved) /\ AlikeScored(input')
      BY <3>1, MatchesGrow
    <3> QED  BY <2>1, <2>8, <3>2 DEF InputTyped
  <2>9. CASE topic = "candidates" /\ input' # input
    <3>1. input \in Seq(EvalCandidates) /\ AddCandidate
      BY <1>2, <2>9, OneTopic DEF InputTyped
    <3>2. input' \in Seq(EvalCandidates)
      BY <3>1, AppendProperties DEF AddCandidate
    <3> QED  BY <2>1, <2>9, <3>2 DEF InputTyped
  <2>10. CASE topic = "removal" /\ input' # input
    <3>1. input' \in Scripts(Words["removal"])
      BY <1>2, <2>10, OneTopic, ScriptGrows DEF InputTyped
    <3> QED  BY <2>1, <2>10, <3>1 DEF InputTyped
  <2>11. CASE topic = "quotes" /\ input' # input
    <3>1. input \in [1..2 -> Seq(QuoteWords)] /\ AddText
      BY <1>2, <2>11, OneTopic DEF InputTyped
    <3>2. PICK i \in 1..2, w \in QuoteWords : input' = [input EXCEPT ![i] = Append(input[i], w)]
      BY <3>1 DEF AddText
    <3>3. Append(input[i], w) \in Seq(QuoteWords)
      BY <3>1, AppendProperties
    <3>4. input' \in [1..2 -> Seq(QuoteWords)]
      BY <3>1, <3>2, <3>3
    <3> QED  BY <2>1, <2>11, <3>4 DEF InputTyped
  <2>12. CASE topic = "scan" /\ input' # input
    <3>1. input \in Seq(ScanUnitShapes) /\ AddScanUnit
      BY <1>2, <2>12, OneTopic DEF InputTyped
    <3>2. input' \in Seq(ScanUnitShapes)
      BY <3>1, AppendProperties DEF AddScanUnit
    <3> QED  BY <2>1, <2>12, <3>2 DEF InputTyped
  <2>13. CASE topic \notin {"report", "reply", "units", "versions", "script", "retrieval", "candidates",
                           "removal", "quotes", "scan"}
    BY <2>1, <2>13 DEF InputTyped
  <2> QED  BY <2>2, <2>3, <2>4, <2>5, <2>6, <2>7, <2>8, <2>9, <2>10, <2>11, <2>12, <2>13
<1> QED  BY <1>1, <1>2, PTL DEF Spec

\* ReportAddsUp, for every review: whatever it confirmed, alerted to and left out, a report is
\* headed clean only if nothing is warned of and no gate fails, an alert that fails a build is
\* corroborated by a candidate or a match of its file, none that is confident is left out, and
\* the findings' keys are distinct and do not depend on the order of findings of unequal rank.
THEOREM ReportSound == Spec => []ReportAddsUp
<1>1. ASSUME InputTyped PROVE ReportAddsUp
  <2>1. SUFFICES ASSUME topic = "report", NEW severity \in {2, 4}
                 PROVE  ReportHolds(input.outcome, input.alerts, input.llm, Hits, severity)
    BY DEF ReportAddsUp
  <2>2. /\ input.outcome \in Outcomes /\ input.alerts \in Seq(Alerts) /\ input.llm \in Seq(Confirmed)
        /\ severity \in 0..4
    BY <1>1, <2>1 DEF InputTyped, Reports
  <2> QED  BY <2>2, ReportOf
<1> QED  BY <1>1, InputsTyped, PTL

\* AnswersHold, for every reply of any length: the last acceptable object a scan reaches is the
\* answer; and the findings of a per-unit answer are one for each unit and weakness, none lost.
THEOREM AnswersSound == Spec => []AnswersHold
<1>1. ASSUME InputTyped PROVE AnswersHold
  <2>1. ASSUME topic = "reply", input # <<>>, NEW q \in {"audit", "final_audit", "units", "verify"}
        PROVE  LastAnswerCounts(input, q)
    <3>1. input \in Seq(Pieces)
      BY <1>1, <2>1 DEF InputTyped
    <3> QED  BY <2>1, <3>1, LastCounts
  <2>2. ASSUME topic = "units" PROVE UnitAnswerHolds(input, Allowed)
    <3>1. input \in Seq(UnitAnswers)
      BY <1>1, <2>2 DEF InputTyped
    <3> QED  BY <3>1, UnitAnswersHold
  <2> QED  BY <2>1, <2>2 DEF AnswersHold
<1> QED  BY <1>1, InputsTyped, PTL

\* GuardDiffSound, for every two versions of any length: swapping them turns every change and
\* with them the risk, a version whose constructs only moved is silent, what is told as lost is a
\* control of the old version on its line, and a construct that is deleted is told, with its whole
\* weight, and nothing else.
THEOREM GuardDiffIsSound == Spec => []GuardDiffSound
<1>1. ASSUME InputTyped PROVE GuardDiffSound
  <2>1. SUFFICES ASSUME topic = "versions"
                 PROVE  /\ MirrorImage(input.old, input.new) /\ MovedIsSilent(input.old, input.new)
                        /\ LostIsControl(input.old, input.new)
                        /\ input.new = <<>> => DeletionIsTold(input.old)
    BY DEF GuardDiffSound
  <2>2. input.old \in Seq(Constructs) /\ input.new \in Seq(Constructs)
    BY <1>1, <2>1 DEF InputTyped, Versions
  <2> QED  BY <2>2, Mirrored, MovedSilent, LostControls, DeletionTold
<1> QED  BY <1>1, InputsTyped, PTL

\* DiffsAgree, for every edit of any length and any texts: the patch written of it is read back
\* and applies both ways, the line maps and the named lines are those of the edit, a comment's
\* anchor is shown, and the two evaluations agree on the lines of a weakness.
THEOREM DiffsSound == Spec => []DiffsAgree
<1>1. ASSUME InputTyped PROVE DiffsAgree
  <2>1. SUFFICES ASSUME topic = "script"
                 PROVE  /\ \A n \in 0..2 : RoundTrips(input, n)
                        /\ \A n \in 1..2 : MapsAgree(input, n)
                        /\ TruthAgrees(input) /\ Anchored(input) /\ ChangedArePaired(input)
                        /\ ReconstructsChange(input, 2)
    BY DEF DiffsAgree
  <2>2. input \in Scripts(Words["script"])
    BY <1>1, <2>1 DEF InputTyped
  <2>3. \A n \in 0..2 : RoundTrips(input, n)
    BY <2>2, RoundTripHolds
  <2>4. \A n \in 1..2 : MapsAgree(input, n)
    BY <2>2, MapsHold
  <2>5. TruthAgrees(input) /\ Anchored(input) /\ ChangedArePaired(input)
    BY <2>2, TruthsHold, AnchorsHold, PairsHold
  <2>6. ReconstructsChange(input, 2)
    BY <2>2, ChangeReconstructed, NoneAssumption
  <2> QED  BY <2>3, <2>4, <2>5, <2>6
<1> QED  BY <1>1, InputsTyped, PTL

\* ChangedFunctionsPlanned, for every edit: a function with an added line, or with lines removed
\* in it or next to it, is a unit of the plan, every added line is in some unit, and a function
\* whose first line stays is compared with its own old version.
THEOREM ChangesSound == Spec => []ChangedFunctionsPlanned
<1>1. ASSUME InputTyped PROVE ChangedFunctionsPlanned
  <2>1. SUFFICES ASSUME topic = "script" PROVE ChangesPlanned(input) /\ OwnOldVersion(input)
    BY DEF ChangedFunctionsPlanned
  <2>2. /\ input \in Scripts(Words["script"]) /\ Len(input) <= MaxLines["script"]
        /\ MaxLines["script"] \in Nat /\ Len(input) \in Nat
    BY <1>1, <2>1, NoneAssumption, LenProperties DEF InputTyped, Scripts
  <2>3. KnownLines(Len(input) + 1)
    <3>1. 1..(Len(input) + 1) \subseteq 1..(MaxLines["script"] + 1)
      BY <2>2
    <3> QED  BY <3>1, NoneAssumption DEF KnownLines
  <2>4. None \notin Seq(Words["script"]) /\ None \notin Seq(Hunks(Words["script"]))
    BY NoneAssumption
  <2>5. ChangesPlanned(input)
    BY <2>2, <2>3, <2>4, ChangesArePlanned
  <2>6. OwnOldVersion(input)
    BY <2>2, <2>4, OwnVersionHolds
  <2> QED  BY <2>5, <2>6
<1> QED  BY <1>1, InputsTyped, PTL

\* What the evaluation derives from recorded data is what the program does: the matches of its
\* operating point are the search's (operating_cves and find_vulnerabilities), the report of a
\* policy at the run's cutoff is the review's (policy_findings, attach_review_view), and a view
\* that keeps fewer findings never scores higher (score_findings).
THEOREM ReplaysSound == Spec => []ReplaysAgree
<1>1. ASSUME InputTyped PROVE ReplaysAgree
  <2>1. ASSUME topic = "retrieval" PROVE OperatingPoint(input)
    <3>1. input \in Seq(Retrieved) /\ AlikeScored(input)
      BY <1>1, <2>1 DEF InputTyped
    <3> QED  BY <3>1, OperatingPointHolds
  <2>2. ASSUME topic = "candidates" PROVE PoliciesReplay(input) /\ \A t \in Truths : LevelsNest(t, input)
    <3>1. input \in Seq(EvalCandidates)
      BY <1>1, <2>2 DEF InputTyped
    <3> QED  BY <3>1, PoliciesReplayHolds, LevelsNestHolds
  <2> QED  BY <2>1, <2>2 DEF ReplaysAgree
<1> QED  BY <1>1, InputsTyped, PTL

\* EvidenceFound, for texts, quotes, scans and edits of any content and length: a quote is located
\* with its lines, in the file it names when that has it, near the line claimed when it is there;
\* what a scan reports comes back, once, to the key of the innermost unit that has the line (units
\* of one name and first line share it); and the two checks of a removed control agree.
THEOREM EvidenceSound == Spec => []EvidenceFound
<1>1. ASSUME InputTyped PROVE EvidenceFound
  <2>1. ASSUME topic = "quotes", NEW quote \in SeqOf(QuoteWords, 2), NEW named \in 0..2,
               NEW claimed \in 0..MaxQuoteLines
        PROVE  QuotesHoldUp(input, quote, named, claimed)
    <3>1. input \in [1..2 -> Seq(QuoteWords)]
      BY <1>1, <2>1 DEF InputTyped
    <3>2. PICK m \in 0..2 : quote \in [1..m -> QuoteWords]
      BY DEF SeqOf
    <3>3. quote \in Seq(QuoteWords) /\ DOMAIN quote = 1..m
      BY <3>2
    <3>4. Len(quote) = m /\ IsText(quote)
      BY <3>3, LenProperties DEF IsText
    <3>5. Len(quote) <= QuoteWindow + 1
      BY <3>4, WindowsAssumption
    <3>6. claimed \in Nat /\ DOMAIN input = 1..2 /\ \A i \in 1..2 : input[i] \in Seq(QuoteWords)
      BY <3>1
    <3> QED  BY <3>4, <3>5, <3>6, QuotesAreFound
  <2>2. ASSUME topic = "scan", NEW weak \in Weaknesses PROVE ScanHolds(input, weak)
    <3>1. input \in Seq(ScanUnitShapes)
      BY <1>1, <2>2 DEF InputTyped
    <3>2. PICK n \in Nat : n = Len(input) /\ DOMAIN input = 1..n
      BY <3>1, LenProperties
    <3>3. \A i \in 1..n : input[i] \in ScanUnitShapes
      BY <3>1, <3>2, ElementOfSeq
    <3>4. IsUnits(input, n)
      BY <3>2, <3>3, ScanAssumption DEF IsUnits
    <3>5. IsWeak(weak)
      BY ScanAssumption DEF IsWeak
    <3> QED  BY <3>4, <3>5, ScanSound
  <2>3. ASSUME topic = "removal", NEW line \in 1..MaxLines[topic] PROVE RemovalAgrees(input, line)
    <3>1. input \in Scripts(Words["removal"]) /\ line \in Nat
      BY <1>1, <2>3 DEF InputTyped
    <3> QED  BY <3>1, NoneAssumption, RemovalHolds
  <2> QED  BY <2>1, <2>2, <2>3 DEF EvidenceFound
<1> QED  BY <1>1, InputsTyped, PTL
==============================================================================
