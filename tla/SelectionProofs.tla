--------------------------- MODULE SelectionProofs ---------------------------
(***************************************************************************)
(* What the proofs of several components rest on: least and greatest       *)
(* numbers, parts of sequences, sets in a row, the picked elements of a    *)
(* list and lists in the order of their weights (Selection.tla), the       *)
(* bisection, counts, lines a text has one behind the other, and sums.     *)
(* The bisection and the sums are recursive functions: that a function     *)
(* with such an equation exists, and what it is, is shown by induction     *)
(* over a set of natural numbers.                                          *)
(***************************************************************************)
EXTENDS Selection, SequencesExt, SequenceTheorems, FiniteSetTheorems,
        WellFoundedInduction, TLAPS

------------------------------------------------------------------------------
(* Numbers.                                                                *)

\* A nonempty set of natural numbers has a least one, and up to a bound a greatest one.
LEMMA LeastOfSome ==
    ASSUME NEW T, T \subseteq Nat, T # {}
    PROVE  \E x \in T : \A y \in T : x <= y
<1> DEFINE L == OpToRel(<, Nat)
<1>1. IsWellFoundedOn(L, Nat)
  BY NatLessThanWellFounded
<1>2. \E x \in T : \A y \in T : ~(<<y, x>> \in L)
  <2> HIDE DEF L
  <2> QED  BY <1>1, WFMin
<1>3. PICK x \in T : \A y \in T : ~(y < x)
  BY <1>2 DEF OpToRel
<1> QED  BY <1>3

LEMMA GreatestOfSome ==
    ASSUME NEW n \in Nat, NEW T, T \subseteq 0..n, T # {}
    PROVE  \E x \in T : \A y \in T : y <= x
<1> DEFINE R == {n - x : x \in T}
<1>1. R \subseteq Nat /\ R # {}
  <2>1. \A x \in T : x \in Nat /\ x <= n /\ n - x \in Nat
    OBVIOUS
  <2> QED  BY <2>1
<1>2. PICK m \in R : \A y \in R : m <= y
  <2> HIDE DEF R
  <2> QED  BY <1>1, LeastOfSome
<1>3. PICK x \in T : m = n - x
  OBVIOUS
<1>4. \A y \in T : n - x <= n - y
  BY <1>2, <1>3
<1> QED  BY <1>4

\* A set of natural numbers with 0 and with the successor of each of its members has all.
LEMMA SetInduction ==
    ASSUME NEW P, 0 \in P, \A n \in Nat : n \in P => n + 1 \in P
    PROVE  Nat \subseteq P
<1> DEFINE T == {n \in Nat : n \notin P}
           L == OpToRel(<, Nat)
<1>1. SUFFICES ASSUME T # {} PROVE FALSE
  OBVIOUS
<1>2. \E x \in T : \A y \in T : ~(<<y, x>> \in L)
  <2>1. T \subseteq Nat /\ IsWellFoundedOn(L, Nat)
    BY NatLessThanWellFounded
  <2> HIDE DEF T, L
  <2> QED  BY <1>1, <2>1, WFMin
<1>3. PICK x \in T : \A y \in T : ~(y < x)
  BY <1>2 DEF OpToRel
<1>4. x # 0 /\ x - 1 \in Nat /\ x - 1 < x
  BY <1>3
<1>5. x - 1 \in P
  BY <1>3, <1>4
<1>6. (x - 1) + 1 \in P
  BY <1>4, <1>5
<1> QED  BY <1>3, <1>4, <1>6

\* A nonempty set of natural numbers up to n has a maximum.
LEMMA MaxOfSome ==
    ASSUME NEW n \in Nat, NEW T \in SUBSET (0..n), T # {}
    PROVE  Max(T) \in T /\ \A y \in T : y <= Max(T)
<1> DEFINE P == {m \in Nat : \A R \in SUBSET (0..m) : R # {} => \E x \in R : \A y \in R : x >= y}
<1>1. 0 \in P
  <2>1. ASSUME NEW R \in SUBSET (0..0), R # {} PROVE \E x \in R : \A y \in R : x >= y
    <3>1. 0..0 = {0}
      OBVIOUS
    <3>2. R = {0}
      BY <2>1, <3>1
    <3> QED  BY <3>2
  <2> QED  BY <2>1
<1>2. ASSUME NEW m \in Nat, m \in P PROVE m + 1 \in P
  <2>1. ASSUME NEW R \in SUBSET (0..(m + 1)), R # {} PROVE \E x \in R : \A y \in R : x >= y
    <3>1. CASE m + 1 \in R
      BY <3>1
    <3>2. CASE m + 1 \notin R
      <4>1. R \in SUBSET (0..m)
        BY <3>2
      <4> QED  BY <1>2, <2>1, <4>1
    <3> QED  BY <3>1, <3>2
  <2> QED  BY <2>1
<1>3. Nat \subseteq P
  <2> HIDE DEF P
  <2> QED  BY <1>1, <1>2, SetInduction
<1>4. \E x \in T : \A y \in T : x >= y
  BY <1>3
<1>5. Max(T) \in T /\ \A y \in T : Max(T) >= y
  BY <1>4 DEF Max
<1> QED  BY <1>5

\* The lesser and the greater of two numbers.
LEMMA LesserOfTwo ==
    ASSUME NEW a \in Int, NEW b \in Int
    PROVE  Min({a, b}) = IF a <= b THEN a ELSE b
<1>1. \E x \in {a, b} : \A y \in {a, b} : x <= y
  <2>1. CASE a <= b
    BY <2>1
  <2>2. CASE ~(a <= b)
    BY <2>2
  <2> QED  BY <2>1, <2>2
<1>2. Min({a, b}) \in {a, b} /\ \A y \in {a, b} : Min({a, b}) <= y
  BY <1>1 DEF Min
<1> QED  BY <1>2

LEMMA GreaterOfTwo ==
    ASSUME NEW a \in Int, NEW b \in Int
    PROVE  Max({a, b}) \in Int
<1>1. \E x \in {a, b} : \A y \in {a, b} : x >= y
  <2>1. CASE a >= b
    BY <2>1
  <2>2. CASE ~(a >= b)
    BY <2>2
  <2> QED  BY <2>1, <2>2
<1>2. Max({a, b}) \in {a, b}
  BY <1>1 DEF Max
<1> QED  BY <1>2

------------------------------------------------------------------------------
(* Sequences.                                                              *)

\* Appending adds one element and keeps the places of the others.
LEMMA AppendFacts ==
    ASSUME NEW S, NEW s \in Seq(S), NEW e \in S
    PROVE  /\ Append(s, e) \in Seq(S)
           /\ \A i \in DOMAIN s : i \in DOMAIN Append(s, e) /\ Append(s, e)[i] = s[i]
           /\ \A i \in DOMAIN Append(s, e) : Append(s, e)[i] = e \/ (i \in DOMAIN s /\ Append(s, e)[i] = s[i])
           /\ \E i \in DOMAIN Append(s, e) : Append(s, e)[i] = e
<1> DEFINE t == Append(s, e)
<1>1. /\ t \in Seq(S) /\ Len(t) = Len(s) + 1 /\ \A i \in 1..Len(s) : t[i] = s[i]
      /\ t[Len(s) + 1] = e
  BY AppendProperties
<1>2. DOMAIN t = 1..Len(t) /\ DOMAIN s = 1..Len(s) /\ Len(s) \in Nat
  <2> HIDE DEF t
  <2> QED  BY <1>1, LenProperties
<1> HIDE DEF t
<1>3. /\ t \in Seq(S)
      /\ \A i \in DOMAIN s : i \in DOMAIN t /\ t[i] = s[i]
      /\ \A i \in DOMAIN t : t[i] = e \/ (i \in DOMAIN s /\ t[i] = s[i])
      /\ \E i \in DOMAIN t : t[i] = e
  BY <1>1, <1>2
<1> QED  BY <1>3 DEF t

\* What is left of a sequence after its first n elements.
LEMMA RestFacts ==
    ASSUME NEW S, NEW s \in Seq(S), NEW n \in 1..Len(s)
    PROVE  /\ SubSeq(s, n + 1, Len(s)) \in Seq(S)
           /\ DOMAIN SubSeq(s, n + 1, Len(s)) = 1..(Len(s) - n)
           /\ \A i \in 1..(Len(s) - n) : SubSeq(s, n + 1, Len(s))[i] = s[n + i]
<1> DEFINE l == Len(s)
           m == n + 1
<1>1. l \in Nat /\ n \in 1..l /\ m \in Nat /\ m = n + 1
  BY LenProperties
<1> HIDE DEF l, m
<1>2. \A i \in m..l : s[i] \in S
  <2>1. \A i \in m..l : i \in 1..Len(s)
    BY <1>1 DEF l
  <2> QED  BY <2>1, ElementOfSeq
<1> DEFINE r == SubSeq(s, m, l)
<1>3. /\ r \in Seq(S) /\ Len(r) = (IF m <= l THEN l - m + 1 ELSE 0)
      /\ \A i \in 1..(l - m + 1) : r[i] = s[m + i - 1]
  BY <1>1, <1>2, SubSeqProperties
<1> HIDE DEF r
<1>4. DOMAIN r = 1..Len(r) /\ Len(r) = l - n
  BY <1>1, <1>3, LenProperties
<1>5. ASSUME NEW i \in 1..(l - n) PROVE r[i] = s[n + i]
  <2>1. i \in 1..(l - m + 1) /\ m + i - 1 = n + i
    BY <1>1
  <2> QED  BY <1>3, <2>1
<1> QED  BY <1>3, <1>4, <1>5 DEF r, l, m

\* The first elements of a sequence.
LEMMA FirstFacts ==
    ASSUME NEW S, NEW s \in Seq(S), NEW n \in 1..Len(s)
    PROVE  /\ SubSeq(s, 1, n) \in Seq(S) /\ Len(SubSeq(s, 1, n)) = n /\ DOMAIN SubSeq(s, 1, n) = 1..n
           /\ \A i \in 1..n : SubSeq(s, 1, n)[i] = s[i]
<1>1. Len(s) \in Nat /\ n \in Nat /\ 1 <= n /\ \A i \in 1..n : i \in 1..Len(s)
  BY LenProperties
<1>2. \A i \in 1..n : s[i] \in S
  BY <1>1, ElementOfSeq
<1> DEFINE r == SubSeq(s, 1, n)
<1>3. /\ r \in Seq(S) /\ Len(r) = (IF 1 <= n THEN n - 1 + 1 ELSE 0)
      /\ \A i \in 1..(n - 1 + 1) : r[i] = s[1 + i - 1]
  BY <1>1, <1>2, SubSeqProperties
<1> HIDE DEF r
<1>4. Len(r) = n /\ \A i \in 1..n : r[i] = s[i]
  BY <1>1, <1>3
<1>5. DOMAIN r = 1..n
  BY <1>3, <1>4, LenProperties
<1> QED  BY <1>3, <1>4, <1>5 DEF r

------------------------------------------------------------------------------
(* Rows.                                                                   *)

\* A set R of pairs puts the elements of S in a row.
InOrderBy(R, S) ==
    /\ \A x \in S : <<x, x>> \notin R
    /\ \A x, y \in S : x = y \/ <<x, y>> \in R \/ <<y, x>> \in R
    /\ \A x, y, z \in S : <<x, y>> \in R /\ <<y, z>> \in R => <<x, z>> \in R
Preceding(R, S, x) == {y \in S : <<y, x>> \in R}

\* In a finite row an element has as many before it as its place says, and each place is taken.
LEMMA PlacesInRow ==
    ASSUME NEW S, IsFiniteSet(S), NEW R, InOrderBy(R, S)
    PROVE  /\ Cardinality(S) \in Nat
           /\ \A x \in S : Cardinality(Preceding(R, S, x)) \in 0..(Cardinality(S) - 1)
           /\ \A x, y \in S : <<x, y>> \in R => Cardinality(Preceding(R, S, x)) < Cardinality(Preceding(R, S, y))
           /\ \A k \in 1..Cardinality(S) : \E x \in S : Cardinality(Preceding(R, S, x)) = k - 1
<1> DEFINE n == Cardinality(S)
           c(x) == Cardinality(Preceding(R, S, x))
<1>1. n \in Nat
  BY FS_CardinalityType
<1>2. ASSUME NEW x \in S PROVE IsFiniteSet(Preceding(R, S, x)) /\ c(x) \in Nat /\ x \notin Preceding(R, S, x)
  BY FS_Subset, FS_CardinalityType DEF Preceding, InOrderBy
<1>3. ASSUME NEW x \in S PROVE c(x) \in 0..(n - 1)
  <2>1. Preceding(R, S, x) \cup {x} \in SUBSET S
    BY DEF Preceding
  <2>2. Cardinality(Preceding(R, S, x) \cup {x}) = c(x) + 1
    BY <1>2, FS_AddElement
  <2>3. Cardinality(Preceding(R, S, x) \cup {x}) <= n
    BY <2>1, FS_Subset
  <2> QED  BY <1>1, <1>2, <2>2, <2>3
<1>4. ASSUME NEW x \in S, NEW y \in S, <<x, y>> \in R PROVE c(x) < c(y)
  <2>1. Preceding(R, S, x) \cup {x} \in SUBSET Preceding(R, S, y)
    BY <1>4 DEF Preceding, InOrderBy
  <2>2. Cardinality(Preceding(R, S, x) \cup {x}) = c(x) + 1
    BY <1>2, FS_AddElement
  <2>3. Cardinality(Preceding(R, S, x) \cup {x}) <= c(y)
    BY <1>2, <2>1, FS_Subset
  <2> QED  BY <1>2, <2>2, <2>3
<1>5. ASSUME NEW k \in 1..n PROVE \E x \in S : c(x) = k - 1
  <2> DEFINE f == [x \in S |-> c(x)]
             T == 0..(n - 1)
  <2>1. f \in Injection(S, T)
    <3>1. f \in [S -> T]
      BY <1>3
    <3>2. ASSUME NEW x \in S, NEW y \in S, f[x] = f[y] PROVE x = y
      <4>1. c(x) = c(y) /\ c(x) \in Nat
        BY <1>2, <3>2
      <4>2. ~(<<x, y>> \in R) /\ ~(<<y, x>> \in R)
        BY <1>4, <4>1
      <4> QED  BY <4>2 DEF InOrderBy
    <3> HIDE DEF f, T
    <3> QED  BY <3>1, <3>2 DEF Injection, IsInjective
  <2>2. IsFiniteSet(T) /\ Cardinality(T) = n
    <3>1. n - 1 \in Int /\ 0 \in Int
      BY <1>1
    <3>2. IsFiniteSet(T) /\ Cardinality(T) = IF 0 > n - 1 THEN 0 ELSE (n - 1) - 0 + 1
      BY <3>1, FS_Interval
    <3> QED  BY <1>1, <3>2
  <2>3. f \in Surjection(S, T)
    <3> HIDE DEF f, T, c
    <3> QED  BY <2>1, <2>2, FS_Injection
  <2>4. k - 1 \in T
    BY <1>1
  <2>5. \E x \in S : f[x] = k - 1
    <3> HIDE DEF f, T
    <3> QED  BY <2>3, <2>4 DEF Surjection
  <2> QED  BY <2>5
<1> QED  BY <1>1, <1>3, <1>4, <1>5

\* So the elements each at its place are the set in order.
LEMMA InRow ==
    ASSUME NEW S, IsFiniteSet(S), NEW R, InOrderBy(R, S), NEW f,
           \A k \in 1..Cardinality(S) : f[k] \in S /\ Cardinality(Preceding(R, S, f[k])) = k - 1
    PROVE  /\ \A x \in S : /\ Cardinality(Preceding(R, S, x)) + 1 \in 1..Cardinality(S)
                           /\ f[Cardinality(Preceding(R, S, x)) + 1] = x
           /\ \A i, j \in 1..Cardinality(S) : i < j <=> <<f[i], f[j]>> \in R
           /\ \A i, j \in 1..Cardinality(S) : f[i] = f[j] => i = j
<1> DEFINE n == Cardinality(S)
           c(x) == Cardinality(Preceding(R, S, x))
<1>1. /\ n \in Nat
      /\ \A x \in S : c(x) \in 0..(n - 1)
      /\ \A x, y \in S : <<x, y>> \in R => c(x) < c(y)
  BY PlacesInRow
<1>2. \A k \in 1..n : f[k] \in S /\ c(f[k]) = k - 1
  OBVIOUS
<1> HIDE DEF c, n
<1>3. ASSUME NEW x \in S, NEW y \in S, c(x) = c(y) PROVE x = y
  <2>1. c(x) \in Int /\ ~(<<x, y>> \in R) /\ ~(<<y, x>> \in R)
    BY <1>1, <1>3
  <2> QED  BY <2>1 DEF InOrderBy
<1>4. ASSUME NEW x \in S PROVE c(x) + 1 \in 1..n /\ f[c(x) + 1] = x
  <2>1. c(x) + 1 \in 1..n /\ c(x) \in Int
    BY <1>1
  <2>2. f[c(x) + 1] \in S /\ c(f[c(x) + 1]) = c(x)
    BY <1>2, <2>1
  <2> QED  BY <1>3, <2>1, <2>2
<1>5. ASSUME NEW i \in 1..n, NEW j \in 1..n PROVE i < j <=> <<f[i], f[j]>> \in R
  <2>1. f[i] \in S /\ f[j] \in S /\ c(f[i]) = i - 1 /\ c(f[j]) = j - 1 /\ i \in Int /\ j \in Int
    BY <1>1, <1>2
  <2>2. <<f[i], f[j]>> \in R => i < j
    BY <1>1, <2>1
  <2>3. ASSUME i < j PROVE <<f[i], f[j]>> \in R
    <3>1. f[i] # f[j]
      BY <2>1, <2>3
    <3>2. ~(<<f[j], f[i]>> \in R)
      BY <1>1, <2>1, <2>3
    <3> QED  BY <2>1, <3>1, <3>2 DEF InOrderBy
  <2> QED  BY <2>2, <2>3
<1>6. ASSUME NEW i \in 1..n, NEW j \in 1..n, f[i] = f[j] PROVE i = j
  <2>1. c(f[i]) = i - 1 /\ c(f[j]) = j - 1 /\ i \in Int /\ j \in Int
    BY <1>1, <1>2
  <2> QED  BY <1>6, <2>1
<1> QED  BY <1>4, <1>5, <1>6 DEF c, n

\* The numbers of a set are in a row.
LEMMA NumbersInRow ==
    ASSUME NEW S, S \subseteq Int
    PROVE  InOrderBy({e \in S \X S : e[1] < e[2]}, S)
<1> DEFINE R == {e \in S \X S : e[1] < e[2]}
<1>1. \A x, y \in S : <<x, y>> \in R <=> x < y
  OBVIOUS
<1>2. \A x, y, z \in S : ~(x < x) /\ (x = y \/ x < y \/ y < x) /\ (x < y /\ y < z => x < z)
  OBVIOUS
<1> HIDE DEF R
<1>3. InOrderBy(R, S)
  BY <1>1, <1>2 DEF InOrderBy
<1> QED  BY <1>3 DEF R

\* The picked elements of a list are those at the places, in the order of the places.
IsPicked(list, s, T) ==
    /\ Cardinality(T) \in Nat /\ DOMAIN list = 1..Cardinality(T)
    /\ \A i \in T : /\ Cardinality({j \in T : j < i}) + 1 \in DOMAIN list
                   /\ list[Cardinality({j \in T : j < i}) + 1] = s[i]
    /\ \E f : /\ \A k \in DOMAIN list : f[k] \in T /\ list[k] = s[f[k]]
             /\ \A k, l \in DOMAIN list : k < l <=> f[k] < f[l]

LEMMA PickedFacts ==
    ASSUME NEW s, NEW T, T \subseteq Int, IsFiniteSet(T)
    PROVE  IsPicked(Picked(s, T), s, T)
<1> DEFINE R == {e \in T \X T : e[1] < e[2]}
           n == Cardinality(T)
           f == Ranked(T, LAMBDA i, j : i < j)
<1>1. InOrderBy(R, T)
  BY NumbersInRow
<1>2. \A x \in T : Preceding(R, T, x) = {j \in T : j < x}
  BY DEF Preceding
<1>3. n \in Nat /\ \A k \in 1..n : \E x \in T : Cardinality(Preceding(R, T, x)) = k - 1
  <2> HIDE DEF R
  <2> QED  BY <1>1, PlacesInRow
<1>4. \A k \in 1..n : \E x \in T : Cardinality({j \in T : j < x}) = k - 1
  BY <1>2, <1>3
<1>5. f = [k \in 1..n |-> CHOOSE x \in T : Cardinality({j \in T : j < x}) = k - 1]
  BY DEF Ranked
<1>6. \A k \in 1..n : f[k] \in T /\ Cardinality({j \in T : j < f[k]}) = k - 1
  <2> HIDE DEF f, n
  <2> QED  BY <1>4, <1>5
<1>7. Picked(s, T) = [k \in 1..n |-> s[f[k]]]
  BY DEF Picked
<1> HIDE DEF f
<1>8. \A k \in 1..n : f[k] \in T /\ Cardinality(Preceding(R, T, f[k])) = k - 1
  BY <1>2, <1>6
<1> HIDE DEF R
<1>9. /\ \A x \in T : /\ Cardinality(Preceding(R, T, x)) + 1 \in 1..n
                      /\ f[Cardinality(Preceding(R, T, x)) + 1] = x
      /\ \A i, j \in 1..n : i < j <=> <<f[i], f[j]>> \in R
  BY <1>1, <1>8, InRow
<1>10. \A i, j \in 1..n : i < j <=> f[i] < f[j]
  BY <1>8, <1>9 DEF R
<1>11. \A x \in T : /\ Cardinality({j \in T : j < x}) + 1 \in 1..n
                    /\ f[Cardinality({j \in T : j < x}) + 1] = x
  BY <1>2, <1>9
<1> HIDE DEF n
<1>12. /\ DOMAIN Picked(s, T) = 1..n
       /\ \A k \in 1..n : Picked(s, T)[k] = s[f[k]]
  BY <1>7
<1>13. \A i \in T : /\ Cardinality({j \in T : j < i}) + 1 \in 1..n
                    /\ Picked(s, T)[Cardinality({j \in T : j < i}) + 1] = s[i]
  BY <1>11, <1>12
<1> QED  BY <1>3, <1>6, <1>10, <1>12, <1>13 DEF n, IsPicked

------------------------------------------------------------------------------
(* Picked elements, lists and sizes.                                       *)

\* The picked elements of a list are elements of it, and each place picked has its element.
PicksFrom(list, s, T) ==
    /\ \E m \in Nat : DOMAIN list = 1..m
    /\ \A k \in DOMAIN list : \E i \in T : list[k] = s[i]
    /\ \A i \in T : \E k \in DOMAIN list : list[k] = s[i]

LEMMA PickedElements ==
    ASSUME NEW s, NEW n \in Nat, DOMAIN s = 1..n, NEW T, T \subseteq 1..n
    PROVE  PicksFrom(Picked(s, T), s, T)
<1> DEFINE p == Picked(s, T)
<1>1. T \subseteq Int /\ IsFiniteSet(T)
  <2>1. 1 \in Int /\ n \in Int /\ T \in SUBSET (1..n) /\ T \subseteq Int
    OBVIOUS
  <2> QED  BY <2>1, FS_Interval, FS_Subset
<1>2. IsPicked(p, s, T)
  BY <1>1, PickedFacts
<1> HIDE DEF p
<1>3. Cardinality(T) \in Nat /\ DOMAIN p = 1..Cardinality(T)
  BY <1>2 DEF IsPicked
<1>4. \A k \in DOMAIN p : \E i \in T : p[k] = s[i]
  BY <1>2 DEF IsPicked
<1>5. \A i \in T : \E k \in DOMAIN p : p[k] = s[i]
  BY <1>2 DEF IsPicked
<1> QED  BY <1>3, <1>4, <1>5 DEF p, PicksFrom

\* A function of 1..n is a list.
LEMMA ListIsSeq ==
    ASSUME NEW n \in Nat, NEW f, DOMAIN f = 1..n, f = [i \in 1..n |-> f[i]],
           NEW S, \A i \in 1..n : f[i] \in S
    PROVE  f \in Seq(S) /\ Len(f) = n
<1>1. f \in [1..n -> S]
  OBVIOUS
<1>2. f \in Seq(S)
  BY <1>1, SeqDef
<1> QED  BY <1>2, LenProperties

\* Two lists in a row.
LEMMA InARow ==
    ASSUME NEW s, NEW m \in Nat, DOMAIN s = 1..m, s = [i \in 1..m |-> s[i]],
           NEW t, NEW n \in Nat, DOMAIN t = 1..n, t = [i \in 1..n |-> t[i]]
    PROVE  /\ DOMAIN (s \o t) = 1..(m + n) /\ Len(s \o t) = m + n
           /\ \A i \in 1..m : (s \o t)[i] = s[i]
           /\ \A i \in 1..n : (s \o t)[m + i] = t[i]
           /\ \A i \in 1..(m + n) : (i \in 1..m /\ (s \o t)[i] = s[i])
                                     \/ (i - m \in 1..n /\ (s \o t)[i] = t[i - m])
<1> DEFINE S == {s[i] : i \in 1..m} \cup {t[i] : i \in 1..n}
<1>1. s \in Seq(S) /\ Len(s) = m
  <2>1. s \in [1..m -> S]
    OBVIOUS
  <2> HIDE DEF S
  <2> QED  BY <2>1, SeqDef, LenProperties
<1>2. t \in Seq(S) /\ Len(t) = n
  <2>1. t \in [1..n -> S]
    OBVIOUS
  <2> HIDE DEF S
  <2> QED  BY <2>1, SeqDef, LenProperties
<1> HIDE DEF S
<1>3. /\ s \o t \in Seq(S) /\ Len(s \o t) = m + n
      /\ \A i \in 1..(m + n) : (s \o t)[i] = IF i <= m THEN s[i] ELSE t[i - m]
  BY <1>1, <1>2, ConcatProperties
<1>4. DOMAIN (s \o t) = 1..(m + n)
  BY <1>3, LenProperties
<1>5. \A i \in 1..n : m + i \in 1..(m + n) /\ ~(m + i <= m) /\ (m + i) - m = i
  OBVIOUS
<1>6. \A i \in 1..m : i \in 1..(m + n) /\ i <= m
  OBVIOUS
<1>7. \A i \in 1..(m + n) : ~(i <= m) => i - m \in 1..n
  OBVIOUS
<1>8. \A i \in 1..(m + n) : i <= m => i \in 1..m
  OBVIOUS
<1> HIDE DEF S
<1> QED  BY <1>3, <1>4, <1>5, <1>6, <1>7, <1>8

\* Sets whose members correspond one to one have as many.
LEMMA SameSize ==
    ASSUME NEW S, IsFiniteSet(S), NEW T, NEW g,
           \A x \in S : g[x] \in T, \A x, y \in S : g[x] = g[y] => x = y,
           \A y \in T : \E x \in S : g[x] = y
    PROVE  IsFiniteSet(T) /\ Cardinality(T) = Cardinality(S)
<1> DEFINE h == [x \in S |-> g[x]]
<1>1. h \in [S -> T] /\ (\A x, y \in S : h[x] = h[y] => x = y) /\ \A y \in T : \E x \in S : h[x] = y
  OBVIOUS
<1> HIDE DEF h
<1>2. h \in Injection(S, T) /\ h \in Surjection(S, T)
  BY <1>1 DEF Injection, IsInjective, Surjection
<1>3. ExistsBijection(S, T)
  BY <1>2 DEF ExistsBijection, Bijection
<1> QED  BY <1>3, FS_Bijection

\* The least and the greatest of a nonempty set of places.
LEMMA LeastPlace ==
    ASSUME NEW n \in Nat, NEW T, T \subseteq 1..n, T # {}
    PROVE  Min(T) \in T /\ \A y \in T : Min(T) <= y
<1>1. T \subseteq Nat
  OBVIOUS
<1>2. \E x \in T : \A y \in T : x <= y
  BY <1>1, LeastOfSome
<1> QED  BY <1>2 DEF Min

LEMMA GreatestPlace ==
    ASSUME NEW n \in Nat, NEW T, T \subseteq 1..n, T # {}
    PROVE  Max(T) \in T /\ \A y \in T : y <= Max(T)
<1>1. T \in SUBSET (0..n)
  OBVIOUS
<1> QED  BY <1>1, MaxOfSome

\* What is the image of a finite set is finite.
LEMMA FiniteImage ==
    ASSUME NEW S, IsFiniteSet(S), NEW g
    PROVE  IsFiniteSet({g[x] : x \in S})
<1> DEFINE T == {g[x] : x \in S}
           h == [x \in S |-> g[x]]
<1>1. h \in Surjection(S, T)
  BY DEF Surjection
<1> HIDE DEF T, h
<1>2. IsFiniteSet(T)
  BY <1>1, FS_Surjection
<1> QED  BY <1>2 DEF T

\* A finite set of numbers that is not empty has a largest.
LEMMA MaxOfNumbers ==
    ASSUME NEW T, IsFiniteSet(T), T \subseteq Int, T # {}
    PROVE  Max(T) \in T /\ \A y \in T : y <= Max(T)
<1> DEFINE R == {e \in T \X T : e[1] < e[2]}
           n == Cardinality(T)
           c(x) == Cardinality(Preceding(R, T, x))
<1>1. InOrderBy(R, T)
  BY NumbersInRow
<1>2. \A x, y \in T : x < y => <<x, y>> \in R
  OBVIOUS
<1> HIDE DEF R
<1>3. /\ n \in Nat /\ \A x \in T : c(x) \in 0..(n - 1)
      /\ \A x, y \in T : <<x, y>> \in R => c(x) < c(y)
      /\ \A k \in 1..n : \E x \in T : c(x) = k - 1
  BY <1>1, PlacesInRow
<1> HIDE DEF c, n
<1>4. n \in 1..n
  <2>1. PICK x : x \in T
    OBVIOUS
  <2>2. n \in Nat /\ c(x) \in 0..(n - 1)
    BY <1>3, <2>1
  <2> QED  BY ONLY <2>2
<1>5. PICK x \in T : c(x) = n - 1
  BY <1>3, <1>4
<1>6. \A y \in T : x >= y
  <2>1. ASSUME NEW y \in T, ~(x >= y) PROVE FALSE
    <3>1. x < y
      BY <2>1
    <3>2. c(x) < c(y) /\ c(y) \in 0..(n - 1)
      BY <1>2, <1>3, <3>1
    <3> QED  BY <1>3, <1>5, <3>2
  <2> QED  BY <2>1
<1>7. Max(T) \in T /\ \A y \in T : Max(T) >= y
  BY <1>6 DEF Max
<1> QED  BY <1>7

------------------------------------------------------------------------------
(* Lists in the order of their weights.                                    *)

HeavierPairs(w, S) == {p \in S \X S : Heavier(w, p[1], p[2])}

\* Numbers with weights are in a row, the heaviest first.
LEMMA HeavierInRow ==
    ASSUME NEW S, S \subseteq Int, NEW w, \A i \in S : w[i] \in Int
    PROVE  InOrderBy(HeavierPairs(w, S), S)
<1>1. \A x, y \in S : <<x, y>> \in HeavierPairs(w, S) <=> Heavier(w, x, y)
  BY DEF HeavierPairs
<1>2. \A x \in S : ~Heavier(w, x, x)
  BY DEF Heavier
<1>3. \A x, y \in S : x = y \/ Heavier(w, x, y) \/ Heavier(w, y, x)
  BY DEF Heavier
<1>4. \A x, y, z \in S : Heavier(w, x, y) /\ Heavier(w, y, z) => Heavier(w, x, z)
  BY DEF Heavier
<1>5. \A x \in S : <<x, x>> \notin HeavierPairs(w, S)
  BY <1>1, <1>2
<1>6. \A x, y \in S : x = y \/ <<x, y>> \in HeavierPairs(w, S) \/ <<y, x>> \in HeavierPairs(w, S)
  BY <1>1, <1>3
<1>7. \A x, y, z \in S : <<x, y>> \in HeavierPairs(w, S) /\ <<y, z>> \in HeavierPairs(w, S)
                            => <<x, z>> \in HeavierPairs(w, S)
  BY <1>1, <1>4
<1> QED  BY <1>5, <1>6, <1>7 DEF InOrderBy

\* r has the members of S, the heaviest first.
IsRow(r, w, S) ==
    /\ Cardinality(S) \in Nat /\ DOMAIN r = 1..Cardinality(S) /\ r = [k \in 1..Cardinality(S) |-> r[k]]
    /\ \A k \in 1..Cardinality(S) : r[k] \in S
    /\ \A x \in S : \E k \in 1..Cardinality(S) : r[k] = x
    /\ \A j, k \in 1..Cardinality(S) : j < k <=> Heavier(w, r[j], r[k])
    /\ \A j, k \in 1..Cardinality(S) : r[j] = r[k] => j = k

LEMMA RankedIsRow ==
    ASSUME NEW S, IsFiniteSet(S), S \subseteq Int, NEW w, \A i \in S : w[i] \in Int
    PROVE  IsRow(HeaviestFirst(S, w), w, S)
<1> DEFINE R == HeavierPairs(w, S)
           r == HeaviestFirst(S, w)
           n == Cardinality(S)
<1>1. InOrderBy(R, S)
  BY HeavierInRow
<1>2. \A x \in S : {y \in S : Heavier(w, y, x)} = Preceding(R, S, x)
  BY DEF Preceding, HeavierPairs
<1>3. r = [k \in 1..n |-> CHOOSE x \in S : Cardinality({y \in S : Heavier(w, y, x)}) = k - 1]
  BY DEF HeaviestFirst, Ranked
<1> HIDE DEF R, r
<1>4. n \in Nat /\ \A k \in 1..n : \E x \in S : Cardinality(Preceding(R, S, x)) = k - 1
  BY <1>1, PlacesInRow
<1>5. ASSUME NEW k \in 1..n PROVE r[k] \in S /\ Cardinality(Preceding(R, S, r[k])) = k - 1
  <2>1. r[k] = CHOOSE x \in S : Cardinality({y \in S : Heavier(w, y, x)}) = k - 1
    BY <1>3
  <2>2. \E x \in S : Cardinality({y \in S : Heavier(w, y, x)}) = k - 1
    <3>1. PICK x \in S : Cardinality(Preceding(R, S, x)) = k - 1
      BY <1>4
    <3> QED  BY <1>2, <3>1
  <2>3. r[k] \in S /\ Cardinality({y \in S : Heavier(w, y, r[k])}) = k - 1
    BY <2>1, <2>2
  <2> QED  BY <1>2, <2>3
<1>6. \A k \in 1..n : r[k] \in S /\ Cardinality(Preceding(R, S, r[k])) = k - 1
  BY <1>5
<1>7. /\ \A x \in S : /\ Cardinality(Preceding(R, S, x)) + 1 \in 1..n
                      /\ r[Cardinality(Preceding(R, S, x)) + 1] = x
      /\ \A i, j \in 1..n : i < j <=> <<r[i], r[j]>> \in R
      /\ \A i, j \in 1..n : r[i] = r[j] => i = j
  BY <1>1, <1>6, InRow
<1>8. \A i, j \in 1..n : i < j <=> Heavier(w, r[i], r[j])
  <2>1. \A x, y \in S : <<x, y>> \in R <=> Heavier(w, x, y)
    BY DEF R, HeavierPairs
  <2> QED  BY <1>6, <1>7, <2>1
<1>9. \A x \in S : \E k \in 1..n : r[k] = x
  BY <1>7
<1>10. DOMAIN r = 1..n /\ r = [k \in 1..n |-> r[k]]
  <2> DEFINE G(k) == CHOOSE x \in S : Cardinality({y \in S : Heavier(w, y, x)}) = k - 1
  <2>1. r = [k \in 1..n |-> G(k)]
    BY <1>3
  <2> HIDE DEF G
  <2> QED  BY <2>1
<1> QED  BY <1>4, <1>6, <1>7, <1>8, <1>9, <1>10 DEF IsRow, r

\* The row of a set is the only one.
LEMMA OneRow ==
    ASSUME NEW S, IsFiniteSet(S), S \subseteq Int, NEW w, \A i \in S : w[i] \in Int,
           NEW q, IsRow(q, w, S), NEW r, IsRow(r, w, S)
    PROVE  q = r
<1> DEFINE R == HeavierPairs(w, S)
           n == Cardinality(S)
<1>1. InOrderBy(R, S)
  BY HeavierInRow
<1>2. ASSUME NEW s, IsRow(s, w, S), NEW k \in 1..n
      PROVE  s[k] \in S /\ Cardinality(Preceding(R, S, s[k])) = k - 1
  <2>1. /\ n \in Nat /\ \A i \in 1..n : s[i] \in S
        /\ \A x \in S : \E i \in 1..n : s[i] = x
        /\ \A i, j \in 1..n : i < j <=> Heavier(w, s[i], s[j])
        /\ \A i, j \in 1..n : s[i] = s[j] => i = j
    BY <1>2 DEF IsRow
  <2> DEFINE J == 1..(k - 1)
             P == Preceding(R, S, s[k])
  <2>2. k \in Nat /\ k - 1 \in Nat /\ \A i \in J : i \in 1..n /\ i < k
    BY <1>2, <2>1
  <2>3. \A x \in P : x \in S /\ Heavier(w, x, s[k])
    BY DEF Preceding, R, HeavierPairs
  <2>4. \A x \in S : Heavier(w, x, s[k]) => x \in P
    BY <2>1 DEF Preceding, R, HeavierPairs
  <2>5. IsFiniteSet(J) /\ Cardinality(J) = k - 1
    <3>1. 1 \in Int /\ k - 1 \in Int
      BY <2>2
    <3>2. IsFiniteSet(1..(k - 1)) /\ Cardinality(1..(k - 1)) = IF 1 > k - 1 THEN 0 ELSE (k - 1) - 1 + 1
      BY <3>1, FS_Interval
    <3> QED  BY <2>2, <3>2
  <2>6. \A i \in J : s[i] \in P
    BY <2>1, <2>2, <2>4
  <2>7. \A i, j \in J : s[i] = s[j] => i = j
    BY <2>1, <2>2
  <2>8. \A x \in P : \E i \in J : s[i] = x
    <3>1. ASSUME NEW x \in P PROVE \E i \in J : s[i] = x
      <4>1. PICK i \in 1..n : s[i] = x
        BY <2>1, <2>3
      <4>2. i < k
        BY <2>1, <2>3, <4>1
      <4>3. i \in J
        BY <2>2, <4>1, <4>2
      <4> QED  BY <4>1, <4>3
    <3> QED  BY <3>1
  <2> HIDE DEF J, P
  <2>9. Cardinality(P) = Cardinality(J)
    BY <2>5, <2>6, <2>7, <2>8, SameSize
  <2> QED  BY <2>1, <2>5, <2>9 DEF P
<1> HIDE DEF R
<1>3. \A k \in 1..n : q[k] \in S /\ Cardinality(Preceding(R, S, q[k])) = k - 1
  BY <1>2
<1>4. \A k \in 1..n : r[k] \in S /\ Cardinality(Preceding(R, S, r[k])) = k - 1
  BY <1>2
<1>5. \A x \in S : q[Cardinality(Preceding(R, S, x)) + 1] = x
  BY <1>1, <1>3, InRow
<1>6. \A k \in 1..n : q[k] = r[k]
  <2>1. ASSUME NEW k \in 1..n PROVE q[k] = r[k]
    <3>1. q[(k - 1) + 1] = r[k]
      BY <1>4, <1>5
    <3>2. (k - 1) + 1 = k
      OBVIOUS
    <3> QED  BY <3>1, <3>2
  <2> QED  BY <2>1
<1>7. q = [k \in 1..n |-> q[k]] /\ r = [k \in 1..n |-> r[k]]
  BY DEF IsRow
<1> QED  BY <1>6, <1>7

\* Only the weights of the members of S matter.
LEMMA SameWeights ==
    ASSUME NEW S, NEW w, NEW v, \A i \in S : v[i] = w[i], NEW r, IsRow(r, w, S)
    PROVE  IsRow(r, v, S)
<1>1. \A x, y \in S : Heavier(v, x, y) <=> Heavier(w, x, y)
  BY DEF Heavier
<1> QED  BY <1>1 DEF IsRow

\* The first numbers, and how many there are.
LEMMA Numbers1ToN ==
    ASSUME NEW n \in Nat
    PROVE  IsFiniteSet(1..n) /\ Cardinality(1..n) = n
<1>1. 1 \in Int /\ n \in Int
  OBVIOUS
<1>2. IsFiniteSet(1..n) /\ Cardinality(1..n) = IF 1 > n THEN 0 ELSE n - 1 + 1
  BY <1>1, FS_Interval
<1> QED  BY <1>2

\* Places of a row, taken in order, are a row of what is there.
LEMMA PartOfRow ==
    ASSUME NEW r, NEW w, NEW S, IsRow(r, w, S), NEW B, B \subseteq 1..Cardinality(S), NEW q,
           NEW m \in Nat, DOMAIN q = 1..m, q = [k \in 1..m |-> q[k]],
           \A k \in 1..m : q[k] \in B, \A x \in B : \E k \in 1..m : q[k] = x,
           \A j, k \in 1..m : j < k <=> q[j] < q[k]
    PROVE  LET T == {r[k] : k \in B} IN
           /\ IsFiniteSet(T) /\ Cardinality(T) = m
           /\ IsRow([k \in 1..m |-> r[q[k]]], w, T)
<1> DEFINE n == Cardinality(S)
           T == {r[k] : k \in B}
           p == [k \in 1..m |-> r[q[k]]]
<1>1. /\ n \in Nat /\ \A k \in 1..n : r[k] \in S
      /\ \A j, k \in 1..n : j < k <=> Heavier(w, r[j], r[k])
      /\ \A j, k \in 1..n : r[j] = r[k] => j = k
  BY DEF IsRow
<1>2. \A k \in 1..m : q[k] \in 1..n /\ q[k] \in Int
  BY <1>1
<1>3. DOMAIN p = 1..m /\ \A k \in 1..m : p[k] = r[q[k]]
  OBVIOUS
<1>4. p = [k \in 1..m |-> p[k]]
  BY <1>3
<1> HIDE DEF n, p
<1>5. \A k \in 1..m : p[k] \in T
  BY <1>3
<1>6. \A j, k \in 1..m : p[j] = p[k] => j = k
  <2>1. ASSUME NEW j \in 1..m, NEW k \in 1..m, p[j] = p[k] PROVE j = k
    <3>1. q[j] = q[k]
      BY <1>1, <1>2, <1>3, <2>1
    <3>2. ~(j < k) /\ ~(k < j)
      BY <1>2, <3>1
    <3> QED  BY <3>2
  <2> QED  BY <2>1
<1>7. \A x \in T : \E k \in 1..m : p[k] = x
  BY <1>3
<1>8. \A j, k \in 1..m : j < k <=> Heavier(w, p[j], p[k])
  <2>1. ASSUME NEW j \in 1..m, NEW k \in 1..m PROVE j < k <=> Heavier(w, p[j], p[k])
    <3>1. q[j] < q[k] <=> Heavier(w, r[q[j]], r[q[k]])
      BY <1>1, <1>2
    <3> QED  BY <1>3, <3>1
  <2> QED  BY <2>1
<1> HIDE DEF T
<1>9. IsFiniteSet(T) /\ Cardinality(T) = m
  <2>1. IsFiniteSet(1..m) /\ Cardinality(1..m) = m
    BY Numbers1ToN
  <2>2. PICK I : I = 1..m
    OBVIOUS
  <2>3. IsFiniteSet(I) /\ \A x \in I : p[x] \in T
    BY <1>5, <2>1, <2>2
  <2>4. (\A x, y \in I : p[x] = p[y] => x = y) /\ \A y \in T : \E x \in I : p[x] = y
    BY <1>6, <1>7, <2>2
  <2>5. IsFiniteSet(T) /\ Cardinality(T) = Cardinality(I)
    BY <2>3, <2>4, SameSize
  <2> QED  BY <2>1, <2>2, <2>5
<1>10. IsRow(p, w, T)
  BY <1>3, <1>4, <1>5, <1>6, <1>7, <1>8, <1>9 DEF IsRow
<1> QED  BY <1>9, <1>10 DEF T, p

\* The places that Picked takes, in order.
Ascending(q, B, m) ==
    /\ m \in Nat /\ DOMAIN q = 1..m /\ q = [k \in 1..m |-> q[k]]
    /\ \A k \in 1..m : q[k] \in B
    /\ \A x \in B : \E k \in 1..m : q[k] = x
    /\ \A j, k \in 1..m : j < k <=> q[j] < q[k]

TakenInOrder(p, s, B) ==
    \E q, m : /\ Ascending(q, B, m) /\ m = Cardinality(B) /\ IsFiniteSet(B)
              /\ p = [k \in 1..m |-> s[q[k]]]

LEMMA PickedAre ==
    ASSUME NEW s, NEW n \in Nat, NEW B, B \subseteq 1..n
    PROVE  TakenInOrder(Picked(s, B), s, B)
<1> DEFINE zero == [i \in B |-> 0]
           q == Ranked(B, LAMBDA i, j : i < j)
           m == Cardinality(B)
<1>1. IsFiniteSet(B) /\ B \subseteq Int /\ m \in Nat
  <2>1. IsFiniteSet(1..n) /\ B \in SUBSET (1..n)
    BY Numbers1ToN
  <2>2. IsFiniteSet(B)
    BY <2>1, FS_Subset
  <2> QED  BY <2>2, FS_CardinalityType
<1>2. \A i \in B : zero[i] = 0
  OBVIOUS
<1> HIDE DEF zero
<1>3. \A i, j \in B : Heavier(zero, i, j) <=> i < j
  BY <1>1, <1>2 DEF Heavier
<1>4. PICK r : r = HeaviestFirst(B, zero) /\ IsRow(r, zero, B)
  <2>1. \A i \in B : zero[i] \in Int
    BY <1>2
  <2> QED  BY <1>1, <2>1, RankedIsRow
<1>5. q = r
  <2>1. \A x \in B : {y \in B : y < x} = {y \in B : Heavier(zero, y, x)}
    BY <1>3
  <2>2. q = [k \in 1..m |-> CHOOSE x \in B : Cardinality({y \in B : y < x}) = k - 1]
    BY DEF Ranked
  <2>3. r = [k \in 1..m |-> CHOOSE x \in B : Cardinality({y \in B : Heavier(zero, y, x)}) = k - 1]
    BY <1>4 DEF HeaviestFirst, Ranked
  <2>4. \A k \in 1..m : (CHOOSE x \in B : Cardinality({y \in B : y < x}) = k - 1)
                          = CHOOSE x \in B : Cardinality({y \in B : Heavier(zero, y, x)}) = k - 1
    BY <2>1
  <2> QED  BY <2>2, <2>3, <2>4
<1>6. Picked(s, B) = [k \in 1..m |-> s[q[k]]]
  BY DEF Picked
<1> HIDE DEF q, m
<1>7. Ascending(q, B, m)
  <2>1. /\ DOMAIN r = 1..m /\ r = [k \in 1..m |-> r[k]] /\ \A k \in 1..m : r[k] \in B
        /\ \A x \in B : \E k \in 1..m : r[k] = x
        /\ \A j, k \in 1..m : j < k <=> Heavier(zero, r[j], r[k])
    BY <1>4 DEF IsRow, m
  <2>2. \A j, k \in 1..m : j < k <=> r[j] < r[k]
    BY <1>3, <2>1
  <2> QED  BY <1>1, <1>5, <2>1, <2>2 DEF Ascending
<1> QED  BY <1>1, <1>6, <1>7 DEF m, TakenInOrder

\* g names the members of S once each, those of equal weight in their order.
Steady(g, w, m, S) ==
    /\ m \in Nat /\ DOMAIN g = 1..m
    /\ \A k \in 1..m : g[k] \in S
    /\ \A x \in S : \E k \in 1..m : g[k] = x
    /\ \A j, k \in 1..m : g[j] = g[k] => j = k
    /\ \A j, k \in 1..m : j < k /\ w[g[j]] = w[g[k]] => g[j] < g[k]

LEMMA AscendingIsSteady ==
    ASSUME NEW S, S \subseteq Int, NEW g, NEW m, Ascending(g, S, m), NEW w
    PROVE  Steady(g, w, m, S)
<1>1. /\ m \in Nat /\ DOMAIN g = 1..m /\ \A k \in 1..m : g[k] \in S /\ g[k] \in Int
      /\ \A x \in S : \E k \in 1..m : g[k] = x
      /\ \A j, k \in 1..m : j < k <=> g[j] < g[k]
  BY DEF Ascending
<1>2. ASSUME NEW j \in 1..m, NEW k \in 1..m, g[j] = g[k] PROVE j = k
  <2>1. ~(g[j] < g[k]) /\ ~(g[k] < g[j])
    BY <1>1, <1>2
  <2>2. ~(j < k) /\ ~(k < j)
    BY <1>1, <2>1
  <2> QED  BY <2>2
<1> QED  BY <1>1, <1>2 DEF Steady

LEMMA RowIsSteady ==
    ASSUME NEW S, S \subseteq Int, NEW w, \A i \in S : w[i] \in Int, NEW g, IsRow(g, w, S)
    PROVE  Steady(g, w, Cardinality(S), S)
<1>1. /\ Cardinality(S) \in Nat /\ DOMAIN g = 1..Cardinality(S)
      /\ \A k \in 1..Cardinality(S) : g[k] \in S /\ g[k] \in Int /\ w[g[k]] \in Int
      /\ \A x \in S : \E k \in 1..Cardinality(S) : g[k] = x
      /\ \A j, k \in 1..Cardinality(S) : j < k <=> Heavier(w, g[j], g[k])
      /\ \A j, k \in 1..Cardinality(S) : g[j] = g[k] => j = k
  BY DEF IsRow
<1>2. \A j, k \in 1..Cardinality(S) : j < k /\ w[g[j]] = w[g[k]] => g[j] < g[k]
  BY <1>1 DEF Heavier
<1> QED  BY <1>1, <1>2 DEF Steady

\* t is what s has at the places S, the heaviest first.
SortedFrom(t, s, w, S) ==
    /\ IsFiniteSet(S)
    /\ \E h : IsRow(h, w, S) /\ t = [k \in 1..Cardinality(S) |-> s[h[k]]]

NumbersOn(S, w) == S \subseteq Int /\ \A i \in S : w[i] \in Int
TakenAlong(s, v, found, w, g, m) ==
    s = [k \in 1..m |-> found[g[k]]] /\ \A k \in 1..m : v[k] = w[g[k]]

\* Sorting them by weight makes the row of S.
LEMMA StablyIsRow ==
    ASSUME NEW S, NEW w, NumbersOn(S, w), NEW g, NEW m, Steady(g, w, m, S),
           NEW found, NEW s, NEW v, TakenAlong(s, v, found, w, g, m)
    PROVE  SortedFrom(Stably(s, v), found, w, S)
<1>18. S \subseteq Int /\ \A i \in S : w[i] \in Int
  BY DEF NumbersOn
<1>19. s = [k \in 1..m |-> found[g[k]]] /\ \A k \in 1..m : v[k] = w[g[k]]
  BY DEF TakenAlong
<1>1. /\ m \in Nat /\ \A k \in 1..m : g[k] \in S /\ g[k] \in Int /\ w[g[k]] \in Int
      /\ \A x \in S : \E k \in 1..m : g[k] = x
      /\ \A j, k \in 1..m : g[j] = g[k] => j = k
      /\ \A j, k \in 1..m : j < k /\ w[g[j]] = w[g[k]] => g[j] < g[k]
  BY <1>18 DEF Steady
<1>2. IsFiniteSet(1..m) /\ Cardinality(1..m) = m
  BY <1>1, Numbers1ToN
<1>3. IsFiniteSet(S) /\ Cardinality(S) = m
  <2>1. PICK I : I = 1..m
    OBVIOUS
  <2>2. IsFiniteSet(I) /\ \A x \in I : g[x] \in S
    BY ONLY <1>1, <1>2, <2>1
  <2>3. (\A x, y \in I : g[x] = g[y] => x = y) /\ \A y \in S : \E x \in I : g[x] = y
    BY ONLY <1>1, <2>1
  <2>4. IsFiniteSet(S) /\ Cardinality(S) = Cardinality(I)
    BY ONLY <2>2, <2>3, SameSize
  <2> QED  BY ONLY <1>2, <2>1, <2>4
<1>4. DOMAIN s = 1..m /\ \A k \in 1..m : s[k] = found[g[k]]
  BY <1>19
<1>5. PICK o : o = HeaviestFirst(DOMAIN s, v) /\ IsRow(o, v, 1..m)
  <2>1. 1..m \subseteq Int /\ \A k \in 1..m : v[k] \in Int
    BY <1>1, <1>19
  <2>2. PICK I : I = 1..m
    OBVIOUS
  <2>3. IsFiniteSet(I) /\ I \subseteq Int /\ \A k \in I : v[k] \in Int
    BY ONLY <1>2, <2>1, <2>2
  <2>4. IsRow(HeaviestFirst(I, v), v, I)
    BY ONLY <2>3, RankedIsRow
  <2> QED  BY ONLY <1>4, <2>2, <2>4
<1>17. 1..m \subseteq Int
  BY <1>1
<1>6. /\ DOMAIN o = 1..m /\ \A k \in 1..m : o[k] \in 1..m /\ o[k] \in Int
      /\ \A x \in 1..m : \E k \in 1..m : o[k] = x
      /\ \A j, k \in 1..m : j < k <=> Heavier(v, o[j], o[k])
      /\ \A j, k \in 1..m : o[j] = o[k] => j = k
  <2>1. Cardinality(1..m) = m /\ IsRow(o, v, 1..m) /\ 1..m \subseteq Int
    BY ONLY <1>2, <1>5, <1>17
  <2>2. /\ DOMAIN o = 1..Cardinality(1..m) /\ \A k \in 1..Cardinality(1..m) : o[k] \in 1..m
        /\ \A x \in 1..m : \E k \in 1..Cardinality(1..m) : o[k] = x
        /\ \A j, k \in 1..Cardinality(1..m) : j < k <=> Heavier(v, o[j], o[k])
        /\ \A j, k \in 1..Cardinality(1..m) : o[j] = o[k] => j = k
    BY ONLY <2>1 DEF IsRow
  <2>3. \A k \in 1..m : o[k] \in 1..m
    BY ONLY <2>1, <2>2
  <2>4. \A k \in 1..m : o[k] \in Int
    BY ONLY <2>1, <2>3
  <2> QED  BY ONLY <2>1, <2>2, <2>3, <2>4
<1>7. Stably(s, v) = [k \in 1..m |-> s[o[k]]]
  BY <1>5, <1>6 DEF Stably
<1> DEFINE h == [k \in 1..m |-> g[o[k]]]
<1>8. DOMAIN h = 1..m /\ \A k \in 1..m : h[k] = g[o[k]]
  OBVIOUS
<1>9. h = [k \in 1..m |-> h[k]]
  BY <1>8
<1> HIDE DEF h
<1>10. Stably(s, v) = [k \in 1..m |-> found[h[k]]]
  BY <1>4, <1>6, <1>7, <1>8
<1>11. \A k \in 1..m : h[k] \in S
  BY <1>1, <1>6, <1>8
<1>12. \A x \in S : \E k \in 1..m : h[k] = x
  <2>1. ASSUME NEW x \in S PROVE \E k \in 1..m : h[k] = x
    <3>1. PICK i \in 1..m : g[i] = x
      BY <1>1
    <3>2. PICK k \in 1..m : o[k] = i
      BY <1>6
    <3> QED  BY <1>8, <3>1, <3>2
  <2> QED  BY <2>1
<1>13. \A j, k \in 1..m : h[j] = h[k] => j = k
  <2>1. ASSUME NEW j \in 1..m, NEW k \in 1..m, h[j] = h[k] PROVE j = k
    <3>1. g[o[j]] = g[o[k]] /\ o[j] \in 1..m /\ o[k] \in 1..m
      BY ONLY <1>6, <1>8, <2>1
    <3>2. o[j] = o[k]
      BY ONLY <1>1, <3>1
    <3> QED  BY ONLY <1>6, <3>2
  <2> QED  BY <2>1
<1>14. \A x, y \in 1..m : Heavier(v, x, y) <=> Heavier(w, g[x], g[y])
  <2>1. ASSUME NEW x \in 1..m, NEW y \in 1..m PROVE Heavier(v, x, y) <=> Heavier(w, g[x], g[y])
    <3>1. v[x] = w[g[x]] /\ v[y] = w[g[y]] /\ w[g[x]] \in Int /\ w[g[y]] \in Int /\ g[x] \in Int /\ g[y] \in Int
      BY <1>1, <1>19
    <3>2. w[g[x]] = w[g[y]] => (x < y <=> g[x] < g[y])
      <4>1. ASSUME w[g[x]] = w[g[y]] PROVE x < y <=> g[x] < g[y]
        <5>1. (x < y => g[x] < g[y]) /\ (y < x => g[y] < g[x]) /\ (g[x] = g[y] => x = y)
          BY <1>1, <4>1
        <5> QED  BY <3>1, <5>1
      <4> QED  BY <4>1
    <3> QED  BY <3>1, <3>2 DEF Heavier
  <2> QED  BY <2>1
<1>15. \A j, k \in 1..m : j < k <=> Heavier(w, h[j], h[k])
  <2>1. ASSUME NEW j \in 1..m, NEW k \in 1..m PROVE j < k <=> Heavier(w, h[j], h[k])
    <3>1. Heavier(v, o[j], o[k]) <=> Heavier(w, g[o[j]], g[o[k]])
      BY ONLY <1>6, <1>14
    <3> QED  BY ONLY <1>6, <1>8, <3>1
  <2> QED  BY <2>1
<1>16. IsRow(h, w, S)
  BY <1>1, <1>3, <1>8, <1>9, <1>11, <1>12, <1>13, <1>15 DEF IsRow
<1> QED  BY <1>3, <1>10, <1>16 DEF SortedFrom

------------------------------------------------------------------------------
(* The bisection.                                                          *)

Middle(l, h) == (l + h + 1) \div 2

\* A turn of the loop at (l, h), which goes on as f says.
Turn(f, fits, l, h) ==
    IF l >= h THEN l ELSE IF Middle(l, h) \in fits THEN f[<<Middle(l, h), h>>] ELSE f[<<l, Middle(l, h) - 1>>]

\* f does the loop wherever at most n values are left besides the first.
Searches(f, lo, hi, fits, n) ==
    \A l, h \in lo..hi : h - l <= n => f[<<l, h>>] = Turn(f, fits, l, h)

\* The loop goes on with fewer values.
LEMMA MiddleBetween ==
    ASSUME NEW l \in Int, NEW h \in Int, l < h
    PROVE  /\ Middle(l, h) \in Int /\ l < Middle(l, h) /\ Middle(l, h) <= h
           /\ h - Middle(l, h) < h - l /\ Middle(l, h) - 1 - l < h - l
BY DEF Middle

\* f does the whole loop.
DoesSearch(f, lo, hi, fits) == f = [at \in (lo..hi) \X (lo..hi) |-> Turn(f, fits, at[1], at[2])]

\* There is such a function, whatever fits.
LEMMA SearchExists ==
    ASSUME NEW lo \in Int, NEW hi \in Int, NEW fits
    PROVE  \E f : DoesSearch(f, lo, hi, fits)
<1> DEFINE P == {n \in Nat : \E f : Searches(f, lo, hi, fits, n)}
<1>1. 0 \in P
  <2> DEFINE f == [at \in (lo..hi) \X (lo..hi) |-> at[1]]
  <2>1. \A l, h \in lo..hi : h - l <= 0 => f[<<l, h>>] = Turn(f, fits, l, h)
    BY DEF Turn
  <2> QED  BY <2>1 DEF Searches
<1>2. ASSUME NEW n \in Nat, n \in P PROVE n + 1 \in P
  <2>1. PICK f : Searches(f, lo, hi, fits, n)
    BY <1>2
  <2> DEFINE g == [at \in (lo..hi) \X (lo..hi) |->
                    IF at[2] - at[1] <= n THEN f[at] ELSE Turn(f, fits, at[1], at[2])]
  <2>2. ASSUME NEW l \in lo..hi, NEW h \in lo..hi, h - l <= n + 1
        PROVE  g[<<l, h>>] = Turn(g, fits, l, h)
    <3>1. g[<<l, h>>] = Turn(f, fits, l, h)
      BY <2>1 DEF Searches
    <3>2. CASE l >= h
      BY <3>1, <3>2 DEF Turn
    <3>3. CASE l < h
      <4> DEFINE m == Middle(l, h)
      <4>0. l \in Int /\ h \in Int /\ lo <= l /\ h <= hi /\ h - l <= n + 1
        BY <2>2
      <4>1. m \in Int /\ l < m /\ m <= h /\ h - m < h - l /\ m - 1 - l < h - l
        BY <3>3, <4>0, MiddleBetween
      <4>3. m \in lo..hi /\ m - 1 \in lo..hi /\ h - m <= n /\ m - 1 - l <= n
        BY ONLY <4>0, <4>1, lo \in Int, hi \in Int, n \in Nat
      <4> HIDE DEF m
      <4>2. g[<<m, h>>] = f[<<m, h>>] /\ g[<<l, m - 1>>] = f[<<l, m - 1>>]
        BY <4>3
      <4> HIDE DEF g
      <4> QED  BY <3>1, <4>2 DEF Turn, m
    <3> QED  BY <3>2, <3>3
  <2> HIDE DEF g
  <2>3. Searches(g, lo, hi, fits, n + 1)
    BY <2>2 DEF Searches
  <2> QED  BY <2>3
<1>3. Nat \subseteq P
  <2> HIDE DEF P
  <2> QED  BY <1>1, <1>2, SetInduction
<1>4. CASE hi < lo
  <2> DEFINE f == [at \in (lo..hi) \X (lo..hi) |-> at[1]]
  <2>1. lo..hi = {}
    BY <1>4
  <2>2. DoesSearch(f, lo, hi, fits)
    BY <2>1 DEF DoesSearch
  <2> QED  BY <2>2
<1>5. CASE lo <= hi
  <2>1. PICK f : Searches(f, lo, hi, fits, hi - lo)
    BY <1>3, <1>5
  <2>2. \A l, h \in lo..hi : f[<<l, h>>] = Turn(f, fits, l, h)
    <3>1. \A l, h \in lo..hi : h - l <= hi - lo
      OBVIOUS
    <3> QED  BY <2>1, <3>1 DEF Searches
  <2> DEFINE g == [at \in (lo..hi) \X (lo..hi) |-> f[at]]
  <2>3. ASSUME NEW l \in lo..hi, NEW h \in lo..hi
        PROVE  Turn(f, fits, l, h) = Turn(g, fits, l, h)
    <3>1. CASE l < h
      <4> DEFINE m == Middle(l, h)
      <4>0. l \in Int /\ h \in Int /\ lo <= l /\ h <= hi
        OBVIOUS
      <4>3. m \in Int /\ l < m /\ m <= h
        BY <3>1, <4>0, MiddleBetween
      <4>1. m \in lo..hi /\ m - 1 \in lo..hi
        BY ONLY <4>0, <4>3, lo \in Int, hi \in Int
      <4> HIDE DEF m
      <4>2. g[<<m, h>>] = f[<<m, h>>] /\ g[<<l, m - 1>>] = f[<<l, m - 1>>]
        BY <4>1
      <4> HIDE DEF g
      <4> QED  BY <4>2 DEF Turn, m
    <3> QED  BY <3>1 DEF Turn
  <2>4. g = [at \in (lo..hi) \X (lo..hi) |-> Turn(g, fits, at[1], at[2])]
    <3>1. \A l, h \in lo..hi : f[<<l, h>>] = Turn(g, fits, l, h)
      BY <2>2, <2>3
    <3> QED  BY <3>1
  <2> QED  BY <2>4 DEF DoesSearch
<1> QED  BY <1>4, <1>5

\* What the loop ends with from l, which fits, and h: a value that fits, the last one or with
\* one behind it that does not.
Ends(r, l, h, fits) == r \in l..h /\ r \in fits /\ (r = h \/ r + 1 \notin fits)

LEMMA SearchEnds ==
    ASSUME NEW lo \in Int, NEW hi \in Int, NEW fits, NEW f,
           DoesSearch(f, lo, hi, fits),
           NEW a \in lo..hi, NEW z \in lo..hi, a <= z, a \in fits
    PROVE  Ends(f[<<a, z>>], a, z, fits)
<1> DEFINE Q(n) == \A l, h \in lo..hi : l <= h /\ h - l <= n /\ l \in fits
                       => Ends(f[<<l, h>>], l, h, fits)
           P == {n \in Nat : Q(n)}
<1>0. \A l, h \in lo..hi : f[<<l, h>>] = Turn(f, fits, l, h)
  <2>1. \A at \in (lo..hi) \X (lo..hi) : f[at] = Turn(f, fits, at[1], at[2])
    BY DEF DoesSearch
  <2> QED  BY <2>1
<1>1. 0 \in P
  <2>1. ASSUME NEW l \in lo..hi, NEW h \in lo..hi, l <= h, h - l <= 0, l \in fits
        PROVE  Ends(f[<<l, h>>], l, h, fits)
    <3>2. l = h
      BY <2>1
    <3>3. f[<<l, h>>] = Turn(f, fits, l, h)
      BY <1>0
    <3>1. l = h /\ f[<<l, h>>] = l
      BY ONLY <3>2, <3>3, l \in Int DEF Turn
    <3> QED  BY <2>1, <3>1 DEF Ends
  <2> QED  BY <2>1
<1>2. ASSUME NEW n \in Nat, n \in P PROVE n + 1 \in P
  <2>1. ASSUME NEW l \in lo..hi, NEW h \in lo..hi, l <= h, h - l <= n + 1, l \in fits
        PROVE  Ends(f[<<l, h>>], l, h, fits)
    <3> DEFINE m == Middle(l, h)
    <3>1. l \in Int /\ h \in Int /\ lo <= l /\ h <= hi
      OBVIOUS
    <3>4. f[<<l, h>>] = Turn(f, fits, l, h)
      BY <1>0
    <3>2. CASE l = h
      <4>1. f[<<l, h>>] = l
        BY <3>2, <3>4 DEF Turn
      <4> QED  BY <2>1, <3>1, <3>2, <4>1 DEF Ends
    <3>3. CASE l < h
      <4>1. m \in Int /\ l < m /\ m <= h /\ h - m < h - l /\ m - 1 - l < h - l
        BY <3>1, <3>3, MiddleBetween
      <4> HIDE DEF m
      <4>2. m \in lo..hi /\ m - 1 \in lo..hi /\ h - m <= n /\ m - 1 - l <= n /\ l <= m - 1
        BY ONLY <2>1, <3>1, <4>1, lo \in Int, hi \in Int, n \in Nat
      <4>3. Q(n)
        BY <1>2
      <4>4. CASE m \in fits
        <5>1. f[<<l, h>>] = f[<<m, h>>]
          BY ONLY <3>1, <3>3, <3>4, <4>4 DEF Turn, m
        <5>2. Ends(f[<<m, h>>], m, h, fits)
          BY <4>1, <4>2, <4>3, <4>4
        <5> QED  BY <3>1, <4>1, <5>1, <5>2 DEF Ends
      <4>5. CASE m \notin fits
        <5>1. f[<<l, h>>] = f[<<l, m - 1>>]
          BY ONLY <3>1, <3>3, <3>4, <4>5 DEF Turn, m
        <5>2. Ends(f[<<l, m - 1>>], l, m - 1, fits)
          BY <2>1, <4>2, <4>3
        <5> QED  BY <3>1, <4>1, <4>5, <5>1, <5>2 DEF Ends
      <4> QED  BY <4>4, <4>5
    <3> QED  BY <2>1, <3>1, <3>2, <3>3
  <2>2. Q(n + 1)
    BY <2>1
  <2> HIDE DEF Q
  <2> QED  BY <2>2
<1>3. Nat \subseteq P
  <2> HIDE DEF P
  <2> QED  BY <1>1, <1>2, SetInduction
<1>4. z - a \in Nat /\ z - a <= z - a
  OBVIOUS
<1>5. Q(z - a)
  BY <1>3, <1>4
<1> HIDE DEF P
<1> QED  BY <1>4, <1>5

\* _largest_fitting: None when the first value does not fit; else a value that fits, the last
\* one or with one behind it that does not.
THEOREM BisectionEnds ==
    ASSUME NEW lo \in Int, NEW hi \in Int, NEW fits
    PROVE  LET r == LargestFitting(lo, hi, fits) IN
           IF lo <= hi /\ lo \in fits THEN Ends(r, lo, hi, fits) ELSE r = -1
<1> DEFINE search[at \in (lo..hi) \X (lo..hi)] ==
            LET l == at[1]
                h == at[2]
                mid == (l + h + 1) \div 2
            IN  IF l >= h THEN l
                ELSE IF mid \in fits THEN search[<<mid, h>>] ELSE search[<<l, mid - 1>>]
<1>1. LargestFitting(lo, hi, fits) = IF hi < lo \/ lo \notin fits THEN -1 ELSE search[<<lo, hi>>]
  BY DEF LargestFitting
<1>2. search = CHOOSE f : DoesSearch(f, lo, hi, fits)
  BY DEF DoesSearch, Turn, Middle
<1> HIDE DEF search
<1>3. DoesSearch(search, lo, hi, fits)
  BY <1>2, SearchExists
<1>4. CASE lo <= hi /\ lo \in fits
  <2>1. lo \in lo..hi /\ hi \in lo..hi
    BY <1>4
  <2>2. Ends(search[<<lo, hi>>], lo, hi, fits)
    BY <1>3, <1>4, <2>1, SearchEnds
  <2> QED  BY <1>1, <1>4, <2>2
<1> QED  BY <1>1, <1>4

\* Where what fits is an interval from the first value, it is the largest value that fits.
LEMMA BisectionFindsLargest ==
    ASSUME NEW lo \in Int, NEW hi \in Int, NEW fits, NEW top \in lo..hi,
           \A r \in lo..hi : r \in fits <=> r <= top
    PROVE  LargestFitting(lo, hi, fits) = top
<1>1. lo <= hi /\ lo \in fits
  OBVIOUS
<1> DEFINE r == LargestFitting(lo, hi, fits)
<1>2. Ends(r, lo, hi, fits)
  BY <1>1, BisectionEnds
<1> HIDE DEF r
<1>3. r \in lo..hi /\ r <= top /\ (r = hi \/ r + 1 \notin fits)
  BY <1>2 DEF Ends
<1>4. r = top
  BY <1>3
<1> QED  BY <1>4 DEF r

------------------------------------------------------------------------------
(* Counts of numbers, runs of numbers, numbers that rise.                  *)

\* How many of the first k places are in A.
HowMany(A, k) == Cardinality({j \in 1..k : j \in A})

\* The count rises by one at each place of A.
LEMMA CountNext ==
    ASSUME NEW A, NEW k \in Nat
    PROVE  /\ IsFiniteSet({j \in 1..k : j \in A}) /\ HowMany(A, k) \in Nat
           /\ HowMany(A, 0) = 0
           /\ HowMany(A, k + 1) = HowMany(A, k) + (IF k + 1 \in A THEN 1 ELSE 0)
<1> DEFINE S == {j \in 1..k : j \in A}
           T == {j \in 1..(k + 1) : j \in A}
<1>1. IsFiniteSet(S)
  <2>1. IsFiniteSet(1..k)
    BY FS_Interval
  <2>2. S \in SUBSET (1..k)
    OBVIOUS
  <2> HIDE DEF S
  <2> QED  BY <2>1, <2>2, FS_Subset
<1>2. {j \in 1..0 : j \in A} = {}
  OBVIOUS
<1>3. T = IF k + 1 \in A THEN S \cup {k + 1} ELSE S
  <2>1. 1..(k + 1) = (1..k) \cup {k + 1}
    OBVIOUS
  <2> QED  BY <2>1
<1>4. k + 1 \notin S
  OBVIOUS
<1> HIDE DEF S, T
<1>5. Cardinality(S) \in Nat /\ Cardinality(S \cup {k + 1}) = Cardinality(S) + 1
  BY <1>1, <1>4, FS_AddElement, FS_CardinalityType
<1>6. HowMany(A, k) = Cardinality(S) /\ HowMany(A, k + 1) = Cardinality(T) /\ HowMany(A, 0) = Cardinality({})
  BY <1>2 DEF HowMany, S, T
<1>7. Cardinality({}) = 0
  BY FS_EmptySet
<1> QED  BY <1>1, <1>3, <1>5, <1>6, <1>7 DEF S

\* It never falls, and rises by as many as the places between.
LEMMA CountGrows ==
    ASSUME NEW A, NEW a \in Nat, NEW b \in Nat, a <= b
    PROVE  /\ HowMany(A, a) <= HowMany(A, b) /\ HowMany(A, b) - HowMany(A, a) <= b - a
           /\ (\A k \in (a + 1)..b : k \in A) => HowMany(A, b) - HowMany(A, a) = b - a
           /\ (\A k \in (a + 1)..b : k \notin A) => HowMany(A, b) = HowMany(A, a)
           /\ a < b /\ b \in A => HowMany(A, a) < HowMany(A, b)
           /\ a < b /\ (a + 1) \in A => HowMany(A, a) < HowMany(A, b)
<1> DEFINE G(m) == /\ HowMany(A, a) <= HowMany(A, a + m) /\ HowMany(A, a + m) - HowMany(A, a) <= m
                   /\ (\A k \in (a + 1)..(a + m) : k \in A) => HowMany(A, a + m) - HowMany(A, a) = m
                   /\ (\A k \in (a + 1)..(a + m) : k \notin A) => HowMany(A, a + m) = HowMany(A, a)
                   /\ 0 < m /\ a + m \in A => HowMany(A, a) < HowMany(A, a + m)
                   /\ 0 < m /\ (a + 1) \in A => HowMany(A, a) < HowMany(A, a + m)
           P == {m \in Nat : G(m)}
<1>1. \A k \in Nat : HowMany(A, k) \in Nat
  BY CountNext
<1>2. 0 \in P
  BY <1>1
<1>3. ASSUME NEW m \in Nat, m \in P PROVE m + 1 \in P
  <2>1. HowMany(A, a + m + 1) = HowMany(A, a + m) + (IF a + m + 1 \in A THEN 1 ELSE 0)
    <3>1. a + m \in Nat
      OBVIOUS
    <3> QED  BY <3>1, CountNext
  <2>2. G(m) /\ HowMany(A, a) \in Nat /\ HowMany(A, a + m) \in Nat /\ a + (m + 1) = a + m + 1
    BY <1>1, <1>3
  <2>3. a + m + 1 \in (a + 1)..(a + m + 1) /\ \A k \in (a + 1)..(a + m) : k \in (a + 1)..(a + m + 1)
    OBVIOUS
  <2>4. m = 0 => a + m + 1 = a + 1
    OBVIOUS
  <2>5. G(m + 1)
    BY <2>1, <2>2, <2>3, <2>4
  <2> QED  BY <2>5
<1>4. Nat \subseteq P
  <2> HIDE DEF P
  <2> QED  BY <1>2, <1>3, SetInduction
<1>5. b - a \in Nat /\ a + (b - a) = b
  OBVIOUS
<1>6. G(b - a)
  BY <1>4, <1>5
<1> QED  BY <1>5, <1>6

\* Each number up to how many there are is that of a place.
LEMMA CountReaches ==
    ASSUME NEW A, NEW n \in Nat
    PROVE  \A m \in 1..HowMany(A, n) : \E k \in 1..n : k \in A /\ HowMany(A, k) = m
<1> DEFINE G(i) == \A m \in 1..HowMany(A, i) : \E k \in 1..i : k \in A /\ HowMany(A, k) = m
           P == {i \in Nat : G(i)}
<1>1. \A k \in Nat : HowMany(A, k) \in Nat /\ HowMany(A, 0) = 0
  BY CountNext
<1>2. 0 \in P
  BY <1>1
<1>3. ASSUME NEW i \in Nat, i \in P PROVE i + 1 \in P
  <2>1. HowMany(A, i + 1) = HowMany(A, i) + (IF i + 1 \in A THEN 1 ELSE 0) /\ HowMany(A, i) \in Nat
    BY CountNext
  <2>2. G(i) /\ i + 1 \in 1..(i + 1) /\ \A k \in 1..i : k \in 1..(i + 1)
    BY <1>3
  <2>3. ASSUME NEW m \in 1..HowMany(A, i + 1) PROVE \E k \in 1..(i + 1) : k \in A /\ HowMany(A, k) = m
    <3>1. CASE m <= HowMany(A, i)
      BY <2>1, <2>2, <3>1
    <3>2. CASE ~(m <= HowMany(A, i))
      <4>1. i + 1 \in A /\ m = HowMany(A, i + 1)
        BY <2>1, <3>2
      <4> QED  BY <2>2, <4>1
    <3> QED  BY <3>1, <3>2
  <2> QED  BY <2>3
<1>4. Nat \subseteq P
  <2> HIDE DEF P
  <2> QED  BY <1>2, <1>3, SetInduction
<1> QED  BY <1>4

\* B are the places of A in the n places after the first d.
IsPart(B, A, d, n) == \A m \in 1..n : m \in B <=> m + d \in A

\* Places of a part of a list, counted from its start.
LEMMA CountShifted ==
    ASSUME NEW A, NEW B, NEW d \in Nat, NEW n \in Nat, IsPart(B, A, d, n), NEW k \in 0..n
    PROVE  HowMany(B, k) = HowMany(A, k + d) - HowMany(A, d)
<1> DEFINE P == {i \in Nat : i <= n => HowMany(B, i) = HowMany(A, i + d) - HowMany(A, d)}
<1>1. \A i \in Nat : HowMany(A, i) \in Nat /\ HowMany(B, i) \in Nat /\ HowMany(B, 0) = 0
  BY CountNext
<1>2. 0 \in P
  BY <1>1
<1>3. ASSUME NEW i \in Nat, i \in P PROVE i + 1 \in P
  <2>1. HowMany(B, i + 1) = HowMany(B, i) + (IF i + 1 \in B THEN 1 ELSE 0)
        /\ HowMany(A, i + d + 1) = HowMany(A, i + d) + (IF i + d + 1 \in A THEN 1 ELSE 0)
    <3>1. i + d \in Nat
      OBVIOUS
    <3> QED  BY <3>1, CountNext
  <2>2. i + 1 + d = i + d + 1 /\ i + d \in Nat
    OBVIOUS
  <2>3. i + 1 <= n => (i + 1 \in B <=> i + d + 1 \in A)
    BY <2>2 DEF IsPart
  <2> QED  BY <1>1, <1>3, <2>1, <2>2, <2>3
<1>4. Nat \subseteq P
  <2> HIDE DEF P
  <2> QED  BY <1>2, <1>3, SetInduction
<1> QED  BY <1>4

\* A number up to the count is that of one place.
LEMMA PlaceCounted ==
    ASSUME NEW A, NEW n \in Nat, NEW k \in 0..n
    PROVE  /\ HowMany(A, k) \in Nat /\ HowMany(A, n) \in Nat /\ HowMany(A, k) <= HowMany(A, n)
           /\ k > 0 => /\ k - 1 \in Nat /\ HowMany(A, k - 1) \in Nat
                       /\ HowMany(A, k) = HowMany(A, k - 1) + (IF k \in A THEN 1 ELSE 0)
<1>1. k \in Nat /\ k <= n
  OBVIOUS
<1>2. HowMany(A, k) \in Nat /\ HowMany(A, n) \in Nat /\ HowMany(A, k) <= HowMany(A, n)
  BY <1>1, CountNext, CountGrows
<1>3. ASSUME k > 0 PROVE /\ k - 1 \in Nat /\ HowMany(A, k - 1) \in Nat
                         /\ HowMany(A, k) = HowMany(A, k - 1) + (IF k \in A THEN 1 ELSE 0)
  <2>1. PICK l \in Nat : l = k - 1 /\ k = l + 1
    BY <1>1, <1>3
  <2>2. HowMany(A, l) \in Nat /\ HowMany(A, l + 1) = HowMany(A, l) + (IF l + 1 \in A THEN 1 ELSE 0)
    BY CountNext
  <2> QED  BY <2>1, <2>2
<1> QED  BY <1>2, <1>3

\* The places of A in a part of a script.
PartOf(A, i, j) == {m \in 1..(j - i + 1) : m + i - 1 \in A}

\* The counts within a part of a script are differences of the counts in it.
LEMMA PartCounts ==
    ASSUME NEW A, NEW i \in Nat, i >= 1, NEW j \in Nat, i <= j, NEW k \in 0..(j - i + 1)
    PROVE  HowMany(PartOf(A, i, j), k) = HowMany(A, k + i - 1) - HowMany(A, i - 1)
<1>1. PICK d \in Nat, n \in Nat : d = i - 1 /\ n = j - i + 1
  OBVIOUS
<1>2. \A m \in 1..n : m \in PartOf(A, i, j) <=> m + d \in A
  <2>1. \A m \in 1..n : m + i - 1 = m + d
    BY <1>1
  <2> QED  BY <1>1, <2>1 DEF PartOf
<1>3. k \in 0..n
  BY <1>1
<1>4. PICK B : B = PartOf(A, i, j)
  OBVIOUS
<1>5. IsPart(B, A, d, n)
  BY <1>2, <1>4 DEF IsPart
<1>6. HowMany(B, k) = HowMany(A, k + d) - HowMany(A, d)
  BY <1>3, <1>5, CountShifted
<1>7. k + d = k + i - 1
  BY <1>1
<1> QED  BY <1>1, <1>4, <1>6, <1>7

\* At a place of A the count rises, so it tells the places before from those after.
LEMMA CountsOfPlaces ==
    ASSUME NEW A, NEW p \in Nat, NEW k \in Nat, k \in A, k >= 1
    PROVE  /\ HowMany(A, p) \in Nat /\ HowMany(A, k) \in Nat
           /\ HowMany(A, p) < HowMany(A, k) <=> p < k
           /\ k - 1 \in Nat /\ HowMany(A, k - 1) + 1 = HowMany(A, k)
<1>1. HowMany(A, p) \in Nat /\ HowMany(A, k) \in Nat
  BY CountNext
<1>2. p < k => HowMany(A, p) < HowMany(A, k)
  BY CountGrows
<1>3. k <= p => HowMany(A, k) <= HowMany(A, p)
  BY CountGrows
<1>4. PICK l \in Nat : l = k - 1 /\ k = l + 1
  <2>1. k - 1 \in Nat /\ k = (k - 1) + 1
    OBVIOUS
  <2> QED  BY <2>1
<1>5. HowMany(A, l + 1) = HowMany(A, l) + (IF l + 1 \in A THEN 1 ELSE 0)
  BY CountNext
<1> QED  BY <1>1, <1>2, <1>3, <1>4, <1>5

\* A hunk is a stretch of shown lines that ends where the shown lines do.
IsRun(b, S, n) == /\ b[1] \in 1..n /\ b[2] \in b[1]..n /\ b = <<b[1], b[2]>>
                  /\ b[1]..b[2] \subseteq S /\ b[1] - 1 \notin S /\ b[2] + 1 \notin S

\* Every shown line is in one run of shown lines, and runs do not touch.
LEMMA RunsOfShown ==
    ASSUME NEW S, NEW n \in Nat, S \subseteq 1..n
    PROVE  /\ \A x, y : IsRun(x, S, n) /\ IsRun(y, S, n) =>
                   (x[1] < y[1] => x[2] + 1 < y[1]) /\ (x[1] = y[1] => x = y)
           /\ \A k \in S : \E b \in (1..n) \X (1..n) : IsRun(b, S, n) /\ k \in b[1]..b[2]
<1>1. ASSUME NEW x, NEW y, IsRun(x, S, n), IsRun(y, S, n), x[1] < y[1] PROVE x[2] + 1 < y[1]
  <2>1. PICK a, b, c \in Int : a = x[1] /\ b = x[2] /\ c = y[1]
    BY <1>1 DEF IsRun
  <2>2. a..b \subseteq S /\ c - 1 \notin S /\ a < c
    BY <1>1, <2>1 DEF IsRun
  <2>3. b + 1 >= c => c - 1 \in a..b
    BY <2>2
  <2>4. b + 1 < c
    BY <2>2, <2>3
  <2> QED  BY <2>1, <2>4
<1>2. ASSUME NEW x, NEW y, IsRun(x, S, n), IsRun(y, S, n), x[1] = y[1] PROVE x = y
  <2>1. PICK a, b, c \in Int : a = x[1] /\ b = x[2] /\ c = y[2]
    BY <1>2 DEF IsRun
  <2>2. a..b \subseteq S /\ a..c \subseteq S /\ b + 1 \notin S /\ c + 1 \notin S /\ a <= b /\ a <= c
    BY <1>2, <2>1 DEF IsRun
  <2>3. (b < c => b + 1 \in a..c) /\ (c < b => c + 1 \in a..b)
    BY <2>2
  <2>4. b = c
    BY <2>2, <2>3
  <2> QED  BY <1>2, <2>1, <2>4 DEF IsRun
<1>3. ASSUME NEW k \in S PROVE \E b \in (1..n) \X (1..n) : IsRun(b, S, n) /\ k \in b[1]..b[2]
  <2> DEFINE D == {j \in 1..n : j <= k /\ j..k \subseteq S}
             U == {j \in 1..n : k <= j /\ k..j \subseteq S}
  <2>1. k \in D /\ k \in U
    OBVIOUS
  <2>2. PICK i \in D : \A j \in D : i <= j
    <3> HIDE DEF D
    <3> QED  BY <2>1, LeastPlace DEF D
  <2>3. PICK m \in U : \A j \in U : j <= m
    <3> HIDE DEF U
    <3> QED  BY <2>1, GreatestPlace DEF U
  <2>4. i \in 1..n /\ m \in 1..n /\ i <= k /\ k <= m /\ i..k \subseteq S /\ k..m \subseteq S
    BY <2>2, <2>3
  <2>5. i - 1 \notin S
    <3>1. ASSUME i - 1 \in S PROVE FALSE
      <4>1. i - 1 \in 1..n /\ i - 1 <= k /\ \A j \in (i - 1)..k : j = i - 1 \/ j \in i..k
        BY <2>4, <3>1
      <4>2. i - 1 \in D
        BY <2>4, <3>1, <4>1
      <4> QED  BY <2>2, <2>4, <4>2
    <3> QED  BY <3>1
  <2>6. m + 1 \notin S
    <3>1. ASSUME m + 1 \in S PROVE FALSE
      <4>1. m + 1 \in 1..n /\ k <= m + 1 /\ \A j \in k..(m + 1) : j = m + 1 \/ j \in k..m
        BY <2>4, <3>1
      <4>2. m + 1 \in U
        BY <2>4, <3>1, <4>1
      <4> QED  BY <2>3, <2>4, <4>2
    <3> QED  BY <3>1
  <2>7. \A j \in i..m : j \in i..k \/ j \in k..m
    BY <2>4
  <2>8. i..m \subseteq S
    BY <2>4, <2>7
  <2>9. PICK b : b = <<i, m>>
    OBVIOUS
  <2>10. b[1] = i /\ b[2] = m /\ b \in (1..n) \X (1..n)
    BY <2>4, <2>9
  <2>11. IsRun(b, S, n)
    <3>1. i \in 1..n /\ m \in i..n
      BY <2>4
    <3> QED  BY <2>5, <2>6, <2>8, <2>9, <2>10, <3>1 DEF IsRun
  <2>12. k \in b[1]..b[2]
    BY <2>4, <2>10
  <2> QED  BY <2>10, <2>11, <2>12
<1> QED  BY <1>1, <1>2, <1>3

\* The least of some numbers from a on.
LEMMA LeastFrom ==
    ASSUME NEW a \in Int, NEW T, \A x \in T : x \in Int /\ a <= x, T # {}
    PROVE  Min(T) \in T /\ \A y \in T : Min(T) <= y
<1>1. PICK U : U = {x - a : x \in T}
  OBVIOUS
<1>2. U \subseteq Nat /\ U # {}
  BY <1>1
<1>3. PICK u \in U : \A v \in U : u <= v
  BY <1>2, LeastOfSome
<1>4. PICK x \in T : u = x - a
  BY <1>1, <1>3
<1>5. \A y \in T : x <= y
  <2>1. ASSUME NEW y \in T PROVE x <= y
    <3>1. y - a \in U
      BY <1>1
    <3>2. x - a <= y - a /\ x \in Int /\ y \in Int
      BY <1>3, <1>4, <3>1
    <3> QED  BY <3>2
  <2> QED  BY <2>1
<1> QED  BY <1>5 DEF Min

\* Numbers that rise rise by one at least.
LEMMA RisingGaps ==
    ASSUME NEW B, B \subseteq Int, NEW f, NEW m, Ascending(f, B, m), NEW j \in 1..m, NEW k \in 1..m, j < k
    PROVE  f[k] - f[j] >= k - j
<1>1. m \in Nat /\ (\A i \in 1..m : f[i] \in Int) /\ \A i, l \in 1..m : i < l => f[i] < f[l]
  BY DEF Ascending
<1> DEFINE G == {d \in Nat : j + d <= m => f[j + d] - f[j] >= d}
<1>2. 0 \in G
  <2>1. j + 0 = j
    OBVIOUS
  <2> QED  BY <1>1, <2>1
<1>3. ASSUME NEW d \in Nat, d \in G PROVE d + 1 \in G
  <2>1. ASSUME j + (d + 1) <= m PROVE f[j + (d + 1)] - f[j] >= d + 1
    <3>1. j + d \in 1..m /\ j + (d + 1) \in 1..m /\ j + d < j + (d + 1) /\ j + d <= m
      BY <1>1, <2>1
    <3>2. PICK x \in Int, y \in Int, z \in Int : x = f[j] /\ y = f[j + d] /\ z = f[j + (d + 1)] /\ y < z
      BY <1>1, <3>1
    <3>3. y - x >= d
      BY <1>3, <3>1, <3>2
    <3>4. z - x >= d + 1
      BY <3>2, <3>3
    <3> QED  BY <3>2, <3>4
  <2> QED  BY <2>1
<1>4. Nat \subseteq G
  <2> HIDE DEF G
  <2> QED  BY <1>2, <1>3, SetInduction
<1>5. PICK d \in Nat : d = k - j /\ j + d = k
  OBVIOUS
<1> QED  BY <1>1, <1>4, <1>5

------------------------------------------------------------------------------
(* Lists, and lines that a text has one behind the other.                 *)

\* A list sorted by what its elements weigh.
SameWeight(p, v, s, w, B) == \A k \in DOMAIN p, i \in B : p[k] = s[i] => v[k] = w[i]

LEMMA PickedSorted ==
    ASSUME NEW s, NEW n \in Nat, NEW B, B \subseteq 1..n, NEW w, NumbersOn(B, w),
           NEW v, SameWeight(Picked(s, B), v, s, w, B)
    PROVE  SortedFrom(Stably(Picked(s, B), v), s, w, B)
<1>1. PICK p : p = Picked(s, B)
  OBVIOUS
<1>2. PICK q, m : Ascending(q, B, m) /\ m = Cardinality(B) /\ p = [k \in 1..m |-> s[q[k]]]
  <2>1. TakenInOrder(p, s, B)
    BY <1>1, PickedAre
  <2> QED  BY <2>1 DEF TakenInOrder
<1>3. Steady(q, w, m, B)
  BY <1>2, AscendingIsSteady DEF NumbersOn
<1>4. \A k \in 1..m : v[k] = w[q[k]]
  <2>1. ASSUME NEW k \in 1..m PROVE v[k] = w[q[k]]
    <3>1. k \in DOMAIN p /\ p[k] = s[q[k]]
      BY <1>2
    <3>2. q[k] \in B
      BY <1>2 DEF Ascending
    <3> QED  BY <1>1, <3>1, <3>2 DEF SameWeight
  <2> QED  BY <2>1
<1>5. TakenAlong(p, v, s, w, q, m)
  BY <1>2, <1>4 DEF TakenAlong
<1> QED  BY <1>1, <1>3, <1>5, StablyIsRow

\* Where the lines of a quote are looked for: each behind the one before it.
NextPlace(text, w, from, hi) ==
    LET places == {i \in (from + 1)..hi : text[i] = w}
    IN  IF places = {} THEN hi + 1 ELSE Min(places)

IsTrail(f, lines, text, lo, hi, m) ==
    /\ DOMAIN f = 0..m /\ f[0] = lo - 1
    /\ \A k \in 1..m : f[k] = NextPlace(text, lines[k], f[k - 1], hi)

\* The lines 1..m are at places g of a text, one behind the other.
PlacedAt(g, lines, text, lo, hi, m) ==
    /\ \A k \in 1..m : g[k] \in lo..hi /\ text[g[k]] = lines[k]
    /\ \A j, k \in 1..m : j < k => g[k] - g[j] >= k - j

\* The next place of a line is the first behind a place, or beyond the end.
LEMMA NextPlaceIs ==
    ASSUME NEW text, NEW w, NEW from \in Int, NEW hi \in Int
    PROVE  /\ NextPlace(text, w, from, hi) \in Int
           /\ \/ NextPlace(text, w, from, hi) = hi + 1
              \/ /\ NextPlace(text, w, from, hi) \in (from + 1)..hi
                 /\ text[NextPlace(text, w, from, hi)] = w
           /\ \A i \in (from + 1)..hi : text[i] = w => NextPlace(text, w, from, hi) <= i
<1>1. PICK places : places = {i \in (from + 1)..hi : text[i] = w}
  OBVIOUS
<1>2. \A x \in places : x \in Int /\ from + 1 <= x
  BY <1>1
<1>3. CASE places = {}
  BY <1>1, <1>3 DEF NextPlace
<1>4. CASE places # {}
  <2>1. PICK x : x = Min(places)
    OBVIOUS
  <2>2. x \in places /\ \A y \in places : x <= y
    BY <1>2, <1>4, <2>1, LeastFrom
  <2>3. NextPlace(text, w, from, hi) = x
    BY <1>1, <1>4, <2>1 DEF NextPlace
  <2>4. x \in (from + 1)..hi /\ text[x] = w
    BY <1>1, <2>2
  <2> QED  BY <1>1, <2>2, <2>3, <2>4
<1> QED  BY <1>3, <1>4

\* There is such a trail.
LEMMA TrailExists ==
    ASSUME NEW lines, NEW text, NEW lo, NEW hi, NEW m \in Nat
    PROVE  \E f : IsTrail(f, lines, text, lo, hi, m)
<1> DEFINE G == {k \in Nat : \E f : IsTrail(f, lines, text, lo, hi, k)}
<1>1. 0 \in G
  <2>1. PICK f : f = [k \in 0..0 |-> lo - 1]
    OBVIOUS
  <2>2. IsTrail(f, lines, text, lo, hi, 0)
    BY <2>1 DEF IsTrail
  <2> QED  BY <2>2
<1>2. ASSUME NEW n \in Nat, n \in G PROVE n + 1 \in G
  <2>1. PICK f : IsTrail(f, lines, text, lo, hi, n)
    BY <1>2
  <2>2. PICK x : x = NextPlace(text, lines[n + 1], f[n], hi)
    OBVIOUS
  <2>3. PICK g : g = [k \in 0..(n + 1) |-> IF k = n + 1 THEN x ELSE f[k]]
    OBVIOUS
  <2>4. DOMAIN g = 0..(n + 1) /\ g[n + 1] = x /\ \A k \in 0..n : g[k] = f[k]
    BY <2>3
  <2>5. ASSUME NEW k \in 1..(n + 1) PROVE g[k] = NextPlace(text, lines[k], g[k - 1], hi)
    <3>1. CASE k = n + 1
      <4>1. n \in 0..n /\ (n + 1) - 1 = n
        OBVIOUS
      <4> QED  BY <2>2, <2>4, <3>1, <4>1
    <3>2. CASE k # n + 1
      <4>1. k \in 1..n /\ k \in 0..n /\ k - 1 \in 0..n
        BY <3>2
      <4> QED  BY <2>1, <2>4, <4>1 DEF IsTrail
    <3> QED  BY <3>1, <3>2
  <2>6. g[0] = lo - 1
    <3>1. 0 \in 0..n
      OBVIOUS
    <3> QED  BY <2>1, <2>4, <3>1 DEF IsTrail
  <2>7. IsTrail(g, lines, text, lo, hi, n + 1)
    BY <2>4, <2>5, <2>6 DEF IsTrail
  <2> QED  BY <2>7
<1>3. Nat \subseteq G
  <2> HIDE DEF G
  <2> QED  BY <1>1, <1>2, SetInduction
<1> QED  BY <1>3

\* A trail is where the lines are, when it ends within the text; and it goes no further than it must.
LEMMA TrailPlaces ==
    ASSUME NEW lines, NEW text, NEW lo \in Nat, lo >= 1, NEW hi \in Int, NEW m \in Nat, m >= 1,
           NEW f, IsTrail(f, lines, text, lo, hi, m)
    PROVE  /\ \A k \in 1..m : f[k] \in Int
           /\ f[m] <= hi => PlacedAt(f, lines, text, lo, hi, m)
           /\ \A g : PlacedAt(g, lines, text, lo, hi, m) => f[m] <= hi
<1> DEFINE Here(k) == /\ \A j \in 1..k : f[j] \in (lo + j - 1)..hi /\ text[f[j]] = lines[j]
                      /\ \A i, j \in 1..k : i < j => f[j] - f[i] >= j - i
           G == {k \in Nat : k <= m => f[k] \in Int /\ (k >= 1 => f[k] <= hi + 1)
                               /\ (k >= 1 /\ f[k] <= hi => Here(k))}
<1>1. 0 \in G
  <2>1. f[0] = lo - 1
    BY DEF IsTrail
  <2> QED  BY <2>1
<1>2. ASSUME NEW n \in Nat, n \in G PROVE n + 1 \in G
  <2> SUFFICES ASSUME n + 1 <= m
               PROVE  /\ f[n + 1] \in Int /\ f[n + 1] <= hi + 1
                      /\ f[n + 1] <= hi => Here(n + 1)
    <3> HIDE DEF Here
    <3> QED  OBVIOUS
  <2>1. PICK x \in Int : x = f[n] /\ (n = 0 => x = lo - 1)
    BY <1>2 DEF IsTrail
  <2>2. PICK w : w = lines[n + 1]
    OBVIOUS
  <2>3. f[n + 1] = NextPlace(text, w, x, hi)
    <3>1. n + 1 \in 1..m /\ (n + 1) - 1 = n
      OBVIOUS
    <3> QED  BY <2>1, <2>2, <3>1 DEF IsTrail
  <2>4. PICK y \in Int : y = f[n + 1] /\ (y = hi + 1 \/ (y \in (x + 1)..hi /\ text[y] = w))
    BY <2>3, NextPlaceIs
  <2>6. CASE y = hi + 1
    <3>1. ~(y <= hi)
      BY <2>6
    <3> HIDE DEF Here
    <3> QED  BY <2>4, <2>6, <3>1
  <2>7. CASE y # hi + 1
    <3>1. y \in (x + 1)..hi /\ text[y] = w /\ x < y /\ x <= hi
      BY <2>1, <2>4, <2>7
    <3>2. n >= 1 => Here(n)
      BY <1>2, <2>1, <3>1
    <3>3. ASSUME NEW j \in 1..(n + 1)
          PROVE  f[j] \in (lo + j - 1)..hi /\ text[f[j]] = lines[j] /\ (j <= n => f[n + 1] - f[j] >= n + 1 - j)
      <4>1. CASE j = n + 1
        <5>1. x >= lo + n - 1
          <6>1. CASE n = 0
            BY <2>1, <6>1
          <6>2. CASE n >= 1
            <7>1. n \in 1..n
              BY <6>2
            <7>2. f[n] \in (lo + n - 1)..hi
              BY <3>2, <6>2, <7>1
            <7> QED  BY <2>1, <7>2
          <6> QED  BY <6>1, <6>2
        <5>2. y \in (lo + (n + 1) - 1)..hi
          BY <3>1, <5>1
        <5> QED  BY <2>2, <2>4, <3>1, <4>1, <5>2
      <4>2. CASE j # n + 1
        <5>1. j \in 1..n /\ n >= 1 /\ n \in 1..n
          BY <4>2
        <5>2. Here(n)
          BY <3>2, <5>1
        <5>3. f[j] \in (lo + j - 1)..hi /\ text[f[j]] = lines[j]
          BY <5>1, <5>2
        <5>4. PICK z \in Int : z = f[j]
          BY <5>3
        <5>5. x - z >= n - j
          <6>1. CASE j = n
            BY <2>1, <5>4, <6>1
          <6>2. CASE j < n
            BY <2>1, <5>1, <5>2, <5>4, <6>2
          <6> QED  BY <5>1, <6>1, <6>2
        <5>6. y - z >= n + 1 - j
          BY <3>1, <5>1, <5>5
        <5> QED  BY <2>4, <5>3, <5>4, <5>6
      <4> QED  BY <4>1, <4>2
    <3>4. ASSUME NEW i \in 1..(n + 1), NEW j \in 1..(n + 1), i < j PROVE f[j] - f[i] >= j - i
      <4>1. CASE j = n + 1
        <5>1. i <= n
          BY <3>4, <4>1
        <5> QED  BY <3>3, <4>1, <5>1
      <4>2. CASE j # n + 1
        <5>1. i \in 1..n /\ j \in 1..n /\ n >= 1
          BY <3>4, <4>2
        <5>2. Here(n)
          BY <3>2, <5>1
        <5> QED  BY <3>4, <5>1, <5>2
      <4> QED  BY <4>1, <4>2
    <3>5. Here(n + 1)
      BY <3>3, <3>4
    <3> HIDE DEF Here
    <3> QED  BY <2>1, <2>4, <3>1, <3>5
  <2> QED  BY <2>6, <2>7
<1>3. Nat \subseteq G
  <2> HIDE DEF G
  <2> QED  BY <1>1, <1>2, SetInduction
<1>4. \A k \in 1..m : f[k] \in Int
  BY <1>3
<1>5. ASSUME f[m] <= hi PROVE PlacedAt(f, lines, text, lo, hi, m)
  <2>1. m \in G
    BY <1>3
  <2>2. Here(m)
    BY <1>5, <2>1
  <2>3. \A j \in 1..m : f[j] \in lo..hi
    BY <2>2
  <2> QED  BY <2>2, <2>3 DEF PlacedAt
<1>6. ASSUME NEW g, PlacedAt(g, lines, text, lo, hi, m) PROVE f[m] <= hi
  <2> DEFINE Q == {k \in Nat : k >= 1 /\ k <= m => f[k] <= g[k]}
  <2>1. 0 \in Q
    OBVIOUS
  <2>2. ASSUME NEW n \in Nat, n \in Q PROVE n + 1 \in Q
    <3> SUFFICES ASSUME n + 1 <= m PROVE f[n + 1] <= g[n + 1]
      OBVIOUS
    <3>1. n + 1 \in 1..m /\ (n + 1) - 1 = n /\ n <= m /\ n \in 0..m
      OBVIOUS
    <3>2. PICK x \in Int : x = f[n]
      BY <1>3, <3>1
    <3>3. PICK y \in Int : y = g[n + 1] /\ y \in lo..hi /\ text[y] = lines[n + 1]
      BY <1>6, <3>1 DEF PlacedAt
    <3>4. x < y
      <4>1. CASE n = 0
        <5>1. x = lo - 1
          BY <3>2, <4>1 DEF IsTrail
        <5> QED  BY <3>3, <5>1
      <4>2. CASE n >= 1
        <5>1. n \in 1..m
          BY <4>2, <3>1
        <5>2. g[n + 1] - g[n] >= n + 1 - n /\ g[n] \in lo..hi
          BY <1>6, <3>1, <5>1 DEF PlacedAt
        <5>3. x <= g[n]
          BY <2>2, <3>1, <3>2, <4>2
        <5> QED  BY <3>3, <5>2, <5>3
      <4> QED  BY <4>1, <4>2
    <3>5. f[n + 1] = NextPlace(text, lines[n + 1], x, hi)
      BY <3>1, <3>2 DEF IsTrail
    <3>6. y \in (x + 1)..hi
      BY <3>3, <3>4
    <3>7. NextPlace(text, lines[n + 1], x, hi) <= y
      BY <3>3, <3>6, NextPlaceIs
    <3> QED  BY <3>3, <3>5, <3>7
  <2>3. Nat \subseteq Q
    <3> HIDE DEF Q
    <3> QED  BY <2>1, <2>2, SetInduction
  <2>4. f[m] <= g[m] /\ m \in 1..m
    BY <2>3
  <2>5. g[m] \in lo..hi /\ f[m] \in Int
    BY <1>4, <1>6, <2>4 DEF PlacedAt
  <2> QED  BY <2>4, <2>5
<1> QED  BY <1>4, <1>5, <1>6

\* From the first to the last of such places.
IsSpan(span, lines, text, lo, hi, m) ==
    m >= 1 /\ \E g : PlacedAt(g, lines, text, lo, hi, m) /\ span = <<g[1], g[m]>>

------------------------------------------------------------------------------
(* Sums over finite sets.                                                  *)

\* The sum of the weights w[i] of the members of S.
SumOver(w, S) == MapThenSumSet(LAMBDA i : w[i], S)

Some(s) == CHOOSE x \in s : TRUE

\* One more member is added to what f has for the others.
WithOneMore(f, w, s) == IF s = {} THEN 0 ELSE w[Some(s)] + f[s \ {Some(s)}]

Sum(f, w, S) == f = [s \in SUBSET S |-> WithOneMore(f, w, s)]

LEMMA Smaller ==
    ASSUME NEW S, IsFiniteSet(S), NEW s \in SUBSET S
    PROVE  /\ IsFiniteSet(s) /\ Cardinality(s) \in Nat /\ Cardinality(s) <= Cardinality(S)
           /\ \A i \in s : s \ {i} \in SUBSET S /\ Cardinality(s \ {i}) = Cardinality(s) - 1
           /\ s # {} => Some(s) \in s /\ Cardinality(s) > 0
           /\ s = {} <=> Cardinality(s) = 0
<1>1. IsFiniteSet(s) /\ Cardinality(s) <= Cardinality(S)
  BY FS_Subset
<1>2. Cardinality(s) \in Nat
  BY <1>1, FS_CardinalityType
<1>3. \A i \in s : Cardinality(s \ {i}) = Cardinality(s) - 1
  BY <1>1, FS_RemoveElement
<1>4. s # {} => Some(s) \in s
  BY DEF Some
<1>5. s = {} <=> Cardinality(s) = 0
  BY <1>1, FS_EmptySet
<1> QED  BY <1>1, <1>2, <1>3, <1>4, <1>5

LEMMA SumExists ==
    ASSUME NEW S, IsFiniteSet(S), NEW w
    PROVE  \E f : Sum(f, w, S)
<1> DEFINE Upto(f, n) == \A s \in SUBSET S : Cardinality(s) <= n => f[s] = WithOneMore(f, w, s)
           P == {n \in Nat : \E f : Upto(f, n)}
<1>1. 0 \in P
  <2> DEFINE f == [s \in SUBSET S |-> 0]
  <2>1. ASSUME NEW s \in SUBSET S, Cardinality(s) <= 0 PROVE f[s] = WithOneMore(f, w, s)
    <3>1. s = {}
      BY <2>1, Smaller
    <3> QED  BY <3>1 DEF WithOneMore
  <2> HIDE DEF f
  <2>2. Upto(f, 0)
    BY <2>1
  <2> HIDE DEF Upto
  <2> QED  BY <2>2
<1>2. ASSUME NEW n \in Nat, n \in P PROVE n + 1 \in P
  <2>1. PICK f : Upto(f, n)
    BY <1>2
  <2> DEFINE g == [s \in SUBSET S |-> IF Cardinality(s) <= n THEN f[s] ELSE WithOneMore(f, w, s)]
  <2>2. ASSUME NEW s \in SUBSET S, Cardinality(s) <= n + 1 PROVE g[s] = WithOneMore(g, w, s)
    <3>1. g[s] = WithOneMore(f, w, s)
      BY <2>1
    <3>2. CASE s = {}
      BY <3>1, <3>2 DEF WithOneMore
    <3>3. CASE s # {}
      <4> DEFINE r == s \ {Some(s)}
      <4>1. r \in SUBSET S /\ Cardinality(r) <= n
        BY <2>2, <3>3, Smaller
      <4>2. g[r] = f[r]
        BY <4>1
      <4> HIDE DEF g
      <4> QED  BY <3>1, <4>2 DEF WithOneMore
    <3> QED  BY <3>2, <3>3
  <2> HIDE DEF g
  <2>3. Upto(g, n + 1)
    BY <2>2
  <2> HIDE DEF Upto
  <2> QED  BY <2>3
<1>3. Nat \subseteq P
  <2> HIDE DEF P
  <2> QED  BY <1>1, <1>2, SetInduction
<1>4. Cardinality(S) \in Nat
  BY FS_CardinalityType
<1>5. PICK f : Upto(f, Cardinality(S))
  BY <1>3, <1>4
<1> DEFINE g == [s \in SUBSET S |-> f[s]]
<1>6. ASSUME NEW s \in SUBSET S PROVE g[s] = WithOneMore(g, w, s)
  <2>1. g[s] = WithOneMore(f, w, s)
    BY <1>5, Smaller
  <2>2. s # {} => s \ {Some(s)} \in SUBSET S
    OBVIOUS
  <2>3. s # {} => g[s \ {Some(s)}] = f[s \ {Some(s)}]
    BY <2>2
  <2> HIDE DEF g
  <2> QED  BY <2>1, <2>3 DEF WithOneMore
<1>7. g = [s \in SUBSET S |-> WithOneMore(g, w, s)]
  BY <1>6
<1> QED  BY <1>7 DEF Sum

\* The order the members are taken in does not matter.
LEMMA SumRemoves ==
    ASSUME NEW S, IsFiniteSet(S), NEW w, \A i \in S : w[i] \in Nat, NEW f, Sum(f, w, S),
           NEW T \in SUBSET S
    PROVE  f[T] \in Nat /\ \A i \in T : f[T] = f[T \ {i}] + w[i]
<1> DEFINE Q(s) == f[s] \in Nat /\ \A i \in s : f[s] = f[s \ {i}] + w[i]
           P == {n \in Nat : \A s \in SUBSET S : Cardinality(s) <= n => Q(s)}
<1>0. \A s \in SUBSET S : f[s] = WithOneMore(f, w, s)
  BY DEF Sum
<1>1. 0 \in P
  <2>1. ASSUME NEW s \in SUBSET S, Cardinality(s) <= 0 PROVE Q(s)
    <3>1. s = {}
      BY <2>1, Smaller
    <3> QED  BY <1>0, <3>1 DEF WithOneMore
  <2> HIDE DEF Q
  <2> QED  BY <2>1
<1>2. ASSUME NEW n \in Nat, n \in P PROVE n + 1 \in P
  <2>0. \A s \in SUBSET S : Cardinality(s) <= n => Q(s)
    BY <1>2
  <2>1. ASSUME NEW s \in SUBSET S, Cardinality(s) <= n + 1 PROVE Q(s)
    <3>1. CASE s = {}
      <4>1. f[s] = 0
        BY <1>0, <3>1 DEF WithOneMore
      <4> QED  BY <3>1, <4>1
    <3>2. CASE s # {}
      <4> DEFINE c == Some(s)
      <4>1. c \in s /\ s \ {c} \in SUBSET S /\ Cardinality(s \ {c}) <= n
        BY <2>1, <3>2, Smaller
      <4>2. f[s] = w[c] + f[s \ {c}]
        BY <1>0, <3>2 DEF WithOneMore
      <4> HIDE DEF c
      <4>3. f[s \ {c}] \in Nat /\ w[c] \in Nat
        BY <2>0, <4>1
      <4>4. ASSUME NEW i \in s PROVE f[s] = f[s \ {i}] + w[i]
        <5>1. CASE i = c
          BY <4>2, <4>3, <5>1
        <5>2. CASE i # c
          <6>1. s \ {i} \in SUBSET S /\ Cardinality(s \ {i}) <= n
            BY <2>1, Smaller
          <6>2. c \in s \ {i} /\ i \in s \ {c}
            BY <4>1, <5>2
          <6>3. f[s \ {i}] = f[(s \ {i}) \ {c}] + w[c]
            BY <2>0, <6>1, <6>2
          <6>4. f[s \ {c}] = f[(s \ {c}) \ {i}] + w[i]
            BY <2>0, <4>1, <6>2
          <6>5. (s \ {i}) \ {c} = (s \ {c}) \ {i}
            OBVIOUS
          <6>6. (s \ {c}) \ {i} \in SUBSET S /\ Cardinality((s \ {c}) \ {i}) <= n
            BY <4>1, <6>2, Smaller
          <6>7. f[(s \ {c}) \ {i}] \in Nat /\ w[i] \in Nat
            BY <2>0, <6>6
          <6> DEFINE rest == f[(s \ {c}) \ {i}]
          <6>8. f[s \ {i}] = rest + w[c] /\ f[s \ {c}] = rest + w[i] /\ rest \in Nat
            BY <6>3, <6>4, <6>5, <6>7
          <6> HIDE DEF rest
          <6> QED  BY ONLY <4>2, <4>3, <6>7, <6>8
        <5> QED  BY <5>1, <5>2
      <4>5. f[s] \in Nat
        BY ONLY <4>2, <4>3
      <4> QED  BY <4>4, <4>5
    <3> QED  BY <3>1, <3>2
  <2> HIDE DEF Q
  <2> QED  BY <2>1
<1>3. Nat \subseteq P
  <2> HIDE DEF P
  <2> QED  BY <1>1, <1>2, SetInduction
<1>4. Cardinality(T) \in Nat
  BY Smaller
<1>5. Q(T)
  BY <1>3, <1>4
<1> QED  BY <1>5

\* The sum over a part is the same whatever it is a part of.
LEMMA SumOfPart ==
    ASSUME NEW S, IsFiniteSet(S), NEW R \in SUBSET S, NEW w,
           NEW f, Sum(f, w, S), NEW g, Sum(g, w, R)
    PROVE  f[R] = g[R]
<1> DEFINE P == {n \in Nat : \A s \in SUBSET R : Cardinality(s) <= n => f[s] = g[s]}
<1>0. /\ \A s \in SUBSET R : f[s] = WithOneMore(f, w, s) /\ g[s] = WithOneMore(g, w, s)
      /\ IsFiniteSet(R)
  BY FS_Subset DEF Sum
<1>1. 0 \in P
  <2>1. ASSUME NEW s \in SUBSET R, Cardinality(s) <= 0 PROVE f[s] = g[s]
    <3>1. s = {}
      BY <1>0, <2>1, Smaller
    <3> QED  BY <1>0, <3>1 DEF WithOneMore
  <2> QED  BY <2>1
<1>2. ASSUME NEW n \in Nat, n \in P PROVE n + 1 \in P
  <2>1. ASSUME NEW s \in SUBSET R, Cardinality(s) <= n + 1 PROVE f[s] = g[s]
    <3>1. CASE s = {}
      BY <1>0, <3>1 DEF WithOneMore
    <3>2. CASE s # {}
      <4>1. s \ {Some(s)} \in SUBSET R /\ Cardinality(s \ {Some(s)}) <= n
        BY <1>0, <2>1, <3>2, Smaller
      <4>2. f[s \ {Some(s)}] = g[s \ {Some(s)}]
        BY <1>2, <4>1
      <4> QED  BY <1>0, <4>2 DEF WithOneMore
    <3> QED  BY <3>1, <3>2
  <2> QED  BY <2>1
<1>3. Nat \subseteq P
  <2> HIDE DEF P
  <2> QED  BY <1>1, <1>2, SetInduction
<1>4. Cardinality(R) \in Nat
  BY <1>0, FS_CardinalityType
<1> QED  BY <1>3, <1>4

\* What MapThenSumSet computes is such a function's value.
LEMMA SumOverIsSum ==
    ASSUME NEW S, IsFiniteSet(S), NEW w
    PROVE  \E f : Sum(f, w, S) /\ SumOver(w, S) = f[S]
<1> DEFINE iter == CHOOSE f : Sum(f, w, S)
<1>1. SumOver(w, S) = iter[S]
  BY DEF SumOver, MapThenSumSet, MapThenFoldSet, Sum, WithOneMore, Some
<1>2. Sum(iter, w, S)
  BY SumExists
<1> HIDE DEF iter
<1> QED  BY <1>1, <1>2

\* What the sums of the plan come to.
LEMMA SumOverFacts ==
    ASSUME NEW S, IsFiniteSet(S), NEW w, \A i \in S : w[i] \in Nat
    PROVE  /\ SumOver(w, S) \in Nat
           /\ S = {} => SumOver(w, S) = 0
           /\ \A i \in S : SumOver(w, S) = SumOver(w, S \ {i}) + w[i]
<1>1. PICK f : Sum(f, w, S) /\ SumOver(w, S) = f[S]
  BY SumOverIsSum
<1>2. f[S] \in Nat /\ \A i \in S : f[S] = f[S \ {i}] + w[i]
  <2>1. \A T \in SUBSET S : f[T] \in Nat /\ \A i \in T : f[T] = f[T \ {i}] + w[i]
    BY ONLY <1>1, SumRemoves, IsFiniteSet(S), \A i \in S : w[i] \in Nat
  <2>2. S \in SUBSET S
    OBVIOUS
  <2> QED  BY ONLY <2>1, <2>2
<1>3. S = {} => f[S] = 0
  BY <1>1 DEF Sum, WithOneMore
<1>4. ASSUME NEW i \in S PROVE f[S \ {i}] = SumOver(w, S \ {i})
  <2>1. S \ {i} \in SUBSET S /\ IsFiniteSet(S \ {i})
    BY FS_Subset
  <2>2. PICK g : Sum(g, w, S \ {i}) /\ SumOver(w, S \ {i}) = g[S \ {i}]
    BY <2>1, SumOverIsSum
  <2>3. f[S \ {i}] = g[S \ {i}]
    BY <1>1, <2>1, <2>2, SumOfPart
  <2> QED  BY <2>2, <2>3
<1> QED  BY <1>1, <1>2, <1>3, <1>4

\* A list without its element at a place.
LEMMA WithoutOne ==
    ASSUME NEW S, NEW s \in Seq(S), NEW i \in 1..Len(s)
    PROVE  /\ RemoveAt(s, i) \in Seq(S) /\ Len(RemoveAt(s, i)) = Len(s) - 1
           /\ \A k \in 1..(Len(s) - 1) : RemoveAt(s, i)[k] = s[IF k < i THEN k ELSE k + 1]
<1> DEFINE n == Len(s)
           a == SubSeq(s, 1, i - 1)
           b == SubSeq(s, i + 1, n)
<1>1. n \in Nat /\ i \in Int /\ i >= 1 /\ i <= n /\ \A k \in 1..n : s[k] \in S
  BY LenProperties, ElementOfSeq
<1>2. a \in Seq(S) /\ Len(a) = i - 1 /\ \A k \in 1..(i - 1) : a[k] = s[k]
  <2>1. \A k \in 1..(i - 1) : s[k] \in S
    BY <1>1
  <2>2. 1 \in Int /\ i - 1 \in Int
    BY <1>1
  <2>3. /\ a \in Seq(S) /\ Len(a) = IF 1 <= i - 1 THEN (i - 1) - 1 + 1 ELSE 0
        /\ \A k \in 1..((i - 1) - 1 + 1) : a[k] = s[1 + k - 1]
    BY <2>1, <2>2, SubSeqProperties
  <2>4. \A k \in 1..(i - 1) : k \in 1..((i - 1) - 1 + 1) /\ 1 + k - 1 = k
    BY <1>1
  <2> HIDE DEF a
  <2> QED  BY <1>1, <2>3, <2>4
<1>3. b \in Seq(S) /\ Len(b) = n - i /\ \A k \in 1..(n - i) : b[k] = s[i + k]
  <2>1. \A k \in (i + 1)..n : s[k] \in S
    BY <1>1
  <2>2. i + 1 \in Int /\ n \in Int
    BY <1>1
  <2>3. /\ b \in Seq(S) /\ Len(b) = IF i + 1 <= n THEN n - (i + 1) + 1 ELSE 0
        /\ \A k \in 1..(n - (i + 1) + 1) : b[k] = s[(i + 1) + k - 1]
    <3> HIDE DEF n
    <3> QED  BY <2>1, <2>2, SubSeqProperties
  <2>4. \A k \in 1..(n - i) : k \in 1..(n - (i + 1) + 1) /\ (i + 1) + k - 1 = i + k
    BY <1>1
  <2> HIDE DEF b, n
  <2> QED  BY <1>1, <2>3, <2>4
<1> HIDE DEF a, b, n
<1>4. /\ a \o b \in Seq(S) /\ Len(a \o b) = (i - 1) + (n - i)
      /\ \A k \in 1..((i - 1) + (n - i)) : (a \o b)[k] = IF k <= i - 1 THEN a[k] ELSE b[k - (i - 1)]
  <2>1. /\ a \o b \in Seq(S) /\ Len(a \o b) = Len(a) + Len(b)
        /\ \A k \in 1..(Len(a) + Len(b)) : (a \o b)[k] = IF k <= Len(a) THEN a[k] ELSE b[k - Len(a)]
    BY <1>2, <1>3, ConcatProperties
  <2> QED  BY ONLY <1>2, <1>3, <2>1
<1>5. i \in Int /\ n \in Int /\ i >= 1 /\ i <= n
  BY <1>1 DEF n
<1>6. ASSUME NEW k \in 1..(n - 1) PROVE (a \o b)[k] = s[IF k < i THEN k ELSE k + 1]
  <2>1. k \in 1..((i - 1) + (n - i)) /\ (k <= i - 1 <=> k < i)
    BY <1>5
  <2>2. CASE k < i
    <3>1. k \in 1..(i - 1)
      BY <2>2, <1>5
    <3> QED  BY <1>2, <1>4, <2>1, <2>2, <3>1
  <2>3. CASE ~(k < i)
    <3>1. k - (i - 1) \in 1..(n - i) /\ i + (k - (i - 1)) = k + 1
      BY <2>3, <1>5
    <3> QED  BY <1>3, <1>4, <2>1, <2>3, <3>1
  <2> QED  BY <2>2, <2>3
<1>7. RemoveAt(s, i) = a \o b
  BY DEF RemoveAt, a, b, n
<1>8. Len(a \o b) = n - 1
  BY <1>4, <1>5
<1>9. n = Len(s)
  BY DEF n
<1>10. /\ RemoveAt(s, i) \in Seq(S) /\ Len(RemoveAt(s, i)) = n - 1
       /\ \A k \in 1..(n - 1) : RemoveAt(s, i)[k] = s[IF k < i THEN k ELSE k + 1]
  BY ONLY <1>4, <1>6, <1>7, <1>8
<1> QED  BY ONLY <1>9, <1>10

LEMMA NoneAndOne ==
    ASSUME NEW g
    PROVE  Cardinality({}) = 0 /\ Cardinality({g}) = 1 /\ IsFiniteSet({g}) /\ IsFiniteSet({})
BY FS_EmptySet, FS_Singleton

\* How many there are fewer.
LEMMA OneFewer ==
    ASSUME NEW g, NEW A, NEW B, A = {}, B = {g}
    PROVE  Cardinality(A) - Cardinality(B) = 0 - 1 /\ Cardinality(A) - Cardinality(A) = 0
<1>1. Cardinality(A) = 0 /\ Cardinality(B) = 1
  BY NoneAndOne
<1> QED  BY <1>1

\* Sums of the same numbers are equal.
LEMMA SameSum ==
    ASSUME NEW S, IsFiniteSet(S), NEW w, \A x \in S : w[x] \in Nat,
           NEW h, \A x, y \in S : h[x] = h[y] => x = y,
           NEW v, \A x \in S : v[h[x]] = w[x]
    PROVE  SumOver(v, {h[x] : x \in S}) = SumOver(w, S)
<1> DEFINE Im(A) == {h[x] : x \in A}
           P == {n \in Nat : \A A \in SUBSET S : Cardinality(A) = n => SumOver(v, Im(A)) = SumOver(w, A)}
<1>0. ASSUME NEW A \in SUBSET S
      PROVE  /\ IsFiniteSet(A) /\ Cardinality(A) \in Nat /\ \A x \in A : w[x] \in Nat
             /\ IsFiniteSet(Im(A)) /\ \A y \in Im(A) : v[y] \in Nat
  <2>1. IsFiniteSet(A) /\ Cardinality(A) \in Nat
    BY Smaller
  <2>2. IsFiniteSet(Im(A))
    BY <2>1, FiniteImage
  <2> QED  BY <2>1, <2>2
<1>1. 0 \in P
  <2>1. ASSUME NEW A \in SUBSET S, Cardinality(A) = 0 PROVE SumOver(v, Im(A)) = SumOver(w, A)
    <3>1. A = {}
      BY <2>1, Smaller
    <3>2. Im(A) = {}
      BY <3>1
    <3> HIDE DEF Im
    <3>3. SumOver(w, A) = 0 /\ SumOver(v, Im(A)) = 0
      BY <1>0, <3>1, <3>2, SumOverFacts
    <3> QED  BY <3>3
  <2> QED  BY <2>1
<1>2. ASSUME NEW n \in Nat, n \in P PROVE n + 1 \in P
  <2>1. ASSUME NEW A \in SUBSET S, Cardinality(A) = n + 1 PROVE SumOver(v, Im(A)) = SumOver(w, A)
    <3>1. PICK x \in A : A \ {x} \in SUBSET S /\ Cardinality(A \ {x}) = n
      <4>1. A # {}
        BY <2>1, FS_EmptySet
      <4>2. \A x \in A : A \ {x} \in SUBSET S /\ Cardinality(A \ {x}) = Cardinality(A) - 1
        BY Smaller
      <4> QED  BY <2>1, <4>1, <4>2
    <3>2. Im(A) \ {h[x]} = Im(A \ {x}) /\ h[x] \in Im(A)
      BY <3>1
    <3>3. SumOver(v, Im(A \ {x})) = SumOver(w, A \ {x})
      BY <1>2, <3>1
    <3> HIDE DEF Im, P
    <3>4. SumOver(w, A) = SumOver(w, A \ {x}) + w[x]
      <4>1. IsFiniteSet(A) /\ \A y \in A : w[y] \in Nat
        BY <1>0
      <4> QED  BY <4>1, SumOverFacts
    <3>5. SumOver(v, Im(A)) = SumOver(v, Im(A) \ {h[x]}) + v[h[x]]
      <4>1. PICK B : B = Im(A)
        OBVIOUS
      <4>2. IsFiniteSet(B) /\ \A y \in B : v[y] \in Nat
        BY <1>0, <4>1
      <4>3. \A y \in B : SumOver(v, B) = SumOver(v, B \ {y}) + v[y]
        BY <4>2, SumOverFacts
      <4> QED  BY <3>2, <4>1, <4>3
    <3>6. v[h[x]] = w[x]
      OBVIOUS
    <3> QED  BY <3>2, <3>3, <3>4, <3>5, <3>6
  <2> QED  BY <2>1
<1>3. Nat \subseteq P
  <2> HIDE DEF P
  <2> QED  BY <1>1, <1>2, SetInduction
<1>4. Cardinality(S) \in Nat
  BY FS_CardinalityType
<1> QED  BY <1>3, <1>4
==============================================================================
