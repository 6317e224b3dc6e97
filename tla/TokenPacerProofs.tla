--------------------------- MODULE TokenPacerProofs ---------------------------
(***************************************************************************)
(* The pacer for any callers, limits, window and blocks: its types, that   *)
(* every window keeps to the limit, and that a model serves its callers    *)
(* first come, first served.                                               *)
(***************************************************************************)
EXTENDS TokenPacer, FiniteSetTheorems, WellFoundedInduction, TLAPS

\* Reservations of a key are numbered in the order they were made and start in that
\* order; the list has lost only those that no later window can hold.
LedgerOf(k) ==
    /\ IsFiniteSet(granted[k])
    /\ \A r \in granted[k] : r.id <= Cardinality(granted[k])
    /\ \A q, r \in granted[k] : q.id = r.id => q = r
    /\ \A q, r \in granted[k] : q.id < r.id => q.at <= r.at
    /\ reserved[k] \subseteq granted[k]
    /\ \A r \in granted[k] \ reserved[k] : r.at <= now - Window

WindowsOf(k) ==
    \A r \in granted[k] : Fits({q \in granted[k] : q.id < r.id}, r.n, r.at, LimitFor(k))

Ledger == \A k \in Keys : LedgerOf(k)

PacerInv == TypeOK /\ Ledger /\ WindowFits

\* The order of the naturals as a relation.
Below == {ss \in Nat \X Nat : ss[1] < ss[2]}

\* It is well founded.
LEMMA BelowWF == IsWellFoundedOn(Below, Nat)
  BY NatLessThanWellFounded DEF OpToRel, Below

\* A nonempty set of naturals has a least element.
LEMMA LeastNatural ==
  ASSUME NEW S, S \subseteq Nat, S # {}
  PROVE  \E m \in S : \A x \in S : m <= x
<1>2. \E m \in S : \A y \in S : ~(<<y, m>> \in Below)
  BY BelowWF, WFMin
<1>3. PICK m \in S : \A y \in S : ~(<<y, m>> \in Below)
  BY <1>2
<1>4. \A y \in S : m <= y
  <2> SUFFICES ASSUME NEW y \in S PROVE m <= y
    OBVIOUS
  <2>1. m \in Nat /\ y \in Nat /\ <<y, m>> \notin Below
    BY <1>3
  <2>2. ~(y < m)
    BY <2>1 DEF Below
  <2>3. QED
    BY <2>1, <2>2
<1>5. QED
  BY <1>4

\* A bounded, nonempty set of naturals has a greatest element.
LEMMA GreatestNatural ==
  ASSUME NEW S, S \subseteq Nat, S # {}, NEW b \in Nat, \A x \in S : x <= b
  PROVE  \E m \in S : \A x \in S : x <= m
<1> DEFINE R == {b - x : x \in S}
<1>1. R \subseteq Nat
  <2> SUFFICES ASSUME NEW x \in S PROVE b - x \in Nat
    OBVIOUS
  <2>1. x \in Nat /\ x <= b
    OBVIOUS
  <2>2. QED
    BY <2>1
<1>2. R # {}
  OBVIOUS
<1> HIDE DEF R
<1>3. PICK n \in R : \A m \in R : n <= m
  BY <1>1, <1>2, LeastNatural
<1> USE DEF R
<1>4. PICK x \in S : n = b - x
  BY <1>3
<1>5. \A y \in S : y <= x
  <2> SUFFICES ASSUME NEW y \in S PROVE y <= x
    OBVIOUS
  <2>1. b - y \in R
    OBVIOUS
  <2>2. b - x <= b - y
    BY <1>3, <1>4, <2>1
  <2>3. x \in Nat /\ y \in Nat
    OBVIOUS
  <2>4. QED
    BY <2>2, <2>3
<1>6. QED
  BY <1>5

\* The reservation made last, when the list holds one, starts last.
LEMMA LatestStartsLast ==
  ASSUME TypeOK, Ledger, NEW k \in Keys, Kept(k) # {}
  PROVE  \E m \in Kept(k) : /\ \A q \in Kept(k) : q.id <= m.id /\ q.at <= m.at
<1> DEFINE I == {r.id : r \in Kept(k)}
<1>1. LedgerOf(k) /\ Kept(k) \subseteq granted[k] /\ Kept(k) \subseteq Reservation
  BY DEF Ledger, LedgerOf, Kept, Within, TypeOK
<1>2. I \subseteq Nat /\ I # {}
  BY <1>1 DEF Reservation
<1>3. Cardinality(granted[k]) \in Nat /\ \A x \in I : x <= Cardinality(granted[k])
  BY <1>1, FS_CardinalityType DEF LedgerOf
<1>4. PICK i \in I : \A x \in I : x <= i
  BY <1>2, <1>3, GreatestNatural
<1>5. PICK m \in Kept(k) : m.id = i
  BY <1>4
<1>6. \A q \in Kept(k) : q.id <= m.id
  BY <1>4, <1>5
<1>7. \A q \in Kept(k) : q.at <= m.at
  <2> SUFFICES ASSUME NEW q \in Kept(k) PROVE q.at <= m.at
    OBVIOUS
  <2>1. q.id \in Nat /\ m.id \in Nat /\ q.at \in Nat /\ q.id <= m.id
    BY <1>1, <1>5, <1>6 DEF Reservation
  <2>2. CASE q.id = m.id
    <3>1. q = m
      BY <1>1, <2>2 DEF LedgerOf
    <3>2. QED
      BY <2>1, <3>1
  <2>3. CASE q.id < m.id
    BY <1>1, <2>3 DEF LedgerOf
  <2>4. QED
    BY <2>1, <2>2, <2>3
<1>8. QED
  BY <1>6, <1>7

\* The floor of a new reservation is an instant, not before now nor the block, and not
\* before any reservation of the list.
LEMMA FloorIsFloor ==
  ASSUME TypeOK, Ledger, NEW k \in Keys
  PROVE  /\ Floor(k) \in Nat /\ Floor(k) >= now /\ Floor(k) >= blockedUntil[k]
         /\ \A r \in Kept(k) : r.at <= Floor(k)
<1> DEFINE start == Larger(now, blockedUntil[k])
           last == {r \in Kept(k) : \A q \in Kept(k) : q.id <= r.id}
           T == {start} \cup {r.at : r \in last}
<1>1. start \in Nat /\ start >= now /\ start >= blockedUntil[k]
  BY DEF TypeOK, Larger
<1>2. Kept(k) \subseteq Reservation /\ LedgerOf(k) /\ Kept(k) \subseteq granted[k]
  BY DEF Kept, Within, TypeOK, Ledger, LedgerOf
<1>3. T \subseteq Nat
  BY <1>1, <1>2 DEF Reservation
<1>4. \E s \in T : s >= start /\ \A r \in last : s >= r.at
  <2>1. CASE Kept(k) = {}
    BY <1>1, <2>1
  <2>2. CASE Kept(k) # {}
    <3>1. PICK m \in Kept(k) : \A q \in Kept(k) : q.id <= m.id /\ q.at <= m.at
      BY <2>2, LatestStartsLast
    <3>2. m \in last /\ m.at \in Nat /\ \A r \in last : r.at <= m.at /\ r.at \in Nat
      BY <1>2, <3>1 DEF Reservation
    <3>3. CASE start >= m.at
      <4>1. \A r \in last : start >= r.at
        BY <1>1, <3>2, <3>3
      <4>2. start \in T /\ start >= start
        BY <1>1
      <4>3. QED
        BY <4>1, <4>2
    <3>4. CASE m.at >= start
      <4>1. m.at \in T
        BY <3>2
      <4>2. \A r \in last : m.at >= r.at
        BY <3>2
      <4>3. QED
        BY <3>4, <4>1, <4>2
    <3>5. QED
      BY <1>1, <3>2, <3>3, <3>4
  <2>3. QED
    BY <2>1, <2>2
<1>5. Floor(k) \in T /\ Floor(k) >= start /\ \A r \in last : Floor(k) >= r.at
  BY <1>4 DEF Floor
<1>6. \A r \in Kept(k) : r.at <= Floor(k)
  <2> SUFFICES ASSUME NEW r \in Kept(k) PROVE r.at <= Floor(k)
    OBVIOUS
  <2>1. PICK m \in Kept(k) : \A q \in Kept(k) : q.id <= m.id /\ q.at <= m.at
    BY LatestStartsLast
  <2>2. m \in last /\ r.at <= m.at /\ r.at \in Nat /\ m.at \in Nat
    BY <1>2, <2>1 DEF Reservation
  <2>3. Floor(k) >= m.at /\ Floor(k) \in Nat
    BY <1>3, <1>5, <2>2
  <2>4. QED
    BY <2>2, <2>3
<1>7. Floor(k) \in Nat
  BY <1>3, <1>5
<1>8. Floor(k) >= now /\ Floor(k) >= blockedUntil[k]
  <2>1. now \in Nat /\ blockedUntil[k] \in Nat
    BY DEF TypeOK
  <2>2. Floor(k) >= start
    BY <1>5
  <2> HIDE DEF start
  <2>3. QED
    BY <1>1, <1>7, <2>1, <2>2
<1>9. QED
  BY <1>6, <1>7, <1>8

\* Between two candidates nothing leaves the window.
LEMMA SameWindowBetween ==
  ASSUME TypeOK, Ledger, NEW k \in Keys, NEW t \in Nat, Floor(k) <= t
  PROVE  \E b \in Candidates(k) :
             /\ Floor(k) <= b /\ b <= t
             /\ Within(Kept(k), t) = Within(Kept(k), b)
<1> DEFINE B == {x \in Candidates(k) : Floor(k) <= x /\ x <= t}
<1>1. Window \in Nat /\ Floor(k) \in Nat /\ \A r \in Kept(k) : r.at \in Nat
  BY FloorIsFloor, WindowAssumption DEF TypeOK, Kept, Within, Reservation
<1>2. Candidates(k) \subseteq Nat /\ Floor(k) \in Candidates(k)
  BY <1>1 DEF Candidates
<1>3. B \subseteq Nat /\ B # {} /\ \A x \in B : x <= t
  BY <1>1, <1>2
<1>4. \E b \in B : \A x \in B : x <= b
  <2> HIDE DEF B
  <2>1. QED
    BY <1>3, GreatestNatural
<1>5. PICK b \in B : \A x \in B : x <= b
  BY <1>4
<1>6. b \in Nat /\ b <= t /\ Floor(k) <= b
  BY <1>3, <1>5
<1>7. \A r \in Kept(k) : r.at > t - Window <=> r.at > b - Window
  <2> SUFFICES ASSUME NEW r \in Kept(k) PROVE r.at > t - Window <=> r.at > b - Window
    OBVIOUS
  <2>1. r.at + Window \in Candidates(k)
    BY DEF Candidates
  <2>2. ASSUME r.at > b - Window, r.at <= t - Window PROVE FALSE
    <3>1. r.at + Window <= t /\ Floor(k) <= r.at + Window
      BY <1>1, <1>6, <2>2
    <3>2. r.at + Window <= b
      BY <1>5, <2>1, <3>1
    <3>3. QED
      BY <1>1, <1>6, <2>2, <3>2
  <2>3. r.at > t - Window => r.at > b - Window
    BY <1>1, <1>6
  <2>4. QED
    BY <1>1, <1>6, <2>2, <2>3
<1>8. Within(Kept(k), t) = Within(Kept(k), b)
  BY <1>7 DEF Within
<1>9. QED
  BY <1>5, <1>6, <1>8

\* Some candidate has room, if only because its window is empty.
LEMMA SomeCandidateFits ==
  ASSUME TypeOK, Ledger, NEW k \in Keys
  PROVE  \E s \in Candidates(k) : Floor(k) <= s /\ Within(Kept(k), s) = {}
<1>1. Window \in Nat /\ Floor(k) \in Nat /\ \A r \in Kept(k) : r.at \in Nat
  BY FloorIsFloor, WindowAssumption DEF TypeOK, Kept, Within, Reservation
<1>2. CASE Kept(k) = {}
  <2>1. Within(Kept(k), Floor(k)) = {}
    BY <1>2 DEF Within
  <2>2. QED
    BY <1>1, <2>1 DEF Candidates
<1>3. CASE Kept(k) # {}
  <2>1. PICK m \in Kept(k) : \A q \in Kept(k) : q.id <= m.id /\ q.at <= m.at
    BY <1>3, LatestStartsLast
  <2>2. CASE m.at + Window <= Floor(k)
    <3>1. \A q \in Kept(k) : ~(q.at > Floor(k) - Window)
      BY <1>1, <2>1, <2>2
    <3>2. Within(Kept(k), Floor(k)) = {}
      BY <3>1 DEF Within
    <3>3. QED
      BY <1>1, <3>2 DEF Candidates
  <2>3. CASE Floor(k) <= m.at + Window
    <3>1. PICK x \in Nat : x = m.at + Window
      BY <1>1
    <3>2. \A q \in Kept(k) : ~(q.at > x - Window)
      BY <1>1, <2>1, <3>1
    <3>3. Within(Kept(k), x) = {}
      BY <3>2 DEF Within
    <3>4. x \in Candidates(k)
      BY <3>1 DEF Candidates
    <3>5. QED
      BY <2>3, <3>1, <3>3, <3>4
  <2>4. QED
    BY <1>1, <2>2, <2>3
<1>4. QED
  BY <1>2, <1>3

\* The start the loop finds is the least instant with room.
LEMMA StartIsLeast ==
  ASSUME TypeOK, Ledger, NEW k \in Keys, NEW n \in Tokens, LimitFor(k) > 0
  PROVE  \E s \in Candidates(k) :
             /\ EarliestStart(k, n, s)
             /\ \A t \in Floor(k)..(s - 1) : ~Fits(Kept(k), n, t, LimitFor(k))
<1> DEFINE C == {t \in Candidates(k) : Floor(k) <= t /\ Fits(Kept(k), n, t, LimitFor(k))}
<1>1. Window \in Nat /\ Floor(k) \in Nat /\ \A r \in Kept(k) : r.at \in Nat
  BY FloorIsFloor, WindowAssumption DEF TypeOK, Kept, Within, Reservation
<1>2. C \subseteq Nat
  BY <1>1 DEF Candidates
<1>3. C # {}
  BY SomeCandidateFits DEF Fits
<1>4. \E s \in C : \A t \in C : s <= t
  <2> HIDE DEF C
  <2>1. QED
    BY <1>2, <1>3, LeastNatural
<1>5. PICK s \in C : \A t \in C : s <= t
  BY <1>4
<1>6. s \in Nat /\ s \in Candidates(k) /\ Floor(k) <= s /\ Fits(Kept(k), n, s, LimitFor(k))
  BY <1>2, <1>5
<1>7. \A t \in Candidates(k) : Floor(k) <= t /\ t < s => ~Fits(Kept(k), n, t, LimitFor(k))
  <2> SUFFICES ASSUME NEW t \in Candidates(k), Floor(k) <= t, t < s,
                      Fits(Kept(k), n, t, LimitFor(k))
               PROVE  FALSE
    OBVIOUS
  <2>1. t \in C /\ t \in Nat
    BY <1>2
  <2>2. s <= t
    BY <1>5, <2>1
  <2>3. QED
    BY <1>6, <2>1, <2>2
<1>8. EarliestStart(k, n, s)
  <2>1. LimitFor(k) # 0 /\ s >= Floor(k)
    BY <1>1, <1>6
  <2>2. QED
    BY <1>6, <1>7, <2>1 DEF EarliestStart
<1>9. \A t \in Floor(k)..(s - 1) : ~Fits(Kept(k), n, t, LimitFor(k))
  <2> SUFFICES ASSUME NEW t \in Floor(k)..(s - 1) PROVE ~Fits(Kept(k), n, t, LimitFor(k))
    OBVIOUS
  <2>1. t \in Nat /\ Floor(k) <= t /\ t < s
    BY <1>1, <1>6
  <2>2. PICK b \in Candidates(k) :
            Floor(k) <= b /\ b <= t /\ Within(Kept(k), t) = Within(Kept(k), b)
    BY <2>1, SameWindowBetween
  <2>3. b \in Nat
    BY <1>1 DEF Candidates
  <2>4. b < s
    BY <1>6, <2>1, <2>2, <2>3
  <2>5. ~Fits(Kept(k), n, b, LimitFor(k))
    BY <1>7, <2>2, <2>4
  <2>6. QED
    BY <2>2, <2>5 DEF Fits
<1>10. QED
  BY <1>6, <1>8, <1>9

------------------------------------------------------------------------------
LEMMA LimitIsNat == \A k \in Keys : LimitFor(k) \in Nat
  BY LimitsAssumption DEF LimitFor

LEMMA PacerInit == Init => PacerInv
<1> SUFFICES ASSUME Init PROVE PacerInv
  OBVIOUS
<1>1. TypeOK
  BY DEF Init, TypeOK, NoSlot
<1>2. Ledger
  BY FS_EmptySet DEF Init, Ledger, LedgerOf
<1>3. WindowFits
  BY DEF Init, WindowFits
<1>4. QED
  BY <1>1, <1>2, <1>3 DEF PacerInv

\* A start is an instant with room, not before any reservation of the key.
LEMMA StartFits ==
  ASSUME PacerInv, NEW k \in Keys, NEW n \in Nat, NEW s, EarliestStart(k, n, s)
  PROVE  /\ s \in Nat
         /\ LimitFor(k) > 0 =>
                /\ \A q \in granted[k] : q.at <= s
                /\ Fits(granted[k], n, s, LimitFor(k))
<1>1. /\ now \in Nat /\ blockedUntil[k] \in Nat /\ Window \in Nat \ {0}
      /\ granted[k] \subseteq Reservation /\ reserved[k] \subseteq granted[k]
      /\ \A r \in granted[k] : r.at \in Nat
      /\ \A r \in granted[k] \ reserved[k] : r.at <= now - Window
  BY WindowAssumption DEF PacerInv, TypeOK, Ledger, LedgerOf, Reservation
<1>2. CASE LimitFor(k) = 0
  BY <1>1, <1>2 DEF EarliestStart, Larger
<1>3. CASE LimitFor(k) # 0
  <2>1. /\ s \in Candidates(k) /\ s >= Floor(k)
        /\ Fits(Kept(k), n, s, LimitFor(k))
    BY <1>3 DEF EarliestStart
  <2>2. Floor(k) \in Nat /\ Floor(k) >= now /\ \A r \in Kept(k) : r.at <= Floor(k)
    BY FloorIsFloor DEF PacerInv
  <2>3. s \in Nat
    BY <1>1, <2>1, <2>2 DEF Candidates, Kept, Within
  <2>4. \A q \in granted[k] : q \in Kept(k) \/ q.at <= now - Window
    BY <1>1 DEF Kept, Within
  <2>5. \A q \in granted[k] : q.at <= s
    <3> SUFFICES ASSUME NEW q \in granted[k] PROVE q.at <= s
      OBVIOUS
    <3>1. CASE q \in Kept(k)
      BY <1>1, <2>1, <2>2, <2>3, <3>1
    <3>2. CASE q.at <= now - Window
      BY <1>1, <2>1, <2>2, <2>3, <3>2
    <3>3. QED
      BY <2>4, <3>1, <3>2
  <2>6. Within(granted[k], s) = Within(Kept(k), s)
    <3>1. \A q \in granted[k] : q.at > s - Window => q \in Kept(k)
      BY <1>1, <2>1, <2>2, <2>3, <2>4
    <3>2. Kept(k) \subseteq granted[k]
      BY <1>1 DEF Kept, Within
    <3>3. QED
      BY <3>1, <3>2 DEF Within
  <2>7. QED
    BY <2>1, <2>3, <2>5, <2>6 DEF Fits
<1>4. QED
  BY <1>2, <1>3

\* The list is pruned, nothing is reserved.
LEMMA PruneKeeps ==
  ASSUME PacerInv, NEW k \in Keys, now' = now, granted' = granted,
         reserved' = [reserved EXCEPT ![k] = Kept(k)]
  PROVE  Ledger' /\ WindowFits' /\ reserved' \in [Keys -> SUBSET Reservation]
<1>1. WindowFits'
  BY DEF PacerInv, WindowFits
<1>2. reserved' \in [Keys -> SUBSET Reservation]
  BY DEF PacerInv, TypeOK, Kept, Within
<1>3. ASSUME NEW j \in Keys PROVE LedgerOf(j)'
  <2>1. LedgerOf(j) /\ now \in Nat /\ Window \in Nat
    BY WindowAssumption DEF PacerInv, Ledger, TypeOK
  <2>2. reserved'[j] = IF j = k THEN Kept(k) ELSE reserved[j]
    BY DEF PacerInv, TypeOK
  <2>3. reserved'[j] \subseteq granted'[j]
    BY <2>1, <2>2 DEF LedgerOf, Kept, Within
  <2>4. \A r \in granted'[j] \ reserved'[j] : r.at <= now' - Window
    <3> SUFFICES ASSUME NEW r \in granted[j], r \notin reserved'[j] PROVE r.at <= now - Window
      OBVIOUS
    <3>1. CASE r \notin reserved[j]
      BY <2>1, <3>1 DEF LedgerOf
    <3>2. CASE r \in reserved[j]
      <4>1. j = k /\ ~(r.at > now - Window)
        BY <2>2, <3>2 DEF Kept, Within
      <4>2. r.at \in Nat
        BY DEF PacerInv, TypeOK, Reservation
      <4>3. QED
        BY <2>1, <4>1, <4>2
    <3>3. QED
      BY <3>1, <3>2
  <2>5. QED
    BY <2>1, <2>3, <2>4 DEF LedgerOf
<1>4. QED
  BY <1>1, <1>2, <1>3 DEF Ledger

\* A reservation is added where it fits.
LEMMA ReserveKeeps ==
  ASSUME PacerInv, NEW k \in Keys, NEW n \in Nat, NEW s, EarliestStart(k, n, s),
         LimitFor(k) > 0, Reserve(k, n, s), now' = now
  PROVE  /\ Ledger' /\ WindowFits'
         /\ reserved' \in [Keys -> SUBSET Reservation]
         /\ granted' \in [Keys -> SUBSET Reservation]
<1> DEFINE new == [id |-> Cardinality(granted[k]) + 1, at |-> s, n |-> n]
<1>1. /\ LedgerOf(k) /\ granted[k] \subseteq Reservation
      /\ Cardinality(granted[k]) \in Nat /\ now \in Nat /\ Window \in Nat
  BY WindowAssumption, FS_CardinalityType DEF PacerInv, Ledger, LedgerOf, TypeOK
<1>2. /\ s \in Nat
      /\ \A q \in granted[k] : q.at <= s
      /\ Fits(granted[k], n, s, LimitFor(k))
  BY StartFits
<1>3. /\ new \in Reservation /\ new.at = s /\ new.n = n
      /\ new.id = Cardinality(granted[k]) + 1
  BY <1>1, <1>2 DEF Reservation
<1>4. /\ reserved' = [reserved EXCEPT ![k] = Kept(k) \cup {new}]
      /\ granted' = [granted EXCEPT ![k] = granted[k] \cup {new}]
  <2>1. LimitFor(k) # 0
    BY LimitIsNat
  <2>2. QED
    BY <2>1, Zenon DEF Reserve
<1> HIDE DEF new
<1>5. \A q \in granted[k] : q.id \in Nat /\ q.at \in Nat /\ q.id < new.id
  BY <1>1, <1>3 DEF LedgerOf, Reservation
<1>6. new \notin granted[k]
  BY <1>1, <1>3, <1>5
<1>7. \A j \in Keys : /\ granted'[j] = IF j = k THEN granted[k] \cup {new} ELSE granted[j]
                      /\ reserved'[j] = IF j = k THEN Kept(k) \cup {new} ELSE reserved[j]
  BY <1>4 DEF PacerInv, TypeOK
<1>8. Kept(k) \subseteq granted[k]
  BY <1>1 DEF LedgerOf, Kept, Within
<1>9. reserved' \in [Keys -> SUBSET Reservation] /\ granted' \in [Keys -> SUBSET Reservation]
  <2>1. Kept(k) \cup {new} \subseteq Reservation /\ granted[k] \cup {new} \subseteq Reservation
    BY <1>1, <1>3, <1>8
  <2>2. reserved \in [Keys -> SUBSET Reservation] /\ granted \in [Keys -> SUBSET Reservation]
    BY DEF PacerInv, TypeOK
  <2>3. QED
    BY <1>4, <2>1, <2>2
<1>10. LedgerOf(k)'
  <2>1. /\ IsFiniteSet(granted[k] \cup {new})
        /\ Cardinality(granted[k] \cup {new}) = Cardinality(granted[k]) + 1
    BY <1>1, <1>6, FS_AddElement DEF LedgerOf
  <2>2. \A r \in granted[k] \cup {new} : r.id <= Cardinality(granted[k] \cup {new})
    BY <1>1, <1>3, <1>5, <2>1 DEF LedgerOf
  <2>3. \A q, r \in granted[k] \cup {new} : q.id = r.id => q = r
    BY <1>1, <1>3, <1>5 DEF LedgerOf
  <2>4. \A q, r \in granted[k] \cup {new} : q.id < r.id => q.at <= r.at
    <3> SUFFICES ASSUME NEW q \in granted[k] \cup {new}, NEW r \in granted[k] \cup {new},
                        q.id < r.id
                 PROVE  q.at <= r.at
      OBVIOUS
    <3>1. q # new
      BY <1>1, <1>3, <1>5
    <3>2. CASE r = new
      BY <1>2, <1>3, <3>1, <3>2
    <3>3. CASE r # new
      BY <1>1, <3>1, <3>3 DEF LedgerOf
    <3>4. QED
      BY <3>2, <3>3
  <2>5. \A r \in granted[k] : r \notin Kept(k) => r.at <= now - Window
    <3> SUFFICES ASSUME NEW r \in granted[k], r \notin Kept(k) PROVE r.at <= now - Window
      OBVIOUS
    <3>1. CASE r \notin reserved[k]
      BY <1>1, <3>1 DEF LedgerOf
    <3>2. CASE r \in reserved[k]
      <4>1. ~(r.at > now - Window) /\ r.at \in Nat
        BY <1>5, <3>2 DEF Kept, Within
      <4>2. QED
        BY <1>1, <4>1
    <3>3. QED
      BY <3>1, <3>2
  <2>6. QED
    BY <1>7, <1>8, <2>1, <2>2, <2>3, <2>4, <2>5 DEF LedgerOf
<1>11. ASSUME NEW j \in Keys, j # k PROVE LedgerOf(j)'
  <2>1. LedgerOf(j) /\ granted'[j] = granted[j] /\ reserved'[j] = reserved[j]
    BY <1>7, <1>11 DEF PacerInv, Ledger
  <2>2. QED
    BY <2>1 DEF LedgerOf
<1>12. WindowFits'
  <2> SUFFICES ASSUME NEW j \in Keys, NEW r \in granted'[j]
               PROVE  Fits({q \in granted'[j] : q.id < r.id}, r.n, r.at, LimitFor(j))
    BY DEF WindowFits
  <2>1. CASE j # k
    BY <1>7, <2>1 DEF PacerInv, WindowFits
  <2>2. CASE j = k /\ r = new
    <3>1. {q \in granted'[j] : q.id < r.id} = granted[k]
      BY <1>1, <1>3, <1>5, <1>7, <2>2
    <3>2. QED
      BY <1>2, <1>3, <2>2, <3>1
  <2>3. CASE j = k /\ r # new
    <3>1. r \in granted[k] /\ r.id \in Nat /\ new.id \in Nat /\ r.id < new.id
      BY <1>1, <1>3, <1>5, <1>7, <2>3
    <3>2. {q \in granted'[j] : q.id < r.id} = {q \in granted[k] : q.id < r.id}
      BY <1>7, <2>3, <3>1
    <3>3. QED
      BY <2>3, <3>1, <3>2 DEF PacerInv, WindowFits
  <2>4. QED
    BY <2>1, <2>2, <2>3
<1>13. QED
  BY <1>9, <1>10, <1>11, <1>12 DEF Ledger

LEMMA GrantKeeps ==
  ASSUME PacerInv, NEW c \in Callers, NEW k \in Keys, NEW n \in Tokens,
         NEW deadline, NEW maxWait, NEW s, Grant(c, k, n, deadline, maxWait, s)
  PROVE  PacerInv'
<1>1. /\ EarliestStart(k, n, s) /\ Reserve(k, n, s) /\ n \in Nat
      /\ UNCHANGED <<now, blockedUntil>>
  BY TokensAssumption DEF Grant
<1>2. s \in Nat
  BY <1>1, StartFits
<1>3. asleep' \in [Callers -> [key : Keys \cup {"none"}, at : Nat]]
  <2>1. asleep' = IF s > now THEN [asleep EXCEPT ![c] = [key |-> k, at |-> s]] ELSE asleep
    BY DEF Grant
  <2>2. QED
    BY <1>2, <2>1 DEF PacerInv, TypeOK
<1>4. /\ Ledger' /\ WindowFits' /\ reserved' \in [Keys -> SUBSET Reservation]
      /\ granted' \in [Keys -> SUBSET Reservation]
  <2>1. CASE LimitFor(k) = 0
    <3>1. reserved' = [reserved EXCEPT ![k] = Kept(k)] /\ granted' = granted
      <4>1. granted' = [granted EXCEPT ![k] = granted[k]]
            /\ reserved' = [reserved EXCEPT ![k] = Kept(k)]
        BY <1>1, <2>1, Zenon DEF Reserve
      <4>2. QED
        BY <4>1 DEF PacerInv, TypeOK
    <3>2. QED
      BY <1>1, <3>1, PruneKeeps DEF PacerInv, TypeOK
  <2>2. CASE LimitFor(k) # 0
    <3>1. LimitFor(k) > 0
      BY <2>2, LimitIsNat
    <3>2. QED
      BY <1>1, <3>1, ReserveKeeps
  <2>3. QED
    BY <2>1, <2>2
<1>5. TypeOK'
  BY <1>1, <1>3, <1>4 DEF PacerInv, TypeOK
<1>6. QED
  BY <1>4, <1>5 DEF PacerInv

LEMMA RefuseKeeps ==
  ASSUME PacerInv, NEW c \in Callers, NEW k \in Keys, NEW n, NEW deadline, NEW maxWait,
         NEW s, NEW why, Refuse(c, k, n, deadline, maxWait, s, why)
  PROVE  PacerInv'
<1>1. /\ reserved' = [reserved EXCEPT ![k] = Kept(k)]
      /\ UNCHANGED <<now, blockedUntil, asleep, granted>>
  BY DEF Refuse
<1>2. Ledger' /\ WindowFits' /\ reserved' \in [Keys -> SUBSET Reservation]
  BY <1>1, PruneKeeps
<1>3. TypeOK'
  BY <1>1, <1>2 DEF PacerInv, TypeOK
<1>4. QED
  BY <1>2, <1>3 DEF PacerInv

\* Time passes, a sleep ends, a key is blocked: the books stay.
LEMMA BooksStay ==
  ASSUME PacerInv, UNCHANGED <<reserved, granted>>, now' \in Nat, now' >= now,
         blockedUntil' \in [Keys -> Nat],
         asleep' \in [Callers -> [key : Keys \cup {"none"}, at : Nat]]
  PROVE  PacerInv'
<1>1. TypeOK' /\ WindowFits'
  BY DEF PacerInv, TypeOK, WindowFits
<1>2. ASSUME NEW k \in Keys PROVE LedgerOf(k)'
  <2>1. LedgerOf(k) /\ now \in Nat /\ Window \in Nat
    BY WindowAssumption DEF PacerInv, Ledger, TypeOK
  <2>2. \A r \in granted[k] \ reserved[k] : r.at <= now' - Window
    <3> SUFFICES ASSUME NEW r \in granted[k] \ reserved[k] PROVE r.at <= now' - Window
      OBVIOUS
    <3>1. r.at \in Nat /\ r.at <= now - Window
      BY <2>1 DEF LedgerOf, PacerInv, TypeOK, Reservation
    <3>2. QED
      BY <2>1, <3>1
  <2>3. QED
    BY <2>1, <2>2 DEF LedgerOf
<1>3. QED
  BY <1>1, <1>2 DEF PacerInv, Ledger

LEMMA WakeKeeps ==
  ASSUME PacerInv, NEW c \in Callers, Wake(c) \/ Abandon(c)
  PROVE  PacerInv'
<1>1. /\ asleep' = [asleep EXCEPT ![c] = NoSlot]
      /\ UNCHANGED <<now, reserved, blockedUntil, granted>>
  BY DEF Wake, Abandon
<1>2. asleep' \in [Callers -> [key : Keys \cup {"none"}, at : Nat]]
  BY <1>1 DEF PacerInv, TypeOK, NoSlot
<1>3. QED
  BY <1>1, <1>2, BooksStay DEF PacerInv, TypeOK

LEMMA BlockKeeps ==
  ASSUME PacerInv, NEW k \in Keys, NEW seconds \in Int, Block(k, seconds)
  PROVE  PacerInv'
<1>1. BlockedTo(k, seconds) \in Nat
  BY DEF PacerInv, TypeOK, BlockedTo, Larger
<1>2. blockedUntil' \in [Keys -> Nat]
  BY <1>1 DEF PacerInv, TypeOK, Block
<1>3. QED
  BY <1>2, BooksStay DEF PacerInv, TypeOK, Block

LEMMA PacerStep == PacerInv /\ [Next]_vars => PacerInv'
<1> SUFFICES ASSUME PacerInv, [Next]_vars PROVE PacerInv'
  OBVIOUS
<1>1. ASSUME NEW c \in Callers, Acquire(c) PROVE PacerInv'
  BY <1>1, GrantKeeps, RefuseKeeps DEF Acquire
<1>2. ASSUME NEW c \in Callers, Wake(c) \/ Abandon(c) PROVE PacerInv'
  BY <1>2, WakeKeeps
<1>3. ASSUME NEW k \in Keys, NEW seconds \in Blocks, Block(k, seconds) PROVE PacerInv'
  <2>1. seconds \in Int
    BY TokensAssumption
  <2>2. QED
    BY <1>3, <2>1, BlockKeeps
<1>4. CASE Tick
  BY <1>4, BooksStay DEF Tick, PacerInv, TypeOK
<1>5. CASE UNCHANGED vars
  BY <1>5, BooksStay DEF vars, PacerInv, TypeOK
<1>6. QED
  BY <1>1, <1>2, <1>3, <1>4, <1>5 DEF Next

LEMMA PacerAlways == Spec => []PacerInv
<1>1. QED
  BY PacerInit, PacerStep, PTL DEF Spec

\* The pacer's variables keep their types.
THEOREM PacerTypeCorrect == Spec => []TypeOK
<1>1. PacerInv => TypeOK
  BY DEF PacerInv
<1>2. QED
  BY <1>1, PacerAlways, PTL

\* No window of any model holds more than its tokens per minute, for any mix of
\* callers, token counts, blocks and limits.
THEOREM WindowsSound == Spec => []WindowFits
<1>1. PacerInv => WindowFits
  BY DEF PacerInv
<1>2. QED
  BY <1>1, PacerAlways, PTL

\* Reservations of a model start in the order they were made.
THEOREM QueueSound == Spec => []FirstComeFirstServed
<1>1. PacerInv => FirstComeFirstServed
  BY DEF PacerInv, Ledger, LedgerOf, FirstComeFirstServed
<1>2. QED
  BY <1>1, PacerAlways, PTL

\* The loop over leaving reservations finds the least instant with room.
THEOREM NoIdleWait == Spec => []StartsAsSoonAsRoom
<1>1. PacerInv => StartsAsSoonAsRoom
  BY StartIsLeast DEF PacerInv, StartsAsSoonAsRoom
<1>2. QED
  BY <1>1, PacerAlways, PTL
==============================================================================
