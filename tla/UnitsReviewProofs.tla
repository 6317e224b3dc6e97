---------------------------- MODULE UnitsReviewProofs --------------------------
(***************************************************************************)
(* The packing and the call loop of UnitsReview, for any units, sizes and  *)
(* budgets: every unit has one fate, every prompt is within its limits and *)
(* left no room for a unit of a later one, and "complete" is earned.       *)
(***************************************************************************)
EXTENDS UnitsReview, SelectionProofs

------------------------------------------------------------------------------
(* The sizes and the cut of a unit.                                        *)

\* What UnitsReview assumes of a unit.
IsUnit(u) ==
    /\ u.cost \in Seq(Nat) /\ u.changed \subseteq 1..Len(u.cost)
    /\ u.cves \in Nat /\ u.team \in Nat

LEMMA UnitLines ==
    ASSUME NEW u, IsUnit(u)
    PROVE  /\ Len(u.cost) \in Nat /\ Lines(u) = 1..Len(u.cost)
           /\ IsFiniteSet(Lines(u)) /\ u.changed \subseteq Lines(u)
           /\ Cardinality(u.changed) \in Nat
           /\ u.changed # {} => 1 \in Lines(u)
           /\ \A i \in Lines(u) : u.cost[i] \in Nat
           /\ Refs(u) \in Nat
<1> USE SizesAssumption
<1>1. Len(u.cost) \in Nat /\ Lines(u) = 1..Len(u.cost) /\ u.changed \subseteq Lines(u)
  BY DEF IsUnit, Lines
<1>2. IsFiniteSet(Lines(u))
  BY <1>1, FS_Interval
<1>3. IsFiniteSet(u.changed)
  BY <1>1, <1>2, FS_Subset
<1>4. Cardinality(u.changed) \in Nat
  BY <1>3, FS_CardinalityType
<1>5. \A i \in Lines(u) : u.cost[i] \in Nat
  BY <1>1 DEF IsUnit
<1>6. Refs(u) \in Nat
  BY DEF IsUnit, Refs, Lesser
<1>7. u.changed # {} => 1 \in Lines(u)
  BY <1>1
<1> QED  BY <1>1, <1>2, <1>4, <1>5, <1>6, <1>7

LEMMA TokensGrow ==
    ASSUME NEW c \in Nat
    PROVE  Tokens(c) \in Nat
BY DEF Tokens

\* A size is a number.
LEMMA SizeIsNat ==
    ASSUME NEW u, IsUnit(u), NEW refs \in Nat, NEW keep \in SUBSET Lines(u), NEW note \in Nat
    PROVE  Size(u, refs, keep, note) \in Nat
<1> DEFINE sum == SumOver(u.cost, keep)
           marks == Cardinality(Markers(u, keep))
<1>1. sum \in Nat
  <2>1. IsFiniteSet(keep) /\ \A i \in keep : u.cost[i] \in Nat
    BY UnitLines, FS_Subset
  <2> DEFINE cost == u.cost
  <2>2. \A i \in keep : cost[i] \in Nat
    BY <2>1
  <2> HIDE DEF cost
  <2>3. SumOver(cost, keep) \in Nat
    BY <2>1, <2>2, SumOverFacts
  <2> QED  BY <2>3 DEF cost
<1>2. marks \in Nat
  <2>1. Markers(u, keep) \subseteq Lines(u)
    BY DEF Markers
  <2> QED  BY <2>1, UnitLines, FS_Subset, FS_CardinalityType
<1>3. Size(u, refs, keep, note)
        = Tokens(HeaderChars + RefChars * refs + note + sum + MarkerChars * marks)
  BY DEF Size, SumOver
<1> HIDE DEF sum, marks
<1>4. RefChars * refs \in Nat /\ MarkerChars * marks \in Nat
  BY <1>2, SizesAssumption
<1>5. HeaderChars + RefChars * refs + note + sum + MarkerChars * marks \in Nat
  BY <1>1, <1>4, SizesAssumption
<1> QED  BY <1>3, <1>5, TokensGrow

LEMMA AroundIsPart ==
    ASSUME NEW u, IsUnit(u), u.changed # {}, NEW radius, NEW limit
    PROVE  Around(u, radius, limit) \subseteq Lines(u) /\ Around(u, radius, limit) # {}
BY UnitLines DEF Around

\* The references left are so many that the unit fits, when it can.
LEMMA RefsLeftFit ==
    ASSUME NEW u, IsUnit(u)
    PROVE  RefsLeft(u) \in Nat
<1> DEFINE fit == {r \in 0..Refs(u) : Size(u, r, Lines(u), 0) <= Available}
<1>1. RefsLeft(u) = IF fit = {} THEN 0 ELSE Max(fit)
  BY DEF RefsLeft
<1>2. fit \in SUBSET (0..Refs(u)) /\ Refs(u) \in Nat
  BY UnitLines
<1> HIDE DEF fit
<1>3. fit # {} => Max(fit) \in 0..Refs(u)
  BY <1>2, MaxOfSome
<1> QED  BY <1>1, <1>2, <1>3

\* What a cut unit keeps fits a prompt, with the placeholder; {} when nothing did.
LEMMA CutFits ==
    ASSUME NEW u, IsUnit(u)
    PROVE  CutLines(u) \subseteq Lines(u) /\ (CutLines(u) # {} => FitsCut(u, CutLines(u)))
<1> DEFINE n == Len(u.cost)
           all == Cardinality(u.changed)
           radii == {r \in 0..n : FitsCut(u, Around(u, r, all))}
           counts == {k \in 1..all : FitsCut(u, Around(u, 0, k))}
           halves == {k \in Lines(u) : FitsCut(u, HeadAndTail(u, k))}
           radius == LargestFitting(0, n, radii)
           count == LargestFitting(1, all, counts)
           half == LargestFitting(1, (n + 1) \div 2, halves)
<1>1. CutLines(u) = IF u.changed # {}
                    THEN IF radius >= 0 THEN Around(u, radius, all)
                         ELSE IF count >= 0 THEN Around(u, 0, count) ELSE {}
                    ELSE IF half >= 0 THEN HeadAndTail(u, half) ELSE {}
  BY DEF CutLines
<1>2. n \in Int /\ all \in Int /\ (n + 1) \div 2 \in Int
  BY UnitLines
<1>3. /\ radius >= 0 => FitsCut(u, Around(u, radius, all))
      /\ count >= 0 => FitsCut(u, Around(u, 0, count))
      /\ half >= 0 => FitsCut(u, HeadAndTail(u, half))
  <2> HIDE DEF n, all
  <2>1. radius = -1 \/ radius \in radii
    <3> HIDE DEF radii
    <3> QED  BY <1>2, BisectionEnds DEF Ends
  <2>2. count = -1 \/ count \in counts
    <3> HIDE DEF counts
    <3> QED  BY <1>2, BisectionEnds DEF Ends
  <2>3. half = -1 \/ half \in halves
    <3> HIDE DEF halves
    <3> QED  BY <1>2, BisectionEnds DEF Ends
  <2> HIDE DEF radius, count, half
  <2> QED  BY <2>1, <2>2, <2>3
<1>4. \A k : HeadAndTail(u, k) \subseteq Lines(u)
  BY DEF HeadAndTail
<1> HIDE DEF radius, count, half, all
<1>5. u.changed # {} => Around(u, radius, all) \subseteq Lines(u) /\ Around(u, 0, count) \subseteq Lines(u)
  BY AroundIsPart
<1> QED  BY <1>1, <1>3, <1>4, <1>5

\* What plan_batches makes of a unit: a size, and one that fits, but for the length by which
\* the note of a cut unit is longer than its placeholder.
LEMMA PlanOfUnit ==
    ASSUME NEW u, IsUnit(u)
    PROVE  /\ PromptSize(u) \in Nat
           /\ FitsWhole(u) => PromptSize(u) <= Available /\ Shown(u) = Lines(u)
           /\ ~FitsWhole(u) /\ ~TooLarge(u) => FitsCut(u, Shown(u))
           /\ Shown(u) \subseteq Lines(u)
           /\ ~Partial(u) => (IF u.changed # {} THEN u.changed ELSE Lines(u)) \subseteq Shown(u)
<1>1. RefsLeft(u) \in Nat /\ CutLines(u) \subseteq Lines(u)
      /\ (CutLines(u) # {} => FitsCut(u, CutLines(u)))
  BY RefsLeftFit, CutFits
<1>2. /\ Size(u, RefsLeft(u), Lines(u), 0) \in Nat
      /\ Size(u, 0, CutLines(u), NoteChars) \in Nat
  BY <1>1, SizeIsNat, SizesAssumption
<1>3. u.changed \subseteq Lines(u)
  BY UnitLines
<1> QED  BY <1>1, <1>2, <1>3 DEF PromptSize, FitsWhole, Shown, TooLarge, Partial

------------------------------------------------------------------------------
(* The packing and the call loop.                                          *)

\* The prompts of a plan B that unit i is in.
Homes(B, i) == {b \in DOMAIN B : i \in B[b].units}

Prompts(D, T) == [units : SUBSET D, tokens : T]

\* What TypeOK says without the sizes, which are sums.
Shaped ==
    /\ units \in Seq(Shapes)
    /\ order \in [DOMAIN units -> DOMAIN units]
    /\ placed \in 0..Len(units)
    /\ \E T : batches \in Seq(Prompts(DOMAIN units, T))
    /\ reason \in [DOMAIN units -> Reasons \cup {"none"}]
    /\ pc \in {"plan", "review", "call", "done"}
    /\ turn \in 0..Len(batches)
    /\ reviewed \subseteq DOMAIN units

\* The packing loop meets every unit, and none twice.
OneTurnEach ==
    /\ \A m, n \in DOMAIN units : order[m] = order[n] => m = n
    /\ \A i \in DOMAIN units : \E n \in DOMAIN units : order[n] = i

LeftOut == {"budget", "too_large"}

\* A unit is in no prompt before its turn, and after it in one or left out.
Packed ==
    /\ \A i \in DOMAIN units : \A a, b \in Homes(batches, i) : a = b
    /\ \A n \in DOMAIN units :
        /\ n > placed => Homes(batches, order[n]) = {} /\ reason[order[n]] = "none"
        /\ n <= placed => (Homes(batches, order[n]) = {} <=> reason[order[n]] \in LeftOut)

\* The loop over the prompts: those dealt with answered or left a reason, the others
\* neither.
Reviewed ==
    /\ pc = "plan" => turn = 0
    /\ pc # "plan" => placed = Len(units)
    /\ pc = "call" => turn < Len(batches)
    /\ pc = "done" => turn = Len(batches)
    /\ \A i \in DOMAIN units :
        /\ Homes(batches, i) = {} => i \notin reviewed
        /\ \A b \in Homes(batches, i) :
            /\ b <= turn => (i \in reviewed <=> reason[i] = "none")
            /\ b > turn => i \notin reviewed /\ reason[i] = "none"

FateInv == Shaped /\ OneTurnEach /\ Packed /\ Reviewed

\* No unit is more evident than itself, so no unit is before itself.
LEMMA NotBeforeItself ==
    ASSUME NEW U, NEW i \in DOMAIN U, i \in Nat, \A k \in 1..4 : U[i].evidence[k] \in Nat
    PROVE  ~Before(U, i, i)
<1>1. ~MoreEvident(U[i], U[i])
  BY DEF MoreEvident
<1> QED  BY <1>1 DEF Before

LEMMA FateInit == Init => FateInv
<1> SUFFICES ASSUME Init PROVE FateInv
  OBVIOUS
<1> USE ReviewAssumption
<1>1. /\ placed = 0 /\ batches = <<>> /\ turn = 0 /\ reviewed = {} /\ pc = "plan"
      /\ reason = [i \in DOMAIN units |-> "none"]
      /\ order \in [DOMAIN units -> DOMAIN units] /\ Sorted(units, order)
  BY DEF Init
<1>2. units \in Seq(Shapes)
  <2>1. PICK n \in 0..MaxPlanned : units \in [1..Lesser(n, MaxUnits) -> Shapes]
    BY DEF Init
  <2>2. Lesser(n, MaxUnits) \in Nat
    BY DEF Lesser
  <2> QED  BY <2>1, <2>2, IsASeq
<1>3. DOMAIN units = 1..Len(units) /\ Len(units) \in Nat
  BY <1>2, LenProperties
<1>4. Shaped
  <2>1. batches \in Seq(Prompts(DOMAIN units, {}))
    BY <1>1, EmptySeq
  <2>2. Len(batches) = 0
    BY <1>1
  <2> QED  BY <1>1, <1>2, <1>3, <2>1, <2>2 DEF Shaped
<1>5. OneTurnEach
  <2>1. ASSUME NEW m \in DOMAIN units, NEW n \in DOMAIN units, order[m] = order[n], m < n
        PROVE  FALSE
    <3>1. order[m] \in DOMAIN units /\ order[m] \in Nat
      BY <1>1, <1>3
    <3>2. units[order[m]] \in Shapes
      BY <1>2, <1>3, <3>1, ElementOfSeq
    <3>3. \A k \in 1..4 : units[order[m]].evidence[k] \in Nat
      BY <3>2
    <3>4. Before(units, order[m], order[m])
      BY <1>1, <2>1 DEF Sorted
    <3> QED  BY <3>1, <3>3, <3>4, NotBeforeItself
  <2>2. ASSUME NEW m \in DOMAIN units, NEW n \in DOMAIN units, order[m] = order[n]
        PROVE  m = n
    BY <1>3, <2>1, <2>2
  <2>3. \A i \in DOMAIN units : \E n \in DOMAIN units : order[n] = i
    BY <1>1 DEF Sorted
  <2> QED  BY <2>2, <2>3 DEF OneTurnEach
<1>6. \A i \in DOMAIN units : Homes(batches, i) = {}
  BY <1>1 DEF Homes
<1>7. Packed /\ Reviewed
  BY <1>1, <1>3, <1>6 DEF Packed, Reviewed
<1> QED  BY <1>4, <1>5, <1>7 DEF FateInv

\* A new prompt takes a unit.
LEMMA TakenInNew ==
    ASSUME NEW D, NEW T, NEW B \in Seq(Prompts(D, T)), NEW i \in D,
           NEW W, NEW e \in Prompts(D, W), e.units = {i}
    PROVE  /\ \E U : Append(B, e) \in Seq(Prompts(D, U))
           /\ Homes(Append(B, e), i) = Homes(B, i) \cup {Len(B) + 1}
           /\ \A j \in D : j # i => Homes(Append(B, e), j) = Homes(B, j)
<1> DEFINE C == Append(B, e)
<1>1. Prompts(D, T) \subseteq Prompts(D, T \cup W) /\ e \in Prompts(D, T \cup W)
  BY DEF Prompts
<1>2. B \in Seq(Prompts(D, T \cup W))
  BY <1>1, SeqMonotonic
<1>0. C = Append(B, e)
  OBVIOUS
<1> HIDE DEF C
<1>3. /\ C \in Seq(Prompts(D, T \cup W)) /\ Len(C) = Len(B) + 1
      /\ \A a \in 1..Len(B) : C[a] = B[a]
      /\ C[Len(B) + 1] = e
  BY <1>0, <1>1, <1>2, AppendProperties
<1>4. Len(B) \in Nat /\ DOMAIN B = 1..Len(B) /\ DOMAIN C = 1..(Len(B) + 1)
  BY <1>2, <1>3, LenProperties
<1>5. Homes(C, i) = Homes(B, i) \cup {Len(B) + 1} /\ \A j \in D : j # i => Homes(C, j) = Homes(B, j)
  BY <1>3, <1>4 DEF Homes
<1> QED  BY <1>3, <1>5 DEF C

\* The numbers a step needs.
LEMMA ShapedFacts == Shaped =>
    /\ DOMAIN units = 1..Len(units) /\ Len(units) \in Nat
    /\ DOMAIN batches = 1..Len(batches) /\ Len(batches) \in Nat
    /\ \A i : Homes(batches, i) \subseteq DOMAIN batches
<1> SUFFICES ASSUME Shaped PROVE /\ DOMAIN units = 1..Len(units) /\ Len(units) \in Nat
                                /\ DOMAIN batches = 1..Len(batches) /\ Len(batches) \in Nat
  BY DEF Homes
<1>1. PICK T : batches \in Seq(Prompts(DOMAIN units, T))
  BY SMTT(30) DEF Shaped
<1> QED  BY <1>1, LenProperties DEF Shaped

\* A turn of the packing loop touches its unit alone.
LEMMA PlaceEffect ==
    ASSUME FateInv, Place
    PROVE  LET i == order[placed + 1] IN
           /\ placed + 1 \in DOMAIN units /\ i \in DOMAIN units
           /\ \E U : batches' \in Seq(Prompts(DOMAIN units, U))
           /\ reason' \in [DOMAIN units -> Reasons \cup {"none"}]
           /\ \A j \in DOMAIN units : j # i =>
                  Homes(batches', j) = Homes(batches, j) /\ reason'[j] = reason[j]
           /\ \/ Homes(batches', i) = {} /\ reason'[i] \in LeftOut
              \/ /\ \E b \in Nat \ {0} : Homes(batches', i) = {b}
                 /\ reason'[i] = "none"
<1> DEFINE i == order[placed + 1]
           size == Fitted[units[i]].size
<1>1. Shaped /\ Packed
  BY DEF FateInv
<1>2. PICK T : batches \in Seq(Prompts(DOMAIN units, T))
  BY <1>1 DEF Shaped
<1>3. /\ DOMAIN units = 1..Len(units) /\ Len(units) \in Nat
      /\ DOMAIN batches = 1..Len(batches) /\ Len(batches) \in Nat
  BY <1>1, ShapedFacts
<1>4. placed + 1 \in DOMAIN units /\ i \in DOMAIN units
  <2>1. placed \in 0..Len(units) /\ placed < Len(units)
    BY <1>1 DEF Shaped, Place
  <2>2. placed + 1 \in DOMAIN units
    BY ONLY <1>3, <2>1
  <2>3. order \in [DOMAIN units -> DOMAIN units]
    BY <1>1 DEF Shaped
  <2> QED  BY ONLY <2>2, <2>3 DEF i
<1>5. Homes(batches, i) = {} /\ reason[i] = "none"
  BY <1>1, <1>3, <1>4 DEF Packed, Shaped
<1>6. CASE /\ \E why \in LeftOut : reason' = [reason EXCEPT ![i] = why]
           /\ batches' = batches
  BY <1>1, <1>2, <1>4, <1>5, <1>6 DEF Shaped, LeftOut, Reasons
<1>7. CASE /\ reason' = reason
           /\ \E b \in DOMAIN batches :
                 batches' = [batches EXCEPT ![b] = [units |-> @.units \cup {i},
                                                    tokens |-> @.tokens + size]]
  <2>1. PICK b \in DOMAIN batches :
                 batches' = [batches EXCEPT ![b] = [units |-> @.units \cup {i},
                                                    tokens |-> @.tokens + size]]
    BY <1>7
  <2> DEFINE e == [units |-> batches[b].units \cup {i}, tokens |-> batches[b].tokens + size]
             U == T \cup {batches[b].tokens + size}
  <2>2. batches[b] \in Prompts(DOMAIN units, T)
    BY <1>2, <1>3, ElementOfSeq
  <2>3. Prompts(DOMAIN units, T) \subseteq Prompts(DOMAIN units, U) /\ e \in Prompts(DOMAIN units, U)
    BY <1>4, <2>2 DEF Prompts
  <2>4. e.units = batches[b].units \cup {i} /\ batches' = [batches EXCEPT ![b] = e]
    BY <2>1
  <2> HIDE DEF i, size, e, U
  <2>5. /\ \E V : batches' \in Seq(Prompts(DOMAIN units, V))
        /\ Homes(batches', i) = Homes(batches, i) \cup {b}
        /\ \A j \in DOMAIN units : j # i => Homes(batches', j) = Homes(batches, j)
    <3>1. batches \in Seq(Prompts(DOMAIN units, U))
      BY <1>2, <2>3, SeqMonotonic
    <3>2. /\ batches' \in Seq(Prompts(DOMAIN units, U)) /\ Len(batches') = Len(batches)
          /\ \A a \in 1..Len(batches) : batches'[a] = IF a = b THEN e ELSE batches[a]
      BY <1>3, <2>3, <2>4, <3>1, ExceptSeq
    <3>3. DOMAIN batches' = DOMAIN batches
      BY <1>3, <3>2, LenProperties
    <3> QED  BY <1>3, <2>4, <3>2, <3>3 DEF Homes
  <2>6. Homes(batches', i) = {b} /\ b \in Nat \ {0}
    BY <1>3, <1>5, <2>5
  <2> QED  BY <1>1, <1>4, <1>5, <1>7, <2>5, <2>6 DEF Shaped, i
<1>8. CASE /\ reason' = reason
           /\ batches' = Append(batches, [units |-> {i}, tokens |-> size])
  <2> DEFINE e == [units |-> {i}, tokens |-> size]
  <2>1. e \in Prompts(DOMAIN units, {size}) /\ e.units = {i} /\ batches' = Append(batches, e)
    BY <1>4, <1>8 DEF Prompts
  <2> HIDE DEF i, size, e
  <2>2. /\ \E U : batches' \in Seq(Prompts(DOMAIN units, U))
        /\ Homes(batches', i) = Homes(batches, i) \cup {Len(batches) + 1}
        /\ \A j \in DOMAIN units : j # i => Homes(batches', j) = Homes(batches, j)
    BY ONLY <1>2, <1>4, <2>1, TakenInNew
  <2>3. Homes(batches', i) = {Len(batches) + 1} /\ Len(batches) + 1 \in Nat \ {0}
    BY <1>3, <1>5, <2>2
  <2> QED  BY <1>1, <1>4, <1>5, <1>8, <2>2, <2>3 DEF Shaped, i
<1> QED  BY <1>6, <1>7, <1>8 DEF Place, Rooms, LeftOut

\* A unit of the prompt at hand has that prompt, and no reason yet.
LEMMA AtHand ==
    ASSUME FateInv, turn < Len(batches)
    PROVE  /\ Current \subseteq DOMAIN units
           /\ turn + 1 \in DOMAIN batches
           /\ \A i \in DOMAIN units : i \in Current <=> turn + 1 \in Homes(batches, i)
           /\ \A i \in Current : Homes(batches, i) = {turn + 1}
                               /\ i \notin reviewed /\ reason[i] = "none"
<1>1. Shaped /\ Packed /\ Reviewed
  BY DEF FateInv
<1>2. PICK T : batches \in Seq(Prompts(DOMAIN units, T))
  BY <1>1 DEF Shaped
<1>3. DOMAIN batches = 1..Len(batches) /\ Len(batches) \in Nat /\ turn \in Nat
  BY <1>1, ShapedFacts DEF Shaped
<1>4. turn + 1 \in DOMAIN batches
  BY <1>3
<1>5. Current \subseteq DOMAIN units
  <2>1. batches[turn + 1] \in Prompts(DOMAIN units, T)
    BY <1>2, <1>3, <1>4, ElementOfSeq
  <2> QED  BY <2>1 DEF Current, Prompts
<1>6. \A i \in DOMAIN units : i \in Current <=> turn + 1 \in Homes(batches, i)
  BY <1>4 DEF Current, Homes
<1>7. ASSUME NEW i \in Current
      PROVE  Homes(batches, i) = {turn + 1} /\ i \notin reviewed /\ reason[i] = "none"
  <2>1. i \in DOMAIN units /\ turn + 1 \in Homes(batches, i)
    BY <1>5, <1>6
  <2>2. Homes(batches, i) = {turn + 1}
    BY <1>1, <2>1 DEF Packed
  <2>3. \A b \in Homes(batches, i) : b > turn => i \notin reviewed /\ reason[i] = "none"
    BY <1>1, <2>1 DEF Reviewed
  <2>4. i \notin reviewed /\ reason[i] = "none"
    BY <1>3, <2>1, <2>3
  <2> QED  BY <2>2, <2>4
<1> QED  BY <1>4, <1>5, <1>6, <1>7

\* A prompt not sent, or not answered: its units get the reason.
LEMMA FailedKeepsFate ==
    ASSUME FateInv, turn < Len(batches), pc # "plan", NEW why \in Reasons \ LeftOut,
           NotReviewed(why), turn' = turn + 1, pc' = "review",
           UNCHANGED <<units, order, placed, batches, reviewed>>
    PROVE  FateInv'
<1>1. Shaped /\ OneTurnEach /\ Packed /\ Reviewed
  BY DEF FateInv
<1>2. /\ DOMAIN batches = 1..Len(batches) /\ Len(batches) \in Nat /\ turn \in Nat
      /\ \A i : Homes(batches, i) \subseteq DOMAIN batches
  BY <1>1, ShapedFacts DEF Shaped
<1>3. /\ \A i \in DOMAIN units : reason'[i] = IF i \in Current THEN why ELSE reason[i]
      /\ reason' \in [DOMAIN units -> Reasons \cup {"none"}]
  BY <1>1 DEF NotReviewed, Shaped
<1>4. Shaped'
  BY <1>1, <1>2, <1>3 DEF Shaped
<1>5. OneTurnEach'
  BY <1>1 DEF OneTurnEach
<1>6. Packed'
  <2>1. \A i \in DOMAIN units : Homes(batches, i) = {} => i \notin Current
    BY AtHand
  <2>2. \A i \in DOMAIN units : reason'[i] \in LeftOut <=> reason[i] \in LeftOut
    BY <1>3, AtHand DEF LeftOut
  <2>3. \A n \in DOMAIN units : order[n] \in DOMAIN units
    BY <1>1 DEF Shaped
  <2>4. \A n \in DOMAIN units : n > placed =>
            Homes(batches, order[n]) = {} /\ reason'[order[n]] = "none"
    BY <1>1, <1>3, <2>1, <2>3 DEF Packed
  <2> QED  BY <1>1, <2>2, <2>3, <2>4 DEF Packed, Shaped
<1>7. Reviewed'
  <2>1. ASSUME NEW i \in DOMAIN units, NEW b \in Homes(batches, i)
        PROVE  /\ b <= turn + 1 => (i \in reviewed <=> reason'[i] = "none")
               /\ b > turn + 1 => i \notin reviewed /\ reason'[i] = "none"
    <3>1. b \in Nat
      BY <1>2
    <3>2. CASE i \in Current
      BY <1>2, <1>3, <3>1, <3>2, AtHand DEF Reasons
    <3>3. CASE i \notin Current
      <4>1. b # turn + 1
        BY <3>3, AtHand
      <4>2. /\ b <= turn => (i \in reviewed <=> reason[i] = "none")
            /\ b > turn => i \notin reviewed /\ reason[i] = "none"
        BY <1>1, <2>1 DEF Reviewed
      <4>3. (b <= turn + 1 => b <= turn) /\ (b > turn + 1 => b > turn)
        BY <1>2, <3>1, <4>1
      <4> QED  BY <1>3, <3>3, <4>2, <4>3
    <3> QED  BY <3>2, <3>3
  <2> QED  BY <1>1, <2>1 DEF Reviewed
<1> QED  BY <1>4, <1>5, <1>6, <1>7 DEF FateInv

LEMMA PlaceKeepsFate == FateInv /\ Place => FateInv'
<1> SUFFICES ASSUME FateInv, Place PROVE FateInv'
  OBVIOUS
<1> DEFINE i == order[placed + 1]
<1>1. Shaped /\ OneTurnEach /\ Packed /\ Reviewed
  BY DEF FateInv
<1>2. /\ placed' = placed + 1 /\ pc = "plan" /\ pc' = pc /\ turn' = turn
      /\ units' = units /\ order' = order /\ reviewed' = reviewed
  BY DEF Place
<1>3. DOMAIN units = 1..Len(units) /\ Len(units) \in Nat
  BY <1>1, ShapedFacts
<1>4. /\ placed + 1 \in DOMAIN units /\ i \in DOMAIN units
      /\ \E U : batches' \in Seq(Prompts(DOMAIN units, U))
      /\ reason' \in [DOMAIN units -> Reasons \cup {"none"}]
      /\ \A j \in DOMAIN units : j # i =>
            Homes(batches', j) = Homes(batches, j) /\ reason'[j] = reason[j]
      /\ \/ Homes(batches', i) = {} /\ reason'[i] \in LeftOut
         \/ /\ \E b \in Nat \ {0} : Homes(batches', i) = {b}
            /\ reason'[i] = "none"
  BY PlaceEffect
<1>5. turn = 0 /\ i \notin reviewed
  <2>1. turn = 0
    BY <1>1, <1>2 DEF Reviewed
  <2>2. placed + 1 > placed
    BY <1>1, <1>3 DEF Shaped
  <2>3. Homes(batches, i) = {}
    BY <1>1, <1>4, <2>2 DEF Packed
  <2> QED  BY <1>1, <1>4, <2>1, <2>3 DEF Reviewed
<1>6. \A n \in DOMAIN units : n # placed + 1 => order[n] # i /\ order[n] \in DOMAIN units
  BY <1>1, <1>4 DEF OneTurnEach, Shaped
<1> HIDE DEF i
<1>7. Shaped'
  <2>1. PICK U : batches' \in Seq(Prompts(DOMAIN units, U))
    BY <1>4
  <2>2. turn' \in 0..Len(batches')
    BY <1>2, <1>5, <2>1, LenProperties
  <2> QED  BY <1>1, <1>2, <1>3, <1>4, <2>1, <2>2 DEF Shaped
<1>8. OneTurnEach'
  BY <1>1, <1>2 DEF OneTurnEach
<1>9. Packed'
  <2>1. \A j \in DOMAIN units : \A a, b \in Homes(batches', j) : a = b
    BY <1>1, <1>4 DEF Packed
  <2>2. ASSUME NEW n \in DOMAIN units
        PROVE  /\ n > placed + 1 => Homes(batches', order[n]) = {} /\ reason'[order[n]] = "none"
               /\ n <= placed + 1 => (Homes(batches', order[n]) = {} <=> reason'[order[n]] \in LeftOut)
    <3>1. CASE n = placed + 1
      <4>1. order[n] = i /\ ~(n > placed + 1)
        BY <1>3, <3>1 DEF i
      <4>2. Homes(batches', i) = {} <=> reason'[i] \in LeftOut
        BY <1>4 DEF LeftOut
      <4> QED  BY <4>1, <4>2
    <3>2. CASE n # placed + 1
      <4>1. Homes(batches', order[n]) = Homes(batches, order[n]) /\ reason'[order[n]] = reason[order[n]]
        BY <1>4, <1>6, <3>2
      <4>2. (n > placed + 1 => n > placed) /\ (n <= placed + 1 => n <= placed)
        BY <1>1, <1>3, <3>2 DEF Shaped
      <4> QED  BY <1>1, <4>1, <4>2 DEF Packed
    <3> QED  BY <3>1, <3>2
  <2> QED  BY <1>2, <2>1, <2>2 DEF Packed
<1>10. Reviewed'
  <2>1. ASSUME NEW j \in DOMAIN units
        PROVE  /\ Homes(batches', j) = {} => j \notin reviewed
               /\ \A b \in Homes(batches', j) :
                    /\ b <= turn => (j \in reviewed <=> reason'[j] = "none")
                    /\ b > turn => j \notin reviewed /\ reason'[j] = "none"
    <3>1. CASE j = i
      BY <1>4, <1>5, <3>1 DEF LeftOut
    <3>2. CASE j # i
      BY <1>1, <1>4, <3>2 DEF Reviewed
    <3> QED  BY <3>1, <3>2
  <2> QED  BY <1>1, <1>2, <1>5, <2>1 DEF Reviewed
<1> QED  BY <1>7, <1>8, <1>9, <1>10 DEF FateInv

LEMMA FateNext == FateInv /\ [Next]_vars => FateInv'
<1> SUFFICES ASSUME FateInv, [Next]_vars PROVE FateInv'
  OBVIOUS
<1>1. Shaped /\ OneTurnEach /\ Packed /\ Reviewed
  BY DEF FateInv
<1>2. /\ DOMAIN batches = 1..Len(batches) /\ Len(batches) \in Nat /\ turn \in Nat
      /\ \A i : Homes(batches, i) \subseteq DOMAIN batches
  BY <1>1, ShapedFacts DEF Shaped
<1>3. CASE Place
  BY <1>3, PlaceKeepsFate
<1>4. CASE StartReview
  BY <1>1, <1>4 DEF StartReview, FateInv, Shaped, OneTurnEach, Packed, Reviewed
<1>5. CASE SkipBatch
  BY <1>5, FailedKeepsFate DEF SkipBatch, Reasons, LeftOut
<1>6. CASE SendBatch
  BY <1>1, <1>6 DEF SendBatch, FateInv, Shaped, OneTurnEach, Packed, Reviewed
<1>7. CASE BatchFails
  <2>1. turn < Len(batches)
    BY <1>1, <1>7 DEF BatchFails, Reviewed
  <2>2. PICK why \in {"time_budget", "bad_output", "llm_error"} : NotReviewed(why)
    BY <1>7 DEF BatchFails
  <2>3. why \in Reasons \ LeftOut
    BY <2>2 DEF Reasons, LeftOut
  <2> QED  BY <1>7, <2>1, <2>2, <2>3, FailedKeepsFate DEF BatchFails
<1>8. CASE BatchAnswers
  <2>1. /\ turn < Len(batches) /\ pc = "call" /\ pc' = "review" /\ turn' = turn + 1
        /\ reviewed' = reviewed \cup Current
        /\ UNCHANGED <<units, order, placed, batches, reason>>
    BY <1>1, <1>8 DEF BatchAnswers, Reviewed
  <2>2. Shaped'
    BY <1>1, <1>2, <2>1, AtHand DEF Shaped
  <2>3. OneTurnEach' /\ Packed'
    BY <1>1, <2>1 DEF OneTurnEach, Packed
  <2>4. ASSUME NEW i \in DOMAIN units, NEW b \in Homes(batches, i)
        PROVE  /\ b <= turn + 1 => (i \in reviewed' <=> reason[i] = "none")
               /\ b > turn + 1 => i \notin reviewed' /\ reason[i] = "none"
    <3>1. b \in Nat
      BY <1>2
    <3>2. CASE i \in Current
      BY <1>2, <2>1, <3>1, <3>2, AtHand
    <3>3. CASE i \notin Current
      <4>1. b # turn + 1
        BY <2>1, <3>3, AtHand
      <4>2. /\ b <= turn => (i \in reviewed <=> reason[i] = "none")
            /\ b > turn => i \notin reviewed /\ reason[i] = "none"
        BY <1>1, <2>4 DEF Reviewed
      <4>3. (b <= turn + 1 => b <= turn) /\ (b > turn + 1 => b > turn)
        BY <1>2, <3>1, <4>1
      <4> QED  BY <2>1, <3>3, <4>2, <4>3
    <3> QED  BY <3>2, <3>3
  <2>5. \A i \in DOMAIN units : Homes(batches, i) = {} => i \notin reviewed'
    BY <1>1, <2>1, AtHand DEF Reviewed
  <2>6. Reviewed'
    BY <1>1, <2>1, <2>4, <2>5 DEF Reviewed
  <2> QED  BY <2>2, <2>3, <2>6 DEF FateInv
<1>9. CASE Return
  BY <1>1, <1>9 DEF Return, FateInv, Shaped, OneTurnEach, Packed, Reviewed
<1>10. CASE UNCHANGED vars
  BY <1>1, <1>10 DEF vars, FateInv, Shaped, OneTurnEach, Packed, Reviewed
<1> QED  BY <1>3, <1>4, <1>5, <1>6, <1>7, <1>8, <1>9, <1>10 DEF Next

\* "Units that don't fit are returned, never silently dropped" (review_plan.py:20-21), and
\* none is reviewed twice, for any units, sizes and budgets.
THEOREM FateSound == Spec => []EveryUnitOnce
<1>1. FateInv => EveryUnitOnce
  <2> SUFFICES ASSUME FateInv PROVE EveryUnitOnce
    OBVIOUS
  <2>1. Shaped /\ OneTurnEach /\ Packed /\ Reviewed
    BY DEF FateInv
  <2>2. /\ DOMAIN units = 1..Len(units) /\ Len(units) \in Nat
        /\ DOMAIN batches = 1..Len(batches) /\ Len(batches) \in Nat
        /\ \A i : Homes(batches, i) \subseteq DOMAIN batches
    BY <2>1, ShapedFacts
  <2>3. ASSUME NEW n \in 1..placed
        PROVE  /\ Cardinality(Homes(batches, order[n])) <= 1
               /\ Homes(batches, order[n]) = {} <=> reason[order[n]] \in {"budget", "too_large"}
    <3>1. n \in DOMAIN units /\ n <= placed /\ order[n] \in DOMAIN units
      BY <2>1, <2>2, SMTT(30) DEF Shaped
    <3>2. CASE Homes(batches, order[n]) = {}
      <4>1. Cardinality(Homes(batches, order[n])) = 0
        BY <3>2, FS_EmptySet
      <4> QED  BY <2>1, <3>1, <4>1 DEF Packed, LeftOut
    <3>3. CASE Homes(batches, order[n]) # {}
      <4>1. PICK b \in Homes(batches, order[n]) : TRUE
        BY <3>3
      <4>2. Homes(batches, order[n]) = {b}
        BY <2>1, <3>1, <4>1 DEF Packed
      <4>3. Cardinality(Homes(batches, order[n])) = 1
        BY <4>2, FS_Singleton
      <4> QED  BY <2>1, <3>1, <4>3 DEF Packed, LeftOut
    <3> QED  BY <3>2, <3>3
  <2>4. ASSUME pc = "done", NEW i \in DOMAIN units
        PROVE  i \in reviewed <=> reason[i] = "none"
    <3>1. placed = Len(units) /\ turn = Len(batches)
      BY <2>1, <2>4 DEF Reviewed
    <3>2. CASE Homes(batches, i) = {}
      <4>1. PICK n \in DOMAIN units : order[n] = i
        BY <2>1 DEF OneTurnEach
      <4>2. n <= placed
        BY <2>2, <3>1
      <4> QED  BY <2>1, <3>2, <4>1, <4>2 DEF Packed, Reviewed, LeftOut
    <3>3. CASE Homes(batches, i) # {}
      <4>1. PICK b \in Homes(batches, i) : TRUE
        BY <3>3
      <4>2. b <= turn
        BY <2>2, <3>1
      <4> QED  BY <2>1, <4>2 DEF Reviewed
    <3> QED  BY <3>2, <3>3
  <2> QED  BY <2>3, <2>4 DEF EveryUnitOnce, Homes
<1> QED  BY <1>1, FateInit, FateNext, PTL DEF Spec

------------------------------------------------------------------------------
(* What the packing makes of the sizes.                                    *)

\* What holds of one prompt.
PromptFits(p) ==
    /\ p.units \subseteq DOMAIN units /\ p.tokens \in Nat
    /\ Cardinality(p.units) <= MaxUnitsPerPrompt \/ Cardinality(p.units) = 1
    /\ p.tokens = SumOver(Sizes, p.units)
    /\ \/ p.tokens <= Available
       \/ \E i \in DOMAIN units : /\ p.units = {i} /\ ~FitsWhole(units[i])
                                 /\ FitsCut(units[i], Fitted[units[i]].shown)

\* First fit: no unit of a later prompt fits an earlier one.
FirstFit ==
    \A a, b \in DOMAIN batches : a < b =>
        \A i \in batches[b].units : ~HasRoom(batches[a], Sizes[i])

\* A unit is left out for the budget when nothing has room for it.
NoRoomLeft ==
    \A i \in DOMAIN units : reason[i] = "budget" =>
        /\ Len(batches) = MaxCalls
        /\ \A b \in DOMAIN batches : ~HasRoom(batches[b], Sizes[i])
        /\ \A b \in DOMAIN batches : \A j \in batches[b].units :
               Before(units, i, j) => Sizes[j] < Sizes[i]

TightInv ==
    /\ Len(batches) <= MaxCalls
    /\ \A b \in DOMAIN batches : PromptFits(batches[b])
    /\ FirstFit /\ NoRoomLeft

PackInv == FateInv /\ Sorted(units, order) /\ TightInv

\* What the plan knows of a unit.
LEMMA UnitFacts ==
    ASSUME Shaped, NEW i \in DOMAIN units
    PROVE  /\ i \in Nat /\ units[i] \in Shapes /\ IsUnit(units[i])
           /\ Fitted[units[i]] = [size |-> PromptSize(units[i]), tooLarge |-> TooLarge(units[i]),
                                  partial |-> Partial(units[i]), shown |-> Shown(units[i])]
           /\ \A k \in 1..4 : units[i].evidence[k] \in Nat
           /\ Sizes[i] = Fitted[units[i]].size /\ Sizes[i] \in Nat
           /\ IsFiniteSet(DOMAIN units)
<1>1. DOMAIN units = 1..Len(units) /\ Len(units) \in Nat
  BY ShapedFacts
<1>2. i \in Nat /\ units[i] \in Shapes
  <2>1. units \in Seq(Shapes)
    BY DEF Shaped
  <2> QED  BY <1>1, <2>1, ElementOfSeq
<1>3. IsUnit(units[i]) /\ \A k \in 1..4 : units[i].evidence[k] \in Nat
  BY <1>2, ReviewAssumption DEF IsUnit
<1>4. Fitted[units[i]] = [size |-> PromptSize(units[i]), tooLarge |-> TooLarge(units[i]),
                          partial |-> Partial(units[i]), shown |-> Shown(units[i])]
  BY <1>2 DEF Fitted
<1>5. Sizes[i] = Fitted[units[i]].size
  BY DEF Sizes
<1>6. Sizes[i] \in Nat
  <2>1. PromptSize(units[i]) \in Nat
    BY <1>3, PlanOfUnit
  <2>2. Fitted[units[i]].size = PromptSize(units[i])
    BY <1>4
  <2> QED  BY <1>5, <2>1, <2>2
<1>7. IsFiniteSet(DOMAIN units)
  BY <1>1, FS_Interval
<1> QED  BY <1>2, <1>3, <1>4, <1>5, <1>6, <1>7

\* Of two units at most one is before the other.
LEMMA BeforeIsStrict ==
    ASSUME NEW U, NEW i, NEW j, i \in Nat, j \in Nat,
           \A k \in 1..4 : U[i].evidence[k] \in Nat /\ U[j].evidence[k] \in Nat,
           Before(U, i, j)
    PROVE  ~Before(U, j, i)
<1>1. ~(MoreEvident(U[i], U[j]) /\ MoreEvident(U[j], U[i]))
  <2> DEFINE x == U[i].evidence
             y == U[j].evidence
  <2>1. \A k \in 1..4 : x[k] \in Nat /\ y[k] \in Nat
    OBVIOUS
  <2>2. /\ MoreEvident(U[i], U[j]) <=>
                \E k \in 1..4 : x[k] > y[k] /\ \A m \in 1..(k - 1) : x[m] = y[m]
        /\ MoreEvident(U[j], U[i]) <=>
                \E k \in 1..4 : y[k] > x[k] /\ \A m \in 1..(k - 1) : y[m] = x[m]
    BY DEF MoreEvident
  <2> HIDE DEF x, y
  <2>3. ASSUME NEW k \in 1..4, x[k] > y[k], \A m \in 1..(k - 1) : x[m] = y[m],
               NEW l \in 1..4, y[l] > x[l], \A m \in 1..(l - 1) : y[m] = x[m]
        PROVE  FALSE
    <3>1. CASE k < l
      <4>1. k \in 1..(l - 1)
        BY <3>1
      <4> QED  BY <2>1, <2>3, <4>1
    <3>2. CASE l < k
      <4>1. l \in 1..(k - 1)
        BY <3>2
      <4> QED  BY <2>1, <2>3, <4>1
    <3>3. CASE k = l
      BY <2>1, <2>3, <3>3
    <3> QED  BY <3>1, <3>2, <3>3
  <2> QED  BY <2>2, <2>3
<1> QED  BY <1>1 DEF Before

\* A prompt that has more in it has no more room.
LEMMA RoomShrinks ==
    ASSUME NEW p, NEW q, p.tokens \in Nat, q.tokens \in Nat, p.tokens <= q.tokens,
           Cardinality(p.units) \in Nat, Cardinality(q.units) \in Nat,
           Cardinality(p.units) <= Cardinality(q.units),
           NEW size \in Nat, HasRoom(q, size)
    PROVE  HasRoom(p, size)
BY SizesAssumption, ReviewAssumption DEF HasRoom

\* A unit joins a prompt that has room for it.
LEMMA JoinsPrompt ==
    ASSUME Shaped, NEW p, PromptFits(p), NEW i \in DOMAIN units, i \notin p.units,
           HasRoom(p, Sizes[i]), NEW q,
           q.units = p.units \cup {i}, q.tokens = p.tokens + Sizes[i]
    PROVE  PromptFits(q) /\ \A size \in Nat : HasRoom(q, size) => HasRoom(p, size)
<1>1. IsFiniteSet(DOMAIN units) /\ Sizes[i] \in Nat /\ \A j \in DOMAIN units : Sizes[j] \in Nat
  BY UnitFacts
<1>2. IsFiniteSet(p.units) /\ Cardinality(p.units) \in Nat
  BY <1>1, FS_Subset, FS_CardinalityType DEF PromptFits
<1>3. Cardinality(q.units) = Cardinality(p.units) + 1 /\ IsFiniteSet(q.units)
  BY <1>2, FS_AddElement
<1>4. p.tokens + Sizes[i] <= Available /\ Cardinality(p.units) < MaxUnitsPerPrompt
  BY DEF HasRoom
<1>5. q.units \subseteq DOMAIN units /\ p.tokens \in Nat /\ q.tokens \in Nat
  BY <1>1 DEF PromptFits
<1>6. q.tokens = SumOver(Sizes, q.units)
  <2>1. \A j \in q.units : Sizes[j] \in Nat
    BY <1>1, <1>5
  <2>2. i \in q.units /\ q.units \ {i} = p.units
    OBVIOUS
  <2>3. SumOver(Sizes, q.units) = SumOver(Sizes, q.units \ {i}) + Sizes[i]
    BY <1>3, <2>1, <2>2, SumOverFacts
  <2>4. p.tokens = SumOver(Sizes, p.units)
    BY DEF PromptFits
  <2> QED  BY <2>2, <2>3, <2>4
<1>7. PromptFits(q)
  BY <1>2, <1>3, <1>4, <1>5, <1>6, ReviewAssumption DEF PromptFits
<1>8. p.tokens <= q.tokens /\ Cardinality(p.units) <= Cardinality(q.units)
  BY <1>1, <1>2, <1>3, <1>5
<1>9. ASSUME NEW size \in Nat, HasRoom(q, size) PROVE HasRoom(p, size)
  BY <1>2, <1>3, <1>5, <1>8, <1>9, RoomShrinks
<1> QED  BY <1>7, <1>9

\* A unit that is not too large begins a prompt.
LEMMA BeginsPrompt ==
    ASSUME Shaped, NEW i \in DOMAIN units, ~Fitted[units[i]].tooLarge,
           NEW q, q.units = {i}, q.tokens = Sizes[i]
    PROVE  PromptFits(q)
<1> DEFINE u == units[i]
<1>1. /\ IsUnit(u) /\ Sizes[i] = PromptSize(u) /\ Sizes[i] \in Nat
      /\ Fitted[u].shown = Shown(u) /\ ~TooLarge(u)
  <2>1. /\ IsUnit(u) /\ Sizes[i] = Fitted[u].size /\ Sizes[i] \in Nat
        /\ Fitted[u] = [size |-> PromptSize(u), tooLarge |-> TooLarge(u),
                        partial |-> Partial(u), shown |-> Shown(u)]
    BY UnitFacts
  <2> QED  BY <2>1
<1>2. /\ FitsWhole(u) => PromptSize(u) <= Available
      /\ ~FitsWhole(u) => FitsCut(u, Shown(u))
  BY <1>1, PlanOfUnit
<1>3. Cardinality(q.units) = 1
  BY FS_Singleton
<1>4. q.tokens = SumOver(Sizes, q.units)
  <2>1. IsFiniteSet({i}) /\ IsFiniteSet({}) /\ {i} \ {i} = {}
    BY FS_Singleton, FS_EmptySet
  <2>2. SumOver(Sizes, {i}) = SumOver(Sizes, {i} \ {i}) + Sizes[i]
    BY <1>1, <2>1, SumOverFacts
  <2>3. SumOver(Sizes, {}) = 0
    BY <2>1, SumOverFacts
  <2> QED  BY <1>1, <2>1, <2>2, <2>3
<1> QED  BY <1>1, <1>2, <1>3, <1>4 DEF PromptFits

\* The units stay, and what is said of them.
LEMMA UnitsStay ==
    ASSUME units' = units
    PROVE  /\ Sizes' = Sizes
           /\ \A p : PromptFits(p)' <=> PromptFits(p)
BY DEF Sizes, PromptFits

\* A step that changes no prompt and leaves no unit out for the budget.
LEMMA TightStays ==
    ASSUME TightInv, units' = units, batches' = batches,
           \A i \in DOMAIN units : reason'[i] = "budget" => reason[i] = "budget"
    PROVE  TightInv'
<1>1. Sizes' = Sizes
  BY UnitsStay
<1>2. FirstFit'
  BY <1>1 DEF TightInv, FirstFit
<1>3. NoRoomLeft'
  BY <1>1 DEF TightInv, NoRoomLeft
<1>4. \A b \in DOMAIN batches : PromptFits(batches[b])'
  BY DEF TightInv, PromptFits, Sizes
<1> QED  BY <1>2, <1>3, <1>4 DEF TightInv

\* The unit the packing loop is at comes after every unit that is in a prompt.
LEMMA LaterInOrder ==
    ASSUME FateInv, Sorted(units, order), placed + 1 \in DOMAIN units,
           NEW b \in DOMAIN batches, NEW j \in batches[b].units, j \in DOMAIN units
    PROVE  ~Before(units, order[placed + 1], j)
<1>1. Shaped /\ OneTurnEach /\ Packed
  BY DEF FateInv
<1>2. PICK m \in DOMAIN units : order[m] = j
  BY <1>1 DEF OneTurnEach
<1>3. DOMAIN units = 1..Len(units) /\ Len(units) \in Nat /\ placed \in Nat /\ DOMAIN order = DOMAIN units
  BY <1>1, ShapedFacts DEF Shaped
<1>4. b \in Homes(batches, order[m])
  BY <1>2 DEF Homes
<1>5. m < placed + 1
  <2>1. ~(m > placed)
    BY <1>1, <1>4 DEF Packed
  <2> QED  BY <1>3, <2>1
<1>6. Before(units, order[m], order[placed + 1])
  BY <1>3, <1>5 DEF Sorted
<1>7. order[placed + 1] \in DOMAIN units
  BY <1>1 DEF Shaped
<1> QED  BY <1>1, <1>2, <1>6, <1>7, UnitFacts, BeforeIsStrict

\* The unit goes into the first prompt that has room.
LEMMA JoinKeepsTight ==
    ASSUME Shaped, TightInv, NEW i \in DOMAIN units, NEW b \in DOMAIN batches, NEW q,
           i \notin batches[b].units, HasRoom(batches[b], Sizes[i]),
           \A a \in DOMAIN batches : a < b => ~HasRoom(batches[a], Sizes[i]),
           q.units = batches[b].units \cup {i}, q.tokens = batches[b].tokens + Sizes[i],
           batches' = [batches EXCEPT ![b] = q], reason' = reason, units' = units
    PROVE  TightInv'
<1>1. /\ DOMAIN batches = 1..Len(batches) /\ Len(batches) \in Nat
      /\ DOMAIN batches' = DOMAIN batches /\ Len(batches') = Len(batches)
      /\ \A a \in DOMAIN batches : batches'[a] = IF a = b THEN q ELSE batches[a]
  <2>1. PICK T : batches \in Seq(Prompts(DOMAIN units, T))
    BY DEF Shaped
  <2>2. /\ DOMAIN batches = 1..Len(batches) /\ Len(batches) \in Nat
        /\ batches \in [1..Len(batches) -> Prompts(DOMAIN units, T)]
    BY <2>1, LenProperties
  <2>3. batches' \in [1..Len(batches) -> Prompts(DOMAIN units, T) \cup {q}]
    BY <2>2
  <2>4. batches' \in Seq(Prompts(DOMAIN units, T) \cup {q})
    BY <2>2, <2>3, IsASeq
  <2>5. DOMAIN batches' = 1..Len(batches')
    BY <2>4, LenProperties
  <2>6. Len(batches') \in Nat /\ 1..Len(batches') = 1..Len(batches)
    BY <2>3, <2>4, <2>5, LenProperties
  <2>7. Len(batches') = Len(batches)
    BY <2>2, <2>6
  <2> QED  BY <2>2, <2>3, <2>7
<1>2. /\ \A a \in DOMAIN batches : PromptFits(batches[a])
      /\ \A j \in DOMAIN units : Sizes[j] \in Nat
  BY UnitFacts DEF TightInv
<1>3. PromptFits(q) /\ \A size \in Nat : HasRoom(q, size) => HasRoom(batches[b], size)
  BY <1>2, JoinsPrompt
<1>4. \A a \in DOMAIN batches : PromptFits(batches'[a])
  BY <1>1, <1>2, <1>3
<1>5. \A a \in DOMAIN batches : \A size \in Nat :
          HasRoom(batches'[a], size) => HasRoom(batches[a], size)
  BY <1>1, <1>3
<1>6. \A a \in DOMAIN batches : batches'[a].units \subseteq DOMAIN units
  BY <1>4 DEF PromptFits
<1>7. Sizes' = Sizes /\ \A p : PromptFits(p)' <=> PromptFits(p)
  BY UnitsStay
<1>8. \A a, c \in DOMAIN batches : a < c =>
          \A j \in batches'[c].units : ~HasRoom(batches'[a], Sizes[j])
  <2>1. ASSUME NEW a \in DOMAIN batches, NEW c \in DOMAIN batches, a < c,
               NEW j \in batches'[c].units
        PROVE  ~HasRoom(batches'[a], Sizes[j])
    <3>1. j \in batches[c].units \/ (j = i /\ c = b)
      BY <1>1
    <3>2. ~HasRoom(batches[a], Sizes[j])
      BY <2>1, <3>1 DEF TightInv, FirstFit
    <3>3. Sizes[j] \in Nat
      BY <1>2, <1>6
    <3> QED  BY <1>5, <3>2, <3>3
  <2> QED  BY <2>1
<1>9. ASSUME NEW k \in DOMAIN units, reason[k] = "budget"
      PROVE  /\ Len(batches) = MaxCalls
             /\ \A c \in DOMAIN batches : ~HasRoom(batches'[c], Sizes[k])
             /\ \A c \in DOMAIN batches : \A j \in batches'[c].units :
                    Before(units, k, j) => Sizes[j] < Sizes[k]
  <2>1. /\ Len(batches) = MaxCalls
        /\ \A c \in DOMAIN batches : ~HasRoom(batches[c], Sizes[k])
        /\ \A c \in DOMAIN batches : \A j \in batches[c].units :
               Before(units, k, j) => Sizes[j] < Sizes[k]
    BY <1>9 DEF TightInv, NoRoomLeft
  <2>2. Sizes[i] < Sizes[k]
    <3>1. batches[b].tokens \in Nat /\ Sizes[i] \in Nat /\ Sizes[k] \in Nat
      BY <1>2 DEF PromptFits
    <3> QED  BY <2>1, <3>1, SizesAssumption, SMTT(30) DEF HasRoom
  <2>3. \A c \in DOMAIN batches : ~HasRoom(batches'[c], Sizes[k])
    BY <1>2, <1>5, <2>1
  <2>4. ASSUME NEW c \in DOMAIN batches, NEW j \in batches'[c].units, Before(units, k, j)
        PROVE  Sizes[j] < Sizes[k]
    <3>1. j \in batches[c].units \/ j = i
      BY <1>1
    <3> QED  BY <2>1, <2>2, <2>4, <3>1
  <2> QED  BY <2>1, <2>3, <2>4
<1>10. FirstFit'
  BY <1>1, <1>7, <1>8 DEF FirstFit
<1>11. NoRoomLeft'
  BY <1>1, <1>7, <1>9 DEF NoRoomLeft
<1>12. (\A a \in DOMAIN batches : PromptFits(batches[a]))'
  BY <1>1, <1>4 DEF PromptFits, Sizes
<1> QED  BY <1>1, <1>10, <1>11, <1>12 DEF TightInv

\* The unit begins a prompt, none having room.
LEMMA BeginKeepsTight ==
    ASSUME Shaped, TightInv, NEW i \in DOMAIN units, ~Fitted[units[i]].tooLarge, NEW q,
           \A a \in DOMAIN batches : ~HasRoom(batches[a], Sizes[i]), Len(batches) < MaxCalls,
           q.units = {i}, q.tokens = Sizes[i],
           batches' = Append(batches, q), reason' = reason, units' = units
    PROVE  TightInv'
<1>1. /\ DOMAIN batches = 1..Len(batches) /\ Len(batches) \in Nat
      /\ DOMAIN batches' = 1..(Len(batches) + 1) /\ Len(batches') = Len(batches) + 1
      /\ \A a \in DOMAIN batches : batches'[a] = batches[a]
      /\ batches'[Len(batches) + 1] = q
  <2>1. PICK T : batches \in Seq(Prompts(DOMAIN units, T))
    BY DEF Shaped
  <2> DEFINE S == Prompts(DOMAIN units, T) \cup {q}
             C == Append(batches, q)
  <2>2. batches \in Seq(S) /\ q \in S
    <3>1. Prompts(DOMAIN units, T) \subseteq S
      OBVIOUS
    <3> QED  BY <2>1, <3>1, SeqMonotonic
  <2>0. C = Append(batches, q) /\ batches' = C
    OBVIOUS
  <2> HIDE DEF S, C
  <2>3. /\ C \in Seq(S) /\ Len(C) = Len(batches) + 1
        /\ \A a \in 1..Len(batches) : C[a] = batches[a]
        /\ C[Len(batches) + 1] = q
    BY <2>0, <2>2, AppendProperties
  <2>4. /\ DOMAIN batches = 1..Len(batches) /\ Len(batches) \in Nat
        /\ DOMAIN C = 1..Len(C)
    BY <2>2, <2>3, LenProperties
  <2> QED  BY <2>0, <2>3, <2>4
<1>2. PromptFits(q)
  BY BeginsPrompt
<1>3. \A a \in DOMAIN batches' : a \in DOMAIN batches \/ a = Len(batches) + 1
  BY <1>1
<1>4. (\A a \in DOMAIN batches : PromptFits(batches[a]))'
  <2>1. \A a \in DOMAIN batches' : PromptFits(batches'[a])
    BY <1>1, <1>2, <1>3 DEF TightInv
  <2> QED  BY <2>1 DEF PromptFits, Sizes
<1>5. Sizes' = Sizes
  BY UnitsStay
<1>6. FirstFit'
  <2>1. ASSUME NEW a \in DOMAIN batches', NEW c \in DOMAIN batches', a < c,
               NEW j \in batches'[c].units
        PROVE  ~HasRoom(batches'[a], Sizes[j])
    <3>1. a \in DOMAIN batches
      BY <1>1, <1>3, <2>1
    <3>2. CASE c \in DOMAIN batches
      BY <1>1, <2>1, <3>1, <3>2 DEF TightInv, FirstFit
    <3>3. CASE c = Len(batches) + 1
      BY <1>1, <2>1, <3>1, <3>3
    <3> QED  BY <1>3, <3>2, <3>3
  <2> QED  BY <1>5, <2>1 DEF FirstFit
<1>7. NoRoomLeft'
  <2>1. \A k \in DOMAIN units : reason[k] # "budget"
    BY <1>1, ReviewAssumption DEF TightInv, NoRoomLeft
  <2> QED  BY <2>1 DEF NoRoomLeft
<1>8. Len(batches') <= MaxCalls
  BY <1>1, ReviewAssumption, SMTT(30)
<1> QED  BY <1>4, <1>6, <1>7, <1>8 DEF TightInv

LEMMA PlaceKeepsTight == PackInv /\ Place => TightInv'
<1> SUFFICES ASSUME PackInv, Place PROVE TightInv'
  OBVIOUS
<1> DEFINE i == order[placed + 1]
           size == Fitted[units[i]].size
<1>1. FateInv /\ Shaped /\ Packed /\ TightInv /\ Sorted(units, order)
  BY DEF PackInv, FateInv
<1>2. placed + 1 \in DOMAIN units /\ i \in DOMAIN units
  BY <1>1, PlaceEffect
<1>3. Homes(batches, i) = {} /\ reason[i] = "none"
  <2>1. placed + 1 > placed
    BY <1>1, ShapedFacts DEF Shaped
  <2> QED  BY <1>1, <1>2, <2>1 DEF Packed
<1>4. units' = units /\ size = Sizes[i]
  BY <1>1, <1>2, UnitFacts DEF Place
<1>5. \A b \in DOMAIN batches : b \in Rooms(size) <=> HasRoom(batches[b], Sizes[i])
  BY <1>4 DEF Rooms
<1>6. \A b \in DOMAIN batches : i \notin batches[b].units
  BY <1>3 DEF Homes
<1>7. CASE /\ reason' = [reason EXCEPT ![i] = "too_large"]
           /\ UNCHANGED batches
  <2>1. \A k \in DOMAIN units : reason'[k] = "budget" => reason[k] = "budget"
    BY <1>1, <1>2, <1>7 DEF Shaped
  <2> QED  BY <1>1, <1>4, <1>7, <2>1, TightStays
<1>8. CASE /\ \E b \in Rooms(size) :
                /\ \A a \in Rooms(size) : b <= a
                /\ batches' = [batches EXCEPT ![b] = [units |-> @.units \cup {i},
                                                      tokens |-> @.tokens + size]]
           /\ UNCHANGED reason
  <2>1. PICK b \in Rooms(size) :
                /\ \A a \in Rooms(size) : b <= a
                /\ batches' = [batches EXCEPT ![b] = [units |-> @.units \cup {i},
                                                      tokens |-> @.tokens + size]]
    BY <1>8
  <2> DEFINE q == [units |-> batches[b].units \cup {i}, tokens |-> batches[b].tokens + size]
  <2>2. b \in DOMAIN batches /\ HasRoom(batches[b], Sizes[i])
    BY <1>5, <2>1 DEF Rooms
  <2>3. \A a \in DOMAIN batches : a < b => ~HasRoom(batches[a], Sizes[i])
    <3>1. DOMAIN batches \subseteq Int
      BY <1>1, ShapedFacts
    <3> QED  BY <1>5, <2>1, <2>2, <3>1
  <2>4. /\ q.units = batches[b].units \cup {i} /\ q.tokens = batches[b].tokens + Sizes[i]
        /\ batches' = [batches EXCEPT ![b] = q] /\ reason' = reason
    BY <1>4, <1>8, <2>1
  <2> HIDE DEF q, i, size
  <2> QED  BY ONLY <1>1, <1>2, <1>4, <1>6, <2>2, <2>3, <2>4, JoinKeepsTight
<1>9. CASE /\ ~Fitted[units[i]].tooLarge /\ Rooms(size) = {} /\ MoreCalls
           /\ batches' = Append(batches, [units |-> {i}, tokens |-> size])
           /\ UNCHANGED reason
  <2> DEFINE q == [units |-> {i}, tokens |-> size]
  <2>1. /\ q.units = {i} /\ q.tokens = Sizes[i] /\ batches' = Append(batches, q)
        /\ reason' = reason /\ Len(batches) < MaxCalls /\ ~Fitted[units[i]].tooLarge
        /\ \A a \in DOMAIN batches : ~HasRoom(batches[a], Sizes[i])
    BY <1>4, <1>5, <1>9 DEF MoreCalls
  <2> HIDE DEF q, i, size
  <2> QED  BY ONLY <1>1, <1>2, <1>4, <2>1, BeginKeepsTight
<1>10. CASE /\ Rooms(size) = {} /\ ~MoreCalls
            /\ reason' = [reason EXCEPT ![i] = "budget"]
            /\ UNCHANGED batches
  <2>1. Len(batches) = MaxCalls
    BY <1>1, <1>10, ShapedFacts, ReviewAssumption DEF MoreCalls, TightInv
  <2>2. \A b \in DOMAIN batches : ~HasRoom(batches[b], Sizes[i])
    BY <1>5, <1>10
  <2>3. \A b \in DOMAIN batches : \A j \in batches[b].units : ~Before(units, i, j)
    <3>1. \A b \in DOMAIN batches : batches[b].units \subseteq DOMAIN units
      BY <1>1 DEF TightInv, PromptFits
    <3> QED  BY <1>1, <1>2, <3>1, LaterInOrder
  <2>4. \A k \in DOMAIN units : reason'[k] = IF k = i THEN "budget" ELSE reason[k]
    BY <1>1, <1>2, <1>10 DEF Shaped
  <2>5. Sizes' = Sizes
    BY <1>4, UnitsStay
  <2> HIDE DEF i, size
  <2>6. NoRoomLeft'
    BY <1>1, <1>4, <1>10, <2>1, <2>2, <2>3, <2>4, <2>5 DEF NoRoomLeft, TightInv
  <2>7. FirstFit'
    BY <1>1, <1>10, <2>5 DEF FirstFit, TightInv
  <2>8. (\A b \in DOMAIN batches : PromptFits(batches[b]))'
    BY <1>1, <1>4, <1>10 DEF TightInv, PromptFits, Sizes
  <2> QED  BY <1>1, <1>10, <2>6, <2>7, <2>8 DEF TightInv
<1> QED  BY <1>7, <1>8, <1>9, <1>10 DEF Place

LEMMA PackNext == PackInv /\ [Next]_vars => PackInv'
<1> SUFFICES ASSUME PackInv, [Next]_vars PROVE PackInv'
  OBVIOUS
<1>1. FateInv /\ Shaped /\ TightInv /\ Sorted(units, order)
  BY DEF PackInv, FateInv
<1>2. FateInv'
  BY <1>1, FateNext
<1>3. units' = units /\ order' = order
  BY DEF Next, Place, StartReview, SkipBatch, SendBatch, BatchFails, BatchAnswers, Return, vars
<1>4. Sorted(units, order)'
  BY <1>1, <1>3
<1>5. CASE Place
  BY <1>2, <1>4, <1>5, PlaceKeepsTight DEF PackInv
<1>6. ASSUME NEW why \in Reasons \ LeftOut, NotReviewed(why), batches' = batches
      PROVE  TightInv'
  <2>1. \A i \in DOMAIN units : reason'[i] = "budget" => reason[i] = "budget"
    BY <1>6 DEF NotReviewed, LeftOut
  <2> QED  BY <1>1, <1>3, <1>6, <2>1, TightStays
<1>7. CASE SkipBatch \/ BatchFails
  <2>1. \E why \in Reasons \ LeftOut : NotReviewed(why)
    BY <1>7 DEF SkipBatch, BatchFails, Reasons, LeftOut
  <2>2. batches' = batches
    BY <1>7 DEF SkipBatch, BatchFails
  <2> QED  BY <1>2, <1>4, <1>6, <2>1, <2>2 DEF PackInv
<1>8. CASE StartReview \/ SendBatch \/ BatchAnswers \/ Return \/ UNCHANGED vars
  <2>1. batches' = batches /\ reason' = reason
    BY <1>8 DEF StartReview, SendBatch, BatchAnswers, Return, vars
  <2>2. TightInv'
    BY <1>1, <1>3, <2>1, TightStays
  <2> QED  BY <1>2, <1>4, <2>2 DEF PackInv
<1> QED  BY <1>5, <1>7, <1>8 DEF Next

LEMMA PackInit == Init => PackInv
<1> SUFFICES ASSUME Init PROVE PackInv
  OBVIOUS
<1>1. FateInv /\ Sorted(units, order) /\ batches = <<>> /\ reason = [i \in DOMAIN units |-> "none"]
  BY FateInit DEF Init
<1>2. Len(batches) = 0 /\ DOMAIN batches = {}
  BY <1>1
<1>3. TightInv
  BY <1>1, <1>2, ReviewAssumption DEF TightInv, FirstFit, NoRoomLeft
<1> QED  BY <1>1, <1>3 DEF PackInv

LEMMA PackAlways == Spec => []PackInv
BY PackInit, PackNext, PTL DEF Spec

\* Prompts keep to the limits of calls, units and tokens and are packed tight (plan_batches),
\* for any units, sizes, limits and budgets.
THEOREM PackingSound == Spec => []PromptsPacked
<1>1. PackInv => PromptsPacked
  <2> SUFFICES ASSUME PackInv PROVE PromptsPacked
    OBVIOUS
  <2>1. Shaped /\ TightInv /\ FateInv
    BY DEF PackInv, FateInv
  <2>2. DOMAIN units = 1..Len(units) /\ Len(units) \in Nat /\ DOMAIN batches = 1..Len(batches)
    BY <2>1, ShapedFacts
  <2>3. \A i \in DOMAIN units : Sizes[i] = Fitted[units[i]].size
    BY <2>1, UnitFacts
  <2>4. \A b \in DOMAIN batches : batches[b].units \subseteq DOMAIN units
    BY <2>1 DEF TightInv, PromptFits
  <2>5. ASSUME NEW b \in DOMAIN batches
        PROVE  /\ Cardinality(batches[b].units) <= Lesser(MaxUnitsPerPrompt, Len(units))
                  \/ Cardinality(batches[b].units) = 1
               /\ batches[b].tokens = MapThenSumSet(LAMBDA i : Sizes[i], batches[b].units)
               /\ \/ batches[b].tokens <= Available
                  \/ \E i \in DOMAIN units :
                       /\ batches[b].units = {i} /\ ~FitsWhole(units[i])
                       /\ FitsCut(units[i], Fitted[units[i]].shown)
    <3>1. PromptFits(batches[b])
      BY <2>1 DEF TightInv
    <3>2. Cardinality(batches[b].units) <= Len(units)
      <4>1. IsFiniteSet(DOMAIN units) /\ Cardinality(DOMAIN units) = Len(units)
        <5> DEFINE n == Len(units)
        <5>1. n \in Nat /\ DOMAIN units = 1..n
          BY <2>2
        <5> HIDE DEF n
        <5>2. IsFiniteSet(1..n) /\ Cardinality(1..n) = IF 1 > n THEN 0 ELSE n - 1 + 1
          BY <5>1, FS_Interval
        <5>3. Cardinality(1..n) = n
          BY <5>1, <5>2
        <5> QED  BY <5>1, <5>2, <5>3 DEF n
      <4> QED  BY <2>4, <4>1, FS_Subset
    <3> QED  BY <3>1, <3>2 DEF PromptFits, SumOver, Lesser
  <2>6. \A a, b \in DOMAIN batches : a < b =>
           \A i \in batches[b].units : ~HasRoom(batches[a], Fitted[units[i]].size)
    BY <2>1, <2>3, <2>4 DEF TightInv, FirstFit
  <2>7. ASSUME NEW i \in DOMAIN units, reason[i] = "budget"
        PROVE  /\ Len(batches) = MaxCalls
               /\ \A b \in DOMAIN batches : ~HasRoom(batches[b], Fitted[units[i]].size)
               /\ \A j \in UNION {batches[b].units : b \in DOMAIN batches} :
                      Before(units, i, j) => Fitted[units[j]].size < Fitted[units[i]].size
    BY <2>1, <2>3, <2>4, <2>7 DEF TightInv, NoRoomLeft
  <2>8. Len(batches) <= MaxCalls
    BY <2>1 DEF TightInv
  <2> QED  BY <2>5, <2>6, <2>7, <2>8 DEF PromptsPacked
<1> QED  BY <1>1, PackAlways, PTL

\* "It never fakes a clean result" (README.md:40-41): a scan that says complete has asked
\* about every changed line of the units the cap left, and no more of a unit was cut than
\* must be, for any units, sizes and budgets (review_coverage, _shrink_to_fit).
THEOREM CompleteReviewSound == Spec => []CompleteIsEarned
<1>1. FateInv => CompleteIsEarned
  <2> SUFFICES ASSUME FateInv PROVE CompleteIsEarned
    OBVIOUS
  <2>1. Shaped /\ OneTurnEach /\ Packed /\ Reviewed
    BY DEF FateInv
  <2>2. /\ DOMAIN units = 1..Len(units) /\ Len(units) \in Nat
        /\ DOMAIN batches = 1..Len(batches) /\ Len(batches) \in Nat
        /\ \A i : Homes(batches, i) \subseteq DOMAIN batches
    BY <2>1, ShapedFacts
  <2>3. ASSUME pc = "done", ReviewStatus = "complete", NEW i \in DOMAIN units
        PROVE  /\ \E b \in 1..turn : i \in batches[b].units
               /\ i \in reviewed
               /\ (IF units[i].changed # {} THEN units[i].changed ELSE Lines(units[i]))
                      \subseteq Fitted[units[i]].shown
    <3>1. Len(units) # 0
      BY <2>2
    <3>2. /\ \A j \in DOMAIN units : reason[j] = "none"
          /\ \A j \in reviewed : ~Fitted[units[j]].partial
      BY <2>3, <3>1 DEF ReviewStatus
    <3>3. placed = Len(units) /\ turn = Len(batches)
      BY <2>1, <2>3 DEF Reviewed
    <3>4. PICK b \in Homes(batches, i) : TRUE
      <4>1. PICK n \in DOMAIN units : order[n] = i
        BY <2>1 DEF OneTurnEach
      <4>2. n <= placed
        BY <2>2, <3>3
      <4>3. reason[i] \notin LeftOut
        BY <3>2 DEF LeftOut
      <4> QED  BY <2>1, <4>1, <4>2, <4>3 DEF Packed
    <3>5. b \in 1..turn /\ i \in batches[b].units
      BY <2>2, <3>3, <3>4 DEF Homes
    <3>6. i \in reviewed
      BY <2>1, <3>2, <3>4, <3>5 DEF Reviewed
    <3>7. /\ IsUnit(units[i]) /\ ~Partial(units[i])
          /\ Fitted[units[i]].shown = Shown(units[i])
      <4>1. /\ IsUnit(units[i])
            /\ Fitted[units[i]] = [size |-> PromptSize(units[i]), tooLarge |-> TooLarge(units[i]),
                                   partial |-> Partial(units[i]), shown |-> Shown(units[i])]
        BY <2>1, UnitFacts
      <4>2. ~Fitted[units[i]].partial
        BY <3>2, <3>6
      <4>3. Fitted[units[i]].partial = Partial(units[i])
        BY <4>1
      <4>4. ~Partial(units[i])
        BY <4>2, <4>3
      <4>5. Fitted[units[i]].shown = Shown(units[i])
        BY <4>1
      <4> QED  BY <4>1, <4>4, <4>5
    <3>8. (IF units[i].changed # {} THEN units[i].changed ELSE Lines(units[i])) \subseteq Shown(units[i])
      BY <3>7, PlanOfUnit
    <3> QED  BY <3>5, <3>6, <3>7, <3>8
  <2>4. ASSUME placed > 0
        PROVE  LET u == units[order[placed]] IN
               /\ ~FitsWhole(u) /\ u.changed # {}
               /\ FittingRadii(u) # {} /\ FittingRadii(u) = 0..Max(FittingRadii(u))
               => Fitted[u].shown = Around(u, Max(FittingRadii(u)), Cardinality(u.changed))
    <3> DEFINE u == units[order[placed]]
               n == Len(u.cost)
               top == Max(FittingRadii(u))
    <3>1. order[placed] \in DOMAIN units
      BY <2>1, <2>2, <2>4 DEF Shaped
    <3>2. IsUnit(u) /\ Fitted[u].shown = Shown(u)
      <4>1. /\ IsUnit(u)
            /\ Fitted[u] = [size |-> PromptSize(u), tooLarge |-> TooLarge(u),
                            partial |-> Partial(u), shown |-> Shown(u)]
        BY <2>1, <3>1, UnitFacts
      <4> QED  BY <4>1
    <3>3. SUFFICES ASSUME ~FitsWhole(u), u.changed # {}, FittingRadii(u) # {}, FittingRadii(u) = 0..top
                   PROVE  Shown(u) = Around(u, top, Cardinality(u.changed))
      BY <3>2
    <3>4. n \in Nat
      BY <3>2, UnitLines
    <3>5. FittingRadii(u) \in SUBSET (0..n)
      BY DEF FittingRadii
    <3>6. top \in 0..n
      BY <3>3, <3>4, <3>5, MaxOfSome
    <3>7. \A r \in 0..n : r \in FittingRadii(u) <=> r <= top
      BY <3>3, <3>6
    <3>8. LargestFitting(0, n, FittingRadii(u)) = top
      <4> DEFINE radii == FittingRadii(u)
      <4>1. \A r \in 0..n : r \in radii <=> r <= top
        BY <3>7
      <4> HIDE DEF radii, top, n
      <4>2. LargestFitting(0, n, radii) = top
        BY <3>4, <3>6, <4>1, BisectionFindsLargest
      <4> QED  BY <4>2 DEF radii
    <3>9. FittingRadii(u) = {r \in 0..n : FitsCut(u, Around(u, r, Cardinality(u.changed)))}
      BY DEF FittingRadii
    <3> HIDE DEF top, u
    <3>10. CutLines(u) = Around(u, top, Cardinality(u.changed))
      <4>1. LargestFitting(0, n, {r \in 0..n : FitsCut(u, Around(u, r, Cardinality(u.changed)))}) = top
        BY <3>8, <3>9
      <4> QED  BY <3>3, <3>6, <4>1 DEF CutLines
    <3> QED  BY <3>3, <3>10 DEF Shown
  <2> QED  BY <2>3, <2>4 DEF CompleteIsEarned
<1> QED  BY <1>1, FateInit, FateNext, PTL DEF Spec

\* The calls that were made: one at most for every prompt dealt with.
CallsInv ==
    /\ dropped \in Nat /\ late \in BOOLEAN /\ calls \in Nat
    /\ calls <= turn \/ (pc = "call" /\ calls <= turn + 1)

\* Every variable keeps its type, and a scan makes no more calls than LLM_MAX_CALLS_PER_SCAN.
THEOREM UnitsTypeCorrect == Spec => []TypeOK
<1>1. Init => CallsInv
  <2> SUFFICES ASSUME Init PROVE CallsInv
    OBVIOUS
  <2>1. PICK n \in 0..MaxPlanned : dropped = n - Lesser(n, MaxUnits)
    BY DEF Init
  <2>2. dropped \in Nat
    BY <2>1, ReviewAssumption DEF Lesser
  <2> QED  BY <2>2 DEF Init, CallsInv
<1>2. PackInv /\ CallsInv /\ [Next]_vars => CallsInv'
  <2> SUFFICES ASSUME PackInv, CallsInv, [Next]_vars PROVE CallsInv'
    OBVIOUS
  <2>1. Shaped /\ turn \in Nat
    BY ShapedFacts DEF PackInv, FateInv, Shaped
  <2>2. CASE Place \/ StartReview \/ Return \/ UNCHANGED vars
    BY <2>1, <2>2 DEF CallsInv, Place, StartReview, Return, vars
  <2>3. CASE SkipBatch \/ SendBatch
    BY <2>1, <2>3 DEF CallsInv, SkipBatch, SendBatch
  <2>4. CASE BatchFails \/ BatchAnswers
    <3>1. /\ pc = "call" /\ pc' = "review" /\ turn' = turn + 1 /\ calls' = calls
          /\ late' \in {late, TRUE} /\ dropped' = dropped
      BY <2>4 DEF BatchFails, BatchAnswers
    <3>2. late' \in BOOLEAN
      BY <3>1, Zenon DEF CallsInv
    <3>3. dropped' \in Nat /\ calls' \in Nat /\ calls' <= turn'
      BY <2>1, <3>1 DEF CallsInv
    <3> QED  BY <3>2, <3>3, Zenon DEF CallsInv
  <2> QED  BY <2>2, <2>3, <2>4 DEF Next
<1>3. PackInv /\ CallsInv => TypeOK
  <2> SUFFICES ASSUME PackInv, CallsInv PROVE TypeOK
    OBVIOUS
  <2>1. Shaped /\ Reviewed /\ TightInv
    BY DEF PackInv, FateInv
  <2>2. PICK T : batches \in Seq(Prompts(DOMAIN units, T))
    BY <2>1 DEF Shaped
  <2>3. /\ DOMAIN batches = 1..Len(batches) /\ Len(batches) \in Nat
        /\ batches \in [1..Len(batches) -> Prompts(DOMAIN units, T)]
    BY <2>2, LenProperties
  <2>4. \A b \in 1..Len(batches) :
            batches[b] \in Prompts(DOMAIN units, T) /\ batches[b].tokens \in Nat
    BY <2>1, <2>3 DEF TightInv, PromptFits
  <2>5. \A b \in 1..Len(batches) : batches[b] \in Prompts(DOMAIN units, Nat)
    BY <2>4 DEF Prompts
  <2>6. batches \in Seq(Prompts(DOMAIN units, Nat))
    BY <2>3, <2>5, IsASeq
  <2>7. calls \in 0..MaxCalls
    <3>1. turn \in 0..Len(batches) /\ Len(batches) <= MaxCalls /\ (pc = "call" => turn < Len(batches))
      BY <2>1 DEF Shaped, Reviewed, TightInv
    <3> QED  BY <2>3, <3>1, ReviewAssumption DEF CallsInv
  <2> QED  BY <2>1, <2>6, <2>7 DEF TypeOK, Shaped, CallsInv, Prompts
<1> QED  BY <1>1, <1>2, <1>3, PackInit, PackNext, PTL DEF Spec
==============================================================================
