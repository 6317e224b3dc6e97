---------------------------- MODULE PRReviewProofs ----------------------------
(***************************************************************************)
(* The audit loop of PRReview for any files, budgets and candidates: types,*)
(* the call budget of the prompts not sent yet, the partition of the files *)
(* into reviewed and not reviewed, what the counters count, and what the   *)
(* status says.                                                            *)
(***************************************************************************)
EXTENDS PRReview, FiniteSetTheorems, TLAPS

\* The while loop is entered only with a call to spare for every later prompt, and
\* a call in flight has left `spare` more than those.
LoopFits ==
    /\ call = "audit" => /\ pc = "audit" /\ open /\ chunk <= nChunks
                         /\ spare = callsLeft - (nChunks - chunk)
                         /\ spare >= 0 /\ roundsLeft <= spare
    /\ call = "verify" => pc = "verify"
    /\ open => pc = "audit" /\ chunk <= nChunks
    /\ chunk >= 1

\* Calls made and calls left are the budget, and what is left covers the prompts
\* from this one on (from the next one on while this one's call is in flight).
BudgetFits ==
    /\ auditCalls + callsLeft = MaxAuditCalls
    /\ pc = "plan" => chunk = 1 /\ callsLeft = MaxAuditCalls
    /\ pc = "audit" /\ chunk <= nChunks =>
          callsLeft >= nChunks - chunk + (IF call = "audit" THEN 0 ELSE 1)

BudgetInv == TypeOK /\ LoopFits /\ BudgetFits

LEMMA BudgetInit == Init => BudgetInv
<1> SUFFICES ASSUME Init PROVE BudgetInv
  OBVIOUS
<1>1. TypeOK
  <2>1. /\ pc = "plan" /\ chunk = 1 /\ call = "none" /\ callsLeft = MaxAuditCalls
        /\ auditCalls = 0 /\ verifierCalls = 0 /\ spare = 0 /\ roundsLeft = 0
        /\ roundsUsed = 0 /\ nChunks = 0 /\ place = 0
    BY DEF Init
  <2>2. open \in BOOLEAN /\ forceFinal \in BOOLEAN /\ answered \in BOOLEAN /\ late \in BOOLEAN
    BY Zenon DEF Init
  <2>3. clipped = {} /\ reviewed = {} /\ found = {} /\ heard = {} /\ broken = {}
    BY DEF Init
  <2>4. chunkOf \in [Files -> Nat] /\ stats \in [Counted -> Nat]
    BY DEF Init
  <2>5. /\ reason \in [Files -> Reasons \cup {"none"}]
        /\ cstatus \in [Cands -> CandStatuses]
        /\ cwhy \in [Cands -> CallFailures \cup {"none", "budget"}]
    BY DEF Init, CandStatuses
  <2>6. QED
    BY <2>1, <2>2, <2>3, <2>4, <2>5, BudgetAssumption DEF TypeOK
<1>2. LoopFits /\ BudgetFits
  BY BudgetAssumption DEF Init, LoopFits, BudgetFits
<1>3. QED
  BY <1>1, <1>2 DEF BudgetInv

LEMMA PlanFits ==
  ASSUME BudgetInv, pc = "plan", pc' = "audit", NEW n \in 0..MaxAuditCalls, nChunks' = n,
         UNCHANGED <<chunk, open, call, callsLeft, auditCalls>>
  PROVE  LoopFits' /\ BudgetFits'
<1>1. call = "none" /\ ~open /\ chunk = 1 /\ callsLeft = MaxAuditCalls
      /\ auditCalls + callsLeft = MaxAuditCalls
  BY DEF BudgetInv, TypeOK, LoopFits, BudgetFits
<1>2. LoopFits'
  BY <1>1 DEF LoopFits
<1>3. BudgetFits'
  BY <1>1, BudgetAssumption DEF BudgetFits
<1>4. QED
  BY <1>2, <1>3

LEMMA PlanStep ==
  ASSUME BudgetInv, PlanAudit
  PROVE  BudgetInv' /\ (\A f \in Files : chunkOf'[f] \in 0..nChunks')
<1> USE BudgetAssumption
<1>1. PICK n \in 0..MaxAuditCalls, place_of \in [Files -> 0..MaxAuditCalls],
           tooLarge \in SUBSET Files, cut \in SUBSET Files :
        LET left == {f \in Files : place_of[f] = 0} IN
        /\ {place_of[f] : f \in Files \ left} = 1..n
        /\ tooLarge \subseteq left
        /\ left # tooLarge => n = MaxAuditCalls
        /\ cut \subseteq Files \ left
        /\ chunkOf' = place_of
        /\ nChunks' = n
        /\ clipped' = cut
        /\ reason' = [f \in Files |-> IF f \in tooLarge THEN "too_large"
                                      ELSE IF f \in left THEN "budget" ELSE "none"]
  BY DEF PlanAudit
<1>2. chunkOf' \in [Files -> Nat] /\ nChunks' \in Nat /\ nChunks' <= MaxAuditCalls
  BY <1>1
<1>3. clipped' \subseteq Files /\ reason' \in [Files -> Reasons \cup {"none"}]
  BY <1>1 DEF Reasons
<1>4. /\ pc = "plan" /\ pc' = "audit"
      /\ UNCHANGED <<chunk, open, call, callsLeft, auditCalls, reviewed, found, heard,
                   broken, late, loopVars, verifyVars>>
  BY DEF PlanAudit
<1>5. TypeOK'
  BY <1>2, <1>3, <1>4 DEF BudgetInv, TypeOK, loopVars, verifyVars
<1>6. LoopFits' /\ BudgetFits'
  BY <1>1, <1>4, PlanFits DEF loopVars
<1>7. ASSUME NEW f \in Files PROVE chunkOf'[f] \in 0..nChunks'
  <2>1. CASE chunkOf'[f] = 0
    BY <2>1, <1>2
  <2>2. CASE chunkOf'[f] # 0
    <3>1. chunkOf'[f] \in 1..nChunks'
      BY <1>1, <2>2
    <3>2. QED
      BY <3>1, <1>2
  <2>3. QED
    BY <2>1, <2>2
<1>8. QED
  BY <1>5, <1>6, <1>7 DEF BudgetInv

LEMMA CloseType ==
  ASSUME BudgetInv, NEW ok \in BOOLEAN, NEW why \in Reasons \cup {"none"}, Close(ok, why)
  PROVE  /\ reviewed' \subseteq Files /\ reason' \in [Files -> Reasons \cup {"none"}]
         /\ chunk' \in Nat /\ open' \in BOOLEAN
         /\ spare' \in Int /\ roundsLeft' \in Int /\ roundsUsed' \in Nat
         /\ forceFinal' \in BOOLEAN /\ answered' \in BOOLEAN
<1>1. TypeOK
  BY DEF BudgetInv
<1>2. reviewed' \subseteq Files
  BY <1>1 DEF Close, TypeOK, ChunkFiles
<1>3. reason' \in [Files -> Reasons \cup {"none"}]
  <2>1. CASE ok
    BY <1>1, <2>1 DEF Close, TypeOK
  <2>2. CASE ~ok
    BY <1>1, <2>2 DEF Close, TypeOK
  <2>3. QED
    BY <2>1, <2>2
<1>4. chunk' \in Nat /\ spare' \in Int /\ roundsLeft' \in Int /\ roundsUsed' \in Nat
  BY <1>1 DEF Close, TypeOK
<1>5. open' \in BOOLEAN /\ forceFinal' \in BOOLEAN /\ answered' \in BOOLEAN
  BY Zenon DEF Close
<1>6. QED
  BY <1>2, <1>3, <1>4, <1>5

LEMMA CloseFits ==
  ASSUME BudgetInv, NEW ok, NEW why, Close(ok, why), pc = "audit", pc' = "audit",
         call' = "none", UNCHANGED <<nChunks, callsLeft, auditCalls>>, chunk <= nChunks,
         callsLeft >= nChunks - chunk
  PROVE  LoopFits' /\ BudgetFits'
BY BudgetAssumption DEF Close, BudgetInv, TypeOK, LoopFits, BudgetFits

LEMMA AskFits ==
  ASSUME BudgetInv, NEW ok \in BOOLEAN, NEW final \in BOOLEAN, AskAgain(ok, final),
         call = "audit", spare >= 1, pc' = pc,
         call' = "none", UNCHANGED <<nChunks, callsLeft, auditCalls>>
  PROVE  /\ LoopFits' /\ BudgetFits'
         /\ roundsUsed' \in Nat /\ forceFinal' \in BOOLEAN /\ answered' \in BOOLEAN
         /\ UNCHANGED <<reviewed, reason, chunk, open, spare, roundsLeft>>
<1> USE DEF AskAgain, BudgetInv, TypeOK
<1>1. roundsUsed' \in Nat /\ forceFinal' \in BOOLEAN /\ answered' \in BOOLEAN
  OBVIOUS
<1>2. LoopFits'
  BY DEF LoopFits
<1>3. BudgetFits'
  BY BudgetAssumption DEF LoopFits, BudgetFits
<1>4. QED
  BY <1>1, <1>2, <1>3

LEMMA SkipStep ==
  ASSUME BudgetInv, SkipChunk
  PROVE  BudgetInv' /\ Close(FALSE, "time_budget")
<1>1. late
  BY BudgetAssumption DEF SkipChunk, BudgetInv, TypeOK, BudgetFits
<1>2. Close(FALSE, "time_budget") /\ pc = "audit" /\ chunk <= nChunks /\ call = "none"
  BY <1>1 DEF SkipChunk
<1>3. callsLeft >= nChunks - chunk
  BY <1>2 DEF BudgetInv, BudgetFits, TypeOK
<1>4. /\ UNCHANGED <<pc, nChunks, call, callsLeft, auditCalls>>
      /\ UNCHANGED <<chunkOf, clipped, found, heard, broken, late, verifyVars>>
  BY DEF SkipChunk, planVars
<1>5. TypeOK'
  BY <1>2, <1>4, CloseType DEF BudgetInv, TypeOK, Reasons, CallFailures, verifyVars
<1>6. QED
  BY <1>2, <1>3, <1>4, <1>5, CloseFits DEF BudgetInv

LEMMA SendStep ==
  ASSUME BudgetInv, SendAudit
  PROVE  BudgetInv'
<1> USE DEF BudgetInv
<1>1. callsLeft >= nChunks - chunk + 1 /\ callsLeft >= 1
  BY DEF SendAudit, BudgetFits, TypeOK
<1>2. /\ spare' = Spare
      /\ roundsLeft' = IF forceFinal THEN 0 ELSE Least(ContextRounds - roundsUsed, Spare)
      /\ callsLeft' = callsLeft - 1
      /\ auditCalls' = auditCalls + 1
      /\ call = "none" /\ call' = "audit" /\ open' = TRUE /\ pc = "audit" /\ chunk <= nChunks
      /\ UNCHANGED <<pc, planVars, roundsUsed, forceFinal, answered, chunk, reviewed,
                     reason, found, heard, broken, late, verifyVars>>
  BY DEF SendAudit
<1>3. Spare \in Int /\ Spare >= 0
  BY <1>1 DEF Spare, TypeOK
<1>4. roundsLeft' \in Int /\ roundsLeft' <= spare'
  BY <1>2, <1>3, BudgetAssumption DEF Least, TypeOK
<1>5. TypeOK'
  BY <1>1, <1>2, <1>3, <1>4 DEF TypeOK, planVars, verifyVars
<1>6. LoopFits'
  BY <1>1, <1>2, <1>3, <1>4 DEF LoopFits, Spare, TypeOK, planVars
<1>7. BudgetFits'
  BY <1>1, <1>2, BudgetAssumption DEF BudgetFits, TypeOK, planVars
<1>8. QED
  BY <1>5, <1>6, <1>7

\* What an answer or a failure of an audit call does to the loop.
Outcome ==
    \/ \E ok \in BOOLEAN, why \in CallFailures \cup {"none"} :
          (ok \/ why # "none") /\ Close(ok, why)
    \/ spare >= 1 /\ \E ok \in BOOLEAN, final \in BOOLEAN : AskAgain(ok, final)

LEMMA AnswerOutcome ==
  ASSUME BudgetInv, AuditFails \/ AuditFindings \/ AuditWantsContext
  PROVE  /\ Outcome
         /\ call = "audit" /\ call' = "none"
         /\ heard' \subseteq Nat /\ broken' \subseteq Nat /\ found' \subseteq Cands
         /\ UNCHANGED <<pc, planVars, callsLeft, auditCalls, late, verifyVars>>
<1> USE DEF BudgetInv, TypeOK, LoopFits
<1>1. CASE AuditFails
  <2>1. \E ok \in BOOLEAN, why \in CallFailures \cup {"none"} : (ok \/ why # "none") /\ Close(ok, why)
    BY <1>1 DEF AuditFails, CallFailures
  <2>2. QED
    BY <1>1, <2>1 DEF AuditFails, Outcome
<1>2. CASE AuditFindings
  <2>1. Close(TRUE, "none") \/ (roundsLeft > 0 /\ AskAgain(TRUE, forceFinal))
    BY <1>2 DEF AuditFindings
  <2>2. call = "audit" /\ call' = "none"
    BY <1>2 DEF AuditFindings
  <2>3. roundsLeft > 0 => spare >= 1
    BY <2>2
  <2>4. forceFinal \in BOOLEAN
    OBVIOUS
  <2>5. Outcome
    BY <2>1, <2>3, <2>4 DEF Outcome
  <2>6. QED
    BY <1>2, <2>5 DEF AuditFindings
<1>3. CASE AuditWantsContext
  <2>1. call = "audit" /\ call' = "none"
    BY <1>3 DEF AuditWantsContext
  <2>2. roundsLeft > 0 => spare >= 1 /\ ~(spare - 1 < 0)
    BY <2>1
  <2>3. \/ Close(TRUE, "none")
        \/ Close(answered, "time_budget")
        \/ roundsLeft > 0 /\ AskAgain(answered, forceFinal)
        \/ roundsLeft > 0 /\ AskAgain(answered, TRUE)
    BY <1>3, <2>2 DEF AuditWantsContext
  <2>4. Outcome
    BY <2>2, <2>3 DEF Outcome, CallFailures
  <2>5. QED
    BY <1>3, <2>4 DEF AuditWantsContext
<1>4. QED
  BY <1>1, <1>2, <1>3

LEMMA AnswerStep ==
  ASSUME BudgetInv, AuditFails \/ AuditFindings \/ AuditWantsContext
  PROVE  BudgetInv'
<1>1. /\ Outcome
      /\ call = "audit" /\ call' = "none"
      /\ heard' \subseteq Nat /\ broken' \subseteq Nat /\ found' \subseteq Cands
      /\ UNCHANGED <<pc, chunkOf, nChunks, clipped, callsLeft, auditCalls, late, verifyVars>>
  BY AnswerOutcome DEF planVars
<1>2. pc = "audit" /\ chunk <= nChunks /\ callsLeft >= nChunks - chunk
  BY <1>1 DEF BudgetInv, LoopFits, BudgetFits, TypeOK
<1>3. CASE \E ok \in BOOLEAN, why \in CallFailures \cup {"none"} : Close(ok, why)
  <2>1. PICK ok \in BOOLEAN, why \in CallFailures \cup {"none"} : Close(ok, why)
    BY <1>3
  <2>2. LoopFits' /\ BudgetFits'
    BY <1>1, <1>2, <2>1, CloseFits
  <2>3. TypeOK'
    BY <1>1, <2>1, CloseType DEF BudgetInv, TypeOK, Reasons, verifyVars
  <2>4. QED
    BY <2>2, <2>3 DEF BudgetInv
<1>4. CASE spare >= 1 /\ \E ok \in BOOLEAN, final \in BOOLEAN : AskAgain(ok, final)
  <2>1. PICK ok \in BOOLEAN, final \in BOOLEAN : AskAgain(ok, final)
    BY <1>4
  <2>2. /\ LoopFits' /\ BudgetFits'
        /\ roundsUsed' \in Nat /\ forceFinal' \in BOOLEAN /\ answered' \in BOOLEAN
        /\ UNCHANGED <<reviewed, reason, chunk, open, spare, roundsLeft>>
    BY <1>1, <1>4, <2>1, AskFits
  <2>3. TypeOK'
    BY <1>1, <2>2 DEF BudgetInv, TypeOK, verifyVars
  <2>4. QED
    BY <2>2, <2>3 DEF BudgetInv
<1>5. QED
  BY <1>1, <1>3, <1>4 DEF Outcome
------------------------------------------------------------------------------
(* The verifier's half leaves the audit's variables alone.                  *)

LEMMA FilterStep ==
  ASSUME BudgetInv, Filter
  PROVE  BudgetInv'
<1>1. PICK kept \in Keeps(found) :
        LET screened == [x \in Cands |-> IF x \in found THEN Screen(x, kept) ELSE "none"] IN
        /\ cstatus' = screened
        /\ stats' = [k \in Counted |-> Cardinality({x \in Cands : screened[x] = k})]
  BY DEF Filter
<1> DEFINE screened == [x \in Cands |-> IF x \in found THEN Screen(x, kept) ELSE "none"]
<1>2. cstatus' \in [Cands -> CandStatuses]
  BY <1>1 DEF Screen, CandStatuses, Counted
<1>3. ASSUME NEW k \in Counted PROVE Cardinality({x \in Cands : screened[x] = k}) \in Nat
  <2>1. IsFiniteSet({x \in Cands : screened[x] = k})
    BY DataAssumption, FS_Subset
  <2>2. QED
    BY <2>1, FS_CardinalityType
<1>4. stats' \in [Counted -> Nat]
  BY <1>1, <1>3
<1>5. /\ pc = "audit" /\ call = "none" /\ chunk > nChunks /\ pc' = "verify"
      /\ UNCHANGED <<planVars, call, loopVars, auditVars, late, place, cwhy, verifierCalls>>
  BY DEF Filter
<1>6. TypeOK'
  BY <1>2, <1>4, <1>5 DEF BudgetInv, TypeOK, planVars, loopVars, auditVars
<1>7. LoopFits' /\ BudgetFits'
  BY <1>5 DEF BudgetInv, TypeOK, LoopFits, BudgetFits, planVars, loopVars, auditVars
<1>8. QED
  BY <1>6, <1>7 DEF BudgetInv

LEMMA SettleType ==
  ASSUME TypeOK, NEW c \in Cands, NEW st \in Counted, Settle(c, st)
  PROVE  cstatus' \in [Cands -> CandStatuses] /\ stats' \in [Counted -> Nat]
BY DEF Settle, TypeOK, CandStatuses

LEMMA DecisionCounted ==
  ASSUME NEW verdict \in Verdicts, NEW conf, NEW evidence
  PROVE  Decision(verdict, conf, evidence) \in Counted
BY DEF Decision, Counted, Verdicts

Verifying == SkipVerify \/ SendVerify \/ VerifyFails \/ VerifyAnswers

LEMMA VerifyingType ==
  ASSUME BudgetInv, Verifying
  PROVE  /\ cstatus' \in [Cands -> CandStatuses]
         /\ cwhy' \in [Cands -> CallFailures \cup {"none", "budget"}]
         /\ stats' \in [Counted -> Nat]
         /\ place' \in Nat /\ verifierCalls' \in Nat
<1> USE DEF BudgetInv
<1>0. TypeOK
  OBVIOUS
<1>1. CASE SkipVerify
  <2>1. PICK c \in Waiting : Unverified(c, IF VerifierFull THEN "budget" ELSE "time_budget")
    BY <1>1 DEF SkipVerify
  <2>2. c \in Cands /\ Settle(c, "unverified")
    BY <2>1 DEF Waiting, Unverified
  <2>3. cstatus' \in [Cands -> CandStatuses] /\ stats' \in [Counted -> Nat]
    BY <1>0, <2>2, SettleType DEF Counted
  <2>4. cwhy' \in [Cands -> CallFailures \cup {"none", "budget"}]
    BY <1>0, <2>1 DEF Unverified, TypeOK, CallFailures
  <2>5. QED
    BY <1>0, <1>1, <2>3, <2>4 DEF SkipVerify, TypeOK
<1>2. CASE SendVerify
  BY <1>0, <1>2 DEF SendVerify, TypeOK, Waiting, CandStatuses
<1>3. CASE VerifyFails
  <2>1. PICK c \in Asked, why \in CallFailures : Unverified(c, why)
    BY <1>3 DEF VerifyFails
  <2>2. c \in Cands /\ Settle(c, "unverified")
    BY <2>1 DEF Asked, Unverified
  <2>3. cstatus' \in [Cands -> CandStatuses] /\ stats' \in [Counted -> Nat]
    BY <1>0, <2>2, SettleType DEF Counted
  <2>4. cwhy' \in [Cands -> CallFailures \cup {"none", "budget"}]
    BY <1>0, <2>1 DEF Unverified, TypeOK
  <2>5. QED
    BY <1>0, <1>3, <2>3, <2>4 DEF VerifyFails, TypeOK
<1>4. CASE VerifyAnswers
  <2>1. PICK c \in Asked, verdict \in Verdicts, conf \in Confidences, evidence \in BOOLEAN :
           Settle(c, Decision(verdict, conf, evidence))
    BY <1>4 DEF VerifyAnswers
  <2>2. cstatus' \in [Cands -> CandStatuses] /\ stats' \in [Counted -> Nat]
    BY <1>0, <2>1, SettleType, DecisionCounted DEF Asked
  <2>3. QED
    BY <1>0, <1>4, <2>2 DEF VerifyAnswers, TypeOK
<1>5. QED
  BY <1>1, <1>2, <1>3, <1>4 DEF Verifying

LEMMA VerifyingFrame ==
  ASSUME BudgetInv, Verifying
  PROVE  /\ pc = "verify" /\ call' \in {"none", "verify"}
         /\ UNCHANGED <<pc, planVars, loopVars, auditVars, late>>
BY DEF Verifying, SkipVerify, SendVerify, VerifyFails, VerifyAnswers, BudgetInv, LoopFits

LEMMA VerifyingStep ==
  ASSUME BudgetInv, Verifying
  PROVE  BudgetInv'
<1>1. /\ pc = "verify" /\ call' \in {"none", "verify"}
      /\ UNCHANGED <<pc, planVars, loopVars, auditVars, late>>
  BY VerifyingFrame
<1>2. TypeOK'
  BY <1>1, VerifyingType DEF BudgetInv, TypeOK, planVars, loopVars, auditVars
<1>3. LoopFits' /\ BudgetFits'
  BY <1>1 DEF BudgetInv, TypeOK, LoopFits, BudgetFits, planVars, loopVars, auditVars
<1>4. QED
  BY <1>2, <1>3 DEF BudgetInv

LEMMA BudgetStep == BudgetInv /\ [Next]_vars => BudgetInv'
<1> SUFFICES ASSUME BudgetInv, [Next]_vars PROVE BudgetInv'
  OBVIOUS
<1>1. CASE PlanAudit
  BY <1>1, PlanStep
<1>2. CASE SkipChunk
  BY <1>2, SkipStep
<1>3. CASE SendAudit
  BY <1>3, SendStep
<1>4. CASE AuditFails \/ AuditFindings \/ AuditWantsContext
  BY <1>4, AnswerStep
<1>5. CASE Filter
  BY <1>5, FilterStep
<1>6. CASE Verifying
  BY <1>6, VerifyingStep
<1>7. CASE Return
  BY <1>7 DEF Return, BudgetInv, TypeOK, LoopFits, BudgetFits, planVars, loopVars, auditVars, verifyVars
<1>8. CASE TimeUp
  BY <1>8 DEF TimeUp, BudgetInv, TypeOK, LoopFits, BudgetFits, planVars, loopVars, auditVars, verifyVars
<1>9. CASE UNCHANGED vars
  BY <1>9 DEF vars, BudgetInv, TypeOK, LoopFits, BudgetFits
<1>10. QED
  BY <1>1, <1>2, <1>3, <1>4, <1>5, <1>6, <1>7, <1>8, <1>9 DEF Next, Step, Verifying

LEMMA BudgetAlways == Spec => []BudgetInv
BY BudgetInit, BudgetStep, PTL DEF Spec

\* Every variable keeps its type, for any files, budgets and candidates.
THEOREM ReviewTypeCorrect == Spec => []TypeOK
<1>1. BudgetInv => TypeOK
  BY DEF BudgetInv
<1>2. QED
  BY <1>1, BudgetAlways, PTL

\* However the context rounds went, every prompt not sent yet still has a call and
\* the calls stay within PR_REVIEW_MAX_AUDIT_CALLS.
THEOREM PromptsKeepTheirCall == Spec => []LaterChunksHaveCalls
<1>1. BudgetInv => LaterChunksHaveCalls
  BY DEF BudgetInv, BudgetFits, LoopFits, LaterChunksHaveCalls, TypeOK
<1>2. QED
  BY <1>1, BudgetAlways, PTL
------------------------------------------------------------------------------
(* Coverage: the prompts before `chunk` are accounted for, the others are not. *)

Covered(f) ==
    /\ chunkOf[f] \in 0..nChunks
    /\ chunkOf[f] < chunk => (f \in reviewed <=> reason[f] = "none")
    /\ chunkOf[f] >= chunk => f \notin reviewed /\ reason[f] = "none"
    /\ reason[f] = "budget" => chunkOf[f] = 0

CoverInv ==
    /\ pc = "plan" => reviewed = {} /\ \A f \in Files : reason[f] = "none"
    /\ pc # "plan" => \A f \in Files : Covered(f)
    /\ pc \in {"verify", "done"} => chunk > nChunks

LEMMA CoverInit == Init => CoverInv
BY DEF Init, CoverInv

LEMMA CoverPlan ==
  ASSUME BudgetInv, CoverInv, PlanAudit
  PROVE  CoverInv'
<1> USE BudgetAssumption
<1>1. /\ \A f \in Files : reason'[f] = "none" <=> chunkOf'[f] # 0
      /\ \A f \in Files : reason'[f] = "budget" => chunkOf'[f] = 0
  BY DEF PlanAudit
<1>2. pc = "plan" /\ pc' = "audit" /\ chunk' = chunk /\ reviewed' = reviewed
  BY DEF PlanAudit
<1>3. chunk = 1 /\ reviewed = {}
  BY <1>2 DEF BudgetInv, BudgetFits, CoverInv
<1>4. \A f \in Files : chunkOf'[f] \in 0..nChunks'
  BY PlanStep
<1>5. \A f \in Files : Covered(f)'
  <2> TAKE f \in Files
  <2>1. chunkOf'[f] \in 0..nChunks'
    BY <1>4
  <2>2. (chunkOf'[f] < 1 <=> chunkOf'[f] = 0) /\ (chunkOf'[f] >= 1 <=> chunkOf'[f] # 0)
    BY <2>1
  <2>3. chunk' = 1 /\ reviewed' = {}
    BY <1>2, <1>3
  <2>4. QED
    BY <1>1, <2>1, <2>2, <2>3 DEF Covered
<1>6. QED
  BY <1>2, <1>5 DEF CoverInv

LEMMA CoverClose ==
  ASSUME BudgetInv, CoverInv, pc = "audit", pc' = "audit", UNCHANGED <<chunkOf, nChunks>>,
         NEW ok \in BOOLEAN, NEW why \in CallFailures \cup {"none"}, ok \/ why # "none",
         Close(ok, why)
  PROVE  CoverInv'
<1>1. \A f \in Files : chunkOf[f] \in Nat
  BY DEF BudgetInv, TypeOK
<1>2. chunk \in Nat /\ chunk' = chunk + 1 /\ reason \in [Files -> Reasons \cup {"none"}]
  BY DEF Close, BudgetInv, TypeOK
<1>3. \A f \in Files : Covered(f)'
  <2> TAKE f \in Files
  <2>1. Covered(f)
    BY DEF CoverInv
  <2>2. CASE chunkOf[f] = chunk
    <3>1. f \in ChunkFiles
      BY <2>2 DEF ChunkFiles
    <3>2. f \notin reviewed /\ reason[f] = "none"
      BY <2>1, <2>2, <1>1, <1>2 DEF Covered
    <3>3. IF ok THEN f \in reviewed' /\ reason'[f] = "none"
                ELSE f \notin reviewed' /\ reason'[f] = why
      BY <3>1, <3>2 DEF Close
    <3>4. chunkOf'[f] < chunk' /\ ~(chunkOf'[f] >= chunk')
      BY <2>2, <1>1, <1>2
    <3>5. reason'[f] # "budget"
      BY <3>3 DEF CallFailures
    <3>6. QED
      BY <2>1, <3>3, <3>4, <3>5 DEF Covered
  <2>3. CASE chunkOf[f] # chunk
    <3>1. f \notin ChunkFiles
      BY <2>3 DEF ChunkFiles
    <3>2. (f \in reviewed' <=> f \in reviewed) /\ reason'[f] = reason[f]
      BY <3>1, <1>2 DEF Close
    <3>3. (chunkOf'[f] < chunk' <=> chunkOf[f] < chunk) /\ (chunkOf'[f] >= chunk' => chunkOf[f] >= chunk)
      BY <2>3, <1>1, <1>2
    <3>4. QED
      BY <2>1, <3>2, <3>3 DEF Covered
  <2>4. QED
    BY <2>2, <2>3
<1>4. QED
  BY <1>3 DEF CoverInv

LEMMA CoverSame ==
  ASSUME CoverInv, UNCHANGED <<chunkOf, nChunks, chunk, reviewed, reason>>,
         pc' = pc \/ (pc = "audit" /\ chunk > nChunks /\ pc' = "verify")
         \/ (pc = "verify" /\ pc' = "done")
  PROVE  CoverInv'
BY DEF CoverInv, Covered

LEMMA CoverAnswer ==
  ASSUME BudgetInv, CoverInv, AuditFails \/ AuditFindings \/ AuditWantsContext
  PROVE  CoverInv'
<1>1. Outcome /\ call = "audit" /\ UNCHANGED <<pc, chunkOf, nChunks>>
  BY AnswerOutcome DEF planVars
<1>2. pc = "audit"
  BY <1>1 DEF BudgetInv, LoopFits
<1>3. CASE \E ok \in BOOLEAN, why \in CallFailures \cup {"none"} :
             (ok \/ why # "none") /\ Close(ok, why)
  BY <1>1, <1>2, <1>3, CoverClose
<1>4. CASE \E ok \in BOOLEAN, final \in BOOLEAN : AskAgain(ok, final)
  BY <1>1, <1>4, CoverSame DEF AskAgain
<1>5. QED
  BY <1>1, <1>3, <1>4 DEF Outcome

LEMMA CoverStep == BudgetInv /\ CoverInv /\ [Next]_vars => CoverInv'
<1> SUFFICES ASSUME BudgetInv, CoverInv, [Next]_vars PROVE CoverInv'
  OBVIOUS
<1>1. CASE PlanAudit
  BY <1>1, CoverPlan
<1>2. CASE SkipChunk
  <2>1. Close(FALSE, "time_budget")
    BY <1>2, SkipStep
  <2>2. pc = "audit" /\ pc' = "audit" /\ UNCHANGED <<chunkOf, nChunks>>
    BY <1>2 DEF SkipChunk, planVars
  <2>3. QED
    BY <2>1, <2>2, CoverClose DEF CallFailures
<1>3. CASE AuditFails \/ AuditFindings \/ AuditWantsContext
  BY <1>3, CoverAnswer
<1>4. CASE SendAudit
  BY <1>4, CoverSame DEF SendAudit, planVars
<1>5. CASE Filter
  BY <1>5, CoverSame DEF Filter, planVars, auditVars
<1>6. CASE Verifying
  BY <1>6, VerifyingFrame, CoverSame DEF planVars, auditVars
<1>7. CASE Return
  BY <1>7, CoverSame DEF Return, planVars, auditVars
<1>8. CASE TimeUp
  BY <1>8, CoverSame DEF TimeUp, planVars, auditVars
<1>9. CASE UNCHANGED vars
  BY <1>9, CoverSame DEF vars
<1>10. QED
  BY <1>1, <1>2, <1>3, <1>4, <1>5, <1>6, <1>7, <1>8, <1>9 DEF Next, Step, Verifying

LEMMA CoverAlways == Spec => [](BudgetInv /\ CoverInv)
<1>1. Init => BudgetInv /\ CoverInv
  BY BudgetInit, CoverInit
<1>2. BudgetInv /\ CoverInv /\ [Next]_vars => BudgetInv' /\ CoverInv'
  BY BudgetStep, CoverStep
<1>3. QED
  BY <1>1, <1>2, PTL DEF Spec

\* A returned review has each file either among the reviewed or, with a reason,
\* among the not reviewed.
THEOREM CoverageSound == Spec => []CoverageIsPartition
<1>1. BudgetInv /\ CoverInv => CoverageIsPartition
  <2> SUFFICES ASSUME BudgetInv, CoverInv, pc = "done", NEW f \in Files
               PROVE  f \in reviewed <=> reason[f] = "none"
    BY DEF CoverageIsPartition
  <2>1. Covered(f) /\ chunk > nChunks
    BY DEF CoverInv
  <2>2. chunkOf[f] < chunk
    BY <2>1 DEF Covered, BudgetInv, TypeOK
  <2>3. QED
    BY <2>1, <2>2 DEF Covered
<1>2. QED
  BY <1>1, CoverAlways, PTL

\* No prompt that was planned is given up for lack of calls.
THEOREM PlannedIsSent == Spec => []PlannedNeverOutOfBudget
<1>1. BudgetInv /\ CoverInv => PlannedNeverOutOfBudget
  <2> SUFFICES ASSUME BudgetInv, CoverInv, NEW f \in Files, chunkOf[f] > 0
               PROVE  reason[f] # "budget"
    BY DEF PlannedNeverOutOfBudget
  <2>1. CASE pc = "plan"
    BY <2>1 DEF CoverInv
  <2>2. CASE pc # "plan"
    BY <2>2 DEF CoverInv, Covered
  <2>3. QED
    BY <2>1, <2>2
<1>2. QED
  BY <1>1, CoverAlways, PTL
------------------------------------------------------------------------------
(* What a reviewed file rests on: a prompt of its own and an answer to it.   *)

HeardInv ==
    /\ nChunks > 0 => Files # {}
    /\ found # {} => Files # {}
    /\ answered => chunk \in heard
    /\ \A f \in reviewed : chunkOf[f] \in heard

(* The candidates: one is asked about at a time, in the order of severity,   *)
(* and the counters follow the statuses.                                     *)

Verifiable == {"to_verify", "asked"}
SentStatuses == Verdicts \cup {"asked", "review_suggested", "below_min_confidence"}
Sent(c) == cstatus[c] \in SentStatuses
LeftOver(c) == cstatus[c] = "to_verify" \/ cwhy[c] = "budget"

\* No status before the filter, and after it one for each candidate found.
StatusesBegin ==
    /\ pc \in {"plan", "audit"} => \A c \in Cands : cstatus[c] = "none" /\ cwhy[c] = "none"
    /\ pc \in {"verify", "done"} => \A c \in Cands : cstatus[c] = "none" <=> c \notin found

\* Only the candidate of the call in flight is "asked"; none waits at the end.
OneAsked ==
    /\ \A c \in Cands : cstatus[c] = "asked" => call = "verify"
    /\ \A c, d \in Cands : cstatus[c] = "asked" /\ cstatus[d] = "asked" => c = d
    /\ pc = "done" => Waiting = {}

\* For each candidate found, one that makes the same claim was kept.
ClaimKept ==
    pc \in {"verify", "done"} =>
        \A c \in found : \E d \in found :
            /\ KeyOf[d] = KeyOf[c] /\ Severity[d] <= Severity[c]
            /\ cstatus[d] \notin {"none", "merged"}

\* What was sent is at least as severe as what waits or was given up for budget.
SevereFirst ==
    /\ \A c \in Cands : cwhy[c] = "budget" => VerifierFull
    /\ \A c, d \in Cands : LeftOver(c) /\ Sent(d) => Severity[d] <= Severity[c]

CandInv == StatusesBegin /\ OneAsked /\ ClaimKept /\ SevereFirst

Tally(k) == {c \in Cands : cstatus[c] = k}

CountInv == pc \in {"verify", "done"} => \A k \in Counted : stats[k] = Cardinality(Tally(k))

LEMMA HeardInit == Init => HeardInv
BY DEF Init, HeardInv

LEMMA HeardPlan ==
  ASSUME CoverInv, HeardInv, PlanAudit
  PROVE  HeardInv'
<1>1. nChunks' > 0 => Files # {}
  <2>1. PICK n \in 0..MaxAuditCalls, place_of \in [Files -> 0..MaxAuditCalls] :
           /\ {place_of[f] : f \in Files \ {f \in Files : place_of[f] = 0}} = 1..n
           /\ nChunks' = n
    BY DEF PlanAudit
  <2>2. n > 0 => 1 \in 1..n
    BY BudgetAssumption
  <2>3. QED
    BY <2>1, <2>2
<1>2. UNCHANGED <<found, answered, chunk, heard, reviewed>> /\ pc = "plan"
  BY DEF PlanAudit, loopVars
<1>3. reviewed = {}
  BY <1>2 DEF CoverInv
<1>4. QED
  BY <1>1, <1>2, <1>3 DEF HeardInv

LEMMA HeardAnswer ==
  ASSUME BudgetInv, HeardInv, AuditFails \/ AuditFindings \/ AuditWantsContext
  PROVE  HeardInv'
<1>1. /\ call = "audit" /\ chunk <= nChunks /\ chunk >= 1 /\ nChunks > 0
      /\ UNCHANGED <<chunkOf, nChunks>>
  BY AnswerOutcome DEF BudgetInv, LoopFits, TypeOK, planVars
<1>2. Files # {}
  BY <1>1 DEF HeardInv
<1>3. /\ heard \subseteq heard'
      /\ \/ \E ok \in BOOLEAN : \E why : Close(ok, why) /\ (ok => chunk \in heard')
         \/ \E ok \in BOOLEAN : \E final : AskAgain(ok, final) /\ (ok => chunk \in heard')
  <2>1. answered \in BOOLEAN /\ (answered => chunk \in heard)
    BY DEF HeardInv, BudgetInv, TypeOK
  <2>2. CASE AuditFails
    BY <2>1, <2>2 DEF AuditFails
  <2>3. CASE AuditFindings
    <3>1. chunk \in heard' /\ heard \subseteq heard'
      BY <2>3 DEF AuditFindings
    <3>2. Close(TRUE, "none") \/ AskAgain(TRUE, forceFinal)
      BY <2>3 DEF AuditFindings
    <3>3. QED
      BY <3>1, <3>2
  <2>4. CASE AuditWantsContext
    <3>1. chunk \in heard' /\ heard \subseteq heard'
      BY <2>4 DEF AuditWantsContext
    <3>2. \/ Close(TRUE, "none") \/ Close(answered, "time_budget") \/ Close(answered, "budget")
          \/ AskAgain(answered, forceFinal) \/ AskAgain(answered, TRUE)
      BY <2>4 DEF AuditWantsContext
    <3>3. QED
      BY <2>1, <3>1, <3>2
  <2>5. QED
    BY <2>2, <2>3, <2>4
<1>4. CASE \E ok \in BOOLEAN : \E why : Close(ok, why) /\ (ok => chunk \in heard')
  <2>0. PICK ok \in BOOLEAN : \E why : Close(ok, why) /\ (ok => chunk \in heard')
    BY <1>4
  <2>1. PICK why : Close(ok, why) /\ (ok => chunk \in heard')
    BY <2>0
  <2>2. ~answered' /\ reviewed' = IF ok THEN reviewed \cup ChunkFiles ELSE reviewed
    BY <2>1 DEF Close
  <2>3. \A f \in reviewed' : chunkOf[f] \in heard'
    BY <1>3, <2>1, <2>2 DEF HeardInv, ChunkFiles
  <2>4. QED
    BY <1>1, <1>2, <2>2, <2>3 DEF HeardInv
<1>5. CASE \E ok \in BOOLEAN : \E final : AskAgain(ok, final) /\ (ok => chunk \in heard')
  <2>0. PICK ok \in BOOLEAN : \E final : AskAgain(ok, final) /\ (ok => chunk \in heard')
    BY <1>5
  <2>1. PICK final : AskAgain(ok, final) /\ (ok => chunk \in heard')
    BY <2>0
  <2>2. answered' = ok /\ chunk' = chunk /\ reviewed' = reviewed
    BY <2>1 DEF AskAgain
  <2>3. QED
    BY <1>1, <1>2, <1>3, <2>1, <2>2 DEF HeardInv
<1>6. QED
  BY <1>3, <1>4, <1>5

LEMMA HeardStep == BudgetInv /\ CoverInv /\ HeardInv /\ [Next]_vars => HeardInv'
<1> SUFFICES ASSUME BudgetInv, CoverInv, HeardInv, [Next]_vars PROVE HeardInv'
  OBVIOUS
<1>1. CASE PlanAudit
  BY <1>1, HeardPlan
<1>2. CASE SkipChunk
  <2>1. Close(FALSE, "time_budget")
    BY <1>2, SkipStep
  <2>2. ~answered' /\ reviewed' = reviewed
    BY <2>1 DEF Close
  <2>3. UNCHANGED <<nChunks, found, heard, chunkOf>>
    BY <1>2 DEF SkipChunk, planVars
  <2>4. QED
    BY <2>2, <2>3 DEF HeardInv
<1>3. CASE AuditFails \/ AuditFindings \/ AuditWantsContext
  BY <1>3, HeardAnswer
<1>4. CASE UNCHANGED <<nChunks, found, answered, chunk, heard, reviewed, chunkOf>>
  BY <1>4 DEF HeardInv
<1>5. CASE SendAudit
  BY <1>4, <1>5 DEF SendAudit, planVars
<1>6. CASE Filter \/ Return \/ TimeUp
  BY <1>4, <1>6 DEF Filter, Return, TimeUp, planVars, auditVars, loopVars
<1>7. CASE Verifying
  BY <1>4, <1>7, VerifyingFrame DEF planVars, auditVars, loopVars
<1>8. CASE UNCHANGED vars
  BY <1>4, <1>8 DEF vars
<1>9. QED
  BY <1>1, <1>2, <1>3, <1>5, <1>6, <1>7, <1>8 DEF Next, Step, Verifying
------------------------------------------------------------------------------

LEMMA CandInit == Init => CandInv /\ CountInv
BY DEF Init, CandInv, CountInv, StatusesBegin, OneAsked, ClaimKept, SevereFirst, Sent, LeftOver,
   SentStatuses, Verdicts

\* What the filter makes of the candidates.
LEMMA FilterScreens ==
  ASSUME BudgetInv, CandInv, Filter
  PROVE  /\ \A c \in Cands : cstatus'[c] \in {"none", "merged", "excluded",
                                              "below_audit_confidence", "to_verify"}
         /\ \A c \in Cands : cstatus'[c] = "none" <=> c \notin found
         /\ \A c \in found : \E d \in found :
               KeyOf[d] = KeyOf[c] /\ Severity[d] <= Severity[c]
               /\ cstatus'[d] \notin {"none", "merged"}
         /\ \A k \in Counted : stats'[k] = Cardinality(Tally(k)')
         /\ pc = "audit" /\ pc' = "verify" /\ UNCHANGED <<found, cwhy, place, call>>
<1>1. PICK kept \in Keeps(found) :
        LET screened == [x \in Cands |-> IF x \in found THEN Screen(x, kept) ELSE "none"] IN
        /\ cstatus' = screened
        /\ stats' = [k \in Counted |-> Cardinality({x \in Cands : screened[x] = k})]
  BY DEF Filter
<1>2. \A c \in Cands : cstatus'[c] = IF c \in found THEN Screen(c, kept) ELSE "none"
  BY <1>1
<1>3. \A c : Screen(c, kept) \in {"merged", "excluded", "below_audit_confidence", "to_verify"}
  BY DEF Screen
<1>4. found \subseteq Cands
  BY DEF BudgetInv, TypeOK
<1>5. ASSUME NEW c \in found
      PROVE  \E d \in found : KeyOf[d] = KeyOf[c] /\ Severity[d] <= Severity[c]
                              /\ cstatus'[d] \notin {"none", "merged"}
  <2>1. PICK k \in kept : KeyOf[k] = KeyOf[c] /\ ~Outranks(c, k)
    BY DEF Keeps
  <2>2. kept \subseteq found
    BY DEF Keeps
  <2>3. c \in Cands /\ k \in found /\ k \in Cands
    BY <1>4, <2>2
  <2>4. Severity[k] <= Severity[c]
    <3>1. Severity[k] \in 0..4 /\ Severity[c] \in 0..4
      BY <2>3, DataAssumption
    <3>2. ~(Severity[c] < Severity[k])
      BY <2>1 DEF Outranks
    <3>3. QED
      BY <3>1, <3>2
  <2>5. cstatus'[k] \notin {"none", "merged"}
    BY <1>2, <2>3 DEF Screen
  <2>6. QED
    BY <2>1, <2>3, <2>4, <2>5
<1>6. \A k \in Counted : stats'[k] = Cardinality(Tally(k)')
  BY <1>1 DEF Tally
<1>7. pc = "audit" /\ pc' = "verify" /\ UNCHANGED <<found, cwhy, place, call>>
  BY DEF Filter, auditVars
<1>8. QED
  BY <1>2, <1>3, <1>5, <1>6, <1>7

LEMMA CandFilter ==
  ASSUME BudgetInv, CandInv, Filter
  PROVE  CandInv' /\ CountInv'
<1>1. \A c \in Cands : cwhy'[c] = "none"
  BY FilterScreens DEF CandInv, StatusesBegin
<1>2. \A c \in Cands : ~Sent(c)'
  BY FilterScreens DEF Sent, SentStatuses, Verdicts
<1>3. StatusesBegin' /\ OneAsked'
  BY FilterScreens DEF StatusesBegin, OneAsked
<1>4. ClaimKept'
  BY FilterScreens DEF ClaimKept
<1>5. SevereFirst'
  BY <1>1, <1>2 DEF SevereFirst
<1>6. CountInv'
  BY FilterScreens DEF CountInv
<1>7. QED
  BY <1>3, <1>4, <1>5, <1>6 DEF CandInv

\* Settling a candidate moves it, and it alone, into the counter of its status.
LEMMA SettleCounts ==
  ASSUME TypeOK, NEW c \in Cands, cstatus[c] \notin Counted, NEW st \in Counted,
         Settle(c, st), CountInv, pc \in {"verify", "done"}, pc' = pc
  PROVE  CountInv'
<1> SUFFICES ASSUME NEW k \in Counted PROVE stats'[k] = Cardinality(Tally(k)')
  BY DEF CountInv
<1>1. stats[k] = Cardinality(Tally(k)) /\ IsFiniteSet(Tally(k))
  BY DataAssumption, FS_Subset DEF CountInv, Tally
<1>2. CASE k = st
  <2>1. Tally(k)' = Tally(k) \cup {c} /\ c \notin Tally(k)
    BY <1>2 DEF Settle, Tally, TypeOK
  <2>2. Cardinality(Tally(k)') = Cardinality(Tally(k)) + 1
    BY <1>1, <2>1, FS_AddElement
  <2>3. stats'[k] = stats[k] + 1
    BY <1>2 DEF Settle, TypeOK
  <2>4. QED
    BY <1>1, <2>2, <2>3
<1>3. CASE k # st
  <2>1. Tally(k)' = Tally(k)
    BY <1>3 DEF Settle, Tally, TypeOK
  <2>2. stats'[k] = stats[k]
    BY <1>3 DEF Settle, TypeOK
  <2>3. QED
    BY <1>1, <2>1, <2>2
<1>4. QED
  BY <1>2, <1>3

\* A step that changes one verifiable candidate, to a status of its own.
LEMMA OneMoves ==
  ASSUME BudgetInv, CandInv, NEW c \in Cands, cstatus[c] \in Verifiable,
         NEW st \in Counted \cup {"asked"}, cstatus' = [cstatus EXCEPT ![c] = st],
         pc = "verify", UNCHANGED <<pc, found>>
  PROVE  StatusesBegin' /\ ClaimKept'
<1>1. /\ st \notin {"none", "merged"} /\ cstatus[c] # "none"
      /\ \A d \in Cands : cstatus'[d] = IF d = c THEN st ELSE cstatus[d]
      /\ found \subseteq Cands
  BY DEF Counted, Verdicts, Verifiable, BudgetInv, TypeOK
<1>2. StatusesBegin'
  BY <1>1 DEF CandInv, StatusesBegin
<1>3. ClaimKept'
  BY <1>1 DEF CandInv, ClaimKept
<1>4. QED
  BY <1>2, <1>3

LEMMA CandSkip ==
  ASSUME BudgetInv, CandInv, CountInv, SkipVerify
  PROVE  CandInv' /\ CountInv'
<1>1. PICK c \in Waiting : Unverified(c, IF VerifierFull THEN "budget" ELSE "time_budget")
  BY DEF SkipVerify
<1> DEFINE why == IF VerifierFull THEN "budget" ELSE "time_budget"
<1>2. TypeOK /\ c \in Cands /\ cstatus[c] = "to_verify" /\ "unverified" \in Counted
  BY DEF BudgetInv, Waiting, Counted
<1>3. /\ pc = "verify" /\ call = "none" /\ UNCHANGED <<pc, call, found>> /\ place' = place + 1
      /\ Settle(c, "unverified") /\ cwhy' = [cwhy EXCEPT ![c] = why]
  BY <1>1 DEF SkipVerify, auditVars, Unverified
<1>4. cstatus' = [cstatus EXCEPT ![c] = "unverified"]
  BY <1>3 DEF Settle
<1>5. \A d \in Cands : /\ cstatus'[d] = IF d = c THEN "unverified" ELSE cstatus[d]
                       /\ cwhy'[d] = IF d = c THEN why ELSE cwhy[d]
  BY <1>2, <1>3, <1>4 DEF TypeOK
<1>6. StatusesBegin' /\ ClaimKept'
  BY <1>2, <1>3, <1>4, OneMoves DEF Verifiable
<1>7. OneAsked'
  BY <1>3, <1>5 DEF CandInv, OneAsked
<1>8. SevereFirst'
  <2>1. VerifierFull => VerifierFull'
    BY <1>2, <1>3, BudgetAssumption DEF VerifierFull, TypeOK
  <2>2. \A d \in Cands : cwhy'[d] = "budget" => VerifierFull'
    BY <1>5, <2>1 DEF CandInv, SevereFirst
  <2>3. \A d \in Cands : (LeftOver(d)' => LeftOver(d)) /\ (Sent(d)' => Sent(d))
    BY <1>2, <1>5 DEF LeftOver, Sent, SentStatuses, Verdicts
  <2>4. QED
    BY <2>2, <2>3 DEF CandInv, SevereFirst
<1>9. CountInv'
  BY <1>2, <1>3, SettleCounts DEF Counted, Verdicts
<1>10. QED
  BY <1>6, <1>7, <1>8, <1>9 DEF CandInv

LEMMA CandSend ==
  ASSUME BudgetInv, CandInv, CountInv, SendVerify
  PROVE  CandInv' /\ CountInv'
<1>1. PICK c \in Waiting : FirstIn(c, Waiting) /\ cstatus' = [cstatus EXCEPT ![c] = "asked"]
  BY DEF SendVerify
<1>2. TypeOK /\ c \in Cands /\ cstatus[c] = "to_verify"
  BY DEF BudgetInv, Waiting
<1>3. /\ pc = "verify" /\ call = "none" /\ call' = "verify" /\ UNCHANGED <<pc, found, cwhy, stats>>
      /\ ~VerifierFull
  BY DEF SendVerify, auditVars
<1>4. \A d \in Cands : cstatus'[d] = IF d = c THEN "asked" ELSE cstatus[d]
  BY <1>1, <1>2 DEF TypeOK
<1>5. StatusesBegin' /\ ClaimKept'
  BY <1>1, <1>2, <1>3, OneMoves DEF Verifiable
<1>6. OneAsked'
  BY <1>3, <1>4 DEF CandInv, OneAsked
<1>7. SevereFirst'
  <2>1. \A d \in Cands : cwhy[d] # "budget"
    BY <1>3 DEF CandInv, SevereFirst
  <2>2. \A d \in Cands : LeftOver(d)' => LeftOver(d) /\ d \in Waiting
    BY <1>3, <1>4, <2>1 DEF LeftOver, Waiting
  <2>3. \A d \in Waiting : Severity[c] <= Severity[d]
    <3>1. \A d \in Waiting : Severity[c] < Severity[d] \/ Severity[c] = Severity[d]
      BY <1>1 DEF FirstIn
    <3>2. Severity[c] \in 0..4 /\ \A d \in Waiting : Severity[d] \in 0..4
      BY <1>2, DataAssumption DEF Waiting
    <3>3. QED
      BY <3>1, <3>2
  <2>4. \A d \in Cands : Sent(d)' => Sent(d) \/ d = c
    BY <1>4 DEF Sent
  <2>5. QED
    BY <1>3, <2>1, <2>2, <2>3, <2>4 DEF CandInv, SevereFirst
<1>8. CountInv'
  <2>1. \A k \in Counted : Tally(k)' = Tally(k)
    BY <1>2, <1>4 DEF Tally, Counted, Verdicts
  <2>2. QED
    BY <1>3, <2>1 DEF CountInv
<1>9. QED
  BY <1>5, <1>6, <1>7, <1>8 DEF CandInv

\* The verifier's answer, or its failure, settles the candidate asked about.
LEMMA CandSettled ==
  ASSUME BudgetInv, CandInv, CountInv, VerifyFails \/ VerifyAnswers
  PROVE  CandInv' /\ CountInv'
<1>1. \E c \in Asked, st \in Counted :
         /\ Settle(c, st)
         /\ \A d \in Cands : cwhy'[d] = "budget" => cwhy[d] = "budget"
         /\ st \in SentStatuses \/ st = "unverified"
  <2>1. CASE VerifyFails
    <3>1. PICK c \in Asked, why \in CallFailures : Unverified(c, why)
      BY <2>1 DEF VerifyFails
    <3>2. Settle(c, "unverified") /\ "unverified" \in Counted
      BY <3>1 DEF Unverified, Counted
    <3>3. \A d \in Cands : cwhy'[d] = "budget" => cwhy[d] = "budget"
      BY <3>1 DEF Unverified, CallFailures, BudgetInv, TypeOK
    <3>4. QED
      BY <3>2, <3>3
  <2>2. CASE VerifyAnswers
    <3>1. PICK c \in Asked, verdict \in Verdicts, conf \in Confidences, evidence \in BOOLEAN :
             Settle(c, Decision(verdict, conf, evidence))
      BY <2>2 DEF VerifyAnswers
    <3>2. Decision(verdict, conf, evidence) \in SentStatuses
      BY DEF Decision, SentStatuses, Verdicts
    <3>3. cwhy' = cwhy
      BY <2>2 DEF VerifyAnswers
    <3>4. QED
      BY <3>1, <3>2, <3>3, DecisionCounted
  <2>3. QED
    BY <2>1, <2>2
<1>2. PICK c \in Asked, st \in Counted :
         /\ Settle(c, st)
         /\ \A d \in Cands : cwhy'[d] = "budget" => cwhy[d] = "budget"
         /\ st \in SentStatuses \/ st = "unverified"
  BY <1>1
<1>3. TypeOK /\ c \in Cands /\ cstatus[c] = "asked" /\ cstatus' = [cstatus EXCEPT ![c] = st]
  BY <1>2 DEF BudgetInv, Asked, Settle
<1>4. call = "verify" /\ call' = "none" /\ UNCHANGED <<pc, found, place>>
  BY DEF VerifyFails, VerifyAnswers, auditVars
<1>5. pc = "verify"
  BY <1>4 DEF BudgetInv, LoopFits
<1>6. \A d \in Cands : cstatus'[d] = IF d = c THEN st ELSE cstatus[d]
  BY <1>3 DEF TypeOK
<1>7. StatusesBegin' /\ ClaimKept'
  BY <1>3, <1>4, <1>5, OneMoves DEF Verifiable
<1>8. OneAsked'
  <2>1. \A d \in Cands : cstatus'[d] # "asked"
    BY <1>3, <1>6 DEF CandInv, OneAsked, Counted, Verdicts
  <2>2. QED
    BY <1>4, <1>5, <2>1 DEF OneAsked
<1>9. SevereFirst'
  <2>1. \A d \in Cands : (LeftOver(d)' => LeftOver(d)) /\ (Sent(d)' => Sent(d))
    BY <1>2, <1>3, <1>6 DEF LeftOver, Sent, SentStatuses, Counted, Verdicts
  <2>2. VerifierFull' = VerifierFull
    BY <1>4 DEF VerifierFull
  <2>3. QED
    BY <1>2, <2>1, <2>2 DEF CandInv, SevereFirst
<1>10. CountInv'
  BY <1>2, <1>3, <1>4, <1>5, SettleCounts DEF Counted, Verdicts
<1>11. QED
  BY <1>7, <1>8, <1>9, <1>10 DEF CandInv

\* The audit's steps leave the candidates' statuses alone.
LEMMA CandAudit ==
  ASSUME BudgetInv, CandInv, CountInv,
         \/ PlanAudit \/ SkipChunk \/ SendAudit
         \/ AuditFails \/ AuditFindings \/ AuditWantsContext
  PROVE  CandInv' /\ CountInv'
<1>1. pc \in {"plan", "audit"} /\ pc' \in {"plan", "audit"} /\ UNCHANGED <<cstatus, cwhy>>
  BY DEF PlanAudit, SkipChunk, SendAudit, AuditFails, AuditFindings, AuditWantsContext,
     verifyVars, BudgetInv, LoopFits
<1>2. \A c \in Cands : cstatus'[c] = "none" /\ cwhy'[c] = "none"
  BY <1>1 DEF CandInv, StatusesBegin
<1>3. StatusesBegin' /\ ClaimKept' /\ CountInv'
  BY <1>1, <1>2 DEF StatusesBegin, ClaimKept, CountInv
<1>4. OneAsked'
  BY <1>1, <1>2 DEF OneAsked
<1>5. SevereFirst'
  BY <1>2 DEF SevereFirst, LeftOver
<1>6. QED
  BY <1>3, <1>4, <1>5 DEF CandInv

LEMMA CandStep == BudgetInv /\ CandInv /\ CountInv /\ [Next]_vars => CandInv' /\ CountInv'
<1> SUFFICES ASSUME BudgetInv, CandInv, CountInv, [Next]_vars PROVE CandInv' /\ CountInv'
  OBVIOUS
<1>1. CASE Filter
  BY <1>1, CandFilter
<1>2. CASE Verifying
  BY <1>2, CandSkip, CandSend, CandSettled DEF Verifying
<1>3. CASE PlanAudit \/ SkipChunk \/ SendAudit \/ AuditFails \/ AuditFindings \/ AuditWantsContext
  BY <1>3, CandAudit
<1>4. CASE UNCHANGED <<found, place, cstatus, cwhy, stats, call>>
           /\ (pc' = pc \/ (pc = "verify" /\ pc' = "done" /\ call = "none" /\ Waiting = {}))
  BY <1>4 DEF CandInv, CountInv, StatusesBegin, OneAsked, ClaimKept, SevereFirst, Waiting, Tally,
     LeftOver, Sent, VerifierFull
<1>5. CASE Return
  BY <1>4, <1>5 DEF Return, auditVars, verifyVars
<1>6. CASE TimeUp
  BY <1>4, <1>6 DEF TimeUp, auditVars, verifyVars
<1>7. CASE UNCHANGED vars
  BY <1>4, <1>7 DEF vars
<1>8. QED
  BY <1>1, <1>2, <1>3, <1>5, <1>6, <1>7 DEF Next, Step, Verifying

ReviewInv == BudgetInv /\ CoverInv /\ HeardInv /\ CandInv /\ CountInv

LEMMA ReviewAlways == Spec => []ReviewInv
<1>1. Init => ReviewInv
  BY BudgetInit, CoverInit, HeardInit, CandInit DEF ReviewInv
<1>2. ReviewInv /\ [Next]_vars => ReviewInv'
  BY BudgetStep, CoverStep, HeardStep, CandStep DEF ReviewInv
<1>3. QED
  BY <1>1, <1>2, PTL DEF Spec

\* The counters partition the candidates, no claim is lost in the deduplication and
\* the verifier's calls go to the most severe, for any candidates and any budget.
THEOREM CandidatesSound == Spec => []CandidatesAddUp
<1>1. ReviewInv => CandidatesAddUp
  <2> SUFFICES ASSUME ReviewInv PROVE CandidatesAddUp
    OBVIOUS
  <2>1. pc \in {"verify", "done"} =>
           \A k \in Counted : stats[k] = Cardinality({c \in Cands : cstatus[c] = k})
    BY DEF ReviewInv, CountInv, Tally
  <2>2. ASSUME pc = "done", NEW c \in found
        PROVE  /\ cstatus[c] \in Counted \cup {"merged"}
               /\ \E d \in found : /\ KeyOf[d] = KeyOf[c] /\ Severity[d] <= Severity[c]
                                   /\ cstatus[d] \in Counted
    <3>1. found \subseteq Cands /\ call # "verify"
      BY <2>2 DEF ReviewInv, BudgetInv, TypeOK, LoopFits
    <3>2. \A d \in found : cstatus[d] \in Counted \cup {"merged"}
      BY <2>2, <3>1 DEF ReviewInv, CandInv, OneAsked, StatusesBegin, Waiting, BudgetInv, TypeOK,
         CandStatuses
    <3>3. QED
      BY <2>2, <3>2 DEF ReviewInv, CandInv, ClaimKept
  <2>3. \A c, d \in Cands : cwhy[c] = "budget" /\ Sent(d) => Severity[d] <= Severity[c]
    BY DEF ReviewInv, CandInv, SevereFirst, LeftOver
  <2>4. QED
    BY <2>1, <2>2, <2>3 DEF CandidatesAddUp, Sent, SentStatuses
<1>2. QED
  BY <1>1, ReviewAlways, PTL

\* "complete" is said only of a review in which every file was read by a call that
\* answered, nothing was clipped and every candidate had its verdict.
THEOREM CompleteSound == Spec => []CompleteIsEarned
<1>1. ReviewInv /\ CoverageIsPartition => CompleteIsEarned
  <2> SUFFICES ASSUME ReviewInv, CoverageIsPartition, pc = "done", ReviewStatus = "complete"
               PROVE  /\ reviewed = Files
                      /\ \A f \in Files : chunkOf[f] \in heard /\ f \notin clipped
                      /\ \A c \in Cands : cstatus[c] # "unverified"
    BY DEF CompleteIsEarned
  <2>1. reviewed \subseteq Files /\ found \subseteq Cands
    BY DEF ReviewInv, BudgetInv, TypeOK
  <2>2. CASE Files = {}
    <3>1. \A c \in Cands : c \notin found
      BY <2>2 DEF ReviewInv, HeardInv
    <3>2. \A c \in Cands : cstatus[c] = "none"
      BY <3>1 DEF ReviewInv, CandInv, StatusesBegin
    <3>3. QED
      BY <2>1, <2>2, <3>2
  <2>3. CASE Files # {}
    <3>1. NotReviewed = {} /\ clipped \cap reviewed = {} /\ ~(stats["unverified"] > 0)
      BY <2>3 DEF ReviewStatus
    <3>2. reviewed = Files
      BY <2>1, <3>1 DEF NotReviewed, CoverageIsPartition
    <3>3. stats["unverified"] = Cardinality(Tally("unverified")) /\ stats["unverified"] \in Nat
      BY DEF ReviewInv, CountInv, Counted, BudgetInv, TypeOK
    <3>4. IsFiniteSet(Tally("unverified"))
      BY DataAssumption, FS_Subset DEF Tally
    <3>5. Tally("unverified") = {}
      BY <3>1, <3>3, <3>4, FS_EmptySet
    <3>6. QED
      BY <3>1, <3>2, <3>5 DEF ReviewInv, HeardInv, Tally
  <2>4. QED
    BY <2>2, <2>3
<1>2. QED
  BY <1>1, ReviewAlways, CoverageSound, PTL
==============================================================================
