---------------------------- MODULE LLMRouterProofs ----------------------------
(***************************************************************************)
(* The router's calls use the pacer only as TokenPacer specifies, for any  *)
(* calls, chains, retries and responses; so the pacer's theorems hold of   *)
(* the scans that share it.  And a call's outcomes tell what happened.     *)
(***************************************************************************)
EXTENDS LLMRouter, TLAPS

\* The pacer with its theorems, for the router's data.
Books == INSTANCE TokenPacerProofs WITH
    Callers <- Calls, Keys <- Clients,
    Tokens <- {Prompt[c] + OutputEstimate : c \in Calls},
    Waits <- {MaxWait}, Deadlines <- {Deadline[c] : c \in Calls},
    Blocks <- RetryAfters \cup Backoffs

\* A call in the loop is at a client of its chain.
InLoop ==
    /\ st \in [Calls -> {"idle", "acquire", "asleep", "http", "answered", "failed", "cancelled"}]
    /\ at \in [Calls -> Nat]
    /\ \A c \in Calls : st[c] \in {"acquire", "asleep", "http"} => at[c] \in 1..Len(Chain[c])

LEMMA ClientOfCall ==
  ASSUME InLoop, NEW c \in Calls, st[c] \in {"acquire", "asleep", "http"}
  PROVE  Client(c) \in Clients
<1>1. Chain[c] \in Seq(Clients) /\ at[c] \in 1..Len(Chain[c])
  BY ChainAssumption DEF InLoop
<1>2. QED
  BY <1>1 DEF Client

LEMMA GoOnInLoop ==
  ASSUME InLoop, NEW c \in Calls, NEW i \in Nat, NEW dying, GoOn(c, i, dying)
  PROVE  InLoop'
<1>1. Chain[c] \in Seq(Clients) /\ Len(Chain[c]) \in Nat
  BY ChainAssumption
<1>2. CASE /\ st' = [st EXCEPT ![c] = "failed"]
           /\ at' = [at EXCEPT ![c] = Len(Chain[c]) + 1]
  BY <1>1, <1>2 DEF InLoop
<1>3. ASSUME NEW j \in Rest(c, i, dying),
             st' = [st EXCEPT ![c] = "acquire"],
             at' = [at EXCEPT ![c] = j]
      PROVE  InLoop'
  <2>1. j \in 1..Len(Chain[c])
    BY <1>1 DEF Rest
  <2>2. QED
    BY <1>3, <2>1 DEF InLoop
<1>4. QED
  BY <1>2, <1>3 DEF GoOn

\* Any other step of a call leaves it at its client.
LEMMA StaysInLoop ==
  ASSUME InLoop, NEW c \in Calls, st[c] \in {"acquire", "asleep", "http"}, at' = at,
         NEW to \in {"acquire", "asleep", "http", "answered", "cancelled"},
         st' = [st EXCEPT ![c] = to]
  PROVE  InLoop'
<1>1. QED
  BY DEF InLoop

------------------------------------------------------------------------------
(* The two instances of the pacer are the same.                            *)

LEMMA BooksAssumptions ==
    Books!WindowAssumption /\ Books!LimitsAssumption /\ Books!TokensAssumption
<1>1. Books!WindowAssumption
  BY SettingsAssumption DEF Books!WindowAssumption
<1>2. Books!LimitsAssumption
  BY SettingsAssumption DEF Books!LimitsAssumption
<1>3. Books!TokensAssumption
  BY SettingsAssumption DEF Books!TokensAssumption
<1>4. QED
  BY <1>1, <1>2, <1>3

LEMMA SameTotal == \A R : Pacer!Total(R) = Books!Total(R)
  BY Zenon DEF Pacer!Total, Books!Total, Pacer!MapThenSumSet, Books!MapThenSumSet,
               Pacer!MapThenFoldSet, Books!MapThenFoldSet

LEMMA SameFits ==
    \A R, n, s, limit : Pacer!Fits(R, n, s, limit) <=> Books!Fits(R, n, s, limit)
  BY SameTotal, Zenon DEF Pacer!Fits, Books!Fits, Pacer!Within, Books!Within

LEMMA SameKept == \A k : Pacer!Kept(k) = Books!Kept(k)
  BY Zenon DEF Pacer!Kept, Books!Kept, Pacer!Within, Books!Within

LEMMA SameFloor == \A k : Pacer!Floor(k) = Books!Floor(k)
  BY Zenon DEF Pacer!Floor, Books!Floor, Pacer!Kept, Books!Kept, Pacer!Within, Books!Within,
               Pacer!Larger, Books!Larger

LEMMA SameLimit == \A k : Pacer!LimitFor(k) = Books!LimitFor(k)
  BY Zenon DEF Pacer!LimitFor, Books!LimitFor

LEMMA SameCandidates == \A k : Pacer!Candidates(k) = Books!Candidates(k)
  BY SameFloor, SameKept DEF Pacer!Candidates, Books!Candidates

LEMMA SameStart ==
    \A k, n, s : Pacer!EarliestStart(k, n, s) <=> Books!EarliestStart(k, n, s)
  BY SameLimit, SameCandidates, SameFloor, SameKept, SameFits
     DEF Pacer!EarliestStart, Books!EarliestStart, Pacer!Larger, Books!Larger

LEMMA SameCardinality == \A S : Pacer!Cardinality(S) = Books!Cardinality(S)
  BY Zenon DEF Pacer!Cardinality, Books!Cardinality

LEMMA SameReserve == \A k, n, s : Pacer!Reserve(k, n, s) <=> Books!Reserve(k, n, s)
  BY SameLimit, SameKept, SameCardinality DEF Pacer!Reserve, Books!Reserve

LEMMA SameGrant ==
  ASSUME NEW c, NEW k, NEW n, NEW deadline, NEW maxWait, NEW s,
         Pacer!Grant(c, k, n, deadline, maxWait, s)
  PROVE  Books!Grant(c, k, n, deadline, maxWait, s)
<1>1. QED
  BY SameStart, SameReserve
     DEF Pacer!Grant, Books!Grant, Pacer!NoSlot, Books!NoSlot

LEMMA SameRefuse ==
  ASSUME NEW c, NEW k, NEW n, NEW deadline, NEW maxWait, NEW s, NEW why,
         Pacer!Refuse(c, k, n, deadline, maxWait, s, why)
  PROVE  Books!Refuse(c, k, n, deadline, maxWait, s, why)
<1>1. QED
  BY SameStart, SameKept
     DEF Pacer!Refuse, Books!Refuse, Pacer!NoSlot, Books!NoSlot

LEMMA SameBlock ==
  ASSUME NEW k, NEW seconds, Pacer!Block(k, seconds)
  PROVE  Books!Block(k, seconds)
<1>1. QED
  BY DEF Pacer!Block, Books!Block, Pacer!BlockedTo, Books!BlockedTo, Pacer!Larger, Books!Larger

LEMMA SameWindowFits == Books!WindowFits => Pacer!WindowFits
  BY SameFits, SameLimit DEF Books!WindowFits, Pacer!WindowFits

------------------------------------------------------------------------------
(* Every step of the router is a step of the pacer, or none.               *)

PacerStepOrNone == Books!Next \/ UNCHANGED <<now, reserved, blockedUntil, asleep, granted>>

LEMMA RouterInit == Init => Books!Init /\ InLoop
<1>1. Init => Books!Init
  BY DEF Init, Pacer!Init, Books!Init, Pacer!NoSlot, Books!NoSlot
<1>2. Init => InLoop
  BY DEF Init, InLoop
<1>3. QED
  BY <1>1, <1>2

LEMMA AcquireIsPacers ==
  ASSUME InLoop, NEW c \in Calls, Reserve(c) \/ SkipClient(c)
  PROVE  PacerStepOrNone
<1> DEFINE k == Client(c)
           S == Pacer!Candidates(k) \cup {Pacer!Larger(now, blockedUntil[k])}
           n == Prompt[c] + OutputEstimate
<1>1. st[c] = "acquire"
  BY DEF Reserve, SkipClient
<1>2. k \in Clients
  BY <1>1, ClientOfCall
<1>3. /\ n \in {Prompt[x] + OutputEstimate : x \in Calls}
      /\ Deadline[c] \in {Deadline[x] : x \in Calls} /\ MaxWait \in {MaxWait}
  OBVIOUS
<1>4. S = Books!Candidates(k) \cup {Books!Larger(now, blockedUntil[k])}
  BY SameCandidates DEF Pacer!Larger, Books!Larger
<1>5. \/ \E s \in S : Pacer!Grant(c, k, n, Deadline[c], MaxWait, s)
      \/ \E s \in S, why \in {"deadline", "too_long"} :
             Pacer!Refuse(c, k, n, Deadline[c], MaxWait, s, why)
  BY DEF Reserve, SkipClient
<1> HIDE DEF k, S, n
<1>6. \/ \E s \in S : Books!Grant(c, k, n, Deadline[c], MaxWait, s)
      \/ \E s \in S, why \in {"deadline", "too_long"} :
             Books!Refuse(c, k, n, Deadline[c], MaxWait, s, why)
  BY <1>5, SameGrant, SameRefuse
<1>7. Books!Acquire(c)
  BY <1>2, <1>3, <1>4, <1>6 DEF Books!Acquire
<1>8. QED
  BY <1>7 DEF PacerStepOrNone, Books!Next

LEMMA BlockIsPacers ==
  ASSUME InLoop, NEW c \in Calls, st[c] = "http", NEW seconds \in RetryAfters \cup Backoffs,
         Pacer!Block(Client(c), seconds)
  PROVE  PacerStepOrNone
<1>1. Client(c) \in Clients
  BY ClientOfCall
<1>2. Books!Block(Client(c), seconds)
  BY SameBlock
<1>3. QED
  BY <1>1, <1>2 DEF PacerStepOrNone, Books!Next

LEMMA EndsInLoop ==
  ASSUME InLoop, NEW c \in Calls, st[c] \in {"acquire", "asleep", "http"},
         NEW outcome, NEW dying, EndClient(c, outcome, dying)
  PROVE  InLoop'
<1>1. at[c] \in Nat /\ GoOn(c, at[c], dying)
  BY DEF InLoop, EndClient
<1>2. QED
  BY <1>1, GoOnInLoop

LEMMA CallStep ==
  ASSUME InLoop, NEW c \in Calls, Generate(c) \/ Proceed(c) \/ Cancel(c)
  PROVE  PacerStepOrNone /\ InLoop'
<1>1. CASE Generate(c)
  <2>1. GoOn(c, 0, {}) /\ UNCHANGED pacerVars
    BY <1>1 DEF Generate
  <2>2. QED
    BY <2>1, GoOnInLoop DEF PacerStepOrNone, pacerVars
<1>2. CASE Reserve(c)
  <2>1. PacerStepOrNone
    BY <1>2, AcquireIsPacers
  <2>2. st[c] = "acquire" /\ at' = at
        /\ \E to \in {"asleep", "http"} : st' = [st EXCEPT ![c] = to]
    BY <1>2 DEF Reserve
  <2>3. QED
    BY <2>1, <2>2, StaysInLoop
<1>3. CASE SkipClient(c)
  <2>1. st[c] = "acquire" /\ EndClient(c, SkippedAs(c), dead[c])
    BY <1>3 DEF SkipClient
  <2>2. QED
    BY <1>3, <2>1, AcquireIsPacers, EndsInLoop
<1>4. CASE WakeUp(c)
  <2>1. st[c] = "asleep" /\ at' = at /\ st' = [st EXCEPT ![c] = "http"]
    BY <1>4 DEF WakeUp
  <2>2. Books!Wake(c)
    BY <1>4 DEF WakeUp, Pacer!Wake, Books!Wake, Pacer!NoSlot, Books!NoSlot
  <2>3. QED
    BY <2>1, <2>2, StaysInLoop DEF PacerStepOrNone, Books!Next
<1>5. CASE Answer(c)
  <2>1. st[c] = "http" /\ at' = at /\ st' = [st EXCEPT ![c] = "answered"]
        /\ UNCHANGED pacerVars
    BY <1>5 DEF Answer
  <2>2. QED
    BY <2>1, StaysInLoop DEF PacerStepOrNone, pacerVars
<1>6. CASE BadOutput(c)
  <2>1. st[c] = "http" /\ EndClient(c, "bad_output", dead[c]) /\ UNCHANGED pacerVars
    BY <1>6 DEF BadOutput
  <2>2. QED
    BY <2>1, EndsInLoop DEF PacerStepOrNone, pacerVars
<1>7. ASSUME NEW is429 \in BOOLEAN, Transient(c, is429) PROVE PacerStepOrNone /\ InLoop'
  <2>1. st[c] = "http"
    BY <1>7 DEF Transient
  <2>2. CASE MayRetry(c)
    <3>1. /\ \E seconds \in RetryAfters \cup Backoffs : Pacer!Block(Client(c), seconds)
          /\ st' = [st EXCEPT ![c] = "acquire"] /\ at' = at
      BY <1>7, <2>2 DEF Transient
    <3>2. QED
      BY <2>1, <3>1, BlockIsPacers, StaysInLoop
  <2>3. CASE ~MayRetry(c)
    <3>1. /\ \/ \E seconds \in RetryAfters : Pacer!Block(Client(c), seconds)
             \/ UNCHANGED pacerVars
          /\ EndClient(c, IF Limited(c, is429) THEN "rate_limit" ELSE "failed", dead[c])
      BY <1>7, <2>3 DEF Transient
    <3>2. InLoop'
      BY <2>1, <3>1, EndsInLoop
    <3>3. PacerStepOrNone
      BY <2>1, <3>1, BlockIsPacers DEF PacerStepOrNone, pacerVars
    <3>4. QED
      BY <3>2, <3>3
  <2>4. QED
    BY <2>2, <2>3
<1>8. ASSUME NEW providerWide \in BOOLEAN, HttpError(c, providerWide)
      PROVE  PacerStepOrNone /\ InLoop'
  <2>1. /\ st[c] = "http" /\ UNCHANGED pacerVars
        /\ EndClient(c, "failed", IF providerWide THEN dead[c] \cup {ProviderOf[Client(c)]}
                                  ELSE dead[c])
    BY <1>8 DEF HttpError
  <2>2. QED
    BY <2>1, EndsInLoop DEF PacerStepOrNone, pacerVars
<1>9. CASE FormatRejected(c)
  <2>1. st[c] = "http" /\ UNCHANGED pacerVars
    BY <1>9 DEF FormatRejected
  <2>2. (st' = st /\ at' = at) \/ EndClient(c, "failed", dead[c])
    BY <1>9 DEF FormatRejected
  <2>3. InLoop'
    BY <2>1, <2>2, EndsInLoop DEF InLoop
  <2>4. QED
    BY <2>1, <2>3 DEF PacerStepOrNone, pacerVars
<1>10. CASE Cancel(c)
  <2>1. /\ st[c] \in {"asleep", "http"} /\ Quit(c) /\ at' = at
        /\ st' = [st EXCEPT ![c] = "cancelled"]
    BY <1>10 DEF Cancel
  <2>2. Pacer!Abandon(c) \/ UNCHANGED pacerVars
    BY <2>1 DEF Quit
  <2>3. Pacer!Abandon(c) => Books!Abandon(c)
    BY DEF Pacer!Abandon, Books!Abandon, Pacer!NoSlot, Books!NoSlot
  <2>4. QED
    BY <2>1, <2>2, <2>3, StaysInLoop DEF PacerStepOrNone, Books!Next, pacerVars
<1>11. QED
  BY <1>1, <1>2, <1>3, <1>4, <1>5, <1>6, <1>7, <1>8, <1>9, <1>10 DEF Proceed, Respond

LEMMA RouterStep == InLoop /\ [Next]_vars => [Books!Next]_(Books!vars) /\ InLoop'
<1> SUFFICES ASSUME InLoop, [Next]_vars PROVE PacerStepOrNone /\ InLoop'
  BY DEF PacerStepOrNone, Books!vars
<1>1. ASSUME NEW c \in Calls, Generate(c) \/ Proceed(c) \/ Cancel(c)
      PROVE  PacerStepOrNone /\ InLoop'
  BY <1>1, CallStep
<1>2. CASE Tick
  <2>1. Books!Tick
    BY <1>2 DEF Tick, Pacer!Tick, Books!Tick
  <2>2. InLoop'
    BY <1>2 DEF Tick, callVars, InLoop
  <2>3. QED
    BY <2>1, <2>2 DEF PacerStepOrNone, Books!Next
<1>3. CASE UNCHANGED vars
  BY <1>3 DEF vars, pacerVars, callVars, InLoop, PacerStepOrNone
<1>4. QED
  BY <1>1, <1>2, <1>3 DEF Next

\* The composed calls use the pacer only as its specification says, so what holds of
\* TokenPacer holds under every interleaving of generate calls.
THEOREM RouterIsPacer == Spec => Books!Spec
<1>1. QED
  BY RouterInit, RouterStep, PTL DEF Spec, Books!Spec

LEMMA BooksSound == Books!Spec => []Books!WindowFits
<1>1. QED
  BY BooksAssumptions, Books!WindowsSound

\* Whatever the concurrent calls of the scans do - retries, fallbacks, cancellations,
\* verifier calls with a model of their own - no window of any model holds more than
\* its tokens per minute.
THEOREM SharedWindows == Spec => []ModelsKeepTheirLimit
<1>1. Books!WindowFits => ModelsKeepTheirLimit
  BY SameWindowFits DEF ModelsKeepTheirLimit
<1>2. QED
  BY <1>1, RouterIsPacer, BooksSound, PTL
------------------------------------------------------------------------------
(* What a call reports.  The invariant follows one call through its chain:  *)
(* the clients before the one in hand have ended, in order, or were passed  *)
(* over for a reason, and none after it was seen.                           *)

InHand == {"acquire", "asleep", "http"}
OutcomeKinds == {"bad_output", "rate_limit", "failed"}
Sights == {"nothing", "unusable", "429", "transient", "refused", "format"}

\* TypeOK with the domains that its per-call parts leave open.
RouterTypes ==
    /\ TypeOK /\ InLoop
    /\ outcomes \in [Calls -> Seq(Clients \X OutcomeKinds)]

\* Outcome i of the call is that of its client at j.
Reported(c, i, j) ==
    /\ i \in DOMAIN outcomes[c] /\ j \in DOMAIN Chain[c]
    /\ outcomes[c][i][1] = Chain[c][j]

\* An outcome is of a client the call is past and that had room for the prompt,
\* and says how the client's last attempt went.
OutcomeFits(c, i) ==
    LET k == outcomes[c][i][1] IN
    /\ RoomFor(c, k)
    /\ \E j \in DOMAIN Chain[c] : j < at[c] /\ Chain[c][j] = k
    /\ outcomes[c][i][2] = "bad_output" <=> seen[c][k] = "unusable"
    /\ outcomes[c][i][2] = "rate_limit" <=> seen[c][k] = "429"

Passed(c, j) ==
    \/ \E i \in DOMAIN outcomes[c] : outcomes[c][i][1] = Chain[c][j]
    \/ ProviderOf[Chain[c][j]] \in dead[c]
    \/ ~RoomFor(c, Chain[c][j])

OutcomesFit(c) == \A i \in DOMAIN outcomes[c] : OutcomeFits(c, i)

InChainOrder(c) ==
    \A i, m \in DOMAIN outcomes[c], j, n \in DOMAIN Chain[c] :
        i < m /\ Reported(c, i, j) /\ Reported(c, m, n) => j < n

AllPassed(c) == \A j \in DOMAIN Chain[c] : j < at[c] => Passed(c, j)

\* What was seen belongs to clients tried up to the one in hand, whose last
\* attempt `rateLimited` remembers.
SeenFits(c) ==
    /\ \A k \in Clients : seen[c][k] # "nothing" =>
          RoomFor(c, k) /\ \E j \in DOMAIN Chain[c] : j <= at[c] /\ Chain[c][j] = k
    /\ st[c] \in InHand =>
          /\ RoomFor(c, Client(c))
          /\ seen[c][Client(c)] # "unusable"
          /\ rateLimited[c] <=> seen[c][Client(c)] = "429"

CallBegins(c) ==
    st[c] = "idle" => at[c] = 0 /\ outcomes[c] = <<>> /\ dead[c] = {}

CallEnds(c) ==
    /\ dead[c] # {} => \E i \in DOMAIN outcomes[c] : outcomes[c][i][2] = "failed"
    /\ st[c] = "failed" => at[c] = Len(Chain[c]) + 1

CallTells(c) ==
    /\ OutcomesFit(c) /\ InChainOrder(c) /\ AllPassed(c)
    /\ SeenFits(c) /\ CallBegins(c) /\ CallEnds(c)

TellInv == \A c \in Calls : CallTells(c)

Providers == {ProviderOf[k] : k \in Clients}

LEMMA ChainFacts ==
  ASSUME NEW c \in Calls
  PROVE  /\ Len(Chain[c]) \in Nat /\ DOMAIN Chain[c] = 1..Len(Chain[c])
         /\ \A j \in DOMAIN Chain[c] : Chain[c][j] \in Clients
         /\ \A i, j \in DOMAIN Chain[c] : Chain[c][i] = Chain[c][j] => i = j
<1>1. Chain[c] \in Seq(Clients)
  BY ChainAssumption
<1>2. QED
  BY <1>1, ChainAssumption

LEMMA RoomConstant ==
  ASSUME NEW c, NEW k
  PROVE  RoomFor(c, k)' <=> RoomFor(c, k)
BY DEF RoomFor, Pacer!LimitFor

\* Where GoOn takes the call.
LEMMA GoesOn ==
  ASSUME RouterTypes, NEW c \in Calls, NEW i \in Nat, i <= Len(Chain[c]),
         NEW dying \in SUBSET Providers, GoOn(c, i, dying)
  PROVE  /\ at'[c] \in (i + 1)..(Len(Chain[c]) + 1)
         /\ \/ /\ st'[c] = "acquire"
               /\ at'[c] \in DOMAIN Chain[c] /\ RoomFor(c, Chain[c][at'[c]])
            \/ st'[c] = "failed" /\ at'[c] = Len(Chain[c]) + 1
         /\ \A m \in DOMAIN Chain[c] : i < m /\ m < at'[c] => ~Tries(c, m, dying)
         /\ dead'[c] = dying /\ rateLimited'[c] = FALSE
<1>1. /\ st \in [Calls -> {"idle", "acquire", "asleep", "http", "answered", "failed", "cancelled"}]
      /\ at \in [Calls -> Nat] /\ dead \in [Calls -> SUBSET Providers]
      /\ rateLimited \in [Calls -> BOOLEAN]
  BY DEF RouterTypes, InLoop, TypeOK, Providers
<1>2. dead'[c] = dying /\ rateLimited'[c] = FALSE
  BY <1>1 DEF GoOn
<1>3. /\ Len(Chain[c]) \in Nat /\ DOMAIN Chain[c] = 1..Len(Chain[c])
  BY ChainFacts
<1>4. \A m : m \in Rest(c, i, dying) <=> m \in (i + 1)..Len(Chain[c]) /\ Tries(c, m, dying)
  BY DEF Rest
<1>5. CASE /\ Rest(c, i, dying) = {}
           /\ st' = [st EXCEPT ![c] = "failed"]
           /\ at' = [at EXCEPT ![c] = Len(Chain[c]) + 1]
  <2>1. st'[c] = "failed" /\ at'[c] = Len(Chain[c]) + 1
    BY <1>1, <1>5
  <2>2. \A m \in DOMAIN Chain[c] : i < m => ~Tries(c, m, dying)
    BY <1>3, <1>4, <1>5
  <2>3. QED
    BY <1>2, <1>3, <2>1, <2>2
<1>6. ASSUME NEW j \in Rest(c, i, dying), \A m \in Rest(c, i, dying) : j <= m,
             st' = [st EXCEPT ![c] = "acquire"],
             at' = [at EXCEPT ![c] = j]
      PROVE  /\ at'[c] \in (i + 1)..(Len(Chain[c]) + 1)
             /\ st'[c] = "acquire"
             /\ at'[c] \in DOMAIN Chain[c] /\ RoomFor(c, Chain[c][at'[c]])
             /\ \A m \in DOMAIN Chain[c] : i < m /\ m < at'[c] => ~Tries(c, m, dying)
  <2>1. st'[c] = "acquire" /\ at'[c] = j
    BY <1>1, <1>6
  <2>2. j \in (i + 1)..Len(Chain[c]) /\ Tries(c, j, dying)
    BY <1>4
  <2>3. RoomFor(c, Chain[c][j])
    BY <2>2 DEF Tries
  <2>4. \A m \in DOMAIN Chain[c] : i < m /\ m < j => ~Tries(c, m, dying)
    <3> SUFFICES ASSUME NEW m \in DOMAIN Chain[c], i < m, m < j, Tries(c, m, dying) PROVE FALSE
      OBVIOUS
    <3>1. m \in Rest(c, i, dying)
      BY <1>3, <1>4
    <3>2. QED
      BY <1>3, <1>6, <2>2, <3>1
  <2>5. QED
    BY <1>3, <2>1, <2>2, <2>3, <2>4
<1>7. \/ /\ Rest(c, i, dying) = {}
         /\ st' = [st EXCEPT ![c] = "failed"]
         /\ at' = [at EXCEPT ![c] = Len(Chain[c]) + 1]
      \/ \E j \in Rest(c, i, dying) :
         /\ \A m \in Rest(c, i, dying) : j <= m
         /\ st' = [st EXCEPT ![c] = "acquire"]
         /\ at' = [at EXCEPT ![c] = j]
  BY DEF GoOn
<1>8. QED
  BY <1>2, <1>5, <1>6, <1>7

LEMMA GoesOnTyped ==
  ASSUME RouterTypes, NEW c \in Calls, NEW i \in Nat, i <= Len(Chain[c]),
         NEW dying \in SUBSET Providers, GoOn(c, i, dying)
  PROVE  /\ \A d \in Calls : at'[d] \in 0..(Len(Chain[d]) + 1)
         /\ attempt' \in [Calls -> 0..Retries]
         /\ rateLimited' \in [Calls -> BOOLEAN]
         /\ dead' \in [Calls -> SUBSET Providers]
<1>1. /\ at \in [Calls -> Nat] /\ dead \in [Calls -> SUBSET Providers]
      /\ attempt \in [Calls -> 0..Retries] /\ rateLimited \in [Calls -> BOOLEAN]
      /\ \A d \in Calls : at[d] \in 0..(Len(Chain[d]) + 1)
  BY DEF RouterTypes, InLoop, TypeOK, Providers
<1>2. \E n : at' = [at EXCEPT ![c] = n]
  BY DEF GoOn
<1>3. at'[c] \in 0..(Len(Chain[c]) + 1)
  <2>1. at'[c] \in (i + 1)..(Len(Chain[c]) + 1)
    BY GoesOn
  <2>2. Len(Chain[c]) \in Nat
    BY ChainFacts
  <2>3. QED
    BY <2>1, <2>2
<1>4. \A d \in Calls : d # c => at'[d] = at[d]
  BY <1>1, <1>2
<1>5. attempt' \in [Calls -> 0..Retries]
  BY <1>1, SettingsAssumption DEF GoOn
<1>6. rateLimited' \in [Calls -> BOOLEAN] /\ dead' \in [Calls -> SUBSET Providers]
  BY <1>1 DEF GoOn
<1>7. QED
  BY <1>1, <1>3, <1>4, <1>5, <1>6

LEMMA InHandFacts ==
  ASSUME RouterTypes, NEW c \in Calls, st[c] \in InHand
  PROVE  /\ at[c] \in DOMAIN Chain[c] /\ at[c] <= Len(Chain[c]) /\ at[c] \in Nat
         /\ Client(c) = Chain[c][at[c]] /\ Client(c) \in Clients
         /\ dead[c] \in SUBSET Providers
         /\ dead[c] \cup {ProviderOf[Client(c)]} \in SUBSET Providers
<1>1. InLoop /\ at[c] \in 1..Len(Chain[c])
  BY DEF RouterTypes, InLoop, InHand
<1>2. Client(c) \in Clients
  BY <1>1, ClientOfCall DEF InHand
<1>3. dead[c] \in SUBSET Providers
  BY DEF RouterTypes, TypeOK, Providers
<1>4. QED
  BY <1>1, <1>2, <1>3, ChainFacts DEF Client, Providers

\* A client that ends keeps the types, whatever was seen of it.
LEMMA EndTyped ==
  ASSUME RouterTypes, NEW c \in Calls, st[c] \in InHand, NEW outcome \in OutcomeKinds,
         NEW dying \in SUBSET Providers, EndClient(c, outcome, dying)
  PROVE  /\ InLoop'
         /\ \A d \in Calls : at'[d] \in 0..(Len(Chain[d]) + 1)
         /\ attempt' \in [Calls -> 0..Retries]
         /\ rateLimited' \in [Calls -> BOOLEAN]
         /\ dead' \in [Calls -> SUBSET Providers]
         /\ outcomes' \in [Calls -> Seq(Clients \X OutcomeKinds)]
<1>1. at[c] \in Nat /\ at[c] <= Len(Chain[c]) /\ Client(c) \in Clients
  BY InHandFacts
<1>2. InLoop'
  BY EndsInLoop DEF RouterTypes, InHand
<1>3. GoOn(c, at[c], dying)
  BY DEF EndClient
<1>4. outcomes' \in [Calls -> Seq(Clients \X OutcomeKinds)]
  <2>1. <<Client(c), outcome>> \in Clients \X OutcomeKinds
    BY <1>1
  <2>2. Append(outcomes[c], <<Client(c), outcome>>) \in Seq(Clients \X OutcomeKinds)
    BY <2>1 DEF RouterTypes
  <2>3. QED
    BY <2>2 DEF EndClient, RouterTypes
<1>5. QED
  BY <1>1, <1>2, <1>3, <1>4, GoesOnTyped

LEMMA TypesFrom ==
  ASSUME InLoop',
         \A d \in Calls : at'[d] \in 0..(Len(Chain[d]) + 1),
         attempt' \in [Calls -> 0..Retries],
         rateLimited' \in [Calls -> BOOLEAN],
         deadlineHit' \in [Calls -> BOOLEAN],
         dead' \in [Calls -> SUBSET Providers],
         outcomes' \in [Calls -> Seq(Clients \X OutcomeKinds)],
         useFormat' \in [Clients -> BOOLEAN],
         sent' \in [Calls -> BOOLEAN],
         seen' \in [Calls -> [Clients -> Sights]]
  PROVE  RouterTypes'
<1>1. \A c \in Calls : outcomes'[c] \in Seq(Clients \X OutcomeKinds)
  OBVIOUS
<1>2. TypeOK'
  BY <1>1 DEF TypeOK, InLoop, Providers, OutcomeKinds, Sights
<1>3. QED
  BY <1>2 DEF RouterTypes

LEMMA SawTyped ==
  ASSUME RouterTypes, NEW c \in Calls, NEW k \in Clients, NEW what \in Sights,
         seen' = [seen EXCEPT ![c][k] = what]
  PROVE  seen' \in [Calls -> [Clients -> Sights]]
BY DEF RouterTypes, TypeOK, Sights

LEMMA RouterTypesInit == Init => RouterTypes
<1> SUFFICES ASSUME Init PROVE RouterTypes
  OBVIOUS
<1>1. InLoop
  BY RouterInit
<1>2. outcomes \in [Calls -> Seq(Clients \X OutcomeKinds)]
  BY DEF Init
<1>3. /\ \A c \in Calls : at[c] \in 0..(Len(Chain[c]) + 1)
      /\ attempt \in [Calls -> 0..Retries]
  BY ChainFacts, SettingsAssumption DEF Init
<1>4. rateLimited \in [Calls -> BOOLEAN] /\ deadlineHit \in [Calls -> BOOLEAN]
      /\ useFormat \in [Clients -> BOOLEAN] /\ sent \in [Calls -> BOOLEAN]
  BY DEF Init
<1>5. dead \in [Calls -> SUBSET {ProviderOf[k] : k \in Clients}]
  BY DEF Init
<1>6. seen \in [Calls -> [Clients -> Sights]]
  BY DEF Init, Sights
<1>7. TypeOK
  BY <1>1, <1>2, <1>3, <1>4, <1>5, <1>6 DEF TypeOK, InLoop, OutcomeKinds, Sights
<1>8. QED
  BY <1>1, <1>2, <1>7 DEF RouterTypes

\* What a step of a call does to its report: the client in hand ends, or the call
\* stays at it, or the call sets out.
Ends(c) ==
    \E outcome \in OutcomeKinds, dying \in SUBSET Providers, what \in Sights :
        /\ st[c] \in InHand
        /\ EndClient(c, outcome, dying)
        /\ seen' = [seen EXCEPT ![c][Client(c)] = what]
        /\ outcome = "bad_output" <=> what = "unusable"
        /\ outcome = "rate_limit" <=> what = "429"
        /\ dead[c] \subseteq dying
        /\ dying # dead[c] => outcome = "failed"
        /\ deadlineHit' \in [Calls -> BOOLEAN] /\ UNCHANGED <<useFormat, sent>>

StaysAs(c, to, what, n) ==
    /\ st[c] \in InHand
    /\ st' = [st EXCEPT ![c] = to]
    /\ seen' = [seen EXCEPT ![c][Client(c)] = what]
    /\ what # "unusable"
    /\ rateLimited' = [rateLimited EXCEPT ![c] = (what = "429")]
    /\ attempt' = [attempt EXCEPT ![c] = n]
    /\ useFormat' \in [Clients -> BOOLEAN] /\ sent' \in [Calls -> BOOLEAN]
    /\ UNCHANGED <<at, outcomes, dead, deadlineHit>>

Stays(c) ==
    \E to \in {"acquire", "asleep", "http", "answered", "cancelled"}, what \in Sights,
       n \in 0..Retries : StaysAs(c, to, what, n)

\* A step that sees nothing new.
LEMMA StaysSame ==
  ASSUME RouterTypes, NEW c \in Calls, CallTells(c), st[c] \in InHand,
         NEW to \in {"acquire", "asleep", "http", "answered", "cancelled"},
         st' = [st EXCEPT ![c] = to],
         useFormat' \in [Clients -> BOOLEAN], sent' \in [Calls -> BOOLEAN],
         UNCHANGED <<at, attempt, rateLimited, outcomes, dead, deadlineHit, seen>>
  PROVE  Stays(c)
<1> DEFINE what == seen[c][Client(c)]
<1>1. Client(c) \in Clients
  BY InHandFacts
<1>2. seen \in [Calls -> [Clients -> Sights]] /\ attempt \in [Calls -> 0..Retries]
      /\ rateLimited \in [Calls -> BOOLEAN]
  BY DEF RouterTypes, TypeOK, Sights
<1>3. what \in Sights /\ seen' = [seen EXCEPT ![c][Client(c)] = what]
  BY <1>1, <1>2
<1>4. what # "unusable" /\ (rateLimited[c] <=> what = "429")
  BY DEF CallTells, SeenFits
<1>5. attempt[c] \in 0..Retries /\ attempt' = [attempt EXCEPT ![c] = attempt[c]]
  BY <1>2
<1> HIDE DEF what
<1>6. rateLimited' = [rateLimited EXCEPT ![c] = (what = "429")]
  <2>1. rateLimited[c] = (what = "429")
    BY <1>2, <1>4
  <2>2. rateLimited' = [rateLimited EXCEPT ![c] = rateLimited[c]]
    BY <1>2
  <2>3. QED
    BY <2>1, <2>2
<1>7. QED
  BY <1>3, <1>4, <1>5, <1>6 DEF Stays, StaysAs

LEMMA SkipEnds ==
  ASSUME RouterTypes, NEW c \in Calls, CallTells(c), SkipClient(c)
  PROVE  Ends(c)
<1> DEFINE what == seen[c][Client(c)]
<1>1. st[c] \in InHand
  BY DEF SkipClient, InHand
<1>2. Client(c) \in Clients /\ dead[c] \in SUBSET Providers
  BY <1>1, InHandFacts
<1>3. seen \in [Calls -> [Clients -> Sights]] /\ deadlineHit \in [Calls -> BOOLEAN]
  BY DEF RouterTypes, TypeOK, Sights
<1>4. what \in Sights /\ seen' = [seen EXCEPT ![c][Client(c)] = what]
  BY <1>2, <1>3 DEF SkipClient
<1>5. what # "unusable" /\ (rateLimited[c] <=> what = "429")
  BY <1>1 DEF CallTells, SeenFits
<1>6. deadlineHit' \in [Calls -> BOOLEAN]
  <2>1. PICK why : deadlineHit' = [deadlineHit EXCEPT ![c] = @ \/ why = "deadline"]
    BY DEF SkipClient
  <2>2. QED
    BY <1>3, <2>1, Zenon
<1>7. EndClient(c, SkippedAs(c), dead[c]) /\ UNCHANGED <<useFormat, sent>>
  BY DEF SkipClient
<1>8. SkippedAs(c) \in OutcomeKinds
      /\ (SkippedAs(c) = "bad_output" <=> what = "unusable")
      /\ (SkippedAs(c) = "rate_limit" <=> what = "429")
  BY <1>5 DEF SkippedAs, OutcomeKinds
<1> HIDE DEF what
<1>9. QED
  BY <1>1, <1>2, <1>4, <1>6, <1>7, <1>8 DEF Ends

\* A response that ends the client.
LEMMA ResponseEnds ==
  ASSUME RouterTypes, NEW c \in Calls, st[c] = "http",
         NEW outcome \in OutcomeKinds, NEW dying \in SUBSET Providers, NEW what \in Sights,
         EndClient(c, outcome, dying), Saw(c, what),
         outcome = "bad_output" <=> what = "unusable",
         outcome = "rate_limit" <=> what = "429",
         dead[c] \subseteq dying, dying # dead[c] => outcome = "failed",
         UNCHANGED <<deadlineHit, useFormat, sent>>
  PROVE  Ends(c)
<1>1. deadlineHit' \in [Calls -> BOOLEAN] /\ st[c] \in InHand
  BY DEF RouterTypes, TypeOK, InHand
<1>2. seen' = [seen EXCEPT ![c][Client(c)] = what]
  BY DEF Saw
<1>3. QED
  BY <1>1, <1>2 DEF Ends

LEMMA TransientEffect ==
  ASSUME RouterTypes, NEW c \in Calls, NEW is429 \in BOOLEAN, Transient(c, is429)
  PROVE  Ends(c) \/ Stays(c)
<1> DEFINE what == IF is429 THEN "429" ELSE "transient"
<1>1. st[c] = "http" /\ st[c] \in InHand /\ Saw(c, what) /\ UNCHANGED <<deadlineHit, useFormat, sent>>
  BY DEF Transient, InHand
<1>2. /\ useFormat' \in [Clients -> BOOLEAN] /\ sent' \in [Calls -> BOOLEAN]
      /\ attempt[c] \in 0..Retries /\ dead[c] \in SUBSET Providers
  BY <1>1 DEF RouterTypes, TypeOK, Providers
<1>3. what \in Sights /\ what # "unusable" /\ (what = "429") = is429
  BY DEF Sights
<1>4. CASE MayRetry(c)
  <2>1. /\ st' = [st EXCEPT ![c] = "acquire"]
        /\ attempt' = [attempt EXCEPT ![c] = attempt[c] + 1]
        /\ rateLimited' = [rateLimited EXCEPT ![c] = is429]
        /\ UNCHANGED <<at, outcomes, dead>>
    BY <1>4 DEF Transient, Limited
  <2>2. attempt[c] + 1 \in 0..Retries
    BY <1>2, <1>4, SettingsAssumption DEF MayRetry
  <2>3. seen' = [seen EXCEPT ![c][Client(c)] = what]
    BY <1>1 DEF Saw
  <2> HIDE DEF what
  <2>4. Stays(c)
    BY <1>1, <1>2, <1>3, <2>1, <2>2, <2>3 DEF Stays, StaysAs
  <2>5. QED
    BY <2>4
<1>5. CASE ~MayRetry(c)
  <2>1. EndClient(c, IF Limited(c, is429) THEN "rate_limit" ELSE "failed", dead[c])
    BY <1>5 DEF Transient
  <2>2. ASSUME is429 PROVE Ends(c)
    <3>1. EndClient(c, "rate_limit", dead[c]) /\ Saw(c, "429")
      BY <1>1, <2>1, <2>2 DEF Limited
    <3>2. QED
      BY <1>1, <1>2, <3>1, ResponseEnds DEF OutcomeKinds, Sights
  <2>3. ASSUME ~is429 PROVE Ends(c)
    <3>1. EndClient(c, "failed", dead[c]) /\ Saw(c, "transient")
      BY <1>1, <2>1, <2>3 DEF Limited
    <3>2. QED
      BY <1>1, <1>2, <3>1, ResponseEnds DEF OutcomeKinds, Sights
  <2>4. QED
    BY <2>2, <2>3
<1>6. QED
  BY <1>4, <1>5

LEMMA ProceedEffect ==
  ASSUME RouterTypes, NEW c \in Calls, CallTells(c), Proceed(c) \/ Cancel(c)
  PROVE  Ends(c) \/ Stays(c)
<1>1. useFormat \in [Clients -> BOOLEAN] /\ sent \in [Calls -> BOOLEAN]
  BY DEF RouterTypes, TypeOK
<1> USE DEF InHand
<1>2. CASE Reserve(c)
  <2>1. PICK s : /\ st' = [st EXCEPT ![c] = IF s > now THEN "asleep" ELSE "http"]
                 /\ sent' = [sent EXCEPT ![c] = s <= now /\ useFormat[Client(c)]]
    BY <1>2 DEF Reserve
  <2>2. sent' \in [Calls -> BOOLEAN]
    BY <1>1, <2>1, Zenon
  <2>3. /\ st[c] = "acquire"
        /\ UNCHANGED <<at, attempt, rateLimited, outcomes, dead, deadlineHit, useFormat, seen>>
    BY <1>2 DEF Reserve
  <2>4. \E to \in {"asleep", "http"} : st' = [st EXCEPT ![c] = to]
    BY <2>1
  <2>5. QED
    BY <1>1, <2>2, <2>3, <2>4, StaysSame
<1>3. CASE SkipClient(c)
  BY <1>3, SkipEnds
<1>4. CASE WakeUp(c)
  <2>1. sent' = [sent EXCEPT ![c] = useFormat[Client(c)]] /\ st[c] = "asleep"
        /\ st' = [st EXCEPT ![c] = "http"]
        /\ UNCHANGED <<at, attempt, rateLimited, outcomes, dead, deadlineHit, useFormat, seen>>
    BY <1>4 DEF WakeUp
  <2>2. Client(c) \in Clients
    BY <2>1, InHandFacts
  <2>3. sent' \in [Calls -> BOOLEAN]
    BY <1>1, <2>1, <2>2
  <2>4. QED
    BY <1>1, <2>1, <2>3, StaysSame
<1>5. CASE Answer(c)
  BY <1>1, <1>5, StaysSame DEF Answer
<1>6. CASE BadOutput(c)
  <2>1. /\ st[c] = "http" /\ Saw(c, "unusable") /\ EndClient(c, "bad_output", dead[c])
        /\ UNCHANGED <<deadlineHit, useFormat, sent>>
    BY <1>6 DEF BadOutput
  <2>2. dead[c] \in SUBSET Providers
    BY <2>1, InHandFacts
  <2>3. QED
    BY <2>1, <2>2, ResponseEnds DEF OutcomeKinds, Sights
<1>7. ASSUME NEW is429 \in BOOLEAN, Transient(c, is429) PROVE Ends(c) \/ Stays(c)
  BY <1>7, TransientEffect
<1>8. ASSUME NEW wide \in BOOLEAN, HttpError(c, wide) PROVE Ends(c)
  <2>1. PICK dying \in {dead[c], dead[c] \cup {ProviderOf[Client(c)]}} :
           EndClient(c, "failed", dying)
    BY <1>8 DEF HttpError
  <2>2. st[c] = "http" /\ Saw(c, "refused") /\ UNCHANGED <<deadlineHit, useFormat, sent>>
    BY <1>8 DEF HttpError
  <2>3. dying \in SUBSET Providers /\ dead[c] \subseteq dying
    BY <2>1, <2>2, InHandFacts
  <2>4. QED
    BY <2>1, <2>2, <2>3, ResponseEnds DEF OutcomeKinds, Sights
<1>9. CASE FormatRejected(c)
  <2>1. st[c] = "http"
    BY <1>9 DEF FormatRejected
  <2>2. CASE /\ useFormat' = [useFormat EXCEPT ![Client(c)] = FALSE]
             /\ sent' = [sent EXCEPT ![c] = FALSE]
             /\ UNCHANGED <<st, at, attempt, rateLimited, outcomes, dead, deadlineHit, seen>>
    <3>1. useFormat' \in [Clients -> BOOLEAN] /\ sent' \in [Calls -> BOOLEAN]
      BY <1>1, <2>2
    <3>2. st' = [st EXCEPT ![c] = "http"]
      BY <2>1, <2>2 DEF RouterTypes, TypeOK
    <3>3. QED
      BY <2>1, <2>2, <3>1, <3>2, StaysSame
  <2>3. CASE /\ Saw(c, "format") /\ EndClient(c, "failed", dead[c])
             /\ UNCHANGED <<deadlineHit, useFormat, sent>>
    <3>1. dead[c] \in SUBSET Providers
      BY <2>1, InHandFacts
    <3>2. QED
      BY <2>1, <2>3, <3>1, ResponseEnds DEF OutcomeKinds, Sights
  <2>4. QED
    BY <1>9, <2>2, <2>3 DEF FormatRejected
<1>10. CASE Cancel(c)
  BY <1>1, <1>10, StaysSame DEF Cancel
<1>11. QED
  BY <1>2, <1>3, <1>4, <1>5, <1>6, <1>7, <1>8, <1>9, <1>10 DEF Proceed, Respond

LEMMA StaysTyped ==
  ASSUME RouterTypes, NEW c \in Calls, Stays(c)
  PROVE  RouterTypes'
<1>0. PICK to \in {"acquire", "asleep", "http", "answered", "cancelled"}, what \in Sights,
           n \in 0..Retries : StaysAs(c, to, what, n)
  BY DEF Stays
<1>1. /\ st[c] \in InHand
      /\ st' = [st EXCEPT ![c] = to]
      /\ seen' = [seen EXCEPT ![c][Client(c)] = what]
      /\ rateLimited' = [rateLimited EXCEPT ![c] = (what = "429")]
      /\ attempt' = [attempt EXCEPT ![c] = n]
      /\ useFormat' \in [Clients -> BOOLEAN] /\ sent' \in [Calls -> BOOLEAN]
      /\ UNCHANGED <<at, outcomes, dead, deadlineHit>>
  BY <1>0, Zenon DEF StaysAs
<1>2. InLoop'
  BY <1>1, StaysInLoop DEF RouterTypes, InHand
<1>3. seen' \in [Calls -> [Clients -> Sights]]
  BY <1>1, InHandFacts, SawTyped
<1>4. /\ attempt' \in [Calls -> 0..Retries] /\ rateLimited' \in [Calls -> BOOLEAN]
      /\ \A d \in Calls : at'[d] \in 0..(Len(Chain[d]) + 1)
      /\ deadlineHit' \in [Calls -> BOOLEAN] /\ dead' \in [Calls -> SUBSET Providers]
      /\ outcomes' \in [Calls -> Seq(Clients \X OutcomeKinds)]
  BY <1>1 DEF RouterTypes, TypeOK, Providers
<1>5. QED
  BY <1>1, <1>2, <1>3, <1>4, TypesFrom

LEMMA EndsTyped ==
  ASSUME RouterTypes, NEW c \in Calls, Ends(c)
  PROVE  RouterTypes'
<1>1. PICK outcome \in OutcomeKinds, dying \in SUBSET Providers, what \in Sights :
        /\ st[c] \in InHand
        /\ EndClient(c, outcome, dying)
        /\ seen' = [seen EXCEPT ![c][Client(c)] = what]
        /\ deadlineHit' \in [Calls -> BOOLEAN] /\ UNCHANGED <<useFormat, sent>>
  BY DEF Ends
<1>2. seen' \in [Calls -> [Clients -> Sights]]
  BY <1>1, InHandFacts, SawTyped
<1>3. useFormat' \in [Clients -> BOOLEAN] /\ sent' \in [Calls -> BOOLEAN]
  BY <1>1 DEF RouterTypes, TypeOK
<1>4. QED
  BY <1>1, <1>2, <1>3, EndTyped, TypesFrom

LEMMA GenerateTyped ==
  ASSUME RouterTypes, NEW c \in Calls, Generate(c)
  PROVE  RouterTypes'
<1>1. GoOn(c, 0, {}) /\ UNCHANGED <<outcomes, deadlineHit, useFormat, sent, seen>>
  BY DEF Generate
<1>2. 0 \in Nat /\ 0 <= Len(Chain[c]) /\ {} \in SUBSET Providers
  BY ChainFacts
<1>3. InLoop'
  BY <1>1, <1>2, GoOnInLoop DEF RouterTypes
<1>4. /\ useFormat' \in [Clients -> BOOLEAN] /\ sent' \in [Calls -> BOOLEAN]
      /\ deadlineHit' \in [Calls -> BOOLEAN]
      /\ seen' \in [Calls -> [Clients -> Sights]]
      /\ outcomes' \in [Calls -> Seq(Clients \X OutcomeKinds)]
  BY <1>1 DEF RouterTypes, TypeOK, Sights
<1>5. QED
  BY <1>1, <1>2, <1>3, <1>4, GoesOnTyped, TypesFrom

\* The report of a call none of whose variables changes.
LEMMA TellsSame ==
  ASSUME NEW d \in Calls, CallTells(d), st'[d] = st[d], at'[d] = at[d],
         rateLimited'[d] = rateLimited[d], outcomes'[d] = outcomes[d], dead'[d] = dead[d],
         seen'[d] = seen[d]
  PROVE  CallTells(d)'
<1>1. Client(d)' = Client(d)
  BY DEF Client
<1>2. OutcomesFit(d)'
  BY RoomConstant DEF CallTells, OutcomesFit, OutcomeFits
<1>3. InChainOrder(d)'
  BY DEF CallTells, InChainOrder, Reported
<1>4. AllPassed(d)'
  BY RoomConstant DEF CallTells, AllPassed, Passed
<1>5. SeenFits(d)'
  BY <1>1, RoomConstant DEF CallTells, SeenFits
<1>6. CallBegins(d)' /\ CallEnds(d)'
  BY DEF CallTells, CallBegins, CallEnds
<1>7. QED
  BY <1>2, <1>3, <1>4, <1>5, <1>6 DEF CallTells

LEMMA OthersTell ==
  ASSUME RouterTypes, TellInv, NEW c \in Calls, Generate(c) \/ Ends(c) \/ Stays(c),
         NEW d \in Calls, d # c
  PROVE  CallTells(d)'
<1>1. /\ \E x : st' = [st EXCEPT ![c] = x]
      /\ at' = at \/ \E x : at' = [at EXCEPT ![c] = x]
      /\ \E x : rateLimited' = [rateLimited EXCEPT ![c] = x]
      /\ outcomes' = outcomes \/ \E x : outcomes' = [outcomes EXCEPT ![c] = x]
      /\ dead' = dead \/ \E x : dead' = [dead EXCEPT ![c] = x]
      /\ seen' = seen \/ \E x : seen' = [seen EXCEPT ![c] = x]
  BY DEF Generate, Ends, Stays, StaysAs, EndClient, GoOn
<1>2. /\ st'[d] = st[d] /\ at'[d] = at[d] /\ rateLimited'[d] = rateLimited[d]
      /\ outcomes'[d] = outcomes[d] /\ dead'[d] = dead[d] /\ seen'[d] = seen[d]
  BY <1>1 DEF RouterTypes, InLoop, TypeOK
<1>3. QED
  BY <1>2, TellsSame DEF TellInv

LEMMA GenerateTells ==
  ASSUME RouterTypes, NEW c \in Calls, CallTells(c), Generate(c)
  PROVE  CallTells(c)'
<1>1. /\ GoOn(c, 0, {}) /\ UNCHANGED <<outcomes, seen>>
      /\ at[c] = 0 /\ outcomes[c] = <<>> /\ dead[c] = {}
  BY DEF Generate, CallTells, CallBegins
<1>2. 0 \in Nat /\ 0 <= Len(Chain[c]) /\ {} \in SUBSET Providers
  BY ChainFacts
<1>3. /\ at'[c] \in (0 + 1)..(Len(Chain[c]) + 1)
      /\ \/ /\ st'[c] = "acquire"
            /\ at'[c] \in DOMAIN Chain[c] /\ RoomFor(c, Chain[c][at'[c]])
         \/ st'[c] = "failed" /\ at'[c] = Len(Chain[c]) + 1
      /\ \A m \in DOMAIN Chain[c] : 0 < m /\ m < at'[c] => ~Tries(c, m, {})
      /\ dead'[c] = {} /\ rateLimited'[c] = FALSE
  BY <1>1, <1>2, GoesOn
<1>4. DOMAIN Chain[c] = 1..Len(Chain[c]) /\ \A j \in DOMAIN Chain[c] : Chain[c][j] \in Clients
  BY ChainFacts
<1>5. outcomes'[c] = <<>> /\ \A i \in DOMAIN outcomes'[c] : FALSE
  BY <1>1
<1>6. \A k \in Clients : seen'[c][k] = "nothing"
  <2>1. \A j \in DOMAIN Chain[c] : ~(j <= at[c])
    BY <1>1, <1>2, <1>4
  <2>2. QED
    BY <1>1, <2>1 DEF CallTells, SeenFits
<1>7. OutcomesFit(c)' /\ InChainOrder(c)'
  BY <1>5 DEF OutcomesFit, InChainOrder, Reported
<1>8. AllPassed(c)'
  <2> SUFFICES ASSUME NEW j \in DOMAIN Chain[c], j < at'[c] PROVE ~RoomFor(c, Chain[c][j])'
    BY DEF AllPassed, Passed
  <2>1. 0 < j
    BY <1>4
  <2>2. ~Tries(c, j, {})
    BY <1>3, <2>1
  <2>3. QED
    BY <2>2, RoomConstant DEF Tries
<1>9. SeenFits(c)'
  <2>1. st'[c] \in InHand => Client(c)' = Chain[c][at'[c]] /\ Client(c)' \in Clients
                             /\ RoomFor(c, Chain[c][at'[c]])
    BY <1>3, <1>4 DEF Client, InHand
  <2>2. QED
    BY <1>3, <1>6, <2>1, RoomConstant DEF SeenFits
<1>10. CallBegins(c)' /\ CallEnds(c)'
  BY <1>3 DEF CallBegins, CallEnds
<1>11. QED
  BY <1>7, <1>8, <1>9, <1>10 DEF CallTells

LEMMA StaysTells ==
  ASSUME RouterTypes, NEW c \in Calls, CallTells(c), Stays(c)
  PROVE  CallTells(c)'
<1>0. PICK to \in {"acquire", "asleep", "http", "answered", "cancelled"}, what \in Sights,
           n \in 0..Retries : StaysAs(c, to, what, n)
  BY DEF Stays
<1>1. /\ st[c] \in InHand
      /\ st' = [st EXCEPT ![c] = to]
      /\ seen' = [seen EXCEPT ![c][Client(c)] = what]
      /\ what # "unusable"
      /\ rateLimited' = [rateLimited EXCEPT ![c] = (what = "429")]
      /\ UNCHANGED <<at, outcomes, dead>>
  BY <1>0, Zenon DEF StaysAs
<1> DEFINE k == Client(c)
<1>2. /\ at[c] \in DOMAIN Chain[c] /\ at[c] \in Nat /\ k = Chain[c][at[c]] /\ k \in Clients
  BY <1>1, InHandFacts
<1>3. st'[c] = to /\ (rateLimited'[c] <=> what = "429")
  BY <1>1 DEF RouterTypes, TypeOK
<1>4. \A x \in Clients : seen'[c][x] = IF x = k THEN what ELSE seen[c][x]
  BY <1>1, <1>2 DEF RouterTypes, TypeOK
<1>5. Client(c)' = k
  BY <1>1 DEF Client
<1> HIDE DEF k
<1>6. OutcomesFit(c)'
  <2> SUFFICES ASSUME NEW i \in DOMAIN outcomes[c] PROVE OutcomeFits(c, i)'
    BY <1>1 DEF OutcomesFit
  <2>1. OutcomeFits(c, i)
    BY DEF CallTells, OutcomesFit
  <2>2. PICK j \in DOMAIN Chain[c] : j < at[c] /\ Chain[c][j] = outcomes[c][i][1]
    BY <2>1 DEF OutcomeFits
  <2>3. outcomes[c][i][1] # k /\ outcomes[c][i][1] \in Clients
    BY <1>2, <2>2, ChainFacts
  <2>4. seen'[c][outcomes[c][i][1]] = seen[c][outcomes[c][i][1]]
    BY <1>4, <2>3
  <2>5. QED
    BY <1>1, <2>1, <2>4, RoomConstant DEF OutcomeFits
<1>7. InChainOrder(c)' /\ AllPassed(c)'
  BY <1>1, RoomConstant DEF CallTells, InChainOrder, AllPassed, Reported, Passed
<1>8. SeenFits(c)'
  <2>1. RoomFor(c, k) /\ at[c] <= at[c]
    BY <1>1, <1>2 DEF CallTells, SeenFits, k
  <2>2. \A x \in Clients : seen'[c][x] # "nothing" =>
           RoomFor(c, x) /\ \E j \in DOMAIN Chain[c] : j <= at[c] /\ Chain[c][j] = x
    BY <1>2, <1>4, <2>1 DEF CallTells, SeenFits
  <2>3. seen'[c][k] = what
    BY <1>2, <1>4
  <2>4. QED
    BY <1>1, <1>3, <1>5, <2>1, <2>2, <2>3, RoomConstant DEF SeenFits
<1>9. CallBegins(c)' /\ CallEnds(c)'
  BY <1>1, <1>3 DEF CallTells, CallBegins, CallEnds
<1>10. QED
  BY <1>6, <1>7, <1>8, <1>9 DEF CallTells

LEMMA EndsTells ==
  ASSUME RouterTypes, NEW c \in Calls, CallTells(c), Ends(c)
  PROVE  CallTells(c)'
<1>1. PICK outcome \in OutcomeKinds, dying \in SUBSET Providers, what \in Sights :
        /\ st[c] \in InHand
        /\ EndClient(c, outcome, dying)
        /\ seen' = [seen EXCEPT ![c][Client(c)] = what]
        /\ outcome = "bad_output" <=> what = "unusable"
        /\ outcome = "rate_limit" <=> what = "429"
        /\ dead[c] \subseteq dying
        /\ dying # dead[c] => outcome = "failed"
  BY DEF Ends
<1> DEFINE k == Client(c)
           o == outcomes[c]
           p == at'[c]
<1>2. /\ at[c] \in DOMAIN Chain[c] /\ at[c] <= Len(Chain[c]) /\ at[c] \in Nat
      /\ k = Chain[c][at[c]] /\ k \in Clients
  BY <1>1, InHandFacts
<1>3. /\ p \in (at[c] + 1)..(Len(Chain[c]) + 1)
      /\ \/ st'[c] = "acquire" /\ p \in DOMAIN Chain[c] /\ RoomFor(c, Chain[c][p])
         \/ st'[c] = "failed" /\ p = Len(Chain[c]) + 1
      /\ \A m \in DOMAIN Chain[c] : at[c] < m /\ m < p => ~Tries(c, m, dying)
      /\ dead'[c] = dying /\ rateLimited'[c] = FALSE
  BY <1>1, <1>2, GoesOn DEF EndClient
<1>4. /\ DOMAIN Chain[c] = 1..Len(Chain[c]) /\ Len(Chain[c]) \in Nat
      /\ \A j \in DOMAIN Chain[c] : Chain[c][j] \in Clients
      /\ \A i, j \in DOMAIN Chain[c] : Chain[c][i] = Chain[c][j] => i = j
  BY ChainFacts
<1>5. \A x \in Clients : seen'[c][x] = IF x = k THEN what ELSE seen[c][x]
  BY <1>1, <1>2 DEF RouterTypes, TypeOK
<1>6. outcomes'[c] = Append(o, <<k, outcome>>) /\ o \in Seq(Clients \X OutcomeKinds)
  BY <1>1 DEF EndClient, RouterTypes
<1>7. /\ DOMAIN outcomes'[c] = 1..(Len(o) + 1) /\ DOMAIN o = 1..Len(o) /\ Len(o) \in Nat
      /\ \A i \in 1..Len(o) : outcomes'[c][i] = o[i]
      /\ outcomes'[c][Len(o) + 1] = <<k, outcome>>
  BY <1>6
<1>8. at[c] < p /\ p \in Nat
  BY <1>2, <1>3, <1>4
<1>9. /\ OutcomesFit(c) /\ InChainOrder(c) /\ AllPassed(c) /\ SeenFits(c) /\ CallEnds(c)
      /\ RoomFor(c, k)
  BY <1>1 DEF CallTells, SeenFits
<1>10. ASSUME NEW i \in 1..Len(o)
       PROVE  /\ OutcomeFits(c, i) /\ o[i][1] # k /\ o[i][1] \in Clients
              /\ \E j \in DOMAIN Chain[c] : j < at[c] /\ Chain[c][j] = o[i][1]
  <2>1. OutcomeFits(c, i)
    BY <1>7, <1>9 DEF OutcomesFit
  <2>2. PICK j \in DOMAIN Chain[c] : j < at[c] /\ Chain[c][j] = o[i][1]
    BY <2>1 DEF OutcomeFits
  <2>3. QED
    BY <1>2, <1>4, <2>1, <2>2
<1> HIDE DEF k, o, p
<1>11. OutcomesFit(c)'
  <2> SUFFICES ASSUME NEW i \in DOMAIN outcomes'[c] PROVE OutcomeFits(c, i)'
    BY DEF OutcomesFit
  <2>1. CASE i \in 1..Len(o)
    <3>1. /\ OutcomeFits(c, i) /\ o[i][1] # k /\ o[i][1] \in Clients
      BY <1>10, <2>1
    <3>2. PICK j \in DOMAIN Chain[c] : j < at[c] /\ Chain[c][j] = o[i][1]
      BY <1>10, <2>1
    <3>3. j < at'[c]
      BY <1>2, <1>4, <1>8, <3>2 DEF p
    <3>4. outcomes'[c][i] = o[i] /\ seen'[c][o[i][1]] = seen[c][o[i][1]]
      BY <1>5, <1>7, <2>1, <3>1
    <3>5. /\ RoomFor(c, o[i][1])
          /\ o[i][2] = "bad_output" <=> seen[c][o[i][1]] = "unusable"
          /\ o[i][2] = "rate_limit" <=> seen[c][o[i][1]] = "429"
      BY <3>1 DEF OutcomeFits, o
    <3>6. QED
      BY <3>2, <3>3, <3>4, <3>5, RoomConstant DEF OutcomeFits
  <2>2. CASE i = Len(o) + 1
    <3>1. outcomes'[c][i] = <<k, outcome>> /\ seen'[c][k] = what
      BY <1>2, <1>5, <1>7, <2>2
    <3>2. at[c] < at'[c] /\ Chain[c][at[c]] = k
      BY <1>2, <1>8 DEF p
    <3>3. QED
      BY <1>1, <1>2, <1>9, <3>1, <3>2, RoomConstant DEF OutcomeFits
  <2>3. QED
    BY <1>7, <2>1, <2>2
<1>12. InChainOrder(c)'
  <2> SUFFICES ASSUME NEW i \in DOMAIN outcomes'[c], NEW m \in DOMAIN outcomes'[c],
                      NEW j \in DOMAIN Chain[c], NEW n \in DOMAIN Chain[c],
                      i < m, outcomes'[c][i][1] = Chain[c][j], outcomes'[c][m][1] = Chain[c][n]
               PROVE  j < n
    BY DEF InChainOrder, Reported
  <2>1. i \in 1..Len(o) /\ outcomes'[c][i] = o[i]
    BY <1>7
  <2>2. CASE m \in 1..Len(o)
    <3>1. outcomes'[c][m] = o[m]
      BY <1>7, <2>2
    <3>2. Reported(c, i, j) /\ Reported(c, m, n)
      BY <1>7, <2>1, <2>2, <3>1 DEF Reported, o
    <3>3. i \in DOMAIN outcomes[c] /\ m \in DOMAIN outcomes[c]
      BY <3>2 DEF Reported
    <3>4. QED
      BY <1>9, <3>2, <3>3 DEF InChainOrder
  <2>3. CASE m = Len(o) + 1
    <3>1. n = at[c]
      BY <1>2, <1>4, <1>7, <2>3
    <3>2. PICK j2 \in DOMAIN Chain[c] : j2 < at[c] /\ Chain[c][j2] = o[i][1]
      BY <1>10, <2>1
    <3>3. j = j2
      BY <1>4, <2>1, <3>2
    <3>4. QED
      BY <3>1, <3>2, <3>3
  <2>4. QED
    BY <1>7, <2>2, <2>3
<1>13. AllPassed(c)'
  <2> SUFFICES ASSUME NEW j \in DOMAIN Chain[c], j < p PROVE Passed(c, j)'
    BY DEF AllPassed, p
  <2>1. CASE j < at[c]
    <3>1. Passed(c, j)
      BY <1>9, <2>1 DEF AllPassed
    <3>2. ASSUME NEW i \in DOMAIN o, o[i][1] = Chain[c][j]
          PROVE  i \in DOMAIN outcomes'[c] /\ outcomes'[c][i][1] = Chain[c][j]
      BY <1>7, <3>2
    <3>3. dead[c] \subseteq dead'[c]
      BY <1>1, <1>3
    <3>4. QED
      BY <3>1, <3>2, <3>3, RoomConstant DEF Passed, o
  <2>2. CASE j = at[c]
    <3>1. Len(o) + 1 \in DOMAIN outcomes'[c] /\ outcomes'[c][Len(o) + 1][1] = Chain[c][j]
      BY <1>2, <1>7, <2>2
    <3>2. QED
      BY <3>1 DEF Passed
  <2>3. CASE at[c] < j
    <3>1. ~Tries(c, j, dying)
      BY <1>3, <2>3
    <3>2. QED
      BY <1>3, <3>1, RoomConstant DEF Tries, Passed
  <2>4. QED
    BY <1>2, <1>4, <2>1, <2>2, <2>3
<1>14. SeenFits(c)'
  <2>1. ASSUME NEW x \in Clients, seen'[c][x] # "nothing"
        PROVE  RoomFor(c, x)' /\ \E j \in DOMAIN Chain[c] : j <= p /\ Chain[c][j] = x
    <3>1. CASE x = k
      BY <1>2, <1>4, <1>8, <1>9, <3>1, RoomConstant
    <3>2. CASE x # k
      <4>1. RoomFor(c, x)
        BY <1>5, <1>9, <2>1, <3>2 DEF SeenFits
      <4>2. PICK j \in DOMAIN Chain[c] : j <= at[c] /\ Chain[c][j] = x
        BY <1>5, <1>9, <2>1, <3>2 DEF SeenFits
      <4>3. j <= p
        BY <1>2, <1>4, <1>8, <4>2
      <4>4. QED
        BY <4>1, <4>2, <4>3, RoomConstant
    <3>3. QED
      BY <3>1, <3>2
  <2>2. CASE st'[c] = "failed"
    BY <2>1, <2>2 DEF SeenFits, InHand, p
  <2>3. CASE st'[c] = "acquire" /\ p \in DOMAIN Chain[c] /\ RoomFor(c, Chain[c][p])
    <3>1. Client(c)' = Chain[c][p]
      BY DEF Client, p
    <3>2. Chain[c][p] \in Clients /\ Chain[c][p] # k
      BY <1>2, <1>4, <1>8, <2>3
    <3>3. seen[c][Chain[c][p]] = "nothing"
      <4> SUFFICES ASSUME seen[c][Chain[c][p]] # "nothing" PROVE FALSE
        OBVIOUS
      <4>1. PICK j \in DOMAIN Chain[c] : j <= at[c] /\ Chain[c][j] = Chain[c][p]
        BY <1>9, <3>2 DEF SeenFits
      <4>2. j = p
        BY <1>4, <2>3, <4>1
      <4>3. QED
        BY <1>2, <1>8, <4>1, <4>2
    <3>4. seen'[c][Chain[c][p]] = "nothing"
      BY <1>5, <3>2, <3>3
    <3>5. QED
      BY <1>3, <2>1, <2>3, <3>1, <3>4, RoomConstant DEF SeenFits, p
  <2>4. QED
    BY <1>3, <2>2, <2>3
<1>15. CallBegins(c)'
  BY <1>3 DEF CallBegins
<1>16. CallEnds(c)'
  <2>1. ASSUME dead'[c] # {}
        PROVE  \E i \in DOMAIN outcomes'[c] : outcomes'[c][i][2] = "failed"
    <3>1. CASE dying # dead[c]
      <4>1. outcomes'[c][Len(o) + 1][2] = "failed" /\ Len(o) + 1 \in DOMAIN outcomes'[c]
        BY <1>1, <1>7, <3>1
      <4>2. QED
        BY <4>1
    <3>2. CASE dying = dead[c]
      <4>1. PICK i \in DOMAIN o : o[i][2] = "failed"
        BY <1>3, <1>9, <2>1, <3>2 DEF CallEnds, o
      <4>2. i \in DOMAIN outcomes'[c] /\ outcomes'[c][i] = o[i]
        BY <1>7
      <4>3. QED
        BY <4>1, <4>2
    <3>3. QED
      BY <3>1, <3>2
  <2>2. QED
    BY <1>3, <2>1 DEF CallEnds, p
<1>17. QED
  BY <1>11, <1>12, <1>13, <1>14, <1>15, <1>16 DEF CallTells

LEMMA TellInit == Init => TellInv
<1> SUFFICES ASSUME Init, NEW c \in Calls PROVE CallTells(c)
  BY DEF TellInv
<1>1. /\ st[c] = "idle" /\ at[c] = 0 /\ outcomes[c] = <<>> /\ dead[c] = {}
      /\ \A k \in Clients : seen[c][k] = "nothing"
  BY DEF Init
<1>2. \A i \in DOMAIN outcomes[c] : FALSE
  BY <1>1
<1>3. \A j \in DOMAIN Chain[c] : ~(j < at[c])
  BY <1>1, ChainFacts
<1>4. OutcomesFit(c) /\ InChainOrder(c)
  BY <1>2 DEF OutcomesFit, InChainOrder, Reported
<1>5. AllPassed(c)
  BY <1>3 DEF AllPassed
<1>6. SeenFits(c)
  BY <1>1 DEF SeenFits, InHand
<1>7. CallBegins(c) /\ CallEnds(c)
  BY <1>1 DEF CallBegins, CallEnds
<1>8. QED
  BY <1>4, <1>5, <1>6, <1>7 DEF CallTells

LEMMA TellStep == RouterTypes /\ TellInv /\ [Next]_vars => RouterTypes' /\ TellInv'
<1> SUFFICES ASSUME RouterTypes, TellInv, [Next]_vars PROVE RouterTypes' /\ TellInv'
  OBVIOUS
<1>1. ASSUME NEW c \in Calls, Generate(c) \/ Ends(c) \/ Stays(c)
      PROVE  RouterTypes' /\ TellInv'
  <2>1. CallTells(c)
    BY DEF TellInv
  <2>2. RouterTypes'
    BY <1>1, GenerateTyped, EndsTyped, StaysTyped
  <2>3. CallTells(c)'
    BY <1>1, <2>1, GenerateTells, EndsTells, StaysTells
  <2>4. \A d \in Calls : d # c => CallTells(d)'
    BY <1>1, OthersTell
  <2>5. QED
    BY <2>2, <2>3, <2>4 DEF TellInv
<1>2. ASSUME NEW c \in Calls, Generate(c) \/ Proceed(c) \/ Cancel(c)
      PROVE  RouterTypes' /\ TellInv'
  BY <1>1, <1>2, ProceedEffect DEF TellInv
<1>3. CASE UNCHANGED <<callVars, useFormat>>
  <2>1. UNCHANGED <<st, at, attempt, rateLimited, outcomes, dead, deadlineHit, sent, seen,
                    useFormat>>
    BY <1>3 DEF callVars
  <2>2. RouterTypes'
    BY <2>1 DEF RouterTypes, TypeOK, InLoop
  <2>3. TellInv'
    BY <2>1, TellsSame DEF TellInv
  <2>4. QED
    BY <2>2, <2>3
<1>4. QED
  BY <1>2, <1>3 DEF Next, Tick, vars

LEMMA TellAlways == Spec => [](RouterTypes /\ TellInv)
BY RouterTypesInit, TellInit, TellStep, PTL DEF Spec

\* The router's variables keep their types, whatever the providers answer.
THEOREM RouterTypeCorrect == Spec => []TypeOK
<1>1. RouterTypes => TypeOK
  BY DEF RouterTypes
<1>2. QED
  BY <1>1, TellAlways, PTL

\* bad_output is raised exactly when some client answered and no other ended otherwise.
LEMMA RaisedRightly ==
  ASSUME RouterTypes, NEW c \in Calls, CallTells(c), st[c] = "failed"
  PROVE  BadOutputRaised(c) <=>
            /\ \E k \in Clients : seen[c][k] = "unusable"
            /\ \A i \in 1..Len(Chain[c]) :
                   Tries(c, i, dead[c]) => seen[c][Chain[c][i]] = "unusable"
            /\ dead[c] = {}
<1>1. /\ OutcomesFit(c) /\ AllPassed(c) /\ SeenFits(c)
      /\ dead[c] # {} => \E i \in DOMAIN outcomes[c] : outcomes[c][i][2] = "failed"
      /\ at[c] = Len(Chain[c]) + 1
  BY DEF CallTells, CallEnds
<1>2. /\ DOMAIN Chain[c] = 1..Len(Chain[c]) /\ Len(Chain[c]) \in Nat
      /\ \A j \in DOMAIN Chain[c] : Chain[c][j] \in Clients
  BY ChainFacts
<1>3. \A j \in DOMAIN Chain[c] : Passed(c, j)
  BY <1>1, <1>2 DEF AllPassed
<1>4. outcomes[c] \in Seq(Clients \X OutcomeKinds)
  BY DEF RouterTypes
<1>5. \A i \in DOMAIN outcomes[c] : OutcomeFits(c, i) /\ outcomes[c][i][1] \in Clients
  BY <1>1, <1>4 DEF OutcomesFit
<1>6. ASSUME BadOutputRaised(c)
      PROVE  /\ \E k \in Clients : seen[c][k] = "unusable"
             /\ \A i \in 1..Len(Chain[c]) :
                    Tries(c, i, dead[c]) => seen[c][Chain[c][i]] = "unusable"
             /\ dead[c] = {}
  <2>1. /\ outcomes[c] # <<>>
        /\ \A i \in DOMAIN outcomes[c] : outcomes[c][i][2] = "bad_output"
    BY <1>6 DEF BadOutputRaised
  <2>2. \A i \in DOMAIN outcomes[c] : seen[c][outcomes[c][i][1]] = "unusable"
    BY <1>5, <2>1 DEF OutcomeFits
  <2>3. 1 \in DOMAIN outcomes[c]
    BY <1>4, <2>1
  <2>4. dead[c] = {}
    BY <1>1, <2>1
  <2>5. ASSUME NEW j \in DOMAIN Chain[c], Tries(c, j, dead[c])
        PROVE  seen[c][Chain[c][j]] = "unusable"
    BY <1>3, <2>2, <2>5 DEF Passed, Tries
  <2>6. QED
    BY <1>2, <1>5, <2>2, <2>3, <2>4, <2>5
<1>7. ASSUME NEW k \in Clients, seen[c][k] = "unusable", dead[c] = {},
             \A i \in DOMAIN Chain[c] :
                 Tries(c, i, dead[c]) => seen[c][Chain[c][i]] = "unusable"
      PROVE  BadOutputRaised(c)
  <2>1. RoomFor(c, k) /\ \E j \in DOMAIN Chain[c] : Chain[c][j] = k
    BY <1>1, <1>7 DEF SeenFits
  <2>2. \E i \in DOMAIN outcomes[c] : outcomes[c][i][1] = k
    BY <1>3, <1>7, <2>1 DEF Passed
  <2>3. outcomes[c] # <<>>
    BY <1>4, <2>2
  <2>4. ASSUME NEW i \in DOMAIN outcomes[c] PROVE outcomes[c][i][2] = "bad_output"
    <3>1. PICK j \in DOMAIN Chain[c] : Chain[c][j] = outcomes[c][i][1]
      BY <1>5 DEF OutcomeFits
    <3>2. Tries(c, j, dead[c])
      BY <1>5, <1>7, <3>1 DEF Tries, OutcomeFits
    <3>3. QED
      BY <1>5, <1>7, <3>1, <3>2 DEF OutcomeFits
  <2>5. QED
    BY <2>3, <2>4 DEF BadOutputRaised
<1>8. QED
  BY <1>2, <1>6, <1>7

\* What a call reports is what happened, in chain order, for any calls, chains of
\* distinct clients, retries and responses.
THEOREM OutcomesSound == Spec => []OutcomesTellWhatHappened
<1>1. RouterTypes /\ TellInv => OutcomesTellWhatHappened
  <2> SUFFICES ASSUME RouterTypes, TellInv PROVE OutcomesTellWhatHappened
    OBVIOUS
  <2> DEFINE pos(c, i) == CHOOSE j \in 1..Len(Chain[c]) : Chain[c][j] = outcomes[c][i][1]
  <2>1. ASSUME NEW c \in Calls
        PROVE  /\ CallTells(c) /\ outcomes[c] \in Seq(Clients \X OutcomeKinds)
               /\ DOMAIN Chain[c] = 1..Len(Chain[c]) /\ at[c] \in 0..(Len(Chain[c]) + 1)
               /\ Len(Chain[c]) \in Nat
    BY ChainFacts DEF TellInv, RouterTypes, TypeOK
  <2>2. ASSUME NEW c \in Calls, NEW i \in DOMAIN outcomes[c]
        PROVE  /\ pos(c, i) \in DOMAIN Chain[c] /\ Chain[c][pos(c, i)] = outcomes[c][i][1]
               /\ OutcomeFits(c, i)
    <3>1. OutcomeFits(c, i)
      BY <2>1 DEF CallTells, OutcomesFit
    <3>2. \E j \in 1..Len(Chain[c]) : Chain[c][j] = outcomes[c][i][1]
      BY <2>1, <3>1 DEF OutcomeFits
    <3>3. QED
      BY <2>1, <3>1, <3>2
  <2> HIDE DEF pos
  <2>3. ASSUME NEW c \in Calls, NEW i \in DOMAIN outcomes[c]
        PROVE  /\ outcomes[c][i][2] = "bad_output" <=> seen[c][outcomes[c][i][1]] = "unusable"
               /\ outcomes[c][i][2] = "rate_limit" <=> seen[c][outcomes[c][i][1]] = "429"
    BY <2>2 DEF OutcomeFits
  <2>4. ASSUME NEW c \in Calls, NEW i \in DOMAIN outcomes[c], NEW m \in DOMAIN outcomes[c], i < m
        PROVE  pos(c, i) < pos(c, m)
    BY <2>1, <2>2, <2>4 DEF CallTells, InChainOrder, Reported
  <2>5. ASSUME NEW c \in Calls, NEW j \in 1..(at[c] - 1)
        PROVE  \/ \E i \in DOMAIN outcomes[c] : pos(c, i) = j
               \/ ProviderOf[Chain[c][j]] \in dead[c] \/ ~RoomFor(c, Chain[c][j])
    <3>1. j \in DOMAIN Chain[c] /\ j < at[c]
      BY <2>1
    <3>2. Passed(c, j)
      BY <2>1, <3>1 DEF CallTells, AllPassed
    <3>3. ASSUME NEW i \in DOMAIN outcomes[c], outcomes[c][i][1] = Chain[c][j]
          PROVE  pos(c, i) = j
      BY <2>2, <3>1, <3>3, ChainFacts
    <3>4. QED
      BY <3>2, <3>3 DEF Passed
  <2>6. ASSUME NEW c \in Calls, st[c] = "failed"
        PROVE  BadOutputRaised(c) <=>
                  /\ \E k \in Clients : seen[c][k] = "unusable"
                  /\ \A i \in 1..Len(Chain[c]) :
                         Tries(c, i, dead[c]) => seen[c][Chain[c][i]] = "unusable"
                  /\ dead[c] = {}
    BY <2>1, <2>6, RaisedRightly
  <2>7. QED
    BY <2>3, <2>4, <2>5, <2>6 DEF OutcomesTellWhatHappened, pos
<1>2. QED
  BY <1>1, TellAlways, PTL
==============================================================================
