------------------------------ MODULE TokenPacer -----------------------------
(***************************************************************************)
(* TokenPacer (backend/app/core/llm_client.py:717-783): the token budget   *)
(* per model and minute that all the scans of a process share.  A call     *)
(* reserves its tokens at the earliest instant they fit and sleeps until   *)
(* then; a block (Retry-After, backoff) moves later calls on.              *)
(*                                                                         *)
(* Time is an integer clock.  A coroutine runs from one await to the next, *)
(* so a reservation is one step; a sleeper may wake late, never early.     *)
(***************************************************************************)
EXTENDS Integers, FiniteSets, FiniteSetsExt

CONSTANTS
    Callers,       \* coroutines calling acquire
    Keys,          \* client labels, "<provider>:<model>"
    ProviderOf,    \* ProviderOf[k]: the provider of a label
    Limits,        \* LLM_TPM_LIMITS: of labels and providers, 0 for None
    Window,        \* WINDOW_S
    Tokens,        \* token estimates a caller may come with
    Waits,         \* values of max_wait
    Deadlines,     \* values of deadline
    Blocks,        \* seconds a caller may block a key for, as the header states them
    MaxNow         \* bound: the clock stops there

ASSUME WindowAssumption == Window \in Nat \ {0} /\ MaxNow \in Nat
ASSUME LimitsAssumption ==
    /\ DOMAIN Limits \subseteq Keys \cup {ProviderOf[k] : k \in Keys}
    /\ \A x \in DOMAIN Limits : Limits[x] \in Nat
ASSUME TokensAssumption ==
    Tokens \subseteq Nat /\ Waits \subseteq Nat /\ Deadlines \subseteq Nat /\ Blocks \subseteq Int

VARIABLES
    now,           \* clock()
    reserved,      \* _reserved[k], a reservation [id, at, n] with its place in the list
    blockedUntil,  \* _blocked_until[k]
    asleep,        \* asleep[c]: reservation (and key) caller c waits for, NoSlot if none
    granted        \* history: every reservation ever made on k

vars == <<now, reserved, blockedUntil, asleep, granted>>

NoSlot == [key |-> "none", at |-> 0]

Larger(x, y) == IF x >= y THEN x ELSE y

Init ==
    /\ now = 0
    /\ reserved = [k \in Keys |-> {}]
    /\ blockedUntil = [k \in Keys |-> 0]
    /\ asleep = [c \in Callers |-> NoSlot]
    /\ granted = [k \in Keys |-> {}]

------------------------------------------------------------------------------
\* limit_for: the label's own entry, even None, else its provider's; 0 is none.
LimitFor(k) ==
    IF k \in DOMAIN Limits THEN Limits[k]
    ELSE IF ProviderOf[k] \in DOMAIN Limits THEN Limits[ProviderOf[k]]
    ELSE 0

Total(R) == MapThenSumSet(LAMBDA r : r.n, R)

\* Reservations of R that share a window with an instant.
Within(R, s) == {r \in R : r.at > s - Window}

\* Mutant: a call that still sleeps is not counted.
KeptStarted(k) == {r \in Within(reserved[k], now) : r.at <= now}
Kept(k) == Within(reserved[k], now)

Fits(R, n, s, limit) == Within(R, s) = {} \/ Total(Within(R, s)) + n <= limit

\* Not before now, not while blocked, not before the reservation made last.
Floor(k) ==
    LET start == Larger(now, blockedUntil[k])
        last == {r \in Kept(k) : \A q \in Kept(k) : q.id <= r.id}
    IN CHOOSE s \in {start} \cup {r.at : r \in last} :
           s >= start /\ \A r \in last : s >= r.at

\* Mutant: wait until the whole window has passed.
CandidatesLate(k) ==
    {Floor(k)} \cup {r.at + Window : r \in {q \in Kept(k) : \A p \in Kept(k) : p.at <= q.at}}
\* The instants the loop looks at: whenever the oldest reservation leaves the window.
Candidates(k) == {Floor(k)} \cup {r.at + Window : r \in Kept(k)}

\* earliest_start, without and with a limit.
EarliestStart(k, n, s) ==
    IF LimitFor(k) = 0 THEN s = Larger(now, blockedUntil[k])
    ELSE /\ s \in Candidates(k) /\ s >= Floor(k)
         /\ Fits(Kept(k), n, s, LimitFor(k))
         /\ \A t \in Candidates(k) :
                Floor(k) <= t /\ t < s => ~Fits(Kept(k), n, t, LimitFor(k))

\* Mutant: the reservation is put down for the time of the request.
ReserveNow(k, n, s) ==
    LET r == [id |-> Cardinality(granted[k]) + 1, at |-> now, n |-> n] IN
    /\ reserved' = [reserved EXCEPT ![k] = IF LimitFor(k) = 0 THEN Kept(k)
                                           ELSE Kept(k) \cup {r}]
    /\ granted' = [granted EXCEPT ![k] = IF LimitFor(k) = 0 THEN @
                                         ELSE @ \cup {[r EXCEPT !.at = s]}]
\* Reserve n tokens of k at s; a key without a limit keeps no list.
Reserve(k, n, s) ==
    LET r == [id |-> Cardinality(granted[k]) + 1, at |-> s, n |-> n] IN
    /\ reserved' = [reserved EXCEPT ![k] = IF LimitFor(k) = 0 THEN Kept(k)
                                           ELSE Kept(k) \cup {r}]
    /\ granted' = [granted EXCEPT ![k] = IF LimitFor(k) = 0 THEN @ ELSE @ \cup {r}]

\* acquire returns PACE_OK at once, or after a sleep.
Grant(c, k, n, deadline, maxWait, s) ==
    /\ asleep[c] = NoSlot
    /\ EarliestStart(k, n, s)
    /\ s <= deadline /\ s - now <= maxWait
    /\ Reserve(k, n, s)
    /\ asleep' = IF s > now THEN [asleep EXCEPT ![c] = [key |-> k, at |-> s]] ELSE asleep
    /\ UNCHANGED <<now, blockedUntil>>

\* acquire returns PACE_DEADLINE or PACE_TOO_LONG, nothing reserved.
Refuse(c, k, n, deadline, maxWait, s, why) ==
    /\ asleep[c] = NoSlot
    /\ EarliestStart(k, n, s)
    /\ why = IF s > deadline THEN "deadline" ELSE "too_long"
    /\ s > deadline \/ s - now > maxWait
    /\ reserved' = [reserved EXCEPT ![k] = Kept(k)]
    /\ UNCHANGED <<now, blockedUntil, asleep, granted>>

\* The sleep is over: the call starts.
Wake(c) ==
    /\ asleep[c] # NoSlot
    /\ now >= asleep[c].at
    /\ asleep' = [asleep EXCEPT ![c] = NoSlot]
    /\ UNCHANGED <<now, reserved, blockedUntil, granted>>

\* The scan is cancelled in its sleep; its reservation stays.
Abandon(c) ==
    /\ asleep[c] # NoSlot
    /\ asleep' = [asleep EXCEPT ![c] = NoSlot]
    /\ UNCHANGED <<now, reserved, blockedUntil, granted>>

BlockedTo(k, seconds) == Larger(blockedUntil[k], now + Larger(seconds, 0))

Block(k, seconds) ==
    /\ blockedUntil' = [blockedUntil EXCEPT ![k] = BlockedTo(k, seconds)]
    /\ UNCHANGED <<now, reserved, asleep, granted>>

\* Time passes.
Tick ==
    /\ now < MaxNow
    /\ now' = now + 1
    /\ UNCHANGED <<reserved, blockedUntil, asleep, granted>>

------------------------------------------------------------------------------
Acquire(c) ==
    \E k \in Keys, n \in Tokens, deadline \in Deadlines, maxWait \in Waits :
        \E s \in Candidates(k) \cup {Larger(now, blockedUntil[k])} :
            \/ Grant(c, k, n, deadline, maxWait, s)
            \/ \E why \in {"deadline", "too_long"} :
                   Refuse(c, k, n, deadline, maxWait, s, why)

Next ==
    \/ \E c \in Callers : Acquire(c) \/ Wake(c) \/ Abandon(c)
    \/ \E k \in Keys, seconds \in Blocks : Block(k, seconds)
    \/ Tick

Spec == Init /\ [][Next]_vars
------------------------------------------------------------------------------
(* Properties.                                                             *)

Reservation == [id : Nat, at : Nat, n : Nat]

\* Every variable keeps its type; the list holds reservations that were granted.
TypeOK ==
    /\ now \in Nat
    /\ granted \in [Keys -> SUBSET Reservation]
    /\ reserved \in [Keys -> SUBSET Reservation]
    /\ blockedUntil \in [Keys -> Nat]
    /\ asleep \in [Callers -> [key : Keys \cup {"none"}, at : Nat]]

\* No model gets more than its tokens per minute (docstring, 718-730): the
\* reservations of the last 60 s before any one, and it, fit the limit; one that
\* alone is over the limit has its window for itself.  Whatever the order of the
\* requests, the blocks between them and the pruning of the list.
WindowFits ==
    \A k \in Keys : \A r \in granted[k] :
        LET before == {q \in granted[k] : q.id < r.id} IN Fits(before, r.n, r.at, LimitFor(k))

\* First come, first served on a model: a call that asked later never starts before
\* one that asked earlier ("Reservations are made ... in FIFO order", 725).
FirstComeFirstServed ==
    \A k \in Keys : \A q, r \in granted[k] : q.id < r.id => q.at <= r.at

\* The start found by jumping from one leaving reservation to the next is the least
\* instant at all with room for the call: no call waits longer than it must.
StartsAsSoonAsRoom ==
    \A k \in Keys, n \in Tokens :
        LimitFor(k) > 0 => \E s \in Candidates(k) :
            /\ EarliestStart(k, n, s)
            /\ \A t \in Floor(k)..(s - 1) : ~Fits(Kept(k), n, t, LimitFor(k))
==============================================================================
