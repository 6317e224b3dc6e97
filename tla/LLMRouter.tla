------------------------------ MODULE LLMRouter -----------------------------
(***************************************************************************)
(* LLMRouter.generate and LLMClient.complete (backend/app/core/            *)
(* llm_client.py): concurrent calls, each over its chain of clients with   *)
(* retries, all paced by one TokenPacer and sharing the clients' state.    *)
(*                                                                         *)
(* One step is what a call does between two awaits: the handling of a      *)
(* response runs on to the next client's reservation being asked for.      *)
(***************************************************************************)
EXTENDS Integers, FiniteSets, Sequences

CONSTANTS
    Calls,          \* generate calls of the scans of one process
    Clients,        \* client labels
    ProviderOf,     \* ProviderOf[k]
    Chain,          \* Chain[c]: the clients a call tries, verifier model first for a verifier
    Limits, Window, \* LLM_TPM_LIMITS, WINDOW_S
    Prompt,         \* Prompt[c]: prompt_tokens
    OutputEstimate, MinOutput, \* LLM_OUTPUT_TOKENS_ESTIMATE, MIN_OUTPUT_TOKENS
    Retries,        \* LLM_RETRIES
    MaxWait,        \* LLM_MAX_WAIT_S
    Deadline,       \* Deadline[c]
    RetryAfters,    \* Retry-After headers a provider may send
    Backoffs,       \* 2 * 2**attempt with its jitter
    FormatFallback, \* clients whose provider has response_format_fallback
    RefusesFormat,  \* external: models that answer 400 to response_format
    MaxNow          \* bound: the clock stops there, no deadline is later

ASSUME ChainAssumption ==
    \A c \in Calls : /\ Chain[c] \in Seq(Clients)
                     /\ \A i, j \in DOMAIN Chain[c] : Chain[c][i] = Chain[c][j] => i = j
ASSUME SettingsAssumption ==
    /\ Window \in Nat \ {0} /\ MaxNow \in Nat
    /\ DOMAIN Limits \subseteq Clients \cup {ProviderOf[k] : k \in Clients}
    /\ \A x \in DOMAIN Limits : Limits[x] \in Nat
    /\ Prompt \in [Calls -> Nat] /\ OutputEstimate \in Nat /\ MinOutput \in Nat
    /\ Retries \in Nat /\ MaxWait \in Nat /\ Deadline \in [Calls -> 0..MaxNow]
    /\ RetryAfters \subseteq Int /\ Backoffs \subseteq Nat

VARIABLES
    now, reserved, blockedUntil, asleep, granted,   \* the pacer's
    st,           \* "idle", "acquire", "asleep", "http", "answered", "failed", "cancelled"
    at,           \* position of `for client in self.clients`
    attempt,      \* of `for attempt in range(LLM_RETRIES + 1)`
    rateLimited, outcomes, dead, deadlineHit,   \* locals
    useFormat,    \* client.use_response_format, shared by all calls
    sent,         \* the request in flight carries response_format
    seen          \* history: what call c last saw of client k

pacerVars == <<now, reserved, blockedUntil, asleep, granted>>
callVars == <<st, at, attempt, rateLimited, outcomes, dead, deadlineHit, sent, seen>>
vars == <<pacerVars, callVars, useFormat>>

Pacer == INSTANCE TokenPacer WITH
    Callers <- Calls, Keys <- Clients,
    Tokens <- {Prompt[c] + OutputEstimate : c \in Calls},
    Waits <- {MaxWait}, Deadlines <- {Deadline[c] : c \in Calls},
    Blocks <- RetryAfters \cup Backoffs

Init ==
    /\ Pacer!Init
    /\ st = [c \in Calls |-> "idle"]
    /\ at = [c \in Calls |-> 0] /\ attempt = [c \in Calls |-> 0]
    /\ rateLimited = [c \in Calls |-> FALSE]
    /\ outcomes = [c \in Calls |-> <<>>]
    /\ dead = [c \in Calls |-> {}]
    /\ deadlineHit = [c \in Calls |-> FALSE]
    /\ useFormat = [k \in Clients |-> TRUE]
    /\ sent = [c \in Calls |-> FALSE]
    /\ seen = [c \in Calls |-> [k \in Clients |-> "nothing"]]

------------------------------------------------------------------------------
Client(c) == Chain[c][at[c]]

\* max_output_tokens is not 0.
RoomFor(c, k) ==
    Pacer!LimitFor(k) > 0 => Pacer!LimitFor(k) - Prompt[c] >= MinOutput

\* The client at i is tried: its provider is alive, the prompt leaves it room.
Tries(c, i, dying) == ProviderOf[Chain[c][i]] \notin dying /\ RoomFor(c, Chain[c][i])

Rest(c, i, dying) == {j \in (i + 1)..Len(Chain[c]) : Tries(c, j, dying)}

\* Go on with the first client after position i that is tried, or raise.
GoOn(c, i, dying) ==
    LET rest == Rest(c, i, dying) IN
    /\ dead' = [dead EXCEPT ![c] = dying]
    /\ attempt' = [attempt EXCEPT ![c] = 0]
    /\ rateLimited' = [rateLimited EXCEPT ![c] = FALSE]
    /\ \/ /\ rest = {}
          /\ st' = [st EXCEPT ![c] = "failed"]
          /\ at' = [at EXCEPT ![c] = Len(Chain[c]) + 1]
       \/ \E j \in rest :
          /\ \A m \in rest : j <= m
          /\ st' = [st EXCEPT ![c] = "acquire"]
          /\ at' = [at EXCEPT ![c] = j]

\* The client has ended with this outcome: on to the next one.
EndClient(c, outcome, dying) ==
    /\ outcomes' = [outcomes EXCEPT ![c] = Append(@, <<Client(c), outcome>>)]
    /\ GoOn(c, at[c], dying)

Saw(c, what) == seen' = [seen EXCEPT ![c][Client(c)] = what]

Generate(c) ==
    /\ st[c] = "idle"
    /\ GoOn(c, 0, {})
    /\ UNCHANGED <<pacerVars, outcomes, deadlineHit, useFormat, sent, seen>>

\* acquire returns at once or sleeps; complete posts the request.
Reserve(c) ==
    /\ st[c] = "acquire"
    /\ \E s \in Pacer!Candidates(Client(c)) \cup {Pacer!Larger(now, blockedUntil[Client(c)])} :
        /\ Pacer!Grant(c, Client(c), Prompt[c] + OutputEstimate, Deadline[c], MaxWait, s)
        /\ st' = [st EXCEPT ![c] = IF s > now THEN "asleep" ELSE "http"]
        /\ sent' = [sent EXCEPT ![c] = s <= now /\ useFormat[Client(c)]]
    /\ UNCHANGED <<at, attempt, rateLimited, outcomes, dead, deadlineHit, useFormat, seen>>

\* Mutant: how the client's last attempt went is forgotten.
SkippedAsForgotten(c) == "failed"
SkippedAs(c) == IF rateLimited[c] THEN "rate_limit" ELSE "failed"

\* Mutant: a call whose deadline is too near is not given up.
SkipClientTooLong(c) ==
    /\ st[c] = "acquire"
    /\ \E s \in Pacer!Candidates(Client(c)) \cup {Pacer!Larger(now, blockedUntil[Client(c)])} :
        /\ s <= Deadline[c]
        /\ Pacer!Refuse(c, Client(c), Prompt[c] + OutputEstimate, Deadline[c], MaxWait, s, "too_long")
    /\ EndClient(c, SkippedAs(c), dead[c])
    /\ UNCHANGED <<deadlineHit, useFormat, sent, seen>>
SkipClient(c) ==
    /\ st[c] = "acquire"
    /\ \E why \in {"deadline", "too_long"},
          s \in Pacer!Candidates(Client(c)) \cup {Pacer!Larger(now, blockedUntil[Client(c)])} :
        /\ Pacer!Refuse(c, Client(c), Prompt[c] + OutputEstimate, Deadline[c], MaxWait, s, why)
        /\ deadlineHit' = [deadlineHit EXCEPT ![c] = @ \/ why = "deadline"]
    /\ EndClient(c, SkippedAs(c), dead[c])
    /\ UNCHANGED <<useFormat, sent, seen>>

WakeUp(c) ==
    /\ st[c] = "asleep"
    /\ Pacer!Wake(c)
    /\ st' = [st EXCEPT ![c] = "http"]
    /\ sent' = [sent EXCEPT ![c] = useFormat[Client(c)]]
    /\ UNCHANGED <<at, attempt, rateLimited, outcomes, dead, deadlineHit, useFormat, seen>>

\* A valid answer.
Answer(c) ==
    /\ st[c] = "http"
    /\ st' = [st EXCEPT ![c] = "answered"]
    /\ UNCHANGED <<pacerVars, at, attempt, rateLimited, outcomes, dead, deadlineHit, useFormat,
                   sent, seen>>

\* InvalidAnswer, JSONDecodeError, or a _Retriable that is not transient.
BadOutput(c) ==
    /\ st[c] = "http"
    /\ Saw(c, "unusable")
    /\ EndClient(c, "bad_output", dead[c])
    /\ UNCHANGED <<pacerVars, deadlineHit, useFormat, sent>>

MayRetry(c) == attempt[c] < Retries

Limited(c, is429) == is429

\* 429 or 5xx (with a Retry-After or not), timeout, call deadline, transport error.
Transient(c, is429) ==
    /\ st[c] = "http"
    /\ Saw(c, IF is429 THEN "429" ELSE "transient")
    /\ \/ /\ MayRetry(c)
          /\ \E seconds \in RetryAfters \cup Backoffs : Pacer!Block(Client(c), seconds)
          /\ st' = [st EXCEPT ![c] = "acquire"]
          /\ attempt' = [attempt EXCEPT ![c] = @ + 1]
          /\ rateLimited' = [rateLimited EXCEPT ![c] = Limited(c, is429)]
          /\ UNCHANGED <<at, outcomes, dead>>
       \/ /\ ~MayRetry(c)
          /\ \/ \E seconds \in RetryAfters : Pacer!Block(Client(c), seconds)
             \/ UNCHANGED pacerVars
          /\ EndClient(c, IF Limited(c, is429) THEN "rate_limit" ELSE "failed", dead[c])
    /\ UNCHANGED <<deadlineHit, useFormat, sent>>

\* LLMError: 402 for the whole provider, any other 4xx for this model.
HttpError(c, providerWide) ==
    /\ st[c] = "http"
    /\ Saw(c, "refused")
    /\ EndClient(c, "failed",
                 IF providerWide THEN dead[c] \cup {ProviderOf[Client(c)]} ELSE dead[c])
    /\ UNCHANGED <<pacerVars, deadlineHit, useFormat, sent>>

\* _rejects_response_format reads the client's flag after the response came.
FormatRejected(c) ==
    /\ st[c] = "http"
    /\ sent[c] /\ Client(c) \in RefusesFormat
    /\ \/ /\ Client(c) \in FormatFallback /\ useFormat[Client(c)]
          /\ useFormat' = [useFormat EXCEPT ![Client(c)] = FALSE]
          /\ sent' = [sent EXCEPT ![c] = FALSE]
          /\ UNCHANGED <<pacerVars, st, at, attempt, rateLimited, outcomes, dead, deadlineHit,
                         seen>>
       \/ /\ ~(Client(c) \in FormatFallback /\ useFormat[Client(c)])
          /\ Saw(c, "format")
          /\ EndClient(c, "failed", dead[c])
          /\ UNCHANGED <<pacerVars, deadlineHit, useFormat, sent>>

\* Mutant: the tokens of a call cancelled in its sleep are given back.
QuitRefunding(c) ==
    /\ asleep' = [asleep EXCEPT ![c] = Pacer!NoSlot]
    /\ reserved' = [k \in Clients |-> {r \in reserved[k] : r.at # asleep[c].at}]
    /\ UNCHANGED <<now, blockedUntil, granted>>
Quit(c) == IF st[c] = "asleep" THEN Pacer!Abandon(c) ELSE UNCHANGED pacerVars

\* The scan is cancelled at the await it is in.
Cancel(c) ==
    /\ st[c] \in {"asleep", "http"}
    /\ Quit(c)
    /\ st' = [st EXCEPT ![c] = "cancelled"]
    /\ UNCHANGED <<at, attempt, rateLimited, outcomes, dead, deadlineHit, useFormat, sent, seen>>

Tick == Pacer!Tick /\ UNCHANGED <<callVars, useFormat>>

Respond(c) ==
    \/ Answer(c) \/ BadOutput(c) \/ FormatRejected(c)
    \/ \E is429 \in BOOLEAN : Transient(c, is429)
    \/ \E providerWide \in BOOLEAN : HttpError(c, providerWide)

Proceed(c) == Reserve(c) \/ SkipClient(c) \/ WakeUp(c) \/ Respond(c)

\* _all_bad_output.
BadOutputRaised(c) ==
    outcomes[c] # <<>> /\ \A i \in DOMAIN outcomes[c] : outcomes[c][i][2] = "bad_output"

Next == Tick \/ \E c \in Calls : Generate(c) \/ Proceed(c) \/ Cancel(c)

Spec == Init /\ [][Next]_vars

\* The event loop runs what is ready, a request ends within LLM_CALL_DEADLINE_S,
\* and time passes.
FairSpec == Spec /\ WF_vars(Tick) /\ \A c \in Calls : WF_vars(Proceed(c))
------------------------------------------------------------------------------
(* Properties.                                                             *)

\* Every variable keeps its type.
TypeOK ==
    /\ st \in [Calls -> {"idle", "acquire", "asleep", "http", "answered", "failed", "cancelled"}]
    /\ \A c \in Calls : at[c] \in 0..(Len(Chain[c]) + 1)
    /\ attempt \in [Calls -> 0..Retries]
    /\ rateLimited \in [Calls -> BOOLEAN] /\ deadlineHit \in [Calls -> BOOLEAN]
    /\ \A c \in Calls : outcomes[c] \in Seq(Clients \X {"bad_output", "rate_limit", "failed"})
    /\ dead \in [Calls -> SUBSET {ProviderOf[k] : k \in Clients}]
    /\ useFormat \in [Clients -> BOOLEAN] /\ sent \in [Calls -> BOOLEAN]
    /\ seen \in [Calls -> [Clients -> {"nothing", "unusable", "429", "transient", "refused",
                                       "format"}]]

\* No model gets more than its tokens per minute from all the calls of the process
\* together: retries, fallbacks, verifier calls and cancelled calls included.
ModelsKeepTheirLimit == Pacer!WindowFits

\* What a call reports is what happened, in chain order: the outcome of a client tells how its
\* last attempt in this call went, however many attempts and skips came before (comment,
\* 160-167); bad_output is raised only when some client answered and no client ended otherwise,
\* so that it never hides a rate limit or an outage; and a client is passed over only for a
\* reason: each before the one in hand has ended, once, unless its provider is dead or the
\* prompt too large.
OutcomesTellWhatHappened ==
    \A c \in Calls :
        LET pos(i) == CHOOSE j \in 1..Len(Chain[c]) : Chain[c][j] = outcomes[c][i][1] IN
        /\ \A i \in DOMAIN outcomes[c] :
              LET last == seen[c][outcomes[c][i][1]] IN
              /\ outcomes[c][i][2] = "bad_output" <=> last = "unusable"
              /\ outcomes[c][i][2] = "rate_limit" <=> last = "429"
        /\ st[c] = "failed" =>
              (BadOutputRaised(c) <=>
                  /\ \E k \in Clients : seen[c][k] = "unusable"
                  /\ \A i \in 1..Len(Chain[c]) :
                         Tries(c, i, dead[c]) => seen[c][Chain[c][i]] = "unusable"
                  /\ dead[c] = {})
        /\ \A i, j \in DOMAIN outcomes[c] : i < j => pos(i) < pos(j)
        /\ \A j \in 1..(at[c] - 1) :
               \/ \E i \in DOMAIN outcomes[c] : pos(i) = j
               \/ ProviderOf[Chain[c][j]] \in dead[c] \/ ~RoomFor(c, Chain[c][j])

\* Every call returns: answers, fails or is cancelled.
CallsReturn ==
    \A c \in Calls : st[c] = "acquire" ~> st[c] \in {"answered", "failed", "cancelled"}

\* "Unlisted models that reject it still hit the reactive 400 -> retry-once-without-it
\* path" (llm_client.py:114-115), of every call.
RejectedFormatIsRetried ==
    \A c \in Calls, k \in FormatFallback : seen[c][k] # "format"
==============================================================================
