------------------------------- MODULE EvalRun -------------------------------
(***************************************************************************)
(* The evaluation's runs over a data set with a paid model, resumed from a *)
(* cache of answers (ml/evaluation/run_pr_eval.py, run_eval.py).  A run    *)
(* stops calling at a limit and then only replays; it may be killed at any *)
(* time, while it appends to the cache file too.  Two harnesses: "pr" runs *)
(* the whole review of each item through EvalGate, "unit" makes one call   *)
(* for each item (run_llm_stage), the list repeated.                       *)
(* Of the review (core/pr_review.py) the calls are modelled: audit calls   *)
(* for each chunk with its context rounds, then verifier calls for the     *)
(* chunks with a finding, those of later chunks being more severe.         *)
(***************************************************************************)
EXTENDS Integers, Sequences, FiniteSets, SequencesExt

CONSTANTS
    Items,           \* <<...>> the selection: the number of chunks of each item
    Repeats,         \* of the "unit" harness
    AuditCalls,      \* audit calls per item (max_audit_calls)
    ContextRounds,   \* per chunk (context_rounds)
    VerifierCap,     \* verifier calls per item (max_verifier_calls)
    RunLimits,       \* --llm-max-calls and --llm-token-budget a run may be given
    MaxRateLimited,  \* --llm-max-rate-limit-errors
    MaxUsage,        \* tokens a call may take; it is estimated at one
    MaxEvals         \* bound: runs

ASSUME EvalBounds ==
    /\ {AuditCalls, ContextRounds, VerifierCap, MaxUsage, MaxEvals, Repeats} \subseteq Nat /\ MaxRateLimited \in Nat \ {0}
    /\ Items \in Seq(Nat) /\ RunLimits \subseteq [calls : Nat, tokens : Nat]

VARIABLES
    harness,
    file,            \* lines of the cache file: key, answer, and whether it can be read back
    torn,            \* its last line has no end
    run,             \* the running process
    evals,           \* runs started
    bills,           \* history: answers paid for, and whether the file kept them
    told             \* history: what finished runs claimed to know of an item

evalVars == <<harness, file, torn, run, evals, bills, told>>

NoRun == [pc |-> "idle", limits |-> [calls |-> 0, tokens |-> 0], calls |-> 0, tokens |-> 0,
          rateLimited |-> 0, stopped |-> "no", memory |-> <<>>, job |-> 1, log |-> <<>>,
          failed |-> FALSE, notRun |-> FALSE, records |-> <<>>]

\* What a run does one after the other, and how an answer is known.
Jobs == IF harness = "pr" THEN [i \in DOMAIN Items |-> [item |-> i, repeat |-> 0]]
        ELSE [n \in 1..(Repeats * Len(Items)) |->
                [item |-> ((n - 1) % Len(Items)) + 1, repeat |-> (n - 1) \div Len(Items)]]
KeyOf(job, prompt) == <<job.item, job.repeat, prompt>>

\* An entry of a time before the format check existed may be in the file.
Old == [key |-> <<1, 0, <<"audit", 1, 1, <<>>>>>>, answer |-> "invalid", readable |-> TRUE]
EvalInit ==
    /\ harness \in {"pr", "unit"}
    /\ file \in {<<>>, <<Old>>} /\ torn = FALSE /\ run = NoRun /\ evals = 0
    /\ bills = <<>> /\ told = {}

------------------------------------------------------------------------------
\* The reviews.  A prompt is <<"audit", chunk, n, the answers it adds context for>> or
\* <<"verify", chunk, n, the prompts that found it>>: the n-th call of an item, whatever becomes
\* of it, draws the n-th nonce (NonceSeq), which is part of the prompt.
Done == <<"done", 0>>
Chunks(item) == IF harness = "unit" THEN Min({1, Items[item]}) ELSE Items[item]
Budget == IF harness = "unit" THEN 1 ELSE AuditCalls

\* rounds_left > 0: a round may follow, as long as one call is left for each later chunk; never
\* when the last request brought nothing new ("old", force_final).
MayAsk(p, chunks) ==
    /\ Len(p[4]) < ContextRounds /\ ~\E i \in DOMAIN p[4] : p[4][i] = "old"
    /\ p[3] + (chunks - p[2]) < Budget
\* An audit answer has findings or none, and may ask for context: "ask" does that alone, "both"
\* beside a finding.
Finds == {"finding", "both"}
Answers(item, p) ==
    IF p[1] = "verify" THEN {"confirm", "reject"}
    ELSE {"clean", "finding"} \cup (IF MayAsk(p, Chunks(item)) THEN {"ask", "both", "old"} ELSE {})

\* The audit loop: after a call of prompt p another round, or the next chunk if a call is left;
\* a failed call ends its chunk.
NewChunk(c, n, chunks) == IF c <= chunks /\ n <= Budget THEN <<"audit", c, n, <<>>>> ELSE Done
AfterCall(p, answer, chunks) ==
    IF p[1] = "verify" THEN Done
    ELSE IF answer \in {"ask", "both", "old"} /\ MayAsk(p, chunks)
    THEN <<"audit", p[2], p[3] + 1, Append(p[4], answer)>>
    ELSE NewChunk(p[2] + 1, p[3] + 1, chunks)
NextAudit(log, chunks) ==
    IF log = <<>> THEN NewChunk(1, 1, chunks)
    ELSE AfterCall(log[Len(log)].prompt, log[Len(log)].answer, chunks)

\* The verifier loop: a chunk's findings are one candidate (dedupe_candidates).
FindsIn(e, c) == e.prompt[1] = "audit" /\ e.prompt[2] = c /\ e.answer \in Finds
FoundIn(log, chunks) == {c \in 1..chunks : \E i \in DOMAIN log : FindsIn(log[i], c)}
FoundBy(log, c) == {log[i].prompt : i \in {j \in DOMAIN log : FindsIn(log[j], c)}}
Verifications(log) == {i \in DOMAIN log : log[i].prompt[1] = "verify"}
Verified(log, c) == \E i \in Verifications(log) : log[i].prompt[2] = c
NextPrompt(item, log) ==
    LET chunks == Chunks(item)
        waiting == {c \in FoundIn(log, chunks) : ~Verified(log, c)}
    IN  IF NextAudit(log, chunks) # Done THEN NextAudit(log, chunks)
        ELSE IF harness = "pr" /\ waiting # {} /\ Cardinality(Verifications(log)) < VerifierCap
        THEN <<"verify", Max(waiting), Len(log) + 1, FoundBy(log, Max(waiting))>>
        ELSE Done

\* view_findings: all the audit found, or what was confirmed.
Raw(item, log) == FoundIn(log, Chunks(item))
Confirmed(item, log) == {c \in Raw(item, log) : \E i \in Verifications(log) :
                            log[i].prompt[2] = c /\ log[i].answer = "confirm"}
View(name, item, log) == IF name = "raw" THEN Raw(item, log) ELSE Confirmed(item, log)
Views == IF harness = "pr" THEN {"raw", "confirmed"} ELSE {"raw"}

\* LLMCache: the last readable line of a key.
Loaded == [k \in {file[i].key : i \in {j \in DOMAIN file : file[j].readable}} |->
    LET i == Max({j \in DOMAIN file : file[j].readable /\ file[j].key = k}) IN file[i].answer]
Cached(memory, key) == key \in DOMAIN memory /\ memory[key] # "invalid"

\* LLMCache.put: a line, or the rest of one that a killed run left without an end.
Remembered(key, answer) ==
    [k \in DOMAIN run.memory \cup {key} |-> IF k = key THEN answer ELSE run.memory[k]]
Put(key, answer) ==
    /\ file' = IF torn THEN file ELSE Append(file, [key |-> key, answer |-> answer, readable |-> TRUE])
    /\ torn' = FALSE
    /\ bills' = Append(bills, [key |-> key, kept |-> ~torn])

------------------------------------------------------------------------------
\* A run: begin_item and the calls of each item, through EvalGate.call.
Running(h) == run.pc = "items" /\ harness = h /\ run.job <= Len(Jobs)
Job == Jobs[run.job]
Prompt == NextPrompt(Job.item, run.log)
Key == KeyOf(Job, Prompt)

StartRun ==
    /\ run.pc # "items" /\ evals < MaxEvals
    /\ evals' = evals + 1
    /\ \E limits \in RunLimits :
        run' = [NoRun EXCEPT !.pc = "items", !.limits = limits, !.memory = Loaded]
    /\ UNCHANGED <<harness, file, torn, bills, told>>

\* The limits, looked at before a call that the cache does not answer; once stopped, stopped.
Stopped == IF run.stopped # "no" THEN run.stopped
           ELSE IF run.calls >= run.limits.calls THEN "max_calls"
           ELSE IF run.tokens + 1 > run.limits.tokens THEN "token_budget" ELSE "no"
\* A failure of a kind: a spent daily quota stops the run, and so do rate limits in a row.
AfterFailure(r, kind) ==
    LET n == IF kind = "rate_limit" THEN r.rateLimited + 1
             ELSE IF kind = "daily_limit" THEN r.rateLimited ELSE 0
    IN  [r EXCEPT !.rateLimited = n,
                  !.stopped = IF kind = "daily_limit" \/ (kind = "rate_limit" /\ n >= MaxRateLimited)
                              THEN kind ELSE @]
Failures == {"daily_limit", "rate_limit", "other"}
Charged(r, tokens) == [r EXCEPT !.calls = @ + 1, !.tokens = @ + tokens]
Logged(answer, how) == Append(run.log, [prompt |-> Prompt, answer |-> answer, how |-> how])

CallCached ==
    /\ Running("pr") /\ Prompt # Done /\ Cached(run.memory, Key)
    /\ run' = [run EXCEPT !.log = Logged(run.memory[Key], "cached")]
    /\ UNCHANGED <<harness, file, torn, evals, bills, told>>
CallRefused ==
    /\ Running("pr") /\ Prompt # Done /\ ~Cached(run.memory, Key) /\ Stopped # "no"
    /\ run' = [run EXCEPT !.stopped = Stopped, !.notRun = TRUE, !.log = Logged("none", "not_run")]
    /\ UNCHANGED <<harness, file, torn, evals, bills, told>>
Calls(h) == Running(h) /\ Prompt # Done /\ ~Cached(run.memory, Key) /\ Stopped = "no"
CallAnswered ==
    /\ Calls("pr")
    /\ \E answer \in Answers(Job.item, Prompt), tokens \in 1..MaxUsage :
        /\ run' = [Charged(run, tokens) EXCEPT !.rateLimited = 0, !.memory = Remembered(Key, answer),
                                               !.log = Logged(answer, "real")]
        /\ Put(Key, answer)
    /\ UNCHANGED <<harness, evals, told>>
CallFails ==
    /\ Calls("pr")
    /\ \E kind \in Failures, tokens \in 0..MaxUsage :
        run' = [AfterFailure(Charged(run, tokens), kind) EXCEPT !.failed = TRUE,
                                                                !.log = Logged("none", "error")]
    /\ UNCHANGED <<harness, file, torn, evals, bills, told>>
CallInterrupted ==
    /\ Calls("pr")
    /\ run' = [Charged(run, 0) EXCEPT !.stopped = "interrupted", !.notRun = TRUE,
                                      !.log = Logged("none", "not_run")]
    /\ UNCHANGED <<harness, file, torn, evals, bills, told>>

\* The record of an item.
\* Mutant: the failures of an item do not show in its status.
StatusLenient(r) ==
    IF r.notRun THEN "not_run"
    ELSE IF r.log # <<>> /\ \A i \in DOMAIN r.log : r.log[i].how = "cached" THEN "cached" ELSE "ok"
Status(r) ==
    IF r.notRun THEN "not_run" ELSE IF r.failed THEN "error"
    ELSE IF r.log # <<>> /\ \A i \in DOMAIN r.log : r.log[i].how = "cached" THEN "cached" ELSE "ok"
Recorded(r, status, log) ==
    [r EXCEPT !.records = Append(@, [job |-> Jobs[r.job], status |-> status, log |-> log]),
              !.job = @ + 1, !.log = <<>>, !.failed = FALSE, !.notRun = FALSE]
FinishItem ==
    /\ Running("pr") /\ Prompt = Done
    /\ run' = Recorded(run, Status(run), run.log)
    /\ UNCHANGED <<harness, file, torn, evals, bills, told>>

------------------------------------------------------------------------------
\* run_llm_stage: one call for an item; an answer that does not parse is an error and is not
\* cached.
Stage(status, answer) == Recorded(run, status, <<[prompt |-> Prompt, answer |-> answer, how |-> status]>>)
StageUnasked ==
    /\ Running("unit") /\ Prompt = Done
    /\ run' = Recorded(run, "too_large", <<>>)
    /\ UNCHANGED <<harness, file, torn, evals, bills, told>>
StageCached ==
    /\ Running("unit") /\ Prompt # Done /\ Cached(run.memory, Key)
    /\ run' = Stage("cached", run.memory[Key])
    /\ UNCHANGED <<harness, file, torn, evals, bills, told>>
StageRefused ==
    /\ Running("unit") /\ Prompt # Done /\ ~Cached(run.memory, Key) /\ Stopped # "no"
    /\ run' = [Stage("not_run", "none") EXCEPT !.stopped = Stopped]
    /\ UNCHANGED <<harness, file, torn, evals, bills, told>>
StageAnswered ==
    /\ Calls("unit")
    /\ \E answer \in Answers(Job.item, Prompt), tokens \in 1..MaxUsage :
        /\ run' = [Charged(Stage("ok", answer), tokens) EXCEPT !.rateLimited = 0,
                                                             !.memory = Remembered(Key, answer)]
        /\ Put(Key, answer)
    /\ UNCHANGED <<harness, evals, told>>
StageFails ==
    /\ Calls("unit")
    /\ \E kind \in Failures, tokens \in 0..MaxUsage :
        run' = AfterFailure(Charged(Stage("error", "none"), tokens), kind)
    /\ UNCHANGED <<harness, file, torn, evals, bills, told>>
StageInterrupted ==
    /\ Calls("unit")
    /\ run' = [Charged(Stage("not_run", "none"), 0) EXCEPT !.stopped = "interrupted"]
    /\ UNCHANGED <<harness, file, torn, evals, bills, told>>

------------------------------------------------------------------------------
\* What is made of the records.
\* Mutant: an item whose calls failed counts as completed.
ScoredLoosely(record) == record.status # "not_run"
Scored(record) == record.status \in {"ok", "cached"}
PartialResult(record) ==
    record.status = "error" /\ \E i \in DOMAIN record.log : record.log[i].how \in {"real", "cached"}
KnownPositive(record, view) ==
    (Scored(record) \/ PartialResult(record)) /\ View(view, record.job.item, record.log) # {}
KnownNegative(record, view) == Scored(record) /\ View(view, record.job.item, record.log) = {}

\* History: a finding of the audit is settled unless a call before it failed whose answer may
\* have asked for a round more, which moves every later prompt by a call.
Unsettles(e, chunks) == e.answer = "none" /\ MayAsk(e.prompt, chunks)
SettledFinding(item, log) ==
    \E i \in DOMAIN log : /\ FindsIn(log[i], log[i].prompt[2])
                          /\ \A j \in 1..i : ~Unsettles(log[j], Chunks(item))
Firm(record, view) ==
    Scored(record) \/ (view = "raw" /\ SettledFinding(record.job.item, record.log))

FinishRun ==
    /\ run.pc = "items" /\ run.job > Len(Jobs)
    /\ run' = [run EXCEPT !.pc = "finished"]
    /\ LET known == {x \in (DOMAIN run.records) \X Views \X BOOLEAN :
                IF x[3] THEN KnownPositive(run.records[x[1]], x[2])
                ELSE KnownNegative(run.records[x[1]], x[2])}
       IN  told' = told \cup {[job |-> run.records[x[1]].job, view |-> x[2], hit |-> x[3],
                               firm |-> Firm(run.records[x[1]], x[2])] : x \in known}
    /\ UNCHANGED <<harness, file, torn, evals, bills>>

\* The process is killed, in the middle of writing a line too.
Kill ==
    /\ run.pc = "items" /\ run' = NoRun
    /\ UNCHANGED <<harness, file, torn, evals, bills, told>>
KillInPut ==
    /\ Calls(harness) /\ run' = NoRun
    /\ torn' = TRUE /\ bills' = Append(bills, [key |-> Key, kept |-> FALSE])
    /\ UNCHANGED <<harness, file, evals, told>>

EvalNext ==
    \/ StartRun \/ CallCached \/ CallRefused \/ CallAnswered \/ CallFails \/ CallInterrupted
    \/ FinishItem \/ StageUnasked \/ StageCached \/ StageRefused \/ StageAnswered \/ StageFails
    \/ StageInterrupted \/ FinishRun \/ Kill \/ KillInPut
------------------------------------------------------------------------------
\* The calls a run makes of an item when all it needs is cached.
Replayed(item, repeat, memory) ==
    LET after[n \in 0..(Budget + VerifierCap)] ==
            IF n = 0 THEN <<>>
            ELSE LET log == after[n - 1]
                     prompt == NextPrompt(item, log)
                     key == <<item, repeat, prompt>>
                 IN  IF prompt = Done \/ ~Cached(memory, key) THEN log
                     ELSE Append(log, [prompt |-> prompt, answer |-> memory[key], how |-> "cached"])
    IN  after[Budget + VerifierCap]
Exchange(log) == [i \in DOMAIN log |-> <<log[i].prompt, log[i].answer>>]

\* An item that is scored stays scored and keeps its findings: a further run replays exactly
\* its exchange from the cache.  And no answer is paid for twice, unless the file lost it.
ResumeIsReplay ==
    /\ \A i \in DOMAIN run.records :
          LET r == run.records[i]
              replay == Replayed(r.job.item, r.job.repeat, run.memory)
          IN  Scored(r) => Exchange(replay) = Exchange(r.log) /\ NextPrompt(r.job.item, replay) = Done
    /\ \A i, j \in DOMAIN bills : i # j /\ bills[i].key = bills[j].key => ~(bills[i].kept /\ bills[j].kept)
    /\ \A i \in DOMAIN bills : bills[i].kept => Cached(Loaded, bills[i].key)
    /\ run.calls <= run.limits.calls

\* What a run claims to know of an item (the bounds of sensitivity) no later run refutes: no
\* whole result, and no settled finding of a partial one.  Of other findings of a partial result
\* that is not true: the failed call, answered, may use the calls they were found by or confirmed
\* by, and their prompts are asked again with other nonces.
BoundsHold ==
    \A x, y \in told :
        /\ x.job = y.job /\ x.view = y.view /\ x.firm /\ y.firm
        /\ \A i \in DOMAIN bills : ~bills[i].kept =>
              <<bills[i].key[1], bills[i].key[2]>> # <<x.job.item, x.job.repeat>>
        => x.hit = y.hit
==============================================================================
