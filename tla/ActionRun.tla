------------------------------ MODULE ActionRun ------------------------------
(***************************************************************************)
(* One run of the GitHub Action (github_action/scan_pr.py main): collect  *)
(* the changed files, submit them, poll until the job settles or the       *)
(* deadline passes, publish, and exit with what the gates say.  The server *)
(* is the abstract job of ScanJob: it may settle at any time, or never.    *)
(* What the run posts is ActionComments.                                   *)
(***************************************************************************)
EXTENDS Gates

CONSTANTS
    PollDeadline,    \* POLL_TIMEOUT_S, in poll intervals
    SlowestPoll,     \* the longest sleep and request of one round, in the same unit
    Results,         \* results the server may have for the run
    Thresholds       \* values of INPUT_FAIL_ON_SEVERITY

ASSUME PollTimes == PollDeadline \in Nat \ {0} /\ SlowestPoll \in Nat \ {0}

ASSUME GateValues ==
    /\ Thresholds \subseteq Nat
    /\ \A r \in Results : \A i \in DOMAIN r.report : r.report[i].severity \in Nat

VARIABLES
    job, answer,     \* of ScanJob: the server's side
    runPc,           \* where the run is
    changed,         \* kinds of the files the pull request changes
    threshold,
    sinceSubmit,     \* time since the job was accepted
    settledAt,       \* that time when the job settled (history)
    result,          \* the result polled, <<>> before
    exitCode,        \* of the process, -1 while it runs
    raised           \* the error that ended it, "none" without

Server == INSTANCE ScanJob WITH Scans <- {"scan"}
serverVars == <<job, answer>>
runVars == <<runPc, changed, threshold, sinceSubmit, settledAt, result, exitCode, raised>>
actionRunVars == <<serverVars, runVars>>

Unsettled == -1

RunInit ==
    /\ Server!JobInit
    /\ runPc = "collect" /\ changed = {} /\ threshold = NoThreshold
    /\ sinceSubmit = 0 /\ settledAt = Unsettled /\ result = <<>>
    /\ exitCode = -1 /\ raised = "none"

\* An exception leaves main: the interpreter exits with 1.
Raise(error) == runPc' = "exited" /\ exitCode' = 1 /\ raised' = error
Exit(code) == runPc' = "exited" /\ exitCode' = code /\ UNCHANGED raised
GoOn(pc) == runPc' = pc /\ UNCHANGED <<exitCode, raised>>

\* Of the changed files, "removed" and "unsupported" ones are passed over, and so is an
\* "unreadable" one (too large, not text, or not served); "ok" ones are submitted.
CollectChangedFiles ==
    /\ runPc = "collect"
    /\ changed' \in SUBSET {"removed", "unsupported", "unreadable", "ok"}
    /\ threshold' \in Thresholds
    /\ \/ IF "ok" \in changed' THEN GoOn("submit") ELSE Exit(0)
       \/ Raise("listing")
    /\ UNCHANGED <<serverVars, sinceSubmit, settledAt, result>>

Submit ==
    /\ runPc = "submit"
    /\ \/ Server!Accept("scan") /\ GoOn("poll")
       \/ UNCHANGED serverVars /\ Raise("submit")
    /\ UNCHANGED <<changed, threshold, sinceSubmit, settledAt, result>>

\* Mutant: the deadline is checked after the sleep.
StartRoundLate ==
    /\ runPc = "poll" /\ sinceSubmit < PollDeadline
    /\ \E d \in 1..SlowestPoll : sinceSubmit' = sinceSubmit + d
    /\ GoOn(IF sinceSubmit' >= PollDeadline THEN "poll" ELSE "asked")
    /\ UNCHANGED <<serverVars, changed, threshold, settledAt, result>>

\* The head of the loop: one sleep and one request, or the deadline.
StartRound ==
    /\ runPc = "poll" /\ sinceSubmit < PollDeadline
    /\ \E d \in 1..SlowestPoll : sinceSubmit' = sinceSubmit + d
    /\ GoOn("asked")
    /\ UNCHANGED <<serverVars, changed, threshold, settledAt, result>>
TimeOut ==
    /\ runPc = "poll" /\ sinceSubmit >= PollDeadline
    /\ Raise("timeout")
    /\ UNCHANGED <<serverVars, changed, threshold, sinceSubmit, settledAt, result>>

\* The answer to a poll.
Polled ==
    /\ runPc = "asked"
    /\ CASE job["scan"] = "completed" -> result' \in Results /\ GoOn("publish")
         [] job["scan"] = "failed" -> UNCHANGED result /\ Raise("scan failed")
         [] OTHER -> UNCHANGED result /\ GoOn("poll")
    /\ UNCHANGED <<serverVars, changed, threshold, sinceSubmit, settledAt>>
PollFails ==
    /\ runPc = "asked" /\ Raise("poll")
    /\ UNCHANGED <<serverVars, changed, threshold, sinceSubmit, settledAt, result>>

\* Comments and summary: without write access, in a dry run, and when an update, a delete or
\* the summary fails the run goes on; a failed listing or review creation raises.
Publish ==
    /\ runPc = "publish"
    /\ \/ Exit(ExitCode(result, threshold))
       \/ Raise("publish")
    /\ UNCHANGED <<serverVars, changed, threshold, sinceSubmit, settledAt, result>>

\* The server's steps; a restart fails what it interrupts.
ServerStarts == Server!Start("scan") /\ UNCHANGED runVars
ServerSettles ==
    /\ Server!Finish("scan") \/ Server!GiveUp({"scan"})
    /\ settledAt' = sinceSubmit
    /\ UNCHANGED <<runPc, changed, threshold, sinceSubmit, result, exitCode, raised>>

RunStep == \/ CollectChangedFiles \/ Submit \/ StartRound \/ TimeOut
           \/ Polled \/ PollFails \/ Publish
ActionRunNext == RunStep \/ ServerStarts \/ ServerSettles

------------------------------------------------------------------------------
\* The check passes only when nothing was there to scan, or a finished review passes both
\* gates; and a scan that settled before the deadline is never reported as timed out
\* (run_analysis, severity_gate, coverage_gate).
ExitIsEarned ==
    /\ exitCode = 0 =>
        \/ "ok" \notin changed
        \/ /\ job["scan"] = "completed"
           /\ FailOnPartial => ReviewStatusOf(result) = "complete"
           /\ \A i \in DOMAIN result.report :
                 GatesBuild(result.report[i]) /\ threshold # NoThreshold
                    => result.report[i].severity < threshold
    /\ raised = "timeout" => settledAt \notin 0..(PollDeadline - 1)

==============================================================================
