---------------------------- MODULE ScanLifecycle ----------------------------
(***************************************************************************)
(* The life of a scan in the RepoSentinel API: the row a POST inserts, the *)
(* background task that runs it behind the concurrency gate, the atomic    *)
(* claim, the commits between the stages, and what crashes, shutdowns,     *)
(* database errors and the restart recovery do to it.                      *)
(* (backend/app/services/scan_runner.py, backend/app/main.py,              *)
(*  backend/app/api/routes/analyze.py)                                     *)
(*                                                                         *)
(* One step is what a process does between two awaits, except that the     *)
(* commits of one turn are separate steps when another process sharing the *)
(* database can come between them.  Workers are operating-system           *)
(* processes: a worker's tasks and semaphore die with it, rows do not.     *)
(***************************************************************************)
EXTENDS Naturals, FiniteSets

CONSTANTS
    Workers,              \* processes that serve the same database
    Scans,                \* ids the clients may be given
    MaxConcurrentScans,   \* settings.MAX_CONCURRENT_SCANS, per process
    MaxRestarts,          \* bound: crashes and shutdowns, all workers together
    MaxDbErrors,          \* bound: commits that raise
    MaxLoadErrors         \* bound: singleton constructions that raise

ASSUME GateAssumption == MaxConcurrentScans \in Nat \ {0}
ASSUME ScansAssumption == IsFiniteSet(Scans)
ASSUME BoundsAssumption ==
    MaxRestarts \in Nat /\ MaxDbErrors \in Nat /\ MaxLoadErrors \in Nat

VARIABLES
    status,     \* Scan.status, "absent" when there is no row
    error,      \* Scan.error, "none" when NULL
    findings,   \* batches of retrieval findings committed for the scan
    result,     \* Scan.result_json is set
    worker,     \* what each process is doing
    task,       \* task[w][s]: where the runner of s in process w is
    permits,    \* permits[w]: value of the process's asyncio.Semaphore
    restarts, dbErrors, loadErrors   \* faults still allowed (bounds)

rowVars == <<status, error, findings, result>>
faultVars == <<restarts, dbErrors, loadErrors>>
vars == <<status, error, findings, result, worker, task, permits,
          restarts, dbErrors, loadErrors>>

Statuses == {"absent", "queued", "running", "completed", "failed"}
Terminal == {"completed", "failed"}
Errors == {"none", "interrupted", "Analysis failed", "interrupted by server restart"}
WorkerStates == {"down", "booting", "up", "stopping"}

\* starting   a recovered task that has not resolved the model singletons yet
\* waiting    in `async with get_scan_semaphore()`
\* analyzing  claimed, awaiting _analyze_request
\* reviewing  findings committed, awaiting the LLM review
\* cancelled  CancelledError was raised inside the guarded body
\* failing    another exception was raised inside the guarded body
TaskStates == {"none", "starting", "waiting", "analyzing", "reviewing",
               "cancelled", "failing"}
Pending == {"starting", "waiting"}
Executing == {"analyzing", "reviewing", "cancelled"}
Holding == Executing \cup {"failing"}

NoTasks == [s \in Scans |-> "none"]

Init ==
    /\ status = [s \in Scans |-> "absent"]
    /\ error = [s \in Scans |-> "none"]
    /\ findings = [s \in Scans |-> 0]
    /\ result = [s \in Scans |-> FALSE]
    /\ worker = [w \in Workers |-> "down"]
    /\ task = [w \in Workers |-> NoTasks]
    /\ permits = [w \in Workers |-> MaxConcurrentScans]
    /\ restarts = MaxRestarts
    /\ dbErrors = MaxDbErrors
    /\ loadErrors = MaxLoadErrors

------------------------------------------------------------------------------
(* The process: lifespan start, restart recovery, shutdown, crash.         *)

Alive(w) == worker[w] \in {"up", "stopping"}

Move(w, s, to) == task' = [task EXCEPT ![w][s] = to]

Boot(w) ==
    /\ worker[w] = "down"
    /\ worker' = [worker EXCEPT ![w] = "booting"]
    /\ UNCHANGED <<rowVars, task, permits, faultVars>>

\* Mutant: every row that left the queue is taken for orphaned.
OrphanedStarted(s) == status[s] \in {"running", "completed", "failed"}
Orphaned(s) == status[s] = "running"

\* Mutant: the recovery forgets the rows that never started.
RequeuedNever(s) == FALSE
Requeued(s) == status[s] = "queued"

\* recover_orphaned_scans, one transaction: every row found running is failed,
\* every queued row gets a task; only then does the app accept requests.
Recover(w) ==
    /\ worker[w] = "booting"
    /\ status' = [s \in Scans |-> IF Orphaned(s) THEN "failed" ELSE status[s]]
    /\ error' = [s \in Scans |-> IF Orphaned(s) THEN "interrupted by server restart"
                                                ELSE error[s]]
    /\ task' = [task EXCEPT ![w] =
                    [s \in Scans |-> IF Requeued(s) THEN "starting" ELSE "none"]]
    /\ worker' = [worker EXCEPT ![w] = "up"]
    /\ UNCHANGED <<findings, result, permits, faultVars>>

\* The recovery's transaction raises: startup fails and the process ends.
RecoverError(w) ==
    /\ worker[w] = "booting"
    /\ dbErrors > 0
    /\ dbErrors' = dbErrors - 1
    /\ worker' = [worker EXCEPT ![w] = "down"]
    /\ UNCHANGED <<rowVars, task, permits, restarts, loadErrors>>

Shutdown(w) ==
    /\ worker[w] = "up"
    /\ restarts > 0
    /\ restarts' = restarts - 1
    /\ worker' = [worker EXCEPT ![w] = "stopping"]
    /\ UNCHANGED <<rowVars, task, permits, dbErrors, loadErrors>>

\* A task is cancelled at the await it is suspended in.  Before the gate it
\* held no permit and the row stays queued; after the claim the exception
\* reaches the handler of _run_scan_guarded.
Cancel(w, s) ==
    /\ worker[w] = "stopping"
    /\ \/ task[w][s] \in Pending /\ Move(w, s, "none")
       \/ task[w][s] \in {"analyzing", "reviewing"} /\ Move(w, s, "cancelled")
    /\ UNCHANGED <<rowVars, worker, permits, faultVars>>

\* The server has drained its requests and gathered the cancelled tasks.
Exit(w) ==
    /\ worker[w] = "stopping"
    /\ task[w] = NoTasks
    /\ worker' = [worker EXCEPT ![w] = "down"]
    /\ UNCHANGED <<rowVars, task, permits, faultVars>>

Crash(w) ==
    /\ worker[w] # "down"
    /\ restarts > 0
    /\ restarts' = restarts - 1
    /\ worker' = [worker EXCEPT ![w] = "down"]
    /\ task' = [task EXCEPT ![w] = NoTasks]
    /\ permits' = [permits EXCEPT ![w] = MaxConcurrentScans]
    /\ UNCHANGED <<rowVars, dbErrors, loadErrors>>

------------------------------------------------------------------------------
(* The API and the runner.                                                 *)

\* POST /analyze: the row is committed before the job id is returned, and the
\* background task starts out waiting at the gate.
Submit(w, s) ==
    /\ worker[w] = "up"
    /\ status[s] = "absent"
    /\ status' = [status EXCEPT ![s] = "queued"]
    /\ Move(w, s, "waiting")
    /\ UNCHANGED <<error, findings, result, worker, permits, faultVars>>

\* run_scan_job resolves the singletons of a recovered task; a constructor that
\* raises ends the task outside run_scan's handlers.
LoadSingletons(w, s) ==
    /\ Alive(w)
    /\ task[w][s] = "starting"
    /\ \/ Move(w, s, "waiting") /\ UNCHANGED loadErrors
       \/ /\ loadErrors > 0
          /\ loadErrors' = loadErrors - 1
          /\ Move(w, s, "none")
    /\ UNCHANGED <<rowVars, worker, permits, restarts, dbErrors>>

AtGate(w, s) == Alive(w) /\ task[w][s] = "waiting" /\ permits[w] > 0

Acquire(w) == permits' = [permits EXCEPT ![w] = @ - 1]
\* Mutant: an exit path that keeps the permit.
ReleaseForgotten(w) == UNCHANGED permits
Release(w) == permits' = [permits EXCEPT ![w] = @ + 1]

\* Mutant: the claim's UPDATE has no status condition.
ClaimableAny(s) == status[s] # "absent"
Claimable(s) == status[s] = "queued"

\* Mutant: the claim is never committed.
TakeUncommitted(s) == UNCHANGED status
Take(s) == status' = [status EXCEPT ![s] = "running"]

\* The gate admits the task and the UPDATE ... WHERE status = 'queued' takes the
\* row: nothing is awaited in between.
Claim(w, s) ==
    /\ AtGate(w, s)
    /\ Claimable(s)
    /\ Take(s)
    /\ Move(w, s, "analyzing")
    /\ Acquire(w)
    /\ UNCHANGED <<error, findings, result, worker, faultVars>>

\* rowcount = 0: another runner took the scan, this one leaves (and the permit
\* it held for the turn is back).
ClaimSkip(w, s) ==
    /\ AtGate(w, s)
    /\ ~Claimable(s)
    /\ Move(w, s, "none")
    /\ UNCHANGED <<rowVars, worker, permits, faultVars>>

ClaimError(w, s) ==
    /\ AtGate(w, s)
    /\ dbErrors > 0
    /\ dbErrors' = dbErrors - 1
    /\ Move(w, s, "failing")
    /\ Acquire(w)
    /\ UNCHANGED <<rowVars, worker, restarts, loadErrors>>

\* The analysis is done: the retrieval findings are committed before the LLM call.
Analyzed(w, s) ==
    /\ Alive(w)
    /\ task[w][s] = "analyzing"
    /\ findings' = [findings EXCEPT ![s] = @ + 1]
    /\ Move(w, s, "reviewing")
    /\ UNCHANGED <<status, error, result, worker, permits, faultVars>>

\* The review is done: result and status in one commit, by primary key alone
\* and without touching the error column.
Complete(w, s) ==
    /\ Alive(w)
    /\ task[w][s] = "reviewing"
    /\ status' = [status EXCEPT ![s] = "completed"]
    /\ result' = [result EXCEPT ![s] = TRUE]
    /\ Move(w, s, "none")
    /\ Release(w)
    /\ UNCHANGED <<error, findings, worker, faultVars>>

\* The analysis, the review or one of their commits raised.
BodyFails(w, s) ==
    /\ Alive(w)
    /\ task[w][s] \in {"analyzing", "reviewing"}
    /\ Move(w, s, "failing")
    /\ UNCHANGED <<rowVars, worker, permits, faultVars>>

\* _mark_failed: after a rollback, whatever the row says by now.
MarkFailed(w, s) ==
    /\ Alive(w)
    /\ task[w][s] \in {"cancelled", "failing"}
    /\ status' = [status EXCEPT ![s] = "failed"]
    /\ error' = [error EXCEPT ![s] =
                    IF task[w][s] = "cancelled" THEN "interrupted" ELSE "Analysis failed"]
    /\ Move(w, s, "none")
    /\ Release(w)
    /\ UNCHANGED <<findings, result, worker, faultVars>>

\* Its commit raises too: the task ends and the row stays as it is.
MarkFailedError(w, s) ==
    /\ Alive(w)
    /\ task[w][s] \in {"cancelled", "failing"}
    /\ dbErrors > 0
    /\ dbErrors' = dbErrors - 1
    /\ Move(w, s, "none")
    /\ Release(w)
    /\ UNCHANGED <<rowVars, worker, restarts, loadErrors>>

------------------------------------------------------------------------------
Process(w) ==
    \/ Boot(w) \/ Recover(w) \/ RecoverError(w)
    \/ Shutdown(w) \/ Exit(w) \/ Crash(w)

Runner(w, s) ==
    \/ LoadSingletons(w, s) \/ Cancel(w, s)
    \/ Claim(w, s) \/ ClaimSkip(w, s) \/ ClaimError(w, s)
    \/ Analyzed(w, s) \/ Complete(w, s) \/ BodyFails(w, s)
    \/ MarkFailed(w, s) \/ MarkFailedError(w, s)

Next ==
    \E w \in Workers :
        \/ Process(w)
        \/ \E s \in Scans : Submit(w, s) \/ Runner(w, s)

Spec == Init /\ [][Next]_vars

\* A process that is down is started again (the operator's part), the event
\* loop runs every ready task, the analysis and the LLM stage end (the latter by
\* LLM_SCAN_MAX_WALL_S), and asyncio.Semaphore wakes its waiters first come,
\* first served.
Fairness ==
    \A w \in Workers :
        /\ WF_vars(Boot(w)) /\ WF_vars(Recover(w)) /\ WF_vars(Exit(w))
        /\ \A s \in Scans :
            /\ WF_vars(LoadSingletons(w, s))
            /\ SF_vars(Claim(w, s)) /\ SF_vars(ClaimSkip(w, s))
            /\ WF_vars(Analyzed(w, s) \/ BodyFails(w, s))
            /\ WF_vars(Complete(w, s) \/ BodyFails(w, s))
            /\ WF_vars(MarkFailed(w, s))

FairSpec == Spec /\ Fairness
------------------------------------------------------------------------------
(* Properties.                                                             *)

\* Every variable keeps its type; the fault budgets stay within their bounds.
TypeOK ==
    /\ status \in [Scans -> Statuses]
    /\ error \in [Scans -> Errors]
    /\ findings \in [Scans -> Nat]
    /\ result \in [Scans -> BOOLEAN]
    /\ worker \in [Workers -> WorkerStates]
    /\ task \in [Workers -> [Scans -> TaskStates]]
    /\ permits \in [Workers -> Nat]
    /\ restarts \in 0..MaxRestarts
    /\ dbErrors \in 0..MaxDbErrors
    /\ loadErrors \in 0..MaxLoadErrors

Runs(w, s) == task[w][s] \in Executing

\* The claim is exclusive: whatever restarts, recoveries and errors happened, no
\* two tasks of any processes run the same scan ("only one runner (across
\* processes too) may take a scan", scan_runner.py:602).
OneRunner ==
    \A s \in Scans, v, w \in Workers : Runs(v, s) /\ Runs(w, s) => v = w

\* No path through the runner, its error handlers and cancellation included,
\* leaks or duplicates a permit: a process never runs more than
\* MAX_CONCURRENT_SCANS scans and never loses room for one.
GateAccounting ==
    \A w \in Workers :
        permits[w] + Cardinality({s \in Scans : task[w][s] \in Holding})
            = MaxConcurrentScans

\* Restart recovery leaves no scan behind and runs none twice (main.py:54-57): the findings of
\* a scan are inserted at most once over all its runners, a scan that polls as completed has
\* them and its result; and while every process is up and no commit or singleton load has
\* failed, each queued row has a task that will claim it and each running row its runner.
RecoveryIsWhole ==
    /\ \A s \in Scans :
          /\ findings[s] <= 1
          /\ status[s] = "completed" => result[s] /\ findings[s] = 1
    /\ (/\ \A w \in Workers : worker[w] = "up"
        /\ dbErrors = MaxDbErrors
        /\ loadErrors = MaxLoadErrors)
       => \A s \in Scans :
             /\ status[s] = "queued" => \E w \in Workers : task[w][s] \in Pending
             /\ status[s] = "running" => \E w \in Workers : task[w][s] \in Holding

\* A scan some live task is executing is "running": recovery fails only the scans
\* that "died mid-flight" (main.py:54-56).
LiveScanStaysRunning ==
    \A w \in Workers, s \in Scans : Runs(w, s) => status[s] = "running"

FaultsLeft == dbErrors + loadErrors

\* Every scan a task stands for reaches a terminal status, restarts or not, unless a
\* commit or a singleton load fails from then on (its row then waits for a restart):
\* asked of the time before any such fault and after the last.
EveryScanEnds ==
    \A s \in Scans : \A n \in {0, MaxDbErrors + MaxLoadErrors} :
        /\ status[s] = "queued" /\ FaultsLeft = n
        /\ \E w \in Workers : task[w][s] # "none"
        ~> status[s] \in Terminal \/ FaultsLeft < n

\* A shutdown ends: the tasks it drains or cancels do not hold it up for ever.
ShutdownDrains ==
    \A w \in Workers : worker[w] = "stopping" ~> worker[w] = "down"

\* What get_scan_status shows of a row: the result only of a completed scan, the
\* error column always.
StatusAnswer(s) ==
    [result |-> status[s] = "completed" /\ result[s], error |-> error[s] # "none"]

Job == INSTANCE ScanJob
    WITH job <- status, answer <- [s \in Scans |-> StatusAnswer(s)]

\* With one process on the database, the rows a client polls behave as ScanJob
\* promises.
JobPromise == Job!JobSpec
==============================================================================
