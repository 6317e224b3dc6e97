------------------------------- MODULE ScanJob -------------------------------
(***************************************************************************)
(* What a client of the scan API is promised about one job: the status it *)
(* polls only moves forward, a job that was accepted is started at most    *)
(* once, and once the status is "completed" or "failed" neither the status *)
(* nor the answer that comes with it ever changes.  ScanLifecycle          *)
(* implements this specification when one process serves the database.     *)
(***************************************************************************)
CONSTANT Scans

VARIABLES
    job,      \* status a poll returns, "absent" before the POST is accepted
    answer    \* what the poll carries besides the status

jobVars == <<job, answer>>

Nothing == [result |-> FALSE, error |-> FALSE]
Result  == [result |-> TRUE,  error |-> FALSE]
Failure == [result |-> FALSE, error |-> TRUE]

Settled == {"completed", "failed"}

JobInit ==
    /\ job = [s \in Scans |-> "absent"]
    /\ answer = [s \in Scans |-> Nothing]

Accept(s) ==
    /\ job[s] = "absent"
    /\ job' = [job EXCEPT ![s] = "queued"]
    /\ UNCHANGED answer

Start(s) ==
    /\ job[s] = "queued"
    /\ job' = [job EXCEPT ![s] = "running"]
    /\ UNCHANGED answer

Finish(s) ==
    /\ job[s] = "running"
    /\ job' = [job EXCEPT ![s] = "completed"]
    /\ answer' = [answer EXCEPT ![s] = Result]

\* A restart gives up every job it interrupted in one step.
GiveUp(S) ==
    /\ \A s \in S : job[s] \in {"queued", "running"}
    /\ job' = [s \in Scans |-> IF s \in S THEN "failed" ELSE job[s]]
    /\ answer' = [s \in Scans |-> IF s \in S THEN Failure ELSE answer[s]]

JobNext ==
    \/ \E s \in Scans : Accept(s) \/ Start(s) \/ Finish(s)
    \/ \E S \in (SUBSET Scans) \ {{}} : GiveUp(S)

JobSpec == JobInit /\ [][JobNext]_jobVars
==============================================================================
