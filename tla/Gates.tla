-------------------------------- MODULE Gates --------------------------------
(***************************************************************************)
(* What a result of the server means for the build (github_action/         *)
(* scan_pr.py).  A finding has a severity 1 (low) to 4 (critical), 0 for   *)
(* none; a result has its report, the review status it states ("none" for  *)
(* older servers) and whether it lists units that were not reviewed.       *)
(***************************************************************************)
EXTENDS Integers, Sequences

CONSTANT FailOnPartial, GateOnDeterministic   \* the Action's inputs

ASSUME GateInputs == FailOnPartial \in BOOLEAN /\ GateOnDeterministic \in BOOLEAN

NoThreshold == 0          \* "none"
UnknownThreshold == 99    \* any other text

\* gates_build
GatesBuild(f) == ~f.deterministic \/ GateOnDeterministic \/ f.corroborated # {}

\* severity_gate, of the findings of a report
SeverityGate(report, threshold) ==
    IF threshold # NoThreshold
       /\ \E i \in DOMAIN report : GatesBuild(report[i]) /\ report[i].severity # 0
                                   /\ report[i].severity >= threshold
    THEN 1 ELSE 0

\* review_status
ReviewStatusOf(result) ==
    IF result.status \in {"complete", "partial", "failed"} THEN result.status
    ELSE IF result.listsUnreviewed THEN "partial" ELSE "complete"

\* coverage_gate
CoverageGate(result) == IF FailOnPartial /\ ReviewStatusOf(result) # "complete" THEN 1 ELSE 0

\* The exit code of main, once a result is there.
ExitCode(result, threshold) ==
    IF SeverityGate(result.report, threshold) = 1 \/ CoverageGate(result) = 1 THEN 1 ELSE 0
==============================================================================
