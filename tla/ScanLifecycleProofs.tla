------------------------- MODULE ScanLifecycleProofs -------------------------
(***************************************************************************)
(* Theorems about ScanLifecycle, for any number of processes and scans,    *)
(* any gate width and any budget of faults.                                *)
(***************************************************************************)
EXTENDS ScanLifecycle, FiniteSetTheorems, TLAPS

------------------------------------------------------------------------------
(* Type correctness.                                                       *)

LEMMA CountDown ==
  ASSUME NEW M \in Nat, NEW n \in 0..M, n > 0
  PROVE  n - 1 \in 0..M
OBVIOUS

LEMMA MoveType ==
  ASSUME NEW w \in Workers, NEW s \in Scans, NEW to \in TaskStates, TypeOK, Move(w, s, to)
  PROVE  task' \in [Workers -> [Scans -> TaskStates]]
BY DEF TypeOK, Move

LEMMA TypeInit == Init => TypeOK
BY GateAssumption, BoundsAssumption
   DEF Init, TypeOK, NoTasks, Statuses, Errors, WorkerStates, TaskStates

LEMMA TypeProcess ==
  ASSUME TypeOK, NEW w \in Workers, Process(w)
  PROVE  TypeOK'
<1> USE BoundsAssumption, GateAssumption
<1>1. CASE Boot(w)
  <2>1. worker' \in [Workers -> WorkerStates]
    BY <1>1 DEF Boot, TypeOK, WorkerStates
  <2>2. QED
    BY <1>1, <2>1 DEF Boot, TypeOK, rowVars, faultVars
<1>2. CASE Recover(w)
  <2>1. status' \in [Scans -> Statuses] /\ error' \in [Scans -> Errors]
    BY <1>2 DEF Recover, TypeOK, Statuses, Errors
  <2>2. task' \in [Workers -> [Scans -> TaskStates]]
    BY <1>2 DEF Recover, TypeOK, TaskStates
  <2>3. worker' \in [Workers -> WorkerStates]
    BY <1>2 DEF Recover, TypeOK, WorkerStates
  <2>4. QED
    BY <1>2, <2>1, <2>2, <2>3 DEF Recover, TypeOK, faultVars
<1>3. CASE RecoverError(w)
  <2>1. worker' \in [Workers -> WorkerStates]
    BY <1>3 DEF RecoverError, TypeOK, WorkerStates
  <2>2. dbErrors' \in 0..MaxDbErrors
    BY <1>3, CountDown DEF RecoverError, TypeOK
  <2>3. QED
    BY <1>3, <2>1, <2>2 DEF RecoverError, TypeOK, rowVars
<1>4. CASE Shutdown(w)
  <2>1. worker' \in [Workers -> WorkerStates]
    BY <1>4 DEF Shutdown, TypeOK, WorkerStates
  <2>2. restarts' \in 0..MaxRestarts
    BY <1>4, CountDown DEF Shutdown, TypeOK
  <2>3. QED
    BY <1>4, <2>1, <2>2 DEF Shutdown, TypeOK, rowVars
<1>5. CASE Exit(w)
  <2>1. worker' \in [Workers -> WorkerStates]
    BY <1>5 DEF Exit, TypeOK, WorkerStates
  <2>2. QED
    BY <1>5, <2>1 DEF Exit, TypeOK, rowVars, faultVars
<1>6. CASE Crash(w)
  <2>1. worker' \in [Workers -> WorkerStates]
    BY <1>6 DEF Crash, TypeOK, WorkerStates
  <2>2. restarts' \in 0..MaxRestarts
    BY <1>6, CountDown DEF Crash, TypeOK
  <2>3. task' \in [Workers -> [Scans -> TaskStates]]
    BY <1>6 DEF Crash, TypeOK, NoTasks, TaskStates
  <2>4. permits' \in [Workers -> Nat]
    BY <1>6 DEF Crash, TypeOK
  <2>5. QED
    BY <1>6, <2>1, <2>2, <2>3, <2>4 DEF Crash, TypeOK, rowVars
<1>7. QED
  BY <1>1, <1>2, <1>3, <1>4, <1>5, <1>6 DEF Process

LEMMA TypeRunner ==
  ASSUME TypeOK, NEW w \in Workers, NEW s \in Scans, Submit(w, s) \/ Runner(w, s)
  PROVE  TypeOK'
<1> USE BoundsAssumption
<1>1. task' \in [Workers -> [Scans -> TaskStates]]
  BY MoveType DEF Submit, Runner, LoadSingletons, Cancel, Claim, ClaimSkip, ClaimError,
     Analyzed, Complete, BodyFails, MarkFailed, MarkFailedError, TaskStates
<1>2. CASE Submit(w, s)
  <2>1. status' \in [Scans -> Statuses]
    BY <1>2 DEF Submit, TypeOK, Statuses
  <2>2. QED
    BY <1>1, <1>2, <2>1 DEF Submit, TypeOK, faultVars
<1>3. CASE LoadSingletons(w, s)
  <2>1. loadErrors' \in 0..MaxLoadErrors
    BY <1>3, CountDown DEF LoadSingletons, TypeOK
  <2>2. QED
    BY <1>1, <1>3, <2>1 DEF LoadSingletons, TypeOK, rowVars
<1>4. CASE Cancel(w, s)
  BY <1>1, <1>4 DEF Cancel, TypeOK, rowVars, faultVars
<1>5. CASE Claim(w, s)
  <2>1. status' \in [Scans -> Statuses]
    BY <1>5 DEF Claim, Take, TypeOK, Statuses
  <2>2. permits' \in [Workers -> Nat]
    BY <1>5 DEF Claim, AtGate, Acquire, TypeOK
  <2>3. QED
    BY <1>1, <1>5, <2>1, <2>2 DEF Claim, TypeOK, faultVars
<1>6. CASE ClaimSkip(w, s)
  BY <1>1, <1>6 DEF ClaimSkip, TypeOK, rowVars, faultVars
<1>7. CASE ClaimError(w, s)
  <2>1. dbErrors' \in 0..MaxDbErrors
    BY <1>7, CountDown DEF ClaimError, TypeOK
  <2>2. permits' \in [Workers -> Nat]
    BY <1>7 DEF ClaimError, AtGate, Acquire, TypeOK
  <2>3. QED
    BY <1>1, <1>7, <2>1, <2>2 DEF ClaimError, TypeOK, rowVars
<1>8. CASE Analyzed(w, s)
  <2>1. findings' \in [Scans -> Nat]
    BY <1>8 DEF Analyzed, TypeOK
  <2>2. QED
    BY <1>1, <1>8, <2>1 DEF Analyzed, TypeOK, faultVars
<1>9. CASE Complete(w, s)
  <2>1. status' \in [Scans -> Statuses]
    BY <1>9 DEF Complete, TypeOK, Statuses
  <2>2. result' \in [Scans -> BOOLEAN]
    BY <1>9 DEF Complete, TypeOK
  <2>3. permits' \in [Workers -> Nat]
    BY <1>9 DEF Complete, Release, TypeOK
  <2>4. QED
    BY <1>1, <1>9, <2>1, <2>2, <2>3 DEF Complete, TypeOK, faultVars
<1>10. CASE BodyFails(w, s)
  BY <1>1, <1>10 DEF BodyFails, TypeOK, rowVars, faultVars
<1>11. CASE MarkFailed(w, s)
  <2>1. status' \in [Scans -> Statuses]
    BY <1>11 DEF MarkFailed, TypeOK, Statuses
  <2>2. error' \in [Scans -> Errors]
    BY <1>11 DEF MarkFailed, TypeOK, Errors
  <2>3. permits' \in [Workers -> Nat]
    <3>1. permits' = [permits EXCEPT ![w] = @ + 1]
      BY <1>11 DEF MarkFailed, Release
    <3>2. QED
      BY <3>1 DEF TypeOK
  <2>4. QED
    BY <1>1, <1>11, <2>1, <2>2, <2>3 DEF MarkFailed, TypeOK, faultVars
<1>12. CASE MarkFailedError(w, s)
  <2>1. dbErrors' \in 0..MaxDbErrors
    BY <1>12, CountDown DEF MarkFailedError, TypeOK
  <2>2. permits' \in [Workers -> Nat]
    BY <1>12 DEF MarkFailedError, Release, TypeOK
  <2>3. QED
    BY <1>1, <1>12, <2>1, <2>2 DEF MarkFailedError, TypeOK, rowVars
<1>13. QED
  BY <1>2, <1>3, <1>4, <1>5, <1>6, <1>7, <1>8, <1>9, <1>10, <1>11, <1>12 DEF Runner

LEMMA TypeStep == TypeOK /\ [Next]_vars => TypeOK'
<1>1. TypeOK /\ UNCHANGED vars => TypeOK'
  BY DEF TypeOK, vars
<1>2. QED
  BY <1>1, TypeProcess, TypeRunner DEF Next

\* Type correctness: whatever crashes, errors and restarts happen, the rows, the
\* tasks and the permits keep their types, and no semaphore goes negative.
THEOREM TypeCorrect == Spec => []TypeOK
BY TypeInit, TypeStep, PTL DEF Spec
------------------------------------------------------------------------------
(* The claim is exclusive.  A row never goes back to "queued" once a runner *)
(* took it, and only a claim of a queued row starts a runner: so a second   *)
(* runner would have to find "queued" what the first one left.              *)

Taken(s) == status[s] \notin {"absent", "queued"}

RunnersTookTheRow == \A w \in Workers, s \in Scans : Runs(w, s) => Taken(s)

ClaimInv == TypeOK /\ RunnersTookTheRow /\ OneRunner

LEMMA TakenForGood ==
  ASSUME TypeOK, [Next]_vars, NEW s \in Scans, Taken(s)
  PROVE  Taken(s)'
<1>1. CASE UNCHANGED vars
  BY <1>1 DEF vars, Taken
<1>2. ASSUME NEW w \in Workers, Process(w) PROVE Taken(s)'
  BY <1>2 DEF Process, Boot, Recover, RecoverError, Shutdown, Exit, Crash, Taken, TypeOK, rowVars
<1>3. ASSUME NEW w \in Workers, NEW t \in Scans, Submit(w, t) PROVE Taken(s)'
  BY <1>3 DEF Submit, Taken, TypeOK
<1>4. ASSUME NEW w \in Workers, NEW t \in Scans, Runner(w, t) PROVE Taken(s)'
  BY <1>4 DEF Runner, LoadSingletons, Cancel, Claim, Claimable, Take, ClaimSkip, ClaimError,
     Analyzed, Complete, BodyFails, MarkFailed, MarkFailedError, Taken, TypeOK, rowVars
<1>5. QED
  BY <1>1, <1>2, <1>3, <1>4 DEF Next

LEMMA RunnerBegins ==
  ASSUME TypeOK, [Next]_vars, NEW w \in Workers, NEW s \in Scans, Runs(w, s)', ~Runs(w, s)
  PROVE  Claim(w, s)
<1>1. task # task'
  BY DEF Runs
<1>2. CASE UNCHANGED vars
  BY <1>1, <1>2 DEF vars
<1>3. ASSUME NEW v \in Workers, Process(v) PROVE FALSE
  <2>1. CASE Recover(v)
    <3>1. task'[w][s] \in {"starting", "none", task[w][s]}
      BY <2>1 DEF Recover, TypeOK
    <3>2. QED
      BY <3>1 DEF Runs, Executing
  <2>2. CASE Crash(v)
    <3>1. task'[w][s] \in {"none", task[w][s]}
      BY <2>2 DEF Crash, NoTasks, TypeOK
    <3>2. QED
      BY <3>1 DEF Runs, Executing
  <2>3. QED
    BY <1>1, <1>3, <2>1, <2>2 DEF Process, Boot, RecoverError, Shutdown, Exit
<1>4. ASSUME NEW v \in Workers, NEW t \in Scans, Submit(v, t) PROVE FALSE
  BY <1>4 DEF Submit, Move, Runs, Executing, TypeOK
<1>5. ASSUME NEW v \in Workers, NEW t \in Scans, Runner(v, t), ~Claim(v, t) PROVE FALSE
  <2>1. \/ Move(v, t, "none") \/ Move(v, t, "waiting") \/ Move(v, t, "failing")
        \/ Runs(v, t) /\ (Move(v, t, "cancelled") \/ Move(v, t, "reviewing"))
    BY <1>5 DEF Runner, LoadSingletons, Cancel, ClaimSkip, ClaimError, Analyzed, Complete,
       BodyFails, MarkFailed, MarkFailedError, Runs, Executing
  <2>2. ASSUME NEW to, Move(v, t, to)
        PROVE  task'[w][s] = IF v = w /\ t = s THEN to ELSE task[w][s]
    BY <2>2 DEF Move, TypeOK
  <2>3. task'[w][s] \in {"none", "waiting", "failing", task[w][s]} \/ (v = w /\ t = s /\ Runs(v, t))
    BY <2>1, <2>2
  <2>4. QED
    BY <2>3 DEF Runs, Executing
<1>6. ASSUME NEW v \in Workers, NEW t \in Scans, Claim(v, t) PROVE v = w /\ t = s
  BY <1>6 DEF Claim, Move, Runs, Executing, TypeOK
<1>7. QED
  BY <1>2, <1>3, <1>4, <1>5, <1>6 DEF Next

LEMMA ClaimInit == Init => ClaimInv
BY TypeInit DEF Init, ClaimInv, RunnersTookTheRow, OneRunner, Runs, Executing, NoTasks

LEMMA ClaimStep == ClaimInv /\ [Next]_vars => ClaimInv'
<1> SUFFICES ASSUME ClaimInv, [Next]_vars PROVE ClaimInv'
  OBVIOUS
<1>1. TypeOK /\ TypeOK'
  BY TypeStep DEF ClaimInv
<1>2. RunnersTookTheRow'
  <2> SUFFICES ASSUME NEW w \in Workers, NEW s \in Scans, Runs(w, s)' PROVE Taken(s)'
    BY DEF RunnersTookTheRow
  <2>1. CASE Runs(w, s)
    BY <1>1, <2>1, TakenForGood DEF ClaimInv, RunnersTookTheRow
  <2>2. CASE ~Runs(w, s)
    <3>1. Claim(w, s)
      BY <1>1, <2>2, RunnerBegins
    <3>2. QED
      BY <1>1, <3>1 DEF Claim, Take, Taken, TypeOK
  <2>3. QED
    BY <2>1, <2>2
<1>3. OneRunner'
  <2> SUFFICES ASSUME NEW s \in Scans, NEW v \in Workers, NEW w \in Workers,
                      Runs(v, s)', Runs(w, s)', v # w
               PROVE  FALSE
    BY DEF OneRunner
  <2>1. ASSUME NEW x \in Workers, NEW y \in Workers, x # y, Runs(y, s)', ~Runs(x, s), Runs(x, s)'
        PROVE  FALSE
    <3>1. Claim(x, s)
      BY <1>1, <2>1, RunnerBegins
    <3>2. Runs(y, s)
      BY <1>1, <2>1, <3>1 DEF Claim, Move, Runs, TypeOK
    <3>3. QED
      BY <3>1, <3>2 DEF ClaimInv, RunnersTookTheRow, Taken, Claim, Claimable
  <2>2. Runs(v, s) /\ Runs(w, s)
    BY <2>1
  <2>3. QED
    BY <2>2 DEF ClaimInv, OneRunner
<1>4. QED
  BY <1>1, <1>2, <1>3 DEF ClaimInv

\* At most one runner per scan: the conditional UPDATE of _run_scan_guarded is
\* enough, for any number of processes recovering and crashing at any time.
THEOREM ClaimExclusive == Spec => []OneRunner
<1>1. Spec => []ClaimInv
  BY ClaimInit, ClaimStep, PTL DEF Spec
<1>2. ClaimInv => OneRunner
  BY DEF ClaimInv
<1>3. QED
  BY <1>1, <1>2, PTL
------------------------------------------------------------------------------
(* The gate.  What a process's semaphore counts and what its tasks hold move *)
(* together on every path out of the guarded body.                           *)

Holders(w) == {s \in Scans : task[w][s] \in Holding}
Room(w) == permits[w] + Cardinality(Holders(w))

IdleProcesses == \A w \in Workers : worker[w] \in {"down", "booting"} => task[w] = NoTasks

NoTaskWithoutRow ==
    \A w \in Workers, s \in Scans : status[s] = "absent" => task[w][s] = "none"

GateInv == TypeOK /\ IdleProcesses /\ NoTaskWithoutRow /\ GateAccounting

LEMMA HoldersFinite ==
  ASSUME NEW w \in Workers
  PROVE  IsFiniteSet(Holders(w)) /\ Cardinality(Holders(w)) \in Nat
BY ScansAssumption, FS_Subset, FS_CardinalityType DEF Holders

LEMMA Enter ==
  ASSUME TypeOK, NEW w \in Workers, NEW s \in Scans, NEW to \in Holding,
         task[w][s] \notin Holding, Move(w, s, to), Acquire(w), AtGate(w, s), NEW v \in Workers
  PROVE  Room(v)' = Room(v)
<1>1. CASE v = w
  <2>1. Holders(v)' = Holders(v) \cup {s} /\ s \notin Holders(v)
    BY <1>1 DEF Holders, Move, TypeOK
  <2>2. Cardinality(Holders(v)') = Cardinality(Holders(v)) + 1
    BY <2>1, HoldersFinite, FS_AddElement
  <2>3. permits'[v] = permits[v] - 1 /\ permits[v] \in Nat
    BY <1>1 DEF Acquire, TypeOK
  <2>4. QED
    BY <2>2, <2>3, HoldersFinite DEF Room
<1>2. CASE v # w
  BY <1>2 DEF Room, Holders, Move, Acquire, TypeOK
<1>3. QED
  BY <1>1, <1>2

LEMMA Leave ==
  ASSUME TypeOK, NEW w \in Workers, NEW s \in Scans, task[w][s] \in Holding,
         Move(w, s, "none"), Release(w), NEW v \in Workers
  PROVE  Room(v)' = Room(v)
<1>1. CASE v = w
  <2>1. Holders(v)' = Holders(v) \ {s} /\ s \in Holders(v)
    BY <1>1 DEF Holders, Move, TypeOK, Holding, Executing
  <2>2. Cardinality(Holders(v)') = Cardinality(Holders(v)) - 1
    BY <2>1, HoldersFinite, FS_RemoveElement
  <2>3. permits'[v] = permits[v] + 1 /\ permits[v] \in Nat
    BY <1>1 DEF Release, TypeOK
  <2>4. QED
    BY <2>2, <2>3, HoldersFinite DEF Room
<1>2. CASE v # w
  BY <1>2 DEF Room, Holders, Move, Release, TypeOK
<1>3. QED
  BY <1>1, <1>2

LEMMA Stay ==
  ASSUME TypeOK, NEW w \in Workers, NEW s \in Scans, NEW to \in TaskStates,
         task[w][s] \in Holding <=> to \in Holding,
         Move(w, s, to), UNCHANGED permits, NEW v \in Workers
  PROVE  Room(v)' = Room(v)
BY DEF Room, Holders, Move, TypeOK

LEMMA NoHolders ==
  ASSUME NEW w \in Workers, task[w] = NoTasks
  PROVE  Room(w) = permits[w] + 0
<1>1. Holders(w) = {}
  BY DEF Holders, NoTasks, Holding, Executing
<1>2. QED
  BY <1>1, FS_EmptySet DEF Room

LEMMA RoomRunner ==
  ASSUME TypeOK, NEW w \in Workers, NEW s \in Scans, Submit(w, s) \/ Runner(w, s),
         IdleProcesses, NEW v \in Workers, status[s] = "absent" => task[w][s] \notin Holding
  PROVE  Room(v)' = Room(v)
<1> USE DEF TaskStates, Holding, Executing, Pending
<1>1. CASE Submit(w, s)
  BY <1>1, Stay DEF Submit
<1>2. CASE LoadSingletons(w, s)
  BY <1>2, Stay DEF LoadSingletons
<1>3. CASE Cancel(w, s)
  BY <1>3, Stay DEF Cancel
<1>4. CASE Claim(w, s)
  BY <1>4, Enter DEF Claim, AtGate
<1>5. CASE ClaimSkip(w, s)
  BY <1>5, Stay DEF ClaimSkip, AtGate
<1>6. CASE ClaimError(w, s)
  BY <1>6, Enter DEF ClaimError, AtGate
<1>7. CASE Analyzed(w, s)
  BY <1>7, Stay DEF Analyzed
<1>8. CASE Complete(w, s)
  BY <1>8, Leave DEF Complete
<1>9. CASE BodyFails(w, s)
  BY <1>9, Stay DEF BodyFails
<1>10. CASE MarkFailed(w, s)
  BY <1>10, Leave DEF MarkFailed
<1>11. CASE MarkFailedError(w, s)
  BY <1>11, Leave DEF MarkFailedError
<1>12. QED
  BY <1>1, <1>2, <1>3, <1>4, <1>5, <1>6, <1>7, <1>8, <1>9, <1>10, <1>11 DEF Runner
LEMMA IdleStep ==
  ASSUME TypeOK, IdleProcesses, [Next]_vars
  PROVE  IdleProcesses'
<1> SUFFICES ASSUME NEW x \in Workers, worker'[x] \in {"down", "booting"}
             PROVE  task'[x] = NoTasks
  BY DEF IdleProcesses, NoTasks
<1>1. CASE UNCHANGED vars
  BY <1>1 DEF vars, IdleProcesses
<1>2. ASSUME NEW w \in Workers, Process(w) PROVE task'[x] = NoTasks
  BY <1>2 DEF Process, Boot, Recover, RecoverError, Shutdown, Exit, Crash, IdleProcesses, TypeOK
<1>3. ASSUME NEW w \in Workers, NEW s \in Scans, Submit(w, s) \/ Runner(w, s)
      PROVE  task'[x] = NoTasks
  <2>1. Alive(w) /\ UNCHANGED worker
    BY <1>3 DEF Submit, Runner, LoadSingletons, Cancel, Claim, ClaimSkip, ClaimError, Analyzed,
       Complete, BodyFails, MarkFailed, MarkFailedError, AtGate, Alive
  <2>2. x # w
    BY <2>1 DEF Alive
  <2>3. \E to : Move(w, s, to)
    BY <1>3 DEF Submit, Runner, LoadSingletons, Cancel, Claim, ClaimSkip, ClaimError, Analyzed,
       Complete, BodyFails, MarkFailed, MarkFailedError
  <2>4. task'[x] = task[x]
    BY <2>2, <2>3 DEF Move, TypeOK
  <2>5. QED
    BY <2>1, <2>4 DEF IdleProcesses
<1>4. QED
  BY <1>1, <1>2, <1>3 DEF Next

LEMMA RowStep ==
  ASSUME TypeOK, NoTaskWithoutRow, [Next]_vars
  PROVE  NoTaskWithoutRow'
<1> SUFFICES ASSUME NEW x \in Workers, NEW t \in Scans, status'[t] = "absent"
             PROVE  task'[x][t] = "none"
  BY DEF NoTaskWithoutRow
<1>1. CASE UNCHANGED vars
  BY <1>1 DEF vars, NoTaskWithoutRow
<1>2. ASSUME NEW w \in Workers, Process(w) PROVE task'[x][t] = "none"
  <2>1. CASE Recover(w)
    <3>1. status[t] = "absent"
      BY <2>1 DEF Recover, TypeOK
    <3>2. QED
      BY <2>1, <3>1 DEF Recover, Requeued, NoTaskWithoutRow, TypeOK
  <2>2. CASE Crash(w)
    BY <2>2 DEF Crash, NoTasks, NoTaskWithoutRow, TypeOK, rowVars
  <2>3. QED
    BY <1>2, <2>1, <2>2 DEF Process, Boot, RecoverError, Shutdown, Exit, NoTaskWithoutRow, rowVars
<1>3. ASSUME NEW w \in Workers, NEW s \in Scans, Submit(w, s) \/ Runner(w, s)
      PROVE  task'[x][t] = "none"
  <2>1. status[t] = "absent"
    BY <1>3 DEF Submit, Runner, LoadSingletons, Cancel, Claim, Take, ClaimSkip, ClaimError, Analyzed,
       Complete, BodyFails, MarkFailed, MarkFailedError, rowVars, TypeOK
  <2>2. t # s
    BY <1>3, <2>1 DEF Submit, Runner, LoadSingletons, Cancel, Claim, ClaimSkip, ClaimError,
       Analyzed, Complete, BodyFails, MarkFailed, MarkFailedError, AtGate, Pending,
       NoTaskWithoutRow, TypeOK
  <2>3. \E to : Move(w, s, to)
    BY <1>3 DEF Submit, Runner, LoadSingletons, Cancel, Claim, ClaimSkip, ClaimError, Analyzed,
       Complete, BodyFails, MarkFailed, MarkFailedError
  <2>4. QED
    BY <2>1, <2>2, <2>3 DEF Move, NoTaskWithoutRow, TypeOK
<1>4. QED
  BY <1>1, <1>2, <1>3 DEF Next

LEMMA GateInit == Init => GateInv
<1> SUFFICES ASSUME Init PROVE GateInv
  OBVIOUS
<1>1. TypeOK /\ IdleProcesses /\ NoTaskWithoutRow
  BY TypeInit DEF Init, IdleProcesses, NoTaskWithoutRow, NoTasks
<1>2. ASSUME NEW w \in Workers PROVE Room(w) = MaxConcurrentScans
  BY NoHolders, GateAssumption DEF Init
<1>3. QED
  BY <1>1, <1>2 DEF GateInv, GateAccounting, Room, Holders

LEMMA GateStep == GateInv /\ [Next]_vars => GateInv'
<1> SUFFICES ASSUME GateInv, [Next]_vars PROVE GateInv'
  OBVIOUS
<1>1. TypeOK' /\ IdleProcesses' /\ NoTaskWithoutRow'
  BY TypeStep, IdleStep, RowStep DEF GateInv
<1>2. ASSUME NEW v \in Workers PROVE Room(v)' = MaxConcurrentScans
  <2>1. Room(v) = MaxConcurrentScans
    BY DEF GateInv, GateAccounting, Room, Holders
  <2>2. CASE UNCHANGED vars
    BY <2>1, <2>2 DEF vars, Room, Holders
  <2>3. ASSUME NEW w \in Workers, Process(w) PROVE Room(v)' = MaxConcurrentScans
    <3>1. CASE Recover(w)
      <4>1. CASE v = w
        <5>1. Room(v) = permits[v] + 0
          BY <3>1, <4>1, NoHolders DEF Recover, GateInv, IdleProcesses
        <5>2. Holders(v)' = {} /\ permits' = permits
          BY <3>1, <4>1 DEF Recover, Holders, Holding, Executing, GateInv, TypeOK
        <5>3. QED
          BY <2>1, <5>1, <5>2, FS_EmptySet DEF Room
      <4>2. CASE v # w
        BY <2>1, <3>1, <4>2 DEF Recover, Room, Holders, GateInv, TypeOK
      <4>3. QED
        BY <4>1, <4>2
    <3>2. CASE Crash(w)
      <4>1. CASE v = w
        <5>1. Holders(v)' = {} /\ permits'[v] = MaxConcurrentScans
          BY <3>2, <4>1 DEF Crash, NoTasks, Holders, Holding, Executing, GateInv, TypeOK
        <5>2. QED
          BY <5>1, FS_EmptySet, GateAssumption DEF Room
      <4>2. CASE v # w
        BY <2>1, <3>2, <4>2 DEF Crash, Room, Holders, GateInv, TypeOK
      <4>3. QED
        BY <4>1, <4>2
    <3>3. QED
      BY <2>1, <2>3, <3>1, <3>2 DEF Process, Boot, RecoverError, Shutdown, Exit, Room, Holders
  <2>4. ASSUME NEW w \in Workers, NEW s \in Scans, Submit(w, s) \/ Runner(w, s)
        PROVE  Room(v)' = MaxConcurrentScans
    <3>1. status[s] = "absent" => task[w][s] \notin Holding
      BY DEF GateInv, NoTaskWithoutRow, Holding, Executing
    <3>2. QED
      BY <2>1, <2>4, <3>1, RoomRunner DEF GateInv
  <2>5. QED
    BY <2>2, <2>3, <2>4 DEF Next
<1>3. QED
  BY <1>1, <1>2 DEF GateInv, GateAccounting, Room, Holders

\* The gate neither leaks nor duplicates permits, so MAX_CONCURRENT_SCANS bounds
\* the scans of a process and stays available to it.
THEOREM GateSound == Spec => []GateAccounting
<1>1. Spec => []GateInv
  BY GateInit, GateStep, PTL DEF Spec
<1>2. GateInv => GateAccounting
  BY DEF GateInv
<1>3. QED
  BY <1>1, <1>2, PTL
------------------------------------------------------------------------------
(* Restart recovery.  The findings of a scan are written by the one runner  *)
(* that claimed it, so at most once; and a queued or running row is left    *)
(* without a task only by a process that is not up, or by a commit or a     *)
(* singleton load that failed.                                              *)

\* The batches of findings the row of a scan has.
RowFindings(s) ==
    /\ ~Taken(s) => findings[s] = 0
    /\ findings[s] <= 1
    /\ status[s] = "completed" => result[s] /\ findings[s] = 1

\* The batches of findings the row has while its runner works.
RunnerFindings(w, s) ==
    /\ task[w][s] = "analyzing" => findings[s] = 0
    /\ task[w][s] = "reviewing" => findings[s] = 1

FindingsInv ==
    /\ \A s \in Scans : RowFindings(s)
    /\ \A w \in Workers, s \in Scans : RunnerFindings(w, s)

NoFaultYet == dbErrors = MaxDbErrors /\ loadErrors = MaxLoadErrors

SomeProcessDown == \E w \in Workers : worker[w] # "up"

\* No row waits for a task that will not come.
NotStranded(s) ==
    /\ status[s] = "queued" => (\E w \in Workers : task[w][s] \in Pending) \/ SomeProcessDown
    /\ status[s] = "running" => (\E w \in Workers : task[w][s] \in Holding) \/ SomeProcessDown

NoneStranded == NoFaultYet => \A s \in Scans : NotStranded(s)

LEMMA FindingsInit == Init => FindingsInv
BY DEF Init, FindingsInv, RowFindings, RunnerFindings, NoTasks

\* A step of the runner of s touches only the row and the tasks of s.
LEMMA RunnerTouches ==
  ASSUME TypeOK, NEW v \in Workers, NEW s \in Scans, Submit(v, s) \/ Runner(v, s)
  PROVE  /\ worker' = worker
         /\ \A t \in Scans \ {s} :
               status'[t] = status[t] /\ findings'[t] = findings[t] /\ result'[t] = result[t]
         /\ \A w \in Workers, t \in Scans : w # v \/ t # s => task'[w][t] = task[w][t]
<1>1. \E to : Move(v, s, to)
  BY DEF Submit, Runner, LoadSingletons, Cancel, Claim, ClaimSkip, ClaimError,
     Analyzed, Complete, BodyFails, MarkFailed, MarkFailedError
<1>2. \A w \in Workers, t \in Scans : w # v \/ t # s => task'[w][t] = task[w][t]
  BY <1>1 DEF Move, TypeOK
<1>3. QED
  BY <1>2 DEF Submit, Runner, LoadSingletons, Cancel, Claim, Take, ClaimSkip, ClaimError,
     Analyzed, Complete, BodyFails, MarkFailed, MarkFailedError, rowVars, TypeOK

LEMMA FindingsRunner ==
  ASSUME ClaimInv, FindingsInv, NEW v \in Workers, NEW s \in Scans, Submit(v, s) \/ Runner(v, s)
  PROVE  FindingsInv'
<1>1. TypeOK
  BY DEF ClaimInv
<1>2. ASSUME NEW t \in Scans \ {s}, NEW w \in Workers
      PROVE  RowFindings(t)' /\ RunnerFindings(w, t)'
  BY <1>1, RunnerTouches DEF FindingsInv, RowFindings, RunnerFindings, Taken
<1>3. ASSUME NEW w \in Workers PROVE RowFindings(s)' /\ RunnerFindings(w, s)'
  <2>1. /\ RowFindings(s) /\ RunnerFindings(w, s) /\ RunnerFindings(v, s)
        /\ w # v => task'[w][s] = task[w][s]
    BY <1>1, RunnerTouches DEF FindingsInv
  <2> USE <1>1, <2>1 DEF RowFindings, RunnerFindings, Taken, Move, TypeOK, rowVars
  <2>2. CASE Submit(v, s)
    BY <2>2 DEF Submit
  <2>3. CASE LoadSingletons(v, s)
    BY <2>3 DEF LoadSingletons
  <2>4. CASE Cancel(v, s)
    BY <2>4 DEF Cancel
  <2>5. CASE Claim(v, s)
    BY <2>5 DEF Claim, Claimable, Take
  <2>6. CASE ClaimSkip(v, s)
    BY <2>6 DEF ClaimSkip
  <2>7. CASE ClaimError(v, s)
    BY <2>7 DEF ClaimError
  <2>8. CASE Analyzed(v, s)
    <3>1. Runs(v, s) /\ Taken(s)
      BY <2>8 DEF Analyzed, Runs, Executing, ClaimInv, RunnersTookTheRow
    <3>2. w # v => ~Runs(w, s)
      BY <3>1 DEF ClaimInv, OneRunner
    <3>3. w # v => task[w][s] # "analyzing" /\ task[w][s] # "reviewing"
      BY <3>2 DEF Runs, Executing
    <3>4. QED
      BY <2>8, <3>1, <3>3 DEF Analyzed
  <2>9. CASE Complete(v, s)
    BY <2>9 DEF Complete
  <2>10. CASE BodyFails(v, s)
    BY <2>10 DEF BodyFails
  <2>11. CASE MarkFailed(v, s)
    <3>1. status'[s] = "failed" /\ UNCHANGED <<findings, result>>
      BY <2>11 DEF MarkFailed
    <3>2. task'[v][s] = "none"
      BY <2>11 DEF MarkFailed
    <3>3. QED
      BY <3>1, <3>2
  <2>12. CASE MarkFailedError(v, s)
    BY <2>12 DEF MarkFailedError
  <2>13. QED
    BY <2>2, <2>3, <2>4, <2>5, <2>6, <2>7, <2>8, <2>9, <2>10, <2>11, <2>12 DEF Runner
<1>4. QED
  BY <1>2, <1>3 DEF FindingsInv

LEMMA FindingsProcess ==
  ASSUME TypeOK, FindingsInv, NEW v \in Workers, Process(v)
  PROVE  FindingsInv'
<1> SUFFICES ASSUME NEW w \in Workers, NEW s \in Scans
             PROVE  RowFindings(s)' /\ RunnerFindings(w, s)'
  BY DEF FindingsInv
<1>1. RowFindings(s) /\ RunnerFindings(w, s)
  BY DEF FindingsInv
<1> USE <1>1 DEF RowFindings, RunnerFindings, Taken, rowVars
<1>2. CASE Recover(v)
  <2>1. /\ status'[s] = IF status[s] = "running" THEN "failed" ELSE status[s]
        /\ findings'[s] = findings[s] /\ result'[s] = result[s]
    BY <1>2 DEF Recover, Orphaned
  <2>2. task'[w][s] \in {"starting", "none", task[w][s]}
    BY <1>2 DEF Recover, TypeOK
  <2>3. QED
    BY <2>1, <2>2
<1>3. CASE Crash(v)
  <2>1. task'[w][s] \in {"none", task[w][s]}
    BY <1>3 DEF Crash, NoTasks, TypeOK
  <2>2. QED
    BY <1>3, <2>1 DEF Crash
<1>4. QED
  BY <1>2, <1>3 DEF Process, Boot, RecoverError, Shutdown, Exit

LEMMA FindingsStep == ClaimInv /\ FindingsInv /\ [Next]_vars => FindingsInv'
<1>1. FindingsInv /\ UNCHANGED vars => FindingsInv'
  BY DEF FindingsInv, RowFindings, RunnerFindings, Taken, vars
<1>2. QED
  BY <1>1, FindingsRunner, FindingsProcess DEF Next, ClaimInv

\* The fault budgets only go down: once a fault has happened, it has.
LEMMA FaultsStay == TypeOK /\ [Next]_vars /\ NoFaultYet' => NoFaultYet
<1> SUFFICES ASSUME TypeOK, [Next]_vars, NoFaultYet' PROVE NoFaultYet
  OBVIOUS
<1>1. CASE UNCHANGED vars
  BY <1>1 DEF vars, NoFaultYet
<1> DEFINE fewer(n, m) == n = m \/ n = m - 1
<1>2. ASSUME NEW w \in Workers, Process(w)
      PROVE  fewer(dbErrors', dbErrors) /\ fewer(loadErrors', loadErrors)
  BY <1>2 DEF Process, Boot, Recover, RecoverError, Shutdown, Exit, Crash, faultVars
<1>3. ASSUME NEW w \in Workers, NEW s \in Scans, Submit(w, s) \/ Runner(w, s)
      PROVE  fewer(dbErrors', dbErrors) /\ fewer(loadErrors', loadErrors)
  BY <1>3 DEF Submit, Runner, LoadSingletons, Cancel, Claim, ClaimSkip, ClaimError, Analyzed,
     Complete, BodyFails, MarkFailed, MarkFailedError, faultVars
<1>4. CASE fewer(dbErrors', dbErrors) /\ fewer(loadErrors', loadErrors)
  <2>1. dbErrors \in 0..MaxDbErrors /\ loadErrors \in 0..MaxLoadErrors
    BY DEF TypeOK
  <2>2. QED
    BY <1>4, <2>1, BoundsAssumption DEF NoFaultYet
<1>5. QED
  BY <1>1, <1>2, <1>3, <1>4 DEF Next

LEMMA StrandedRunner ==
  ASSUME TypeOK, NoFaultYet, NoFaultYet', NEW v \in Workers, NEW s \in Scans,
         Submit(v, s) \/ Runner(v, s), NEW t \in Scans, NotStranded(t)
  PROVE  NotStranded(t)'
<1>1. /\ worker' = worker
      /\ t # s => status'[t] = status[t]
      /\ \A w \in Workers : w # v \/ t # s => task'[w][t] = task[w][t]
  BY RunnerTouches
<1>2. SomeProcessDown' <=> SomeProcessDown
  BY <1>1 DEF SomeProcessDown
<1>3. CASE t # s
  BY <1>1, <1>2, <1>3 DEF NotStranded
<1>4. CASE t = s
  <2> USE <1>2, <1>4 DEF NotStranded, Move, TypeOK, Pending, Holding, Executing
  <2>1. CASE Submit(v, s)
    BY <2>1 DEF Submit
  <2>2. CASE LoadSingletons(v, s)
    <3>1. Move(v, s, "waiting")
      BY <2>2 DEF LoadSingletons, NoFaultYet
    <3>2. status' = status /\ task[v][s] = "starting"
      BY <2>2 DEF LoadSingletons, rowVars
    <3>3. \A w \in Workers : task[w][s] \in Pending => task'[w][s] \in Pending
      BY <1>1, <3>1
    <3>4. \A w \in Workers : task[w][s] \in Holding => task'[w][s] \in Holding
      BY <1>1, <3>2
    <3>5. QED
      BY <3>2, <3>3, <3>4
  <2>3. CASE Cancel(v, s)
    BY <2>3 DEF Cancel, SomeProcessDown
  <2>4. CASE Claim(v, s)
    BY <2>4 DEF Claim, Take
  <2>5. CASE ClaimSkip(v, s)
    <3>1. status'[s] # "queued" /\ status' = status
      BY <2>5 DEF ClaimSkip, Claimable, rowVars
    <3>2. \A w \in Workers : task[w][s] \in Holding => task'[w][s] \in Holding
      BY <1>1, <2>5 DEF ClaimSkip, AtGate
    <3>3. QED
      BY <3>1, <3>2
  <2>6. CASE ClaimError(v, s)
    BY <2>6 DEF ClaimError, NoFaultYet
  <2>7. CASE Analyzed(v, s)
    <3>1. status' = status /\ task[v][s] = "analyzing" /\ task'[v][s] = "reviewing"
      BY <2>7 DEF Analyzed
    <3>2. QED
      BY <1>1, <3>1
  <2>8. CASE Complete(v, s)
    BY <2>8 DEF Complete
  <2>9. CASE BodyFails(v, s)
    <3>1. status' = status /\ task[v][s] \in Executing /\ task'[v][s] = "failing"
      BY <2>9 DEF BodyFails, rowVars
    <3>2. QED
      BY <1>1, <3>1
  <2>10. CASE MarkFailed(v, s)
    <3>1. status'[s] = "failed"
      BY <2>10 DEF MarkFailed
    <3>2. QED
      BY <3>1
  <2>11. CASE MarkFailedError(v, s)
    BY <2>11 DEF MarkFailedError, NoFaultYet
  <2>12. QED
    BY <2>1, <2>2, <2>3, <2>4, <2>5, <2>6, <2>7, <2>8, <2>9, <2>10, <2>11 DEF Runner
<1>5. QED
  BY <1>3, <1>4

LEMMA StrandedProcess ==
  ASSUME TypeOK, NoFaultYet', NEW v \in Workers, Process(v), NEW t \in Scans, NotStranded(t)
  PROVE  NotStranded(t)'
<1>1. CASE Recover(v)
  <2>1. status'[t] # "running"
    BY <1>1 DEF Recover, Orphaned
  <2>2. status'[t] = "queued" => task'[v][t] = "starting"
    BY <1>1 DEF Recover, Orphaned, Requeued, TypeOK
  <2>3. QED
    BY <2>1, <2>2 DEF NotStranded, Pending
<1>2. CASE ~Recover(v)
  <2>1. worker'[v] # "up"
    BY <1>2 DEF Process, Boot, RecoverError, Shutdown, Exit, Crash, TypeOK
  <2>2. QED
    BY <2>1 DEF NotStranded, SomeProcessDown
<1>3. QED
  BY <1>1, <1>2

LEMMA StrandedStep == TypeOK /\ NoneStranded /\ [Next]_vars => NoneStranded'
<1> SUFFICES ASSUME TypeOK, NoneStranded, [Next]_vars, NoFaultYet', NEW t \in Scans
             PROVE  NotStranded(t)'
  BY DEF NoneStranded
<1>1. NoFaultYet /\ NotStranded(t)
  BY FaultsStay DEF NoneStranded
<1>2. CASE UNCHANGED vars
  BY <1>1, <1>2 DEF NotStranded, SomeProcessDown, vars
<1>3. QED
  BY <1>1, <1>2, StrandedRunner, StrandedProcess DEF Next

LEMMA StrandedInit == Init => NoneStranded
BY DEF Init, NoneStranded, NotStranded

\* Restart recovery leaves no scan behind and runs none twice (main.py:54-57),
\* for any number of processes and scans and any history of crashes.
THEOREM RecoverySound == Spec => []RecoveryIsWhole
<1>1. Spec => [](ClaimInv /\ FindingsInv /\ NoneStranded)
  <2>1. Init => ClaimInv /\ FindingsInv /\ NoneStranded
    BY ClaimInit, FindingsInit, StrandedInit
  <2>2. ClaimInv /\ FindingsInv /\ NoneStranded /\ [Next]_vars
           => (ClaimInv /\ FindingsInv /\ NoneStranded)'
    BY ClaimStep, FindingsStep, StrandedStep DEF ClaimInv
  <2>3. QED
    BY <2>1, <2>2, PTL DEF Spec
<1>2. FindingsInv /\ NoneStranded => RecoveryIsWhole
  <2>1. ASSUME FindingsInv, NEW s \in Scans
        PROVE  findings[s] <= 1 /\ (status[s] = "completed" => result[s] /\ findings[s] = 1)
    BY <2>1 DEF FindingsInv, RowFindings
  <2>2. ASSUME NoneStranded, NoFaultYet, \A w \in Workers : worker[w] = "up", NEW s \in Scans
        PROVE  /\ status[s] = "queued" => \E w \in Workers : task[w][s] \in Pending
               /\ status[s] = "running" => \E w \in Workers : task[w][s] \in Holding
    BY <2>2 DEF NoneStranded, NotStranded, SomeProcessDown
  <2>3. QED
    BY <2>1, <2>2 DEF RecoveryIsWhole, NoFaultYet
<1>3. QED
  BY <1>1, <1>2, PTL

------------------------------------------------------------------------------
(* With one process on the database, ScanLifecycle implements ScanJob: the *)
(* statuses and answers a client polls only move forward and the terminal  *)
(* ones are final.  (With two processes the restart recovery of one breaks *)
(* this: run scan_rolling.)                                                *)


\* The task of a scan and its row agree.
TaskFits(w, s) ==
    /\ task[w][s] \in Pending => status[s] = "queued"
    /\ task[w][s] \in Executing => status[s] = "running"
    /\ task[w][s] = "failing" => status[s] \in {"queued", "running"}

\* The columns of a row agree.
RowFits(s) ==
    /\ error[s] # "none" <=> status[s] = "failed"
    /\ result[s] <=> status[s] = "completed"

SoleInv ==
    /\ TypeOK
    /\ \A w \in Workers, s \in Scans : TaskFits(w, s)
    /\ \A s \in Scans : RowFits(s)

LEMMA SoleInit == Init => SoleInv
BY TypeInit DEF Init, SoleInv, TaskFits, RowFits, NoTasks, Pending, Executing

LEMMA SoleRunner ==
  ASSUME SoleInv, NEW w \in Workers, Workers = {w}, NEW s \in Scans, TypeOK',
         Submit(w, s) \/ Runner(w, s)
  PROVE  SoleInv'
<1>1. ASSUME NEW t \in Scans, t # s PROVE TaskFits(w, t)' /\ RowFits(t)'
  <2>1. status'[t] = status[t] /\ error'[t] = error[t] /\ result'[t] = result[t]
    BY <1>1 DEF Submit, Runner, LoadSingletons, Cancel, Claim, Take, ClaimSkip, ClaimError, Analyzed,
       Complete, BodyFails, MarkFailed, MarkFailedError, rowVars, SoleInv, TypeOK
  <2>2. \E to : Move(w, s, to)
    BY DEF Submit, Runner, LoadSingletons, Cancel, Claim, ClaimSkip, ClaimError,
       Analyzed, Complete, BodyFails, MarkFailed, MarkFailedError
  <2>3. task'[w][t] = task[w][t]
    BY <1>1, <2>2 DEF Move, SoleInv, TypeOK
  <2>4. TaskFits(w, t) /\ RowFits(t)
    BY DEF SoleInv
  <2>5. QED
    BY <2>1, <2>3, <2>4 DEF TaskFits, RowFits
<1>2. TaskFits(w, s)' /\ RowFits(s)'
  <2> USE DEF SoleInv, TaskFits, RowFits, Move, TypeOK, Pending, Executing, rowVars
  <2>1. CASE Submit(w, s)
    BY <2>1 DEF Submit
  <2>2. CASE LoadSingletons(w, s)
    BY <2>2 DEF LoadSingletons
  <2>3. CASE Cancel(w, s)
    BY <2>3 DEF Cancel
  <2>4. CASE Claim(w, s)
    BY <2>4 DEF Claim, Claimable, Take, AtGate
  <2>5. CASE ClaimSkip(w, s)
    BY <2>5 DEF ClaimSkip, AtGate
  <2>6. CASE ClaimError(w, s)
    BY <2>6 DEF ClaimError, AtGate
  <2>7. CASE Analyzed(w, s)
    BY <2>7 DEF Analyzed
  <2>8. CASE Complete(w, s)
    BY <2>8 DEF Complete
  <2>9. CASE BodyFails(w, s)
    BY <2>9 DEF BodyFails
  <2>10. CASE MarkFailed(w, s)
    BY <2>10 DEF MarkFailed
  <2>11. CASE MarkFailedError(w, s)
    BY <2>11 DEF MarkFailedError
  <2>12. QED
    BY <2>1, <2>2, <2>3, <2>4, <2>5, <2>6, <2>7, <2>8, <2>9, <2>10, <2>11 DEF Runner
<1>3. QED
  BY <1>1, <1>2 DEF SoleInv

LEMMA SoleProcess ==
  ASSUME SoleInv, NEW w \in Workers, Workers = {w}, TypeOK', Process(w)
  PROVE  SoleInv'
<1> SUFFICES ASSUME NEW s \in Scans PROVE TaskFits(w, s)' /\ RowFits(s)'
  BY DEF SoleInv
<1>1. TypeOK /\ TaskFits(w, s) /\ RowFits(s)
  BY DEF SoleInv
<1>2. CASE Recover(w)
  <2>1. task'[w][s] = IF status[s] = "queued" THEN "starting" ELSE "none"
    BY <1>1, <1>2 DEF Recover, Requeued, TypeOK
  <2>2. /\ status'[s] = IF status[s] = "running" THEN "failed" ELSE status[s]
        /\ error'[s] = IF status[s] = "running" THEN "interrupted by server restart" ELSE error[s]
        /\ result'[s] = result[s]
    BY <1>2 DEF Recover, Orphaned
  <2>3. QED
    BY <1>1, <2>1, <2>2 DEF TaskFits, RowFits, Pending, Executing
<1>3. CASE Crash(w)
  BY <1>1, <1>3 DEF Crash, NoTasks, TaskFits, RowFits, Pending, Executing, TypeOK, rowVars
<1>4. QED
  BY <1>1, <1>2, <1>3 DEF Process, Boot, RecoverError, Shutdown, Exit, TaskFits, RowFits, rowVars

LEMMA SoleStep ==
  ASSUME NEW w \in Workers, Workers = {w}
  PROVE  SoleInv /\ [Next]_vars => SoleInv'
<1> SUFFICES ASSUME SoleInv, [Next]_vars PROVE SoleInv'
  OBVIOUS
<1>1. TypeOK'
  BY TypeStep DEF SoleInv
<1>2. CASE UNCHANGED vars
  BY <1>1, <1>2 DEF SoleInv, TaskFits, RowFits, vars
<1>3. CASE Next
  <2>1. Process(w) \/ \E s \in Scans : Submit(w, s) \/ Runner(w, s)
    BY <1>3 DEF Next
  <2>2. QED
    BY <1>1, <2>1, SoleProcess, SoleRunner
<1>4. QED
  BY <1>2, <1>3

\* A live task's scan polls as running, as long as no other process recovers on the
\* same database (run scan_rolling shows what a second one does).
THEOREM OneProcessKeepsScansRunning ==
  ASSUME NEW w \in Workers, Workers = {w}
  PROVE  Spec => []LiveScanStaysRunning
<1>1. SoleInv /\ [Next]_vars => SoleInv'
  BY SoleStep
<1>2. SoleInv => LiveScanStaysRunning
  BY DEF SoleInv, TaskFits, LiveScanStaysRunning, Runs
<1>3. QED
  BY <1>1, <1>2, SoleInit, PTL DEF Spec
------------------------------------------------------------------------------
(* Every step is a step of ScanJob or leaves what a client polls unchanged. *)

Answers == [s \in Scans |-> StatusAnswer(s)]

LEMMA MapInit == Init => Job!JobInit
BY DEF Init, Job!JobInit, Job!Nothing, StatusAnswer

LEMMA MapQuiet ==
  ASSUME UNCHANGED <<status, error, result>>
  PROVE  UNCHANGED <<status, Answers>>
BY DEF Answers, StatusAnswer

LEMMA MapRunner ==
  ASSUME SoleInv, NEW w \in Workers, Workers = {w}, NEW s \in Scans,
         Submit(w, s) \/ Runner(w, s)
  PROVE  Job!JobNext \/ UNCHANGED <<status, Answers>>
<1>1. TypeOK /\ TaskFits(w, s) /\ RowFits(s)
  BY DEF SoleInv
<1> USE DEF TypeOK, Answers, StatusAnswer, Job!Nothing, Job!Result, Job!Failure
<1>2. CASE Submit(w, s)
  <2>1. Job!Accept(s)
    BY <1>2 DEF Submit, Job!Accept
  <2>2. QED
    BY <2>1 DEF Job!JobNext
<1>3. CASE Claim(w, s)
  <2>1. Job!Start(s)
    BY <1>3 DEF Claim, Claimable, Take, Job!Start
  <2>2. QED
    BY <2>1 DEF Job!JobNext
<1>4. CASE Complete(w, s)
  <2>1. status[s] = "running"
    BY <1>1, <1>4 DEF Complete, TaskFits, Executing
  <2>2. error[s] = "none"
    BY <1>1, <2>1 DEF RowFits
  <2>3. /\ status' = [status EXCEPT ![s] = "completed"]
        /\ result' = [result EXCEPT ![s] = TRUE]
        /\ error' = error
    BY <1>4 DEF Complete
  <2>4. Answers' = [Answers EXCEPT ![s] = Job!Result]
    BY <1>1, <2>2, <2>3
  <2>5. Job!Finish(s)
    BY <2>1, <2>3, <2>4 DEF Job!Finish
  <2>6. QED
    BY <2>5 DEF Job!JobNext
<1>5. CASE MarkFailed(w, s)
  <2>1. status[s] \in {"queued", "running"} /\ ~result[s]
    BY <1>1, <1>5 DEF MarkFailed, TaskFits, RowFits, Executing
  <2> DEFINE cause == IF task[w][s] = "cancelled" THEN "interrupted" ELSE "Analysis failed"
  <2>2. cause # "none" /\ error' = [error EXCEPT ![s] = cause]
    BY <1>5 DEF MarkFailed
  <2> HIDE DEF cause
  <2>3. status' = [status EXCEPT ![s] = "failed"] /\ result' = result
    BY <1>5 DEF MarkFailed
  <2>4. \A t \in Scans : StatusAnswer(t)' = IF t \in {s} THEN Job!Failure ELSE StatusAnswer(t)
    BY <1>1, <2>1, <2>2, <2>3
  <2>5. status' = [t \in Scans |-> IF t \in {s} THEN "failed" ELSE status[t]]
    BY <1>1, <2>3
  <2>6. Job!GiveUp({s})
    BY <2>1, <2>4, <2>5 DEF Job!GiveUp
  <2>7. {s} \in (SUBSET Scans) \ {{}}
    OBVIOUS
  <2>8. QED
    BY <2>6, <2>7 DEF Job!JobNext
<1>6. CASE UNCHANGED <<status, error, result>>
  BY <1>6, MapQuiet
<1>7. QED
  BY <1>2, <1>3, <1>4, <1>5, <1>6 DEF Runner, LoadSingletons, Cancel, ClaimSkip, ClaimError,
     Analyzed, BodyFails, MarkFailedError, rowVars

LEMMA MapRecover ==
  ASSUME SoleInv, NEW w \in Workers, Recover(w)
  PROVE  Job!JobNext \/ UNCHANGED <<status, Answers>>
<1> DEFINE Lost == {s \in Scans : Orphaned(s)}
<1>1. TypeOK /\ \A s \in Scans : RowFits(s)
  BY DEF SoleInv
<1>2. CASE Lost = {}
  <2>1. UNCHANGED <<status, error, result>>
    BY <1>1, <1>2 DEF Recover, TypeOK
  <2>2. QED
    BY <2>1, MapQuiet
<1>3. CASE Lost # {}
  <2>1. \A s \in Lost : status[s] \in {"queued", "running"} /\ ~result[s]
    BY <1>1 DEF Orphaned, RowFits
  <2>2. \A s \in Scans : status'[s] = IF s \in Lost THEN "failed" ELSE status[s]
    BY DEF Recover
  <2>3. status' = [s \in Scans |-> IF s \in Lost THEN "failed" ELSE status[s]]
    BY DEF Recover
  <2>4. \A s \in Scans : error'[s] = IF s \in Lost THEN "interrupted by server restart"
                                                ELSE error[s]
    BY DEF Recover
  <2>5. \A s \in Scans : StatusAnswer(s)' = IF s \in Lost THEN Job!Failure ELSE StatusAnswer(s)
    BY <2>1, <2>2, <2>4 DEF Recover, StatusAnswer, Job!Failure
  <2>6. Job!GiveUp(Lost)
    BY <2>1, <2>3, <2>5 DEF Job!GiveUp
  <2>7. Lost \in (SUBSET Scans) \ {{}}
    BY <1>3
  <2>8. QED
    BY <2>6, <2>7 DEF Job!JobNext
<1>4. QED
  BY <1>2, <1>3

LEMMA MapStep ==
  ASSUME NEW w \in Workers, Workers = {w}
  PROVE  SoleInv /\ [Next]_vars => [Job!JobNext]_<<status, Answers>>
<1> SUFFICES ASSUME SoleInv, [Next]_vars
             PROVE  Job!JobNext \/ UNCHANGED <<status, Answers>>
  OBVIOUS
<1>1. CASE UNCHANGED vars
  BY <1>1, MapQuiet DEF vars
<1>2. CASE Process(w)
  <2>1. CASE Recover(w)
    BY <2>1, MapRecover
  <2>2. CASE ~Recover(w)
    <3>1. UNCHANGED <<status, error, result>>
      BY <1>2, <2>2 DEF Process, Boot, RecoverError, Shutdown, Exit, Crash, rowVars
    <3>2. QED
      BY <3>1, MapQuiet
  <2>3. QED
    BY <2>1, <2>2
<1>3. CASE \E s \in Scans : Submit(w, s) \/ Runner(w, s)
  BY <1>3, MapRunner
<1>4. QED
  BY <1>1, <1>2, <1>3 DEF Next

\* One process: the scans a client polls behave as ScanJob promises, whatever
\* crashes, shutdowns and failed commits happen.
THEOREM OneProcessKeepsJobPromise ==
  ASSUME NEW w \in Workers, Workers = {w}
  PROVE  Spec => JobPromise
<1>1. SoleInv /\ [Next]_vars => SoleInv'
  BY SoleStep
<1>2. SoleInv /\ [Next]_vars => [Job!JobNext]_(Job!jobVars)
  BY MapStep DEF Job!jobVars, Answers
<1>3. Spec => Job!JobInit /\ [][Job!JobNext]_(Job!jobVars)
  BY <1>1, <1>2, SoleInit, MapInit, PTL DEF Spec
<1>4. QED
  BY <1>3 DEF JobPromise, Job!JobSpec
==============================================================================
