--------------------------- MODULE AgentRunsProofs ---------------------------
(***************************************************************************)
(* Proofs about AgentRuns: the types, that in_flight is exact, that at most *)
(* one run is unfinished, and that the runs implement AgentLock.            *)
(***************************************************************************)
EXTENDS AgentRuns, TLAPS

\* What a row's two fields say of each other: a row is unfinished only while
\* its status is active.  The converse fails: a late report can make a
\* finished row active again.
RowShape == \A r \in RunIds : Unfinished(r) => run[r].status \in Active

\* A series that waits has a retry left.
WaitsInBudget == \A t \in Tasks : task[t].pc = "wait" => task[t].attempt < MaxRetries

\* What is said of the tasks and of in_flight.
TasksInv == /\ task \in [Tasks -> Task] /\ inFlight \in BOOLEAN
            /\ InFlightHeld /\ WaitsInBudget

\* What is said of the rows, beside the lock itself.
RowsInv == run \in [RunIds -> RunRow] /\ RowShape

IInv == TypeOK /\ TasksInv /\ RowsInv /\ OneUnfinishedRun

\* What most steps do to the rows: none becomes unfinished.
NoneReopened == \A r \in RunIds : Unfinished(r)' => Unfinished(r)

-----------------------------------------------------------------------------
(* What the writes return.                                                 *)

\* update_run_status keeps the rows well formed and reopens none of them.
LEMMA SetStatusFacts ==
    ASSUME RowsInv, NEW r, NEW st \in Active \cup {"over"}, SetStatus(r, st)
    PROVE  RowsInv' /\ NoneReopened
<1>1. run' \in [RunIds -> RunRow]
  BY DEF RowsInv, SetStatus, RunRow, Active
<1>2. \A q \in RunIds : q # r => run'[q] = run[q]
  BY DEF RowsInv, SetStatus
<1>3. r \in RunIds => \/ run'[r] = run[r]
                      \/ /\ run[r].status # "absent"
                         /\ run'[r].status = st
                         /\ run'[r].finished = (run[r].finished \/ st \notin Active)
  BY DEF RowsInv, SetStatus, RunRow
<1>4. NoneReopened
  BY <1>1, <1>2, <1>3 DEF NoneReopened, Unfinished
<1>5. RowShape'
  <2> SUFFICES ASSUME NEW q \in RunIds, Unfinished(q)'
               PROVE  run'[q].status \in Active
    BY DEF RowShape
  <2>1. CASE run'[q] = run[q]
    BY <2>1 DEF RowsInv, RowShape, Unfinished
  <2>2. CASE run'[q] # run[q]
    BY <2>2, <1>2, <1>3 DEF Unfinished, Active
  <2> QED BY <2>1, <2>2
<1> QED BY <1>1, <1>4, <1>5 DEF RowsInv

\* Rows none of which is reopened keep at most one unfinished.
LEMMA NoneReopenedKeeps ==
    ASSUME OneUnfinishedRun, NoneReopened
    PROVE  OneUnfinishedRun'
BY DEF OneUnfinishedRun, NoneReopened

\* Unchanged rows.
LEMMA RowsStay ==
    ASSUME RowsInv, UNCHANGED run
    PROVE  RowsInv' /\ NoneReopened
BY DEF RowsInv, RowShape, NoneReopened, Unfinished

\* The end of an execution keeps the tasks' type and in_flight exact.
LEMMA FinishFacts ==
    ASSUME TasksInv, NEW t \in Tasks, NEW ok \in BOOLEAN,
           task[t].pc # "idle", Finish(t, ok)
    PROVE  TasksInv'
<1> USE RetriesAssumption
<1>0. task[t] \in Task
  BY DEF TasksInv
<1>1. CASE RetryLeft(t, ok)
  <2>1. /\ task' = [task EXCEPT ![t] = [task[t] EXCEPT !.pc = "wait", !.run = NoRun, !.ok = FALSE]]
        /\ inFlight' = inFlight
    BY <1>1 DEF Finish, Become
  <2>2. task' \in [Tasks -> Task]
    BY <1>0, <2>1 DEF TasksInv, Task, TaskPcs
  <2>3. CronTasks' = CronTasks
    BY <1>0, <2>1 DEF CronTasks, TasksInv, Task
  <2>4. WaitsInBudget'
    BY <1>0, <1>1, <2>1 DEF WaitsInBudget, TasksInv, RetryLeft, Task
  <2> QED BY <2>1, <2>2, <2>3, <2>4 DEF InFlightHeld, TasksInv
<1>2. CASE ~RetryLeft(t, ok)
  <2>1. /\ task' = [task EXCEPT ![t] = IdleTask]
        /\ inFlight' = (inFlight /\ ~task[t].cron)
    BY <1>2 DEF Finish, Become
  <2>2. task' \in [Tasks -> Task]
    BY <2>1 DEF TasksInv, Task, TaskPcs, IdleTask
  <2>3. CronTasks' = CronTasks \ {t}
    BY <2>1 DEF CronTasks, TasksInv, Task, IdleTask
  <2>4. task[t].cron <=> t \in CronTasks
    BY DEF CronTasks
  <2>5. inFlight' <=> CronTasks' # {}
    BY <2>1, <2>3, <2>4 DEF InFlightHeld, TasksInv
  <2>6. \A p, q \in CronTasks' : p = q
    BY <2>3 DEF InFlightHeld, TasksInv
  <2>7. WaitsInBudget'
    BY <2>1 DEF WaitsInBudget, TasksInv, IdleTask
  <2> QED BY <2>1, <2>2, <2>5, <2>6, <2>7 DEF InFlightHeld, TasksInv
<1> QED BY <1>1, <1>2

\* A task that goes on keeps in_flight exact.
LEMMA GoesOnFacts ==
    ASSUME TasksInv, NEW t \in Tasks, NEW w \in Task,
           task[t].pc # "idle", w.pc \notin {"idle", "wait"}, w.cron = task[t].cron,
           Become(t, w), UNCHANGED inFlight
    PROVE  TasksInv'
<1>1. task' = [task EXCEPT ![t] = w]
  BY DEF Become
<1>2. task' \in [Tasks -> Task]
  BY <1>1 DEF TasksInv
<1>3. CronTasks' = CronTasks
  BY <1>1 DEF CronTasks, TasksInv
<1>4. WaitsInBudget'
  BY <1>1 DEF WaitsInBudget, TasksInv
<1> QED BY <1>2, <1>3, <1>4 DEF InFlightHeld, TasksInv

\* A new execution: one the scheduler spawns enters in_flight, which was empty.
LEMMA LaunchFacts ==
    ASSUME TasksInv, NEW t \in Tasks, NEW cron \in BOOLEAN, Launch(t, cron),
           IF cron THEN ~inFlight /\ inFlight' ELSE UNCHANGED inFlight,
           inFlight' \in BOOLEAN
    PROVE  TasksInv'
<1> USE RetriesAssumption
<1>1. /\ task[t].pc = "idle"
      /\ task' = [task EXCEPT ![t] = [IdleTask EXCEPT !.pc = "begin", !.cron = cron]]
  BY DEF Launch, Become
<1>2. task' \in [Tasks -> Task]
  <2>1. IdleTask \in Task
    BY DEF IdleTask, Task, TaskPcs
  <2>2. [IdleTask EXCEPT !.pc = "begin", !.cron = cron] \in Task
    BY <2>1 DEF Task, TaskPcs
  <2> QED BY <1>1, <2>1, <2>2 DEF TasksInv
<1>3. CronTasks' = IF cron THEN CronTasks \cup {t} ELSE CronTasks
  BY <1>1 DEF CronTasks, TasksInv, IdleTask
<1>4. WaitsInBudget'
  BY <1>1 DEF WaitsInBudget, TasksInv, IdleTask
<1>5. CASE cron
  <2>1. CronTasks' = {t} /\ inFlight'
    BY <1>3, <1>5 DEF TasksInv, InFlightHeld
  <2> QED BY <1>2, <1>4, <2>1 DEF TasksInv, InFlightHeld
<1>6. CASE ~cron
  BY <1>2, <1>3, <1>4, <1>6 DEF TasksInv, InFlightHeld
<1> QED BY <1>5, <1>6

\* Neither tasks nor in_flight change.
LEMMA TasksStay ==
    ASSUME TasksInv, UNCHANGED <<task, inFlight>>
    PROVE  TasksInv'
BY DEF TasksInv, InFlightHeld, CronTasks, WaitsInBudget

\* Unfinished rows are active ones, so a claim that finds no active row finds
\* no unfinished one.
LEMMA NoneActive ==
    ASSUME RowsInv, ActiveRuns = {}
    PROVE  \A r \in RunIds : ~Unfinished(r)
BY DEF RowsInv, RowShape, ActiveRuns

-----------------------------------------------------------------------------
(* The invariant is inductive.                                             *)

\* How a step may change the rows: none is reopened, or no run is unfinished
\* and one starts.
Starts(r) == /\ \A q \in RunIds : ~Unfinished(q)
             /\ \A q \in RunIds : Unfinished(q)' <=> q = r

RowStep == NoneReopened \/ \E r \in RunIds : Starts(r)

\* Initially nothing runs, so the invariant holds.
THEOREM InitIInv == Init => IInv
<1> SUFFICES ASSUME Init PROVE IInv
  OBVIOUS
<1> USE RetriesAssumption DEF Init
<1>1. run \in [RunIds -> RunRow] /\ inFlight \in BOOLEAN /\ alive \subseteq RunIds
  BY DEF RunRow, AbsentRow, Active
<1>2. task \in [Tasks -> Task]
  BY DEF Task, TaskPcs, IdleTask
<1>3. call \in [Calls -> Call]
  BY DEF Call, IdleCall
<1>4. \A r \in RunIds : ~Unfinished(r)
  BY DEF Unfinished, AbsentRow
<1>5. CronTasks = {} /\ WaitsInBudget
  BY DEF CronTasks, WaitsInBudget, IdleTask
<1>6. RowShape /\ OneUnfinishedRun
  BY <1>4 DEF RowShape, OneUnfinishedRun
<1>7. InFlightHeld
  BY <1>5 DEF InFlightHeld
<1> QED BY <1>1, <1>2, <1>3, <1>5, <1>6, <1>7 DEF IInv, TypeOK, TasksInv, RowsInv

\* The executor's own steps.
LEMMA ExecutorStepFacts ==
    ASSUME IInv, NEW t \in Tasks, ExecutorStep(t)
    PROVE  IInv' /\ RowStep
<1> USE DEF IInv
<1>0. task[t] \in Task
  BY DEF TasksInv
<1>1. CASE Refuse(t)
  <2>1. TasksInv'
    BY <1>1, FinishFacts DEF Refuse
  <2>2. RowsInv' /\ NoneReopened
    BY <1>1, RowsStay DEF Refuse
  <2> QED BY <1>1, <2>1, <2>2, NoneReopenedKeeps DEF Refuse, TypeOK, TasksInv, RowsInv, RowStep
<1>2. CASE Resolve(t)
  <2>1. ASSUME Move(t, "claim") PROVE TasksInv'
    <3>1. [task[t] EXCEPT !.pc = "claim"] \in Task
      BY <1>0 DEF Task, TaskPcs
    <3> QED BY <1>0, <1>2, <2>1, <3>1, GoesOnFacts DEF Resolve, Move, Task
  <2>2. ASSUME NEW r \in RunIds, Become(t, [task[t] EXCEPT !.pc = "unlock", !.run = r])
        PROVE  TasksInv'
    <3>1. [task[t] EXCEPT !.pc = "unlock", !.run = r] \in Task
      BY <1>0 DEF Task, TaskPcs
    <3> QED BY <1>0, <1>2, <2>2, <3>1, GoesOnFacts DEF Resolve, Task
  <2>3. TasksInv'
    BY <1>2, <2>1, <2>2 DEF Resolve, ActiveRuns
  <2>4. RowsInv' /\ NoneReopened
    BY <1>2, RowsStay DEF Resolve
  <2> QED BY <1>2, <2>3, <2>4, NoneReopenedKeeps DEF Resolve, TypeOK, TasksInv, RowsInv, RowStep
<1>3. CASE Unlock(t)
  <2>1. [task[t] EXCEPT !.pc = "claim", !.run = NoRun] \in Task
    BY <1>0 DEF Task, TaskPcs
  <2>2. TasksInv'
    BY <1>0, <1>3, <2>1, GoesOnFacts DEF Unlock, Task
  <2>3. RowsInv' /\ NoneReopened
    BY <1>3, SetStatusFacts DEF Unlock
  <2> QED BY <1>3, <2>2, <2>3, NoneReopenedKeeps DEF Unlock, TypeOK, TasksInv, RowsInv, RowStep
<1>4. CASE Claim(t)
  <2>1. CASE ActiveRuns # {}
    <3>1. TasksInv'
      BY <1>4, <2>1, FinishFacts DEF Claim
    <3>2. RowsInv' /\ NoneReopened
      BY <1>4, <2>1, RowsStay DEF Claim
    <3> QED BY <1>4, <2>1, <3>1, <3>2, NoneReopenedKeeps DEF Claim, TypeOK, TasksInv, RowsInv, RowStep
  <2>2. CASE ActiveRuns = {}
    <3>1. PICK r \in RunIds : StartRun(t, r)
      BY <1>4, <2>2 DEF Claim
    <3>2. /\ run' = [run EXCEPT ![r] = [AbsentRow EXCEPT !.status = "pending"]]
          /\ alive' = alive \cup {r}
          /\ Become(t, [task[t] EXCEPT !.pc = "await", !.run = r])
      BY <3>1 DEF StartRun
    <3>3. TasksInv'
      <4>1. [task[t] EXCEPT !.pc = "await", !.run = r] \in Task
        BY <1>0 DEF Task, TaskPcs
      <4> QED BY <1>0, <1>4, <2>2, <3>2, <4>1, GoesOnFacts DEF Claim, Task
    <3>4. run' \in [RunIds -> RunRow]
      BY <3>2 DEF RowsInv, RunRow, AbsentRow, Active
    <3>5. Starts(r)
      <4>1. \A q \in RunIds : ~Unfinished(q)
        BY <2>2, NoneActive
      <4>2. \A q \in RunIds : Unfinished(q)' <=> q = r
        BY <3>2, <4>1 DEF Unfinished, AbsentRow, RowsInv
      <4> QED BY <4>1, <4>2 DEF Starts
    <3>6. OneUnfinishedRun'
      BY <3>5 DEF Starts, OneUnfinishedRun
    <3>7. RowShape'
      BY <3>2, <3>5 DEF RowShape, Starts, AbsentRow, Active, RowsInv
    <3> QED BY <1>4, <3>2, <3>3, <3>4, <3>5, <3>6, <3>7 DEF Claim, TypeOK, TasksInv, RowsInv, RowStep
  <2> QED BY <2>1, <2>2
<1>5. CASE Await(t)
  <2>1. PICK ok \in BOOLEAN :
          \/ /\ Become(t, [task[t] EXCEPT !.pc = "close", !.ok = ok /\ task[t].cron])
             /\ UNCHANGED inFlight
          \/ Finish(t, ok)
    BY <1>5 DEF Await
  <2>2. TasksInv'
    <3>1. CASE Finish(t, ok)
      BY <1>5, <3>1, FinishFacts DEF Await
    <3>2. CASE /\ Become(t, [task[t] EXCEPT !.pc = "close", !.ok = ok /\ task[t].cron])
               /\ UNCHANGED inFlight
      <4>1. [task[t] EXCEPT !.pc = "close", !.ok = ok /\ task[t].cron] \in Task
        BY <1>0 DEF Task, TaskPcs
      <4> QED BY <1>0, <1>5, <3>2, <4>1, GoesOnFacts DEF Await, Task
    <3> QED BY <2>1, <3>1, <3>2
  <2>3. RowsInv' /\ NoneReopened
    BY <1>5, RowsStay DEF Await
  <2> QED BY <1>5, <2>2, <2>3, NoneReopenedKeeps DEF Await, TypeOK, TasksInv, RowsInv, RowStep
<1>6. CASE LogError(t)
  <2>1. TasksInv'
    BY <1>6, FinishFacts DEF LogError
  <2>2. RowsInv' /\ NoneReopened
    BY <1>6, RowsStay DEF LogError
  <2> QED BY <1>6, <2>1, <2>2, NoneReopenedKeeps DEF LogError, TypeOK, TasksInv, RowsInv, RowStep
<1>7. CASE Close(t)
  <2>1. TasksInv'
    BY <1>0, <1>7, FinishFacts DEF Close, Task
  <2>2. RowsInv' /\ NoneReopened
    BY <1>7, SetStatusFacts DEF Close
  <2> QED BY <1>7, <2>1, <2>2, NoneReopenedKeeps DEF Close, TypeOK, TasksInv, RowsInv, RowStep
<1>8. CASE Retry(t)
  <2>1. [task[t] EXCEPT !.pc = "begin", !.attempt = @ + 1] \in Task
    <3>1. task[t].attempt + 1 \in 0..MaxRetries
      BY <1>0, <1>8, RetriesAssumption DEF Retry, TasksInv, WaitsInBudget, Task
    <3> QED BY <1>0, <3>1 DEF Task, TaskPcs
  <2>2. TasksInv'
    BY <1>0, <1>8, <2>1, GoesOnFacts DEF Retry, Task
  <2>3. RowsInv' /\ NoneReopened
    BY <1>8, RowsStay DEF Retry
  <2> QED BY <1>8, <2>2, <2>3, NoneReopenedKeeps DEF Retry, TypeOK, TasksInv, RowsInv, RowStep
<1> QED BY <1>1, <1>2, <1>3, <1>4, <1>5, <1>6, <1>7, <1>8 DEF ExecutorStep

\* Every other step.
LEMMA OtherStepFacts ==
    ASSUME IInv, \/ \E c \in Calls : Report(c) \/ \E r \in RunIds : AgentReport(c, r)
                 \/ Environment
    PROVE  IInv' /\ RowStep
<1> USE DEF IInv
<1>1. ASSUME NEW c \in Calls, Report(c)
      PROVE  IInv' /\ RowStep
  <2>1. TasksInv'
    BY <1>1, TasksStay DEF Report
  <2>2. RowsInv' /\ NoneReopened
    <3>1. call[c].status \in Active \cup {"over"}
      BY DEF TypeOK, Call
    <3> QED BY <1>1, <3>1, SetStatusFacts DEF Report
  <2>3. call' \in [Calls -> Call]
    BY <1>1 DEF Report, TypeOK, Call, IdleCall
  <2> QED BY <1>1, <2>1, <2>2, <2>3, NoneReopenedKeeps DEF Report, TypeOK, TasksInv, RowsInv, RowStep
<1>2. ASSUME NEW c \in Calls, NEW r \in RunIds, AgentReport(c, r)
      PROVE  IInv' /\ RowStep
  <2>1. TasksInv'
    BY <1>2, TasksStay DEF AgentReport
  <2>2. RowsInv' /\ NoneReopened
    BY <1>2, RowsStay DEF AgentReport
  <2>3. call' \in [Calls -> Call]
    BY <1>2 DEF AgentReport, TypeOK, Call, Active
  <2> QED BY <1>2, <2>1, <2>2, <2>3, NoneReopenedKeeps DEF AgentReport, TypeOK, TasksInv, RowsInv, RowStep
<1>3. CASE FireAgent
  <2>1. TasksInv'
    BY <1>3, LaunchFacts DEF FireAgent
  <2>2. RowsInv' /\ NoneReopened
    BY <1>3, RowsStay DEF FireAgent
  <2> QED BY <1>3, <2>1, <2>2, NoneReopenedKeeps DEF FireAgent, TypeOK, TasksInv, RowsInv, RowStep
<1>4. CASE FireOnce
  <2>1. TasksInv'
    BY <1>4, LaunchFacts DEF FireOnce, TasksInv
  <2>2. RowsInv' /\ NoneReopened
    BY <1>4, RowsStay DEF FireOnce
  <2> QED BY <1>4, <2>1, <2>2, NoneReopenedKeeps DEF FireOnce, TypeOK, TasksInv, RowsInv, RowStep
<1>5. CASE AgentRemove
  <2>1. TasksInv'
    BY <1>5, TasksStay DEF AgentRemove
  <2>2. run' \in [RunIds -> RunRow] /\ \A r \in RunIds : ~Unfinished(r)'
    BY <1>5 DEF AgentRemove, RunRow, AbsentRow, Unfinished
  <2>3. RowsInv' /\ NoneReopened
    BY <2>2 DEF RowsInv, RowShape, NoneReopened
  <2> QED BY <1>5, <2>1, <2>3, NoneReopenedKeeps DEF AgentRemove, TypeOK, TasksInv, RowsInv, RowStep
<1>6. CASE Restart
  <2>1. task' \in [Tasks -> Task] /\ call' \in [Calls -> Call]
    BY <1>6, RetriesAssumption DEF Restart, Task, TaskPcs, IdleTask, Call, IdleCall
  <2>2. CronTasks' = {} /\ WaitsInBudget'
    BY <1>6 DEF Restart, CronTasks, WaitsInBudget, IdleTask
  <2>3. TasksInv'
    BY <1>6, <2>1, <2>2 DEF Restart, TasksInv, InFlightHeld
  <2>4. RowsInv' /\ NoneReopened
    BY <1>6, RowsStay DEF Restart
  <2> QED BY <1>6, <2>1, <2>3, <2>4, NoneReopenedKeeps DEF Restart, TypeOK, TasksInv, RowsInv, RowStep
<1>7. ASSUME NEW r \in RunIds, OrphanExit(r)
      PROVE  IInv' /\ RowStep
  <2>1. TasksInv'
    BY <1>7, TasksStay DEF OrphanExit
  <2>2. RowsInv' /\ NoneReopened
    BY <1>7, RowsStay DEF OrphanExit
  <2> QED BY <1>7, <2>1, <2>2, NoneReopenedKeeps DEF OrphanExit, TypeOK, TasksInv, RowsInv, RowStep
<1>8. ASSUME NEW r \in RunIds, Deadline(r)
      PROVE  IInv' /\ RowStep
  <2>1. TasksInv'
    BY <1>8, TasksStay DEF Deadline
  <2>2. run' = [run EXCEPT ![r].late = TRUE]
    BY <1>8 DEF Deadline
  <2>3. run' \in [RunIds -> RunRow]
    BY <2>2 DEF RowsInv, RunRow
  <2>4. \A q \in RunIds : run'[q].status = run[q].status /\ run'[q].finished = run[q].finished
    BY <2>2 DEF RowsInv, RunRow
  <2>5. RowsInv' /\ NoneReopened
    BY <2>3, <2>4 DEF RowsInv, RowShape, NoneReopened, Unfinished
  <2> QED BY <1>8, <2>1, <2>5, NoneReopenedKeeps DEF Deadline, TypeOK, TasksInv, RowsInv, RowStep
<1> QED BY <1>1, <1>2, <1>3, <1>4, <1>5, <1>6, <1>7, <1>8 DEF Environment

\* Every step keeps the invariant, and starts a run only when none is
\* unfinished.
THEOREM NextIInv == IInv /\ [Next]_vars => IInv' /\ RowStep
<1> SUFFICES ASSUME IInv, [Next]_vars PROVE IInv' /\ RowStep
  OBVIOUS
<1>1. CASE Next
  BY <1>1, ExecutorStepFacts, OtherStepFacts DEF Next
<1>2. CASE UNCHANGED vars
  <2>1. TasksInv' /\ RowsInv' /\ NoneReopened
    BY <1>2, TasksStay, RowsStay DEF IInv, vars
  <2> QED BY <1>2, <2>1, NoneReopenedKeeps DEF IInv, TypeOK, TasksInv, RowsInv, RowStep, vars
<1> QED BY <1>1, <1>2

-----------------------------------------------------------------------------
(* The theorems.                                                           *)

\* The inductive invariant holds throughout.
THEOREM Invariant == Spec => []IInv
BY InitIInv, NextIInv, PTL DEF Spec

\* Every variable keeps its type; a retry series never exceeds max_retries.
THEOREM TypeCorrect == Spec => []TypeOK
BY Invariant, PTL DEF IInv

\* try_start_run, the unlock of timed-out runs and late reports together let at
\* most one run be unfinished.
THEOREM LockIsExclusive == Spec => []OneUnfinishedRun
BY Invariant, PTL DEF IInv

\* The scheduler's in_flight is exact.
THEOREM FlightIsExact == Spec => []InFlightHeld
<1>1. IInv => InFlightHeld
  BY DEF IInv, TasksInv
<1> QED BY <1>1, Invariant, PTL

\* The unfinished run is the one that holds the lock.
HolderIsUnfinished ==
    /\ \A r \in RunIds : Holder = r <=> Unfinished(r)
    /\ Holder = NoRun <=> \A r \in RunIds : ~Unfinished(r)
    /\ Holder \in RunIds \cup {NoRun}

\* With one unfinished run at most, Holder is it.
LEMMA HolderFacts == OneUnfinishedRun => HolderIsUnfinished
<1> SUFFICES ASSUME OneUnfinishedRun PROVE HolderIsUnfinished
  OBVIOUS
<1> USE NoRunAssumption DEF HolderIsUnfinished
<1>1. CASE \E r \in RunIds : Unfinished(r)
  <2>1. Holder \in RunIds /\ Unfinished(Holder)
    BY <1>1 DEF Holder
  <2> QED BY <2>1 DEF OneUnfinishedRun
<1>2. CASE ~\E r \in RunIds : Unfinished(r)
  <2>1. Holder = NoRun
    BY <1>2 DEF Holder
  <2> QED BY <1>2, <2>1
<1> QED BY <1>1, <1>2

\* A step of the runs is a step of the token, or leaves it where it is.
LEMMA StepOfLock ==
    ASSUME IInv, IInv', RowStep
    PROVE  [Lock!LockNext]_Holder
<1> USE NoRunAssumption
<1>1. HolderIsUnfinished
  BY HolderFacts DEF IInv
<1>2. HolderIsUnfinished'
  <2>1. OneUnfinishedRun'
    BY DEF IInv
  <2> QED BY <2>1, HolderFacts, PTL
<1>3. CASE NoneReopened
  <2>1. Holder' = Holder \/ (Holder # NoRun /\ Holder' = NoRun)
    BY <1>1, <1>2, <1>3 DEF NoneReopened, HolderIsUnfinished
  <2> QED BY <2>1 DEF Lock!LockNext, Lock!Release
<1>4. ASSUME NEW r \in RunIds, Starts(r)
      PROVE  Lock!Acquire(r)
  BY <1>1, <1>2, <1>4 DEF Starts, Lock!Acquire, HolderIsUnfinished
<1> QED BY <1>3, <1>4 DEF RowStep, Lock!LockNext

\* The runs of an agent implement the lock: it passes from one run to another
\* only through being free.
THEOREM RunsImplementLock == Spec => HoldsLock
<1>1. Init => Lock!LockInit
  <2> SUFFICES ASSUME Init PROVE Lock!LockInit
    OBVIOUS
  <2>1. \A r \in RunIds : ~Unfinished(r)
    BY DEF Init, Unfinished, AbsentRow
  <2> QED BY <2>1 DEF Lock!LockInit, Holder
<1>2. IInv /\ [Next]_vars => [Lock!LockNext]_Holder
  BY NextIInv, StepOfLock
<1> QED BY <1>1, <1>2, Invariant, PTL DEF Spec, HoldsLock, Lock!LockSpec
=============================================================================
