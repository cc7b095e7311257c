------------------------- MODULE LoopDispatchProofs -------------------------
(***************************************************************************)
(* Theorems about LoopDispatch, for every graph, number of specs, set of   *)
(* operations and bound.                                                   *)
(***************************************************************************)
EXTENDS LoopDispatch, FiniteSetTheorems, TLAPS

-----------------------------------------------------------------------------
(* Type correctness.  TypeOK is not inductive: the iteration number of a   *)
(* new row is in range only because the task is within its budget, and a   *)
(* node or a row is looked up only where the task has one.                 *)

AtSpec == {"start", "walk", "insert", "spawn", "await", "settle", "retry", "backoff",
           "record", "overrule", "after", "overBudget", "deadEnd", "count", "blocker",
           "failSpec"}
AtNode == {"walk", "insert", "spawn", "await", "settle", "retry", "backoff", "record",
           "overrule", "after"}
InVisit == {"insert", "spawn", "await", "settle", "retry", "backoff"}
WithRun == {"spawn", "await", "settle", "retry", "record", "overrule", "after", "deadEnd"}

\* A task that has come this far has a spec, a node, a visit, a row.
GoodTask == {t \in Task : /\ t.pc \in AtSpec => t.cur \in Specs
                          /\ t.pc \in AtNode => t.node \in Nodes
                          /\ t.pc \in InVisit => t.visits[t.node] <= MaxIterations
                          /\ t.pc \in WithRun => t.run \in RunIds}

GoodRow == {row \in RunRow : row.status # "absent" => row.node \in Nodes /\ row.spec \in Specs}

GoodCall == {c \in Call : c.step = "report" => /\ c.run \in RunIds
                                               /\ c.arg \in Verdicts \cup {"blocker"}}

\* The rows that tasks and reports refer to exist.
TaskRunExists(i) == task[i].pc \in WithRun => run[task[i].run].status # "absent"
CallRunExists(a) == call[a].step = "report" => run[call[a].run].status # "absent"
StoppedExist     == \A r \in daemon.listed : run[r].status # "absent"

IInv ==
    /\ loop \in LoopRow
    /\ spec \in [Specs -> SpecRow]
    /\ run \in [RunIds -> GoodRow]
    /\ proc \in [RunIds -> ProcStates]
    /\ task \in [Dispatches -> GoodTask]
    /\ call \in [Actors -> GoodCall]
    /\ daemon \in DaemonState
    /\ \A i \in Dispatches : TaskRunExists(i)
    /\ \A a \in Actors : CallRunExists(a)
    /\ StoppedExist

\* Rows are never taken back.
RowsStay == \A r \in RunIds : run[r].status # "absent" => run'[r].status # "absent"

LEMMA IInvTypeOK == IInv => TypeOK
<1>1. GoodTask \subseteq Task /\ GoodRow \subseteq RunRow /\ GoodCall \subseteq Call
  BY DEF GoodTask, GoodRow, GoodCall
<1> QED  BY <1>1 DEF IInv, TypeOK

LEMMA IdleTaskGood == IdleTask \in GoodTask
BY SpecsAssumption DEF IdleTask, GoodTask, Task, TaskPcs, NoVisits, Specs, SpecStatuses,
                       Verdicts, NoRun, AtSpec, AtNode, InVisit, WithRun

LEMMA IdleCallGood == IdleCall \in GoodCall
BY DEF IdleCall, GoodCall, Call, CallSteps, NoRun

LEMMA AbsentRunGood == AbsentRun \in GoodRow
BY BoundsAssumption DEF AbsentRun, GoodRow, RunRow, Markers

LEMMA InitIInv == Init => IInv
<1>1. Init => loop \in LoopRow /\ spec \in [Specs -> SpecRow] /\ proc \in [RunIds -> ProcStates]
  BY DEF Init, LoopRow, SpecRow, LoopStatuses, SpecStatuses, ProcStates
<1>2. IdleTask.pc \notin WithRun /\ IdleCall.step # "report"
  BY DEF IdleTask, IdleCall, WithRun
<1>3. Init => /\ run \in [RunIds -> GoodRow] /\ task \in [Dispatches -> GoodTask]
              /\ call \in [Actors -> GoodCall] /\ daemon \in DaemonState
  BY IdleTaskGood, IdleCallGood, AbsentRunGood DEF Init, DaemonState
<1>4. Init => /\ \A i \in Dispatches : TaskRunExists(i)
              /\ \A a \in Actors : CallRunExists(a)
              /\ StoppedExist
  BY <1>2 DEF Init, TaskRunExists, CallRunExists, StoppedExist
<1> QED  BY <1>1, <1>3, <1>4 DEF IInv

\* A step of one task keeps IInv if the task's new state is good.
LEMMA TaskStep ==
  ASSUME IInv, NEW i \in Dispatches, NEW t \in GoodTask, Become(i, t),
         loop' \in LoopRow, spec' \in [Specs -> SpecRow], run' \in [RunIds -> GoodRow],
         proc' \in [RunIds -> ProcStates], call' = call, daemon' = daemon,
         RowsStay,
         t.pc \in WithRun => run'[t.run].status # "absent"
  PROVE  IInv'
<1>1. /\ task' \in [Dispatches -> GoodTask]
      /\ task'[i] = t
      /\ \A j \in Dispatches \ {i} : task'[j] = task[j]
  BY DEF IInv, Become
<1>2. ASSUME NEW j \in Dispatches PROVE TaskRunExists(j)'
  <2>1. CASE j = i  BY <1>1, <2>1 DEF TaskRunExists
  <2>2. CASE j # i
    <3>1. task[j].pc \in WithRun => task[j].run \in RunIds
      BY DEF IInv, GoodTask
    <3> QED  BY <1>1, <2>2, <3>1 DEF TaskRunExists, IInv, RowsStay
  <2> QED  BY <2>1, <2>2
<1>3. ASSUME NEW a \in Actors PROVE CallRunExists(a)'
  <2>1. call[a].step = "report" => call[a].run \in RunIds
    BY DEF IInv, GoodCall
  <2> QED  BY <2>1 DEF CallRunExists, IInv, RowsStay
<1>4. StoppedExist'
  BY DEF StoppedExist, DaemonState, IInv, RowsStay
<1> QED  BY <1>1, <1>2, <1>3, <1>4 DEF IInv

\* So does a step of one call, which may spawn a dispatch.
LEMMA CallStepIInv ==
  ASSUME IInv, NEW a \in Actors, NEW c \in GoodCall, Begin(a, c),
         loop' \in LoopRow, spec' \in [Specs -> SpecRow], run' \in [RunIds -> GoodRow],
         proc' \in [RunIds -> ProcStates], daemon' = daemon,
         RowsStay,
         task' = task \/ SpawnDispatch,
         c.step = "report" => run'[c.run].status # "absent"
  PROVE  IInv'
<1>1. /\ call' \in [Actors -> GoodCall]
      /\ call'[a] = c
      /\ \A b \in Actors \ {a} : call'[b] = call[b]
  BY DEF IInv, Begin
<1>2. ASSUME NEW b \in Actors PROVE CallRunExists(b)'
  <2>1. CASE b = a  BY <1>1, <2>1 DEF CallRunExists
  <2>2. CASE b # a
    <3>1. call[b].step = "report" => call[b].run \in RunIds
      BY DEF IInv, GoodCall
    <3> QED  BY <1>1, <2>2, <3>1 DEF CallRunExists, IInv, RowsStay
  <2> QED  BY <2>1, <2>2
<1>3. task' \in [Dispatches -> GoodTask] /\ \A i \in Dispatches : TaskRunExists(i)'
  <2>1. ASSUME NEW i \in Dispatches PROVE task[i].pc \in WithRun => task[i].run \in RunIds
    BY DEF IInv, GoodTask
  <2>2. CASE task' = task
    BY <2>1, <2>2 DEF IInv, TaskRunExists, RowsStay
  <2>3. ASSUME NEW i \in Dispatches, task[i].pc = "idle", Move(i, "launch")
        PROVE  task' \in [Dispatches -> GoodTask] /\ \A j \in Dispatches : TaskRunExists(j)'
    <3>1. [task[i] EXCEPT !.pc = "launch"] \in GoodTask
      <4>1. task[i] \in GoodTask
        BY DEF IInv
      <4> QED  BY <4>1 DEF GoodTask, Task, TaskPcs, AtSpec, AtNode, InVisit, WithRun
    <3>2. [task[i] EXCEPT !.pc = "launch"].pc \notin WithRun
      <4>1. task[i] \in Task
        BY DEF IInv, GoodTask
      <4> QED  BY <4>1 DEF Task, WithRun
    <3>3. /\ task' \in [Dispatches -> GoodTask]
          /\ task'[i].pc \notin WithRun
          /\ \A j \in Dispatches \ {i} : task'[j] = task[j]
      BY <2>3, <3>1, <3>2 DEF IInv, Move, Become
    <3> QED  BY <2>1, <3>3 DEF TaskRunExists, IInv, RowsStay
  <2> QED  BY <2>2, <2>3 DEF SpawnDispatch
<1>4. StoppedExist'
  BY DEF StoppedExist, DaemonState, IInv, RowsStay
<1> QED  BY <1>1, <1>2, <1>3, <1>4 DEF IInv


-----------------------------------------------------------------------------
(* Every action preserves IInv.                                            *)

LEMMA ClaimIInv == ASSUME IInv, NEW i \in Dispatches, Claim(i) PROVE IInv'
<1>1. CASE Return(i) /\ UNCHANGED loop
  BY <1>1, IdleTaskGood, TaskStep DEF Claim, Return, IInv, RowsStay, IdleTask, WithRun
<1>2. ASSUME NEW sec \in {loop.startedAt, loop.startedAt + 1},
             loop' = [loop EXCEPT !.status = "running", !.startedAt = sec],
             Become(i, [task[i] EXCEPT !.pc = "prepare", !.claimedAt = sec])
      PROVE  IInv'
  <2>1. sec \in Nat
    BY DEF IInv, LoopRow
  <2>2. loop' \in LoopRow
    BY <1>2, <2>1 DEF IInv, LoopRow, LoopStatuses
  <2> DEFINE t == [task[i] EXCEPT !.pc = "prepare", !.claimedAt = sec]
  <2>3. t \in GoodTask /\ t.pc \notin WithRun
    <3>1. task[i] \in GoodTask
      BY DEF IInv
    <3> QED  BY <2>1, <3>1 DEF GoodTask, Task, TaskPcs, AtSpec, AtNode, InVisit, WithRun
  <2> QED  BY <1>2, <2>2, <2>3, TaskStep DEF Claim, IInv, RowsStay
<1> QED  BY <1>1, <1>2 DEF Claim

LEMMA PrepareIInv == ASSUME IInv, NEW i \in Dispatches, Prepare(i) PROVE IInv'
<1> DEFINE t == [task[i] EXCEPT !.pc = "pick", !.snap = [s \in Specs |-> spec[s].status]]
<1>1. t \in GoodTask /\ t.pc \notin WithRun
  <2>1. task[i] \in GoodTask /\ [s \in Specs |-> spec[s].status] \in [Specs -> SpecStatuses]
    BY DEF IInv, SpecRow
  <2> QED  BY <2>1 DEF GoodTask, Task, TaskPcs, AtSpec, AtNode, InVisit, WithRun
<1> QED  BY <1>1, TaskStep DEF Prepare, IInv, RowsStay

LEMMA PickIInv == ASSUME IInv, NEW i \in Dispatches, Pick(i) PROVE IInv'
<1>1. task[i] \in GoodTask
  BY DEF IInv
<1>2. CASE Return(i)
  BY <1>2, IdleTaskGood, TaskStep DEF Pick, Return, IInv, RowsStay, IdleTask, WithRun
<1>3. CASE Move(i, "finish")
  <2> DEFINE t == [task[i] EXCEPT !.pc = "finish"]
  <2>1. t \in GoodTask /\ t.pc \notin WithRun
    BY <1>1 DEF GoodTask, Task, TaskPcs, AtSpec, AtNode, InVisit, WithRun
  <2> QED  BY <1>3, <2>1, TaskStep DEF Pick, Move, IInv, RowsStay
<1>4. ASSUME NEW s \in Specs, Become(i, [task[i] EXCEPT !.pc = "start", !.cur = s])
      PROVE  IInv'
  <2> DEFINE t == [task[i] EXCEPT !.pc = "start", !.cur = s]
  <2>1. s \in 0..NumSpecs
    BY SpecsAssumption DEF Specs
  <2>2. t \in GoodTask /\ t.pc \notin WithRun
    BY <1>1, <2>1 DEF GoodTask, Task, TaskPcs, AtSpec, AtNode, InVisit, WithRun
  <2> QED  BY <1>4, <2>2, TaskStep DEF Pick, IInv, RowsStay
<1> QED  BY <1>2, <1>3, <1>4 DEF Pick, Todo

LEMMA FinishIInv == ASSUME IInv, NEW i \in Dispatches, Finish(i) PROVE IInv'
<1>1. loop' \in LoopRow
  BY DEF Finish, SetLoopStatus, IInv, LoopRow, LoopStatuses
<1> QED  BY <1>1, IdleTaskGood, TaskStep
         DEF Finish, Return, IInv, RowsStay, IdleTask, WithRun

LEMMA StartSpecIInv == ASSUME IInv, NEW i \in Dispatches, StartSpec(i) PROVE IInv'
<1>1. task[i] \in GoodTask /\ task[i].cur \in Specs
  BY DEF IInv, GoodTask, StartSpec, AtSpec
<1>2. spec' \in [Specs -> SpecRow]
  BY <1>1 DEF StartSpec, SetSpecStatus, IInv, SpecRow, SpecStatuses
<1>3. ASSUME NEW n \in Nodes, NEW v \in [Nodes -> Nat],
             Become(i, [task[i] EXCEPT !.pc = "walk", !.node = n, !.visits = v])
      PROVE  IInv'
  <2> DEFINE t == [task[i] EXCEPT !.pc = "walk", !.node = n, !.visits = v]
  <2>1. t \in GoodTask /\ t.pc \notin WithRun
    BY <1>1 DEF GoodTask, Task, TaskPcs, AtSpec, AtNode, InVisit, WithRun
  <2> QED  BY <1>2, <1>3, <2>1, TaskStep DEF StartSpec, IInv, RowsStay
<1>4. ASSUME NEW s, NEW r \in RunsOf(s)
      PROVE  /\ run[r].node \in Nodes
             /\ [n \in Nodes |-> Cardinality(IterationsAt(s, n))] \in [Nodes -> Nat]
  <2>1. run[r].node \in Nodes
    BY DEF RunsOf, IInv, GoodRow
  <2>2. ASSUME NEW n \in Nodes PROVE Cardinality(IterationsAt(s, n)) \in Nat
    <3>1. IsFiniteSet(1..MaxIterations)
      BY FS_Interval, BoundsAssumption
    <3>2. IterationsAt(s, n) \subseteq 1..MaxIterations
      BY DEF IterationsAt
    <3> QED  BY <3>1, <3>2, FS_Subset, FS_CardinalityType
  <2> QED  BY <2>1, <2>2
<1>5. Entry \in Nodes /\ NoVisits \in [Nodes -> Nat]
  BY GraphAssumption DEF NoVisits
<1> QED  BY <1>3, <1>4, <1>5 DEF StartSpec

LEMMA FinishedGood ==
  ASSUME NEW row \in GoodRow, row.status # "absent",
         NEW st \in {"running", "pass", "fail"}, NEW mk \in Markers
  PROVE  Finished(row, st, mk) \in GoodRow /\ Finished(row, st, mk).status = st
BY DEF Finished, GoodRow, RunRow

\* Writing the result of a row that exists.
LEMMA FinishRunGood ==
  ASSUME IInv, NEW r \in RunIds, run[r].status # "absent",
         NEW st \in {"running", "pass", "fail"}, NEW mk \in Markers,
         FinishRun(r, st, mk)
  PROVE  run' \in [RunIds -> GoodRow] /\ RowsStay /\ run'[r].status = st
<1>1. Finished(run[r], st, mk) \in GoodRow /\ Finished(run[r], st, mk).status = st
  BY FinishedGood DEF IInv
<1> QED  BY <1>1 DEF FinishRun, IInv, RowsStay

LEMMA TerminateGood ==
  ASSUME IInv, NEW R \in SUBSET RunningRuns, Terminate(R)
  PROVE  run' \in [RunIds -> GoodRow] /\ RowsStay /\ proc' \in [RunIds -> ProcStates]
<1>1. ASSUME NEW r \in R
      PROVE  /\ Finished(run[r], "fail", "terminated") \in GoodRow
             /\ Finished(run[r], "fail", "terminated").status = "fail"
  BY FinishedGood DEF IInv, RunningRuns, Markers
<1>2. run' \in [RunIds -> GoodRow] /\ RowsStay
  BY <1>1 DEF Terminate, IInv, RowsStay
<1>3. proc' \in [RunIds -> ProcStates]
  BY DEF Terminate, IInv, ProcStates
<1> QED  BY <1>2, <1>3

LEMMA WalkIInv == ASSUME IInv, NEW i \in Dispatches, Walk(i) PROVE IInv'
<1>1. task[i] \in GoodTask /\ task[i].node \in Nodes
  BY DEF IInv, GoodTask, Walk, AtNode
<1>2. CASE Return(i) /\ UNCHANGED <<run, proc>>
  BY <1>2, IdleTaskGood, TaskStep DEF Walk, Return, IInv, RowsStay, IdleTask, WithRun
<1>3. CASE ~(Return(i) /\ UNCHANGED <<run, proc>>)
  <2> DEFINE n == task[i].node
             v == Visited(i)
             pc == IF WithinBudget(i) THEN "insert" ELSE "overBudget"
             t == [task[i] EXCEPT !.visits = v, !.retry = 0, !.pc = pc]
  <2>1. Become(i, t)
    BY <1>3 DEF Walk
  <2>2. v \in [Nodes -> Nat] /\ (pc = "insert" => v[n] <= MaxIterations)
    <3>1. task[i].visits \in [Nodes -> Nat]
      BY <1>1 DEF GoodTask, Task
    <3> QED  BY <1>1, <3>1, BoundsAssumption DEF WithinBudget, Visited
  <2>3. t \in GoodTask /\ t.pc \notin WithRun
    <3>1. task[i].cur \in Specs /\ pc \in {"insert", "overBudget"}
      BY <1>1 DEF GoodTask, Walk, AtSpec
    <3>2. t \in Task /\ t.pc = pc /\ t.visits = v /\ t.node = n /\ t.cur = task[i].cur
      BY <1>1, <2>2, <3>1 DEF GoodTask, Task, TaskPcs
    <3> HIDE DEF t, v, pc
    <3> QED  BY <1>1, <2>2, <3>1, <3>2 DEF GoodTask, AtSpec, AtNode, InVisit, WithRun
  <2>4. run' \in [RunIds -> GoodRow] /\ RowsStay /\ proc' \in [RunIds -> ProcStates]
    <3>1. CASE UNCHANGED <<run, proc>>
      BY <3>1 DEF IInv, RowsStay
    <3>2. ASSUME NEW r \in RunningRuns, Terminate({r})
          PROVE  run' \in [RunIds -> GoodRow] /\ RowsStay /\ proc' \in [RunIds -> ProcStates]
      BY <3>2, TerminateGood
    <3> QED  BY <1>3, <3>1, <3>2 DEF Walk, IsLast
  <2> QED  BY <2>1, <2>3, <2>4, TaskStep DEF Walk, IInv
<1> QED  BY <1>2, <1>3

LEMMA InsertRunIInv == ASSUME IInv, NEW i \in Dispatches, InsertRun(i) PROVE IInv'
<1>1. /\ task[i] \in GoodTask /\ task[i].node \in Nodes /\ task[i].cur \in Specs
      /\ task[i].visits[task[i].node] \in 0..MaxIterations
  <2>1. task[i] \in GoodTask /\ task[i].pc \in {"insert", "backoff"}
    BY DEF IInv, InsertRun
  <2>2. /\ task[i].node \in Nodes /\ task[i].cur \in Specs
        /\ task[i].visits \in [Nodes -> Nat]
        /\ task[i].visits[task[i].node] <= MaxIterations
    BY <2>1 DEF GoodTask, Task, AtNode, AtSpec, InVisit
  <2> QED  BY <2>1, <2>2, BoundsAssumption
<1>2. PICK r \in RunIds : /\ InsertRow(r, task[i].node, task[i].cur,
                                      task[i].visits[task[i].node])
                          /\ Become(i, [task[i] EXCEPT !.pc = "spawn", !.run = r])
  BY DEF InsertRun
<1> DEFINE row == [status |-> "running", node |-> task[i].node, spec |-> task[i].cur,
                   iter |-> task[i].visits[task[i].node], marker |-> "none", pid |-> FALSE]
           t == [task[i] EXCEPT !.pc = "spawn", !.run = r]
<1>3. row \in GoodRow /\ row.status # "absent"
  BY <1>1 DEF GoodRow, RunRow, Markers
<1>4. run' \in [RunIds -> GoodRow] /\ RowsStay /\ run'[r].status # "absent"
  BY <1>2, <1>3 DEF InsertRow, IInv, RowsStay
<1>5. t \in GoodTask /\ t.run = r
  <2>1. task[i].pc \in InVisit /\ task[i].pc \in AtSpec /\ task[i].pc \in AtNode
    BY DEF InsertRun, InVisit, AtSpec, AtNode
  <2> QED  BY <1>1, <2>1 DEF GoodTask, Task, TaskPcs, AtSpec, AtNode, InVisit, WithRun
<1> QED  BY <1>2, <1>4, <1>5, TaskStep DEF InsertRun, IInv

\* Where a task has a row, the row exists.
LEMMA HeldRow ==
  ASSUME IInv, NEW i \in Dispatches, task[i].pc \in WithRun
  PROVE  /\ task[i] \in GoodTask /\ task[i].run \in RunIds
         /\ run[task[i].run] \in GoodRow /\ run[task[i].run].status # "absent"
<1>1. task[i] \in GoodTask /\ task[i].run \in RunIds
  BY DEF IInv, GoodTask
<1> QED  BY <1>1 DEF IInv, TaskRunExists

\* The next program counter of a task that keeps what it holds.
LEMMA MoveGood ==
  ASSUME NEW t \in GoodTask, NEW pc \in TaskPcs,
         pc \in AtSpec => t.pc \in AtSpec,
         pc \in AtNode => t.pc \in AtNode,
         pc \in InVisit => t.pc \in InVisit,
         pc \in WithRun => t.pc \in WithRun
  PROVE  /\ [t EXCEPT !.pc = pc] \in GoodTask
         /\ [t EXCEPT !.pc = pc].pc = pc
         /\ [t EXCEPT !.pc = pc].run = t.run
<1>1. [t EXCEPT !.pc = pc] \in Task
  BY DEF GoodTask, Task
<1> QED  BY <1>1 DEF GoodTask, Task

LEMMA SpawnProcIInv == ASSUME IInv, NEW i \in Dispatches, SpawnProc(i) PROVE IInv'
<1>1. /\ task[i] \in GoodTask /\ task[i].run \in RunIds
      /\ run[task[i].run] \in GoodRow /\ run[task[i].run].status # "absent"
  BY HeldRow DEF SpawnProc, WithRun
<1>2. [run[task[i].run] EXCEPT !.pid = TRUE] \in GoodRow
  BY <1>1 DEF GoodRow, RunRow
<1>3. [run[task[i].run] EXCEPT !.pid = TRUE].status = run[task[i].run].status
  BY <1>1 DEF GoodRow, RunRow
<1>4. run' = [run EXCEPT ![task[i].run] = [run[task[i].run] EXCEPT !.pid = TRUE]]
  BY <1>1 DEF SpawnProc, IInv
<1>5. run' \in [RunIds -> GoodRow] /\ RowsStay /\ run'[task[i].run].status # "absent"
  BY <1>1, <1>2, <1>3, <1>4 DEF IInv, RowsStay
<1>6. proc' \in [RunIds -> ProcStates]
  BY DEF SpawnProc, IInv, ProcStates
<1>7. /\ [task[i] EXCEPT !.pc = "await"] \in GoodTask
      /\ [task[i] EXCEPT !.pc = "await"].run = task[i].run
  BY <1>1, MoveGood DEF SpawnProc, TaskPcs, AtSpec, AtNode, InVisit, WithRun
<1> QED  BY <1>5, <1>6, <1>7, TaskStep DEF SpawnProc, Move, IInv

LEMMA ProcEndsIInv == ASSUME IInv, NEW i \in Dispatches, ProcEnds(i) PROVE IInv'
<1>1. /\ task[i] \in GoodTask /\ task[i].run \in RunIds
      /\ run[task[i].run] \in GoodRow /\ run[task[i].run].status # "absent"
  BY HeldRow DEF ProcEnds, WithRun
<1>2. PICK o \in Outcomes :
        /\ Become(i, [task[i] EXCEPT !.pc = "settle",
                                     !.verdict = IF o = "timeout" THEN "fail" ELSE o])
        /\ IF o = "timeout"
           THEN FinishRun(task[i].run, "fail", "none")
                /\ proc' = [proc EXCEPT ![task[i].run] = "dying"]
           ELSE proc' = [proc EXCEPT ![task[i].run] = "none"] /\ UNCHANGED run
  BY DEF ProcEnds
<1> DEFINE v == IF o = "timeout" THEN "fail" ELSE o
           t == [task[i] EXCEPT !.pc = "settle", !.verdict = v]
<1>3. v \in Outcomes \cup Verdicts
  BY DEF Verdicts
<1>4. t \in GoodTask /\ t.run = task[i].run
  <2>1. task[i].pc = "await"
    BY DEF ProcEnds
  <2> HIDE DEF v
  <2> QED  BY <1>1, <1>3, <2>1 DEF GoodTask, Task, TaskPcs, AtSpec, AtNode, InVisit, WithRun
<1>5. run' \in [RunIds -> GoodRow] /\ RowsStay /\ run'[task[i].run].status # "absent"
  <2>1. CASE FinishRun(task[i].run, "fail", "none")
    BY <1>1, <2>1, FinishRunGood DEF Markers
  <2>2. CASE UNCHANGED run
    BY <1>1, <2>2 DEF IInv, RowsStay
  <2> QED  BY <1>2, <2>1, <2>2
<1>6. proc' \in [RunIds -> ProcStates]
  BY <1>2 DEF IInv, ProcStates
<1> QED  BY <1>2, <1>4, <1>5, <1>6, TaskStep DEF ProcEnds, IInv

LEMMA SettleIInv == ASSUME IInv, NEW i \in Dispatches, Settle(i) PROVE IInv'
<1>1. /\ task[i] \in GoodTask /\ task[i].run \in RunIds
      /\ run[task[i].run] \in GoodRow /\ run[task[i].run].status # "absent"
  BY HeldRow DEF Settle, WithRun
<1>2. CASE Return(i)
  BY <1>2, IdleTaskGood, TaskStep DEF Settle, Return, IInv, RowsStay, IdleTask, WithRun
<1>3. ASSUME NEW pc \in {"retry", "record", "overrule"}, Move(i, pc) PROVE IInv'
  <2>1. /\ [task[i] EXCEPT !.pc = pc] \in GoodTask
        /\ [task[i] EXCEPT !.pc = pc].run = task[i].run
    <3>1. task[i].pc = "settle"
      BY DEF Settle
    <3>2. /\ pc \in TaskPcs /\ pc \in AtSpec /\ pc \in AtNode /\ pc \in WithRun
          /\ pc \in InVisit => task[i].pc \in InVisit
      BY <1>3, <3>1 DEF TaskPcs, AtSpec, AtNode, InVisit, WithRun
    <3> QED  BY <1>1, <3>1, <3>2, MoveGood DEF AtSpec, AtNode, WithRun
  <2> QED  BY <1>1, <1>3, <2>1, TaskStep DEF Settle, Move, IInv, RowsStay
<1>4. CASE /\ run[task[i].run].status # "running"
           /\ Become(i, [task[i] EXCEPT !.pc = "after", !.verdict = run[task[i].run].status])
  <2> DEFINE v == run[task[i].run].status
             t == [task[i] EXCEPT !.pc = "after", !.verdict = v]
  <2>1. v \in Outcomes \cup Verdicts
    BY <1>1, <1>4 DEF GoodRow, RunRow, Verdicts
  <2>2. t \in GoodTask /\ t.run = task[i].run
    <3>1. task[i].pc = "settle"
      BY DEF Settle
    <3> HIDE DEF v
    <3> QED  BY <1>1, <2>1, <3>1 DEF GoodTask, Task, TaskPcs, AtSpec, AtNode, InVisit, WithRun
  <2> QED  BY <1>1, <1>4, <2>2, TaskStep DEF Settle, IInv, RowsStay
<1> QED  BY <1>2, <1>3, <1>4 DEF Settle

LEMMA BeginRetryIInv == ASSUME IInv, NEW i \in Dispatches, BeginRetry(i) PROVE IInv'
<1>1. /\ task[i] \in GoodTask /\ task[i].run \in RunIds
      /\ run[task[i].run].status # "absent"
  BY HeldRow DEF BeginRetry, WithRun
<1>2. run' \in [RunIds -> GoodRow] /\ RowsStay
  BY <1>1, FinishRunGood DEF BeginRetry, Markers
<1> DEFINE t == [task[i] EXCEPT !.pc = "backoff", !.retry = @ + 1]
<1>3. t \in GoodTask /\ t.pc \notin WithRun
  <2>1. task[i].pc = "retry" /\ task[i].retry + 1 \in Nat
    BY <1>1 DEF BeginRetry, GoodTask, Task
  <2> QED  BY <1>1, <2>1 DEF GoodTask, Task, TaskPcs, AtSpec, AtNode, InVisit, WithRun
<1> QED  BY <1>2, <1>3, TaskStep DEF BeginRetry, IInv

LEMMA RecordResultIInv == ASSUME IInv, NEW i \in Dispatches, RecordResult(i) PROVE IInv'
<1>1. /\ task[i] \in GoodTask /\ task[i].run \in RunIds
      /\ run[task[i].run].status # "absent"
  BY HeldRow DEF RecordResult, WithRun
<1>2. run' \in [RunIds -> GoodRow] /\ RowsStay /\ run'[task[i].run].status # "absent"
  BY <1>1, FinishRunGood DEF RecordResult, Markers
<1>3. PICK pc \in {"overrule", "after"} : Move(i, pc)
  BY DEF RecordResult
<1>4. /\ [task[i] EXCEPT !.pc = pc] \in GoodTask
      /\ [task[i] EXCEPT !.pc = pc].run = task[i].run
  <2>1. task[i].pc = "record"
    BY DEF RecordResult
  <2>2. pc \in TaskPcs /\ pc \notin InVisit
    BY DEF TaskPcs, InVisit
  <2> QED  BY <1>1, <2>1, <2>2, MoveGood DEF AtSpec, AtNode, WithRun
<1> QED  BY <1>2, <1>3, <1>4, TaskStep DEF RecordResult, Move, IInv

LEMMA OverruleIInv == ASSUME IInv, NEW i \in Dispatches, Overrule(i) PROVE IInv'
<1>1. /\ task[i] \in GoodTask /\ task[i].run \in RunIds
      /\ run[task[i].run].status # "absent"
  BY HeldRow DEF Overrule, WithRun
<1>2. run' \in [RunIds -> GoodRow] /\ RowsStay /\ run'[task[i].run].status # "absent"
  BY <1>1, FinishRunGood DEF Overrule, Markers
<1> DEFINE t == [task[i] EXCEPT !.pc = "after", !.verdict = "fail"]
<1>3. t \in GoodTask /\ t.run = task[i].run
  <2>1. task[i].pc = "overrule"
    BY DEF Overrule
  <2> QED  BY <1>1, <2>1
           DEF GoodTask, Task, TaskPcs, Verdicts, AtSpec, AtNode, InVisit, WithRun
<1> QED  BY <1>2, <1>3, TaskStep DEF Overrule, IInv

\* One task writes one field of one spec row.
LEMMA SpecStatusGood ==
  ASSUME IInv, NEW s, NEW st \in SpecStatuses, SetSpecStatus(s, st)
  PROVE  spec' \in [Specs -> SpecRow]
BY DEF SetSpecStatus, IInv, SpecRow

LEMMA RouteVerdictIInv == ASSUME IInv, NEW i \in Dispatches, RouteVerdict(i) PROVE IInv'
<1>1. /\ task[i] \in GoodTask /\ task[i].run \in RunIds
      /\ run[task[i].run].status # "absent"
  BY HeldRow DEF RouteVerdict, WithRun
<1>2. task[i].pc = "after" /\ task[i].node \in Nodes
  BY <1>1 DEF RouteVerdict, GoodTask, AtNode
<1>3. spec' \in [Specs -> SpecRow]
  BY SpecStatusGood DEF RouteVerdict, SpecStatuses, IInv
<1> DEFINE next == Edge[task[i].node][IF Passed(i) THEN "pass" ELSE "fail"]
<1>4. CASE Return(i)
  BY <1>3, <1>4, IdleTaskGood, TaskStep
     DEF RouteVerdict, Return, IInv, RowsStay, IdleTask, WithRun
<1>5. CASE next # NoNode /\ Become(i, [task[i] EXCEPT !.pc = "walk", !.node = next])
  <2>1. next \in Nodes
    BY <1>2, <1>5, GraphAssumption DEF Verdicts
  <2> DEFINE t == [task[i] EXCEPT !.pc = "walk", !.node = next]
  <2>2. t \in GoodTask /\ t.pc \notin WithRun
    <3> HIDE DEF next
    <3> QED  BY <1>1, <1>2, <2>1 DEF GoodTask, Task, TaskPcs, AtSpec, AtNode, InVisit, WithRun
  <2> QED  BY <1>3, <1>5, <2>2, TaskStep DEF RouteVerdict, IInv, RowsStay
<1>6. ASSUME NEW pc \in {"pick", "deadEnd"}, Move(i, pc) PROVE IInv'
  <2>1. /\ [task[i] EXCEPT !.pc = pc] \in GoodTask
        /\ [task[i] EXCEPT !.pc = pc].run = task[i].run
    <3>1. pc \in TaskPcs /\ pc \notin AtNode /\ pc \notin InVisit
      BY <1>6 DEF TaskPcs, AtNode, InVisit
    <3> QED  BY <1>1, <1>2, <3>1, MoveGood DEF AtSpec, WithRun
  <2> QED  BY <1>1, <1>3, <1>6, <2>1, TaskStep DEF RouteVerdict, Move, IInv, RowsStay
<1> QED  BY <1>4, <1>5, <1>6 DEF RouteVerdict

LEMMA OverBudgetIInv == ASSUME IInv, NEW i \in Dispatches, OverBudget(i) PROVE IInv'
<1>1. run' \in [RunIds -> GoodRow] /\ RowsStay /\ proc' \in [RunIds -> ProcStates]
  BY TerminateGood DEF OverBudget
<1>2. task[i] \in GoodTask /\ task[i].pc = "overBudget"
  BY DEF OverBudget, IInv
<1>3. /\ [task[i] EXCEPT !.pc = "count"] \in GoodTask
      /\ [task[i] EXCEPT !.pc = "count"].pc \notin WithRun
  BY <1>2 DEF GoodTask, Task, TaskPcs, AtSpec, AtNode, InVisit, WithRun
<1> QED  BY <1>1, <1>3, TaskStep DEF OverBudget, Move, IInv

LEMMA DeadEndIInv == ASSUME IInv, NEW i \in Dispatches, DeadEnd(i) PROVE IInv'
<1>1. /\ task[i] \in GoodTask /\ task[i].run \in RunIds
      /\ run[task[i].run].status # "absent"
  BY HeldRow DEF DeadEnd, WithRun
<1>2. run' \in [RunIds -> GoodRow] /\ RowsStay
  BY <1>1, FinishRunGood DEF DeadEnd, Markers
<1>3. /\ [task[i] EXCEPT !.pc = "count"] \in GoodTask
      /\ [task[i] EXCEPT !.pc = "count"].pc \notin WithRun
  <2>1. task[i].pc = "deadEnd"
    BY DEF DeadEnd
  <2> QED  BY <1>1, <2>1 DEF GoodTask, Task, TaskPcs, AtSpec, AtNode, InVisit, WithRun
<1> QED  BY <1>2, <1>3, TaskStep DEF DeadEnd, Move, IInv

\* A counted failure: the task fails its spec, or blocks it first.
LEMMA CountAttemptIInv == ASSUME IInv, NEW i \in Dispatches, CountAttempt(i) PROVE IInv'
<1>1. task[i] \in GoodTask /\ task[i].cur \in Specs /\ task[i].pc = "count"
  BY DEF CountAttempt, IInv, GoodTask, AtSpec
<1>2. spec[task[i].cur] \in SpecRow /\ spec[task[i].cur].attempts + 1 \in Nat
  BY <1>1 DEF IInv, SpecRow
<1>3. spec' \in [Specs -> SpecRow]
  <2>1. [spec[task[i].cur] EXCEPT !.attempts = spec[task[i].cur].attempts + 1] \in SpecRow
    BY <1>2 DEF SpecRow
  <2>2. \/ spec' = spec
        \/ spec' = [spec EXCEPT ![task[i].cur] =
                     [spec[task[i].cur] EXCEPT !.attempts = spec[task[i].cur].attempts + 1]]
    BY <1>1 DEF CountAttempt, IInv
  <2> QED  BY <1>1, <2>1, <2>2 DEF IInv
<1>4. PICK pc \in {"failSpec", "blocker"}, e \in {"failed", "paused"} :
        Become(i, [task[i] EXCEPT !.pc = pc, !.end = e])
  BY DEF CountAttempt
<1>5. /\ [task[i] EXCEPT !.pc = pc, !.end = e] \in GoodTask
      /\ [task[i] EXCEPT !.pc = pc, !.end = e].pc \notin WithRun
  <2>1. pc \in TaskPcs /\ pc \notin AtNode /\ pc \notin InVisit /\ pc \notin WithRun
    BY DEF TaskPcs, AtNode, InVisit, WithRun
  <2>2. [task[i] EXCEPT !.pc = pc, !.end = e] \in Task
    BY <1>1, <2>1 DEF GoodTask, Task
  <2> QED  BY <1>1, <2>1, <2>2 DEF GoodTask, Task
<1> QED  BY <1>3, <1>4, <1>5, TaskStep DEF CountAttempt, IInv, RowsStay

LEMMA SetBlockerIInv == ASSUME IInv, NEW i \in Dispatches, SetBlocker(i) PROVE IInv'
<1>1. task[i] \in GoodTask /\ task[i].pc = "blocker"
  BY DEF SetBlocker, IInv
<1>2. PICK r \in RunsOf(task[i].cur), st \in Verdicts : FinishRun(r, st, "blocker")
  BY DEF SetBlocker, Verdicts
<1>3. r \in RunIds /\ run[r].status # "absent"
  BY DEF RunsOf
<1>4. run' \in [RunIds -> GoodRow] /\ RowsStay
  BY <1>2, <1>3, FinishRunGood DEF Markers, Verdicts
<1>5. /\ [task[i] EXCEPT !.pc = "failSpec"] \in GoodTask
      /\ [task[i] EXCEPT !.pc = "failSpec"].pc \notin WithRun
  BY <1>1 DEF GoodTask, Task, TaskPcs, AtSpec, AtNode, InVisit, WithRun
<1> QED  BY <1>4, <1>5, TaskStep DEF SetBlocker, Move, IInv

\* The steps that only end things: no spec, node or row is needed after them.
LEMMA EndingGood ==
  ASSUME NEW t \in GoodTask, NEW pc \in {"endCheck", "endSet", "sweep"}
  PROVE  [t EXCEPT !.pc = pc] \in GoodTask /\ [t EXCEPT !.pc = pc].pc \notin WithRun
BY DEF GoodTask, Task, TaskPcs, AtSpec, AtNode, InVisit, WithRun

LEMMA FailSpecIInv == ASSUME IInv, NEW i \in Dispatches, FailSpec(i) PROVE IInv'
<1>1. spec' \in [Specs -> SpecRow]
  BY SpecStatusGood DEF FailSpec, SpecStatuses
<1>2. /\ [task[i] EXCEPT !.pc = "endCheck"] \in GoodTask
      /\ [task[i] EXCEPT !.pc = "endCheck"].pc \notin WithRun
  BY EndingGood DEF IInv
<1> QED  BY <1>1, <1>2, TaskStep DEF FailSpec, Move, IInv, RowsStay

LEMMA EndCheckIInv == ASSUME IInv, NEW i \in Dispatches, EndCheck(i) PROVE IInv'
<1>1. /\ [task[i] EXCEPT !.pc = "endSet"] \in GoodTask
      /\ [task[i] EXCEPT !.pc = "endSet"].pc \notin WithRun
  BY EndingGood DEF IInv
<1>2. CASE Move(i, "endSet")
  BY <1>1, <1>2, TaskStep DEF EndCheck, Move, IInv, RowsStay
<1>3. CASE Return(i)
  BY <1>3, IdleTaskGood, TaskStep DEF EndCheck, Return, IInv, RowsStay, IdleTask, WithRun
<1> QED  BY <1>2, <1>3 DEF EndCheck

\* The loop's status is only ever set to one of its five values.
LEMMA LoopStatusGood ==
  ASSUME IInv, NEW st \in LoopStatuses, SetLoopStatus(st)
  PROVE  loop' \in LoopRow
BY DEF SetLoopStatus, IInv, LoopRow

LEMMA EndSetIInv == ASSUME IInv, NEW i \in Dispatches, EndSet(i) PROVE IInv'
<1>1. task[i].end \in LoopStatuses
  <2>1. task[i] \in Task
    BY DEF IInv, GoodTask
  <2> QED  BY <2>1 DEF Task, LoopStatuses
<1>2. loop' \in LoopRow
  BY <1>1, LoopStatusGood DEF EndSet
<1>3. /\ [task[i] EXCEPT !.pc = "sweep"] \in GoodTask
      /\ [task[i] EXCEPT !.pc = "sweep"].pc \notin WithRun
  BY EndingGood DEF IInv
<1> QED  BY <1>2, <1>3, TaskStep DEF EndSet, Move, IInv, RowsStay

LEMMA SweepIInv == ASSUME IInv, NEW i \in Dispatches, Sweep(i) PROVE IInv'
<1>1. run' \in [RunIds -> GoodRow] /\ RowsStay /\ proc' \in [RunIds -> ProcStates]
  BY TerminateGood DEF Sweep
<1> QED  BY <1>1, IdleTaskGood, TaskStep DEF Sweep, Return, IInv, IdleTask, WithRun

LEMMA HardErrorIInv == ASSUME IInv, NEW i \in Dispatches, HardError(i) PROVE IInv'
<1> DEFINE t == [task[i] EXCEPT !.pc = "endSet", !.end = "failed"]
<1>1. task[i] \in GoodTask
  BY DEF IInv
<1>2. t \in GoodTask /\ t.pc \notin WithRun
  BY <1>1 DEF GoodTask, Task, TaskPcs, AtSpec, AtNode, InVisit, WithRun
<1> QED  BY <1>2, TaskStep DEF HardError, IInv, RowsStay

LEMMA DispatchStepIInv == ASSUME IInv, NEW i \in Dispatches, DispatchStep(i) PROVE IInv'
BY ClaimIInv, PrepareIInv, PickIInv, FinishIInv, StartSpecIInv, WalkIInv, InsertRunIInv,
   SpawnProcIInv, ProcEndsIInv, SettleIInv, BeginRetryIInv, RecordResultIInv, OverruleIInv,
   RouteVerdictIInv, OverBudgetIInv, DeadEndIInv, CountAttemptIInv, SetBlockerIInv, FailSpecIInv,
   EndCheckIInv, EndSetIInv, SweepIInv
   DEF DispatchStep

LEMMA SpawnIInv ==
  ASSUME IInv, SpawnDispatch, UNCHANGED <<loop, spec, run, proc, call, daemon>>
  PROVE  IInv'
<1>1. PICK i \in Dispatches : task[i].pc = "idle" /\ Move(i, "launch")
  BY DEF SpawnDispatch
<1>2. task[i] \in GoodTask
  BY DEF IInv
<1>3. /\ [task[i] EXCEPT !.pc = "launch"] \in GoodTask
      /\ [task[i] EXCEPT !.pc = "launch"].pc \notin WithRun
  BY <1>2 DEF GoodTask, Task, TaskPcs, AtSpec, AtNode, InVisit, WithRun
<1> QED  BY <1>1, <1>3, TaskStep DEF Move, IInv, RowsStay

\* A call that goes on to a step in which it names no run.
LEMMA StepGood ==
  ASSUME NEW st \in CallSteps \ {"report"}
  PROVE  /\ [IdleCall EXCEPT !.step = st] \in GoodCall
         /\ [IdleCall EXCEPT !.step = st].step # "report"
<1>1. IdleCall \in Call
  BY IdleCallGood DEF GoodCall
<1> QED  BY <1>1 DEF GoodCall, Call

LEMMA StepArgGood ==
  ASSUME NEW st \in CallSteps \ {"report"},
         NEW arg \in {"none", "pass", "fail", "blocker", "retry", "skip"} \cup LoopStatuses
  PROVE  /\ [IdleCall EXCEPT !.step = st, !.arg = arg] \in GoodCall
         /\ [IdleCall EXCEPT !.step = st, !.arg = arg].step # "report"
<1>1. IdleCall \in Call
  BY IdleCallGood DEF GoodCall
<1> QED  BY <1>1 DEF GoodCall, Call

LEMMA ResetTargetsIInv ==
  ASSUME IInv, NEW a \in Actors, NEW S \in SUBSET Specs, NEW named \in BOOLEAN,
         ResetTargets(a, S, named), UNCHANGED <<loop, spec, run, proc, task, daemon>>
  PROVE  IInv'
<1> DEFINE c == [IdleCall EXCEPT !.step = "resetApply", !.specs = S, !.named = named]
<1>1. c \in GoodCall /\ c.step # "report"
  <2>1. IdleCall \in Call
    BY IdleCallGood DEF GoodCall
  <2> QED  BY <2>1 DEF GoodCall, Call, CallSteps
<1> QED  BY <1>1, CallStepIInv DEF ResetTargets, IInv, RowsStay

LEMMA ToolStepIInv == ASSUME IInv, NEW a \in Actors, ToolStep(a) PROVE IInv'
<1>1. CASE LoopRun(a)
  BY <1>1, SpawnIInv DEF LoopRun
<1>2. CASE LoopPause(a)
  <2> DEFINE c == [IdleCall EXCEPT !.step = "pauseSet"]
  <2>1. c \in GoodCall /\ c.step # "report"
    BY StepGood DEF CallSteps
  <2> QED  BY <1>2, <2>1, CallStepIInv DEF LoopPause, IInv, RowsStay
<1>3. CASE LoopContinue(a)
  <2>1. PICK action \in {"retry", "skip"} :
          Begin(a, [IdleCall EXCEPT !.step = "continue", !.arg = action])
    BY <1>3 DEF LoopContinue
  <2> DEFINE c == [IdleCall EXCEPT !.step = "continue", !.arg = action]
  <2>2. c \in GoodCall /\ c.step # "report"
    BY StepArgGood DEF CallSteps
  <2> QED  BY <1>3, <2>1, <2>2, CallStepIInv DEF LoopContinue, IInv, RowsStay
<1>4. CASE LoopReset(a)
  BY <1>4, ResetTargetsIInv DEF LoopReset, NotCompleted
<1>5. CASE Report(a)
  <2>1. PICK r \in RunningRuns, kind \in Reports :
          Begin(a, [IdleCall EXCEPT
            !.step = "report", !.run = r,
            !.arg = IF kind = "report_blocker" THEN "blocker" ELSE kind])
    BY <1>5 DEF Report
  <2> DEFINE arg == IF kind = "report_blocker" THEN "blocker" ELSE kind
             c   == [IdleCall EXCEPT !.step = "report", !.run = r, !.arg = arg]
  <2>2. r \in RunIds /\ run[r].status # "absent"
    BY DEF RunningRuns
  <2>3. arg \in {"pass", "fail", "blocker"}
    BY DEF Reports, Verdicts
  <2>4. c \in GoodCall /\ c.run = r
    <3>1. IdleCall \in Call
      BY IdleCallGood DEF GoodCall
    <3> HIDE DEF arg
    <3> QED  BY <2>2, <2>3, <3>1 DEF GoodCall, Call, CallSteps, Verdicts
  <2> QED  BY <1>5, <2>1, <2>2, <2>4, CallStepIInv DEF Report, IInv, RowsStay
<1>6. CASE ScheduleAutorun(a)
  <2>1. loop' \in LoopRow
    BY <1>6 DEF ScheduleAutorun, IInv, LoopRow
  <2> QED  BY <1>6, <2>1 DEF ScheduleAutorun, IInv, TaskRunExists, CallRunExists, StoppedExist
<1> QED  BY <1>1, <1>2, <1>3, <1>4, <1>5, <1>6 DEF ToolStep

LEMMA SchedulerStepIInv == ASSUME IInv, NEW a \in Actors, SchedulerStep(a) PROVE IInv'
<1>1. CASE CronFire(a)
  BY <1>1, SpawnIInv DEF CronFire
<1>2. CASE AutorunList(a)
  <2> DEFINE c == [IdleCall EXCEPT !.step = "autorun", !.arg = loop.status]
  <2>1. loop.status \in LoopStatuses
    BY DEF IInv, LoopRow
  <2>2. c \in GoodCall /\ c.step # "report"
    BY <2>1, StepArgGood DEF CallSteps
  <2> QED  BY <1>2, <2>2, CallStepIInv DEF AutorunList, IInv, RowsStay
<1> QED  BY <1>1, <1>2 DEF SchedulerStep

LEMMA CallStepKeepsIInv == ASSUME IInv, NEW a \in Actors, CallStep(a) PROVE IInv'
<1>1. IdleCall \in GoodCall /\ IdleCall.step # "report"
  BY IdleCallGood DEF IdleCall
<1>2. CASE PauseSet(a)
  <2> DEFINE c == [IdleCall EXCEPT !.step = "pauseSweep"]
  <2>1. c \in GoodCall /\ c.step # "report"
    BY StepGood DEF CallSteps
  <2>2. loop' \in LoopRow
    BY <1>2, LoopStatusGood DEF PauseSet, LoopStatuses
  <2> QED  BY <1>2, <2>1, <2>2, CallStepIInv DEF PauseSet, IInv, RowsStay
<1>3. CASE PauseSweep(a)
  <2>1. run' \in [RunIds -> GoodRow] /\ RowsStay /\ proc' \in [RunIds -> ProcStates]
    BY <1>3, TerminateGood DEF PauseSweep
  <2> QED  BY <1>1, <1>3, <2>1, CallStepIInv DEF PauseSweep, Hang, IInv
<1>4. CASE ContinueApply(a)
  <2>1. spec' \in [Specs -> SpecRow]
    BY <1>4, SpecStatusGood DEF ContinueApply, SpecStatuses, IInv
  <2> QED  BY <1>1, <1>4, <2>1, CallStepIInv DEF ContinueApply, Hang, IInv, RowsStay
<1>5. CASE ResetApply(a)
  <2>1. spec' \in [Specs -> SpecRow]
    BY <1>5 DEF ResetApply, IInv, SpecRow, SpecStatuses
  <2>2. loop' \in LoopRow
    BY <1>5 DEF ResetApply, IInv, LoopRow, LoopStatuses
  <2> QED  BY <1>1, <1>5, <2>1, <2>2, CallStepIInv DEF ResetApply, Hang, IInv, RowsStay
<1>6. CASE ReportWrite(a)
  <2>1. /\ call[a].run \in RunIds /\ run[call[a].run].status # "absent"
        /\ call[a].arg \in {"pass", "fail", "blocker"}
    BY <1>6 DEF ReportWrite, IInv, GoodCall, CallRunExists, Verdicts
  <2>2. run' \in [RunIds -> GoodRow] /\ RowsStay
    BY <1>6, <2>1, FinishRunGood DEF ReportWrite, Markers
  <2>3. CASE Begin(a, [IdleCall EXCEPT !.step = "blockPause"])
    <3> DEFINE c == [IdleCall EXCEPT !.step = "blockPause"]
    <3>1. c \in GoodCall /\ c.step # "report"
      BY StepGood DEF CallSteps
    <3> QED  BY <1>6, <2>2, <2>3, <3>1, CallStepIInv DEF ReportWrite, IInv
  <2>4. CASE Hang(a)
    BY <1>1, <1>6, <2>2, <2>4, CallStepIInv DEF ReportWrite, Hang, IInv
  <2> QED  BY <1>6, <2>3, <2>4 DEF ReportWrite
<1>7. CASE BlockPause(a)
  <2>1. loop' \in LoopRow
    BY <1>7, LoopStatusGood DEF BlockPause, LoopStatuses
  <2> QED  BY <1>1, <1>7, <2>1, CallStepIInv DEF BlockPause, Hang, IInv, RowsStay
<1>8. CASE AutorunFire(a)
  <2>1. loop' \in LoopRow
    BY <1>8 DEF AutorunFire, IInv, LoopRow
  <2>2. CASE Hang(a) /\ (UNCHANGED task \/ SpawnDispatch)
    BY <1>1, <1>8, <2>1, <2>2, CallStepIInv DEF AutorunFire, Hang, IInv, RowsStay
  <2>3. CASE Begin(a, [IdleCall EXCEPT !.step = "autoReset"]) /\ UNCHANGED task
    <3> DEFINE c == [IdleCall EXCEPT !.step = "autoReset"]
    <3>1. c \in GoodCall /\ c.step # "report"
      BY StepGood DEF CallSteps
    <3> QED  BY <1>8, <2>1, <2>3, <3>1, CallStepIInv DEF AutorunFire, IInv, RowsStay
  <2> QED  BY <1>8, <2>2, <2>3 DEF AutorunFire
<1>9. CASE AutoReset(a)
  <2>1. CASE Hang(a)
    BY <1>1, <1>9, <2>1, CallStepIInv DEF AutoReset, Hang, IInv, RowsStay
  <2>2. CASE ResetTargets(a, NotCompleted, FALSE)
    BY <1>9, <2>2, ResetTargetsIInv DEF AutoReset, NotCompleted
  <2> QED  BY <1>9, <2>1, <2>2 DEF AutoReset
<1> QED  BY <1>2, <1>3, <1>4, <1>5, <1>6, <1>7, <1>8, <1>9 DEF CallStep

LEMMA OrphanEndsIInv == ASSUME IInv, NEW r \in RunIds, OrphanEnds(r) PROVE IInv'
<1>1. proc' \in [RunIds -> ProcStates]
  BY DEF OrphanEnds, IInv, ProcStates
<1> QED  BY <1>1 DEF OrphanEnds, IInv, TaskRunExists, CallRunExists, StoppedExist

LEMMA RestartIInv ==
  ASSUME IInv, NEW stopped \in SUBSET RunIds, NEW dropped, Restart(stopped, dropped),
         \A r \in stopped : run[r].status # "absent"
  PROVE  IInv'
<1>1. ASSUME NEW r \in stopped \cup Dangling(stopped), NEW mk \in Markers
      PROVE  Finished(run[r], "fail", mk) \in GoodRow
  BY FinishedGood DEF IInv, Dangling, RunningRuns
<1>2. run' \in [RunIds -> GoodRow]
  <2>1. "terminated" \in Markers /\ "interrupted" \in Markers
    BY DEF Markers
  <2>2. ASSUME NEW r \in RunIds PROVE run'[r] \in GoodRow
    <3>1. run'[r] = IF r \in stopped THEN Finished(run[r], "fail", "terminated")
                    ELSE IF r \in Dangling(stopped) THEN Finished(run[r], "fail", "interrupted")
                    ELSE run[r]
      BY DEF Restart
    <3> QED  BY <1>1, <2>1, <3>1 DEF IInv
  <2> QED  BY <2>2 DEF Restart
<1>3. proc' \in [RunIds -> ProcStates]
  BY DEF Restart, IInv, ProcStates
<1>4. spec' \in [Specs -> SpecRow]
  BY DEF Restart, IInv, SpecRow, SpecStatuses
<1>5. loop' \in LoopRow
  BY DEF Restart, IInv, LoopRow, LoopStatuses
<1>6. /\ task' \in [Dispatches -> GoodTask] /\ call' \in [Actors -> GoodCall]
      /\ daemon' \in DaemonState
  BY IdleTaskGood, IdleCallGood DEF Restart, IInv, DaemonState
<1>7. /\ \A i \in Dispatches : TaskRunExists(i)'
      /\ \A a \in Actors : CallRunExists(a)'
  BY DEF Restart, TaskRunExists, CallRunExists, IdleTask, IdleCall, WithRun
<1>8. StoppedExist'
  BY DEF Restart, StoppedExist
<1> QED  BY <1>2, <1>3, <1>4, <1>5, <1>6, <1>7, <1>8 DEF IInv

\* A crash and the end of a stop are restarts; what they list has rows.
LEMMA RestartShape ==
  ASSUME IInv, Crash \/ EndStop
  PROVE  \E stopped \in SUBSET RunIds : \E dropped \in SUBSET RunIds :
           Restart(stopped, dropped) /\ \A r \in stopped : run[r].status # "absent"
<1>1. CASE Crash
  <2>1. Restart({}, {})
    BY <1>1 DEF Crash
  <2> QED  BY <2>1
<1>2. CASE EndStop
  <2>1. /\ daemon.listed \in SUBSET RunIds /\ Awaited \in SUBSET RunIds
        /\ \A r \in daemon.listed : run[r].status # "absent"
    BY DEF IInv, DaemonState, StoppedExist, Awaited
  <2>2. Restart(daemon.listed, Awaited)
    BY <1>2 DEF EndStop
  <2> QED  BY <2>1, <2>2
<1> QED  BY <1>1, <1>2

LEMMA RestartsIInv == ASSUME IInv, Crash \/ EndStop PROVE IInv'
BY RestartShape, RestartIInv

LEMMA BeginStopIInv == ASSUME IInv, BeginStop PROVE IInv'
<1>1. proc' \in [RunIds -> ProcStates] /\ daemon' \in DaemonState
  BY DEF BeginStop, IInv, ProcStates, DaemonState, RunningRuns
<1> QED  BY <1>1 DEF BeginStop, IInv, TaskRunExists, CallRunExists, StoppedExist, RunningRuns

\* The inductive invariant holds throughout: Init has it and every action of
\* dispatches, tools, scheduler and daemon keeps it.
THEOREM IInvHolds == Spec => []IInv
<1>1. IInv /\ UNCHANGED vars => IInv'
  BY DEF IInv, vars, TaskRunExists, CallRunExists, StoppedExist
<1>2. IInv /\ Next => IInv'
  BY DispatchStepIInv, HardErrorIInv, ToolStepIInv, SchedulerStepIInv, CallStepKeepsIInv,
     OrphanEndsIInv, RestartsIInv, BeginStopIInv
     DEF Next, Actors
<1> QED  BY InitIInv, <1>1, <1>2, PTL DEF Spec

\* Every reachable state is well typed, whatever the graph, the operations in
\* use and the bounds.
THEOREM TypeCorrect == Spec => []TypeOK
BY IInvHolds, IInvTypeOK, PTL

-----------------------------------------------------------------------------
(* No running run row without a task that will finalize it.                *)

Owns(i, r) == task[i].pc \in Holding /\ task[i].run = r

LEMMA BecomeFrame ==
  ASSUME IInv, NEW i \in Dispatches, NEW t, Become(i, t)
  PROVE  task'[i] = t /\ \A j \in Dispatches \ {i} : task'[j] = task[j]
BY DEF Become, IInv

\* A step of task i keeps the rows owned if every row running after it is
\* owned by i then, or was running and not owned by i before.
LEMMA OwnedTaskStep ==
  ASSUME IInv, RunningRunsOwned, NEW i \in Dispatches, NEW t, Become(i, t),
         daemon' = daemon,
         \A r \in RunIds : run'[r].status = "running" =>
            \/ t.pc \in Holding /\ t.run = r
            \/ run[r].status = "running" /\ ~Owns(i, r)
  PROVE  RunningRunsOwned'
<1>1. task'[i] = t /\ \A j \in Dispatches \ {i} : task'[j] = task[j]
  BY BecomeFrame
<1>2. SUFFICES ASSUME daemon.restarts = 0, NEW r \in RunIds, run'[r].status = "running"
               PROVE  \E j \in Dispatches : Owns(j, r)'
  BY DEF RunningRunsOwned, RunningRuns, Owns
<1>3. CASE t.pc \in Holding /\ t.run = r
  BY <1>1, <1>3 DEF Owns
<1>4. CASE run[r].status = "running" /\ ~Owns(i, r)
  <2>1. PICK j \in Dispatches : Owns(j, r)
    BY <1>2, <1>4 DEF RunningRunsOwned, RunningRuns, Owns
  <2> QED  BY <1>1, <1>4, <2>1 DEF Owns
<1> QED  BY <1>2, <1>3, <1>4

\* In particular if i held nothing and no row has started to run.
LEMMA OwnedFreeStep ==
  ASSUME IInv, RunningRunsOwned, NEW i \in Dispatches, NEW t, Become(i, t),
         daemon' = daemon, task[i].pc \notin Holding,
         \A r \in RunIds : run'[r].status = "running" => run[r].status = "running"
  PROVE  RunningRunsOwned'
BY OwnedTaskStep DEF Owns

\* Finishing or terminating rows starts none, and ends those it is given.
LEMMA FinishRunStops ==
  ASSUME IInv, NEW q \in RunIds, NEW st, NEW mk, FinishRun(q, st, mk),
         st = "running" => run[q].status = "running"
  PROVE  /\ \A r \in RunIds : run'[r].status = "running" => run[r].status = "running"
         /\ st # "running" => run'[q].status # "running"
<1>1. run[q] \in RunRow
  BY DEF IInv, GoodRow
<1>2. Finished(run[q], st, mk).status = st
  BY <1>1 DEF Finished, RunRow
<1>3. run' = [run EXCEPT ![q] = Finished(run[q], st, mk)]
  BY DEF FinishRun
<1> HIDE DEF FinishRun
<1> QED  BY <1>2, <1>3 DEF IInv

LEMMA TerminateStops ==
  ASSUME IInv, NEW R \in SUBSET RunningRuns, Terminate(R)
  PROVE  \A r \in RunIds : run'[r].status = "running" => run[r].status = "running" /\ r \notin R
<1>1. ASSUME NEW r \in RunIds PROVE Finished(run[r], "fail", "terminated").status = "fail"
  <2>1. run[r] \in RunRow
    BY DEF IInv, GoodRow
  <2> QED  BY <2>1 DEF Finished, RunRow
<1> QED  BY <1>1 DEF Terminate

LEMMA DispatchStepOwned ==
  ASSUME IInv, RunningRunsOwned, NEW i \in Dispatches, DispatchStep(i) \/ HardError(i)
  PROVE  RunningRunsOwned'
<1>1. CASE Claim(i) \/ Prepare(i) \/ Pick(i) \/ Finish(i) \/ StartSpec(i) \/ FailSpec(i)
           \/ EndCheck(i) \/ RouteVerdict(i)
  <2>1. task[i].pc \notin Holding /\ UNCHANGED <<run, daemon>>
    BY <1>1 DEF Claim, Prepare, Pick, Finish, StartSpec, FailSpec, EndCheck, RouteVerdict, Holding
  <2>2. \E t : Become(i, t)
    BY <1>1 DEF Claim, Prepare, Pick, Finish, StartSpec, FailSpec, EndCheck, RouteVerdict,
                Move, Return
  <2> QED  BY <2>1, <2>2, OwnedFreeStep
<1>2. CASE Walk(i)
  <2>1. task[i].pc \notin Holding /\ UNCHANGED daemon /\ \E t : Become(i, t)
    BY <1>2 DEF Walk, Holding, Return
  <2>2. \A r \in RunIds : run'[r].status = "running" => run[r].status = "running"
    <3>1. ASSUME NEW r \in RunningRuns, Terminate({r})
          PROVE  \A q \in RunIds : run'[q].status = "running" => run[q].status = "running"
      BY <3>1, TerminateStops
    <3> QED  BY <1>2, <3>1 DEF Walk, IsLast
  <2> QED  BY <2>1, <2>2, OwnedFreeStep
<1>3. CASE InsertRun(i)
  <2>1. PICK r \in RunIds : /\ InsertRow(r, task[i].node, task[i].cur,
                                        task[i].visits[task[i].node])
                            /\ Become(i, [task[i] EXCEPT !.pc = "spawn", !.run = r])
    BY <1>3 DEF InsertRun
  <2> DEFINE t == [task[i] EXCEPT !.pc = "spawn", !.run = r]
  <2>2. t.pc \in Holding /\ t.run = r
    <3>1. task[i] \in Task
      BY DEF IInv, GoodTask
    <3> QED  BY <3>1 DEF Task, Holding
  <2>3. \A q \in RunIds \ {r} : run'[q] = run[q]
    BY <2>1 DEF InsertRow, IInv
  <2>4. task[i].pc \notin Holding
    BY <1>3 DEF InsertRun, Holding
  <2>5. \A q \in RunIds : run'[q].status = "running" =>
          \/ t.pc \in Holding /\ t.run = q
          \/ run[q].status = "running" /\ ~Owns(i, q)
    <3> HIDE DEF t
    <3> QED  BY <2>2, <2>3, <2>4 DEF Owns
  <2> QED  BY <1>3, <2>1, <2>5, OwnedTaskStep DEF InsertRun
<1>4. CASE SpawnProc(i) \/ ProcEnds(i)
  <2>1. /\ task[i] \in GoodTask /\ task[i].run \in RunIds
        /\ run[task[i].run] \in GoodRow /\ run[task[i].run].status # "absent"
    BY <1>4, HeldRow DEF SpawnProc, ProcEnds, WithRun
  <2>2. PICK t : Become(i, t) /\ t.pc \in Holding /\ t.run = task[i].run
    <3>1. CASE SpawnProc(i)
      <4>1. /\ [task[i] EXCEPT !.pc = "await"].pc \in Holding
            /\ [task[i] EXCEPT !.pc = "await"].run = task[i].run
        BY <2>1 DEF GoodTask, Task, Holding
      <4> QED  BY <3>1, <4>1 DEF SpawnProc, Move
    <3>2. CASE ProcEnds(i)
      <4>1. PICK v : Become(i, [task[i] EXCEPT !.pc = "settle", !.verdict = v])
        BY <3>2 DEF ProcEnds
      <4>2. /\ [task[i] EXCEPT !.pc = "settle", !.verdict = v].pc \in Holding
            /\ [task[i] EXCEPT !.pc = "settle", !.verdict = v].run = task[i].run
        BY <2>1 DEF GoodTask, Task, Holding
      <4> QED  BY <4>1, <4>2
    <3> QED  BY <1>4, <3>1, <3>2
  <2>3. \A r \in RunIds : run'[r].status = "running" => run[r].status = "running"
    <3>1. CASE SpawnProc(i)
      BY <3>1 DEF SpawnProc, IInv, GoodRow, RunRow
    <3>2. CASE ProcEnds(i)
      BY <2>1, <3>2, FinishRunStops DEF ProcEnds
    <3> QED  BY <1>4, <3>1, <3>2
  <2> QED  BY <1>4, <2>2, <2>3, OwnedTaskStep DEF SpawnProc, ProcEnds, Owns
<1>5. CASE Settle(i)
  <2>1. /\ task[i] \in GoodTask /\ task[i].run \in RunIds
    BY <1>5, HeldRow DEF Settle, WithRun
  <2>2. CASE run[task[i].run].status # "running"
    <3>1. \E t : Become(i, t)
      BY <1>5 DEF Settle, Move, Return
    <3> QED  BY <1>5, <2>2, <3>1, OwnedTaskStep DEF Settle, Owns
  <2>3. CASE run[task[i].run].status = "running"
    <3>1. PICK pc \in {"retry", "record"} : Move(i, pc)
      BY <1>5, <2>3 DEF Settle
    <3>2. /\ [task[i] EXCEPT !.pc = pc].pc \in Holding
          /\ [task[i] EXCEPT !.pc = pc].run = task[i].run
      BY <2>1 DEF GoodTask, Task, Holding
    <3> QED  BY <1>5, <3>1, <3>2, OwnedTaskStep DEF Settle, Move, Owns
  <2> QED  BY <2>2, <2>3
<1>6. CASE BeginRetry(i) \/ RecordResult(i) \/ Overrule(i)
  <2>1. task[i].run \in RunIds
    BY <1>6, HeldRow DEF BeginRetry, RecordResult, Overrule, WithRun
  <2>2. \E t : Become(i, t)
    BY <1>6 DEF BeginRetry, RecordResult, Overrule, Move
  <2>3. /\ \A r \in RunIds : run'[r].status = "running" => run[r].status = "running"
        /\ run'[task[i].run].status # "running"
    BY <1>6, <2>1, FinishRunStops DEF BeginRetry, RecordResult, Overrule
  <2> QED  BY <1>6, <2>2, <2>3, OwnedTaskStep DEF BeginRetry, RecordResult, Overrule, Owns
<1>7. CASE OverBudget(i) \/ DeadEnd(i) \/ CountAttempt(i) \/ SetBlocker(i)
  <2>1. task[i].pc \notin Holding /\ UNCHANGED daemon
    BY <1>7 DEF OverBudget, DeadEnd, CountAttempt, SetBlocker, Holding
  <2>2. \E t : Become(i, t)
    BY <1>7 DEF OverBudget, DeadEnd, CountAttempt, SetBlocker, Move
  <2>3. \A r \in RunIds : run'[r].status = "running" => run[r].status = "running"
    <3>1. CASE OverBudget(i)
      BY <3>1, TerminateStops DEF OverBudget
    <3>2. CASE DeadEnd(i)
      BY <3>2, HeldRow, FinishRunStops DEF DeadEnd, WithRun
    <3>3. CASE SetBlocker(i)
      BY <3>3, FinishRunStops DEF SetBlocker, RunsOf
    <3>4. CASE CountAttempt(i)
      BY <3>4 DEF CountAttempt
    <3> QED  BY <1>7, <3>1, <3>2, <3>3, <3>4
  <2> QED  BY <2>1, <2>2, <2>3, OwnedFreeStep
<1>8. CASE EndSet(i) \/ HardError(i)
  <2>1. task[i] \in Task
    BY DEF IInv, GoodTask
  <2>2. PICK t : Become(i, t) /\ t.pc \in Holding /\ t.run = task[i].run
    <3>1. CASE EndSet(i)
      <4>1. /\ [task[i] EXCEPT !.pc = "sweep"].pc \in Holding
            /\ [task[i] EXCEPT !.pc = "sweep"].run = task[i].run
        BY <2>1 DEF Task, Holding
      <4> QED  BY <3>1, <4>1 DEF EndSet, Move
    <3>2. CASE HardError(i)
      <4>1. /\ [task[i] EXCEPT !.pc = "endSet", !.end = "failed"].pc \in Holding
            /\ [task[i] EXCEPT !.pc = "endSet", !.end = "failed"].run = task[i].run
        BY <2>1 DEF Task, Holding
      <4> QED  BY <3>2, <4>1 DEF HardError
    <3> QED  BY <1>8, <3>1, <3>2
  <2> QED  BY <1>8, <2>2, OwnedTaskStep DEF EndSet, HardError, Owns
<1>9. CASE Sweep(i)
  <2>1. \A r \in RunIds : run'[r].status # "running"
    BY <1>9, TerminateStops DEF Sweep, RunningRuns
  <2> QED  BY <2>1 DEF RunningRunsOwned, RunningRuns
<1> QED  BY <1>1, <1>2, <1>3, <1>4, <1>5, <1>6, <1>7, <1>8, <1>9 DEF DispatchStep

LEMMA SpawnOwned ==
  ASSUME IInv, RunningRunsOwned, UNCHANGED task \/ SpawnDispatch, daemon' = daemon,
         \A r \in RunIds : run'[r].status = "running" => run[r].status = "running"
  PROVE  RunningRunsOwned'
<1>1. CASE UNCHANGED task
  BY <1>1 DEF RunningRunsOwned, RunningRuns
<1>2. ASSUME NEW i \in Dispatches, task[i].pc = "idle", Move(i, "launch")
      PROVE  RunningRunsOwned'
  BY <1>2, OwnedFreeStep DEF Move, Holding
<1> QED  BY <1>1, <1>2 DEF SpawnDispatch

LEMMA ActorStepOwned ==
  ASSUME IInv, RunningRunsOwned, NEW a \in Actors,
         ToolStep(a) \/ SchedulerStep(a) \/ CallStep(a)
  PROVE  RunningRunsOwned'
<1>1. (UNCHANGED task \/ SpawnDispatch) /\ daemon' = daemon
  BY DEF ToolStep, SchedulerStep, CallStep, LoopRun, LoopPause, LoopContinue, LoopReset, Report,
         ScheduleAutorun, CronFire, AutorunList, PauseSet, PauseSweep, ContinueApply,
         ResetApply, ReportWrite, BlockPause, AutorunFire, AutoReset
<1>2. CASE UNCHANGED run
  BY <1>1, <1>2, SpawnOwned
<1>3. CASE PauseSweep(a)
  <2>1. \A r \in RunIds : run'[r].status = "running" => run[r].status = "running"
    BY <1>3, TerminateStops DEF PauseSweep
  <2> QED  BY <1>1, <2>1, SpawnOwned
<1>4. CASE ReportWrite(a)
  <2>1. call[a].run \in RunIds /\ call[a].arg # "running"
    BY <1>4 DEF ReportWrite, IInv, GoodCall, Verdicts
  <2>2. \A r \in RunIds : run'[r].status = "running" => run[r].status = "running"
    BY <1>4, <2>1, FinishRunStops DEF ReportWrite
  <2> QED  BY <1>1, <2>2, SpawnOwned
<1>5. UNCHANGED run \/ PauseSweep(a) \/ ReportWrite(a)
  BY DEF ToolStep, SchedulerStep, CallStep, LoopRun, LoopPause, LoopContinue, LoopReset, Report,
         ScheduleAutorun, CronFire, AutorunList, PauseSet, ContinueApply,
         ResetApply, BlockPause, AutorunFire, AutoReset
<1> QED  BY <1>2, <1>3, <1>4, <1>5

\* While the daemon lives, whatever tools and schedules do, no run row is
\* left running that no task will finalize.
THEOREM RowsOwned == Spec => []RunningRunsOwned
<1>1. Init => RunningRunsOwned
  BY DEF Init, RunningRunsOwned, RunningRuns, AbsentRun
<1>2. RunningRunsOwned /\ UNCHANGED vars => RunningRunsOwned'
  BY DEF vars, RunningRunsOwned, RunningRuns
<1>3. IInv /\ RunningRunsOwned /\ Next => RunningRunsOwned'
  <2> SUFFICES ASSUME IInv, RunningRunsOwned, Next PROVE RunningRunsOwned'
    OBVIOUS
  <2>1. CASE \E r \in RunIds : OrphanEnds(r)
    BY <2>1 DEF OrphanEnds, RunningRunsOwned, RunningRuns
  <2>2. CASE Crash \/ EndStop
    BY <2>2 DEF Crash, EndStop, Restart, IInv, DaemonState, RunningRunsOwned
  <2>3. CASE BeginStop
    BY <2>3 DEF BeginStop, IInv, DaemonState, RunningRuns, RunningRunsOwned
  <2> QED  BY <2>1, <2>2, <2>3, DispatchStepOwned, ActorStepOwned DEF Next, Actors
<1> QED  BY IInvHolds, <1>1, <1>2, <1>3, PTL DEF Spec

-----------------------------------------------------------------------------
(* No live process that nobody awaits.                                     *)

Awaits(i, r) == task[i].pc = "await" /\ task[i].run = r

LEMMA AwaitedTaskStep ==
  ASSUME IInv, LiveProcessesAwaited, NEW i \in Dispatches, NEW t, Become(i, t),
         daemon' = daemon,
         \A r \in RunIds : proc'[r] = "alive" =>
            \/ t.pc = "await" /\ t.run = r
            \/ proc[r] = "alive" /\ ~Awaits(i, r)
  PROVE  LiveProcessesAwaited'
<1>1. task'[i] = t /\ \A j \in Dispatches \ {i} : task'[j] = task[j]
  BY BecomeFrame
<1>2. SUFFICES ASSUME daemon.restarts = 0, NEW r \in RunIds, proc'[r] = "alive"
               PROVE  \E j \in Dispatches : Awaits(j, r)'
  BY DEF LiveProcessesAwaited, Awaits
<1>3. CASE t.pc = "await" /\ t.run = r
  BY <1>1, <1>3 DEF Awaits
<1>4. CASE proc[r] = "alive" /\ ~Awaits(i, r)
  <2>1. PICK j \in Dispatches : Awaits(j, r)
    BY <1>2, <1>4 DEF LiveProcessesAwaited, Awaits
  <2> QED  BY <1>1, <1>4, <2>1 DEF Awaits
<1> QED  BY <1>2, <1>3, <1>4

LEMMA TerminateKills ==
  ASSUME IInv, NEW R, Terminate(R)
  PROVE  \A r \in RunIds : proc'[r] = "alive" => proc[r] = "alive"
BY DEF Terminate

LEMMA DispatchStepAwaited ==
  ASSUME IInv, LiveProcessesAwaited, NEW i \in Dispatches, DispatchStep(i) \/ HardError(i)
  PROVE  LiveProcessesAwaited'
<1>1. CASE SpawnProc(i)
  <2>1. task[i].run \in RunIds /\ task[i] \in Task
    BY <1>1, HeldRow DEF SpawnProc, WithRun, GoodTask
  <2> DEFINE t == [task[i] EXCEPT !.pc = "await"]
  <2>2. t.pc = "await" /\ t.run = task[i].run
    BY <2>1 DEF Task
  <2>3. \A r \in RunIds : r # task[i].run => proc'[r] = proc[r]
    BY <1>1 DEF SpawnProc, IInv
  <2>4. ~Awaits(i, task[i].run) /\ \A r \in RunIds : ~Awaits(i, r)
    BY <1>1 DEF SpawnProc, Awaits
  <2>5. Become(i, t) /\ daemon' = daemon
    BY <1>1 DEF SpawnProc, Move
  <2> HIDE DEF t
  <2> QED  BY <2>2, <2>3, <2>4, <2>5, AwaitedTaskStep
<1>2. CASE ProcEnds(i)
  <2>1. task[i].run \in RunIds
    BY <1>2, HeldRow DEF ProcEnds, WithRun
  <2>2. /\ proc'[task[i].run] # "alive"
        /\ \A r \in RunIds : r # task[i].run => proc'[r] = proc[r]
    BY <1>2, <2>1 DEF ProcEnds, IInv
  <2>3. (\E t : Become(i, t)) /\ daemon' = daemon
    BY <1>2 DEF ProcEnds
  <2> QED  BY <2>2, <2>3, AwaitedTaskStep DEF Awaits
<1>3. CASE ~SpawnProc(i) /\ ~ProcEnds(i)
  <2>1. task[i].pc # "await"
    BY <1>3 DEF DispatchStep, HardError, Claim, Prepare, Pick, Finish, StartSpec, Walk,
                InsertRun, Settle, BeginRetry, RecordResult, Overrule, RouteVerdict, OverBudget,
                DeadEnd, CountAttempt, SetBlocker, FailSpec, EndCheck, EndSet, Sweep
  <2>2. (\E t : Become(i, t)) /\ daemon' = daemon
    BY <1>3 DEF DispatchStep, HardError, Claim, Prepare, Pick, Finish, StartSpec, Walk,
                InsertRun, Settle, BeginRetry, RecordResult, Overrule, RouteVerdict, OverBudget,
                DeadEnd, CountAttempt, SetBlocker, FailSpec, EndCheck, EndSet, Sweep,
                Move, Return
  <2>3. UNCHANGED proc \/ \E R : Terminate(R)
    BY <1>3 DEF DispatchStep, HardError, Claim, Prepare, Pick, Finish, StartSpec, Walk,
                InsertRun, Settle, BeginRetry, RecordResult, Overrule, RouteVerdict, OverBudget,
                DeadEnd, CountAttempt, SetBlocker, FailSpec, EndCheck, EndSet, Sweep
  <2>4. \A r \in RunIds : proc'[r] = "alive" => proc[r] = "alive"
    BY <2>3, TerminateKills
  <2> QED  BY <2>1, <2>2, <2>4, AwaitedTaskStep DEF Awaits
<1> QED  BY <1>1, <1>2, <1>3

LEMMA ActorStepAwaited ==
  ASSUME IInv, LiveProcessesAwaited, NEW a \in Actors,
         ToolStep(a) \/ SchedulerStep(a) \/ CallStep(a)
  PROVE  LiveProcessesAwaited'
<1>1. (UNCHANGED task \/ SpawnDispatch) /\ daemon' = daemon
  BY DEF ToolStep, SchedulerStep, CallStep, LoopRun, LoopPause, LoopContinue, LoopReset, Report,
         ScheduleAutorun, CronFire, AutorunList, PauseSet, PauseSweep, ContinueApply,
         ResetApply, ReportWrite, BlockPause, AutorunFire, AutoReset
<1>2. UNCHANGED proc \/ \E R : Terminate(R)
  BY DEF ToolStep, SchedulerStep, CallStep, LoopRun, LoopPause, LoopContinue, LoopReset, Report,
         ScheduleAutorun, CronFire, AutorunList, PauseSet, PauseSweep, ContinueApply,
         ResetApply, ReportWrite, BlockPause, AutorunFire, AutoReset
<1>3. \A r \in RunIds : proc'[r] = "alive" => proc[r] = "alive"
  BY <1>2, TerminateKills
<1>4. CASE UNCHANGED task
  BY <1>1, <1>3, <1>4 DEF LiveProcessesAwaited
<1>5. ASSUME NEW i \in Dispatches, task[i].pc = "idle", Move(i, "launch")
      PROVE  LiveProcessesAwaited'
  BY <1>1, <1>3, <1>5, AwaitedTaskStep DEF Move, Awaits
<1> QED  BY <1>1, <1>4, <1>5 DEF SpawnDispatch

\* While the daemon lives, no process runs unsignalled that no task awaits.
THEOREM ProcessesAwaited == Spec => []LiveProcessesAwaited
<1>1. Init => LiveProcessesAwaited
  BY DEF Init, LiveProcessesAwaited
<1>2. LiveProcessesAwaited /\ UNCHANGED vars => LiveProcessesAwaited'
  BY DEF vars, LiveProcessesAwaited
<1>3. IInv /\ LiveProcessesAwaited /\ Next => LiveProcessesAwaited'
  <2> SUFFICES ASSUME IInv, LiveProcessesAwaited, Next PROVE LiveProcessesAwaited'
    OBVIOUS
  <2>1. CASE \E r \in RunIds : OrphanEnds(r)
    BY <2>1 DEF OrphanEnds, Awaited, LiveProcessesAwaited, IInv
  <2>2. CASE Crash \/ EndStop
    BY <2>2 DEF Crash, EndStop, Restart, IInv, DaemonState, LiveProcessesAwaited
  <2>3. CASE BeginStop
    BY <2>3 DEF BeginStop, IInv, DaemonState, RunningRuns, LiveProcessesAwaited
  <2> QED  BY <2>1, <2>2, <2>3, DispatchStepAwaited, ActorStepAwaited DEF Next, Actors
<1> QED  BY IInvHolds, <1>1, <1>2, <1>3, PTL DEF Spec

=============================================================================
