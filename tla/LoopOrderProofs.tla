-------------------------- MODULE LoopOrderProofs ---------------------------
(***************************************************************************)
(* The order in which a loop works through its specs: strictly by position,*)
(* never twice, and to the end before it says completed.                   *)
(*                                                                         *)
(* Two things break this order in the code, and are hypotheses here: a     *)
(* reset, which takes back specs by name, and two dispatches that drive    *)
(* the loop at once after a pause (NoOverlap).  A third is the pair of a   *)
(* skip and a restart: a skip leaves the row of the node that ran as it is,*)
(* and reconciliation interrupts the spec of such a row, done or not.      *)
(***************************************************************************)
EXTENDS LoopDriverProofs

NoOverlap == \A i, j \in Dispatches : Driving(i) /\ Driving(j) => i = j

OrderedOps == /\ Ops \cap {"loop_reset", "autorun", "cancel_autorun"} = {}
              /\ "skip" \in Ops => Ops \cap {"crash", "stop"} = {}

DoneStatuses == {"completed", "skipped"}
AllDone == \A s \in Specs : spec[s].status \in DoneStatuses

\* No call is under way that resets, and none skips that may not.
QuietResets ==
    /\ ~loop.autorun
    /\ \A a \in Actors : /\ call[a].step \notin {"resetApply", "autorun", "autoReset"}
                         /\ call[a].arg = "skip" => "skip" \in Ops
    /\ daemon.stopping => "stop" \in Ops

\* The spec list read at launch is still right about s, but for a skip.
SnapKept(i, s) ==
    \/ spec[s].status = task[i].snap[s]
    \/ task[i].snap[s] = "running" /\ spec[s].status = "skipped" /\ "skip" \in Ops

InWork == AtSpec \ {"start"}

\* A dispatch has done what is before its cursor, knows what is behind it, and
\* has the spec at its cursor running.
Cursor(i) ==
    /\ \A s \in Specs : s < task[i].cur \/ (s = task[i].cur /\ task[i].pc = "pick")
                           => spec[s].status \in DoneStatuses
    /\ \A s \in Specs : s > task[i].cur \/ (s = task[i].cur /\ task[i].pc = "start")
                           => SnapKept(i, s)
    /\ \A s, u \in Specs : task[i].snap[s] = "running" /\ u < s
                           => task[i].snap[u] \in DoneStatuses
    /\ task[i].pc \in AtSpec => task[i].snap[task[i].cur] \notin DoneStatuses
    /\ task[i].pc \in InWork =>
         \/ spec[task[i].cur].status = "running"
         \/ spec[task[i].cur].status = "skipped" /\ "skip" \in Ops

TaskOrder(i) ==
    /\ task[i].pc \in {"idle", "launch", "prepare"} => task[i].cur = 0
    /\ task[i].pc \in AtSpec \cup {"pick"} => Cursor(i)
    /\ task[i].pc = "finish" => AllDone

OrderInv ==
    /\ SpecsInOrder
    /\ CompletedMeansDone
    /\ QuietResets
    /\ loop.status = "completed" => \A i \in Dispatches : ~Driving(i)
    /\ \A i \in Dispatches : TaskOrder(i)

\* Where a dispatch has no running row, and where it has none but its own.
NoRows == {"insert", "backoff", "overrule", "after", "overBudget", "deadEnd", "count",
           "blocker", "failSpec", "endCheck"}
HasRow == {"spawn", "await", "settle", "retry", "record"}

TaskRows(i) ==
    \A r \in RunningRuns : /\ task[i].pc \notin NoRows
                           /\ task[i].pc \in HasRow => r = task[i].run
                           /\ task[i].pc = "walk" => run[r].node = task[i].node

LastRow(r) == IsLast(r, RunsOf(run[r].spec))

\* At most one row is running, also after restarts: the last row of the one
\* spec that is running, where the next dispatch will find and reap it.
RowInv ==
    /\ \A q, r \in RunIds : q < r /\ run[r].status # "absent" => run[q].status # "absent"
    /\ \A q, r \in RunningRuns : q = r
    /\ \A r \in RunningRuns : spec[run[r].spec].status = "running" /\ LastRow(r)
    /\ \A i \in Dispatches : TaskRows(i)

Order == OrderInv /\ ("skip" \notin Ops => RowInv)

-----------------------------------------------------------------------------
(* What steps do to the statuses and to the rows.                          *)

StatusKept == \A s \in Specs : spec'[s].status = spec[s].status

\* No row starts to run, and rows keep what they are about.
RowsKept ==
    \A r \in RunIds : /\ run'[r].spec = run[r].spec
                      /\ run'[r].node = run[r].node
                      /\ run'[r].iter = run[r].iter
                      /\ run'[r].status = "absent" <=> run[r].status = "absent"
                      /\ run'[r].status = "running" => run[r].status = "running"

LEMMA FinishedKeeps ==
  ASSUME NEW row \in RunRow, NEW st, NEW mk
  PROVE  /\ Finished(row, st, mk).spec = row.spec
         /\ Finished(row, st, mk).node = row.node
         /\ Finished(row, st, mk).iter = row.iter
         /\ Finished(row, st, mk).status = st
         /\ Finished(row, st, mk).marker = mk
BY DEF Finished, RunRow

LEMMA FinishRunKeeps ==
  ASSUME IInv, NEW q \in RunIds, run[q].status # "absent",
         NEW st \in {"pass", "fail"}, NEW mk, FinishRun(q, st, mk)
  PROVE  RowsKept /\ run'[q].status = st
<1>1. run' = [run EXCEPT ![q] = Finished(run[q], st, mk)]
  BY DEF FinishRun
<1>2. \A r \in RunIds : run[r] \in RunRow
  BY DEF IInv, GoodRow
<1>3. run'[q] = Finished(run[q], st, mk) /\ \A r \in RunIds \ {q} : run'[r] = run[r]
  BY <1>1 DEF IInv
<1> QED  BY <1>2, <1>3, FinishedKeeps DEF RowsKept

LEMMA TerminateKeeps ==
  ASSUME IInv, NEW R \in SUBSET RunningRuns, Terminate(R)
  PROVE  /\ RowsKept
         /\ \A r \in R : run'[r].status # "running"
<1>1. \A r \in RunIds : run[r] \in RunRow
  BY DEF IInv, GoodRow
<1>2. \A r \in RunIds : run'[r] = IF r \in R THEN Finished(run[r], "fail", "terminated") ELSE run[r]
  BY DEF Terminate
<1> QED  BY <1>1, <1>2, FinishedKeeps DEF RowsKept, RunningRuns

LEMMA DispatchRowsKept ==
  ASSUME IInv, NEW i \in Dispatches, DispatchStep(i) \/ HardError(i), ~InsertRun(i)
  PROVE  RowsKept
<1>1. CASE UNCHANGED run
  BY <1>1 DEF RowsKept
<1>2. CASE \E R \in SUBSET RunningRuns : Terminate(R)
  BY <1>2, TerminateKeeps
<1>3. CASE SpawnProc(i)
  BY <1>3 DEF SpawnProc, IInv, GoodRow, RunRow, RowsKept
<1>4. CASE ProcEnds(i) \/ BeginRetry(i) \/ RecordResult(i) \/ Overrule(i) \/ DeadEnd(i)
  <2>1. task[i].run \in RunIds /\ run[task[i].run].status # "absent"
    BY <1>4, HeldRow DEF ProcEnds, BeginRetry, RecordResult, Overrule, DeadEnd, WithRun
  <2>2. UNCHANGED run \/ \E st \in {"pass", "fail"}, mk \in Markers : FinishRun(task[i].run, st, mk)
    BY <1>4 DEF ProcEnds, BeginRetry, RecordResult, Overrule, DeadEnd, Markers
  <2> QED  BY <1>1, <2>1, <2>2, FinishRunKeeps
<1>5. CASE SetBlocker(i)
  <2>1. PICK r \in RunsOf(task[i].cur), st \in {"pass", "fail"} : FinishRun(r, st, "blocker")
    BY <1>5 DEF SetBlocker
  <2> QED  BY <2>1, FinishRunKeeps DEF RunsOf
<1>6. CASE Walk(i)
  <2>1. UNCHANGED run \/ \E r \in RunningRuns : Terminate({r})
    BY <1>6 DEF Walk, IsLast
  <2>2. \A r \in RunningRuns : {r} \in SUBSET RunningRuns
    OBVIOUS
  <2> QED  BY <1>1, <1>2, <2>1, <2>2
<1>7. CASE OverBudget(i) \/ Sweep(i)
  BY <1>2, <1>7 DEF OverBudget, Sweep
<1> QED  BY <1>1, <1>3, <1>4, <1>5, <1>6, <1>7
         DEF DispatchStep, HardError, Claim, Prepare, Pick, Finish, StartSpec, Settle,
             RouteVerdict, CountAttempt, FailSpec, EndCheck, EndSet

LEMMA ActorRowsKept ==
  ASSUME IInv, NEW a \in Actors, ToolStep(a) \/ SchedulerStep(a) \/ CallStep(a)
  PROVE  RowsKept
<1>1. CASE PauseSweep(a)
  BY <1>1, TerminateKeeps DEF PauseSweep
<1>2. CASE ReportWrite(a)
  <2>1. /\ call[a].run \in RunIds /\ run[call[a].run].status # "absent"
        /\ call[a].arg \in Verdicts \cup {"blocker"}
    BY <1>2 DEF ReportWrite, IInv, GoodCall, CallRunExists
  <2>2. \E st \in {"pass", "fail"}, mk \in Markers : FinishRun(call[a].run, st, mk)
    BY <1>2, <2>1 DEF ReportWrite, Verdicts, Markers
  <2> QED  BY <2>1, <2>2, FinishRunKeeps
<1>3. CASE UNCHANGED run
  BY <1>3 DEF RowsKept
<1> QED  BY <1>1, <1>2, <1>3
         DEF ToolStep, SchedulerStep, CallStep, LoopRun, LoopPause, LoopContinue, LoopReset,
             Report, ScheduleAutorun, CronFire, AutorunList, PauseSet, ContinueApply,
             ResetApply, BlockPause, AutorunFire, AutoReset

LEMMA RestartRowsKept ==
  ASSUME IInv, NEW stopped \in SUBSET RunIds, NEW dropped, Restart(stopped, dropped),
         \A r \in stopped : run[r].status # "absent"
  PROVE  RowsKept
<1>1. \A r \in Dangling(stopped) : r \in RunIds /\ run[r].status = "running"
  BY DEF Dangling, RunningRuns
<1>2. \A r \in RunIds : run'[r] = IF r \in stopped THEN Finished(run[r], "fail", "terminated")
                                  ELSE IF r \in Dangling(stopped) THEN Finished(run[r], "fail", "interrupted")
                                  ELSE run[r]
  BY DEF Restart
<1>3. \A r \in RunIds : run[r] \in RunRow
  BY DEF IInv, GoodRow
<1> QED  BY <1>1, <1>2, <1>3, FinishedKeeps DEF RowsKept

-----------------------------------------------------------------------------
(* The order of the specs: the steps of a dispatch.                        *)

LEMMA DriverNotCompleted ==
  ASSUME OrderInv, NEW i \in Dispatches, Driving(i)
  PROVE  loop.status # "completed"
BY DEF OrderInv

\* What a cursor says does not depend on anything but statuses and the task.
LEMMA TaskOrderKept ==
  ASSUME IInv, StatusKept, NEW i \in Dispatches, task'[i] = task[i], TaskOrder(i)
  PROVE  TaskOrder(i)'
<1>1. AllDone => AllDone'
  BY DEF StatusKept, AllDone
<1>2. \A s \in Specs : SnapKept(i, s) => SnapKept(i, s)'
  BY DEF StatusKept, SnapKept
<1>3. ASSUME Cursor(i), task[i].pc \in InWork => task[i].cur \in Specs PROVE Cursor(i)'
  <2>1. \A s \in Specs : s < task[i].cur \/ (s = task[i].cur /\ task[i].pc = "pick")
                             => spec'[s].status \in DoneStatuses
    BY <1>3 DEF Cursor, StatusKept
  <2>2. \A s \in Specs : s > task[i].cur \/ (s = task[i].cur /\ task[i].pc = "start")
                             => SnapKept(i, s)'
    BY <1>2, <1>3 DEF Cursor
  <2>3. task[i].pc \in InWork => \/ spec'[task[i].cur].status = "running"
                                 \/ spec'[task[i].cur].status = "skipped" /\ "skip" \in Ops
    BY <1>3 DEF Cursor, StatusKept
  <2> QED  BY <1>3, <2>1, <2>2, <2>3 DEF Cursor
<1>4. task[i].pc \in InWork => task[i].cur \in Specs
  BY DEF IInv, GoodTask, InWork
<1> QED  BY <1>1, <1>3, <1>4 DEF TaskOrder

\* A step of one task that changes no status of a spec.
LEMMA OrderTaskStep ==
  ASSUME IInv, OrderInv, NEW i \in Dispatches, NEW t, Become(i, t),
         StatusKept, call' = call, daemon' = daemon, loop'.autorun = loop.autorun,
         loop'.status = "completed" => AllDone /\ \A j \in Dispatches : ~Driving(j)',
         TaskOrder(i)'
  PROVE  OrderInv'
<1>1. task'[i] = t /\ \A j \in Dispatches \ {i} : task'[j] = task[j]
  BY BecomeFrame
<1>2. \A j \in Dispatches : TaskOrder(j)'
  BY <1>1, TaskOrderKept DEF OrderInv
<1>3. SpecsInOrder' /\ CompletedMeansDone'
  BY DEF OrderInv, StatusKept, SpecsInOrder, CompletedMeansDone, AllDone, DoneStatuses
<1>4. QuietResets'
  BY DEF OrderInv, QuietResets
<1> QED  BY <1>2, <1>3, <1>4 DEF OrderInv

\* A step of the one driver that changes the status of its own spec.
LEMMA OrderSpecStep ==
  ASSUME IInv, OrderInv, NoOverlap, NEW i \in Dispatches, NEW t, Become(i, t), Driving(i),
         UNCHANGED <<loop, call, daemon>>,
         SpecsInOrder', TaskOrder(i)'
  PROVE  OrderInv'
<1>1. task'[i] = t /\ \A j \in Dispatches \ {i} : task'[j] = task[j]
  BY BecomeFrame
<1>2. ASSUME NEW j \in Dispatches PROVE TaskOrder(j)'
  <2>1. CASE j = i  BY <2>1
  <2>2. CASE j # i
    <3>1. task'[j] = task[j] /\ task[j].pc \in NotDriving
      BY <1>1, <2>2 DEF NoOverlap, Driving, NotDriving
    <3>2. TaskOrder(j)
      BY DEF OrderInv
    <3> QED  BY <3>1, <3>2 DEF TaskOrder, NotDriving, AtSpec
  <2> QED  BY <2>1, <2>2
<1>3. loop'.status # "completed"
  BY DriverNotCompleted
<1>4. CompletedMeansDone' /\ QuietResets'
  BY <1>3 DEF OrderInv, CompletedMeansDone, QuietResets
<1> QED  BY <1>2, <1>3, <1>4 DEF OrderInv

\* Behind the spec a dispatch works on, none is running.
LEMMA NoneRunningBehind ==
  ASSUME OrderInv, NEW i \in Dispatches, task[i].pc \in AtSpec, task[i].cur \in Specs,
         NEW s \in Specs, task[i].cur < s
  PROVE  spec[s].status # "running"
<1>1. Cursor(i)
  BY DEF OrderInv, TaskOrder
<1>2. SUFFICES ASSUME spec[s].status = "running" PROVE FALSE
  OBVIOUS
<1>3. task[i].snap[s] = "running"
  BY <1>1, <1>2 DEF Cursor, SnapKept
<1> QED  BY <1>1, <1>3 DEF Cursor

\* So its own status may become what it will, if what is before it is done.
LEMMA OwnSpecInOrder ==
  ASSUME IInv, OrderInv, NEW i \in Dispatches, task[i].pc \in AtSpec, NEW st,
         SetSpecStatus(task[i].cur, st)
  PROVE  /\ SpecsInOrder'
         /\ task[i].cur \in Specs
         /\ spec'[task[i].cur].status = st
         /\ \A s \in Specs \ {task[i].cur} : spec'[s] = spec[s]
<1> DEFINE c == task[i].cur
<1>1. c \in Specs
  BY DEF IInv, GoodTask
<1>2. /\ spec'[c].status = st
      /\ \A s \in Specs \ {c} : spec'[s] = spec[s]
  BY <1>1 DEF SetSpecStatus, IInv, SpecRow
<1>3. \A s \in Specs : s < c => spec[s].status \in DoneStatuses
  BY DEF OrderInv, TaskOrder, Cursor
<1>4. \A s \in Specs : c < s => spec[s].status # "running"
  BY <1>1, NoneRunningBehind
<1>5. SpecsInOrder'
  <2>1. SUFFICES ASSUME NEW s \in Specs, spec'[s].status = "running", NEW u \in Specs, u < s
                 PROVE  spec'[u].status \in DoneStatuses
    BY DEF SpecsInOrder, DoneStatuses
  <2>2. s = c \/ s < c
    BY <1>1, <1>2, <1>4, <2>1 DEF Specs
  <2>3. u < c /\ u # c
    BY <1>1, <2>1, <2>2 DEF Specs
  <2> QED  BY <1>2, <1>3, <2>3
<1> QED  BY <1>1, <1>2, <1>5

\* A step within the work on a spec.
LEMMA OrderWorkStep ==
  ASSUME IInv, OrderInv, NEW i \in Dispatches, NEW t, Become(i, t),
         task[i].pc \in InWork, t.pc \in InWork,
         t.cur = task[i].cur, t.snap = task[i].snap,
         StatusKept, UNCHANGED <<loop, call, daemon>>
  PROVE  OrderInv'
<1>1. task'[i] = t
  BY BecomeFrame
<1>2. Driving(i) /\ Cursor(i) /\ task[i].cur \in Specs
  BY DEF OrderInv, TaskOrder, InWork, AtSpec, Driving, IInv, GoodTask
<1>3. t.pc \in AtSpec /\ t.pc \notin {"pick", "start", "finish", "idle", "launch", "prepare"}
  BY DEF InWork, AtSpec
<1>4. \A s \in Specs : SnapKept(i, s) => SnapKept(i, s)'
  BY <1>1 DEF SnapKept, StatusKept
<1>5. Cursor(i)'
  <2>1. task[i].pc \notin {"pick", "start"} /\ task[i].pc \in AtSpec
    BY DEF InWork, AtSpec
  <2>2. \A s \in Specs : s < task[i].cur => spec'[s].status \in DoneStatuses
    BY <1>2 DEF Cursor, StatusKept
  <2>3. \A s \in Specs : s > task[i].cur => SnapKept(i, s)'
    BY <1>2, <1>4 DEF Cursor
  <2>4. \/ spec'[task[i].cur].status = "running"
        \/ spec'[task[i].cur].status = "skipped" /\ "skip" \in Ops
    BY <1>2 DEF Cursor, StatusKept
  <2> QED  BY <1>1, <1>2, <1>3, <2>1, <2>2, <2>3, <2>4 DEF Cursor
<1>6. TaskOrder(i)'
  BY <1>1, <1>3, <1>5 DEF TaskOrder
<1>7. loop'.status # "completed"
  BY <1>2, DriverNotCompleted
<1> QED  BY <1>6, <1>7, OrderTaskStep

\* A step by which a task ends, or comes to its end.
LEMMA OrderExitStep ==
  ASSUME IInv, OrderInv, NEW i \in Dispatches, NEW t, Become(i, t),
         t = IdleTask \/ t.pc \in {"endCheck", "endSet", "sweep"},
         StatusKept, call' = call, daemon' = daemon, loop'.autorun = loop.autorun,
         loop'.status = "completed" => AllDone /\ \A j \in Dispatches : ~Driving(j)'
  PROVE  OrderInv'
<1>1. task'[i] = t
  BY BecomeFrame
<1>2. TaskOrder(i)'
  BY <1>1 DEF TaskOrder, AtSpec, IdleTask
<1> QED  BY <1>2, OrderTaskStep

\* Unless its own status says so, a task that ends leaves nobody driving that
\* was not.
LEMMA NobodyElse ==
  ASSUME IInv, NEW i \in Dispatches, NEW t, Become(i, t), t.pc \in NotDriving,
         \A j \in Dispatches : Driving(j) => j = i
  PROVE  \A j \in Dispatches : ~Driving(j)'
<1>1. task'[i] = t /\ \A j \in Dispatches \ {i} : task'[j] = task[j]
  BY BecomeFrame
<1> QED  BY <1>1 DEF Driving, NotDriving

LEMMA ClaimOrder == ASSUME IInv, OrderInv, NEW i \in Dispatches, Claim(i) PROVE OrderInv'
<1>1. StatusKept /\ call' = call /\ daemon' = daemon
  BY DEF Claim, StatusKept
<1>2. CASE loop.status = "running"
  BY <1>1, <1>2, OrderExitStep DEF Claim, Return
<1>3. CASE loop.status # "running"
  <2>1. PICK sec \in {loop.startedAt, loop.startedAt + 1} :
          /\ loop' = [loop EXCEPT !.status = "running", !.startedAt = sec]
          /\ Become(i, [task[i] EXCEPT !.pc = "prepare", !.claimedAt = sec])
    BY <1>3 DEF Claim
  <2> DEFINE t == [task[i] EXCEPT !.pc = "prepare", !.claimedAt = sec]
  <2>2. loop'.status = "running" /\ loop'.autorun = loop.autorun
    BY <2>1 DEF IInv, LoopRow
  <2>3. t.pc = "prepare" /\ t.cur = 0
    <3>1. task[i] \in Task /\ task[i].pc = "launch" /\ TaskOrder(i)
      BY DEF IInv, GoodTask, Claim, OrderInv
    <3> QED  BY <3>1 DEF Task, TaskOrder
  <2>4. task'[i] = t
    BY <2>1, BecomeFrame
  <2>5. TaskOrder(i)'
    BY <2>3, <2>4 DEF TaskOrder, AtSpec
  <2> QED  BY <1>1, <2>1, <2>2, <2>5, OrderTaskStep
<1> QED  BY <1>2, <1>3

LEMMA PrepareOrder == ASSUME IInv, OrderInv, NEW i \in Dispatches, Prepare(i) PROVE OrderInv'
<1> DEFINE t == [task[i] EXCEPT !.pc = "pick", !.snap = [s \in Specs |-> spec[s].status]]
<1>1. StatusKept /\ UNCHANGED <<loop, call, daemon>> /\ Become(i, t) /\ task[i].pc = "prepare"
  BY DEF Prepare, StatusKept
<1>2. t.pc = "pick" /\ t.cur = 0 /\ t.snap = [s \in Specs |-> spec[s].status]
  <2>1. task[i] \in Task /\ TaskOrder(i)
    BY DEF IInv, GoodTask, OrderInv
  <2> QED  BY <1>1, <2>1 DEF Task, TaskOrder
<1>3. task'[i] = t
  BY <1>1, BecomeFrame
<1> HIDE DEF t
<1>4. Cursor(i)'
  <2>1. \A s \in Specs : ~(s < 0 \/ s = 0)
    BY DEF Specs
  <2>2. \A s \in Specs : SnapKept(i, s)'
    BY <1>1, <1>2, <1>3 DEF SnapKept, StatusKept
  <2>3. \A s, u \in Specs : t.snap[s] = "running" /\ u < s => t.snap[u] \in DoneStatuses
    BY <1>2 DEF OrderInv, SpecsInOrder, DoneStatuses
  <2> QED  BY <1>2, <1>3, <2>1, <2>2, <2>3 DEF Cursor, AtSpec, InWork
<1>5. TaskOrder(i)'
  BY <1>2, <1>3, <1>4 DEF TaskOrder
<1>6. loop'.status # "completed"
  BY <1>1, DriverNotCompleted DEF Driving
<1> QED  BY <1>1, <1>5, <1>6, OrderTaskStep

\* What a dispatch has not picked and is not to do is done.
LEMMA NotTodoDone ==
  ASSUME OrderInv, NEW i \in Dispatches, task[i].pc = "pick", NEW s \in Specs,
         task[i].cur \in Nat, s \notin Todo(i)
  PROVE  spec[s].status \in DoneStatuses
<1>1. Cursor(i)
  BY DEF OrderInv, TaskOrder
<1>2. CASE s <= task[i].cur
  BY <1>1, <1>2 DEF Cursor, Specs
<1>3. CASE s > task[i].cur
  BY <1>1, <1>3 DEF Cursor, Todo, SnapKept, DoneStatuses
<1> QED  BY <1>2, <1>3 DEF Specs

LEMMA PickOrder == ASSUME IInv, OrderInv, NEW i \in Dispatches, Pick(i) PROVE OrderInv'
<1>1. /\ StatusKept /\ UNCHANGED <<loop, call, daemon>>
      /\ task[i].pc = "pick" /\ task[i] \in Task /\ task[i].cur \in Nat
      /\ Cursor(i)
  <2>1. StatusKept /\ UNCHANGED <<loop, call, daemon>> /\ task[i].pc = "pick"
    BY DEF Pick, StatusKept
  <2>2. task[i] \in Task
    BY DEF IInv, GoodTask
  <2>3. task[i].cur \in Nat
    BY <2>2, SpecsAssumption DEF Task
  <2> QED  BY <2>1, <2>2, <2>3 DEF OrderInv, TaskOrder
<1>2. loop'.status # "completed"
  BY <1>1, DriverNotCompleted DEF Driving
<1>3. CASE Return(i)
  BY <1>1, <1>2, <1>3, OrderExitStep DEF Return
<1>4. CASE Todo(i) = {} /\ Move(i, "finish")
  <2>1. AllDone
    BY <1>1, <1>4, NotTodoDone DEF AllDone
  <2>2. task'[i].pc = "finish" /\ Become(i, [task[i] EXCEPT !.pc = "finish"])
    BY <1>1, <1>4, BecomeFrame DEF Move, Task
  <2>3. TaskOrder(i)'
    BY <1>1, <2>1, <2>2 DEF TaskOrder, AtSpec, AllDone, StatusKept
  <2> QED  BY <1>1, <1>2, <2>2, <2>3, OrderTaskStep
<1>5. ASSUME NEW c \in Todo(i), \A u \in Todo(i) : c <= u,
             Become(i, [task[i] EXCEPT !.pc = "start", !.cur = c])
      PROVE  OrderInv'
  <2> DEFINE t == [task[i] EXCEPT !.pc = "start", !.cur = c]
  <2>1. t.pc = "start" /\ t.cur = c /\ t.snap = task[i].snap
    BY <1>1 DEF Task
  <2>2. task'[i] = t
    BY <1>5, BecomeFrame
  <2> HIDE DEF t
  <2>3. c \in Specs /\ c > task[i].cur /\ task[i].snap[c] \notin DoneStatuses
    BY DEF Todo, DoneStatuses
  <2>4. ASSUME NEW s \in Specs, s < c PROVE spec'[s].status \in DoneStatuses
    <3>1. s \notin Todo(i)
      BY <1>5, <2>3, <2>4 DEF Specs
    <3> QED  BY <1>1, <3>1, NotTodoDone DEF StatusKept
  <2>5. ASSUME NEW s \in Specs, s >= c PROVE SnapKept(i, s)'
    <3>1. SnapKept(i, s)
      BY <1>1, <2>3, <2>5 DEF Cursor, Specs
    <3> QED  BY <1>1, <2>1, <2>2, <3>1 DEF SnapKept, StatusKept
  <2>6. Cursor(i)'
    <3>1. \A s \in Specs : s > c \/ s = c => s >= c
      BY <2>3 DEF Specs
    <3> QED  BY <1>1, <2>1, <2>2, <2>3, <2>4, <2>5, <3>1 DEF Cursor, InWork
  <2>7. TaskOrder(i)'
    BY <2>1, <2>2, <2>6 DEF TaskOrder
  <2> QED  BY <1>1, <1>2, <1>5, <2>7, OrderTaskStep DEF t
<1> QED  BY <1>3, <1>4, <1>5 DEF Pick

LEMMA FinishOrder ==
  ASSUME IInv, OrderInv, NoOverlap, NEW i \in Dispatches, Finish(i) \/ EndSet(i)
  PROVE  OrderInv'
<1>1. StatusKept /\ call' = call /\ daemon' = daemon /\ Driving(i)
  BY DEF Finish, EndSet, StatusKept, Driving
<1>2. loop'.autorun = loop.autorun
  BY DEF Finish, EndSet, SetLoopStatus, IInv, LoopRow
<1>3. CASE Finish(i)
  <2>1. Become(i, IdleTask) /\ IdleTask.pc \in NotDriving
    BY <1>3 DEF Finish, Return, IdleTask, NotDriving
  <2>2. \A j \in Dispatches : ~Driving(j)'
    BY <1>1, <2>1, NobodyElse DEF NoOverlap
  <2>3. AllDone
    BY <1>3 DEF Finish, OrderInv, TaskOrder
  <2> QED  BY <1>1, <1>2, <2>1, <2>2, <2>3, OrderExitStep
<1>4. CASE EndSet(i)
  <2>1. task[i].end \in {"failed", "paused"}
    BY DEF IInv, GoodTask, Task
  <2>2. loop'.status # "completed"
    BY <1>4, <2>1 DEF EndSet, SetLoopStatus, IInv, LoopRow
  <2>3. [task[i] EXCEPT !.pc = "sweep"].pc = "sweep"
    BY DEF IInv, GoodTask, Task
  <2> QED  BY <1>1, <1>2, <1>4, <2>2, <2>3, OrderExitStep DEF EndSet, Move
<1> QED  BY <1>3, <1>4

\* A spec starts to run when all before it are done and none behind it runs.
LEMMA StartSpecOrder ==
  ASSUME IInv, OrderInv, NoOverlap, NEW i \in Dispatches, StartSpec(i)
  PROVE  OrderInv'
<1> DEFINE c == task[i].cur
<1>1. /\ SetSpecStatus(c, "running") /\ UNCHANGED <<loop, call, daemon>>
      /\ task[i].pc = "start" /\ task[i].pc \in AtSpec /\ Driving(i)
      /\ task[i] \in Task
  BY DEF StartSpec, AtSpec, Driving, IInv, GoodTask
<1>2. PICK n, v : Become(i, [task[i] EXCEPT !.pc = "walk", !.node = n, !.visits = v])
  BY DEF StartSpec
<1> DEFINE t == [task[i] EXCEPT !.pc = "walk", !.node = n, !.visits = v]
<1>3. task'[i] = t /\ t.pc = "walk" /\ t.cur = c /\ t.snap = task[i].snap
  BY <1>1, <1>2, BecomeFrame DEF Task
<1> HIDE DEF t
<1>4. /\ SpecsInOrder' /\ c \in Specs
      /\ spec'[c].status = "running" /\ \A s \in Specs \ {c} : spec'[s] = spec[s]
  BY <1>1, OwnSpecInOrder
<1>5. Cursor(i)
  BY <1>1 DEF OrderInv, TaskOrder
<1>6. Cursor(i)'
  <2>1. ASSUME NEW s \in Specs, s < c PROVE spec'[s].status \in DoneStatuses
    <3>1. s # c
      BY <1>4, <2>1 DEF Specs
    <3> QED  BY <1>4, <1>5, <2>1, <3>1 DEF Cursor
  <2>2. ASSUME NEW s \in Specs, s > c PROVE SnapKept(i, s)'
    <3>1. s # c /\ SnapKept(i, s)
      BY <1>4, <1>5, <2>2 DEF Specs, Cursor
    <3> QED  BY <1>3, <1>4, <3>1 DEF SnapKept
  <2> QED  BY <1>1, <1>3, <1>4, <1>5, <2>1, <2>2 DEF Cursor
<1>7. TaskOrder(i)'
  BY <1>3, <1>6 DEF TaskOrder
<1> QED  BY <1>1, <1>2, <1>4, <1>7, OrderSpecStep

LEMMA FailSpecOrder ==
  ASSUME IInv, OrderInv, NoOverlap, NEW i \in Dispatches, FailSpec(i)
  PROVE  OrderInv'
<1>1. /\ SetSpecStatus(task[i].cur, "failed") /\ UNCHANGED <<loop, call, daemon>>
      /\ task[i].pc \in AtSpec /\ Driving(i) /\ task[i] \in Task
      /\ Become(i, [task[i] EXCEPT !.pc = "endCheck"])
  BY DEF FailSpec, AtSpec, Driving, IInv, GoodTask, Move
<1>2. task'[i].pc = "endCheck"
  BY <1>1, BecomeFrame DEF Task
<1>3. TaskOrder(i)'
  BY <1>2 DEF TaskOrder, AtSpec
<1>4. SpecsInOrder'
  BY <1>1, OwnSpecInOrder
<1> QED  BY <1>1, <1>3, <1>4, OrderSpecStep

\* A passed spec without a next node is completed, and the dispatch goes on.
LEMMA CompleteOrder ==
  ASSUME IInv, OrderInv, NoOverlap, NEW i \in Dispatches, task[i].pc = "after",
         SetSpecStatus(task[i].cur, "completed"), Move(i, "pick"),
         UNCHANGED <<loop, call, daemon>>
  PROVE  OrderInv'
<1> DEFINE c == task[i].cur
           t == [task[i] EXCEPT !.pc = "pick"]
<1>1. task[i].pc \in AtSpec /\ Driving(i) /\ task[i] \in Task /\ Become(i, t)
  BY DEF AtSpec, Driving, IInv, GoodTask, Move
<1>2. task'[i] = t /\ t.pc = "pick" /\ t.cur = c /\ t.snap = task[i].snap
  BY <1>1, BecomeFrame DEF Task
<1> HIDE DEF t
<1>3. /\ SpecsInOrder' /\ c \in Specs
      /\ spec'[c].status = "completed" /\ \A s \in Specs \ {c} : spec'[s] = spec[s]
  BY <1>1, OwnSpecInOrder
<1>4. Cursor(i)
  BY <1>1 DEF OrderInv, TaskOrder
<1>5. Cursor(i)'
  <2>1. ASSUME NEW s \in Specs, s < c \/ s = c PROVE spec'[s].status \in DoneStatuses
    <3>1. CASE s = c
      BY <1>3, <3>1 DEF DoneStatuses
    <3>2. CASE s # c
      BY <1>3, <1>4, <2>1, <3>2 DEF Cursor
    <3> QED  BY <3>1, <3>2
  <2>2. ASSUME NEW s \in Specs, s > c PROVE SnapKept(i, s)'
    <3>1. s # c /\ SnapKept(i, s)
      BY <1>3, <1>4, <2>2 DEF Specs, Cursor
    <3> QED  BY <1>2, <1>3, <3>1 DEF SnapKept
  <2> QED  BY <1>2, <1>4, <2>1, <2>2 DEF Cursor, AtSpec, InWork
<1>6. TaskOrder(i)'
  BY <1>2, <1>5 DEF TaskOrder
<1> QED  BY <1>1, <1>3, <1>6, OrderSpecStep

\* The rest of a dispatch: it leaves, or goes on working on the same spec.
LEMMA WorkStepShape ==
  ASSUME IInv, NEW i \in Dispatches,
         \/ Walk(i) \/ InsertRun(i) \/ SpawnProc(i) \/ ProcEnds(i) \/ Settle(i) \/ BeginRetry(i)
         \/ RecordResult(i) \/ Overrule(i) \/ OverBudget(i) \/ DeadEnd(i) \/ CountAttempt(i)
         \/ SetBlocker(i) \/ (RouteVerdict(i) /\ ~Move(i, "pick"))
  PROVE  /\ StatusKept /\ UNCHANGED <<loop, call, daemon>>
         /\ task[i].pc \in InWork
         /\ \E t : /\ Become(i, t)
                   /\ \/ t = IdleTask
                      \/ t.pc \in InWork /\ t.cur = task[i].cur /\ t.snap = task[i].snap
<1>0. task[i] \in Task
  BY DEF IInv, GoodTask
<1>1. UNCHANGED <<loop, call, daemon>> /\ task[i].pc \in InWork
  BY DEF Walk, InsertRun, SpawnProc, ProcEnds, Settle, BeginRetry, RecordResult, Overrule,
         OverBudget, DeadEnd, CountAttempt, SetBlocker, RouteVerdict, InWork, AtSpec
<1>2. StatusKept
  <2>1. CASE CountAttempt(i)
    BY <2>1 DEF CountAttempt, IInv, SpecRow, StatusKept
  <2>2. CASE UNCHANGED spec
    BY <2>2 DEF StatusKept
  <2> QED  BY <2>1, <2>2 DEF Walk, InsertRun, SpawnProc, ProcEnds, Settle, BeginRetry,
              RecordResult, Overrule, OverBudget, DeadEnd, SetBlocker, RouteVerdict
<1> DEFINE Shape == \E t : /\ Become(i, t)
                           /\ \/ t = IdleTask
                              \/ t.pc \in InWork /\ t.cur = task[i].cur /\ t.snap = task[i].snap
<1> SUFFICES Shape
  BY <1>1, <1>2
<1>3. ASSUME NEW pc \in InWork, Move(i, pc) PROVE Shape
  <2> DEFINE t == [task[i] EXCEPT !.pc = pc]
  <2>1. t.pc \in InWork /\ t.cur = task[i].cur /\ t.snap = task[i].snap
    BY <1>0, <1>3 DEF Task
  <2> QED  BY <1>3, <2>1 DEF Move
<1>4. CASE Return(i)
  BY <1>4 DEF Return
<1>5. CASE Walk(i) /\ ~Return(i)
  <2> DEFINE t == [task[i] EXCEPT !.visits = Visited(i), !.retry = 0,
                                  !.pc = IF WithinBudget(i) THEN "insert" ELSE "overBudget"]
  <2>1. Become(i, t)
    BY <1>5 DEF Walk
  <2>2. t.pc \in InWork /\ t.cur = task[i].cur /\ t.snap = task[i].snap
    BY <1>0 DEF Task, InWork, AtSpec
  <2> QED  BY <2>1, <2>2
<1>6. CASE InsertRun(i)
  <2>1. PICK r : Become(i, [task[i] EXCEPT !.pc = "spawn", !.run = r])
    BY <1>6 DEF InsertRun
  <2> DEFINE t == [task[i] EXCEPT !.pc = "spawn", !.run = r]
  <2>2. t.pc \in InWork /\ t.cur = task[i].cur /\ t.snap = task[i].snap
    BY <1>0 DEF Task, InWork, AtSpec
  <2> QED  BY <2>1, <2>2
<1>7. ASSUME NEW v, NEW pc \in InWork, Become(i, [task[i] EXCEPT !.pc = pc, !.verdict = v])
      PROVE  Shape
  <2> DEFINE t == [task[i] EXCEPT !.pc = pc, !.verdict = v]
  <2>1. t.pc \in InWork /\ t.cur = task[i].cur /\ t.snap = task[i].snap
    BY <1>0, <1>7 DEF Task
  <2> QED  BY <1>7, <2>1
<1>8. CASE ProcEnds(i)
  BY <1>7, <1>8 DEF ProcEnds, InWork, AtSpec
<1>9. CASE Settle(i)
  BY <1>3, <1>4, <1>7, <1>9 DEF Settle, InWork, AtSpec
<1>10. CASE BeginRetry(i)
  <2>1. PICK k : Become(i, [task[i] EXCEPT !.pc = "backoff", !.retry = k])
    BY <1>10 DEF BeginRetry
  <2> DEFINE t == [task[i] EXCEPT !.pc = "backoff", !.retry = k]
  <2>2. t.pc \in InWork /\ t.cur = task[i].cur /\ t.snap = task[i].snap
    BY <1>0 DEF Task, InWork, AtSpec
  <2> QED  BY <2>1, <2>2
<1>11. CASE SpawnProc(i) \/ RecordResult(i) \/ OverBudget(i) \/ DeadEnd(i) \/ SetBlocker(i)
  BY <1>3, <1>11 DEF SpawnProc, RecordResult, OverBudget, DeadEnd, SetBlocker, InWork, AtSpec
<1>12. CASE Overrule(i)
  BY <1>7, <1>12 DEF Overrule, InWork, AtSpec
<1>13. CASE RouteVerdict(i) /\ ~Move(i, "pick") /\ ~Return(i) /\ ~Move(i, "deadEnd")
  <2>1. PICK n : Become(i, [task[i] EXCEPT !.pc = "walk", !.node = n])
    BY <1>13 DEF RouteVerdict
  <2> DEFINE t == [task[i] EXCEPT !.pc = "walk", !.node = n]
  <2>2. t.pc \in InWork /\ t.cur = task[i].cur /\ t.snap = task[i].snap
    BY <1>0 DEF Task, InWork, AtSpec
  <2> QED  BY <2>1, <2>2
<1>14. CASE CountAttempt(i)
  <2>1. PICK pc \in {"failSpec", "blocker"}, e \in {"failed", "paused"} :
          Become(i, [task[i] EXCEPT !.pc = pc, !.end = e])
    BY <1>14 DEF CountAttempt
  <2> DEFINE t == [task[i] EXCEPT !.pc = pc, !.end = e]
  <2>2. t.pc \in InWork /\ t.cur = task[i].cur /\ t.snap = task[i].snap
    BY <1>0 DEF Task, InWork, AtSpec
  <2> QED  BY <2>1, <2>2
<1>15. "deadEnd" \in InWork
  BY DEF InWork, AtSpec
<1> QED  BY <1>1, <1>2, <1>3, <1>4, <1>5, <1>6, <1>8, <1>9, <1>10, <1>11, <1>12, <1>13, <1>14,
            <1>15

LEMMA DispatchStepOrder ==
  ASSUME IInv, OrderInv, NoOverlap, NEW i \in Dispatches, DispatchStep(i) \/ HardError(i)
  PROVE  OrderInv'
<1>1. CASE Claim(i) \/ Prepare(i) \/ Pick(i) \/ Finish(i) \/ EndSet(i) \/ StartSpec(i) \/ FailSpec(i)
  BY <1>1, ClaimOrder, PrepareOrder, PickOrder, FinishOrder, StartSpecOrder, FailSpecOrder
<1>2. CASE RouteVerdict(i) /\ Move(i, "pick")
  <2>1. CASE SetSpecStatus(task[i].cur, "completed") /\ task[i].pc = "after"
    BY <1>2, <2>1, CompleteOrder DEF RouteVerdict
  <2>2. CASE ~SetSpecStatus(task[i].cur, "completed")
    <3>1. task[i] \in Task /\ [task[i] EXCEPT !.pc = "pick"].pc = "pick"
      BY DEF IInv, GoodTask, Task
    <3>2. task'[i].pc = "pick"
      BY <1>2, <3>1, BecomeFrame DEF Move
    <3>3. \/ Become(i, IdleTask)
          \/ \E n : Become(i, [task[i] EXCEPT !.pc = "walk", !.node = n])
          \/ Become(i, [task[i] EXCEPT !.pc = "deadEnd"])
      BY <1>2, <2>2 DEF RouteVerdict, Return, Move
    <3>4. /\ IdleTask.pc # "pick" /\ [task[i] EXCEPT !.pc = "deadEnd"].pc # "pick"
          /\ \A n : [task[i] EXCEPT !.pc = "walk", !.node = n].pc # "pick"
      BY <3>1 DEF Task, IdleTask
    <3> QED  BY <3>2, <3>3, <3>4, BecomeFrame
  <2> QED  BY <1>2, <2>1, <2>2 DEF RouteVerdict
<1>3. CASE EndCheck(i) \/ Sweep(i) \/ HardError(i)
  <2>1. StatusKept /\ UNCHANGED <<loop, call, daemon>>
    BY <1>3 DEF EndCheck, Sweep, HardError, StatusKept
  <2>2. PICK t : Become(i, t) /\ (t = IdleTask \/ t.pc = "endSet")
    <3>1. /\ [task[i] EXCEPT !.pc = "endSet"].pc = "endSet"
          /\ [task[i] EXCEPT !.pc = "endSet", !.end = "failed"].pc = "endSet"
      BY DEF IInv, GoodTask, Task
    <3> QED  BY <1>3, <3>1 DEF EndCheck, Sweep, HardError, Return, Move
  <2>3. task'[i] = t /\ \A j \in Dispatches \ {i} : task'[j] = task[j]
    BY <2>2, BecomeFrame
  <2>4. loop'.status = "completed" => AllDone /\ \A j \in Dispatches : ~Driving(j)'
    <3>1. Sweep(i) \/ Driving(i)
      BY <1>3 DEF EndCheck, HardError, Driving
    <3>2. CASE Sweep(i)
      <4>1. Become(i, IdleTask)
        BY <3>2 DEF Sweep, Return
      <4>2. task'[i].pc = "idle"
        BY <4>1, BecomeFrame DEF IdleTask
      <4> QED  BY <2>1, <2>3, <4>2 DEF Driving, OrderInv, CompletedMeansDone, AllDone, DoneStatuses
    <3>3. CASE Driving(i)
      BY <2>1, <3>3, DriverNotCompleted
    <3> QED  BY <3>1, <3>2, <3>3
  <2> QED  BY <2>1, <2>2, <2>4, OrderExitStep
<1>4. CASE \/ Walk(i) \/ InsertRun(i) \/ SpawnProc(i) \/ ProcEnds(i) \/ Settle(i) \/ BeginRetry(i)
           \/ RecordResult(i) \/ Overrule(i) \/ OverBudget(i) \/ DeadEnd(i) \/ CountAttempt(i)
           \/ SetBlocker(i) \/ (RouteVerdict(i) /\ ~Move(i, "pick"))
  <2>1. /\ StatusKept /\ UNCHANGED <<loop, call, daemon>>
        /\ task[i].pc \in InWork
        /\ \E t : /\ Become(i, t)
                  /\ \/ t = IdleTask
                     \/ t.pc \in InWork /\ t.cur = task[i].cur /\ t.snap = task[i].snap
    BY <1>4, WorkStepShape
  <2>2. loop'.status # "completed"
    BY <2>1, DriverNotCompleted DEF InWork, AtSpec, Driving
  <2> QED  BY <2>1, <2>2, OrderExitStep, OrderWorkStep
<1> QED  BY <1>1, <1>2, <1>3, <1>4 DEF DispatchStep

-----------------------------------------------------------------------------
(* The order of the specs: the other actors, and restarts.                 *)

\* A spawned dispatch has no cursor yet.
LEMMA SpawnOrder ==
  ASSUME IInv, OrderInv, SpawnDispatch,
         \A j \in Dispatches : task'[j] = task[j] => TaskOrder(j)'
  PROVE  /\ \A j \in Dispatches : TaskOrder(j)'
         /\ \A j \in Dispatches : Driving(j)' => Driving(j)
<1>1. PICK i \in Dispatches : task[i].pc = "idle" /\ Become(i, [task[i] EXCEPT !.pc = "launch"])
  BY DEF SpawnDispatch, Move
<1>2. /\ task'[i] = [task[i] EXCEPT !.pc = "launch"]
      /\ \A j \in Dispatches \ {i} : task'[j] = task[j]
  BY <1>1, BecomeFrame
<1>3. task'[i].pc = "launch" /\ task'[i].cur = 0
  <2>1. task[i] \in Task /\ task[i].cur = 0
    BY <1>1 DEF IInv, GoodTask, OrderInv, TaskOrder
  <2> QED  BY <1>2, <2>1 DEF Task
<1>4. TaskOrder(i)'
  BY <1>3 DEF TaskOrder, AtSpec
<1> QED  BY <1>2, <1>3, <1>4 DEF Driving

\* A skip takes the first running spec, whether a dispatch works on it or not.
LEMMA SkipOrder ==
  ASSUME IInv, NEW s \in Specs, spec[s].status = "running", SetSpecStatus(s, "skipped"),
         "skip" \in Ops, NEW j \in Dispatches, TaskOrder(j), task'[j] = task[j]
  PROVE  TaskOrder(j)'
<1>1. /\ spec'[s].status = "skipped"
      /\ \A u \in Specs \ {s} : spec'[u] = spec[u]
  BY DEF SetSpecStatus, IInv, SpecRow
<1>2. \A u \in Specs : spec[u].status \in DoneStatuses => spec'[u].status \in DoneStatuses
  BY <1>1 DEF DoneStatuses
<1>3. \A u \in Specs : SnapKept(j, u) => SnapKept(j, u)'
  BY <1>1 DEF SnapKept
<1>4. \A u \in Specs : \/ spec[u].status = "running"
                       \/ spec[u].status = "skipped"
                       => \/ spec'[u].status = "running"
                          \/ spec'[u].status = "skipped"
  BY <1>1
<1>5. AllDone => AllDone'
  BY <1>2 DEF AllDone
<1>6. task[j].pc \in InWork => task[j].cur \in Specs
  BY DEF IInv, GoodTask, InWork
<1>7. Cursor(j) => Cursor(j)'
  BY <1>2, <1>3, <1>4, <1>6 DEF Cursor
<1> QED  BY <1>5, <1>7 DEF TaskOrder

\* What the tools and the scheduler may do under OrderedOps.
LEMMA QuietCall ==
  ASSUME IInv, QuietResets, NEW a \in Actors, NEW c, Begin(a, c),
         c.step \notin {"resetApply", "autorun", "autoReset"},
         c.arg = "skip" => "skip" \in Ops,
         loop'.autorun = loop.autorun, daemon' = daemon
  PROVE  QuietResets'
<1>1. call'[a] = c /\ \A b \in Actors \ {a} : call'[b] = call[b]
  BY DEF Begin, IInv
<1> QED  BY <1>1 DEF QuietResets

\* Every call under OrderedOps keeps the resets quiet, and writes no status
\* but a pause and the skip of a running spec.
LEMMA ActorStepShape ==
  ASSUME IInv, QuietResets, OrderedOps, NEW a \in Actors,
         ToolStep(a) \/ SchedulerStep(a) \/ CallStep(a)
  PROVE  /\ QuietResets'
         /\ loop' = loop \/ loop'.status = "paused"
         /\ task' = task \/ SpawnDispatch
         /\ \/ spec' = spec
            \/ /\ "skip" \in Ops
               /\ \E s \in Specs : spec[s].status = "running" /\ SetSpecStatus(s, "skipped")
<1> DEFINE Shape == /\ QuietResets'
                    /\ loop' = loop \/ loop'.status = "paused"
                    /\ task' = task \/ SpawnDispatch
                    /\ \/ spec' = spec
                       \/ /\ "skip" \in Ops
                          /\ \E s \in Specs : spec[s].status = "running" /\ SetSpecStatus(s, "skipped")
<1>1. ~loop.autorun /\ call[a].step \notin {"resetApply", "autorun", "autoReset"}
  BY DEF QuietResets
<1>2. Ops \cap {"loop_reset", "autorun", "cancel_autorun"} = {}
  BY DEF OrderedOps
<1>3. IdleCall \in Call /\ IdleCall.step = "idle" /\ IdleCall.arg = "none"
  BY IdleCallGood DEF GoodCall, IdleCall
<1>4. CASE LoopRun(a) \/ CronFire(a)
  BY <1>4 DEF LoopRun, CronFire, QuietResets
<1>5. CASE LoopPause(a)
  <2> DEFINE c == [IdleCall EXCEPT !.step = "pauseSet"]
  <2>1. c.step = "pauseSet" /\ c.arg = "none"
    BY <1>3 DEF Call
  <2> QED  BY <1>5, <2>1, QuietCall DEF LoopPause
<1>6. CASE LoopContinue(a)
  <2>1. PICK action \in {"retry", "skip"} \cap Ops :
          Begin(a, [IdleCall EXCEPT !.step = "continue", !.arg = action])
    BY <1>6 DEF LoopContinue
  <2> DEFINE c == [IdleCall EXCEPT !.step = "continue", !.arg = action]
  <2>2. c.step = "continue" /\ c.arg = action
    BY <1>3 DEF Call
  <2> QED  BY <1>6, <2>1, <2>2, QuietCall DEF LoopContinue
<1>7. CASE Report(a)
  <2>1. PICK r \in RunningRuns, kind \in Reports : Begin(a, [IdleCall EXCEPT
                !.step = "report", !.run = r,
                !.arg = IF kind = "report_blocker" THEN "blocker" ELSE kind])
    BY <1>7 DEF Report
  <2> DEFINE c == [IdleCall EXCEPT !.step = "report", !.run = r,
                                   !.arg = IF kind = "report_blocker" THEN "blocker" ELSE kind]
  <2>2. c.step = "report" /\ c.arg # "skip"
    BY <1>3 DEF Call, Reports, Verdicts
  <2> QED  BY <1>7, <2>1, <2>2, QuietCall DEF Report
<1>8. CASE PauseSet(a)
  <2> DEFINE c == [IdleCall EXCEPT !.step = "pauseSweep"]
  <2>1. c.step = "pauseSweep" /\ c.arg = "none"
    BY <1>3 DEF Call
  <2>2. loop'.status = "paused" /\ loop'.autorun = loop.autorun
    BY <1>8 DEF PauseSet, SetLoopStatus, IInv, LoopRow
  <2> QED  BY <1>8, <2>1, <2>2, QuietCall DEF PauseSet
<1>9. CASE PauseSweep(a)
  BY <1>3, <1>9, QuietCall DEF PauseSweep, Hang
<1>10. CASE ContinueApply(a)
  <2>1. QuietResets'
    BY <1>3, <1>10, QuietCall DEF ContinueApply, Hang
  <2>2. \/ spec' = spec
        \/ /\ "skip" \in Ops
           /\ \E s \in Specs : spec[s].status = "running" /\ SetSpecStatus(s, "skipped")
    BY <1>10 DEF ContinueApply, RunningSpecs, QuietResets
  <2> QED  BY <1>10, <2>1, <2>2 DEF ContinueApply
<1>11. CASE ReportWrite(a)
  <2> DEFINE c == [IdleCall EXCEPT !.step = "blockPause"]
  <2>1. c.step = "blockPause" /\ c.arg = "none"
    BY <1>3 DEF Call
  <2>2. Begin(a, c) \/ Begin(a, IdleCall)
    BY <1>11 DEF ReportWrite, Hang
  <2>3. UNCHANGED <<loop, spec, task, daemon>>
    BY <1>11 DEF ReportWrite
  <2>4. QuietResets'
    BY <1>3, <2>1, <2>2, <2>3, QuietCall
  <2> QED  BY <2>3, <2>4
<1>12. CASE BlockPause(a)
  <2>1. loop'.status = "paused" /\ loop'.autorun = loop.autorun
    BY <1>12 DEF BlockPause, SetLoopStatus, IInv, LoopRow
  <2> QED  BY <1>3, <1>12, <2>1, QuietCall DEF BlockPause, Hang
<1>13. CASE LoopReset(a) \/ ScheduleAutorun(a) \/ AutorunList(a) \/ ResetApply(a)
            \/ AutorunFire(a) \/ AutoReset(a)
  BY <1>1, <1>2, <1>13 DEF LoopReset, ScheduleAutorun, AutorunList, IsAutorunDue, ResetApply,
                           AutorunFire, AutoReset
<1> QED  BY <1>4, <1>5, <1>6, <1>7, <1>8, <1>9, <1>10, <1>11, <1>12, <1>13
         DEF ToolStep, SchedulerStep, CallStep

LEMMA ActorStepOrder ==
  ASSUME IInv, OrderInv, OrderedOps, NEW a \in Actors,
         ToolStep(a) \/ SchedulerStep(a) \/ CallStep(a)
  PROVE  OrderInv'
<1>1. /\ QuietResets'
      /\ loop' = loop \/ loop'.status = "paused"
      /\ task' = task \/ SpawnDispatch
      /\ \/ spec' = spec
         \/ /\ "skip" \in Ops
            /\ \E s \in Specs : spec[s].status = "running" /\ SetSpecStatus(s, "skipped")
  BY ActorStepShape DEF OrderInv
<1>2. ASSUME NEW j \in Dispatches, task'[j] = task[j] PROVE TaskOrder(j)'
  BY <1>1, <1>2, TaskOrderKept, SkipOrder DEF StatusKept, OrderInv
<1>3. /\ \A j \in Dispatches : TaskOrder(j)'
      /\ \A j \in Dispatches : Driving(j)' => Driving(j)
  BY <1>1, <1>2, SpawnOrder DEF Driving
<1>4. /\ \A s \in Specs : spec'[s].status = "running" => spec[s].status = "running"
      /\ \A s \in Specs : spec[s].status \in DoneStatuses => spec'[s].status \in DoneStatuses
  BY <1>1 DEF SetSpecStatus, IInv, SpecRow, DoneStatuses
<1>5. SpecsInOrder'
  BY <1>4 DEF OrderInv, SpecsInOrder, DoneStatuses
<1>6. loop'.status = "completed" => loop' = loop
  BY <1>1
<1>7. CompletedMeansDone'
  BY <1>4, <1>6 DEF OrderInv, CompletedMeansDone, DoneStatuses
<1> QED  BY <1>1, <1>3, <1>5, <1>6, <1>7 DEF OrderInv

-----------------------------------------------------------------------------
(* The rows.                                                               *)

\* The steps at which a task may see running rows that are not its own.
Unbound == {"idle", "launch", "prepare", "pick", "start", "endSet", "sweep", "finish"}

\* A step that starts no row keeps RowInv, if what still runs is still of a
\* running spec and is where its task expects it.
LEMMA RowsStep ==
  ASSUME RowInv, RowsKept,
         \A r \in RunIds : run'[r].status = "running" => spec'[run[r].spec].status = "running",
         \A j \in Dispatches : task'[j] = task[j] \/ TaskRows(j)'
  PROVE  RowInv'
<1>1. RunningRuns' \subseteq RunningRuns /\ RunningRuns \subseteq RunIds
  BY DEF RowsKept, RunningRuns
<1>2. \A s : RunsOf(s)' = RunsOf(s)
  BY DEF RowsKept, RunsOf
<1>3. ASSUME NEW r \in RunningRuns'
      PROVE  spec'[run'[r].spec].status = "running" /\ LastRow(r)'
  <2>1. r \in RunIds /\ run'[r].status = "running" /\ r \in RunningRuns
    BY <1>1, <1>3 DEF RunningRuns
  <2>2. run'[r].spec = run[r].spec /\ LastRow(r)
    BY <2>1 DEF RowsKept, RowInv
  <2>3. LastRow(r)'
    BY <1>2, <2>2 DEF LastRow, IsLast
  <2> QED  BY <2>1, <2>2, <2>3
<1>4. ASSUME NEW j \in Dispatches PROVE TaskRows(j)'
  <2>1. CASE task'[j] = task[j]
    BY <1>1, <2>1 DEF RowInv, TaskRows, RowsKept
  <2> QED  BY <2>1
<1>5. \A q, r \in RunningRuns' : q = r
  BY <1>1 DEF RowInv
<1>6. \A q, r \in RunIds : q < r /\ run'[r].status # "absent" => run'[q].status # "absent"
  BY DEF RowInv, RowsKept
<1> QED  BY <1>3, <1>4, <1>5, <1>6 DEF RowInv

LEMMA RowsTaskStep ==
  ASSUME IInv, RowInv, RowsKept, NEW i \in Dispatches, NEW t, Become(i, t),
         \A r \in RunIds : run'[r].status = "running" =>
            /\ spec'[run[r].spec].status = "running"
            /\ \/ t.pc \in Unbound
               \/ t.pc \in HasRow /\ r = t.run
               \/ t.pc = "walk" /\ run[r].node = t.node
  PROVE  RowInv'
<1>1. task'[i] = t /\ \A j \in Dispatches \ {i} : task'[j] = task[j]
  BY BecomeFrame
<1>2. TaskRows(i)'
  BY <1>1 DEF TaskRows, RunningRuns, RowsKept, Unbound, HasRow, NoRows
<1> QED  BY <1>1, <1>2, RowsStep

LEMMA InsertRunRows ==
  ASSUME IInv, OrderInv, RowInv, NoOverlap, "skip" \notin Ops, NEW i \in Dispatches, InsertRun(i)
  PROVE  RowInv'
<1>1. /\ task[i].pc \in NoRows /\ task[i].pc \in InWork /\ Driving(i) /\ UNCHANGED spec
      /\ task[i].pc # "start" /\ task[i] \in Task
  BY DEF InsertRun, NoRows, InWork, AtSpec, Driving, IInv, GoodTask
<1>2. RunningRuns = {}
  BY <1>1 DEF RowInv, TaskRows
<1>3. PICK r \in RunIds :
         /\ InsertRow(r, task[i].node, task[i].cur, task[i].visits[task[i].node])
         /\ Become(i, [task[i] EXCEPT !.pc = "spawn", !.run = r])
  BY DEF InsertRun
<1>4. /\ run'[r].status = "running" /\ run'[r].spec = task[i].cur
      /\ \A q \in RunIds \ {r} : run'[q] = run[q]
      /\ run[r].status = "absent" /\ \A q \in RunIds : q < r => run[q].status # "absent"
  BY <1>3 DEF InsertRow, IInv
<1>5. RunningRuns' = {r}
  BY <1>2, <1>4 DEF RunningRuns
<1>6. \A q \in RunIds : q > r => run[q].status = "absent"
  BY <1>4 DEF RowInv
<1>7. RunIds \subseteq Nat
  BY DEF RunIds
<1>8. \A p, q \in RunIds : p < q /\ run'[q].status # "absent" => run'[p].status # "absent"
  BY <1>4, <1>6, <1>7 DEF RowInv
<1>9. LastRow(r)'
  <2>1. \A q \in RunIds : run'[q].status # "absent" => q <= r
    BY <1>4, <1>6, <1>7
  <2> QED  BY <1>4, <2>1 DEF LastRow, IsLast, RunsOf
<1>10. spec'[task[i].cur].status = "running"
  BY <1>1 DEF OrderInv, TaskOrder, Cursor, InWork
<1>11. ASSUME NEW j \in Dispatches PROVE TaskRows(j)'
  <2>1. CASE j = i
    <3>1. task'[i] = [task[i] EXCEPT !.pc = "spawn", !.run = r]
      BY <1>3, BecomeFrame
    <3>2. task'[i].pc = "spawn" /\ task'[i].run = r
      BY <1>1, <3>1 DEF Task
    <3> QED  BY <1>5, <2>1, <3>2 DEF TaskRows, NoRows
  <2>2. CASE j # i
    <3>1. task'[j] = task[j] /\ task[j].pc \in NotDriving
      BY <1>1, <1>3, <2>2, BecomeFrame DEF NoOverlap, Driving, NotDriving
    <3> QED  BY <3>1 DEF TaskRows, NotDriving, NoRows, HasRow
  <2> QED  BY <2>1, <2>2
<1> QED  BY <1>4, <1>5, <1>8, <1>9, <1>10, <1>11 DEF RowInv

\* A row still running when a spec is taken up is that spec's last: the
\* dispatch resumes at its node.
LEMMA StartSpecRows ==
  ASSUME IInv, OrderInv, RowInv, "skip" \notin Ops, NEW i \in Dispatches, StartSpec(i)
  PROVE  RowInv'
<1> DEFINE c == task[i].cur
<1>1. /\ task[i].pc = "start" /\ task[i].pc \in AtSpec /\ task[i] \in Task
      /\ UNCHANGED run /\ SetSpecStatus(c, "running") /\ RowsKept
  BY DEF StartSpec, AtSpec, IInv, GoodTask, RowsKept
<1>2. c \in Specs /\ Cursor(i)
  BY <1>1 DEF IInv, GoodTask, OrderInv, TaskOrder
<1>3. ASSUME NEW r \in RunningRuns
      PROVE  run[r].spec = c /\ task[i].snap[c] = "running" /\ IsLast(r, RunsOf(c))
  <2>1. spec[run[r].spec].status = "running" /\ IsLast(r, RunsOf(run[r].spec))
    BY DEF RowInv, LastRow
  <2>2. run[r].spec \in Specs
    BY DEF RunningRuns, IInv, GoodRow
  <2>3. ~(c < run[r].spec)
    BY <1>1, <1>2, <2>1, <2>2, NoneRunningBehind
  <2>4. ~(run[r].spec < c)
    BY <1>2, <2>1, <2>2 DEF Cursor, DoneStatuses
  <2>5. run[r].spec = c
    BY <1>2, <2>2, <2>3, <2>4 DEF Specs
  <2>6. ~(c < c)
    BY <1>2 DEF Specs
  <2>7. SnapKept(i, c)
    BY <1>1, <1>2 DEF Cursor
  <2> QED  BY <2>1, <2>5, <2>7 DEF SnapKept
<1>4. ASSUME NEW r \in RunningRuns
      PROVE  \E v : Become(i, [task[i] EXCEPT !.pc = "walk", !.node = run[r].node, !.visits = v])
  <2>1. \A q : IsLast(q, RunsOf(c)) => q = r
    BY <1>3 DEF IsLast, RunsOf, RunIds
  <2>2. RunsOf(c) # {}
    BY <1>3 DEF IsLast
  <2>3. PICK q \in RunsOf(c) :
          /\ IsLast(q, RunsOf(c))
          /\ Become(i, [task[i] EXCEPT
                          !.pc = "walk", !.node = run[q].node,
                          !.visits = [n \in Nodes |-> Cardinality(IterationsAt(c, n))]])
    BY <1>3, <2>2 DEF StartSpec
  <2> QED  BY <2>1, <2>3
<1>5. PICK n, v : Become(i, [task[i] EXCEPT !.pc = "walk", !.node = n, !.visits = v])
  BY DEF StartSpec
<1> DEFINE t == [task[i] EXCEPT !.pc = "walk", !.node = n, !.visits = v]
<1>6. Become(i, t) /\ task'[i] = t /\ t.pc = "walk"
  BY <1>1, <1>5, BecomeFrame DEF Task
<1>7. ASSUME NEW r \in RunningRuns PROVE t.node = run[r].node
  <2>1. PICK w : Become(i, [task[i] EXCEPT !.pc = "walk", !.node = run[r].node, !.visits = w])
    BY <1>4, <1>7
  <2>2. task'[i] = [task[i] EXCEPT !.pc = "walk", !.node = run[r].node, !.visits = w]
    BY <2>1, BecomeFrame
  <2>3. task'[i].node = run[r].node
    BY <1>1, <2>2 DEF Task
  <2> QED  BY <1>6, <2>3
<1>8. spec'[c].status = "running"
  BY <1>1, <1>2 DEF SetSpecStatus, IInv, SpecRow
<1> HIDE DEF t
<1>9. ASSUME NEW r \in RunIds, run'[r].status = "running"
      PROVE  spec'[run[r].spec].status = "running" /\ run[r].node = t.node
  <2>1. r \in RunningRuns
    BY <1>1, <1>9 DEF RunningRuns
  <2> QED  BY <1>3, <1>7, <1>8, <2>1
<1> QED  BY <1>1, <1>6, <1>9, RowsTaskStep

LEMMA WalkRows == ASSUME IInv, RowInv, NEW i \in Dispatches, Walk(i) PROVE RowInv'
<1>1. task[i].pc = "walk" /\ UNCHANGED spec /\ ~InsertRun(i)
  BY DEF Walk, InsertRun
<1>2. RowsKept
  BY <1>1, DispatchRowsKept DEF DispatchStep
<1>3. CASE Return(i)
  <2>1. ASSUME NEW r \in RunIds, run'[r].status = "running"
        PROVE  spec'[run[r].spec].status = "running"
    BY <1>1, <1>2, <2>1 DEF RowsKept, RowInv, RunningRuns
  <2> QED  BY <1>2, <1>3, <2>1, RowsTaskStep DEF Return, IdleTask, Unbound
<1>4. CASE ~Return(i)
  <2>1. \A r \in RunningRuns : run[r].node = task[i].node
    BY <1>1 DEF RowInv, TaskRows
  <2>2. RunningRuns' = {}
    <3>1. CASE RunningRuns = {}
      BY <1>2, <3>1 DEF RowsKept, RunningRuns
    <3>2. CASE RunningRuns # {}
      <4>1. PICK r \in RunningRuns : Terminate({r})
        BY <1>4, <2>1, <3>2 DEF Walk
      <4>2. run'[r].status # "running"
        BY <4>1, TerminateKeeps
      <4> QED  BY <1>2, <4>1, <4>2 DEF RowInv, RowsKept, RunningRuns
    <3> QED  BY <3>1, <3>2
  <2>3. PICK t : Become(i, t)
    BY <1>4 DEF Walk
  <2> QED  BY <1>2, <2>2, <2>3, RowsTaskStep DEF RunningRuns
<1> QED  BY <1>3, <1>4

\* Once its row is finished, a task has none.
LEMMA OwnRowFinished ==
  ASSUME IInv, RowInv, NEW i \in Dispatches, task[i].pc \in HasRow,
         NEW st \in {"pass", "fail"}, NEW mk, FinishRun(task[i].run, st, mk)
  PROVE  RunningRuns' = {}
<1>1. task[i].run \in RunIds /\ run[task[i].run].status # "absent"
  BY HeldRow DEF HasRow, WithRun
<1>2. RowsKept /\ run'[task[i].run].status = st
  BY <1>1, FinishRunKeeps
<1>3. \A r \in RunningRuns : r = task[i].run
  BY DEF RowInv, TaskRows
<1> QED  BY <1>2, <1>3 DEF RowsKept, RunningRuns

LEMMA DispatchStepRows ==
  ASSUME IInv, OrderInv, RowInv, NoOverlap, "skip" \notin Ops, NEW i \in Dispatches,
         DispatchStep(i) \/ HardError(i)
  PROVE  RowInv'
<1>0. task[i] \in Task /\ \E t : Become(i, t)
  BY DEF IInv, GoodTask, DispatchStep, HardError, Claim, Prepare, Pick, Finish, StartSpec, Walk,
         InsertRun, SpawnProc, ProcEnds, Settle, BeginRetry, RecordResult, Overrule, RouteVerdict,
         OverBudget, DeadEnd, CountAttempt, SetBlocker, FailSpec, EndCheck, EndSet, Sweep,
         Move, Return
<1>1. CASE InsertRun(i) \/ StartSpec(i) \/ Walk(i)
  BY <1>1, InsertRunRows, StartSpecRows, WalkRows
<1> SUFFICES ASSUME ~InsertRun(i), ~StartSpec(i), ~Walk(i) PROVE RowInv'
  BY <1>1
<1>2. RowsKept
  BY DispatchRowsKept
<1>3. CASE RunningRuns' = {}
  BY <1>0, <1>2, <1>3, RowsTaskStep DEF RunningRuns
<1>4. CASE task[i].pc \in NoRows
  <2>1. RunningRuns = {}
    BY <1>4 DEF RowInv, TaskRows
  <2> QED  BY <1>2, <1>3, <2>1 DEF RowsKept, RunningRuns
<1>5. CASE BeginRetry(i) \/ RecordResult(i)
  <2>1. task[i].pc \in HasRow /\ \E st \in {"pass", "fail"} : \E mk :
          FinishRun(task[i].run, st, mk)
    BY <1>5 DEF BeginRetry, RecordResult, HasRow
  <2> QED  BY <1>3, <2>1, OwnRowFinished
<1> SUFFICES ASSUME task[i].pc \notin NoRows, ~BeginRetry(i), ~RecordResult(i) PROVE RowInv'
  BY <1>4, <1>5
<1>6. UNCHANGED spec
  BY DEF DispatchStep, HardError, Claim, Prepare, Pick, Finish, SpawnProc, ProcEnds, Settle,
         Overrule, RouteVerdict, OverBudget, DeadEnd, CountAttempt, SetBlocker, FailSpec,
         EndCheck, EndSet, Sweep, NoRows
<1>7. ASSUME NEW r \in RunIds, run'[r].status = "running"
      PROVE  /\ r \in RunningRuns
             /\ spec'[run[r].spec].status = "running"
             /\ task[i].pc \in HasRow => r = task[i].run
  BY <1>2, <1>6, <1>7 DEF RowsKept, RowInv, RunningRuns, TaskRows
<1>8. ASSUME NEW t, Become(i, t), t.pc \in Unbound PROVE RowInv'
  BY <1>2, <1>7, <1>8, RowsTaskStep
<1>9. ASSUME NEW t, Become(i, t), t.pc \in HasRow, task[i].pc \in HasRow, t.run = task[i].run
      PROVE  RowInv'
  BY <1>2, <1>7, <1>9, RowsTaskStep
<1>10. ASSUME NEW pc \in Unbound, Move(i, pc) PROVE RowInv'
  <2>1. [task[i] EXCEPT !.pc = pc].pc = pc
    BY <1>0 DEF Task
  <2> QED  BY <1>8, <1>10, <2>1 DEF Move
<1>11. CASE Return(i)
  BY <1>8, <1>11 DEF Return, IdleTask, Unbound
<1>12. CASE Claim(i)
  <2>1. ASSUME NEW sec PROVE [task[i] EXCEPT !.pc = "prepare", !.claimedAt = sec].pc = "prepare"
    BY <1>0 DEF Task
  <2> QED  BY <1>8, <1>11, <1>12, <2>1 DEF Claim, Unbound
<1>13. CASE Prepare(i)
  <2>1. ASSUME NEW m PROVE [task[i] EXCEPT !.pc = "pick", !.snap = m].pc = "pick"
    BY <1>0 DEF Task
  <2> QED  BY <1>8, <1>13, <2>1 DEF Prepare, Unbound
<1>14. CASE Pick(i)
  <2>1. ASSUME NEW s PROVE [task[i] EXCEPT !.pc = "start", !.cur = s].pc = "start"
    BY <1>0 DEF Task
  <2> QED  BY <1>8, <1>10, <1>11, <1>14, <2>1 DEF Pick, Unbound
<1>15. CASE HardError(i)
  <2>1. [task[i] EXCEPT !.pc = "endSet", !.end = "failed"].pc = "endSet"
    BY <1>0 DEF Task
  <2> QED  BY <1>8, <1>15, <2>1 DEF HardError, Unbound
<1>16. CASE Finish(i) \/ EndSet(i) \/ Sweep(i)
  BY <1>10, <1>11, <1>16 DEF Finish, EndSet, Sweep, Unbound
<1>17. CASE SpawnProc(i)
  <2>1. /\ [task[i] EXCEPT !.pc = "await"].pc = "await"
        /\ [task[i] EXCEPT !.pc = "await"].run = task[i].run
    BY <1>0 DEF Task
  <2> QED  BY <1>9, <1>17, <2>1 DEF SpawnProc, Move, HasRow
<1>18. CASE ProcEnds(i)
  <2>1. ASSUME NEW v
        PROVE  /\ [task[i] EXCEPT !.pc = "settle", !.verdict = v].pc = "settle"
               /\ [task[i] EXCEPT !.pc = "settle", !.verdict = v].run = task[i].run
    BY <1>0 DEF Task
  <2> QED  BY <1>9, <1>18, <2>1 DEF ProcEnds, HasRow
<1>19. CASE Settle(i)
  <2>1. task[i].pc \in HasRow /\ UNCHANGED run /\ task[i].run \in RunIds
    BY <1>19, HeldRow DEF Settle, HasRow, WithRun
  <2>2. CASE run[task[i].run].status = "running"
    <3>1. ASSUME NEW pc \in {"retry", "record"}
          PROVE  /\ [task[i] EXCEPT !.pc = pc].pc = pc
                 /\ [task[i] EXCEPT !.pc = pc].run = task[i].run
      BY <1>0, <3>1 DEF Task
    <3> QED  BY <1>9, <1>19, <2>1, <2>2, <3>1 DEF Settle, Move, HasRow
  <2>3. CASE run[task[i].run].status # "running"
    <3>1. RunningRuns = {}
      BY <2>1, <2>3 DEF RowInv, TaskRows, RunningRuns
    <3> QED  BY <1>3, <2>1, <3>1 DEF RunningRuns
  <2> QED  BY <2>2, <2>3
<1>20. ~Overrule(i) /\ ~RouteVerdict(i) /\ ~OverBudget(i) /\ ~DeadEnd(i) /\ ~CountAttempt(i)
       /\ ~SetBlocker(i) /\ ~FailSpec(i) /\ ~EndCheck(i)
  BY DEF Overrule, RouteVerdict, OverBudget, DeadEnd, CountAttempt, SetBlocker, FailSpec,
         EndCheck, NoRows
<1> QED  BY <1>12, <1>13, <1>14, <1>15, <1>16, <1>17, <1>18, <1>19, <1>20 DEF DispatchStep

LEMMA ActorStepRows ==
  ASSUME IInv, OrderInv, RowInv, OrderedOps, "skip" \notin Ops, NEW a \in Actors,
         ToolStep(a) \/ SchedulerStep(a) \/ CallStep(a)
  PROVE  RowInv'
<1>1. RowsKept
  BY ActorRowsKept
<1>2. spec' = spec /\ (task' = task \/ SpawnDispatch)
  BY ActorStepShape DEF OrderInv
<1>3. ASSUME NEW r \in RunIds, run'[r].status = "running"
      PROVE  spec'[run[r].spec].status = "running"
  BY <1>1, <1>2, <1>3 DEF RowsKept, RowInv, RunningRuns
<1>4. CASE task' = task
  BY <1>1, <1>3, <1>4, RowsStep
<1>5. CASE SpawnDispatch
  <2>1. PICK i \in Dispatches : Become(i, [task[i] EXCEPT !.pc = "launch"])
    BY <1>5 DEF SpawnDispatch, Move
  <2>2. [task[i] EXCEPT !.pc = "launch"].pc \in Unbound
    BY DEF IInv, GoodTask, Task, Unbound
  <2> QED  BY <1>1, <1>3, <2>1, <2>2, RowsTaskStep
<1> QED  BY <1>2, <1>4, <1>5

\* A restart interrupts the spec whose row was left running, and no other.
LEMMA RestartOrder ==
  ASSUME IInv, OrderInv, RowInv, NEW stopped \in SUBSET RunIds, NEW dropped, Restart(stopped, dropped),
         \A r \in stopped : run[r].status # "absent"
  PROVE  OrderInv' /\ RowInv'
<1>1. RowsKept
  BY RestartRowsKept
<1>2. \A s \in Specs : spec[s].status # "running" => spec'[s] = spec[s]
  BY DEF Restart, Dangling, RowInv
<1>3. \A s \in Specs : spec'[s].status = "running" => spec[s].status = "running"
  BY <1>2
<1>4. /\ loop'.autorun = loop.autorun
      /\ loop'.status = loop.status \/ loop'.status = "paused"
  BY DEF Restart, IInv, LoopRow
<1>5. \A j \in Dispatches : task'[j].pc = "idle" /\ task'[j].cur = 0
  BY DEF Restart, IdleTask
<1>6. SpecsInOrder' /\ CompletedMeansDone'
  BY <1>2, <1>3, <1>4 DEF OrderInv, SpecsInOrder, CompletedMeansDone
<1>7. QuietResets'
  BY <1>4 DEF Restart, OrderInv, QuietResets, IdleCall
<1>8. \A j \in Dispatches : TaskOrder(j)' /\ ~Driving(j)' /\ TaskRows(j)'
  BY <1>5 DEF TaskOrder, Driving, AtSpec, TaskRows, NoRows, HasRow
<1>9. ASSUME NEW r \in RunIds, run'[r].status = "running"
      PROVE  spec'[run[r].spec].status = "running"
  <2>1. spec[run[r].spec].status = "running" /\ run[r].spec \in Specs /\ run[r].status = "running"
    BY <1>1, <1>9 DEF RowsKept, RowInv, RunningRuns, IInv, GoodRow
  <2>2. r \notin stopped
    BY <1>9, FinishedKeeps DEF Restart, IInv, GoodRow
  <2>3. loop.status # "running"
    BY <1>9, <2>1, <2>2, FinishedKeeps DEF Restart, Dangling, IInv, GoodRow, RunningRuns
  <2>4. spec' = [s \in Specs |-> spec[s]]
    BY <2>3 DEF Restart, Dangling
  <2> QED  BY <2>1, <2>4
<1>10. RowInv'
  BY <1>1, <1>8, <1>9, RowsStep
<1> QED  BY <1>6, <1>7, <1>8, <1>10 DEF OrderInv

-----------------------------------------------------------------------------
(* The theorems.                                                           *)

LEMMA InitOrder == Init => Order
<1>1. Init => OrderInv
  BY DEF Init, OrderInv, SpecsInOrder, CompletedMeansDone, QuietResets, IdleCall, Driving,
         TaskOrder, IdleTask, AtSpec
<1>2. Init => RowInv
  BY DEF Init, RowInv, TaskRows, RunningRuns, AbsentRun
<1> QED  BY <1>1, <1>2 DEF Order

LEMMA OrderFrame ==
  ASSUME Order, UNCHANGED <<loop, spec, run, task, call>>,
         daemon'.stopping => daemon.stopping \/ "stop" \in Ops
  PROVE  Order'
<1>1. OrderInv'
  BY DEF Order, OrderInv, SpecsInOrder, CompletedMeansDone, QuietResets, Driving, TaskOrder,
         Cursor, SnapKept, AllDone
<1>2. RowInv => RowInv'
  BY DEF RowInv, TaskRows, RunningRuns, LastRow, IsLast, RunsOf
<1> QED  BY <1>1, <1>2 DEF Order

LEMMA RestartKeepsOrder ==
  ASSUME IInv, Order, OrderedOps, Crash \/ EndStop
  PROVE  "skip" \notin Ops /\ RowInv /\ Order'
<1>1. "skip" \notin Ops
  BY DEF OrderedOps, Crash, EndStop, Order, OrderInv, QuietResets
<1>2. OrderInv /\ RowInv
  BY <1>1 DEF Order
<1>3. PICK stopped \in SUBSET RunIds, dropped \in SUBSET RunIds :
        Restart(stopped, dropped) /\ \A r \in stopped : run[r].status # "absent"
  BY RestartShape
<1>4. OrderInv' /\ RowInv'
  BY <1>2, <1>3, RestartOrder
<1> QED  BY <1>1, <1>2, <1>4 DEF Order

LEMMA NextOrder == ASSUME OrderedOps, IInv, Order, NoOverlap, [Next]_vars PROVE Order'
<1>1. CASE UNCHANGED vars
  BY <1>1, OrderFrame DEF vars
<1>2. ASSUME NEW i \in Dispatches, DispatchStep(i) \/ HardError(i) PROVE Order'
  BY <1>2, DispatchStepOrder, DispatchStepRows DEF Order
<1>3. ASSUME NEW a \in Actors, ToolStep(a) \/ SchedulerStep(a) \/ CallStep(a) PROVE Order'
  BY <1>3, ActorStepOrder, ActorStepRows DEF Order
<1>4. CASE \E r \in RunIds : OrphanEnds(r)
  BY <1>4, OrderFrame DEF OrphanEnds
<1>5. CASE BeginStop
  BY <1>5, OrderFrame DEF BeginStop
<1>6. CASE Crash \/ EndStop
  BY <1>6, RestartKeepsOrder
<1> QED  BY <1>1, <1>2, <1>3, <1>4, <1>5, <1>6 DEF Next, Actors

\* A completed spec is left as it is by every step.
LEMMA NextKeepsCompleted ==
  ASSUME OrderedOps, IInv, Order, [Next]_vars, NEW s \in Specs, spec[s].status = "completed"
  PROVE  spec'[s].status = "completed"
<1>1. CASE UNCHANGED spec
  BY <1>1
<1>2. ASSUME NEW i \in Dispatches, DispatchStep(i) \/ HardError(i) PROVE spec'[s].status = "completed"
  <2>1. CASE StartSpec(i) \/ FailSpec(i)
    <3>1. task[i].pc \in AtSpec /\ task[i].cur \in Specs /\ Cursor(i)
      BY <2>1 DEF StartSpec, FailSpec, AtSpec, IInv, GoodTask, Order, OrderInv, TaskOrder
    <3>2. spec[task[i].cur].status # "completed"
      <4>1. CASE StartSpec(i)
        <5>1. SnapKept(i, task[i].cur) /\ task[i].snap[task[i].cur] \notin DoneStatuses
          BY <3>1, <4>1 DEF StartSpec, Cursor
        <5> QED  BY <5>1 DEF SnapKept, DoneStatuses
      <4>2. CASE FailSpec(i)
        BY <3>1, <4>2 DEF FailSpec, Cursor, InWork, AtSpec
      <4> QED  BY <2>1, <4>1, <4>2
    <3> QED  BY <2>1, <3>1, <3>2 DEF StartSpec, FailSpec, SetSpecStatus, IInv
  <2>2. CASE RouteVerdict(i)
    <3>1. UNCHANGED spec \/ SetSpecStatus(task[i].cur, "completed")
      BY <2>2 DEF RouteVerdict
    <3> QED  BY <3>1 DEF SetSpecStatus, IInv, SpecRow
  <2>3. CASE CountAttempt(i)
    BY <2>3 DEF CountAttempt, IInv, SpecRow
  <2>4. CASE UNCHANGED spec
    BY <2>4
  <2> QED  BY <1>2, <2>1, <2>2, <2>3, <2>4
           DEF DispatchStep, HardError, Claim, Prepare, Pick, Finish, Walk, InsertRun, SpawnProc,
               ProcEnds, Settle, BeginRetry, RecordResult, Overrule, OverBudget, DeadEnd,
               SetBlocker, EndCheck, EndSet, Sweep
<1>3. ASSUME NEW a \in Actors, ToolStep(a) \/ SchedulerStep(a) \/ CallStep(a)
      PROVE  spec'[s].status = "completed"
  <2>1. \/ spec' = spec
        \/ \E u \in Specs : spec[u].status = "running" /\ SetSpecStatus(u, "skipped")
    BY <1>3, ActorStepShape DEF Order, OrderInv
  <2> QED  BY <2>1 DEF SetSpecStatus, IInv
<1>4. CASE Crash \/ EndStop
  <2> QED  BY <1>4, RestartShape, RestartKeepsOrder DEF Restart, Dangling, RowInv
<1>5. CASE (\E r \in RunIds : OrphanEnds(r)) \/ BeginStop
  BY <1>1, <1>5 DEF OrphanEnds, BeginStop
<1> QED  BY <1>1, <1>2, <1>3, <1>4, <1>5 DEF Next, Actors, vars

\* With one driver at a time, nothing that is not a reset breaks the order.
LEMMA OrderHolds == ASSUME OrderedOps PROVE Spec /\ []NoOverlap => []Order
<1>1. IInv /\ Order /\ NoOverlap /\ [Next]_vars => Order'
  BY NextOrder
<1> QED  BY IInvHolds, InitOrder, <1>1, PTL DEF Spec

\* Pauses, continues, skips, reports, hard errors and launches of every kind, or
\* restarts instead of skips: as long as one dispatch drives at a time, a spec
\* runs only after every earlier one is completed or skipped.
THEOREM SpecsRunInOrder ==
  ASSUME OrderedOps PROVE Spec /\ []NoOverlap => []SpecsInOrder
<1>1. Order => SpecsInOrder
  BY DEF Order, OrderInv
<1> QED  BY OrderHolds, <1>1, PTL

\* Nor is the loop marked completed over a spec that still has work.
THEOREM CompletedIsDone ==
  ASSUME OrderedOps PROVE Spec /\ []NoOverlap => []CompletedMeansDone
<1>1. Order => CompletedMeansDone
  BY DEF Order, OrderInv
<1> QED  BY OrderHolds, <1>1, PTL

\* Nor is a completed spec ever taken up, failed, skipped or interrupted.
THEOREM CompletedForGood ==
  ASSUME OrderedOps PROVE Spec /\ []NoOverlap => CompletedStays
<1>1. IInv /\ Order /\ [Next]_vars
      => [\A s \in Specs : spec[s].status = "completed" => spec'[s].status = "completed"]_vars
  BY NextKeepsCompleted
<1> QED  BY IInvHolds, OrderHolds, <1>1, PTL DEF Spec, CompletedStays

\* Without pauses and resets the claim is what keeps the drivers apart, and the
\* order needs no hypothesis about them: launches race, dispatches fail, the
\* daemon stops and restarts, and the specs run in order and once.
THEOREM LaunchesKeepOrder ==
  ASSUME Ops \subseteq LaunchOps
  PROVE  Spec => [](SpecsInOrder /\ CompletedMeansDone) /\ CompletedStays
<1>1. OrderedOps
  BY DEF OrderedOps, LaunchOps
<1>2. SingleDriver => NoOverlap
  BY DEF SingleDriver, NoOverlap
<1> QED  BY OneDriver, SpecsRunInOrder, CompletedIsDone, CompletedForGood, <1>1, <1>2, PTL

=============================================================================
