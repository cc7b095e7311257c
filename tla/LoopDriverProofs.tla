-------------------------- MODULE LoopDriverProofs --------------------------
(***************************************************************************)
(* One dispatch at a time: under any number of concurrent launches, cron   *)
(* ticks, self-reports, hard errors and restarts, the claim alone keeps a  *)
(* second dispatch out.  The operations left out are the ones that change  *)
(* the loop's status under a live dispatch: a pause (loop_pause, a         *)
(* reported blocker) and a reset (loop_reset, autorun of a failed loop).   *)
(***************************************************************************)
EXTENDS LoopDispatchProofs

LaunchOps == {"loop_run", "cron", "complete_node", "hard_error", "crash", "stop"}

\* With LaunchOps no call is ever under way but a self-report of a verdict,
\* and nothing schedules an autorun.
QuietCalls ==
    /\ \A a \in Actors : /\ call[a].step \in {"idle", "report"}
                         /\ call[a].step = "report" => call[a].arg \in Verdicts
    /\ ~loop.autorun

DriverInv == SingleDriver /\ QuietCalls

NotDriving == {"idle", "launch", "sweep"}

\* A step of a task that drives, or that does not come to drive, keeps the
\* invariant if it leaves the status alone.
LEMMA DriverStep ==
  ASSUME IInv, DriverInv, NEW i \in Dispatches, NEW t, Become(i, t),
         loop' = loop, call' = call,
         Driving(i) \/ t.pc \in NotDriving
  PROVE  DriverInv'
<1>1. task'[i] = t /\ \A j \in Dispatches \ {i} : task'[j] = task[j]
  BY BecomeFrame
<1>2. ASSUME NEW j \in Dispatches, Driving(j)' PROVE Driving(j) \/ (j = i /\ Driving(i))
  BY <1>1, <1>2 DEF Driving, NotDriving
<1>3. SingleDriver'
  BY <1>2 DEF DriverInv, SingleDriver
<1> QED  BY <1>3 DEF DriverInv, QuietCalls

\* So does the step by which the one driver leaves, whatever status it sets.
LEMMA DriverLeaves ==
  ASSUME IInv, DriverInv, NEW i \in Dispatches, NEW t, Become(i, t), Driving(i),
         t.pc \in NotDriving, loop'.autorun = loop.autorun, call' = call
  PROVE  DriverInv'
<1>1. task'[i] = t /\ \A j \in Dispatches \ {i} : task'[j] = task[j]
  BY BecomeFrame
<1>2. \A j \in Dispatches : ~Driving(j)'
  BY <1>1 DEF DriverInv, SingleDriver, Driving, NotDriving
<1> QED  BY <1>2 DEF DriverInv, SingleDriver, QuietCalls

LEMMA ClaimDriver == ASSUME IInv, DriverInv, NEW i \in Dispatches, Claim(i) PROVE DriverInv'
<1>1. CASE loop.status = "running"
  BY <1>1, DriverStep DEF Claim, Return, IdleTask, NotDriving
<1>2. CASE loop.status # "running"
  <2>1. PICK t : Become(i, t)
    BY <1>2 DEF Claim
  <2>2. task'[i] = t /\ \A j \in Dispatches \ {i} : task'[j] = task[j]
    BY <2>1, BecomeFrame
  <2>3. \A j \in Dispatches \ {i} : ~Driving(j)'
    BY <1>2, <2>2 DEF DriverInv, SingleDriver, Driving
  <2>4. loop'.status = "running" /\ loop'.autorun = loop.autorun /\ call' = call
    BY <1>2 DEF Claim, IInv, LoopRow
  <2> QED  BY <2>3, <2>4 DEF DriverInv, SingleDriver, QuietCalls
<1> QED  BY <1>1, <1>2

LEMMA DispatchStepDriver ==
  ASSUME IInv, DriverInv, NEW i \in Dispatches, DispatchStep(i) \/ HardError(i)
  PROVE  DriverInv'
<1>1. CASE Claim(i)
  BY <1>1, ClaimDriver
<1>2. CASE Finish(i)
  <2>1. Driving(i) /\ Become(i, IdleTask) /\ IdleTask.pc \in NotDriving /\ call' = call
    BY <1>2 DEF Finish, Driving, Return, IdleTask, NotDriving
  <2>2. loop'.autorun = loop.autorun
    BY <1>2 DEF Finish, SetLoopStatus, IInv, LoopRow
  <2> QED  BY <2>1, <2>2, DriverLeaves
<1>3. CASE EndSet(i)
  <2>1. task[i] \in Task
    BY DEF IInv, GoodTask
  <2>2. Driving(i) /\ call' = call /\ Become(i, [task[i] EXCEPT !.pc = "sweep"])
    BY <1>3 DEF EndSet, Driving, Move
  <2>3. [task[i] EXCEPT !.pc = "sweep"].pc \in NotDriving
    BY <2>1 DEF Task, NotDriving
  <2>4. loop'.autorun = loop.autorun
    BY <1>3 DEF EndSet, SetLoopStatus, IInv, LoopRow
  <2> QED  BY <2>2, <2>3, <2>4, DriverLeaves
<1>4. CASE Sweep(i)
  BY <1>4, DriverStep DEF Sweep, Return, IdleTask, NotDriving
<1>5. CASE ~Claim(i) /\ ~Finish(i) /\ ~EndSet(i) /\ ~Sweep(i)
  <2>1. Driving(i) /\ loop' = loop /\ call' = call
    BY <1>5 DEF DispatchStep, HardError, Prepare, Pick, StartSpec, Walk, InsertRun, SpawnProc,
                ProcEnds, Settle, BeginRetry, RecordResult, Overrule, RouteVerdict, OverBudget,
                DeadEnd, CountAttempt, SetBlocker, FailSpec, EndCheck, Driving
  <2>2. \E t : Become(i, t)
    BY <1>5 DEF DispatchStep, HardError, Prepare, Pick, StartSpec, Walk, InsertRun, SpawnProc,
                ProcEnds, Settle, BeginRetry, RecordResult, Overrule, RouteVerdict, OverBudget,
                DeadEnd, CountAttempt, SetBlocker, FailSpec, EndCheck, Move, Return
  <2> QED  BY <2>1, <2>2, DriverStep
<1> QED  BY <1>1, <1>2, <1>3, <1>4, <1>5

LEMMA SpawnDriver ==
  ASSUME IInv, DriverInv, SpawnDispatch, loop' = loop, call' = call
  PROVE  DriverInv'
<1>1. PICK i \in Dispatches : Become(i, [task[i] EXCEPT !.pc = "launch"])
  BY DEF SpawnDispatch, Move
<1>2. task[i] \in Task
  BY DEF IInv, GoodTask
<1>3. [task[i] EXCEPT !.pc = "launch"].pc \in NotDriving
  BY <1>2 DEF Task, NotDriving
<1> QED  BY <1>1, <1>3, DriverStep

LEMMA ActorStepDriver ==
  ASSUME IInv, DriverInv, Ops \subseteq LaunchOps, NEW a \in Actors,
         ToolStep(a) \/ SchedulerStep(a) \/ CallStep(a)
  PROVE  DriverInv'
<1>1. CASE LoopRun(a) \/ CronFire(a)
  BY <1>1, SpawnDriver DEF LoopRun, CronFire
<1>2. CASE Report(a) \/ ReportWrite(a)
  <2>1. UNCHANGED <<loop, task>>
    BY <1>2 DEF Report, ReportWrite
  <2>2. PICK c : Begin(a, c) /\ (c.step = "idle" \/ (c.step = "report" /\ c.arg \in Verdicts))
    <3>1. CASE Report(a)
      <4>1. PICK r \in RunningRuns, kind \in Reports :
              Begin(a, [IdleCall EXCEPT
                !.step = "report", !.run = r,
                !.arg = IF kind = "report_blocker" THEN "blocker" ELSE kind])
        BY <3>1 DEF Report
      <4>2. kind \in Verdicts /\ kind # "report_blocker"
        BY DEF Reports, LaunchOps, Verdicts
      <4>3. Begin(a, [IdleCall EXCEPT !.step = "report", !.run = r, !.arg = kind])
        BY <4>1, <4>2
      <4>4. IdleCall \in Call
        BY IdleCallGood DEF GoodCall
      <4>5. /\ [IdleCall EXCEPT !.step = "report", !.run = r, !.arg = kind].step = "report"
            /\ [IdleCall EXCEPT !.step = "report", !.run = r, !.arg = kind].arg = kind
        BY <4>4 DEF Call
      <4> QED  BY <4>2, <4>3, <4>5
    <3>2. CASE ReportWrite(a)
      <4>1. call[a].arg # "blocker"
        BY <3>2 DEF ReportWrite, DriverInv, QuietCalls, Verdicts
      <4>2. Begin(a, IdleCall)
        BY <3>2, <4>1 DEF ReportWrite, Hang
      <4>3. IdleCall.step = "idle"
        BY DEF IdleCall
      <4> WITNESS IdleCall
      <4> QED  BY <4>2, <4>3
    <3> QED  BY <1>2, <3>1, <3>2
  <2>3. call'[a] = c /\ \A b \in Actors \ {a} : call'[b] = call[b]
    BY <2>2 DEF Begin, IInv
  <2> QED  BY <2>1, <2>2, <2>3 DEF DriverInv, SingleDriver, Driving, QuietCalls
<1>3. LoopRun(a) \/ CronFire(a) \/ Report(a) \/ ReportWrite(a)
  <2>1. call[a].step \in {"idle", "report"} /\ ~loop.autorun
    BY DEF DriverInv, QuietCalls
  <2> QED  BY <2>1 DEF ToolStep, SchedulerStep, CallStep, LoopPause, LoopContinue, LoopReset,
                       ScheduleAutorun, AutorunList, IsAutorunDue, PauseSet, PauseSweep,
                       ContinueApply, ResetApply, BlockPause, AutorunFire, AutoReset,
                       LaunchOps
<1> QED  BY <1>1, <1>2, <1>3

LEMMA RestartDriver == ASSUME IInv, DriverInv, NEW R, NEW D, Restart(R, D) PROVE DriverInv'
<1>1. /\ \A i \in Dispatches : task'[i].pc = "idle"
      /\ \A a \in Actors : call'[a].step = "idle"
  BY DEF Restart, IdleTask, IdleCall
<1>2. loop'.autorun = loop.autorun
  BY DEF Restart, IInv, LoopRow
<1> QED  BY <1>1, <1>2 DEF DriverInv, SingleDriver, QuietCalls, Driving

LEMMA DriverInvHolds == ASSUME Ops \subseteq LaunchOps PROVE Spec => []DriverInv
<1>1. Init => DriverInv
  BY DEF Init, DriverInv, SingleDriver, QuietCalls, Driving, IdleTask, IdleCall
<1>2. DriverInv /\ UNCHANGED vars => DriverInv'
  BY DEF vars, DriverInv, SingleDriver, QuietCalls, Driving
<1>3. IInv /\ DriverInv /\ Next => DriverInv'
  <2> SUFFICES ASSUME IInv, DriverInv, Next PROVE DriverInv'
    OBVIOUS
  <2>1. CASE \E r \in RunIds : OrphanEnds(r)
    BY <2>1 DEF OrphanEnds, DriverInv, SingleDriver, QuietCalls, Driving
  <2>2. CASE Crash \/ EndStop
    BY <2>2, RestartShape, RestartDriver
  <2>3. CASE BeginStop
    BY <2>3 DEF BeginStop, DriverInv, SingleDriver, QuietCalls, Driving
  <2> QED  BY <2>1, <2>2, <2>3, DispatchStepDriver, ActorStepDriver DEF Next, Actors
<1> QED  BY IInvHolds, <1>1, <1>2, <1>3, PTL DEF Spec

\* Launches of every kind race, dispatches fail, the daemon stops and restarts: at
\* most one dispatch drives the loop, and the loop is running while it does.
THEOREM OneDriver == ASSUME Ops \subseteq LaunchOps PROVE Spec => []SingleDriver
<1>1. DriverInv => SingleDriver
  BY DEF DriverInv
<1> QED  BY DriverInvHolds, <1>1, PTL

-----------------------------------------------------------------------------
(* One process at a time: what is alive is awaited, or a stray of a crash. *)

\* A running row of a live child has its pid, so a restart that finds the row
\* running signals the child; and it marks "interrupted" no row of a live one.
ProcessInv ==
    /\ \A r \in RunIds : proc[r] = "alive" =>
         /\ r \in Awaited \/ Stray(r)
         /\ run[r].status = "running" => run[r].pid
         /\ run[r].marker # "interrupted"
    /\ \A i \in Dispatches : task[i].pc = "spawn" => run[task[i].run].marker # "interrupted"

\* How rows change while the daemon is up.
RowStep ==
    \A r \in RunIds :
        /\ run'[r].marker = "interrupted" => run[r].marker = "interrupted"
        /\ run[r].status \in Verdicts => run'[r].status \in Verdicts
        /\ run'[r].status = "running" =>
             \/ run[r].status = "absent"
             \/ run[r].status = "running" /\ (run[r].pid => run'[r].pid)

LEMMA FinishRowStep ==
  ASSUME IInv, NEW q \in RunIds, NEW st \in Verdicts, NEW mk \in Markers \ {"interrupted"},
         FinishRun(q, st, mk)
  PROVE  RowStep
<1>1. \A r \in RunIds : run[r] \in RunRow
  BY DEF IInv, GoodRow
<1>2. /\ Finished(run[q], st, mk).status = st
      /\ Finished(run[q], st, mk).marker = mk
  BY <1>1 DEF Finished, RunRow
<1>3. run'[q] = Finished(run[q], st, mk) /\ \A r \in RunIds \ {q} : run'[r] = run[r]
  BY DEF FinishRun, IInv
<1> QED  BY <1>2, <1>3 DEF RowStep, Verdicts

LEMMA TerminateRowStep == ASSUME IInv, NEW R, Terminate(R) PROVE RowStep
<1>1. \A r \in RunIds : run[r] \in RunRow
  BY DEF IInv, GoodRow
<1>2. \A r \in RunIds : run'[r] = IF r \in R THEN Finished(run[r], "fail", "terminated")
                                             ELSE run[r]
  BY DEF Terminate
<1>3. \A r \in RunIds : /\ Finished(run[r], "fail", "terminated").status = "fail"
                        /\ Finished(run[r], "fail", "terminated").marker = "terminated"
  BY <1>1 DEF Finished, RunRow
<1> QED  BY <1>2, <1>3 DEF RowStep, Verdicts

LEMMA DispatchRowStep ==
  ASSUME IInv, NEW i \in Dispatches, DispatchStep(i) \/ HardError(i)
  PROVE  RowStep
<1>1. CASE UNCHANGED run
  BY <1>1 DEF RowStep
<1>2. CASE \E R : Terminate(R)
  BY <1>2, TerminateRowStep
<1>3. CASE SpawnProc(i)
  BY <1>3 DEF SpawnProc, IInv, GoodRow, RunRow, RowStep
<1>4. CASE InsertRun(i)
  <2>1. PICK r \in RunIds : InsertRow(r, task[i].node, task[i].cur, task[i].visits[task[i].node])
    BY <1>4 DEF InsertRun
  <2> DEFINE row == [status |-> "running", node |-> task[i].node, spec |-> task[i].cur,
                     iter |-> task[i].visits[task[i].node], marker |-> "none", pid |-> FALSE]
  <2>2. run'[r] = row /\ run[r].status = "absent" /\ \A q \in RunIds \ {r} : run'[q] = run[q]
    BY <2>1 DEF InsertRow, IInv
  <2>3. row.marker = "none" /\ row.status = "running"
    OBVIOUS
  <2> HIDE DEF row
  <2> QED  BY <2>2, <2>3 DEF RowStep, Verdicts
<1>5. CASE ProcEnds(i) \/ BeginRetry(i) \/ RecordResult(i) \/ Overrule(i) \/ DeadEnd(i)
  <2>1. task[i].run \in RunIds
    BY <1>5, HeldRow DEF ProcEnds, BeginRetry, RecordResult, Overrule, DeadEnd, WithRun
  <2>2. UNCHANGED run \/ \E st \in Verdicts, mk \in Markers \ {"interrupted"} :
                           FinishRun(task[i].run, st, mk)
    BY <1>5 DEF ProcEnds, BeginRetry, RecordResult, Overrule, DeadEnd, Markers, Verdicts
  <2> QED  BY <1>1, <2>1, <2>2, FinishRowStep
<1>6. CASE SetBlocker(i)
  <2>1. PICK r \in RunsOf(task[i].cur), st \in Verdicts : FinishRun(r, st, "blocker")
    BY <1>6 DEF SetBlocker, Verdicts
  <2> QED  BY <2>1, FinishRowStep DEF RunsOf, Markers
<1>7. CASE Walk(i) \/ OverBudget(i) \/ Sweep(i)
  <2>1. UNCHANGED run \/ \E R : Terminate(R)
    BY <1>7 DEF Walk, OverBudget, Sweep
  <2> QED  BY <1>1, <1>2, <2>1
<1> QED  BY <1>1, <1>3, <1>4, <1>5, <1>6, <1>7
         DEF DispatchStep, HardError, Claim, Prepare, Pick, Finish, StartSpec, Settle,
             RouteVerdict, CountAttempt, FailSpec, EndCheck, EndSet

LEMMA ActorRowStep ==
  ASSUME IInv, NEW a \in Actors, ToolStep(a) \/ SchedulerStep(a) \/ CallStep(a)
  PROVE  RowStep
<1>1. CASE PauseSweep(a)
  BY <1>1, TerminateRowStep DEF PauseSweep
<1>2. CASE ReportWrite(a)
  <2>1. call[a].run \in RunIds /\ call[a].arg \in Verdicts \cup {"blocker"}
    BY <1>2 DEF ReportWrite, IInv, GoodCall
  <2>2. \E st \in Verdicts, mk \in Markers \ {"interrupted"} : FinishRun(call[a].run, st, mk)
    BY <1>2, <2>1 DEF ReportWrite, Verdicts, Markers
  <2> QED  BY <2>1, <2>2, FinishRowStep
<1>3. CASE UNCHANGED run
  BY <1>3 DEF RowStep
<1> QED  BY <1>1, <1>2, <1>3
         DEF ToolStep, SchedulerStep, CallStep, LoopRun, LoopPause, LoopContinue, LoopReset,
             Report, ScheduleAutorun, CronFire, AutorunList, PauseSet, ContinueApply,
             ResetApply, BlockPause, AutorunFire, AutoReset

\* A step keeps ProcessInv if no child comes to life by it, none that stays alive
\* loses the task that awaits it, and a task that comes to spawn has a new row.
LEMMA ProcessFrame ==
  ASSUME IInv, ProcessInv, RowStep, daemon'.restarts = daemon.restarts,
         \A r \in RunIds : proc'[r] = "alive" => proc[r] = "alive",
         \A r \in Awaited : proc'[r] = "alive" => r \in Awaited',
         \A i \in Dispatches : task'[i].pc = "spawn" =>
           \/ task[i].pc = "spawn" /\ task'[i].run = task[i].run
           \/ run'[task'[i].run].marker = "none"
  PROVE  ProcessInv'
<1>1. ASSUME NEW r \in RunIds, proc'[r] = "alive"
      PROVE  /\ r \in Awaited' \/ Stray(r)'
             /\ run'[r].status = "running" => run'[r].pid
             /\ run'[r].marker # "interrupted"
  <2>1. /\ r \in Awaited \/ Stray(r)
        /\ run[r].status = "running" => run[r].pid
        /\ run[r].marker # "interrupted"
    BY <1>1 DEF ProcessInv
  <2>2. run'[r].marker # "interrupted"
    BY <2>1 DEF RowStep
  <2>3. r \in Awaited' \/ Stray(r)'
    BY <1>1, <2>1, <2>2 DEF Stray, RowStep
  <2>4. run[r].status # "absent"
    <3>1. ASSUME NEW i \in Dispatches, task[i].pc = "await", task[i].run = r
          PROVE  run[r].status # "absent"
      BY <3>1 DEF IInv, TaskRunExists, WithRun
    <3> QED  BY <2>1, <3>1 DEF Awaited, Stray, Verdicts
  <2> QED  BY <2>1, <2>2, <2>3, <2>4 DEF RowStep
<1>2. ASSUME NEW i \in Dispatches, task'[i].pc = "spawn"
      PROVE  run'[task'[i].run].marker # "interrupted"
  <2>1. task[i].pc = "spawn" => task[i].run \in RunIds
    BY HeldRow DEF WithRun
  <2> QED  BY <1>2, <2>1 DEF ProcessInv, RowStep
<1> QED  BY <1>1, <1>2 DEF ProcessInv

LEMMA DispatchProcess ==
  ASSUME IInv, ProcessInv, NEW i \in Dispatches, DispatchStep(i) \/ HardError(i)
  PROVE  ProcessInv'
<1>1. RowStep
  BY DispatchRowStep
<1>2. daemon' = daemon
  BY DEF DispatchStep, HardError, Claim, Prepare, Pick, Finish, StartSpec, Walk, InsertRun,
         SpawnProc, ProcEnds, Settle, BeginRetry, RecordResult, Overrule, RouteVerdict,
         OverBudget, DeadEnd, CountAttempt, SetBlocker, FailSpec, EndCheck, EndSet, Sweep
<1>3. PICK t : Become(i, t)
  BY DEF DispatchStep, HardError, Claim, Prepare, Pick, Finish, StartSpec, Walk, InsertRun,
         SpawnProc, ProcEnds, Settle, BeginRetry, RecordResult, Overrule, RouteVerdict,
         OverBudget, DeadEnd, CountAttempt, SetBlocker, FailSpec, EndCheck, EndSet, Sweep,
         Move, Return
<1>4. task'[i] = t /\ \A j \in Dispatches \ {i} : task'[j] = task[j]
  BY <1>3, BecomeFrame
<1>5. CASE SpawnProc(i)
  <2> DEFINE q == task[i].run
  <2>1. q \in RunIds /\ task[i] \in Task /\ task[i].pc = "spawn"
    BY <1>5, HeldRow DEF SpawnProc, WithRun, GoodTask
  <2>2. task' = [task EXCEPT ![i] = [task[i] EXCEPT !.pc = "await"]]
    BY <1>5 DEF SpawnProc, Move, Become
  <2>3. task'[i].pc = "await" /\ task'[i].run = q
    BY <2>1, <2>2 DEF IInv, Task
  <2>4. /\ \A r \in RunIds \ {q} : proc'[r] = proc[r] /\ run'[r] = run[r]
        /\ run'[q].pid /\ run'[q].marker = run[q].marker
    BY <1>5, <2>1 DEF SpawnProc, IInv, GoodRow, RunRow
  <2>5. q \in Awaited' /\ \A r \in Awaited : r \in Awaited'
    BY <1>4, <2>1, <2>3 DEF Awaited
  <2>6. ASSUME NEW r \in RunIds, proc'[r] = "alive"
        PROVE  /\ r \in Awaited' \/ Stray(r)'
               /\ run'[r].status = "running" => run'[r].pid
               /\ run'[r].marker # "interrupted"
    <3>1. CASE r = q
      BY <2>1, <2>4, <2>5, <3>1 DEF ProcessInv
    <3>2. CASE r # q
      BY <1>2, <2>4, <2>5, <2>6, <3>2 DEF ProcessInv, Stray
    <3> QED  BY <3>1, <3>2
  <2>7. ASSUME NEW j \in Dispatches, task'[j].pc = "spawn"
        PROVE  run'[task'[j].run].marker # "interrupted"
    <3>1. task'[j] = task[j]
      BY <1>4, <2>3, <2>7
    <3>2. task[j].run \in RunIds
      BY <2>7, <3>1, HeldRow DEF WithRun
    <3> QED  BY <1>1, <2>7, <3>1, <3>2 DEF ProcessInv, RowStep
  <2> QED  BY <2>6, <2>7 DEF ProcessInv
<1>6. CASE InsertRun(i)
  <2>1. PICK r \in RunIds : /\ InsertRow(r, task[i].node, task[i].cur,
                                         task[i].visits[task[i].node])
                            /\ Become(i, [task[i] EXCEPT !.pc = "spawn", !.run = r])
    BY <1>6 DEF InsertRun
  <2> DEFINE row == [status |-> "running", node |-> task[i].node, spec |-> task[i].cur,
                     iter |-> task[i].visits[task[i].node], marker |-> "none", pid |-> FALSE]
  <2>2. run'[r] = row
    BY <2>1 DEF InsertRow, IInv
  <2>3. row.marker = "none"
    OBVIOUS
  <2>4. task[i] \in Task
    BY DEF IInv, GoodTask
  <2>5. task'[i].run = r
    BY <2>1, <2>4 DEF Become, IInv, Task
  <2>6. run'[task'[i].run].marker = "none"
    BY <2>2, <2>3, <2>5
  <2>7. task[i].pc # "await" /\ proc' = proc
    BY <1>6 DEF InsertRun
  <2>8. \A r2 \in Awaited : r2 \in Awaited'
    BY <1>4, <2>7 DEF Awaited
  <2>9. \A j \in Dispatches : task'[j].pc = "spawn" =>
           \/ task[j].pc = "spawn" /\ task'[j].run = task[j].run
           \/ run'[task'[j].run].marker = "none"
    BY <1>4, <2>6
  <2> QED  BY <1>1, <1>2, <2>7, <2>8, <2>9, ProcessFrame
<1>7. CASE ProcEnds(i)
  <2>1. task[i].run \in RunIds /\ task[i] \in Task
    BY <1>7, HeldRow DEF ProcEnds, WithRun, GoodTask
  <2>2. /\ proc'[task[i].run] # "alive"
        /\ \A r \in RunIds : r # task[i].run => proc'[r] = proc[r]
    BY <1>7, <2>1 DEF ProcEnds, IInv
  <2>3. task'[i].pc = "settle"
    BY <1>7, <2>1 DEF ProcEnds, Become, IInv, Task
  <2>4. \A r \in Awaited : proc'[r] = "alive" => r \in Awaited'
    BY <1>4, <2>2 DEF Awaited
  <2>5. \A j \in Dispatches : task'[j].pc = "spawn" =>
           task[j].pc = "spawn" /\ task'[j].run = task[j].run
    BY <1>4, <2>3
  <2>6. \A r \in RunIds : proc'[r] = "alive" => proc[r] = "alive"
    BY <2>2
  <2> QED  BY <1>1, <1>2, <2>4, <2>5, <2>6, ProcessFrame
<1>8. CASE ~SpawnProc(i) /\ ~InsertRun(i) /\ ~ProcEnds(i)
  <2>1. task[i].pc # "await"
    BY <1>8 DEF DispatchStep, HardError, Claim, Prepare, Pick, Finish, StartSpec, Walk,
                Settle, BeginRetry, RecordResult, Overrule, RouteVerdict, OverBudget,
                DeadEnd, CountAttempt, SetBlocker, FailSpec, EndCheck, EndSet, Sweep
  <2>2. task'[i].pc # "spawn"
    <3>1. task[i] \in Task /\ IdleTask.pc = "idle"
      BY DEF IInv, GoodTask, IdleTask
    <3>2. \A u : Become(i, u) => task'[i] = u
      BY BecomeFrame
    <3>3. CASE Claim(i) \/ Prepare(i) \/ Pick(i) \/ Finish(i) \/ StartSpec(i) \/ HardError(i)
      BY <3>1, <3>2, <3>3 DEF Claim, Prepare, Pick, Finish, StartSpec, HardError, Move, Return,
                              Task
    <3>4. CASE Walk(i)
      <4> DEFINE pc == IF WithinBudget(i) THEN "insert" ELSE "overBudget"
      <4>1. task'[i] = IdleTask
              \/ task'[i] = [task[i] EXCEPT !.visits = Visited(i), !.retry = 0, !.pc = pc]
        BY <3>2, <3>4 DEF Walk, Return
      <4>2. pc # "spawn"
        OBVIOUS
      <4> HIDE DEF pc
      <4> QED  BY <3>1, <4>1, <4>2 DEF Task
    <3>5. CASE Settle(i) \/ BeginRetry(i) \/ RecordResult(i) \/ Overrule(i) \/ RouteVerdict(i)
      BY <3>1, <3>2, <3>5 DEF Settle, BeginRetry, RecordResult, Overrule, RouteVerdict, Move,
                              Return, Task
    <3>6. CASE OverBudget(i) \/ DeadEnd(i) \/ CountAttempt(i) \/ SetBlocker(i)
      BY <3>1, <3>2, <3>6 DEF OverBudget, DeadEnd, CountAttempt, SetBlocker, Move, Task
    <3>7. CASE FailSpec(i) \/ EndCheck(i) \/ EndSet(i) \/ Sweep(i)
      BY <3>1, <3>2, <3>7 DEF FailSpec, EndCheck, EndSet, Sweep, Move, Return, Task
    <3> QED  BY <1>8, <3>3, <3>4, <3>5, <3>6, <3>7 DEF DispatchStep
  <2>3. UNCHANGED proc \/ \E R : Terminate(R)
    BY <1>8 DEF DispatchStep, HardError, Claim, Prepare, Pick, Finish, StartSpec, Walk,
                Settle, BeginRetry, RecordResult, Overrule, RouteVerdict, OverBudget,
                DeadEnd, CountAttempt, SetBlocker, FailSpec, EndCheck, EndSet, Sweep
  <2>4. \A r \in RunIds : proc'[r] = "alive" => proc[r] = "alive"
    BY <2>3, TerminateKills
  <2>5. \A r \in Awaited : r \in Awaited'
    BY <1>4, <2>1 DEF Awaited
  <2>6. \A j \in Dispatches : task'[j].pc = "spawn" =>
           task[j].pc = "spawn" /\ task'[j].run = task[j].run
    BY <1>4, <2>2
  <2> QED  BY <1>1, <1>2, <2>4, <2>5, <2>6, ProcessFrame
<1> QED  BY <1>5, <1>6, <1>7, <1>8

LEMMA ActorProcess ==
  ASSUME IInv, ProcessInv, NEW a \in Actors, ToolStep(a) \/ SchedulerStep(a) \/ CallStep(a)
  PROVE  ProcessInv'
<1>1. (UNCHANGED task \/ SpawnDispatch) /\ daemon' = daemon
  BY DEF ToolStep, SchedulerStep, CallStep, LoopRun, LoopPause, LoopContinue, LoopReset, Report,
         ScheduleAutorun, CronFire, AutorunList, PauseSet, PauseSweep, ContinueApply,
         ResetApply, ReportWrite, BlockPause, AutorunFire, AutoReset
<1>2. UNCHANGED proc \/ \E R : Terminate(R)
  BY DEF ToolStep, SchedulerStep, CallStep, LoopRun, LoopPause, LoopContinue, LoopReset, Report,
         ScheduleAutorun, CronFire, AutorunList, PauseSet, PauseSweep, ContinueApply,
         ResetApply, ReportWrite, BlockPause, AutorunFire, AutoReset
<1>3. \A r \in RunIds : proc'[r] = "alive" => proc[r] = "alive"
  BY <1>2, TerminateKills
<1>4. \A j \in Dispatches : \/ task'[j] = task[j]
                            \/ task[j].pc = "idle" /\ task'[j].pc = "launch"
  <2>1. ASSUME NEW i \in Dispatches, task[i].pc = "idle", Move(i, "launch"),
               NEW j \in Dispatches
        PROVE  task'[j] = task[j] \/ (task[j].pc = "idle" /\ task'[j].pc = "launch")
    <3>1. task[i] \in Task
      BY DEF IInv, GoodTask
    <3> QED  BY <2>1, <3>1 DEF Move, Become, IInv, Task
  <2> QED  BY <1>1, <2>1 DEF SpawnDispatch
<1>5. \A r \in Awaited : r \in Awaited'
  BY <1>4 DEF Awaited
<1>6. \A j \in Dispatches : task'[j].pc = "spawn" =>
         task[j].pc = "spawn" /\ task'[j].run = task[j].run
  BY <1>4
<1> QED  BY <1>1, <1>3, <1>5, <1>6, ActorRowStep, ProcessFrame

\* What a crash leaves alive was awaited with its row ended, or astray before;
\* what a graceful stop leaves alive was astray before.
LEMMA RestartProcess ==
  ASSUME IInv, SingleDriver, ProcessInv, Crash \/ EndStop
  PROVE  ProcessInv'
<1>1. PICK stopped \in SUBSET RunIds, dropped \in SUBSET RunIds :
        /\ Restart(stopped, dropped)
        /\ stopped = {} \/ dropped = Awaited
        /\ \A r \in stopped : run[r].status # "absent"
  <2>1. CASE Crash
    <3>1. Restart({}, {})
      BY <2>1 DEF Crash
    <3> QED  BY <3>1
  <2>2. CASE EndStop
    <3>1. /\ daemon.listed \in SUBSET RunIds /\ Awaited \in SUBSET RunIds
          /\ \A r \in daemon.listed : run[r].status # "absent"
      BY DEF IInv, DaemonState, StoppedExist, Awaited
    <3>2. Restart(daemon.listed, Awaited)
      BY <2>2 DEF EndStop
    <3> QED  BY <3>1, <3>2
  <2> QED  BY <2>1, <2>2
<1>2. ASSUME NEW r \in RunIds, proc'[r] = "alive"
      PROVE  /\ Stray(r)'
             /\ run'[r].status = "running" => run'[r].pid
             /\ run'[r].marker # "interrupted"
  <2>1. proc[r] = "alive" /\ r \notin dropped /\ r \notin Survivors(stopped)
    BY <1>1, <1>2 DEF Restart, IInv
  <2>2. /\ r \in Awaited \/ Stray(r)
        /\ run[r].status = "running" => run[r].pid
        /\ run[r].marker # "interrupted"
    BY <2>1 DEF ProcessInv
  <2>3. r \notin Dangling(stopped)
    BY <2>1, <2>2 DEF Survivors, Dangling, RunningRuns
  <2>4. r \in Awaited => run[r].status \in Verdicts /\ r \notin stopped
    <3>1. SUFFICES ASSUME NEW i \in Dispatches, task[i].pc = "await", task[i].run = r
                   PROVE  run[r].status \in Verdicts /\ r \notin stopped
      BY DEF Awaited
    <3>2. loop.status = "running"
      BY <3>1 DEF SingleDriver, Driving
    <3>3. r \notin stopped
      BY <1>1, <2>1, <3>1 DEF Awaited
    <3>4. run[r].status # "running"
      BY <2>3, <3>2, <3>3 DEF Dangling, RunningRuns
    <3>5. run[r].status # "absent" /\ run[r] \in RunRow
      BY <3>1 DEF IInv, TaskRunExists, WithRun, GoodRow
    <3> QED  BY <3>3, <3>4, <3>5 DEF RunRow, Verdicts
  <2>5. run[r].status \in Verdicts
    BY <2>2, <2>4 DEF Stray
  <2>6. run'[r] = IF r \in stopped THEN Finished(run[r], "fail", "terminated") ELSE run[r]
    BY <1>1, <2>3 DEF Restart
  <2>7. /\ Finished(run[r], "fail", "terminated").status = "fail"
        /\ Finished(run[r], "fail", "terminated").marker = "terminated"
    BY DEF Finished, IInv, GoodRow, RunRow
  <2>8. run'[r].status \in Verdicts /\ run'[r].marker # "interrupted"
    BY <2>2, <2>5, <2>6, <2>7 DEF Verdicts
  <2>9. daemon'.restarts > 0
    BY <1>1 DEF Restart, IInv, DaemonState
  <2>10. r \notin Awaited'
    BY <1>1 DEF Restart, Awaited, IdleTask
  <2> QED  BY <2>8, <2>9, <2>10 DEF Stray, Verdicts
<1>3. \A i \in Dispatches : task'[i].pc = "idle"
  BY <1>1 DEF Restart, IdleTask
<1> QED  BY <1>2, <1>3 DEF ProcessInv

LEMMA ProcessInvHolds == ASSUME Ops \subseteq LaunchOps PROVE Spec => []ProcessInv
<1>1. Init => ProcessInv
  BY DEF Init, ProcessInv, IdleTask
<1>2. ProcessInv /\ UNCHANGED vars => ProcessInv'
  BY DEF vars, ProcessInv, Awaited, Stray
<1>3. IInv /\ SingleDriver /\ ProcessInv /\ Next => ProcessInv'
  <2> SUFFICES ASSUME IInv, SingleDriver, ProcessInv, Next PROVE ProcessInv'
    OBVIOUS
  <2>1. CASE (\E r \in RunIds : OrphanEnds(r)) \/ BeginStop
    <3>1. UNCHANGED <<run, task>> /\ daemon'.restarts = daemon.restarts
      BY <2>1 DEF OrphanEnds, BeginStop, IInv, DaemonState
    <3>2. \A r \in RunIds : proc'[r] = "alive" => proc[r] = "alive"
      BY <2>1 DEF OrphanEnds, BeginStop, IInv
    <3>3. RowStep /\ Awaited' = Awaited
      BY <3>1 DEF RowStep, Awaited
    <3> QED  BY <3>1, <3>2, <3>3, ProcessFrame
  <2> QED  BY <2>1, RestartProcess, DispatchProcess, ActorProcess DEF Next, Actors
<1> QED  BY IInvHolds, OneDriver, <1>1, <1>2, <1>3, PTL DEF Spec

\* Then two unsignalled processes never share the checkout, crashes and stops of
\* the daemon included, unless one is a stray that reconciliation does not look for.
THEOREM OneProcess == ASSUME Ops \subseteq LaunchOps PROVE Spec => []OneLiveProcess
<1>1. SingleDriver /\ ProcessInv => OneLiveProcess
  <2> SUFFICES ASSUME SingleDriver, ProcessInv, NEW q \in RunIds, NEW r \in RunIds,
                      proc[q] = "alive", proc[r] = "alive", ~Stray(q), ~Stray(r)
               PROVE  q = r
    BY DEF OneLiveProcess
  <2>1. q \in Awaited /\ r \in Awaited
    BY DEF ProcessInv
  <2> QED  BY <2>1 DEF Awaited, SingleDriver, Driving
<1> QED  BY OneDriver, ProcessInvHolds, <1>1, PTL

=============================================================================
