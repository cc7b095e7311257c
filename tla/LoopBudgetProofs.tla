-------------------------- MODULE LoopBudgetProofs --------------------------
(***************************************************************************)
(* The cross-run budget of a spec: how often it may fail, over any number  *)
(* of launches, before the loop is blocked until somebody resets it.       *)
(***************************************************************************)
EXTENDS LoopOrderProofs

-----------------------------------------------------------------------------
(* How a dispatch moves.                                                   *)

\* The steps of a dispatch between the visits it begins.
Flow == {<<"spawn", "await">>, <<"await", "settle">>, <<"settle", "retry">>,
         <<"settle", "record">>, <<"settle", "overrule">>, <<"settle", "after">>,
         <<"retry", "backoff">>, <<"record", "overrule">>, <<"record", "after">>,
         <<"overrule", "after">>, <<"after", "walk">>, <<"after", "pick">>,
         <<"after", "deadEnd">>, <<"overBudget", "count">>, <<"deadEnd", "count">>,
         <<"count", "failSpec">>, <<"count", "blocker">>, <<"blocker", "failSpec">>,
         <<"failSpec", "endCheck">>, <<"endCheck", "endSet">>, <<"endSet", "sweep">>,
         <<"start", "endSet">>, <<"spawn", "endSet">>, <<"after", "endSet">>}

\* A step along Flow keeps the spec, the visits and the row.
Carries(t, u) ==
    /\ <<t.pc, u.pc>> \in Flow
    /\ u.cur = t.cur /\ u.visits = t.visits /\ u.run = t.run /\ u.claimedAt = t.claimedAt
    /\ u.pc # "walk" => u.node = t.node
    /\ u.pc = "backoff" => u.retry = t.retry + 1
    /\ u.pc # "backoff" => u.retry = t.retry
    /\ u.pc = "retry" => t.retry < RetryLimit

\* The steps that do not go along Flow.
Begins(i) == Claim(i) \/ Prepare(i) \/ Pick(i) \/ StartSpec(i) \/ Walk(i) \/ InsertRun(i)

LEMMA CarriesStep ==
  ASSUME IInv, NEW i \in Dispatches, DispatchStep(i) \/ HardError(i), ~Begins(i)
  PROVE  Return(i) \/ \E u : Become(i, u) /\ Carries(task[i], u)
<1> DEFINE Shape == Return(i) \/ \E u : Become(i, u) /\ Carries(task[i], u)
<1>0. task[i] \in Task
  BY DEF IInv, GoodTask
<1>1. ASSUME NEW pc, Move(i, pc), <<task[i].pc, pc>> \in Flow, pc \notin {"backoff", "retry"}
      PROVE  Shape
  <2> DEFINE u == [task[i] EXCEPT !.pc = pc]
  <2>1. /\ u.pc = pc /\ u.cur = task[i].cur /\ u.visits = task[i].visits /\ u.run = task[i].run
        /\ u.claimedAt = task[i].claimedAt /\ u.node = task[i].node /\ u.retry = task[i].retry
    BY <1>0 DEF Task
  <2>2. Carries(task[i], u)
    BY <1>1, <2>1 DEF Carries
  <2> QED  BY <1>1, <2>2 DEF Move
<1>2. ASSUME NEW pc, NEW v, Become(i, [task[i] EXCEPT !.pc = pc, !.verdict = v]),
             <<task[i].pc, pc>> \in Flow, pc \notin {"backoff", "retry"}
      PROVE  Shape
  <2> DEFINE u == [task[i] EXCEPT !.pc = pc, !.verdict = v]
  <2>1. /\ u.pc = pc /\ u.cur = task[i].cur /\ u.visits = task[i].visits /\ u.run = task[i].run
        /\ u.claimedAt = task[i].claimedAt /\ u.node = task[i].node /\ u.retry = task[i].retry
    BY <1>0 DEF Task
  <2>2. Carries(task[i], u)
    BY <1>2, <2>1 DEF Carries
  <2> QED  BY <1>2, <2>2
<1>3. ASSUME NEW pc, NEW e, Become(i, [task[i] EXCEPT !.pc = pc, !.end = e]),
             <<task[i].pc, pc>> \in Flow, pc \notin {"backoff", "retry"}
      PROVE  Shape
  <2> DEFINE u == [task[i] EXCEPT !.pc = pc, !.end = e]
  <2>1. /\ u.pc = pc /\ u.cur = task[i].cur /\ u.visits = task[i].visits /\ u.run = task[i].run
        /\ u.claimedAt = task[i].claimedAt /\ u.node = task[i].node /\ u.retry = task[i].retry
    BY <1>0 DEF Task
  <2>2. Carries(task[i], u)
    BY <1>3, <2>1 DEF Carries
  <2> QED  BY <1>3, <2>2
<1>4. CASE SpawnProc(i) \/ RecordResult(i) \/ OverBudget(i) \/ DeadEnd(i) \/ SetBlocker(i)
           \/ FailSpec(i) \/ EndSet(i)
  <2>1. \E pc : Move(i, pc) /\ <<task[i].pc, pc>> \in Flow /\ pc \notin {"backoff", "retry"}
    BY <1>4 DEF SpawnProc, RecordResult, OverBudget, DeadEnd, SetBlocker, FailSpec, EndSet, Flow
  <2> QED  BY <1>1, <2>1
<1>5. CASE EndCheck(i) \/ Finish(i) \/ Sweep(i)
  BY <1>1, <1>5 DEF EndCheck, Finish, Sweep, Flow
<1>6. CASE ProcEnds(i) \/ Overrule(i)
  <2>1. \E pc \in {"settle", "after"} : \E v :
          /\ Become(i, [task[i] EXCEPT !.pc = pc, !.verdict = v])
          /\ <<task[i].pc, pc>> \in Flow
    BY <1>6 DEF ProcEnds, Overrule, Flow
  <2> QED  BY <1>2, <2>1
<1>7. CASE CountAttempt(i)
  <2>1. task[i].pc = "count"
    BY <1>7 DEF CountAttempt
  <2>2. \E pc \in {"failSpec", "blocker"} : \E e : Become(i, [task[i] EXCEPT !.pc = pc, !.end = e])
    BY <1>7 DEF CountAttempt
  <2> QED  BY <1>3, <2>1, <2>2 DEF Flow
<1>8. CASE HardError(i)
  <2>1. \E pc \in {"endSet"}, e \in {"failed"} :
          Become(i, [task[i] EXCEPT !.pc = pc, !.end = e]) /\ <<task[i].pc, pc>> \in Flow
    BY <1>8 DEF HardError, Flow
  <2> QED  BY <1>3, <2>1
<1>9. CASE Settle(i)
  <2>1. CASE Move(i, "retry") /\ task[i].retry < RetryLimit /\ task[i].pc = "settle"
    <3> DEFINE u == [task[i] EXCEPT !.pc = "retry"]
    <3>1. /\ u.pc = "retry" /\ u.cur = task[i].cur /\ u.visits = task[i].visits
          /\ u.run = task[i].run /\ u.claimedAt = task[i].claimedAt /\ u.node = task[i].node
          /\ u.retry = task[i].retry
      BY <1>0 DEF Task
    <3>2. Carries(task[i], u)
      BY <2>1, <3>1 DEF Carries, Flow
    <3> QED  BY <2>1, <3>2 DEF Move
  <2>2. ASSUME NEW pc \in {"record", "overrule", "after"} PROVE <<"settle", pc>> \in Flow
    BY DEF Flow
  <2>3. task[i].pc = "settle"
    BY <1>9 DEF Settle
  <2>4. \/ Return(i)
        \/ Move(i, "retry") /\ task[i].retry < RetryLimit
        \/ \E pc \in {"record", "overrule"} : Move(i, pc)
        \/ \E pc \in {"after"} : \E v : Become(i, [task[i] EXCEPT !.pc = pc, !.verdict = v])
    BY <1>9 DEF Settle
  <2> QED  BY <1>1, <1>2, <2>1, <2>2, <2>3, <2>4
<1>10. CASE BeginRetry(i)
  <2> DEFINE u == [task[i] EXCEPT !.pc = "backoff", !.retry = @ + 1]
  <2>1. /\ u.pc = "backoff" /\ u.cur = task[i].cur /\ u.visits = task[i].visits
        /\ u.run = task[i].run /\ u.claimedAt = task[i].claimedAt /\ u.node = task[i].node
        /\ u.retry = task[i].retry + 1
    BY <1>0 DEF Task
  <2>2. Carries(task[i], u)
    BY <1>10, <2>1 DEF BeginRetry, Carries, Flow
  <2> QED  BY <1>10, <2>2 DEF BeginRetry
<1>11. CASE RouteVerdict(i)
  <2>1. ASSUME NEW n, Become(i, [task[i] EXCEPT !.pc = "walk", !.node = n]) PROVE Shape
    <3> DEFINE u == [task[i] EXCEPT !.pc = "walk", !.node = n]
    <3>1. /\ u.pc = "walk" /\ u.cur = task[i].cur /\ u.visits = task[i].visits
          /\ u.run = task[i].run /\ u.claimedAt = task[i].claimedAt
          /\ u.retry = task[i].retry
      BY <1>0 DEF Task
    <3>2. Carries(task[i], u)
      BY <1>11, <3>1 DEF RouteVerdict, Carries, Flow
    <3> QED  BY <2>1, <3>2
  <2> QED  BY <1>1, <1>11, <2>1 DEF RouteVerdict, Flow
<1> QED  BY <1>4, <1>5, <1>6, <1>7, <1>8, <1>9, <1>10, <1>11 DEF DispatchStep, Begins

-----------------------------------------------------------------------------
(* The cross-run budget.  What stops a spec that has used it up is not the *)
(* count but the blocker on its last row, which the launch check looks for:*)
(* complete_node may overwrite it, and a launch that was checked before it *)
(* was written is not stopped by it, so both are hypotheses.               *)

\* Nobody is on the way to claim the loop while a dispatch drives it.
Alone == \A i, j \in Dispatches : Driving(i) /\ task[j].pc \notin {"idle", "sweep"} => i = j

BudgetOps == OrderedOps /\ "complete_node" \notin Ops

Budget == AttemptLimit + daemon.restarts

BlockerLast(s) ==
    \E r \in RunsOf(s) : /\ IsLast(r, RunsOf(s))
                         /\ run[r].marker = "blocker"
                         /\ run[r].status # "running"

\* s is the spec a launch would look at, and has failed with a blocker.
BlockedAt(s) == /\ spec[s].status = "failed"
                /\ BlockerLast(s)
                /\ \A u \in Specs : u < s => spec[u].status \in DoneStatuses

Resting(i) == task[i].pc \in {"idle", "sweep"}

\* The loop is being blocked over s, or is.
Blocking(i, s) ==
    /\ task[i].cur = s /\ task[i].end = "paused"
    /\ \/ task[i].pc = "blocker"
       \/ task[i].pc = "failSpec" /\ BlockerLast(s)
       \/ task[i].pc \in {"endCheck", "endSet"} /\ BlockedAt(s)

Parked(s) == /\ loop.status = "paused"
             /\ \A i \in Dispatches : Resting(i)
             /\ BlockedAt(s)

Spent ==
    \A s \in Specs : /\ spec[s].attempts <= Budget
                     /\ spec[s].attempts = Budget
                        => Parked(s) \/ \E i \in Dispatches : Blocking(i, s)

Contiguous == \A q, r \in RunIds : q < r /\ run[r].status # "absent" => run[q].status # "absent"

HeldLast(i) ==
    /\ task[i].pc \in WithRun => IsLast(task[i].run, RunsOf(task[i].cur))
    /\ task[i].pc \in {"count", "blocker"} =>
         Overdue(i) \/ IsLast(task[i].run, RunsOf(task[i].cur))
    /\ task[i].pc = "overBudget" => Overdue(i)

BudgetInv ==
    /\ Contiguous
    /\ \A i \in Dispatches : Driving(i) => loop.startedAt = task[i].claimedAt
    /\ \A i \in Dispatches : HeldLast(i)
    /\ \A a \in Actors : call[a].step = "report" => call[a].arg = "blocker"
    /\ Spent

LEMMA AloneNoOverlap == Alone => NoOverlap
BY DEF Alone, NoOverlap, Driving

LEMMA BudgetIsNat ==
  ASSUME IInv
  PROVE  Budget \in Nat /\ \A s \in Specs : spec[s].attempts \in Nat
BY BoundsAssumption DEF IInv, DaemonState, Budget, SpecRow

\* While a dispatch drives and is not blocking, no spec has used up its budget.
LEMMA Unspent ==
  ASSUME IInv, BudgetInv, Alone, NEW i \in Dispatches,
         ~Resting(i), task[i].pc \notin {"blocker", "failSpec", "endCheck", "endSet"},
         NEW s \in Specs
  PROVE  spec[s].attempts < Budget
<1>1. ~Parked(s)
  BY DEF Parked
<1>2. ASSUME NEW j \in Dispatches, Blocking(j, s) PROVE FALSE
  BY <1>2 DEF Blocking, Alone, Driving, Resting
<1> QED  BY <1>1, <1>2, BudgetIsNat DEF BudgetInv, Spent

\* The blocker stays while rows that have ended are left alone.
LEMMA BlockerKept ==
  ASSUME RowsKept,
         \A r \in RunIds : run[r].marker = "blocker" /\ run[r].status # "running"
                           => run'[r].marker = "blocker",
         NEW s, BlockerLast(s)
  PROVE  BlockerLast(s)'
<1>1. RunsOf(s)' = RunsOf(s) /\ RunsOf(s) \subseteq RunIds
  BY DEF RowsKept, RunsOf
<1>2. PICK r \in RunsOf(s) : /\ IsLast(r, RunsOf(s))
                             /\ run[r].marker = "blocker"
                             /\ run[r].status # "running"
  BY DEF BlockerLast
<1>3. r \in RunIds /\ run'[r].marker = "blocker" /\ run'[r].status # "running"
  BY <1>1, <1>2 DEF RowsKept
<1> QED  BY <1>1, <1>2, <1>3 DEF BlockerLast, IsLast

LEMMA ContiguousKept == ASSUME Contiguous, RowsKept PROVE Contiguous'
BY DEF Contiguous, RowsKept

LEMMA HeldLastKept ==
  ASSUME RowsKept, NEW i \in Dispatches, HeldLast(i), task'[i] = task[i]
  PROVE  HeldLast(i)'
<1>1. \A s : RunsOf(s)' = RunsOf(s)
  BY DEF RowsKept, RunsOf
<1> QED  BY <1>1 DEF HeldLast, IsLast, Overdue

\* A row is inserted behind all others.
LEMMA InsertedLast ==
  ASSUME IInv, Contiguous, NEW i \in Dispatches, InsertRun(i)
  PROVE  /\ Contiguous'
         /\ task'[i].run \in RunIds /\ task'[i].cur = task[i].cur /\ task'[i].pc = "spawn"
         /\ IsLast(task[i].run, RunsOf(task[i].cur))'
<1>1. task[i] \in Task
  BY DEF IInv, GoodTask
<1>2. PICK r \in RunIds :
         /\ InsertRow(r, task[i].node, task[i].cur, task[i].visits[task[i].node])
         /\ Become(i, [task[i] EXCEPT !.pc = "spawn", !.run = r])
  BY DEF InsertRun
<1>3. task'[i] = [task[i] EXCEPT !.pc = "spawn", !.run = r]
  BY <1>2, BecomeFrame
<1>4. task'[i].pc = "spawn" /\ task'[i].run = r /\ task'[i].cur = task[i].cur
  BY <1>1, <1>3 DEF Task
<1>5. /\ run'[r].status = "running" /\ run'[r].spec = task[i].cur
      /\ \A q \in RunIds \ {r} : run'[q] = run[q]
      /\ run[r].status = "absent" /\ \A q \in RunIds : q < r => run[q].status # "absent"
  BY <1>2 DEF InsertRow, IInv
<1>6. RunIds \subseteq Nat
  BY DEF RunIds
<1>7. \A q \in RunIds : q > r => run[q].status = "absent"
  BY <1>5 DEF Contiguous
<1>8. Contiguous'
  BY <1>5, <1>6, <1>7 DEF Contiguous
<1>9. \A q \in RunIds : run'[q].status # "absent" => q <= r
  BY <1>5, <1>6, <1>7
<1>10. IsLast(task[i].run, RunsOf(task[i].cur))'
  BY <1>4, <1>5, <1>9 DEF IsLast, RunsOf
<1> QED  BY <1>4, <1>8, <1>10

\* Who else there is, rests while a dispatch drives.
LEMMA OthersRest ==
  ASSUME IInv, Alone, NEW i \in Dispatches, Driving(i) \/ task[i].pc = "launch",
         NEW j \in Dispatches \ {i}
  PROVE  ~Driving(j) /\ (Driving(i) => Resting(j))
BY DEF Alone, Driving, Resting

LEMMA DispatchHeldLast ==
  ASSUME IInv, BudgetInv, Alone, NEW i \in Dispatches, DispatchStep(i) \/ HardError(i)
  PROVE  Contiguous' /\ \A j \in Dispatches : HeldLast(j)'
<1>0. task[i] \in Task /\ HeldLast(i) /\ Contiguous
  BY DEF IInv, GoodTask, BudgetInv
<1>1. PICK t : Become(i, t)
  BY DEF DispatchStep, HardError, Claim, Prepare, Pick, Finish, StartSpec, Walk,
         InsertRun, SpawnProc, ProcEnds, Settle, BeginRetry, RecordResult, Overrule, RouteVerdict,
         OverBudget, DeadEnd, CountAttempt, SetBlocker, FailSpec, EndCheck, EndSet, Sweep,
         Move, Return
<1>2. task'[i] = t /\ \A j \in Dispatches \ {i} : task'[j] = task[j]
  BY <1>1, BecomeFrame
<1>3. CASE InsertRun(i)
  <2>1. HeldLast(i)'
    BY <1>0, <1>3, InsertedLast DEF HeldLast
  <2>2. ASSUME NEW j \in Dispatches \ {i} PROVE HeldLast(j)'
    <3>1. Resting(j) /\ task'[j] = task[j]
      BY <1>2, <1>3, OthersRest DEF InsertRun, Driving
    <3> QED  BY <3>1 DEF HeldLast, Resting, WithRun
  <2> QED  BY <1>0, <1>3, <2>1, <2>2, InsertedLast
<1> SUFFICES ASSUME ~InsertRun(i) PROVE Contiguous' /\ \A j \in Dispatches : HeldLast(j)'
  BY <1>3
<1>4. RowsKept
  BY DispatchRowsKept
<1>5. \A s : RunsOf(s)' = RunsOf(s)
  BY <1>4 DEF RowsKept, RunsOf
<1>6. HeldLast(i)'
  <2>1. CASE t.pc \notin WithRun \cup {"count", "blocker", "overBudget"}
    BY <1>2, <2>1 DEF HeldLast
  <2>2. CASE Return(i) \/ Claim(i) \/ Prepare(i) \/ Pick(i) \/ StartSpec(i)
    <3> DEFINE Early == {"idle", "prepare", "pick", "finish", "start", "walk"}
    <3>6. \E u : Become(i, u) /\ u.pc \in Early
      <4> DEFINE Ok(u) == u.pc \in Early
      <4>1. /\ Ok(IdleTask)
            /\ \A x : Ok([task[i] EXCEPT !.pc = "prepare", !.claimedAt = x])
            /\ \A x : Ok([task[i] EXCEPT !.pc = "pick", !.snap = x])
            /\ \A x : Ok([task[i] EXCEPT !.pc = "start", !.cur = x])
            /\ Ok([task[i] EXCEPT !.pc = "finish"])
            /\ \A x, y : Ok([task[i] EXCEPT !.pc = "walk", !.node = x, !.visits = y])
        BY <1>0 DEF Task, IdleTask
      <4>2. \/ Become(i, IdleTask)
            \/ \E x : Become(i, [task[i] EXCEPT !.pc = "prepare", !.claimedAt = x])
            \/ \E x : Become(i, [task[i] EXCEPT !.pc = "pick", !.snap = x])
            \/ \E x : Become(i, [task[i] EXCEPT !.pc = "start", !.cur = x])
            \/ Become(i, [task[i] EXCEPT !.pc = "finish"])
            \/ \E x, y : Become(i, [task[i] EXCEPT !.pc = "walk", !.node = x, !.visits = y])
        BY <2>2 DEF Return, Claim, Prepare, Pick, StartSpec, Move
      <4> HIDE DEF Ok
      <4>3. \E u : Become(i, u) /\ Ok(u)
        BY <4>1, <4>2
      <4> QED  BY <4>3 DEF Ok
    <3>7. t.pc \in Early
      BY <1>2, <3>6, BecomeFrame
    <3> QED  BY <2>1, <3>7 DEF WithRun
  <2>3. CASE Walk(i) /\ ~Return(i)
    <3> DEFINE u == [task[i] EXCEPT !.visits = Visited(i), !.retry = 0,
                                    !.pc = IF WithinBudget(i) THEN "insert" ELSE "overBudget"]
    <3>1. Become(i, u)
      BY <2>3 DEF Walk
    <3>2. /\ u.pc = IF WithinBudget(i) THEN "insert" ELSE "overBudget"
          /\ u.visits = Visited(i) /\ u.node = task[i].node
      BY <1>0 DEF Task
    <3>3. task'[i] = u
      BY <3>1, BecomeFrame
    <3>4. task[i].node \in Nodes /\ task[i].visits \in [Nodes -> Nat]
      BY <1>0, <2>3 DEF IInv, GoodTask, Task, Walk, AtNode
    <3>5. ~WithinBudget(i) => Visited(i)[task[i].node] > MaxIterations
      BY <3>4, BoundsAssumption DEF WithinBudget, Visited
    <3> HIDE DEF u
    <3> QED  BY <3>2, <3>3, <3>5 DEF HeldLast, Overdue, WithRun
  <2>4. CASE ~Begins(i) /\ ~Return(i)
    <3>1. PICK u : Become(i, u) /\ Carries(task[i], u)
      BY <2>4, CarriesStep
    <3>2. task'[i] = u
      BY <3>1, BecomeFrame
    <3>3. u.cur = task[i].cur /\ u.run = task[i].run
      BY <3>1 DEF Carries
    <3>4. u.pc \in WithRun => task[i].pc \in WithRun
      BY <3>1 DEF Carries, Flow, WithRun
    <3>5. u.pc \in {"count", "blocker"} => /\ task[i].pc \in WithRun \cup {"count", "overBudget"}
                                           /\ Overdue(i) = Overdue(i)'
      BY <3>1, <3>2 DEF Carries, Flow, WithRun, Overdue
    <3>6. u.pc # "overBudget"
      BY <3>1 DEF Carries, Flow
    <3> QED  BY <1>0, <1>5, <3>2, <3>3, <3>4, <3>5, <3>6 DEF HeldLast, IsLast
  <2> QED  BY <2>2, <2>3, <2>4 DEF Begins
<1> QED  BY <1>0, <1>2, <1>4, <1>6, ContiguousKept, HeldLastKept DEF BudgetInv

LEMMA DispatchClaimed ==
  ASSUME IInv, BudgetInv, Alone, NEW i \in Dispatches, DispatchStep(i) \/ HardError(i),
         NEW j \in Dispatches, Driving(j)'
  PROVE  loop'.startedAt = task'[j].claimedAt
<1>0. task[i] \in Task
  BY DEF IInv, GoodTask
<1>1. Driving(j) => loop.startedAt = task[j].claimedAt
  BY DEF BudgetInv
<1>2. CASE Claim(i) /\ loop.status # "running"
  <2>1. PICK sec : /\ loop' = [loop EXCEPT !.status = "running", !.startedAt = sec]
                   /\ Become(i, [task[i] EXCEPT !.pc = "prepare", !.claimedAt = sec])
    BY <1>2 DEF Claim
  <2>2. /\ task'[i] = [task[i] EXCEPT !.pc = "prepare", !.claimedAt = sec]
        /\ \A k \in Dispatches \ {i} : task'[k] = task[k]
    BY <2>1, BecomeFrame
  <2>3. loop'.startedAt = sec /\ task'[i].claimedAt = sec
    BY <1>0, <2>1, <2>2 DEF Task, IInv, LoopRow
  <2>4. CASE j # i
    BY <1>2, <2>2, <2>4, OthersRest DEF Driving, Claim
  <2> QED  BY <2>3, <2>4
<1>3. CASE ~(Claim(i) /\ loop.status # "running")
  <2>1. loop'.startedAt = loop.startedAt
    <3>1. loop' = loop \/ \E st : SetLoopStatus(st)
      BY <1>3 DEF DispatchStep, HardError, Claim, Prepare, Pick, Finish, StartSpec, Walk,
           InsertRun, SpawnProc, ProcEnds, Settle, BeginRetry, RecordResult, Overrule,
           RouteVerdict, OverBudget, DeadEnd, CountAttempt, SetBlocker, FailSpec, EndCheck,
           EndSet, Sweep
    <3> QED  BY <3>1 DEF SetLoopStatus, IInv, LoopRow
  <2>2. CASE Return(i)
    <3>1. task'[i].pc = "idle" /\ \A k \in Dispatches \ {i} : task'[k] = task[k]
      BY <2>2, BecomeFrame DEF Return, IdleTask
    <3> QED  BY <1>1, <2>1, <3>1 DEF Driving
  <2>3. CASE Begins(i) /\ ~Return(i)
    <3>1. \/ \E x : Become(i, [task[i] EXCEPT !.pc = "pick", !.snap = x])
          \/ Become(i, [task[i] EXCEPT !.pc = "finish"])
          \/ \E x : Become(i, [task[i] EXCEPT !.pc = "start", !.cur = x])
          \/ \E x, y : Become(i, [task[i] EXCEPT !.pc = "walk", !.node = x, !.visits = y])
          \/ \E x, y : Become(i, [task[i] EXCEPT !.visits = x, !.retry = 0, !.pc = y])
          \/ \E x : Become(i, [task[i] EXCEPT !.pc = "spawn", !.run = x])
      BY <1>3, <2>3 DEF Begins, Claim, Prepare, Pick, StartSpec, Walk, InsertRun, Move
    <3>2. PICK t : Become(i, t) /\ t.claimedAt = task[i].claimedAt
      <4> DEFINE Same(u) == u.claimedAt = task[i].claimedAt
      <4>1. /\ \A x : Same([task[i] EXCEPT !.pc = "pick", !.snap = x])
            /\ Same([task[i] EXCEPT !.pc = "finish"])
            /\ \A x : Same([task[i] EXCEPT !.pc = "start", !.cur = x])
            /\ \A x, y : Same([task[i] EXCEPT !.pc = "walk", !.node = x, !.visits = y])
            /\ \A x, y : Same([task[i] EXCEPT !.visits = x, !.retry = 0, !.pc = y])
            /\ \A x : Same([task[i] EXCEPT !.pc = "spawn", !.run = x])
        BY <1>0 DEF Task
      <4> HIDE DEF Same
      <4>2. \E u : Become(i, u) /\ Same(u)
        BY <3>1, <4>1
      <4> QED  BY <4>2 DEF Same
    <3>3. task'[i] = t /\ \A k \in Dispatches \ {i} : task'[k] = task[k]
      BY <3>2, BecomeFrame
    <3>4. Driving(i)
      BY <1>3, <2>3 DEF Begins, Claim, Prepare, Pick, StartSpec, Walk, InsertRun, Driving
    <3>5. Driving(j)
      BY <3>3, <3>4 DEF Driving
    <3> QED  BY <1>1, <2>1, <3>2, <3>3, <3>5
  <2>4. CASE ~Begins(i) /\ ~Return(i)
    <3>1. PICK t : Become(i, t) /\ Carries(task[i], t)
      BY <2>4, CarriesStep
    <3>2. task'[i] = t /\ \A k \in Dispatches \ {i} : task'[k] = task[k]
      BY <3>1, BecomeFrame
    <3>3. Driving(i) /\ t.claimedAt = task[i].claimedAt
      BY <3>1 DEF Carries, Flow, Driving
    <3>4. Driving(j)
      BY <3>2, <3>3 DEF Driving
    <3> QED  BY <1>1, <2>1, <3>2, <3>3, <3>4
  <2> QED  BY <2>2, <2>3, <2>4
<1> QED  BY <1>2, <1>3

\* While a dispatch drives, a spec that has used its budget up is the one it blocks.
LEMMA OnlyBlocked ==
  ASSUME IInv, BudgetInv, Alone, NEW i \in Dispatches, Driving(i),
         NEW s \in Specs, spec[s].attempts = Budget
  PROVE  Blocking(i, s)
<1>1. ~Parked(s)
  BY DEF Parked, Driving, Resting
<1>2. PICK j \in Dispatches : Blocking(j, s)
  BY <1>1 DEF BudgetInv, Spent
<1>3. Driving(j)
  BY <1>2 DEF Blocking, Driving
<1> QED  BY <1>2, <1>3 DEF Alone, Driving

\* The count is what uses the budget up; it then says that the loop will be blocked.
LEMMA CountSpent ==
  ASSUME IInv, BudgetInv, Alone, NEW i \in Dispatches, CountAttempt(i)
  PROVE  Spent'
<1>0. task[i] \in Task /\ task[i].cur \in Specs /\ Budget' = Budget
  BY DEF IInv, GoodTask, CountAttempt, AtSpec, Budget
<1>1. \A s \in Specs : spec[s].attempts < Budget
  BY Unspent DEF CountAttempt, Resting
<1>2. CASE spec' = spec
  BY <1>0, <1>1, <1>2, BudgetIsNat DEF Spent
<1>3. CASE spec' # spec
  <2>0. PICK c \in Specs : c = task[i].cur
    BY <1>0
  <2> DEFINE n == spec[c].attempts + 1
             t == [task[i] EXCEPT !.pc  = IF n < AttemptLimit THEN "failSpec" ELSE "blocker",
                                  !.end = IF n < AttemptLimit THEN "failed" ELSE "paused"]
  <2>1. spec' = [spec EXCEPT ![c].attempts = n] /\ Become(i, t)
    BY <1>3, <2>0 DEF CountAttempt
  <2>2. /\ spec'[c].attempts = n
        /\ \A s \in Specs \ {c} : spec'[s] = spec[s]
    BY <1>0, <2>1 DEF IInv, SpecRow
  <2>3. /\ t.pc  = IF n < AttemptLimit THEN "failSpec" ELSE "blocker"
        /\ t.end = IF n < AttemptLimit THEN "failed" ELSE "paused"
        /\ t.cur = c
    <3>1. \A x, y : LET u == [task[i] EXCEPT !.pc = x, !.end = y]
                    IN u.pc = x /\ u.end = y /\ u.cur = c
      BY <1>0, <2>0 DEF Task
    <3> QED  BY <3>1
  <2>4. task'[i] = t
    BY <2>1, BecomeFrame
  <2> HIDE DEF t
  <2>5. AttemptLimit <= Budget /\ Budget \in Nat /\ n \in Nat /\ n <= Budget /\ AttemptLimit \in Nat
    BY <1>0, <1>1, BudgetIsNat, BoundsAssumption DEF Budget, IInv, DaemonState
  <2>6. ASSUME n = Budget PROVE Blocking(i, c)'
    <3>1. t.pc = "blocker" /\ t.end = "paused"
      BY <2>3, <2>5, <2>6
    <3> QED  BY <2>3, <2>4, <3>1 DEF Blocking
  <2>7. ASSUME NEW s \in Specs
        PROVE  /\ spec'[s].attempts <= Budget
               /\ spec'[s].attempts = Budget => \E j \in Dispatches : Blocking(j, s)'
    <3>1. CASE s = c
      <4>1. spec'[c].attempts = n /\ n <= Budget
        BY <2>2, <2>5
      <4>2. n = Budget => Blocking(i, c)'
        BY <2>6
      <4> HIDE DEF n
      <4> QED  BY <3>1, <4>1, <4>2
    <3>2. CASE s # c
      BY <1>1, <2>2, <3>2, BudgetIsNat
    <3> QED  BY <3>1, <3>2
  <2> QED  BY <1>0, <2>7 DEF Spent
<1> QED  BY <1>2, <1>3

\* What follows the count puts the blocker on the last row, and the spec, and
\* then the loop, out of the way of every launch that looks for it.
LEMMA BlockingGoesOn ==
  ASSUME IInv, Order, BudgetInv, Alone, NEW i \in Dispatches, NEW s \in Specs, Blocking(i, s),
         SetBlocker(i) \/ FailSpec(i) \/ EndCheck(i) \/ EndSet(i)
  PROVE  Blocking(i, s)' \/ Parked(s)'
<1>0. task[i] \in Task /\ task[i].cur = s /\ task[i].end = "paused" /\ Driving(i)
  BY DEF IInv, GoodTask, Blocking, Driving
<1>1. ASSUME NEW pc, Move(i, pc)
      PROVE  task'[i].pc = pc /\ task'[i].cur = s /\ task'[i].end = "paused"
  <2>1. task'[i] = [task[i] EXCEPT !.pc = pc]
    BY <1>1, BecomeFrame DEF Move
  <2> QED  BY <1>0, <2>1 DEF Task
<1>2. CASE SetBlocker(i)
  <2>1. task[i].pc = "blocker" /\ Move(i, "failSpec") /\ ~InsertRun(i)
    BY <1>2 DEF SetBlocker, InsertRun
  <2>2. PICK r \in RunsOf(s), st \in {"pass", "fail"} :
           FinishRun(r, st, "blocker") /\ IsLast(r, RunsOf(s))
    BY <1>0, <1>2, <2>1 DEF SetBlocker, BudgetInv, HeldLast
  <2>3. RowsKept
    BY <1>2, <2>1, DispatchRowsKept DEF DispatchStep
  <2>4. RunsOf(s)' = RunsOf(s) /\ r \in RunIds
    BY <2>3 DEF RowsKept, RunsOf
  <2>5. run[r] \in RunRow /\ run'[r] = Finished(run[r], st, "blocker")
    BY <2>2, <2>4 DEF IInv, GoodRow, FinishRun
  <2>6. run'[r].marker = "blocker" /\ run'[r].status # "running"
    BY <2>2, <2>5, FinishedKeeps
  <2>7. BlockerLast(s)'
    BY <2>2, <2>4, <2>6 DEF BlockerLast, IsLast
  <2> QED  BY <1>1, <2>1, <2>7 DEF Blocking
<1>3. CASE FailSpec(i)
  <2>1. /\ task[i].pc = "failSpec" /\ Move(i, "endCheck") /\ UNCHANGED run
        /\ SetSpecStatus(s, "failed")
    BY <1>0, <1>3 DEF FailSpec
  <2>2. BlockerLast(s)'
    BY <2>1 DEF Blocking, BlockerLast, RunsOf, IsLast
  <2>3. /\ spec'[s].status = "failed"
        /\ \A u \in Specs \ {s} : spec'[u] = spec[u]
    BY <1>0, <2>1, OwnSpecInOrder DEF Order, AtSpec
  <2>4. \A u \in Specs : u < s => spec[u].status \in DoneStatuses
    BY <1>0, <2>1 DEF Order, OrderInv, TaskOrder, Cursor, AtSpec
  <2>5. \A u \in Specs : u < s => u # s
    BY DEF Specs
  <2>6. BlockedAt(s)'
    BY <2>2, <2>3, <2>4, <2>5 DEF BlockedAt
  <2> QED  BY <1>1, <2>1, <2>6 DEF Blocking
<1>4. CASE EndCheck(i)
  <2>1. task[i].pc = "endCheck" /\ Move(i, "endSet") /\ UNCHANGED <<spec, run>>
    BY <1>0, <1>4 DEF EndCheck, BudgetInv
  <2>2. BlockedAt(s)'
    BY <2>1 DEF Blocking, BlockedAt, BlockerLast, RunsOf, IsLast
  <2> QED  BY <1>1, <2>1, <2>2 DEF Blocking
<1>5. CASE EndSet(i)
  <2>1. task[i].pc = "endSet" /\ Move(i, "sweep") /\ UNCHANGED <<spec, run>>
        /\ SetLoopStatus("paused")
    BY <1>0, <1>5 DEF EndSet
  <2>2. BlockedAt(s)'
    BY <2>1 DEF Blocking, BlockedAt, BlockerLast, RunsOf, IsLast
  <2>3. loop'.status = "paused"
    BY <2>1 DEF SetLoopStatus, IInv, LoopRow
  <2>4. \A j \in Dispatches \ {i} : task'[j] = task[j] /\ Resting(j)
    BY <1>0, <2>1, OthersRest, BecomeFrame DEF Move
  <2>5. \A j \in Dispatches : Resting(j)'
    BY <1>1, <2>1, <2>4 DEF Resting
  <2> QED  BY <2>2, <2>3, <2>5 DEF Parked
<1> QED  BY <1>2, <1>3, <1>4, <1>5

LEMMA DispatchAttemptsKept ==
  ASSUME NEW i \in Dispatches, IInv, DispatchStep(i) \/ HardError(i), ~CountAttempt(i)
  PROVE  \A s \in Specs : spec'[s].attempts = spec[s].attempts
<1>1. spec' = spec \/ \E s, st : SetSpecStatus(s, st)
  BY DEF DispatchStep, HardError, Claim, Prepare, Pick, Finish, StartSpec, Walk, InsertRun,
         SpawnProc, ProcEnds, Settle, BeginRetry, RecordResult, Overrule, RouteVerdict,
         OverBudget, DeadEnd, SetBlocker, FailSpec, EndCheck, EndSet, Sweep
<1> QED  BY <1>1 DEF SetSpecStatus, IInv, SpecRow

LEMMA DispatchSpent ==
  ASSUME IInv, Order, BudgetInv, Alone, NEW i \in Dispatches, DispatchStep(i) \/ HardError(i)
  PROVE  Spent'
<1>1. CASE CountAttempt(i)
  BY <1>1, CountSpent
<1> SUFFICES ASSUME ~CountAttempt(i) PROVE Spent'
  BY <1>1
<1>2. \A s \in Specs : spec'[s].attempts = spec[s].attempts
  BY DispatchAttemptsKept
<1>3. Budget' = Budget
  BY DEF Budget, DispatchStep, HardError, Claim, Prepare, Pick, Finish, StartSpec, Walk, InsertRun,
         SpawnProc, ProcEnds, Settle, BeginRetry, RecordResult, Overrule, RouteVerdict,
         OverBudget, DeadEnd, SetBlocker, FailSpec, EndCheck, EndSet, Sweep
<1>4. SUFFICES ASSUME NEW s \in Specs, spec[s].attempts = Budget
               PROVE  Parked(s)' \/ \E j \in Dispatches : Blocking(j, s)'
  BY <1>2, <1>3 DEF BudgetInv, Spent
<1>5. CASE Sweep(i)
  <2>1. /\ task[i].pc = "sweep" /\ Return(i) /\ UNCHANGED <<loop, spec>>
        /\ Terminate(RunningRuns)
    BY <1>5 DEF Sweep
  <2>2. /\ task'[i].pc = "idle" /\ \A j \in Dispatches \ {i} : task'[j] = task[j]
    BY <2>1, BecomeFrame DEF Return, IdleTask
  <2>3. RowsKept
    BY <2>1, TerminateKeeps
  <2>4. BlockerLast(s) => BlockerLast(s)'
    <3>1. \A r \in RunIds : run[r].status # "running" => run'[r] = run[r]
      BY <2>1 DEF Terminate, RunningRuns
    <3> QED  BY <2>3, <3>1, BlockerKept
  <2>5. BlockedAt(s) => BlockedAt(s)'
    BY <2>1, <2>4 DEF BlockedAt
  <2>6. CASE Parked(s)
    BY <2>1, <2>2, <2>5, <2>6 DEF Parked, Resting
  <2>7. ASSUME NEW j \in Dispatches, Blocking(j, s) PROVE Blocking(j, s)'
    <3>1. task'[j] = task[j]
      BY <2>1, <2>2, <2>7 DEF Blocking
    <3> QED  BY <2>4, <2>5, <2>7, <3>1 DEF Blocking
  <2> QED  BY <1>4, <2>6, <2>7 DEF BudgetInv, Spent
<1>6. CASE ~Sweep(i)
  <2>1. task[i].pc = "launch" \/ Driving(i)
    BY <1>6 DEF DispatchStep, HardError, Claim, Prepare, Pick, Finish, StartSpec, Walk, InsertRun,
         SpawnProc, ProcEnds, Settle, BeginRetry, RecordResult, Overrule, RouteVerdict,
         OverBudget, DeadEnd, SetBlocker, FailSpec, EndCheck, EndSet, Driving
  <2>2. ~Resting(i)
    BY <2>1 DEF Driving, Resting
  <2>3. ~(spec[s].attempts < Budget)
    BY <1>4, BudgetIsNat
  <2>4. task[i].pc \in {"blocker", "failSpec", "endCheck", "endSet"}
    BY <2>2, <2>3, Unspent
  <2>5. Blocking(i, s)
    BY <1>4, <2>4, OnlyBlocked DEF Driving
  <2>6. SetBlocker(i) \/ FailSpec(i) \/ EndCheck(i) \/ EndSet(i)
    BY <1>6, <2>4 DEF DispatchStep, HardError, Claim, Prepare, Pick, Finish, StartSpec, Walk, InsertRun,
         SpawnProc, ProcEnds, Settle, BeginRetry, RecordResult, Overrule, RouteVerdict,
         OverBudget, DeadEnd
  <2> QED  BY <2>5, <2>6, BlockingGoesOn
<1> QED  BY <1>5, <1>6

\* A spec that is blocked stays so: a skip takes a running spec, and a report
\* only adds blockers.
LEMMA ActorBlockedKept ==
  ASSUME IInv, Order, BudgetOps, BudgetInv, NEW a \in Actors,
         ToolStep(a) \/ SchedulerStep(a) \/ CallStep(a), NEW s \in Specs
  PROVE  /\ BlockerLast(s) => BlockerLast(s)'
         /\ BlockedAt(s) => BlockedAt(s)'
         /\ spec'[s].attempts = spec[s].attempts
<1>1. RowsKept
  BY ActorRowsKept
<1>2. \/ spec' = spec
      \/ \E u \in Specs : spec[u].status = "running" /\ SetSpecStatus(u, "skipped")
  BY ActorStepShape DEF BudgetOps, Order, OrderInv
<1>3. ASSUME NEW r \in RunIds, run[r].marker = "blocker", run[r].status # "running"
      PROVE  run'[r].marker = "blocker"
  <2>1. CASE PauseSweep(a)
    BY <1>3, <2>1 DEF PauseSweep, Terminate, RunningRuns
  <2>2. CASE ReportWrite(a)
    <3>1. call[a].run \in RunIds /\ FinishRun(call[a].run, "fail", "blocker")
      BY <2>2 DEF ReportWrite, BudgetInv, IInv, GoodCall
    <3>2. run[r] \in RunRow /\ (run'[r] = run[r] \/ run'[r] = Finished(run[r], "fail", "blocker"))
      BY <3>1 DEF FinishRun, IInv, GoodRow
    <3> QED  BY <1>3, <3>2, FinishedKeeps
  <2>3. CASE ~PauseSweep(a) /\ ~ReportWrite(a)
    <3>1. UNCHANGED run
      BY <2>3 DEF ToolStep, SchedulerStep, CallStep, LoopRun, LoopPause, LoopContinue, LoopReset,
             Report, ScheduleAutorun, CronFire, AutorunList, PauseSet, ContinueApply,
             ResetApply, BlockPause, AutorunFire, AutoReset
    <3> QED  BY <1>3, <3>1
  <2> QED  BY <2>1, <2>2, <2>3
<1>4. BlockerLast(s) => BlockerLast(s)'
  BY <1>1, <1>3, BlockerKept
<1>5. \A u \in Specs : /\ spec'[u].attempts = spec[u].attempts
                       /\ spec[u].status # "running" => spec'[u].status = spec[u].status
  BY <1>2 DEF SetSpecStatus, IInv, SpecRow
<1>6. BlockedAt(s) => BlockedAt(s)'
  BY <1>4, <1>5 DEF BlockedAt, DoneStatuses
<1> QED  BY <1>4, <1>5, <1>6

\* Nothing launches a dispatch past a blocker.
LEMMA NoLaunchWhenParked ==
  ASSUME IInv, Order, BudgetOps, NEW a \in Actors, NEW s \in Specs, Parked(s),
         ToolStep(a) \/ SchedulerStep(a) \/ CallStep(a)
  PROVE  task' = task
<1>1. ASSUME LoopRun(a) PROVE FALSE
  <2>1. s \in Unfinished
    BY DEF Parked, BlockedAt, Unfinished
  <2>2. \A u \in Unfinished : s <= u
    BY DEF Parked, BlockedAt, Unfinished, DoneStatuses, Specs
  <2>3. Blocked
    BY <2>1, <2>2 DEF Parked, BlockedAt, BlockerLast, Blocked
  <2> QED  BY <1>1, <2>3 DEF LoopRun, Parked
<1>2. ~CronFire(a)
  BY DEF CronFire, IsFireable, Parked
<1>3. ASSUME NEW u \in RunningSpecs PROVE FALSE
  <2>1. u \in Specs /\ spec[u].status = "running" /\ spec[s].status = "failed"
    BY DEF RunningSpecs, Parked, BlockedAt
  <2>2. ~(u < s) /\ u # s
    BY <2>1 DEF Parked, BlockedAt, DoneStatuses
  <2>3. s < u
    BY <2>1, <2>2 DEF Specs
  <2> QED  BY <2>1, <2>3 DEF Order, OrderInv, SpecsInOrder
<1>4. ContinueApply(a) => task' = task
  BY <1>3 DEF ContinueApply
<1>5. call[a].step \notin {"resetApply", "autorun", "autoReset"}
  BY DEF Order, OrderInv, QuietResets
<1> QED  BY <1>1, <1>2, <1>4, <1>5
         DEF ToolStep, SchedulerStep, CallStep, LoopRun, LoopPause, LoopContinue, LoopReset,
             Report, ScheduleAutorun, AutorunList, PauseSet, PauseSweep, ResetApply,
             ReportWrite, BlockPause, AutorunFire, AutoReset

\* A launch takes a free slot.
LEMMA SpawnedTasks ==
  ASSUME IInv, task' = task \/ SpawnDispatch, NEW j \in Dispatches
  PROVE  task'[j] = task[j] \/ (task[j].pc = "idle" /\ task'[j].pc = "launch")
<1>1. CASE task' = task
  BY <1>1
<1>2. CASE SpawnDispatch
  <2>1. PICK i \in Dispatches : task[i].pc = "idle" /\ Become(i, [task[i] EXCEPT !.pc = "launch"])
    BY <1>2 DEF SpawnDispatch, Move
  <2>2. /\ task'[i] = [task[i] EXCEPT !.pc = "launch"]
        /\ \A k \in Dispatches \ {i} : task'[k] = task[k]
    BY <2>1, BecomeFrame
  <2>3. task[i] \in Task
    BY DEF IInv, GoodTask
  <2>4. task'[i].pc = "launch"
    BY <2>2, <2>3 DEF Task
  <2> QED  BY <2>1, <2>2, <2>4
<1> QED  BY <1>1, <1>2

LEMMA ActorBudget ==
  ASSUME IInv, Order, BudgetOps, BudgetInv, NEW a \in Actors,
         ToolStep(a) \/ SchedulerStep(a) \/ CallStep(a)
  PROVE  BudgetInv'
<1>1. RowsKept
  BY ActorRowsKept
<1>2. /\ loop' = loop \/ loop'.status = "paused"
      /\ task' = task \/ SpawnDispatch
  BY ActorStepShape DEF BudgetOps, Order, OrderInv
<1>3. ASSUME NEW j \in Dispatches
      PROVE  task'[j] = task[j] \/ (task[j].pc = "idle" /\ task'[j].pc = "launch")
  BY <1>2, SpawnedTasks
<1>4. loop'.startedAt = loop.startedAt
  BY DEF ToolStep, SchedulerStep, CallStep, LoopRun, LoopPause, LoopContinue, LoopReset,
         Report, ScheduleAutorun, CronFire, AutorunList, PauseSet, PauseSweep, ContinueApply,
         ResetApply, ReportWrite, BlockPause, AutorunFire, AutoReset, SetLoopStatus, IInv, LoopRow
<1>5. \A j \in Dispatches : Driving(j)' => loop'.startedAt = task'[j].claimedAt
  BY <1>3, <1>4 DEF BudgetInv, Driving
<1>6. ASSUME NEW j \in Dispatches PROVE HeldLast(j)'
  <2>1. CASE task'[j] = task[j]
    BY <1>1, <2>1, HeldLastKept DEF BudgetInv
  <2>2. CASE task'[j].pc = "launch"
    BY <2>2 DEF HeldLast, WithRun
  <2> QED  BY <1>3, <2>1, <2>2
<1>7. ASSUME NEW b \in Actors, call'[b].step = "report" PROVE call'[b].arg = "blocker"
  <2>1. CASE call'[b] = call[b]
    BY <1>7, <2>1 DEF BudgetInv
  <2>2. CASE call'[b] # call[b]
    <3>1. PICK c : Begin(a, c) /\ (c.step # "report" \/ c.arg = "blocker")
      <4> DEFINE Ok(c) == c.step # "report" \/ c.arg = "blocker"
      <4>1. IdleCall \in Call
        BY IdleCallGood DEF GoodCall
      <4>2. /\ Ok(IdleCall)
            /\ \A x \in {"pauseSet", "pauseSweep", "blockPause", "autoReset"} :
                 Ok([IdleCall EXCEPT !.step = x])
            /\ \A x : Ok([IdleCall EXCEPT !.step = "continue", !.arg = x])
            /\ \A x : Ok([IdleCall EXCEPT !.step = "autorun", !.arg = x])
            /\ \A x, y : Ok([IdleCall EXCEPT !.step = "resetApply", !.specs = x, !.named = y])
            /\ \A x : Ok([IdleCall EXCEPT !.step = "report", !.run = x, !.arg = "blocker"])
        BY <4>1 DEF Call, IdleCall
      <4>3. ASSUME Report(a)
            PROVE  \E x : Begin(a, [IdleCall EXCEPT !.step = "report", !.run = x,
                                                    !.arg = "blocker"])
        BY <4>3 DEF Report, Reports, BudgetOps
      <4>4. ASSUME Begin(a, IdleCall) \/ call' = call PROVE \E c : Begin(a, c) /\ Ok(c)
        <5>1. call' = call => FALSE
          BY <2>2
        <5> QED  BY <4>2, <4>4, <5>1
      <4>5. \/ Begin(a, IdleCall)
            \/ call' = call
            \/ \E x \in {"pauseSet", "pauseSweep", "blockPause", "autoReset"} :
                 Begin(a, [IdleCall EXCEPT !.step = x])
            \/ \E x : Begin(a, [IdleCall EXCEPT !.step = "continue", !.arg = x])
            \/ \E x : Begin(a, [IdleCall EXCEPT !.step = "autorun", !.arg = x])
            \/ \E x, y : Begin(a, [IdleCall EXCEPT !.step = "resetApply", !.specs = x, !.named = y])
            \/ \E x : Begin(a, [IdleCall EXCEPT !.step = "report", !.run = x, !.arg = "blocker"])
        BY <4>3 DEF ToolStep, SchedulerStep, CallStep, LoopRun, LoopPause, LoopContinue, LoopReset,
             ResetTargets, Hang, ScheduleAutorun, CronFire, AutorunList, PauseSet, PauseSweep,
             ContinueApply, ResetApply, ReportWrite, BlockPause, AutorunFire, AutoReset
      <4> HIDE DEF Ok
      <4>6. \E c : Begin(a, c) /\ Ok(c)
        BY <4>2, <4>4, <4>5
      <4> QED  BY <4>6 DEF Ok
    <3>2. call'[a] = c /\ \A d \in Actors \ {a} : call'[d] = call[d]
      BY <3>1 DEF Begin, IInv
    <3> QED  BY <1>7, <2>2, <3>1, <3>2
  <2> QED  BY <2>1, <2>2
<1>8. Spent'
  <2>1. Budget' = Budget
    BY DEF Budget, ToolStep, SchedulerStep, CallStep, LoopRun, LoopPause, LoopContinue, LoopReset,
         Report, ScheduleAutorun, CronFire, AutorunList, PauseSet, PauseSweep, ContinueApply,
         ResetApply, ReportWrite, BlockPause, AutorunFire, AutoReset
  <2>2. \A s \in Specs : /\ BlockerLast(s) => BlockerLast(s)'
                         /\ BlockedAt(s) => BlockedAt(s)'
                         /\ spec'[s].attempts = spec[s].attempts
    BY ActorBlockedKept
  <2>3. SUFFICES ASSUME NEW s \in Specs, spec[s].attempts = Budget
                 PROVE  Parked(s)' \/ \E j \in Dispatches : Blocking(j, s)'
    BY <2>1, <2>2 DEF BudgetInv, Spent
  <2>4. CASE Parked(s)
    <3>1. task' = task
      BY <2>4, NoLaunchWhenParked
    <3> QED  BY <1>2, <2>2, <2>4, <3>1 DEF Parked, Resting
  <2>5. ASSUME NEW j \in Dispatches, Blocking(j, s) PROVE Blocking(j, s)'
    <3>1. task'[j] = task[j]
      BY <1>3, <2>5 DEF Blocking
    <3> QED  BY <2>2, <2>5, <3>1 DEF Blocking
  <2> QED  BY <2>3, <2>4, <2>5 DEF BudgetInv, Spent
<1> QED  BY <1>1, <1>5, <1>6, <1>7, <1>8, ContiguousKept DEF BudgetInv

\* A restart forgets who was blocking what, and raises the budget by the one
\* failure that it may have interrupted.
LEMMA RestartBudget == ASSUME IInv, BudgetInv, Crash \/ EndStop PROVE BudgetInv'
<1>1. PICK stopped \in SUBSET RunIds, dropped \in SUBSET RunIds :
        Restart(stopped, dropped) /\ \A r \in stopped : run[r].status # "absent"
  BY RestartShape
<1>2. Contiguous'
  BY <1>1, RestartRowsKept, ContiguousKept DEF BudgetInv
<1>3. \A j \in Dispatches : task'[j].pc = "idle"
  BY <1>1 DEF Restart, IdleTask
<1>4. \A a \in Actors : call'[a].step = "idle"
  BY <1>1 DEF Restart, IdleCall
<1>5. Budget' = Budget + 1
  BY <1>1, BoundsAssumption DEF Restart, Budget, IInv, DaemonState
<1>6. \A s \in Specs : spec'[s].attempts = spec[s].attempts
  BY <1>1 DEF Restart, IInv, SpecRow
<1>7. Spent'
  BY <1>5, <1>6, BudgetIsNat DEF BudgetInv, Spent
<1> QED  BY <1>2, <1>3, <1>4, <1>7 DEF BudgetInv, HeldLast, Driving, WithRun

LEMMA BudgetFrame ==
  ASSUME BudgetInv, UNCHANGED <<loop, spec, run, task, call>>, Budget' = Budget
  PROVE  BudgetInv'
BY DEF BudgetInv, Contiguous, Driving, HeldLast, IsLast, RunsOf, Overdue, Spent, Parked, Resting,
       Blocking, BlockedAt, BlockerLast

LEMMA NextBudget ==
  ASSUME IInv, Order, BudgetOps, BudgetInv, Alone, [Next]_vars
  PROVE  BudgetInv'
<1>1. CASE UNCHANGED vars
  BY <1>1, BudgetFrame DEF vars, Budget
<1>2. ASSUME NEW i \in Dispatches, DispatchStep(i) \/ HardError(i) PROVE BudgetInv'
  <2>1. call' = call
    BY <1>2 DEF DispatchStep, HardError, Claim, Prepare, Pick, Finish, StartSpec, Walk, InsertRun,
         SpawnProc, ProcEnds, Settle, BeginRetry, RecordResult, Overrule, RouteVerdict,
         OverBudget, DeadEnd, CountAttempt, SetBlocker, FailSpec, EndCheck, EndSet, Sweep
  <2> QED  BY <1>2, <2>1, DispatchHeldLast, DispatchClaimed, DispatchSpent DEF BudgetInv
<1>3. ASSUME NEW a \in Actors, ToolStep(a) \/ SchedulerStep(a) \/ CallStep(a) PROVE BudgetInv'
  BY <1>3, ActorBudget
<1>4. CASE \E r \in RunIds : OrphanEnds(r)
  BY <1>4, BudgetFrame DEF OrphanEnds, Budget
<1>5. CASE BeginStop
  <2>1. Budget' = Budget
    BY <1>5 DEF BeginStop, Budget, IInv, DaemonState
  <2> QED  BY <1>5, <2>1, BudgetFrame DEF BeginStop
<1>6. CASE Crash \/ EndStop
  BY <1>6, RestartBudget
<1> QED  BY <1>1, <1>2, <1>3, <1>4, <1>5, <1>6 DEF Next, Actors

LEMMA InitBudget == Init => BudgetInv
<1> SUFFICES ASSUME Init PROVE BudgetInv
  OBVIOUS
<1>1. Contiguous
  BY DEF Init, AbsentRun, Contiguous
<1>2. \A i \in Dispatches : ~Driving(i) /\ HeldLast(i)
  BY DEF Init, IdleTask, Driving, HeldLast, WithRun
<1>3. \A a \in Actors : call[a].step = "idle"
  BY DEF Init, IdleCall
<1>4. \A s \in Specs : spec[s].attempts = 0
  BY DEF Init
<1>5. Budget \in Nat \ {0}
  BY BoundsAssumption DEF Init, Budget
<1>6. Spent
  BY <1>4, <1>5 DEF Spent
<1> QED  BY <1>1, <1>2, <1>3, <1>6 DEF BudgetInv

LEMMA BudgetHolds == ASSUME BudgetOps PROVE Spec /\ []Alone => []BudgetInv
<1>1. OrderedOps
  BY DEF BudgetOps
<1>2. IInv /\ Order /\ BudgetInv /\ Alone /\ [Next]_vars => BudgetInv'
  BY NextBudget
<1> QED  BY <1>1, IInvHolds, OrderHolds, AloneNoOverlap, InitBudget, <1>2, PTL DEF Spec

\* Pauses, continues, blockers, hard errors, restarts or skips, any number of
\* launches after the loop has come to rest: no spec fails more often than the
\* cross-run budget allows, but for one failure per restart.
THEOREM AttemptsWithinBudget ==
  ASSUME BudgetOps PROVE Spec /\ []Alone => []AttemptsBounded
<1>1. BudgetInv => AttemptsBounded
  BY DEF BudgetInv, Spent, AttemptsBounded, Budget
<1> QED  BY BudgetHolds, <1>1, PTL

=============================================================================
