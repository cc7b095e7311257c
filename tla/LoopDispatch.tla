---------------------------- MODULE LoopDispatch ----------------------------
(***************************************************************************)
(* One loop of the daemon, seen through the rows it keeps in SQLite and    *)
(* the tasks and tool calls that read and write them.                      *)
(*                                                                         *)
(* A dispatch is one spawned run_loop_dispatch task: it claims the loop,   *)
(* walks its bound specs in position order, and drives each spec through   *)
(* the graph, one node run (row + child process) at a time.  MCP tool      *)
(* calls and the scheduler run beside it and touch the same rows.  Every   *)
(* database call takes the connection lock on its own, so an action below  *)
(* is what happens between two points where another actor can get in: one  *)
(* call that writes, with the reads just before it whose result no other   *)
(* write can change.                                                       *)
(***************************************************************************)
EXTENDS Naturals, FiniteSets

CONSTANTS
    NumSpecs,       \* bound specs of the loop, in position order
    Nodes,          \* graph nodes
    AgentNodes,     \* the nodes whose quick nonzero exit is retried in place
    Entry,          \* the graph's entry node
    NoNode,         \* "no outgoing edge matches"
    Edge,           \* Edge[node][verdict]: the next node, or NoNode
    Outcomes,       \* how a child process may end ("commit": it passes, but has
                    \* moved HEAD at a node without commit rights)
    Dispatches,     \* task slots: bound on the dispatch tasks alive at once
    Tools,          \* tool calls that may be in progress at once
    Schedulers,     \* cron scheduler tasks
    Ops,            \* which of AllOps the environment uses
    MaxIterations,  \* DEFAULT_MAX_ITERATIONS_PER_NODE
    RetryLimit,     \* infra retries per node visit
    AttemptLimit,   \* spec_attempt_limit
    MaxAttempts,    \* bound on a spec's cross_run_attempts
    MaxRuns,        \* bound on loop_runs rows
    MaxSecond,      \* bound on the distinct seconds of started_at
    MaxRestarts      \* bound on daemon restarts

AllOps == {"loop_run", "loop_pause", "retry", "skip", "loop_reset",
           "complete_node", "report_blocker", "autorun", "cancel_autorun", "cron",
           "hard_error", "crash", "stop"}

Specs  == 1..NumSpecs
RunIds == 1..MaxRuns
Actors == Tools \cup Schedulers
NoRun  == 0
Verdicts == {"pass", "fail"}

ASSUME SpecsAssumption    == NumSpecs \in Nat \ {0}
ASSUME GraphAssumption    == /\ Entry \in Nodes
                             /\ NoNode \notin Nodes
                             /\ AgentNodes \subseteq Nodes
                             /\ Edge \in [Nodes -> [Verdicts -> Nodes \cup {NoNode}]]
ASSUME OutcomesAssumption == Outcomes \subseteq {"pass", "fail", "silent", "crash", "timeout", "commit"}
ASSUME OpsAssumption      == Ops \subseteq AllOps
ASSUME BoundsAssumption   == /\ MaxIterations \in Nat \ {0}
                             /\ RetryLimit \in Nat
                             /\ AttemptLimit \in Nat \ {0}
                             /\ MaxAttempts \in Nat
                             /\ MaxRuns \in Nat \ {0}
                             /\ MaxSecond \in Nat
                             /\ MaxRestarts \in Nat

VARIABLES
    loop,     \* the loops row: status, startedAt (seconds), byRecon, autorun
    spec,     \* the loop_specs rows: status, cross_run_attempts
    run,      \* the loop_runs rows, by insertion order
    proc,     \* the child process of each run
    task,     \* the dispatch tasks
    call,     \* the tool calls and scheduler passes in progress
    daemon    \* restarts so far; whether it is stopping, and the runs the stop listed

vars == <<loop, spec, run, proc, task, call, daemon>>

LoopStatuses == {"draft", "running", "paused", "completed", "failed"}
SpecStatuses == {"pending", "running", "interrupted", "completed", "failed", "skipped"}

LoopRow == [status : LoopStatuses, startedAt : Nat, byRecon : BOOLEAN, autorun : BOOLEAN]
SpecRow == [status : SpecStatuses, attempts : Nat]

\* marker is the key of the output JSON that later code looks for.
Markers == {"none", "terminated", "interrupted", "infra_crash", "blocker"}

RunRow == [status : {"absent", "running", "pass", "fail"},
           node   : Nodes \cup {NoNode},
           spec   : Specs \cup {0},
           iter   : 0..MaxIterations,
           marker : Markers,
           pid    : BOOLEAN]

AbsentRun == [status |-> "absent", node |-> NoNode, spec |-> 0, iter |-> 0,
              marker |-> "none", pid |-> FALSE]

\* "dying": SIGTERM sent, SIGKILL due after KILL_GRACE.
ProcStates == {"none", "alive", "dying"}

TaskPcs == {"idle", "launch", "prepare", "pick", "start", "walk", "insert", "spawn",
            "await", "settle", "retry", "backoff", "record", "overrule", "after", "overBudget",
            "deadEnd", "count", "blocker", "failSpec", "endCheck", "endSet", "sweep", "finish"}

Task == [pc        : TaskPcs,
         claimedAt : Nat,                        \* this dispatch's generation
         snap      : [Specs -> SpecStatuses],    \* the spec list read at launch
         cur       : 0..NumSpecs,                \* position being worked
         node      : Nodes \cup {NoNode},        \* SpecCursor::Node
         visits    : [Nodes -> Nat],             \* iterations
         run       : RunIds \cup {NoRun},
         retry     : Nat,                        \* attempt
         verdict   : Outcomes \cup Verdicts,     \* final_execution
         end       : {"failed", "paused"}]       \* what the dispatch ends the loop as

NoVisits == [n \in Nodes |-> 0]

IdleTask == [pc |-> "idle", claimedAt |-> 0, snap |-> [s \in Specs |-> "pending"],
             cur |-> 0, node |-> NoNode, visits |-> NoVisits, run |-> NoRun,
             retry |-> 0, verdict |-> "fail", end |-> "failed"]

CallSteps == {"idle", "pauseSet", "pauseSweep", "resetApply", "report", "blockPause", "continue",
              "autorun", "autoReset"}

Call == [step   : CallSteps,
         run    : RunIds \cup {NoRun},
         arg    : {"none", "pass", "fail", "blocker", "retry", "skip"} \cup LoopStatuses,
         specs  : SUBSET Specs,
         named  : BOOLEAN]

DaemonState == [restarts : Nat, stopping : BOOLEAN, listed : SUBSET RunIds]

IdleCall == [step |-> "idle", run |-> NoRun, arg |-> "none", specs |-> {}, named |-> FALSE]

TypeOK ==
    /\ loop \in LoopRow
    /\ spec \in [Specs -> SpecRow]
    /\ run \in [RunIds -> RunRow]
    /\ proc \in [RunIds -> ProcStates]
    /\ task \in [Dispatches -> Task]
    /\ call \in [Actors -> Call]
    /\ daemon \in DaemonState

-----------------------------------------------------------------------------
(* Reading and writing the rows.                                           *)

RunsOf(s)   == {r \in RunIds : run[r].status # "absent" /\ run[r].spec = s}
RunningRuns == {r \in RunIds : run[r].status = "running"}

\* The latest of the rows S: the code sorts by started_at, a whole second, and
\* then by iteration; insertion order agrees with it but for rows of one second.
IsLast(r, S) == r \in S /\ \A q \in S : q <= r

\* update_loop_status: every caller of it clears paused_by_reconciliation.
SetLoopStatus(st) == loop' = [loop EXCEPT !.status = st, !.byRecon = FALSE]

SetSpecStatus(s, st) == spec' = [spec EXCEPT ![s].status = st]

\* update_loop_run_result overwrites whatever is there and forgets the pid.
Finished(row, st, mk) == [row EXCEPT !.status = st, !.marker = mk, !.pid = FALSE]
FinishRun(r, st, mk)  == run' = [run EXCEPT ![r] = Finished(run[r], st, mk)]

\* terminate_run on every run of R: signal the recorded pid, finalize the row.
Terminate(R) ==
    /\ run' = [r \in RunIds |-> IF r \in R THEN Finished(run[r], "fail", "terminated")
                                           ELSE run[r]]
    /\ proc' = [r \in RunIds |-> IF r \in R /\ run[r].pid /\ proc[r] = "alive"
                                 THEN "dying" ELSE proc[r]]

\* The runs whose child a dispatch task holds and waits for.
Awaited == {r \in RunIds : \E i \in Dispatches : task[i].pc = "await" /\ task[i].run = r}

\* Insert the next loop_runs row as running, with no pid yet.
InsertRow(r, n, s, k) ==
    /\ run[r].status = "absent"
    /\ \A q \in RunIds : q < r => run[q].status # "absent"
    /\ run' = [run EXCEPT ![r] = [status |-> "running", node |-> n, spec |-> s,
                                  iter |-> k, marker |-> "none", pid |-> FALSE]]

Become(i, t) == task' = [task EXCEPT ![i] = t]
Move(i, pc)  == Become(i, [task[i] EXCEPT !.pc = pc])
Return(i)    == Become(i, IdleTask)

\* tokio::spawn of run_loop_dispatch in any free slot.
SpawnDispatch ==
    \E i \in Dispatches : /\ task[i].pc = "idle"
                          /\ Move(i, "launch")

Begin(a, c) == call' = [call EXCEPT ![a] = c]
Hang(a)     == Begin(a, IdleCall)

IsFireable == loop.status \notin {"running", "paused"}

\* Mutant of IsAutorunDue: a pause by reconciliation holds like the user's own.
IsAutorunFireable == loop.autorun /\ IsFireable

IsAutorunDue == loop.autorun /\ (IsFireable \/ (loop.status = "paused" /\ loop.byRecon))

-----------------------------------------------------------------------------
(* The dispatch: run_loop_dispatch.                                        *)

\* Mutant of Claim: the claim forgets to look at the status.
ClaimUnguarded(i) ==
    /\ task[i].pc = "launch"
    /\ loop' = [loop EXCEPT !.status = "running"]
    /\ Become(i, [task[i] EXCEPT !.pc = "prepare", !.claimedAt = loop.startedAt])
    /\ UNCHANGED <<spec, run, proc, call, daemon>>

\* claim_loop_for_run: a compare-and-set on status # running.  The claim's
\* second becomes both started_at and this dispatch's own generation.
Claim(i) ==
    /\ task[i].pc = "launch"
    /\ IF loop.status = "running"
       THEN Return(i) /\ UNCHANGED loop
       ELSE \E sec \in {loop.startedAt, loop.startedAt + 1} :
              /\ sec <= MaxSecond
              /\ loop' = [loop EXCEPT !.status = "running", !.startedAt = sec]
              /\ Become(i, [task[i] EXCEPT !.pc = "prepare", !.claimedAt = sec])
    /\ UNCHANGED <<spec, run, proc, call, daemon>>

\* The bound spec list is read once and used, statuses included, to the end.
Prepare(i) ==
    /\ task[i].pc = "prepare"
    /\ Become(i, [task[i] EXCEPT !.pc = "pick", !.snap = [s \in Specs |-> spec[s].status]])
    /\ UNCHANGED <<loop, spec, run, proc, call, daemon>>

\* Mutants of Todo: completed specs run again; interrupted ones are dropped.
TodoAgain(i) == {s \in Specs : s > task[i].cur}
TodoPending(i) == {s \in Specs : s > task[i].cur /\ task[i].snap[s] \in {"pending", "running"}}

Todo(i) == {s \in Specs : s > task[i].cur /\ task[i].snap[s] \notin {"completed", "skipped"}}

\* The pause check comes before each listed spec, so there is none after the
\* last.
Pick(i) ==
    /\ task[i].pc = "pick"
    /\ \/ /\ loop.status = "paused" /\ task[i].cur < NumSpecs
          /\ Return(i)
       \/ /\ loop.status # "paused" \/ task[i].cur = NumSpecs
          /\ Todo(i) = {}
          /\ Move(i, "finish")
       \/ /\ loop.status # "paused"
          /\ \E s \in Todo(i) :
               /\ \A t \in Todo(i) : s <= t
               /\ Become(i, [task[i] EXCEPT !.pc = "start", !.cur = s])
    /\ UNCHANGED <<loop, spec, run, proc, call, daemon>>

\* Nothing left to pick: the loop is marked completed, whatever its status
\* has become since the last is_paused check.
Finish(i) ==
    /\ task[i].pc = "finish"
    /\ SetLoopStatus("completed")
    /\ Return(i)
    /\ UNCHANGED <<spec, run, proc, call, daemon>>

(* One spec: run_spec.                                                     *)

\* Mutant of IterationsAt: a resumed spec starts counting afresh.
IterationsForgotten(s, n) == {}

\* The visits of n that the rows of s record.
IterationsAt(s, n) ==
    {k \in 1..MaxIterations : \E r \in RunsOf(s) : run[r].node = n /\ run[r].iter = k}

\* resolve_spec_start: a spec that the snapshot says is running resumes at
\* its last run's node, with the visit counts its rows record; any other
\* starts at the entry node with none.
StartSpec(i) ==
    /\ task[i].pc = "start"
    /\ LET s == task[i].cur
           resumed == task[i].snap[s] = "running" /\ RunsOf(s) # {}
       IN /\ \/ /\ resumed
                /\ \E r \in RunsOf(s) :
                     /\ IsLast(r, RunsOf(s))
                     /\ Become(i, [task[i] EXCEPT
                          !.pc = "walk",
                          !.node = run[r].node,
                          !.visits = [n \in Nodes |-> Cardinality(IterationsAt(s, n))]])
             \/ /\ ~resumed
                /\ Become(i, [task[i] EXCEPT !.pc = "walk", !.node = Entry,
                                             !.visits = NoVisits])
          /\ SetSpecStatus(s, "running")
    /\ UNCHANGED <<loop, run, proc, call, daemon>>

\* Mutant of WithinBudget: one visit too many.
WithinBudgetPlusOne(i) == task[i].visits[task[i].node] <= MaxIterations

\* The visit about to begin is still within the node's iteration budget.
WithinBudget(i) == task[i].visits[task[i].node] < MaxIterations

\* The visit counts once the node at hand is visited again.
Visited(i) == [task[i].visits EXCEPT ![task[i].node] = @ + 1]

\* Top of the node loop: pause check, reap of the latest running row at this
\* node, iteration budget.
Walk(i) ==
    /\ task[i].pc = "walk"
    /\ LET n == task[i].node
           stale == {r \in RunningRuns : run[r].node = n}
       IN \/ /\ loop.status = "paused"
             /\ Return(i)
             /\ UNCHANGED <<run, proc>>
          \/ /\ loop.status # "paused"
             /\ \/ stale = {} /\ UNCHANGED <<run, proc>>
                \/ \E r \in stale : IsLast(r, stale) /\ Terminate({r})
             /\ Become(i, [task[i] EXCEPT
                  !.visits = Visited(i),
                  !.retry = 0,
                  !.pc = IF WithinBudget(i) THEN "insert" ELSE "overBudget"])
    /\ UNCHANGED <<loop, spec, call, daemon>>

\* The row of a node visit, and (after a backoff) of an infra retry, which is
\* inserted without looking at the loop's status again.
InsertRun(i) ==
    /\ task[i].pc \in {"insert", "backoff"}
    /\ \E r \in RunIds :
         /\ InsertRow(r, task[i].node, task[i].cur, task[i].visits[task[i].node])
         /\ Become(i, [task[i] EXCEPT !.pc = "spawn", !.run = r])
    /\ UNCHANGED <<loop, spec, proc, call, daemon>>

\* spawn_and_wait_cli_process: spawn, then set_loop_run_pid on the row,
\* whatever that row's status has become.
SpawnProc(i) ==
    /\ task[i].pc = "spawn"
    /\ proc' = [proc EXCEPT ![task[i].run] = "alive"]
    /\ run' = [run EXCEPT ![task[i].run].pid = TRUE]
    /\ Move(i, "await")
    /\ UNCHANGED <<loop, spec, call, daemon>>

\* Mutant of ProcEnds: a timeout drops the child without killing it.
ProcEndsUnkilled(i) ==
    /\ task[i].pc = "await"
    /\ \E o \in Outcomes :
         /\ Move(i, "settle")
         /\ IF o = "timeout"
            THEN FinishRun(task[i].run, "fail", "none") /\ UNCHANGED proc
            ELSE proc' = [proc EXCEPT ![task[i].run] = "none"] /\ UNCHANGED run
    /\ UNCHANGED <<loop, spec, call, daemon>>

\* The awaited child ends.  A timeout kills it and writes the row itself.
ProcEnds(i) ==
    /\ task[i].pc = "await"
    /\ LET r == task[i].run IN
       \E o \in Outcomes :
         /\ Become(i, [task[i] EXCEPT !.pc = "settle",
                                      !.verdict = IF o = "timeout" THEN "fail" ELSE o])
         /\ IF o = "timeout"
            THEN FinishRun(r, "fail", "none") /\ proc' = [proc EXCEPT ![r] = "dying"]
            ELSE proc' = [proc EXCEPT ![r] = "none"] /\ UNCHANGED run
    /\ UNCHANGED <<loop, spec, call, daemon>>

Passed(i)    == task[i].verdict = "pass"
Committed(i) == task[i].verdict = "commit"

\* The row is read back: an infra crash is retried, a run terminated from
\* outside ends the dispatch silently, a self-reported row gives the verdict.
Settle(i) ==
    /\ task[i].pc = "settle"
    /\ LET row == run[task[i].run] IN
       \/ /\ row.status = "running" /\ task[i].verdict = "crash"
          /\ task[i].node \in AgentNodes /\ task[i].retry < RetryLimit
          /\ Move(i, "retry")
       \/ /\ row.status = "running"
          /\ ~(/\ task[i].verdict = "crash" /\ task[i].node \in AgentNodes
               /\ task[i].retry < RetryLimit)
          /\ Move(i, "record")
       \/ /\ row.status # "running" /\ row.marker = "terminated"
          /\ Return(i)
       \/ /\ row.status # "running" /\ row.marker # "terminated"
          /\ IF Committed(i)
             THEN Move(i, "overrule")
             ELSE Become(i, [task[i] EXCEPT !.pc = "after", !.verdict = row.status])
    /\ UNCHANGED <<loop, spec, run, proc, call, daemon>>

\* Mutant of BeginRetry: the attempt is not counted.
BeginRetryUncounted(i) ==
    /\ task[i].pc = "retry"
    /\ FinishRun(task[i].run, "fail", "infra_crash")
    /\ Move(i, "backoff")
    /\ UNCHANGED <<loop, spec, proc, call, daemon>>

\* begin_infra_retry: persist the crashed attempt, then sleep.
BeginRetry(i) ==
    /\ task[i].pc = "retry"
    /\ FinishRun(task[i].run, "fail", "infra_crash")
    /\ Become(i, [task[i] EXCEPT !.pc = "backoff", !.retry = @ + 1])
    /\ UNCHANGED <<loop, spec, proc, call, daemon>>

\* Mutant of RecordResult: a pause is noticed before the result is written.
RecordUnlessPaused(i) ==
    /\ task[i].pc = "record"
    /\ IF loop.status = "paused"
       THEN Return(i) /\ UNCHANGED run
       ELSE FinishRun(task[i].run, "fail", "none") /\ Move(i, "after")
    /\ UNCHANGED <<loop, spec, proc, call, daemon>>

RecordResult(i) ==
    /\ task[i].pc = "record"
    /\ FinishRun(task[i].run, IF Passed(i) \/ Committed(i) THEN "pass" ELSE "fail", "none")
    /\ Move(i, IF Committed(i) THEN "overrule" ELSE "after")
    /\ UNCHANGED <<loop, spec, proc, call, daemon>>

\* A node that committed without commit rights fails, whatever its row says.
Overrule(i) ==
    /\ task[i].pc = "overrule"
    /\ FinishRun(task[i].run, "fail", "none")
    /\ Become(i, [task[i] EXCEPT !.pc = "after", !.verdict = "fail"])
    /\ UNCHANGED <<loop, spec, proc, call, daemon>>

\* Pause check, then the edge the verdict selects.  No edge after a pass
\* completes the spec; no edge after a fail is a dead end.
RouteVerdict(i) ==
    /\ task[i].pc = "after"
    /\ LET next == Edge[task[i].node][IF Passed(i) THEN "pass" ELSE "fail"]
       IN \/ /\ loop.status = "paused"
             /\ Return(i) /\ UNCHANGED spec
          \/ /\ loop.status # "paused" /\ next # NoNode
             /\ Become(i, [task[i] EXCEPT !.pc = "walk", !.node = next])
             /\ UNCHANGED spec
          \/ /\ loop.status # "paused" /\ next = NoNode /\ Passed(i)
             /\ SetSpecStatus(task[i].cur, "completed")
             /\ Move(i, "pick")
          \/ /\ loop.status # "paused" /\ next = NoNode /\ ~Passed(i)
             /\ Move(i, "deadEnd") /\ UNCHANGED spec
    /\ UNCHANGED <<loop, run, proc, call, daemon>>

(* How a spec ends badly.                                                  *)

\* The visit that is one too many, still on the task once the spec fails by it.
Overdue(i) == task[i].visits[task[i].node] > MaxIterations

OverBudget(i) ==
    /\ task[i].pc = "overBudget"
    /\ Terminate(RunningRuns)
    /\ Move(i, "count")
    /\ UNCHANGED <<loop, spec, call, daemon>>

\* record_terminal_blocker.
DeadEnd(i) ==
    /\ task[i].pc = "deadEnd"
    /\ FinishRun(task[i].run, "fail", "blocker")
    /\ Move(i, "count")
    /\ UNCHANGED <<loop, spec, proc, call, daemon>>

\* execution_is_infra_failure: a silent agent's output carries a marker, a
\* crashed one's does not; an exhausted node budget is never infrastructure.
Infra(i) == task[i].verdict = "silent" /\ ~Overdue(i)

\* record_spec_attempt: an infrastructure failure is not counted; a genuine
\* one is, and the budget decides whether the loop will fail or be blocked.
CountAttempt(i) ==
    /\ task[i].pc = "count"
    /\ LET s == task[i].cur
           n == spec[s].attempts + 1
       IN \/ /\ Infra(i)
             /\ Become(i, [task[i] EXCEPT !.pc = "failSpec", !.end = "failed"])
             /\ UNCHANGED spec
          \/ /\ ~Infra(i)
             /\ n <= MaxAttempts
             /\ spec' = [spec EXCEPT ![s].attempts = n]
             /\ Become(i, [task[i] EXCEPT
                  !.pc  = IF n < AttemptLimit THEN "failSpec" ELSE "blocker",
                  !.end = IF n < AttemptLimit THEN "failed" ELSE "paused"])
    /\ UNCHANGED <<loop, run, proc, call, daemon>>

\* set_run_blocker: over the failure a dead end ended with, or over whatever
\* the spec's last row says when its node budget ran out.
SetBlocker(i) ==
    /\ task[i].pc = "blocker"
    /\ \E r \in RunsOf(task[i].cur) :
         /\ IF Overdue(i) THEN IsLast(r, RunsOf(task[i].cur)) ELSE r = task[i].run
         /\ FinishRun(r, IF Overdue(i) /\ run[r].status = "pass" THEN "pass" ELSE "fail",
                      "blocker")
    /\ Move(i, "failSpec")
    /\ UNCHANGED <<loop, spec, proc, call, daemon>>

\* Mutant of FailSpec: the dispatch goes on to the next spec.
FailSpecGoesOn(i) ==
    /\ task[i].pc = "failSpec"
    /\ SetSpecStatus(task[i].cur, "failed")
    /\ Move(i, "pick")
    /\ UNCHANGED <<loop, run, proc, call, daemon>>

FailSpec(i) ==
    /\ task[i].pc = "failSpec"
    /\ SetSpecStatus(task[i].cur, "failed")
    /\ Move(i, "endCheck")
    /\ UNCHANGED <<loop, run, proc, call, daemon>>

\* Mutant of EndCheck: the comparison is the wrong way round.
EndCheckSwapped(i) ==
    /\ task[i].pc = "endCheck"
    /\ IF loop.startedAt = task[i].claimedAt THEN Return(i) ELSE Move(i, "endSet")
    /\ UNCHANGED <<loop, spec, run, proc, call, daemon>>

\* fail_loop and block_loop: the generation check, the status, the sweep.
EndCheck(i) ==
    /\ task[i].pc = "endCheck"
    /\ IF loop.startedAt = task[i].claimedAt THEN Move(i, "endSet") ELSE Return(i)
    /\ UNCHANGED <<loop, spec, run, proc, call, daemon>>

EndSet(i) ==
    /\ task[i].pc = "endSet"
    /\ SetLoopStatus(task[i].end)
    /\ Move(i, "sweep")
    /\ UNCHANGED <<spec, run, proc, call, daemon>>

Sweep(i) ==
    /\ task[i].pc = "sweep"
    /\ Terminate(RunningRuns)
    /\ Return(i)
    /\ UNCHANGED <<loop, spec, call, daemon>>

\* An Err out of run_loop_dispatch (an invalid graph, a node without a
\* command or platform, an ambiguous edge): the catch-all calls fail_loop
\* with no generation to check.
HardError(i) ==
    /\ "hard_error" \in Ops
    /\ task[i].pc \in {"start", "spawn", "after"}
    /\ Become(i, [task[i] EXCEPT !.pc = "endSet", !.end = "failed"])
    /\ UNCHANGED <<loop, spec, run, proc, call, daemon>>

DispatchStep(i) ==
    \/ Claim(i) \/ Prepare(i) \/ Pick(i) \/ Finish(i)
    \/ StartSpec(i) \/ Walk(i) \/ InsertRun(i) \/ SpawnProc(i)
    \/ ProcEnds(i) \/ Settle(i) \/ BeginRetry(i) \/ RecordResult(i) \/ Overrule(i)
    \/ RouteVerdict(i) \/ OverBudget(i) \/ DeadEnd(i) \/ CountAttempt(i)
    \/ SetBlocker(i) \/ FailSpec(i) \/ EndCheck(i) \/ EndSet(i) \/ Sweep(i)

-----------------------------------------------------------------------------
(* The MCP tools.                                                           *)

Idle(a) == call[a].step = "idle" /\ ~daemon.stopping

Unfinished == {s \in Specs : spec[s].status \in {"running", "pending", "interrupted", "failed"}}

\* Mutant of Blocked: a relaunch never looks for a blocker.
NeverBlocked == FALSE

\* build_loop_summary_json: the blocker on the last run of the current spec.
Blocked ==
    \E s \in Unfinished : /\ \A t \in Unfinished : s <= t
                          /\ \E r \in RunsOf(s) : /\ IsLast(r, RunsOf(s))
                                                   /\ run[r].marker = "blocker"

LoopRun(a) ==
    /\ "loop_run" \in Ops
    /\ Idle(a)
    /\ loop.status \in {"draft", "paused"}
    /\ loop.status = "paused" => ~Blocked
    /\ RunningRuns = {}
    /\ SpawnDispatch
    /\ UNCHANGED <<loop, spec, run, proc, call, daemon>>

\* request_pause: look, set the status, then kill what is running.
LoopPause(a) ==
    /\ "loop_pause" \in Ops
    /\ Idle(a)
    /\ loop.status = "running"
    /\ Begin(a, [IdleCall EXCEPT !.step = "pauseSet"])
    /\ UNCHANGED <<loop, spec, run, proc, task, daemon>>

PauseSet(a) ==
    /\ call[a].step = "pauseSet"
    /\ SetLoopStatus("paused")
    /\ Begin(a, [IdleCall EXCEPT !.step = "pauseSweep"])
    /\ UNCHANGED <<spec, run, proc, task, daemon>>

PauseSweep(a) ==
    /\ call[a].step = "pauseSweep"
    /\ Terminate(RunningRuns)
    /\ Hang(a)
    /\ UNCHANGED <<loop, spec, task, daemon>>

\* loop_continue: only a paused loop, and only if some spec is running; the
\* status is left to the resumed dispatch's own claim.
LoopContinue(a) ==
    /\ Idle(a)
    /\ loop.status = "paused"
    /\ \E action \in {"retry", "skip"} \cap Ops :
         Begin(a, [IdleCall EXCEPT !.step = "continue", !.arg = action])
    /\ UNCHANGED <<loop, spec, run, proc, task, daemon>>

RunningSpecs == {s \in Specs : spec[s].status = "running"}

ContinueApply(a) ==
    /\ call[a].step = "continue"
    /\ Hang(a)
    /\ \/ RunningSpecs = {} /\ UNCHANGED <<spec, task>>
       \/ /\ RunningSpecs # {}
          /\ IF call[a].arg = "skip"
             THEN \E s \in RunningSpecs : /\ \A t \in RunningSpecs : s <= t
                                          /\ SetSpecStatus(s, "skipped")
             ELSE UNCHANGED spec
          /\ SpawnDispatch
    /\ UNCHANGED <<loop, run, proc, daemon>>

\* reset_loop, first half: refused while a run is running; the targets are
\* every spec not completed, or the specs the caller names.
NotCompleted == {s \in Specs : spec[s].status # "completed"}

ResetTargets(a, S, named) ==
    /\ RunningRuns = {}
    /\ Begin(a, [IdleCall EXCEPT !.step = "resetApply", !.specs = S, !.named = named])

LoopReset(a) ==
    /\ "loop_reset" \in Ops
    /\ Idle(a)
    /\ \/ ResetTargets(a, NotCompleted, FALSE)
       \/ \E s \in Specs : ResetTargets(a, {s}, TRUE)
    /\ UNCHANGED <<loop, spec, run, proc, task, daemon>>

\* reset_loop, second half: the targets go back to pending and the loop to
\* draft, whatever either has become.  The scheduler then resumes the loop.
ResetApply(a) ==
    /\ call[a].step = "resetApply"
    /\ spec' = [s \in Specs |->
         IF s \in call[a].specs
         THEN [status |-> "pending",
               attempts |-> IF call[a].named THEN 0 ELSE spec[s].attempts]
         ELSE spec[s]]
    /\ loop' = [loop EXCEPT !.status = "draft"]
    /\ IF a \in Schedulers THEN SpawnDispatch ELSE UNCHANGED task
    /\ Hang(a)
    /\ UNCHANGED <<run, proc, daemon>>

\* loop_complete_node and loop_report_blocker: resolve_reported_run checks
\* that the row is running, and the result is written afterwards.
Reports == (IF "complete_node" \in Ops THEN Verdicts ELSE {})
             \cup ({"report_blocker"} \cap Ops)

Report(a) ==
    /\ Idle(a)
    /\ \E r \in RunningRuns, kind \in Reports :
         Begin(a, [IdleCall EXCEPT
                !.step = "report", !.run = r,
                !.arg = IF kind = "report_blocker" THEN "blocker" ELSE kind])
    /\ UNCHANGED <<loop, spec, run, proc, task, daemon>>

ReportWrite(a) ==
    /\ call[a].step = "report"
    /\ IF call[a].arg = "blocker"
       THEN /\ FinishRun(call[a].run, "fail", "blocker")
            /\ Begin(a, [IdleCall EXCEPT !.step = "blockPause"])
       ELSE /\ FinishRun(call[a].run, call[a].arg, "none")
            /\ Hang(a)
    /\ UNCHANGED <<loop, spec, proc, task, daemon>>

BlockPause(a) ==
    /\ call[a].step = "blockPause"
    /\ SetLoopStatus("paused")
    /\ Hang(a)
    /\ UNCHANGED <<spec, run, proc, task, daemon>>

\* loop_schedule_autorun: set the schedule, or cancel it.
ScheduleAutorun(a) ==
    /\ Idle(a)
    /\ \E due \in BOOLEAN :
         /\ (IF due THEN "autorun" ELSE "cancel_autorun") \in Ops
         /\ loop' = [loop EXCEPT !.autorun = due]
    /\ UNCHANGED <<spec, run, proc, task, call, daemon>>

(* The scheduler.                                                          *)

\* try_fire_loop on a due cron tick.
CronFire(a) ==
    /\ "cron" \in Ops
    /\ Idle(a)
    /\ IsFireable
    /\ SpawnDispatch
    /\ UNCHANGED <<loop, spec, run, proc, call, daemon>>

\* fire_due_autorun_loops works from the statuses it listed.
AutorunList(a) ==
    /\ Idle(a)
    /\ IsAutorunDue
    /\ Begin(a, [IdleCall EXCEPT !.step = "autorun", !.arg = loop.status])
    /\ UNCHANGED <<loop, spec, run, proc, task, daemon>>

AutorunFire(a) ==
    /\ call[a].step = "autorun"
    /\ loop' = [loop EXCEPT !.autorun = FALSE]
    /\ \/ call[a].arg = "completed" /\ Hang(a) /\ UNCHANGED task
       \/ /\ call[a].arg = "failed"
          /\ Begin(a, [IdleCall EXCEPT !.step = "autoReset"])
          /\ UNCHANGED task
       \/ call[a].arg \notin {"completed", "failed"} /\ Hang(a) /\ SpawnDispatch
    /\ UNCHANGED <<spec, run, proc, daemon>>

AutoReset(a) ==
    /\ call[a].step = "autoReset"
    /\ \/ ResetTargets(a, NotCompleted, FALSE)
       \/ RunningRuns # {} /\ Hang(a)
    /\ UNCHANGED <<loop, spec, run, proc, task, daemon>>

ToolStep(a) == \/ LoopRun(a) \/ LoopPause(a) \/ LoopContinue(a)
               \/ LoopReset(a) \/ Report(a) \/ ScheduleAutorun(a)

SchedulerStep(a) == CronFire(a) \/ AutorunList(a)

CallStep(a) == \/ PauseSet(a) \/ PauseSweep(a) \/ ContinueApply(a) \/ ResetApply(a)
               \/ ReportWrite(a) \/ BlockPause(a) \/ AutorunFire(a) \/ AutoReset(a)

-----------------------------------------------------------------------------
(* Processes nobody awaits, and the daemon's own end.                      *)

OrphanEnds(r) ==
    /\ proc[r] # "none"
    /\ r \notin Awaited
    /\ proc' = [proc EXCEPT ![r] = "none"]
    /\ UNCHANGED <<loop, spec, run, task, call, daemon>>

\* The runs that reconcile_orphaned_loops finds dangling: those still running
\* on a loop that is still running.
Dangling(stopped) == IF loop.status = "running" THEN RunningRuns \ stopped ELSE {}

\* Mutant of Survivors: reconciliation trusts that the children died too.
SurvivorsSpared(stopped) == {}

\* The dangling runs whose recorded pid is still that of a live process.
Survivors(stopped) == {r \in Dangling(stopped) : run[r].pid /\ proc[r] = "alive"}

\* A restart loses every task and call.  The stop before it, if it was one, has
\* killed and finalizes as terminated what it listed, and killed the dropped
\* children.  reconcile_orphaned_loops then acts on a loop that is still running:
\* its dangling runs are finalized as interrupted, the survivors among them
\* signalled, their specs become interrupted, and the loop is paused on
\* reconciliation's own account.
Restart(stopped, dropped) ==
    /\ daemon' = [restarts |-> daemon.restarts + 1, stopping |-> FALSE, listed |-> {}]
    /\ task' = [i \in Dispatches |-> IdleTask]
    /\ call' = [a \in Actors |-> IdleCall]
    /\ run' = [r \in RunIds |->
         IF r \in stopped THEN Finished(run[r], "fail", "terminated")
         ELSE IF r \in Dangling(stopped) THEN Finished(run[r], "fail", "interrupted")
         ELSE run[r]]
    /\ proc' = [r \in RunIds |->
         IF r \in dropped \/ (r \in stopped /\ proc[r] = "dying") THEN "none"
         ELSE IF r \in Survivors(stopped) THEN "dying"
         ELSE proc[r]]
    /\ spec' = [s \in Specs |-> IF \E r \in Dangling(stopped) : run[r].spec = s
                                THEN [spec[s] EXCEPT !.status = "interrupted"]
                                ELSE spec[s]]
    /\ loop' = IF loop.status = "running"
               THEN [loop EXCEPT !.status = "paused", !.byRecon = TRUE]
               ELSE loop

Crash ==
    /\ "crash" \in Ops
    /\ daemon.restarts < MaxRestarts
    /\ Restart({}, {})

\* terminate_all_running_node_processes_at_shutdown: no call comes in any
\* more; the runs that are running now are listed and their recorded pids
\* signalled.  The tasks go on through the grace period.
BeginStop ==
    /\ "stop" \in Ops
    /\ daemon.restarts < MaxRestarts
    /\ ~daemon.stopping
    /\ daemon' = [daemon EXCEPT !.stopping = TRUE, !.listed = RunningRuns]
    /\ proc' = [r \in RunIds |-> IF r \in RunningRuns /\ run[r].pid /\ proc[r] = "alive"
                                 THEN "dying" ELSE proc[r]]
    /\ UNCHANGED <<loop, spec, run, task, call>>

\* The end of the grace period: the listed runs are finalized, the daemon
\* returns, and its runtime drops the dispatch tasks, whose children are spawned
\* with kill_on_drop.
EndStop == daemon.stopping /\ Restart(daemon.listed, Awaited)

-----------------------------------------------------------------------------
Init ==
    /\ loop = [status |-> "draft", startedAt |-> 0, byRecon |-> FALSE, autorun |-> FALSE]
    /\ spec = [s \in Specs |-> [status |-> "pending", attempts |-> 0]]
    /\ run = [r \in RunIds |-> AbsentRun]
    /\ proc = [r \in RunIds |-> "none"]
    /\ task = [i \in Dispatches |-> IdleTask]
    /\ call = [a \in Actors |-> IdleCall]
    /\ daemon = [restarts |-> 0, stopping |-> FALSE, listed |-> {}]

Next ==
    \/ \E i \in Dispatches : DispatchStep(i) \/ HardError(i)
    \/ \E a \in Tools : ToolStep(a)
    \/ \E a \in Schedulers : SchedulerStep(a)
    \/ \E a \in Actors : CallStep(a)
    \/ \E r \in RunIds : OrphanEnds(r)
    \/ Crash
    \/ BeginStop
    \/ EndStop

Spec == Init /\ [][Next]_vars

\* Tokio polls every ready task, a started call finishes, a node's own timeout
\* ends its process, and the scheduler ticks every few seconds and then lists
\* what is due; no caller is obliged to call a tool.
Fairness ==
    /\ \A i \in Dispatches : WF_vars(DispatchStep(i))
    /\ \A a \in Actors : WF_vars(CallStep(a))
    /\ \A r \in RunIds : WF_vars(OrphanEnds(r))
    /\ \A a \in Schedulers : WF_vars(AutorunList(a))

FairSpec == Spec /\ Fairness

-----------------------------------------------------------------------------
(* What the loop promises.                                                 *)

\* A dispatch that has claimed the loop and still decides what it does next.
Driving(i) == task[i].pc \notin {"idle", "launch", "sweep"}

\* At most one dispatch drives the loop, and only while the loop says it is
\* running: the claim of run_loop_dispatch lets no second one in, through
\* failures, restarts and launches already on their way.
SingleDriver ==
    \A i \in Dispatches : Driving(i) =>
        /\ loop.status = "running"
        /\ \A j \in Dispatches : Driving(j) => i = j

\* The steps in which a task may hold a run row that is still running.
Holding == {"spawn", "await", "settle", "retry", "record", "endSet", "sweep"}

\* While the daemon lives, a running run row is held by a task that will
\* still finalize it, so no row is left to refuse every later loop_run and
\* loop_reset ("in flight").
RunningRunsOwned ==
    daemon.restarts = 0 =>
        \A r \in RunningRuns : \E i \in Dispatches : task[i].pc \in Holding /\ task[i].run = r

\* While the daemon lives, a child process that nobody has signalled is being
\* awaited by the task that spawned it: a timeout, a pause or a sweep never
\* lets go of a process without killing it.
LiveProcessesAwaited ==
    daemon.restarts = 0 =>
        \A r \in RunIds : proc[r] = "alive" =>
            \E i \in Dispatches : task[i].pc = "await" /\ task[i].run = r

\* A child that outlived a crash although its row had ended before it, by its own
\* report or by a termination that found no pid on the row yet: reconciliation
\* looks at running rows only, and nobody signals this one.
Stray(r) ==
    /\ daemon.restarts > 0
    /\ r \notin Awaited
    /\ run[r].status \in Verdicts /\ run[r].marker # "interrupted"

\* The checkout is worked in by one unsignalled process at a time, strays of a
\* crash apart: specs and nodes run strictly one after the other, and a child
\* that survives a crash with its row running is signalled before the next run.
OneLiveProcess ==
    \A q, r \in RunIds :
        proc[q] = "alive" /\ proc[r] = "alive" /\ q # r => Stray(q) \/ Stray(r)

\* A loop is marked completed only over specs that all are completed or
\* skipped, never over one that still has work.
CompletedMeansDone ==
    loop.status = "completed" =>
        \A s \in Specs : spec[s].status \in {"completed", "skipped"}

\* Specs run strictly in position order: while one is running, every earlier
\* one is completed or skipped, through pauses, skips and relaunches.
SpecsInOrder ==
    \A s \in Specs : spec[s].status = "running" =>
        \A t \in Specs : t < s => spec[t].status \in {"completed", "skipped"}

\* A spec with one of these statuses is started afresh, its visits forgotten.
FreshStatuses == {"pending", "interrupted", "failed"}

\* How often s may have been started afresh: once, and again after each counted
\* failure and each restart that interrupted it.
Eras(s) == spec[s].attempts + daemon.restarts
             + (IF spec[s].status \in FreshStatuses THEN 0 ELSE 1)

\* The per-node iteration budget outlives the dispatch: a spec that is paused
\* and resumed, or taken up again after a hard error, any number of times visits
\* a node MaxIterations times at most, each visit at most 1 + RetryLimit rows.
NodeBudgetHeld ==
    \A s \in Specs, n \in Nodes :
        Cardinality({r \in RunsOf(s) : run[r].node = n})
            <= MaxIterations * (1 + RetryLimit) * Eras(s)

\* The cross-run budget: a spec is not run again once it has failed
\* AttemptLimit times, except that each restart may interrupt the bookkeeping
\* of one failure after it was counted.
AttemptsBounded ==
    \A s \in Specs : spec[s].attempts <= AttemptLimit + daemon.restarts

\* A completed spec is never executed again by a later dispatch.
CompletedStays ==
    [][\A s \in Specs : spec[s].status = "completed" => spec'[s].status = "completed"]_vars

\* A loop that is running stops running: retries, the iteration budget and
\* the finite spec list bound what one dispatch can do.
LoopSettles == loop.status = "running" ~> loop.status # "running"

\* A pause that only a restart imposed does not swallow a schedule that is due:
\* the scheduler launches the loop again (is_autorun_due), unless the daemon goes
\* down once more, whatever resets and cron launches come in between.
AutorunServed ==
    \A k \in 0..MaxRestarts :
        (/\ loop.autorun /\ loop.status = "paused" /\ loop.byRecon
         /\ daemon.restarts = k)
            ~> (loop.status = "running" \/ daemon.restarts > k)

\* A paused loop comes to rest, or is taken out of the pause by someone: the
\* pause reaches every task that drives it, a sleeping retry included.
PauseStops ==
    loop.status = "paused" ~> (loop.status # "paused" \/ \A i \in Dispatches : ~Driving(i))

(* What comments in the code claim, and the code does not keep.            *)

\* A node run's verdict, once recorded, stands: a report is applied only to a
\* run that is still running (resolve_reported_run).
VerdictStays ==
    [][\A r \in RunIds : run[r].status \in Verdicts => run'[r].status = run[r].status]_vars

\* An infrastructure failure never consumes the cross-run attempt budget
\* (execution_is_infra_failure): a dead end reached by a crashed or silent
\* agent run leaves the count alone.
InfraNeverCounts ==
    [][\A i \in Dispatches :
         /\ CountAttempt(i) /\ ~Overdue(i)
         /\ task[i].node \in AgentNodes /\ task[i].verdict \in {"crash", "silent"}
         => spec' = spec]_vars

=============================================================================
