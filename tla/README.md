# agent-canopy: a formal model

TLA+ modules, TLC configurations and TLAPS proofs kept beside the Rust sources of
agent-canopy. They are about the parts of the daemon that run things on somebody's behalf:

* the *loop engine*, which takes a loop (a graph of agent and check nodes, plus an ordered
  list of specs or a live queue of them), runs every spec through the graph one child
  process at a time, or one ensemble at a time, and shares its SQLite rows with MCP tool
  calls, a cron scheduler, the agents themselves, and the next start of the daemon;
* the *executor* of background agents, which cron, file watchers and `agent_run` fire at
  any moment, and which must run each agent once at a time.

Every definition is translated from the Rust source; `PROJECT.json` names, for each
definition, the file and lines it stands for.

## 1. The system

| Part | State it keeps | Operations | Hard behaviour | What makes it correct |
|---|---|---|---|---|
| Loop engine, bound specs (`loop_engine.rs`) | per dispatch: claimed second, spec list read at launch, cursor, iteration counts, retry number | claim, pick a spec, run a node, retry a crash, route by verdict, fail, block, complete | several dispatches of one loop; a process awaited for hours while others write its row | one driver, a running loop ends, completed means done |
| Loop rows (`db/loops.rs`) | `loops`, `loop_specs`, `loop_runs` | status writes, `claim_loop_for_run`, `reset_loop`, `reconcile_orphaned_loops` | each call locks alone; check and write are mostly two calls | no running row without an owner, no completed spec run again |
| MCP tools (`daemon/handler.rs`) | none of their own | `loop_run`, `loop_pause`, `loop_continue`, `loop_reset`, `loop_complete_node`, `loop_report_blocker`, `loop_schedule_autorun`, and many that only edit or list | check, then act, against a live dispatch | a refused call changes nothing; a late report does not stick |
| Cron scheduler (`scheduler/cron_scheduler.rs`) | ticks, in-flight set, retries | fire agents and loops, due autoruns, auto-continue, send queues | works from a listing that ages while it acts | a loop is launched once; ticks are not lost |
| Agent execution (`executor/mod.rs`, `db/run.rs`) | `runs`, the agent's lock | `try_start_run`, `resolve_timeout`, `finalize_run` | timeout against a late end, retry against the next tick | one execution of an agent at a time |
| Live queues (`db/queues.rs`) | ordered members of a queue | append, remove, reorder, pick the next pending member | picked live while edited, one queue under several loops | no member lost or run twice |
| Ensembles (`loop_engine.rs`, `db/ensembles.rs`) | members of a join, one semaphore of the engine | run members concurrently, join by quorum, straggler timeout | everyone waits for permits | the join ends; its verdict counts every member once |
| Daemon start and stop (`daemon/server.rs`, `daemon/process.rs`) | pid file, child processes | lock, reconcile, serve, terminate children at shutdown | a crash or a stop between any two writes | nothing runs unwatched, no loop stays running |
| Watchers, scheduled sends, project and sync stores, retrieval index, TUI, setup, doctor, clean, transfer, auto-update | rows, files | one-shot or read-only | none of their own beyond the above | — |

The parts meet in the database. A dispatch is a tokio task spawned by a tool call or by
the scheduler; it holds nothing but local variables and a child process, and learns of a
pause, a reset or a report only by re-reading rows. Tool calls signal the process whose
pid a row records. A restart loses every task and leaves rows and processes behind.

`PROJECT.json` lists the components with what is and is not modelled of each, and under
`hazards` each place where this code can go wrong in a way that a test hardly reaches.

## 2. Modules

| Module | Contents |
|---|---|
| `AgentLock` | abstract: the right to run an agent is a token |
| `AgentRuns` | the runs of one background agent: rows, processes, executor tasks, the scheduler's retries and `in_flight`, reports, deletion, restart; implements `AgentLock` |
| `AgentRunsProofs` | its invariants and the refinement |
| `LiveQueue` | one loop that draws from a live queue, and the tools that edit the queue |
| `LiveQueueProofs` | its type correctness, and what completed means |
| `EnsembleJoin` | abstract: what the join of an ensemble promises |
| `Ensembles` | the ensembles of several loops under one semaphore; implements `EnsembleJoin` |
| `EnsemblesProofs` | its invariants and the refinement |
| `MCAgentRuns`, `MCLiveQueue`, `MCEnsembles` | the instances for TLC |
| `LoopDispatch` | one loop: its rows, dispatches, child processes, tools, scheduler, crash and stop; its properties |
| `MCLoopDispatch` | two graphs and the symmetry set for TLC |
| `LoopDispatchProofs` | type correctness; every running row and every live process has an owner |
| `LoopDriverProofs` | one dispatch drives the loop; one process works in the checkout, strays of a crash apart |
| `LoopOrderProofs` | specs run in order, once, and to the end before the loop says completed |
| `LoopBudgetProofs` | how often a spec may fail across launches |
| `LoopVisitProofs` | how often a spec may visit a node across pauses |

Each of the three last builds on the one before it.

### How `LoopDispatch` corresponds to the code

| Variable | In the code |
|---|---|
| `loop` | the `loops` row: status, `started_at` in seconds (the generation that `fail_loop` compares), `paused_by_reconciliation`, whether `autorun_at` is due |
| `spec` | the `loop_specs` rows: status and `cross_run_attempts` |
| `run` | the `loop_runs` rows in insertion order; of the output JSON only the key that later code looks for (`marker`), and whether a pid is recorded |
| `proc` | the child of each run: none, alive, or dying (SIGTERM sent, SIGKILL due) |
| `task` | the dispatch tasks: `pc` names the next statement that another actor can observe, the other fields are the locals of `run_loop_dispatch` and `run_spec` |
| `call` | a tool call or scheduler pass that has read and not yet written |
| `daemon` | restarts so far; whether a stop is under way and the runs it listed |

An action is one database write together with the reads just before it that no other
write can invalidate. Where the code checks and then writes in two calls, the model has
two actions: `LoopPause`, `PauseSet`, `PauseSweep`; `LoopReset`, `ResetApply`; `Report`,
`ReportWrite`; `AutorunList`, `AutorunFire`, `AutoReset`; `EndCheck`, `EndSet`, `Sweep`;
`DeadEnd`, `CountAttempt`, `SetBlocker`, `FailSpec`.

A dispatch goes `launch` (`Claim`) → `prepare` → `pick` → for each spec `start` → `walk` →
`insert` → `spawn` → `await` → `settle` → `record` → `after` (`RouteVerdict`), and from
there back to `walk`, on to `pick`, or by `deadEnd` / `overBudget`, `count`, `blocker`,
`failSpec` and `endCheck` out of the loop.

Abstractions, all of data or of statements nobody else can see between:

* spawning a child and recording its pid is one step, the insertion of its row another;
* the rows one sweep finalizes are written in one step, and so are the specs and the loop
  that one reset takes back;
* agent and check nodes differ only in whether a quick crash is retried (`AgentNodes`); a
  child ends as `pass`, `fail`, `silent` (no output or no report), `crash`, `timeout` or
  `commit` (it moved HEAD at a node without commit rights);
* a router's choice among labelled edges, prompts, sessions and outputs are not there;
* "the last row" of a spec is the last one inserted; the code sorts by `started_at`, a whole
  second, and then by iteration, which differs only for rows of different nodes within one
  second;
* a graceful stop ends in `EndStop`: `run_http_server` returns, the runtime of `main` is
  dropped with the dispatch tasks in it, and their children are killed (`kill_on_drop`). A
  crash (`Crash`) drops nothing, and its children live on;
* a reboot between two daemons is a restart after which `OrphanEnds` has ended every
  process.

### How `AgentRuns` corresponds to the code

| Variable | In the code |
|---|---|
| `inFlight` | whether the scheduler's `in_flight` set holds the agent |
| `run` | the `runs` rows: status (success, error and timeout are one, "over"), whether `finished_at` is set, whether `timeout_at` has passed |
| `alive` | the runs whose CLI process is alive |
| `task` | the tokio tasks inside `run_agent`; those of the scheduler (`cron`) inside `run_with_retry` |
| `call` | an `agent_report` that has passed its checks and not yet written |

An execution goes `begin` (`Refuse`, `Resolve`) → `unlock` → `claim` → `await` → `close`,
and for the scheduler `wait` → `Retry` → `begin`. What is read and used later is split:
`resolve_timeout` reads any one active row and then writes it (`Resolve`, `Unlock`);
`finalize_run` reads the row and then closes it (`Await`, `Close`); `agent_report` checks
and then writes (`AgentReport`, `Report`). `try_start_run` looks and inserts under one lock,
and is one action (`Claim`). Whether the agent is enabled or expired, which file changed and
which minute it is decide only whether a fire happens, and in the model one may happen at
any time. The slots of `RunIds` are reused: a row that is over and that nobody refers to
any more stands for the next new row.

### How `LiveQueue` corresponds to the code

| Variable | In the code |
|---|---|
| `members` | the `queue_members` rows by position |
| `spec` | the status of each `loop_specs` row |
| `open` | the specs with a `loop_runs` row of this loop that says running |
| `loop` | the loop's status, and whether `active_run_queue_id` names the queue |
| `task` | the dispatch, from `empty_launch_check` through the live-pick loop; `seen` is not in the code, it remembers what the last look found done |
| `call` | `queue_remove_spec`, `queue_reorder` or `loop_reset` between its read and its write |

A dispatch goes `launch` → `claim` → `context` → (`take`, on a resume) → `pick` → `start` →
`work` → `pick` ..., and ends by `check` → `complete`, by `fail` or, out of attempts, by
`block`. What happens inside a spec is one of its outcomes (`WorkEnds`), after any number of
rows opened and closed (`OpenRow`, `CompleteNode`). `loop_report_blocker` is not among the
operations here. `Restart` is `reconcile_orphaned_loops` followed by
`reconcile_stranded_queue_specs`, after a mere crash of the daemon or a reboot of the
machine (`rebooted`), on Linux, where `boot_id` is the kernel's. A spec is in a queue once, so
the delete of a member is `RemoveAt` its place.

### How `Ensembles` corresponds to the code

| Variable | In the code |
|---|---|
| `loop` | each loop's status, running or not |
| `join` | each loop's `execute_ensemble`: idle, gathering its `JoinSet`, joined with a verdict, or given up |
| `moved` | whether HEAD has moved since `CommitRightsWatch::begin`, where no member may commit |
| `member` | the task of each member and the status of its last row |
| `alive` | the members whose process is alive |
| `permits` | the free permits of `ensemble_concurrency` |

A member goes `queued` → `spawn` → `work` → (`crashed` → `backoff` → `spawn`)* → `verdict` →
`done`, and from any place inside the timeout to `straggled` → `done`. The permit is taken
before `spawn` and dropped when the task returns. `Abort` is a failing insert: the `JoinSet`
is dropped and its tasks stop at an await (`Cancelled`), their processes with them.

### Bounds

In `LoopDispatch`, `Dispatches` bounds the tasks alive at once, `Tools` and `Schedulers` the calls in
progress, `MaxRuns` the rows, `MaxAttempts` the counter, `MaxSecond` the distinct seconds
of `started_at`, `MaxRestarts` the restarts; `Ops` says which callers a run has.
`MaxIterations`, `RetryLimit` and `AttemptLimit` are the code's own limits, made small.
Two dispatches are enough for every race in the source (winner and loser of a claim,
stale and fresh dispatch); one tool call interleaves with dispatches and scheduler; two
specs are enough for "the next one" and "an earlier one"; in the liveness runs `MaxRuns`
is larger than the number of rows any behaviour needs, so nothing stops for want of rows.

In `AgentRuns` two executor tasks are any race for the lock, two rows a process that
outlives its run while another has the lock, one report in progress a late one, and one
retry both "more left" and "none left". In `LiveQueue` two specs let one be ahead of the
other in either order and one call in progress is an edit under the dispatch; `MaxReopens`
bounds how often `spec_set_status` gives a finished spec back. In `Ensembles` one loop has
two members and another one, which compete for two permits; one of the three has a retry;
one loop is watched for commits and one is not.

## 3. What TLC checks

| Run | Properties | What it shows |
|---|---|---|
| `launch` | `TypeOK`, `SingleDriver`, `OneLiveProcess` | `loop_run` and cron race launches of one loop, with late reports, hard errors and a crash of the daemon: one dispatch drives the loop, only while it is running; one unsignalled process works in the checkout, except beside a stray, a child that outlived the crash although its row had ended before |
| `settles` | `LoopSettles`, `CompletedStays`, `CompletedMeansDone`, `AttemptsBounded` | every outcome of every node over two specs, relaunches, a crash and a graceful stop: a running loop stops running, no spec is done twice or dropped, the cross-run budget holds |
| `pause` | `PauseStops`, `NodeBudgetHeld`, `SpecsInOrder` | an operator pauses, skips, retries and relaunches at any moment: the pause reaches even a sleeping retry, resuming gives no fresh node budget (only a counted failure or a restart does), and specs run in order |
| `operator` | `RunningRunsOwned`, `LiveProcessesAwaited` | two dispatches overlap after a pause and a relaunch, by a tool or by cron: no row stays running and no child lives on without a task that will end it |
| `scheduler` | `AutorunServed` | cron, autorun, reset, pause and a crash drive the loop: a due schedule is served although the restart has paused the loop |
| `agent_runs` | `TypeOK`, `OneUnfinishedRun`, `InFlightHeld`, `HoldsLock`, `ChainEnds`, `LockFrees` | whatever fires, reports, times out, deletes or restarts, at most one run of the agent is unfinished and the lock passes only through being free; a retry series ends; a run nobody will finalize does not lock the agent out |
| `live_queue` | `TypeOK`, `LivePickup`, `QueueSettles`, `CompletedOverDone`, `ResumeReturns` | under every edit of the queue a dispatch passes nothing over, a resume returns to the member it left, and completed means done as far as the dispatch has looked |
| `ensembles` | `TypeOK`, `CapHeld`, `NoProcessOutlives`, `RowsClosed`, `QuorumOfAll`, `Settles` | every round ends although loops hold permits others wait for; its verdict is the quorum of all votes; it leaves no process and no running row |
| `late_report` | `VerdictStays` (violated) | see finding 1 |
| `infra_budget` | `InfraNeverCounts` (violated) | see finding 2 |
| `scheduler_race` | `SingleDriver` (violated) | see finding 3 |
| `stranded_member` | `NoneRunningAtBoot` (violated) | see finding 4 |

Deadlock checking is off in the runs of `LoopDispatch`, where a loop that is completed,
failed or paused rests until somebody calls and the bounds end every behaviour, and in
`live_queue` and `agent_runs`, where a queue, or an agent all of whose slots are taken, may
rest as well. It is on in `ensembles`: no set of loops waits for one another for good.

**Fairness.** `FairSpec` has weak fairness of each dispatch's steps (tokio polls a ready
task; an awaited child ends, at the latest by the node's timeout), of a call that has
started (no tool waits for anything but the database lock), and of a signalled or
abandoned child ending; and of `AutorunList`, the scheduler's tick, which comes every few
seconds. Nobody is obliged to call a tool, to set a schedule, to crash or to stop.
`LiveQueue` has the same for its dispatch and calls; that a node opens a row is not fair.
`AgentRuns` adds that processes exit and deadlines pass, and gives `Claim` strong fairness
only because the slots of `RunIds`, a bound of the model, may be taken for a moment.
`Ensembles` assumes of a member's process nothing at all: `WorkEnds` has no fairness, and
`Settles` holds because the straggler timeout, which is always set, cuts it off. `Acquire`
has strong fairness because tokio's semaphore serves its waiters in turn.

`SingleDriver` and `OneLiveProcess` are claimed without pauses, resets and autorun. With a
pause two dispatches can overlap: the paused one may sleep in a retry's backoff, or stand
between the insert of a row and the recording of its pid, while the loop is relaunched.
That is how the code is built (the stale one is superseded later), and what must still
hold is what `operator` checks. Two dispatches under autorun or `loop_reset` are too many
states for a run; the ownership theorems of section 4 speak of those too, and
`scheduler_race`, which also cancels schedules, shows what goes wrong.

Ownership is claimed until the first restart: a restart may leave rows of a loop that is no
longer running, which reconciliation does not look at. `OneLiveProcess` goes on after a
restart, but with an exception (`Stray`): a child whose row ended before the crash, by its
own report or by a termination that found no pid on the row yet, is alive, on no row that
says running, and signalled by nobody, so the next dispatch may work beside it.
`AutorunServed` is claimed until the daemon goes down once more.

### Findings

1. **A late report replaces a verdict.** `resolve_reported_run` checks that the row is
   running, the tool writes in a second call, and a timeout, a pause or a sweep in between
   is overwritten, although the comment says the check closes that gap.
2. **A crash counts after all.** "An infra failure never consumes the persisted cross-run
   attempt budget", but the marker that says so is written only on attempts that are
   retried; the last crash carries none and is counted.
3. **Cron and autorun launch the same loop.** The autorun pass resets a failed loop by the
   status it listed. If cron has fired it and its dispatch has claimed it, with no run row
   inserted yet, the reset sets it back to draft and the autorun's dispatch claims it too.
4. **A member stays running across a restart.** The boot pass resets members with "no active
   node run in this daemon's lifetime", but compares boot ids, which are the machine's. After
   a crash of the daemon without a reboot, a row left running under a loop that was already
   paused bears the current boot id; the member stays running, and `loop_run` and
   `loop_reset` are refused until the row is reported or the loop continued.

### What the models show beside the findings

No run is spent on the following; each is a behaviour of the model that a reader of the
code may not expect.

* **Loops.** `NodeBudgetHeld` grants a spec one budget per `Eras`, because a spec taken up as
  pending, failed or interrupted forgets its visits: every counted failure and every restart
  that interrupts it hands out a fresh node budget. So does the failure of a silent agent,
  which is not counted, so that relaunches of such a spec are bounded by nothing. `loop_run`
  looks for a blocker before it spawns the dispatch, and the claim looks only at the status:
  a launch that was checked before a paused loop's stale dispatch wrote its blocker runs the
  blocked spec again, past the attempt limit. A late `loop_complete_node` (finding 1) removes
  a blocker with the output it replaces, to the same effect. A skip leaves the row of the node
  it skips as it is; if the relaunched loop is then restarted, reconciliation interrupts the
  skipped spec, which runs again behind its successors. A graceful stop lists the running runs
  once, and the dispatches live on through the grace period: a node that starts meanwhile is
  neither signalled nor finalized by the shutdown. Its child is killed when the runtime drops
  the dispatch (the direct child, not its process group); its row says running until the next
  start reconciles it.
* **Executor.** Two processes of one agent can be alive at once: the timeout unlocks the
  agent and leaves the process alone, although the comment at `start_run` speaks of "no two
  overlapping executions". What is exclusive is the unfinished run (`OneUnfinishedRun`). A
  late `in_progress` makes a finished row look active again; fires are then missed until
  its deadline, and `LockFrees` says that is the worst. A scheduled execution that finds
  the lock taken returns -1, which counts as a failure and consumes a retry.
* **Queue.** A reorder rebuilds the queue from the list it read, so a member appended in
  between is dropped. Skipping the last running member makes the resume refuse, and the
  loop stays paused over a queue that is finished. A loop paused over a blocked member "needs
  a human, not another relaunch", but `loop_run` looks for the blocker among the bound specs,
  never among the queue's members: the relaunch passes the blocked member over, runs what is
  pending behind it, or finds nothing and leaves the loop running. Any dispatch that finds a
  member failed or running, and nothing runnable, returns and leaves the loop running
  (`QueueSettles` states exactly this much).
* **Ensembles.** A paused loop's queued members still get their permit and spawn a process
  on a row that is already finalized; a retry inserts and spawns under a paused loop. A
  member whose report arrives as it times out has a row that says pass and a vote against.
  A member whose database call fails leaves its row running until the next sweep.

## 4. What TLAPS proves

**Loops.** Parameters are arbitrary: any graph, any number of specs, nodes, tasks, callers and rows,
under the assumptions named in `LoopDispatch` (`SpecsAssumption`, `GraphAssumption`,
`OutcomesAssumption`, `OpsAssumption`, `BoundsAssumption`), which say that limits are
natural numbers and that edges lead from nodes to nodes or to `NoNode`.

* `TypeCorrect`: `Spec => []TypeOK`. `TypeOK` is not inductive: a row's iteration number
  is in range only because the task was within its budget, and tasks look up a spec, a node
  and a row that must be there. `IInv` adds this (`GoodTask`, `GoodRow`, `GoodCall`), and
  that the rows referred to by tasks, reports and a stop exist. There is one lemma per
  action.
* `RowsOwned`: `Spec => []RunningRunsOwned`, by induction over `IInv`: a step either
  leaves the row with its owner, finalizes it, or is the insertion that creates both.
* `ProcessesAwaited`: `Spec => []LiveProcessesAwaited`: only `SpawnProc` makes a process
  alive, and only `ProcEnds` takes its task out of `await`.
* `OneDriver`, `OneProcess`: `SingleDriver` and `OneLiveProcess` for every instance whose
  `Ops` are launches, reports of a verdict, hard errors, crashes and stops (`LaunchOps`).
  The strengthening `DriverInv` says that a driver excludes a second one, that the loop is
  then running, and that no autorun is due nor any call in progress that would write the
  loop's status. `OneProcess` rests on `ProcessInv`, which goes through crashes and stops: an
  unsignalled process is awaited or a stray, because a restart signals the survivors whose
  row says running (`Survivors`) and a stop kills the children of the dispatches it drops;
  the awaited one is the driver's, and `OneDriver` has a single driver.

**The order of specs** (`LoopOrderProofs`). `SpecsRunInOrder`, `CompletedIsDone` and
`CompletedForGood` state `SpecsInOrder`, `CompletedMeansDone` and `CompletedStays`. None of
them is inductive: a dispatch works from the list it read at launch (`snap`), so the invariant
must say what that list still knows. `Order` is

* `OrderInv`: the three properties, and of each dispatch that what is before its cursor is
  done, that its list is right about what is behind it, and that the spec at the cursor is
  running (`Cursor`); a loop that is completed has no driver; no reset is under way;
* `RowInv`, where there are restarts: at most one row is running, the last one of the one spec
  that is running. Reconciliation interrupts the specs of running rows by name, and this is
  what makes it interrupt the right one.

The hypotheses are conditions under which the code keeps the order, and it does not without
them. `OrderedOps` excludes resets, which take back the specs they are told to, the schedules
that lead to one, and the pair of
a skip and a restart (see *Loops* above). `NoOverlap`, a hypothesis about the behaviour,
excludes two drivers at once: after a pause and a relaunch the stale dispatch may go on for a
few steps with the old list. It is no restriction where a behaviour has one dispatch, as in
the runs `settles` and `pause`; and where nothing pauses or resets the loop (`LaunchOps`) it
follows from `OneDriver`, so that `LaunchesKeepOrder` needs no hypothesis about behaviours.

**The cross-run budget** (`LoopBudgetProofs`). `AttemptsWithinBudget` states `AttemptsBounded`.
The count is raised first, and then a blocker, a failed spec and a pause follow in three more
writes. `BudgetInv` therefore says (`Spent`) that a spec whose budget is used up is on its way
through those writes (`Blocking`), or lies under a paused loop, all tasks at rest, as the first
spec that is not done, with a blocker in its last row (`Parked`). This is where `loop_run`
looks for it and refuses; the rest of `BudgetInv` says that the row a dispatch holds is the
last one of its spec, and that the generation of the loop is the driver's, without which
`EndCheck` would give up the pause. `Alone` has a loop launched only when no dispatch drives
it, a launch that is still to claim it included, and `BudgetOps` excludes
`loop_complete_node`; *Loops* above has what happens otherwise.

**The node budget** (`LoopVisitProofs`). `NodeBudgetKept` states `NodeBudgetHeld`, and
`LaunchesKeepNodeBudget` does so without a hypothesis about behaviours. The visits live in the
task and are rebuilt from the rows, as the highest iteration recorded (`IterationsAt`), so the
invariant relates three things: `NoGap`, the iterations recorded of a node have no gap, hence
the highest is their number; `Counts`, the rows of a visit are those that earlier eras may
have left and one per attempt; and `InEra`, `InVisitRetries`, the task's visits and retry
number are those of its rows. A bound on each visit becomes a bound on a node by an injection
of the rows into visits and attempts (`LabelledCount`). Silent agents are excluded for the
reason given above.

**Agents.** `AgentRunsProofs` assumes only that `NoRun` is no run and that `MaxRetries` is a
natural number. `IInv` is `TypeOK`, `OneUnfinishedRun`, and

* `TasksInv`: `InFlightHeld`, and that a series which waits has a retry left
  (`WaitsInBudget`), without which `Retry` would leave the range of `attempt`;
* `RowsInv`: an unfinished row is active (`RowShape`); the converse fails, because a late
  report makes a finished row active again without clearing its `finished_at`.

`OneUnfinishedRun` is not inductive without the second: it is what lets `Claim`, which looks
for *active* rows, conclude that no row is *unfinished*. `LockIsExclusive`, `FlightIsExact`
and `TypeCorrect` follow; `RunsImplementLock` maps the unfinished run to `holder`, and shows
of each action that it leaves the holder alone, releases the token (`Unlock`, `Close`,
`Report`, `AgentRemove`) or acquires it from nobody (`Claim`).

**Ensembles.** `EnsemblesProofs` assumes finitely many members in position order, positive
quorums and a positive cap. `IInv` has `MembersInv` (types; a crashed or sleeping attempt has
a retry left; a member that is done has voted, and its row is closed unless it failed on an
error), `LoopsInv` (a verdict belongs to a round that is joined, whose members are all done),
`AliveInv` (a process belongs to a member at work), `PermitsInv` (free permits and holders add
up to `Cap`) and `RestInv` (the remaining types).
`CapIsHeld` needs the third and the fourth together, with the cardinality facts of the
library; `NothingOutlives` follows from `AliveInv` and `LoopsInv`, `RowsAreClosed` from
`MembersInv`;
`EnsemblesImplementJoins` shows of each action that it is a vote, a decision, a clearing of
the round or a stutter of `EnsembleJoin`.

**Queues.** `LiveQueueProofs` assumes finitely many specs (`SpecsAssumption`). `TypeCorrect`
rests on lemmas about queues as sequences without repetition: appending a spec that is no
member, removing a place and permuting the list keep them so. `CompletionIsHonest` needs
`SeenDone`: between the look of `Check` and the write of `Complete`, whatever is edited, a
member seen done is still done or was put back to pending, because only the dispatch itself
marks a spec running and only its restart interrupts one.

Every invariant and every action property of a passing run is stated by one of these theorems.
Only model-checked are the liveness properties, which the prover does not reach: `LoopSettles`,
`PauseStops`, `ChainEnds`, `LockFrees`, `LivePickup`, `QueueSettles`, `ResumeReturns`,
`Settles` and `AutorunServed`; and, of `LoopDispatch` with pauses, the order and the budgets for behaviours in
which two dispatches overlap are not claimed at all.

## 5. Plan

1. `LoopContract`: what an operator is promised of one loop (status, specs done, attempts),
   with `LoopDispatch` and `LiveQueue` as its implementations.
2. Two loops on one queue; auto-continue schedules and router edges in `LoopDispatch`; a
   restart in the middle of an ensemble; renaming an agent while it runs.

**Not modelled, and not planned.** HTTP and stdio transports, prompts and sessions, the
TUI, setup, wizard, doctor and clean commands, loop transfer, the retrieval index,
auto-update, scheduled sends and project synchronisation. They are input and output,
formatting, or single commands over rows whose protocol is the one modelled here.

**Left out of a model, and why.** `LoopDispatch`: router labels, sessions, archive.
`AgentRuns`: the columns of the agents row (`trigger_count`, `last_run_at`), which nothing
that starts a run reads back; the missed rows, which nothing reads or changes. `LiveQueue`: a
second dispatch of the same loop and everything inside `run_spec`, which `LoopDispatch` has;
specs that are bound to a loop; context groups. `Ensembles`: a restart during a round, after
which nothing of the round is left but rows that the reconciliation finalizes; the gap
between the check and the write of a report, which `LoopDispatch` has; blocker reports; the
commit watch when HEAD cannot be read; the cold start after a failed resume.
