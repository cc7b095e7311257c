----------------------------- MODULE AgentRuns ------------------------------
(***************************************************************************)
(* The runs of one background agent: the rows, the processes, and          *)
(* everything that may start one at the same moment - the cron scheduler   *)
(* with its retries, a file watcher, agent_run - beside the reports the    *)
(* processes send and agent_remove, which deletes the rows.                *)
(*                                                                         *)
(* The agents row and the watchers decide only whether a fire happens; here*)
(* one may happen at any time, so whatever the tools do to them is covered.*)
(*                                                                         *)
(* As in LoopDispatch, an action is one database write with the reads just *)
(* before it that no other write can invalidate; a read whose result is    *)
(* used after somebody else may have written is an action of its own.      *)
(* Slots for tasks and rows are interchangeable, so a new one always takes *)
(* the same free slot.                                                     *)
(***************************************************************************)
EXTENDS Naturals, FiniteSets

CONSTANTS
    Tasks,        \* slots: bound on the executor tasks alive at once
    Calls,        \* slots: bound on the reports in progress at once
    RunIds,       \* slots: bound on the runs rows anything still refers to
    NoRun,        \* "no run"
    MaxRetries    \* RetryPolicy::max_retries (0 when retries are disabled)

ASSUME NoRunAssumption   == NoRun \notin RunIds
ASSUME RetriesAssumption == MaxRetries \in Nat

VARIABLES
    inFlight,  \* whether the scheduler's in_flight holds the agent
    run,       \* the runs rows
    alive,     \* the runs whose CLI process is alive
    task,      \* executor tasks
    call       \* reports in progress

vars == <<inFlight, run, alive, task, call>>

Active == {"pending", "in_progress"}

\* success, error and timeout count alike: the row is "over".  late: timeout_at
\* has passed.  finished: finished_at is set.  The rows of missed fires are not
\* kept: nothing ever reads or changes one.
RunRow == [status : Active \cup {"over", "absent"}, finished : BOOLEAN, late : BOOLEAN]

AbsentRow == [status |-> "absent", finished |-> FALSE, late |-> FALSE]

TaskPcs == {"idle", "begin", "unlock", "claim", "await", "close", "wait"}

\* cron: spawned by the scheduler, which looks at the exit code (ok) and
\* retries; agent_run and watchers look at neither.
Task == [pc : TaskPcs, cron : BOOLEAN, run : RunIds \cup {NoRun}, ok : BOOLEAN,
         attempt : 0..MaxRetries]

IdleTask == [pc |-> "idle", cron |-> FALSE, run |-> NoRun, ok |-> FALSE, attempt |-> 0]

\* A report that passed its checks and is to be written; run is NoRun when none.
Call == [run : RunIds \cup {NoRun}, status : Active \cup {"over"}]

IdleCall == [run |-> NoRun, status |-> "over"]

TypeOK ==
    /\ inFlight \in BOOLEAN
    /\ run \in [RunIds -> RunRow]
    /\ alive \subseteq RunIds
    /\ task \in [Tasks -> Task]
    /\ call \in [Calls -> Call]

-----------------------------------------------------------------------------
(* Rows and tasks.                                                         *)

ActiveRuns == {r \in RunIds : run[r].status \in Active}

\* Mutant of SetStatus: a later report clears finished_at.
SetStatusReopens(r, st) ==
    run' = IF run[r].status = "absent" THEN run
           ELSE [run EXCEPT ![r].status = st, ![r].finished = st \notin Active]

\* update_run_status: whatever the row says, it is overwritten; finished_at is
\* set by a status that is not active and never taken back.
SetStatus(r, st) ==
    run' = IF run[r].status = "absent" THEN run
           ELSE [run EXCEPT ![r].status = st, ![r].finished = @ \/ st \notin Active]

\* A row that is over, and that no process, task or call refers to any more,
\* is of no consequence: its slot stands for the next new row.
Forgettable(r) ==
    /\ run[r].status \notin Active
    /\ r \notin alive
    /\ \A t \in Tasks : task[t].run # r
    /\ \A c \in Calls : call[c].run # r

FreeRun  == CHOOSE r \in RunIds : Forgettable(r)
FreeTask == CHOOSE t \in Tasks : task[t].pc = "idle"

Become(t, w) == task' = [task EXCEPT ![t] = w]
Move(t, pc)  == Become(t, [task[t] EXCEPT !.pc = pc])

\* tokio::spawn of an execution, in a free slot.
Launch(t, cron) ==
    /\ task[t].pc = "idle" /\ t = FreeTask
    /\ Become(t, [IdleTask EXCEPT !.pc = "begin", !.cron = cron])

\* Mutant of RetryLeft: counted from one.
RetryLeftOneMore(t, ok) == task[t].cron /\ ~ok /\ task[t].attempt <= MaxRetries

\* should_retry, after anything but an exit with code 0.
RetryLeft(t, ok) == task[t].cron /\ ~ok /\ task[t].attempt < MaxRetries

\* Mutant of Finish: only a success takes the agent out of in_flight.
FinishKeepsFlight(t, ok) ==
    \/ /\ RetryLeft(t, ok)
       /\ Become(t, [task[t] EXCEPT !.pc = "wait", !.run = NoRun, !.ok = FALSE])
       /\ UNCHANGED inFlight
    \/ /\ ~RetryLeft(t, ok)
       /\ Become(t, IdleTask)
       /\ inFlight' = (inFlight /\ ~(task[t].cron /\ ok))

\* The execution returns: a scheduled one waits for its retry while there is
\* one left, and otherwise leaves in_flight.
Finish(t, ok) ==
    \/ /\ RetryLeft(t, ok)
       /\ Become(t, [task[t] EXCEPT !.pc = "wait", !.run = NoRun, !.ok = FALSE])
       /\ UNCHANGED inFlight
    \/ /\ ~RetryLeft(t, ok)
       /\ Become(t, IdleTask)
       /\ inFlight' = (inFlight /\ ~task[t].cron)

-----------------------------------------------------------------------------
(* The executor: execute_agent, execute_agent_with_context, run_agent.     *)

\* A scheduled run finds the Agent value it was given expired or disabled, or a
\* watcher's its disabled: nothing is started and -1 is returned.
Refuse(t) ==
    /\ task[t].pc = "begin"
    /\ Finish(t, FALSE)
    /\ UNCHANGED <<run, alive, call>>

\* Mutant of Resolve: a row that is still pending is not timed out.
ResolveStarted(t) ==
    /\ task[t].pc = "begin"
    /\ \/ \E r \in ActiveRuns : /\ run[r].late /\ run[r].status = "in_progress"
                                /\ Become(t, [task[t] EXCEPT !.pc = "unlock", !.run = r])
       \/ /\ ActiveRuns = {} \/ \E r \in ActiveRuns : ~run[r].late \/ run[r].status = "pending"
          /\ Move(t, "claim")
    /\ UNCHANGED <<inFlight, run, alive, call>>

\* resolve_timeout, the read: get_active_run returns any one active row.
Resolve(t) ==
    /\ task[t].pc = "begin"
    /\ \/ \E r \in ActiveRuns : /\ run[r].late
                                /\ Become(t, [task[t] EXCEPT !.pc = "unlock", !.run = r])
       \/ /\ ActiveRuns = {} \/ \E r \in ActiveRuns : ~run[r].late
          /\ Move(t, "claim")
    /\ UNCHANGED <<inFlight, run, alive, call>>

\* resolve_timeout, the write: the row it read is timed out whatever it has
\* become, and its process is left alone.
Unlock(t) ==
    /\ task[t].pc = "unlock"
    /\ SetStatus(task[t].run, "over")
    /\ Become(t, [task[t] EXCEPT !.pc = "claim", !.run = NoRun])
    /\ UNCHANGED <<inFlight, alive, call>>

\* A new row, and its process.  A CLI that cannot be started counts as a
\* process that exits at once.
StartRun(t, r) ==
    /\ Forgettable(r) /\ r = FreeRun
    /\ run' = [run EXCEPT ![r] = [AbsentRow EXCEPT !.status = "pending"]]
    /\ alive' = alive \cup {r}
    /\ Become(t, [task[t] EXCEPT !.pc = "await", !.run = r])

\* Mutant of Claim: the insert does not look for an active row.
ClaimBlind(t) ==
    /\ task[t].pc = "claim"
    /\ \E r \in RunIds : StartRun(t, r)
    /\ UNCHANGED <<inFlight, call>>

\* try_start_run: look for an active row and insert under one lock.  A fire
\* that finds one is recorded as missed and returns -1.
Claim(t) ==
    /\ task[t].pc = "claim"
    /\ \/ ActiveRuns # {} /\ Finish(t, FALSE) /\ UNCHANGED <<run, alive>>
       \/ ActiveRuns = {} /\ (\E r \in RunIds : StartRun(t, r)) /\ UNCHANGED inFlight
    /\ UNCHANGED call

\* The process exits and finalize_run reads the row: it closes one that is
\* still active, and leaves any other as it is.
Await(t) ==
    /\ task[t].pc = "await"
    /\ alive' = alive \ {task[t].run}
    /\ \E ok \in BOOLEAN :
         \/ /\ task[t].run \in ActiveRuns
            /\ Become(t, [task[t] EXCEPT !.pc = "close", !.ok = ok /\ task[t].cron])
            /\ UNCHANGED inFlight
         \/ task[t].run \notin ActiveRuns /\ Finish(t, ok)
    /\ UNCHANGED <<run, call>>

\* append_to_log fails: run_agent returns the error and finalizes nothing.
LogError(t) ==
    /\ task[t].pc = "await"
    /\ alive' = alive \ {task[t].run}
    /\ Finish(t, FALSE)
    /\ UNCHANGED <<run, call>>

\* finalize_run, the write, whatever the row has become since; the execution
\* returns.
Close(t) ==
    /\ task[t].pc = "close"
    /\ SetStatus(task[t].run, "over")
    /\ Finish(t, task[t].ok)
    /\ UNCHANGED <<alive, call>>

\* run_with_retry: the delay is over and the same Agent value is run again.
Retry(t) ==
    /\ task[t].pc = "wait"
    /\ Become(t, [task[t] EXCEPT !.pc = "begin", !.attempt = @ + 1])
    /\ UNCHANGED <<inFlight, run, alive, call>>

ExecutorStep(t) ==
    \/ Refuse(t) \/ Resolve(t) \/ Unlock(t) \/ Claim(t)
    \/ Await(t) \/ LogError(t) \/ Close(t) \/ Retry(t)

-----------------------------------------------------------------------------
(* What fires the agent.                                                   *)

\* Mutant of FireAgent: in_flight is not consulted.
FireAgentAgain ==
    /\ \E t \in Tasks : Launch(t, TRUE)
    /\ inFlight' = TRUE
    /\ UNCHANGED <<run, alive, call>>

\* try_fire_agent with a tick newer than last_fired: run_with_retry is spawned
\* unless the agent is in flight (the tick then only leaves a missed row).
FireAgent ==
    /\ ~inFlight
    /\ \E t \in Tasks : Launch(t, TRUE)
    /\ inFlight' = TRUE
    /\ UNCHANGED <<run, alive, call>>

\* A matching file event outside the debounce window, or agent_run.
FireOnce ==
    /\ \E t \in Tasks : Launch(t, FALSE)
    /\ UNCHANGED <<inFlight, run, alive, call>>

-----------------------------------------------------------------------------
(* agent_report: what a running process says of its own run.               *)

\* validate_run_transition, for the statuses a report may carry.
ValidTransition(now, next) == now = "pending" \/ (now = "in_progress" /\ next = "over")

\* The checks, on the row as it is now.  An active row past its deadline is to
\* be timed out whatever was reported.
AgentReport(c, r) ==
    /\ call[c] = IdleCall
    /\ r \in alive
    /\ \E st \in {"in_progress", "over"} :
         LET written == IF r \in ActiveRuns /\ run[r].late THEN "over" ELSE st IN
         /\ ValidTransition(run[r].status, written)
         /\ call' = [call EXCEPT ![c] = [run |-> r, status |-> written]]
    /\ UNCHANGED <<inFlight, run, alive, task>>

\* The write, whatever the row has become since.
Report(c) ==
    /\ call[c] # IdleCall
    /\ SetStatus(call[c].run, call[c].status)
    /\ call' = [call EXCEPT ![c] = IdleCall]
    /\ UNCHANGED <<inFlight, alive, task>>

-----------------------------------------------------------------------------
(* Time, agent_remove and the daemon.                                      *)

\* timeout_at passes for a row that is still active.
Deadline(r) ==
    /\ r \in ActiveRuns /\ ~run[r].late
    /\ run' = [run EXCEPT ![r].late = TRUE]
    /\ UNCHANGED <<inFlight, alive, task, call>>

\* A process the daemon no longer waits for exits.
OrphanExit(r) ==
    /\ r \in alive
    /\ \A t \in Tasks : task[t].run # r
    /\ alive' = alive \ {r}
    /\ UNCHANGED <<inFlight, run, task, call>>

\* delete_agent: the rows go, processes and tasks stay.
AgentRemove ==
    /\ run' = [r \in RunIds |-> AbsentRow]
    /\ UNCHANGED <<inFlight, alive, task, call>>

\* The daemon stops or crashes and is started again: tasks, calls and in_flight
\* are gone, rows and processes are not.
Restart ==
    /\ task' = [t \in Tasks |-> IdleTask]
    /\ call' = [c \in Calls |-> IdleCall]
    /\ inFlight' = FALSE
    /\ UNCHANGED <<run, alive>>

-----------------------------------------------------------------------------
Init ==
    /\ inFlight = FALSE
    /\ run = [r \in RunIds |-> AbsentRow]
    /\ alive = {}
    /\ task = [t \in Tasks |-> IdleTask]
    /\ call = [c \in Calls |-> IdleCall]

Environment ==
    \/ FireAgent \/ FireOnce \/ AgentRemove \/ Restart
    \/ \E r \in RunIds : OrphanExit(r) \/ Deadline(r)

Next ==
    \/ \E t \in Tasks : ExecutorStep(t)
    \/ \E c \in Calls : Report(c) \/ \E r \in RunIds : AgentReport(c, r)
    \/ Environment

Spec == Init /\ [][Next]_vars

\* Spawned tasks and calls keep running and a process eventually exits; time
\* passes, so a deadline is eventually over.  Fires, new reports and removals owe
\* nobody a step.  Claim needs strong fairness only because RunIds is a bound:
\* the slots may be taken for a moment, where the code always has a new row.
Fairness ==
    /\ \A t \in Tasks : WF_vars(ExecutorStep(t)) /\ SF_vars(Claim(t))
    /\ \A c \in Calls : WF_vars(Report(c))
    /\ \A r \in RunIds : WF_vars(Deadline(r)) /\ WF_vars(OrphanExit(r))

FairSpec == Spec /\ Fairness

-----------------------------------------------------------------------------
(* Properties.                                                             *)

Unfinished(r) == run[r].status # "absent" /\ ~run[r].finished

\* The execution lock: at most one run of the agent is unfinished, whatever
\* fires it, however many rows say pending or in_progress (a late report can
\* make a finished row look active again) and however many processes are
\* alive.  So two processes overlap only when one of them has already been
\* timed out, has reported its end, or had its row deleted.
OneUnfinishedRun ==
    \A p, q \in RunIds : Unfinished(p) /\ Unfinished(q) => p = q

CronTasks == {t \in Tasks : task[t].pc # "idle" /\ task[t].cron}

\* in_flight is exact: the agent is in it exactly while one retry series of
\* the scheduler is alive, across skips, failures and restarts.
InFlightHeld ==
    /\ inFlight <=> CronTasks # {}
    /\ \A t, u \in CronTasks : t = u

\* A retry series ends: the scheduler does not hold the agent in flight for
\* good, whatever its runs do and whoever holds the lock in between.
ChainEnds == inFlight ~> ~inFlight

\* A run nobody will finalize (its executor crashed or gave up on an error)
\* does not lock the agent out for good: as long as something keeps firing it,
\* one of the fires finds the deadline past and unlocks.
LockFrees ==
    \A r \in RunIds : []<>(\E t \in Tasks : task[t].pc = "claim") => []<>~Unfinished(r)

Holder == IF \E r \in RunIds : Unfinished(r) THEN CHOOSE r \in RunIds : Unfinished(r) ELSE NoRun

Lock == INSTANCE AgentLock WITH Runs <- RunIds, Nobody <- NoRun, holder <- Holder

\* The runs of one agent implement the token of AgentLock: the unfinished run
\* holds it, and it passes to another only through being free.
HoldsLock == Lock!LockSpec
=============================================================================
