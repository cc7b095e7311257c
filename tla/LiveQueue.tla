----------------------------- MODULE LiveQueue ------------------------------
(***************************************************************************)
(* A live work queue and the loop that draws from it: an ordered list of   *)
(* specs that queue_add_spec, queue_remove_spec and queue_reorder edit     *)
(* while a dispatch of the loop is taking the next member from it.         *)
(*                                                                         *)
(* LoopDispatch has the races between several dispatches of one loop and   *)
(* all that happens inside a spec; here the loop has one dispatch at a time*)
(* and what it does to a member (run_spec) is one of its outcomes.  As     *)
(* there, an action is one database write with the reads just before it    *)
(* that no other write can invalidate.                                     *)
(***************************************************************************)
EXTENDS Naturals, SequencesExt

CONSTANTS
    Specs,       \* the specs that may be members of the queue
    Calls,       \* slots: bound on the tool calls in progress at once
    MaxReopens,  \* bound on the specs that spec_set_status puts back to pending
    NoSpec       \* "no spec"

ASSUME SpecsAssumption   == IsFiniteSet(Specs)
ASSUME ReopensAssumption == MaxReopens \in Nat
ASSUME NoSpecAssumption  == NoSpec \notin Specs

VARIABLES
    members,  \* the queue_members rows of the queue, by position
    spec,     \* the status of each loop_specs row
    open,     \* the specs with a loop_runs row of this loop that says running
    loop,     \* the loops row
    task,     \* the dispatch
    call,     \* the tool calls in progress
    reopened  \* specs put back to pending by spec_set_status so far

vars == <<members, spec, open, loop, task, call, reopened>>

Runnable   == {"pending", "interrupted"}
Done       == {"completed", "skipped"}
Incomplete == Runnable \cup {"running", "failed"}

\* queued: active_run_queue_id names the queue.
LoopRow == [status : {"draft", "running", "paused", "completed", "failed"}, queued : BOOLEAN]

TaskPcs == {"idle", "launch", "claim", "context", "take", "pick", "start", "work",
            "check", "complete", "fail", "block"}

\* resume: a resumed run that has yet to look for what was left running.
\* seen, which the code does not keep: the members its last look found done.
Task == [pc : TaskPcs, resume : BOOLEAN, cur : Specs \cup {NoSpec}, seen : SUBSET Specs]

IdleTask == [pc |-> "idle", resume |-> FALSE, cur |-> NoSpec, seen |-> {}]

\* A tool call between a read and the write that relies on it: the specs it is
\* about, the order it read or wants.
Call == [step    : {"idle", "remove", "list", "order", "reset"},
         targets : SUBSET Specs,
         order   : SetToAllKPermutations(Specs)]

IdleCall == [step |-> "idle", targets |-> {}, order |-> <<>>]

TypeOK ==
    /\ members \in SetToAllKPermutations(Specs)
    /\ spec \in [Specs -> Incomplete \cup Done]
    /\ open \subseteq Specs
    /\ loop \in LoopRow
    /\ task \in Task
    /\ call \in [Calls -> Call]
    /\ reopened \in 0..MaxReopens

-----------------------------------------------------------------------------
(* Reading and writing the rows.                                           *)

Members == Range(members)
With(statuses) == {s \in Members : spec[s] \in statuses}

\* s is the first member, in queue order, with one of these statuses.
IsFirst(s, statuses) ==
    \E i \in DOMAIN members :
        /\ members[i] = s
        /\ spec[s] \in statuses
        /\ \A j \in 1..(i - 1) : spec[members[j]] \notin statuses

\* Mutants of HasIncomplete: only what is runnable counts; a skipped member
\* counts too.
HasRunnable == With(Runnable) # {}
HasUncompleted == With(Incomplete \cup {"skipped"}) # {}

\* queue_has_incomplete_members.
HasIncomplete == With(Incomplete) # {}

SetSpecStatus(s, st) == spec' = [spec EXCEPT ![s] = st]
SetLoopStatus(st) == loop' = [loop EXCEPT !.status = st]

Move(pc)    == task' = [task EXCEPT !.pc = pc]
Take(pc, s) == task' = [task EXCEPT !.pc = pc, !.cur = s]
Return      == task' = IdleTask

\* tokio::spawn of run_loop_dispatch; one dispatch at a time.
SpawnDispatch(resume) ==
    /\ task.pc = "idle"
    /\ task' = [IdleTask EXCEPT !.pc = "launch", !.resume = resume]

Begin(c, r) == call' = [call EXCEPT ![c] = r]
Hang(c)     == Begin(c, IdleCall)

-----------------------------------------------------------------------------
(* The dispatch: run_loop_dispatch with a queue.                           *)

\* empty_launch_check, before anything is touched.
Launch ==
    /\ task.pc = "launch"
    /\ IF HasIncomplete THEN Move("claim") ELSE Return
    /\ UNCHANGED <<members, spec, open, loop, call, reopened>>

Claim ==
    /\ task.pc = "claim"
    /\ IF loop.status = "running"
       THEN Return /\ UNCHANGED loop
       ELSE SetLoopStatus("running") /\ Move("context")
    /\ UNCHANGED <<members, spec, open, call, reopened>>

\* set_loop_active_run_queue, before the first spec is executed.
Context ==
    /\ task.pc = "context"
    /\ loop' = [loop EXCEPT !.queued = TRUE]
    /\ Move(IF task.resume THEN "take" ELSE "pick")
    /\ UNCHANGED <<members, spec, open, call, reopened>>

\* Mutant of Resume: a resume goes straight to what is pending.
ResumeNothing ==
    /\ task.pc = "take"
    /\ Move("pick")
    /\ UNCHANGED <<members, spec, open, loop, call, reopened>>

\* A resume first re-dispatches queue_running_spec_id, the first running member.
Resume ==
    /\ task.pc = "take"
    /\ \/ \E s \in Members : /\ IsFirst(s, {"running"})
                              /\ task' = [IdleTask EXCEPT !.pc = "start", !.cur = s]
       \/ With({"running"}) = {} /\ task' = [IdleTask EXCEPT !.pc = "pick"]
    /\ UNCHANGED <<members, spec, open, loop, call, reopened>>

\* Mutant of Pick: an interrupted member is not picked.
PickPending ==
    /\ task.pc = "pick"
    /\ \/ loop.status = "paused" /\ Return
       \/ /\ loop.status # "paused"
          /\ \/ \E s \in Members : IsFirst(s, {"pending"}) /\ Take("start", s)
             \/ With({"pending"}) = {} /\ Move("check")
    /\ UNCHANGED <<members, spec, open, loop, call, reopened>>

\* The live pick: at each boundary, queue_next_pending_spec_id afresh.
Pick ==
    /\ task.pc = "pick"
    /\ \/ loop.status = "paused" /\ Return
       \/ /\ loop.status # "paused"
          /\ \/ \E s \in Members : IsFirst(s, Runnable) /\ Take("start", s)
             \/ With(Runnable) = {} /\ Move("check")
    /\ UNCHANGED <<members, spec, open, loop, call, reopened>>

\* run_spec marks the spec running, whatever it has become since the pick, and
\* reaps the row that an earlier attempt has left running.
Start ==
    /\ task.pc = "start"
    /\ spec' = [spec EXCEPT ![task.cur] = "running"]
    /\ open' = open \ {task.cur}
    /\ Move("work")
    /\ UNCHANGED <<members, loop, call, reopened>>

\* run_spec inserts the row of a node; the pause it looked for just before may
\* have come since.
OpenRow ==
    /\ task.pc = "work"
    /\ open' = open \cup {task.cur}
    /\ UNCHANGED <<members, spec, loop, task, call, reopened>>

\* How run_spec ends: paused or superseded by a pause, completed or failed, the
\* latter perhaps out of attempts and blocked, with its last row recorded; or with
\* an error that leaves spec and row as they are.
WorkEnds ==
    /\ task.pc = "work"
    /\ LET s == task.cur IN
       \/ /\ open' = open \ {s}
          /\ \/ loop.status = "paused" /\ Return /\ UNCHANGED spec
             \/ loop.status # "paused" /\ SetSpecStatus(s, "completed") /\ Take("pick", NoSpec)
             \/ /\ loop.status # "paused"
                /\ SetSpecStatus(s, "failed")
                /\ Take("fail", NoSpec) \/ Take("block", NoSpec)
       \/ Take("fail", NoSpec) /\ UNCHANGED <<spec, open>>
    /\ UNCHANGED <<members, loop, call, reopened>>

\* fail_loop and block_loop; every row of the loop is swept.
Fail ==
    /\ task.pc \in {"fail", "block"}
    /\ SetLoopStatus(IF task.pc = "fail" THEN "failed" ELSE "paused")
    /\ open' = {}
    /\ Return
    /\ UNCHANGED <<members, spec, call, reopened>>

\* Nothing left to pick: with a member that is not done the dispatch returns
\* and leaves the loop as it is, running.
Check ==
    /\ task.pc = "check"
    /\ IF HasIncomplete THEN Return
       ELSE task' = [task EXCEPT !.pc = "complete", !.seen = Members]
    /\ UNCHANGED <<members, spec, open, loop, call, reopened>>

Complete ==
    /\ task.pc = "complete"
    /\ SetLoopStatus("completed")
    /\ Return
    /\ UNCHANGED <<members, spec, open, call, reopened>>

DispatchStep ==
    \/ Launch \/ Claim \/ Context \/ Resume \/ Pick \/ Start
    \/ WorkEnds \/ Fail \/ Check \/ Complete

-----------------------------------------------------------------------------
(* The tools that run loops.                                               *)

\* loop_run with the queue: a loop that is at rest, no node of it running, and
\* something to do.  A blocker is looked for among the loop's bound specs only.
LoopRun ==
    /\ loop.status \in {"draft", "paused"}
    /\ open = {}
    /\ HasIncomplete
    /\ SpawnDispatch(FALSE)
    /\ UNCHANGED <<members, spec, open, loop, call, reopened>>

\* request_pause: the status, then every row of the loop.
LoopPause ==
    /\ loop.status = "running"
    /\ SetLoopStatus("paused")
    /\ open' = {}
    /\ UNCHANGED <<members, spec, task, call, reopened>>

\* loop_continue: retry the first running member of the loop's queue, or mark
\* it skipped; refused when there is none.
LoopContinue ==
    /\ loop = [status |-> "paused", queued |-> TRUE]
    /\ \E s \in Members :
         /\ IsFirst(s, {"running"})
         /\ SetSpecStatus(s, "skipped") \/ UNCHANGED spec
    /\ SpawnDispatch(TRUE)
    /\ UNCHANGED <<members, open, loop, call, reopened>>

\* loop_complete_node, from the process whose row says running, also one that a
\* crashed daemon has left behind.
CompleteNode(s) ==
    /\ s \in open
    /\ open' = open \ {s}
    /\ UNCHANGED <<members, spec, loop, task, call, reopened>>

\* reset_loop of a loop with no node running, whatever its dispatch is about:
\* first the targets, every member that is not completed, then the writes.
LoopReset(c) ==
    /\ call[c] = IdleCall
    /\ open = {}
    /\ Begin(c, [IdleCall EXCEPT
         !.step = "reset",
         !.targets = IF loop.queued THEN With(Incomplete \cup {"skipped"}) ELSE {}])
    /\ UNCHANGED <<members, spec, open, loop, task, reopened>>

ResetApply(c) ==
    /\ call[c].step = "reset"
    /\ spec' = [s \in Specs |-> IF s \in call[c].targets THEN "pending" ELSE spec[s]]
    /\ SetLoopStatus("draft")
    /\ Hang(c)
    /\ UNCHANGED <<members, open, task, reopened>>

(* The tools that edit the queue.                                          *)

\* Mutant of AddSpec: a spec may become a member twice.
AddSpecAgain(s) ==
    /\ members' = Append(members, s)
    /\ UNCHANGED <<spec, open, loop, task, call, reopened>>

\* queue_add_spec: a spec that is no member yet, whatever its status.
AddSpec(s) ==
    /\ s \notin Members
    /\ members' = Append(members, s)
    /\ UNCHANGED <<spec, open, loop, task, call, reopened>>

\* validate_queue_member_removable, then the delete.
RemoveSpec(c, s) ==
    /\ call[c] = IdleCall
    /\ s \in Members /\ spec[s] # "running"
    /\ Begin(c, [IdleCall EXCEPT !.step = "remove", !.targets = {s}])
    /\ UNCHANGED <<members, spec, open, loop, task, reopened>>

RemoveApply(c) ==
    /\ call[c].step = "remove"
    /\ \/ \E i \in DOMAIN members : /\ members[i] \in call[c].targets
                                   /\ members' = RemoveAt(members, i)
       \/ Members \cap call[c].targets = {} /\ UNCHANGED members
    /\ Hang(c)
    /\ UNCHANGED <<spec, open, loop, task, reopened>>

\* queue_reorder lists the members; checks a permutation of that list, in
\* which what is not pending keeps its place; and rebuilds the rows from it.
Reorder(c) ==
    /\ call[c] = IdleCall
    /\ Begin(c, [IdleCall EXCEPT !.step = "list", !.order = members])
    /\ UNCHANGED <<members, spec, open, loop, task, reopened>>

ReorderCheck(c) ==
    /\ call[c].step = "list"
    /\ LET current == call[c].order IN
       \/ \E order \in SetToSeqs(Range(current)) :
            /\ \A i \in DOMAIN current :
                 spec[current[i]] # "pending" => order[i] = current[i]
            /\ Begin(c, [call[c] EXCEPT !.step = "order", !.order = order])
       \/ Hang(c)
    /\ UNCHANGED <<members, spec, open, loop, task, reopened>>

ReorderApply(c) ==
    /\ call[c].step = "order"
    /\ members' = call[c].order
    /\ Hang(c)
    /\ UNCHANGED <<spec, open, loop, task, reopened>>

\* spec_set_status: refused only while a node run of the spec is running.
SpecSetStatus(s) ==
    /\ s \notin open
    /\ \/ \E st \in Done : SetSpecStatus(s, st) /\ UNCHANGED reopened
       \/ /\ reopened < MaxReopens
          /\ SetSpecStatus(s, "pending")
          /\ reopened' = reopened + 1
    /\ UNCHANGED <<members, open, loop, task, call>>

CallStep(c) == ResetApply(c) \/ RemoveApply(c) \/ ReorderCheck(c) \/ ReorderApply(c)

-----------------------------------------------------------------------------
(* A crash and the boot after it.                                          *)

\* reconcile_stranded_queue_specs: a running member of the queue of a paused
\* loop - reconcile_orphaned_loops has just paused a running one.
Stranded(s) ==
    /\ loop.queued /\ loop.status \in {"running", "paused"}
    /\ s \in With({"running"})

\* reconcile_orphaned_loops: every row of a loop that was running is finalized
\* and its spec, whatever its status, interrupted.  Then the stranded members:
\* pending without a running row, interrupted with one, but left alone when
\* that row bears the boot id of the machine, which has not been rebooted.
Restart ==
    /\ \E rebooted \in BOOLEAN :
         LET cut   == IF loop.status = "running" THEN open
                      ELSE IF rebooted THEN {s \in open : Stranded(s)} ELSE {}
             alone == open \ cut
         IN /\ spec' = [s \in Specs |-> IF s \in cut THEN "interrupted"
                                      ELSE IF Stranded(s) /\ s \notin alone THEN "pending"
                                      ELSE spec[s]]
            /\ open' = alone
    /\ IF loop.status = "running" THEN SetLoopStatus("paused") ELSE UNCHANGED loop
    /\ task' = IdleTask
    /\ call' = [c \in Calls |-> IdleCall]
    /\ UNCHANGED <<members, reopened>>

-----------------------------------------------------------------------------
Init ==
    /\ members = <<>>
    /\ spec = [s \in Specs |-> "pending"]
    /\ open = {}
    /\ loop = [status |-> "draft", queued |-> FALSE]
    /\ task = IdleTask
    /\ call = [c \in Calls |-> IdleCall]
    /\ reopened = 0

Next ==
    \/ DispatchStep \/ OpenRow \/ LoopRun \/ LoopPause \/ LoopContinue
    \/ \E c \in Calls : LoopReset(c) \/ Reorder(c) \/ CallStep(c)
    \/ \E c \in Calls, s \in Specs : RemoveSpec(c, s)
    \/ \E s \in Specs : AddSpec(s) \/ SpecSetStatus(s) \/ CompleteNode(s)
    \/ Restart

Spec == Init /\ [][Next]_vars

\* Tokio polls a ready dispatch and a started call finishes; nobody is obliged
\* to call a tool.
FairSpec == /\ Spec
            /\ WF_vars(DispatchStep)
            /\ \A c \in Calls : WF_vars(CallStep(c))

-----------------------------------------------------------------------------
(* What the queue promises.                                                *)

\* A member that is runnable when a dispatch looks for its next one is
\* eventually taken, unless it leaves the queue or the loop stops running: no
\* edit of the queue makes a live run pass a member over.
LivePickup ==
    \A s \in Specs :
        task.pc = "pick" /\ s \in With(Runnable)
            ~> s \notin With(Runnable) \/ loop.status # "running"

\* A dispatch that has claimed the loop gets it out of running, or returns over
\* a member that is neither done nor runnable: it never leaves the loop running
\* over a queue that is finished.
QueueSettles ==
    task.pc = "context"
        ~> loop.status # "running" \/ (task.pc = "idle" /\ With(Incomplete) # {})

\* A loop is marked completed only over members that were done when its
\* dispatch looked, or were added or reopened since: never over one that has
\* failed or was left running, which nothing would pick up again.
CompletedOverDone ==
    [][Complete => \A s \in Members \cap task.seen : spec[s] \in Done \cup {"pending"}]_vars

\* A resumed run works on the member that was left running, wherever the
\* queue's edits have put it, instead of leaving it behind for the next one.
ResumeReturns ==
    \A s \in Specs :
        task.pc = "context" /\ task.resume /\ With({"running"}) = {s}
            ~> task.cur = s \/ s \notin With({"running"}) \/ loop.status # "running"

(* What a comment in the code claims, and the code does not keep.           *)

\* A restart puts every member back that is running with no node run in this
\* daemon's lifetime (reconcile_stranded_queue_specs).
NoneRunningAtBoot ==
    [][Restart /\ loop.queued /\ loop.status \in {"running", "paused"}
       => \A s \in Members : spec'[s] # "running"]_vars

=============================================================================
