------------------------------ MODULE Ensembles ------------------------------
(***************************************************************************)
(* The ensembles of several loops (execute_ensemble): a dispatch inserts a *)
(* row for each member and spawns a task for it, the tasks of all the loops*)
(* queue for the permits of one semaphore, each runs its member's process, *)
(* retries a quick crash in place, and is cut off by the straggler timeout;*)
(* the dispatch waits for all of them and joins their results.             *)
(*                                                                         *)
(* Each loop has one ensemble and one dispatch at a time; what else happens*)
(* in a loop is LoopDispatch's.  An action is one database write, or one   *)
(* step of a task up to where it awaits.  Of a member's rows only the last *)
(* is kept: the earlier ones are finalized as infra crashes.               *)
(***************************************************************************)
EXTENDS Naturals, FiniteSets

CONSTANTS
    Loops,
    NumMembers,   \* members of all the ensembles, in position order
    LoopOf,       \* the loop whose ensemble a member belongs to
    MinPass,      \* the quorum of each loop's ensemble
    Watched,      \* the loops whose members have no commit rights, none of them
    Cap,          \* ensemble_concurrency_cap
    RetryLimit    \* infra retries of each member

Members == 1..NumMembers

ASSUME MembersAssumption == /\ NumMembers \in Nat
                            /\ LoopOf \in [Members -> Loops]
                            /\ Watched \subseteq Loops
ASSUME QuorumAssumption  == MinPass \in [Loops -> Nat \ {0}]
ASSUME CapAssumption     == Cap \in Nat \ {0} /\ RetryLimit \in [Members -> Nat]

VARIABLES
    loop,      \* the status of each loops row; "stopped": paused or failed
    join,      \* each loop's execute_ensemble
    moved,     \* the watched loops whose HEAD moved since their ensemble began
    member,    \* the task and the last row of each member
    alive,     \* the members whose process is alive
    permits    \* free permits of ensemble_concurrency

vars == <<loop, join, moved, member, alive, permits>>

JoinPcs == {"idle", "gather", "joined", "failed"}

\* A task holds its permit from "spawn" on, and is inside the timeout in Timed.
Timed     == {"spawn", "work", "backoff"}
Holding   == Timed \cup {"crashed", "verdict", "straggled"}
MemberPcs == Holding \cup {"none", "queued", "done"}

\* vote: the result to be written, then returned; "error" is a fail that
\* leaves the row alone.
Member == [pc      : MemberPcs,
           row     : {"absent", "running", "pass", "fail"},
           attempt : Nat,
           vote    : {"none", "pass", "fail", "error"}]

IdleMember == [pc |-> "none", row |-> "absent", attempt |-> 0, vote |-> "none"]

TypeOK ==
    /\ loop \in [Loops -> {"running", "stopped"}]
    /\ join \in [Loops -> [pc : JoinPcs, verdict : {"none", "pass", "fail"}]]
    /\ moved \subseteq Watched
    /\ member \in [Members -> Member]
    /\ \A m \in Members : member[m].attempt <= RetryLimit[m]
    /\ alive \subseteq Members
    /\ permits \in 0..Cap

-----------------------------------------------------------------------------
(* Reading and writing the rows.                                           *)

Of(l) == {m \in Members : LoopOf[m] = l}
Passed(l) == {m \in Of(l) : member[m].vote = "pass"}

Become(m, t) == member' = [member EXCEPT ![m] = t]

\* The task returns its result, which drops the permit.
Conclude(m, row, v) ==
    /\ Become(m, [IdleMember EXCEPT !.pc = "done", !.row = row, !.vote = v])
    /\ permits' = permits + 1

\* terminate_run on the running rows of a loop.  A process whose row says
\* running is signalled; it ends in its own time.
Terminated(row) == IF row = "running" THEN "fail" ELSE row

Swept(m) == [member[m] EXCEPT !.row = Terminated(@)]

TerminateRows(l) ==
    member' = [m \in Members |-> IF LoopOf[m] = l THEN Swept(m) ELSE member[m]]

-----------------------------------------------------------------------------
(* The dispatch: execute_ensemble.                                         *)

\* The fan-out begins; HEAD is noted.
Start(l) ==
    /\ loop[l] = "running"
    /\ join[l].pc = "idle"
    /\ join' = [join EXCEPT ![l].pc = "gather"]
    /\ moved' = moved \ {l}
    /\ UNCHANGED <<loop, member, alive, permits>>

Unforked(l) == {m \in Of(l) : member[m].pc = "none"}

\* insert_loop_run and set.spawn, member by member; nothing looks at the
\* loop's status in between.
Fork(l) ==
    /\ join[l].pc = "gather"
    /\ \E m \in Unforked(l) :
         /\ \A n \in Unforked(l) : m <= n
         /\ Become(m, [IdleMember EXCEPT !.pc = "queued", !.row = "running"])
    /\ UNCHANGED <<loop, join, moved, alive, permits>>

AllDone(l) == \A m \in Of(l) : member[m].pc = "done"

\* Mutant of Join: the join fires as soon as the quorum is reached.
JoinEarly(l) ==
    /\ join[l].pc = "gather"
    /\ AllDone(l) \/ Cardinality(Passed(l)) >= MinPass[l]
    /\ join' = [join EXCEPT ![l] =
         [pc |-> "joined",
          verdict |-> IF Cardinality(Passed(l)) >= MinPass[l] /\ l \notin moved
                      THEN "pass" ELSE "fail"]]
    /\ UNCHANGED <<loop, moved, member, alive, permits>>

\* Every task has been joined: count, look at HEAD, insert the join's row.
Join(l) ==
    /\ join[l].pc = "gather"
    /\ AllDone(l)
    /\ join' = [join EXCEPT ![l] =
         [pc |-> "joined",
          verdict |-> IF Cardinality(Passed(l)) >= MinPass[l] /\ l \notin moved
                      THEN "pass" ELSE "fail"]]
    /\ UNCHANGED <<loop, moved, member, alive, permits>>

\* The insert of a member's or of the join's row fails: the JoinSet is dropped
\* and fail_loop ends the loop.
Abort(l) ==
    /\ join[l].pc = "gather"
    /\ Unforked(l) # {} \/ AllDone(l)
    /\ join' = [join EXCEPT ![l].pc = "failed"]
    /\ loop' = [loop EXCEPT ![l] = "stopped"]
    /\ member' = [m \in Members |->
                    IF LoopOf[m] # l THEN member[m]
                    ELSE IF member[m].pc = "done" THEN IdleMember ELSE Swept(m)]
    /\ UNCHANGED <<moved, alive, permits>>

\* The dispatch goes on (to a node, back to the ensemble, or, paused, to its
\* end).
Leave(l) ==
    /\ join[l].pc \in {"joined", "failed"}
    /\ \A m \in Of(l) : member[m].pc \in {"none", "done"}
    /\ join' = [join EXCEPT ![l] = [pc |-> "idle", verdict |-> "none"]]
    /\ moved' = moved \ {l}
    /\ member' = [m \in Members |-> IF LoopOf[m] = l THEN IdleMember ELSE member[m]]
    /\ UNCHANGED <<loop, alive, permits>>

(* The task of a member.                                                   *)

Acquire(m) ==
    /\ member[m].pc = "queued"
    /\ permits > 0
    /\ permits' = permits - 1
    /\ Become(m, [member[m] EXCEPT !.pc = "spawn"])
    /\ UNCHANGED <<loop, join, moved, alive>>

\* Mutant of RetryLeft: one retry too many.
RetryLeftOneMore(m) == member[m].attempt <= RetryLimit[m]

RetryLeft(m) == member[m].attempt < RetryLimit[m]

\* What an attempt may come to; "crash" is a quick failure that may be retried.
Executions(m) == {"pass", "fail"} \cup (IF RetryLeft(m) THEN {"crash"} ELSE {})

\* An attempt came to e, and its row is read: a verdict the row already has is
\* the member's, a crash is retried (is_infra_crash), anything else is to be
\* written; or the read fails.
Attempted(m, e) ==
    \/ /\ member[m].row \in {"pass", "fail"}
       /\ Conclude(m, member[m].row, member[m].row)
    \/ Conclude(m, member[m].row, "error")
    \/ /\ member[m].row = "running"
       /\ Become(m, IF e = "crash" THEN [member[m] EXCEPT !.pc = "crashed"]
                                   ELSE [member[m] EXCEPT !.pc = "verdict", !.vote = e])
       /\ UNCHANGED permits

\* The spawn succeeds, whatever the row says by now, or it fails.
Spawn(m) ==
    /\ member[m].pc = "spawn"
    /\ \/ /\ alive' = alive \cup {m}
          /\ Become(m, [member[m] EXCEPT !.pc = "work"])
          /\ UNCHANGED permits
       \/ /\ \E e \in Executions(m) \ {"pass"} : Attempted(m, e)
          /\ UNCHANGED alive
    /\ UNCHANGED <<loop, join, moved>>

\* The process ends by itself or by a signal; or the node's timeout kills it
\* and finalizes the row.  It may have moved HEAD.
WorkEnds(m) ==
    /\ member[m].pc = "work"
    /\ alive' = alive \ {m}
    /\ (\E e \in Executions(m) : Attempted(m, e)) \/ Conclude(m, "fail", "fail")
    /\ moved' \in {moved, moved \cup ({LoopOf[m]} \cap Watched)}
    /\ UNCHANGED <<loop, join>>

\* The verdict is written over whatever the row has become since.
WriteVerdict(m) ==
    /\ member[m].pc = "verdict"
    /\ Conclude(m, member[m].vote, member[m].vote)
    /\ UNCHANGED <<loop, join, moved, alive>>

\* Mutant of BeginRetry: the permit is given up for the backoff.
BeginRetryYields(m) ==
    /\ member[m].pc = "crashed"
    /\ Become(m, [member[m] EXCEPT !.pc = "backoff", !.row = "fail"])
    /\ permits' = permits + 1
    /\ UNCHANGED <<loop, join, moved, alive>>

\* begin_infra_retry: the crashed row is finalized ...
BeginRetry(m) ==
    /\ member[m].pc = "crashed"
    /\ Become(m, [member[m] EXCEPT !.pc = "backoff", !.row = "fail"])
    /\ UNCHANGED <<loop, join, moved, alive, permits>>

\* ... and after the backoff a fresh one inserted, whatever the loop's status.
Reinsert(m) ==
    /\ member[m].pc = "backoff"
    /\ Become(m, [member[m] EXCEPT !.pc = "spawn", !.row = "running", !.attempt = @ + 1])
    /\ UNCHANGED <<loop, join, moved, alive, permits>>

\* A database call of the attempt fails: a vote that leaves the row alone.
HardError(m) ==
    /\ member[m].pc \in {"crashed", "backoff"}
    /\ Conclude(m, member[m].row, "error")
    /\ UNCHANGED <<loop, join, moved, alive>>

\* Mutants of Straggle: the timeout is looked at only between attempts; dropping
\* the attempt leaves its process alive.
StraggleBetween(m) ==
    /\ member[m].pc \in {"spawn", "backoff"}
    /\ Become(m, [member[m] EXCEPT !.pc = "straggled"])
    /\ UNCHANGED <<loop, join, moved, alive, permits>>

StraggleUnkilled(m) ==
    /\ member[m].pc \in Timed
    /\ Become(m, [member[m] EXCEPT !.pc = "straggled"])
    /\ UNCHANGED <<loop, join, moved, alive, permits>>

\* The straggler timeout elapses: the attempt is dropped where it awaits, and
\* its process killed with it (kill_on_drop).
Straggle(m) ==
    /\ member[m].pc \in Timed
    /\ alive' = alive \ {m}
    /\ Become(m, [member[m] EXCEPT !.pc = "straggled"])
    /\ UNCHANGED <<loop, join, moved, permits>>

\* Mutant of CountOut: the row to terminate is the member's first one.
CountOutFirst(m) ==
    /\ member[m].pc = "straggled"
    /\ Conclude(m, IF member[m].attempt = 0 THEN Terminated(member[m].row) ELSE member[m].row,
                "fail")
    /\ UNCHANGED <<loop, join, moved, alive>>

\* The row of the node that is still running, if any, is terminated, and the
\* member counted as failed, whatever its row says.
CountOut(m) ==
    /\ member[m].pc = "straggled"
    /\ Conclude(m, Terminated(member[m].row), "fail")
    /\ UNCHANGED <<loop, join, moved, alive>>

\* The tasks of a dropped JoinSet stop at an await; the permit and the process
\* go with them.
Cancelled(m) ==
    /\ join[LoopOf[m]].pc = "failed"
    /\ member[m].pc \in Holding \cup {"queued"}
    /\ alive' = alive \ {m}
    /\ Become(m, IdleMember)
    /\ permits' = permits + (IF member[m].pc \in Holding THEN 1 ELSE 0)
    /\ UNCHANGED <<loop, join, moved>>

(* The tool calls.                                                         *)

\* loop_complete_node: refused unless the row is running.  A call may arrive
\* after the process that sent it has gone.  (LoopDispatch has the gap between
\* its check and its write.)
CompleteNode(m) ==
    /\ member[m].row = "running"
    /\ member[m].pc \notin {"none", "queued", "spawn"}
    /\ \E st \in {"pass", "fail"} : Become(m, [member[m] EXCEPT !.row = st])
    /\ UNCHANGED <<loop, join, moved, alive, permits>>

\* request_pause: the status, then every running row, those of members that
\* wait for a permit too.
Pause(l) ==
    /\ loop[l] = "running"
    /\ loop' = [loop EXCEPT ![l] = "stopped"]
    /\ TerminateRows(l)
    /\ UNCHANGED <<join, moved, alive, permits>>

\* The loop is launched again once its dispatch has ended.
Relaunch(l) ==
    /\ loop[l] # "running"
    /\ join[l].pc = "idle"
    /\ loop' = [loop EXCEPT ![l] = "running"]
    /\ UNCHANGED <<join, moved, member, alive, permits>>

-----------------------------------------------------------------------------
Init ==
    /\ loop = [l \in Loops |-> "running"]
    /\ join = [l \in Loops |-> [pc |-> "idle", verdict |-> "none"]]
    /\ moved = {}
    /\ member = [m \in Members |-> IdleMember]
    /\ alive = {}
    /\ permits = Cap

DispatchStep(l) == Fork(l) \/ Join(l) \/ Leave(l)

\* What the runtime drives: a task never waits for more than a timer.
TaskStep(m) ==
    \/ Spawn(m) \/ WriteVerdict(m) \/ BeginRetry(m) \/ Reinsert(m)
    \/ Straggle(m) \/ CountOut(m) \/ Cancelled(m)

MemberStep(m) == TaskStep(m) \/ Acquire(m) \/ WorkEnds(m) \/ HardError(m) \/ CompleteNode(m)

LoopStep(l) == DispatchStep(l) \/ Start(l) \/ Abort(l) \/ Pause(l) \/ Relaunch(l)

Next ==
    \/ \E l \in Loops : LoopStep(l)
    \/ \E m \in Members : MemberStep(m)

Spec == Init /\ [][Next]_vars

\* The semaphore serves its waiters in turn, so a member that is offered a
\* permit again and again gets one.
FairSpec ==
    /\ Spec
    /\ \A l \in Loops : WF_vars(DispatchStep(l))
    /\ \A m \in Members : WF_vars(TaskStep(m)) /\ SF_vars(Acquire(m))

-----------------------------------------------------------------------------
(* Properties.                                                             *)

\* The ensembles of all the loops together never have more than Cap processes
\* alive, across retries, timeouts, pauses and dropped tasks.
CapHeld == Cardinality(alive) <= Cap

\* Once a join has fired, or a failed round has been left, no member's process
\* is alive: none goes on writing in the workdir while the next node runs.
NoProcessOutlives ==
    \A m \in alive : join[LoopOf[m]].pc \in {"gather", "failed"}

\* A join leaves no member's row running, but that of one whose database call
\* failed: a straggler's is terminated whichever attempt it is in.
RowsClosed ==
    \A l \in Loops : join[l].pc = "joined" =>
      \A m \in Of(l) : member[m].row = "running" => member[m].vote = "error"

\* A fan-out ends, in its join or in the failure of the loop, although its
\* members wait for permits that other loops' members hold.
Settles == \A l \in Loops : join[l].pc = "gather" ~> join[l].pc = "idle"

InRound(l) == join[l].pc \in {"gather", "joined"}

Ballot(m) ==
    IF ~InRound(LoopOf[m]) \/ member[m].pc # "done" THEN "none"
    ELSE IF member[m].vote = "pass" THEN "for" ELSE "against"

Joins == INSTANCE EnsembleJoin WITH
    vote    <- [m \in Members |-> Ballot(m)],
    moved   <- {l \in moved : InRound(l)},
    verdict <- [l \in Loops |-> join[l].verdict]

\* The ensembles implement the joins that docs/loops.md promises: nothing is
\* decided before the last member has voted, and what is decided is the count
\* of the votes, unless HEAD moved.
QuorumOfAll == Joins!JoinSpec
=============================================================================
