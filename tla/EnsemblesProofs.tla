--------------------------- MODULE EnsemblesProofs ---------------------------
(***************************************************************************)
(* Proofs about Ensembles: the types, that the cap on processes holds, that*)
(* no process outlives its round, that a join leaves no row running, and   *)
(* that the ensembles implement EnsembleJoin.                              *)
(***************************************************************************)
EXTENDS Ensembles, FiniteSetTheorems, TLAPS

\* What is said of the record t of one member.
Sound(m, t) ==
    /\ t \in Member
    /\ t.attempt <= RetryLimit[m]
    /\ t.pc \in {"crashed", "backoff"} => t.attempt < RetryLimit[m]
    /\ t.pc = "verdict" => t.vote \in {"pass", "fail"}
    /\ t.pc = "done" => t.vote # "none" /\ (t.row = "running" => t.vote = "error")

MembersInv == member \in [Members -> Member] /\ \A m \in Members : Sound(m, member[m])

JoinRow == [pc : JoinPcs, verdict : {"none", "pass", "fail"}]

\* The phase of a round and the phases of its members.
LoopsInv ==
    /\ join \in [Loops -> JoinRow]
    /\ \A l \in Loops : join[l].verdict # "none" <=> join[l].pc = "joined"
    /\ \A m \in Members : join[LoopOf[m]].pc = "idle" => member[m].pc = "none"
    /\ \A m \in Members : join[LoopOf[m]].pc = "joined" => member[m].pc = "done"

AliveInv == alive \subseteq Members /\ \A m \in alive : member[m].pc = "work"

Holders == {m \in Members : member[m].pc \in Holding}

\* No permit is lost and none is made.
PermitsInv == permits \in Nat /\ permits + Cardinality(Holders) = Cap

RestInv == loop \in [Loops -> {"running", "stopped"}] /\ moved \subseteq Watched

IInv == MembersInv /\ LoopsInv /\ AliveInv /\ PermitsInv /\ RestInv

-----------------------------------------------------------------------------
(* Counting the permits.                                                   *)

\* The sets of members are finite.
LEMMA MembersFinite == \A S \in SUBSET Members : IsFiniteSet(S) /\ Cardinality(S) \in Nat
<1> USE MembersAssumption
<1>1. IsFiniteSet(Members)
  BY FS_Interval DEF Members
<1> SUFFICES ASSUME NEW S \in SUBSET Members
             PROVE  IsFiniteSet(S) /\ Cardinality(S) \in Nat
  OBVIOUS
<1>2. IsFiniteSet(S)
  BY <1>1, FS_Subset
<1> QED BY <1>2, FS_CardinalityType

\* A member that keeps its side of the semaphore keeps the count.
LEMMA PermitsKept ==
    ASSUME PermitsInv, permits' = permits,
           \A n \in Members : member'[n].pc \in Holding <=> member[n].pc \in Holding
    PROVE  PermitsInv'
<1>1. Holders' = Holders
  BY DEF Holders
<1> QED BY <1>1 DEF PermitsInv

\* A member that takes a permit, and one that returns it.
LEMMA PermitTaken ==
    ASSUME PermitsInv, NEW m \in Members, permits > 0, permits' = permits - 1,
           member[m].pc \notin Holding, member'[m].pc \in Holding,
           \A n \in Members : n # m => member'[n] = member[n]
    PROVE  PermitsInv'
<1>1. Holders' = Holders \cup {m} /\ m \notin Holders
  BY DEF Holders
<1>2. IsFiniteSet(Holders) /\ Cardinality(Holders) \in Nat
  BY MembersFinite DEF Holders
<1>3. Cardinality(Holders') = Cardinality(Holders) + 1
  BY <1>1, <1>2, FS_AddElement
<1> QED BY <1>2, <1>3 DEF PermitsInv

\* The task of a member ends and the permit it held is free again.
LEMMA PermitReturned ==
    ASSUME PermitsInv, NEW m \in Members, permits' = permits + 1,
           member[m].pc \in Holding, member'[m].pc \notin Holding,
           \A n \in Members : n # m => member'[n] = member[n]
    PROVE  PermitsInv'
<1>1. Holders' = Holders \ {m} /\ m \in Holders
  BY DEF Holders
<1>2. IsFiniteSet(Holders) /\ Cardinality(Holders) \in Nat
  BY MembersFinite DEF Holders
<1>3. Cardinality(Holders') = Cardinality(Holders) - 1
  BY <1>1, <1>2, FS_RemoveElement
<1> QED BY <1>2, <1>3 DEF PermitsInv

-----------------------------------------------------------------------------
(* A step of a member.                                                     *)

\* What every step of the task of m does: it replaces m's record by a sound
\* one, a result once returned stays, and only a member at work moves HEAD.
Replaces(m, t) ==
    /\ Become(m, t)
    /\ Sound(m, t)
    /\ member[m].pc = "none" => t.pc = "none"
    /\ member[m].pc = "done" => t.pc = "done" /\ t.vote = member[m].vote /\ moved' = moved
    /\ moved' \in {moved, moved \cup ({LoopOf[m]} \cap Watched)}
    /\ t.pc = "none" => join[LoopOf[m]].pc # "joined"
    /\ UNCHANGED <<loop, join>>

MemberFacts(m) == \E t \in Member : Replaces(m, t)

\* Such a step keeps what is said of the members, the loops and the rest.
LEMMA ReplacesKeeps ==
    ASSUME IInv, NEW m \in Members, NEW t \in Member, Replaces(m, t)
    PROVE  /\ MembersInv' /\ LoopsInv' /\ RestInv'
           /\ member'[m] = t
           /\ \A n \in Members : n # m => member'[n] = member[n]
<1>1. member'[m] = t /\ \A n \in Members : n # m => member'[n] = member[n]
  BY DEF IInv, MembersInv, Replaces, Become
<1>2. MembersInv'
  <2>1. member' \in [Members -> Member]
    BY DEF IInv, MembersInv, Replaces, Become
  <2>2. \A n \in Members : Sound(n, member'[n])
    BY <1>1 DEF IInv, MembersInv, Replaces
  <2> QED BY <2>1, <2>2 DEF MembersInv, Sound
<1>3. LoopsInv'
  BY <1>1 DEF IInv, LoopsInv, Replaces
<1>4. RestInv'
  BY DEF IInv, RestInv, Replaces
<1> QED BY <1>1, <1>2, <1>3, <1>4

\* What Conclude does, for a member that holds a permit.
LEMMA ConcludeFacts ==
    ASSUME IInv, NEW m \in Members, NEW row \in {"absent", "running", "pass", "fail"},
           NEW v \in {"pass", "fail", "error"}, row = "running" => v = "error",
           Conclude(m, row, v), member[m].pc \in Holding,
           moved' \in {moved, moved \cup ({LoopOf[m]} \cap Watched)},
           UNCHANGED <<loop, join>>
    PROVE  MembersInv' /\ LoopsInv' /\ RestInv' /\ PermitsInv' /\ MemberFacts(m)
           /\ member'[m].pc # "work" /\ \A n \in Members : n # m => member'[n] = member[n]
<1> DEFINE t == [IdleMember EXCEPT !.pc = "done", !.row = row, !.vote = v]
<1>1. t \in Member /\ t.pc = "done" /\ t.vote = v /\ t.row = row /\ t.attempt = 0
  BY DEF IdleMember, Member, MemberPcs
<1>2. RetryLimit[m] \in Nat
  BY CapAssumption
<1>3. Replaces(m, t)
  BY <1>1, <1>2 DEF Replaces, Sound, Conclude, Holding, Timed
<1>4. member'[m] = t /\ \A n \in Members : n # m => member'[n] = member[n]
  BY <1>1, <1>3, ReplacesKeeps
<1>5. PermitsInv'
  BY <1>1, <1>4, PermitReturned DEF IInv, Conclude, Holding, Timed
<1> QED BY <1>1, <1>3, <1>4, <1>5, ReplacesKeeps DEF MemberFacts

\* A step that keeps m's side of the semaphore.
LEMMA KeepsSide ==
    ASSUME IInv, NEW m \in Members, NEW t \in Member, Replaces(m, t), permits' = permits,
           t.pc \in Holding <=> member[m].pc \in Holding
    PROVE  MembersInv' /\ LoopsInv' /\ RestInv' /\ PermitsInv' /\ MemberFacts(m)
           /\ member'[m] = t /\ \A n \in Members : n # m => member'[n] = member[n]
<1>1. member'[m] = t /\ \A n \in Members : n # m => member'[n] = member[n]
  BY ReplacesKeeps
<1>2. PermitsInv'
  BY <1>1, PermitsKept DEF IInv
<1> QED BY <1>1, <1>2, ReplacesKeeps DEF MemberFacts

\* Processes end, and m's has when m is no longer at work.
LEMMA AliveShrinks ==
    ASSUME AliveInv, NEW m \in Members, alive' \in {alive, alive \ {m}},
           m \in alive' => member'[m].pc = "work",
           \A n \in Members : n # m => member'[n] = member[n]
    PROVE  AliveInv'
BY DEF AliveInv

\* Of an attempt: it concludes, or goes on to a retry or to the write of its
\* verdict.
LEMMA AttemptedFacts ==
    ASSUME IInv, NEW m \in Members, NEW e \in Executions(m), Attempted(m, e),
           member[m].pc \in {"spawn", "work"},
           moved' \in {moved, moved \cup ({LoopOf[m]} \cap Watched)},
           UNCHANGED <<loop, join>>
    PROVE  MembersInv' /\ LoopsInv' /\ RestInv' /\ PermitsInv' /\ MemberFacts(m)
           /\ member'[m].pc # "work" /\ \A n \in Members : n # m => member'[n] = member[n]
<1>1. member[m] \in Member /\ Sound(m, member[m]) /\ member[m].pc \in Holding
  BY DEF IInv, MembersInv, Holding, Timed
<1>2. ASSUME NEW v \in {"pass", "fail", "error"}, Conclude(m, member[m].row, v),
             member[m].row = "running" => v = "error"
      PROVE  MembersInv' /\ LoopsInv' /\ RestInv' /\ PermitsInv' /\ MemberFacts(m)
             /\ member'[m].pc # "work" /\ \A n \in Members : n # m => member'[n] = member[n]
  <2>1. member[m].row \in {"absent", "running", "pass", "fail"}
    BY <1>1 DEF Member
  <2> QED BY <1>1, <1>2, <2>1, ConcludeFacts
<1>3. CASE member[m].row \in {"pass", "fail"} /\ Conclude(m, member[m].row, member[m].row)
  BY <1>2, <1>3
<1>4. CASE Conclude(m, member[m].row, "error")
  BY <1>2, <1>4
<1>5. ASSUME member[m].row = "running", UNCHANGED permits, e = "crash",
             Become(m, [member[m] EXCEPT !.pc = "crashed"])
      PROVE  MembersInv' /\ LoopsInv' /\ RestInv' /\ PermitsInv' /\ MemberFacts(m)
             /\ member'[m].pc # "work" /\ \A n \in Members : n # m => member'[n] = member[n]
  <2> DEFINE t == [member[m] EXCEPT !.pc = "crashed"]
  <2>1. t \in Member /\ t.pc = "crashed" /\ t.attempt = member[m].attempt
    BY <1>1 DEF Member, MemberPcs, Holding
  <2>2. t.attempt < RetryLimit[m]
    BY <1>5, <2>1 DEF Executions, RetryLeft
  <2>3. Replaces(m, t)
    BY <1>1, <1>5, <2>1, <2>2 DEF Replaces, Sound
  <2> QED BY <1>1, <1>5, <2>1, <2>3, KeepsSide DEF Holding
<1>6. ASSUME member[m].row = "running", UNCHANGED permits, e # "crash",
             Become(m, [member[m] EXCEPT !.pc = "verdict", !.vote = e])
      PROVE  MembersInv' /\ LoopsInv' /\ RestInv' /\ PermitsInv' /\ MemberFacts(m)
             /\ member'[m].pc # "work" /\ \A n \in Members : n # m => member'[n] = member[n]
  <2> DEFINE t == [member[m] EXCEPT !.pc = "verdict", !.vote = e]
  <2>1. e \in {"pass", "fail"}
    BY <1>6 DEF Executions
  <2>2. t \in Member /\ t.pc = "verdict" /\ t.vote = e /\ t.attempt = member[m].attempt
    BY <1>1, <2>1 DEF Member, MemberPcs, Holding
  <2>3. Replaces(m, t)
    BY <1>1, <1>6, <2>1, <2>2 DEF Replaces, Sound
  <2> QED BY <1>1, <1>6, <2>2, <2>3, KeepsSide DEF Holding
<1> QED BY <1>3, <1>4, <1>5, <1>6 DEF Attempted

\* Every step of a member keeps the invariant.
LEMMA MemberStepFacts ==
    ASSUME IInv, NEW m \in Members, MemberStep(m)
    PROVE  IInv' /\ MemberFacts(m)
<1>0. member[m] \in Member /\ Sound(m, member[m]) /\ AliveInv
  BY DEF IInv, MembersInv
<1>1. CASE Acquire(m)
  <2> DEFINE t == [member[m] EXCEPT !.pc = "spawn"]
  <2>1. t \in Member /\ t.pc = "spawn" /\ t.attempt = member[m].attempt
    BY <1>0 DEF Member, MemberPcs, Holding, Timed
  <2>2. Replaces(m, t)
    BY <1>0, <1>1, <2>1 DEF Replaces, Sound, Acquire
  <2>3. member'[m] = t /\ \A n \in Members : n # m => member'[n] = member[n]
    BY <2>1, <2>2, ReplacesKeeps
  <2>4. PermitsInv'
    BY <1>1, <2>1, <2>3, PermitTaken DEF IInv, Acquire, Holding, Timed
  <2>5. AliveInv'
    BY <1>0, <1>1, <2>3 DEF AliveInv, Acquire
  <2> QED BY <2>1, <2>2, <2>4, <2>5, ReplacesKeeps DEF IInv, MemberFacts
<1>2. CASE Spawn(m)
  <2>1. ASSUME NEW e \in Executions(m), Attempted(m, e), UNCHANGED alive
        PROVE  IInv' /\ MemberFacts(m)
    <3>1. m \notin alive
      BY <1>0, <1>2 DEF AliveInv, Spawn
    <3> QED BY <1>0, <1>2, <2>1, <3>1, AttemptedFacts, AliveShrinks DEF IInv, Spawn
  <2>2. ASSUME alive' = alive \cup {m}, Become(m, [member[m] EXCEPT !.pc = "work"]),
               UNCHANGED permits
        PROVE  IInv' /\ MemberFacts(m)
    <3> DEFINE t == [member[m] EXCEPT !.pc = "work"]
    <3>1. t \in Member /\ t.pc = "work" /\ t.attempt = member[m].attempt
      BY <1>0 DEF Member, MemberPcs, Holding, Timed
    <3>2. Replaces(m, t)
      BY <1>0, <1>2, <2>2, <3>1 DEF Replaces, Sound, Spawn
    <3>3. member[m].pc \in Holding /\ t.pc \in Holding
      BY <1>2, <3>1 DEF Spawn, Holding, Timed
    <3>4. member'[m] = t /\ \A n \in Members : n # m => member'[n] = member[n]
      <4> HIDE DEF t
      <4> QED BY <1>0, <3>1, <3>2, ReplacesKeeps
    <3>5. AliveInv'
      <4>1. member'[m].pc = "work"
        BY <3>1, <3>4
      <4> QED BY <1>0, <2>2, <3>4, <4>1 DEF AliveInv
    <3> QED BY <2>2, <3>1, <3>2, <3>3, <3>5, KeepsSide DEF IInv
  <2> QED BY <1>2, <2>1, <2>2 DEF Spawn
<1>3. CASE WorkEnds(m)
  <2>1. ASSUME NEW e \in Executions(m), Attempted(m, e)
        PROVE  IInv' /\ MemberFacts(m)
    BY <1>0, <1>3, <2>1, AttemptedFacts, AliveShrinks DEF IInv, WorkEnds
  <2>2. ASSUME Conclude(m, "fail", "fail")
        PROVE  IInv' /\ MemberFacts(m)
    BY <1>0, <1>3, <2>2, ConcludeFacts, AliveShrinks DEF IInv, WorkEnds, Holding, Timed
  <2> QED BY <1>3, <2>1, <2>2 DEF WorkEnds
<1>4. CASE WriteVerdict(m)
  <2>1. member[m].vote \in {"pass", "fail"} /\ m \notin alive /\ member[m].pc \in Holding
    BY <1>0, <1>4 DEF Sound, WriteVerdict, AliveInv, Holding
  <2> QED BY <1>0, <1>4, <2>1, ConcludeFacts, AliveShrinks DEF IInv, WriteVerdict
<1>5. CASE BeginRetry(m)
  <2> DEFINE t == [member[m] EXCEPT !.pc = "backoff", !.row = "fail"]
  <2>1. t \in Member /\ t.pc = "backoff" /\ t.attempt = member[m].attempt
    BY <1>0 DEF Member, MemberPcs, Holding, Timed
  <2>2. Replaces(m, t)
    BY <1>0, <1>5, <2>1 DEF Replaces, Sound, BeginRetry
  <2>3. m \notin alive /\ member[m].pc \in Holding /\ t.pc \in Holding
    BY <1>0, <1>5, <2>1 DEF AliveInv, BeginRetry, Holding, Timed
  <2>4. AliveInv'
    BY <1>0, <1>5, <2>1, <2>2, <2>3, ReplacesKeeps, AliveShrinks DEF BeginRetry
  <2> QED BY <1>5, <2>1, <2>2, <2>3, <2>4, KeepsSide DEF IInv, BeginRetry
<1>6. CASE Reinsert(m)
  <2> DEFINE t == [member[m] EXCEPT !.pc = "spawn", !.row = "running", !.attempt = @ + 1]
  <2>0. member[m].attempt + 1 \in Nat
    BY <1>0 DEF Member
  <2>1. t \in Member /\ t.pc = "spawn" /\ t.attempt = member[m].attempt + 1
    BY <1>0, <2>0 DEF Member, MemberPcs, Holding, Timed
  <2>2. t.attempt <= RetryLimit[m]
    <3>1. member[m].attempt \in Nat /\ RetryLimit[m] \in Nat
      BY <1>0, CapAssumption DEF Member
    <3> QED BY <1>0, <1>6, <2>1, <3>1 DEF Sound, Reinsert
  <2>3. Replaces(m, t)
    BY <1>0, <1>6, <2>1, <2>2 DEF Replaces, Sound, Reinsert
  <2>4. m \notin alive /\ member[m].pc \in Holding /\ t.pc \in Holding
    BY <1>0, <1>6, <2>1 DEF AliveInv, Reinsert, Holding, Timed
  <2>5. AliveInv'
    BY <1>0, <1>6, <2>1, <2>3, <2>4, ReplacesKeeps, AliveShrinks DEF Reinsert
  <2> QED BY <1>6, <2>1, <2>3, <2>4, <2>5, KeepsSide DEF IInv, Reinsert
<1>7. CASE HardError(m)
  <2>1. m \notin alive /\ member[m].pc \in Holding
        /\ member[m].row \in {"absent", "running", "pass", "fail"}
    BY <1>0, <1>7 DEF AliveInv, HardError, Holding, Timed, Member
  <2> QED BY <1>0, <1>7, <2>1, ConcludeFacts, AliveShrinks DEF IInv, HardError
<1>8. CASE Straggle(m)
  <2> DEFINE t == [member[m] EXCEPT !.pc = "straggled"]
  <2>1. t \in Member /\ t.pc = "straggled" /\ t.attempt = member[m].attempt
    BY <1>0 DEF Member, MemberPcs, Holding, Timed
  <2>2. Replaces(m, t)
    BY <1>0, <1>8, <2>1 DEF Replaces, Sound, Straggle, Timed
  <2>3. member[m].pc \in Holding /\ t.pc \in Holding
    BY <1>8, <2>1 DEF Straggle, Holding
  <2>4. AliveInv'
    BY <1>0, <1>8, <2>1, <2>2, ReplacesKeeps, AliveShrinks DEF Straggle
  <2> QED BY <1>8, <2>1, <2>2, <2>3, <2>4, KeepsSide DEF IInv, Straggle
<1>9. CASE CountOut(m)
  <2>1. m \notin alive /\ member[m].pc \in Holding
        /\ Terminated(member[m].row) \in {"absent", "pass", "fail"}
    BY <1>0, <1>9 DEF AliveInv, CountOut, Holding, Timed, Member, Terminated
  <2> QED BY <1>0, <1>9, <2>1, ConcludeFacts, AliveShrinks DEF IInv, CountOut
<1>10. CASE Cancelled(m)
  <2>1. IdleMember \in Member /\ IdleMember.pc = "none" /\ IdleMember.attempt = 0
    BY DEF IdleMember, Member, MemberPcs
  <2>2. RetryLimit[m] \in Nat
    BY CapAssumption
  <2>3. Replaces(m, IdleMember)
    BY <1>10, <2>1, <2>2 DEF Replaces, Sound, Cancelled, Holding, Timed
  <2>4. member'[m] = IdleMember /\ \A n \in Members : n # m => member'[n] = member[n]
    BY <2>1, <2>3, ReplacesKeeps
  <2>5. AliveInv'
    BY <1>0, <1>10, <2>1, <2>4, AliveShrinks DEF Cancelled
  <2>6. CASE member[m].pc \in Holding
    <3>1. permits' = permits + 1
      BY <1>10, <2>6 DEF Cancelled
    <3>2. PermitsInv'
      BY <2>1, <2>4, <2>6, <3>1, PermitReturned DEF IInv, Holding, Timed
    <3> QED BY <2>1, <2>3, <2>5, <3>2, ReplacesKeeps DEF IInv, MemberFacts
  <2>7. CASE member[m].pc \notin Holding
    <3>1. permits' = permits
      BY <1>10, <2>7 DEF Cancelled, IInv, PermitsInv
    <3> QED BY <2>1, <2>3, <2>5, <2>7, <3>1, KeepsSide DEF IInv, Holding, Timed
  <2> QED BY <2>6, <2>7
<1>11. CASE CompleteNode(m)
  <2>1. PICK st \in {"pass", "fail"} : Become(m, [member[m] EXCEPT !.row = st])
    BY <1>11 DEF CompleteNode
  <2> DEFINE t == [member[m] EXCEPT !.row = st]
  <2>2. t \in Member /\ t.pc = member[m].pc /\ t.attempt = member[m].attempt
        /\ t.vote = member[m].vote /\ t.row = st
    BY <1>0, <2>1 DEF Member
  <2>3. Replaces(m, t)
    BY <1>0, <1>11, <2>1, <2>2 DEF Replaces, Sound, CompleteNode
  <2>4. AliveInv'
    <3>1. member'[m] = t /\ \A n \in Members : n # m => member'[n] = member[n]
      BY <2>2, <2>3, ReplacesKeeps
    <3>2. \A n \in Members : member'[n].pc = member[n].pc
      BY <2>2, <3>1
    <3> QED BY <1>0, <1>11, <3>2 DEF AliveInv, CompleteNode
  <2> QED BY <1>11, <2>2, <2>3, <2>4, KeepsSide DEF IInv, CompleteNode
<1> QED BY <1>1, <1>2, <1>3, <1>4, <1>5, <1>6, <1>7, <1>8, <1>9, <1>10, <1>11
        DEF MemberStep, TaskStep

-----------------------------------------------------------------------------
(* A step of a dispatch or of the operator.                                *)

\* IdleMember is a sound record.
LEMMA IdleSound == \A m \in Members : Sound(m, IdleMember) /\ IdleMember.pc = "none"
<1> SUFFICES ASSUME NEW m \in Members PROVE Sound(m, IdleMember) /\ IdleMember.pc = "none"
  OBVIOUS
<1>1. RetryLimit[m] \in Nat
  BY CapAssumption
<1> QED BY <1>1 DEF Sound, IdleMember, Member, MemberPcs

\* Terminating a row leaves a sound record, in the same phase.
LEMMA SweptSound ==
    ASSUME MembersInv, NEW m \in Members
    PROVE  Sound(m, Swept(m)) /\ Swept(m).pc = member[m].pc /\ Swept(m).vote = member[m].vote
<1>1. member[m] \in Member /\ Sound(m, member[m])
  BY DEF MembersInv
<1> QED BY <1>1 DEF Sound, Swept, Terminated, Member

\* A pause: the rows of a loop are terminated, and no task is touched.
LEMMA TerminateFacts ==
    ASSUME IInv, NEW l \in Loops, TerminateRows(l), UNCHANGED <<join, alive, permits>>
    PROVE  MembersInv' /\ LoopsInv' /\ AliveInv' /\ PermitsInv'
           /\ \A m \in Members : member'[m].pc = member[m].pc /\ member'[m].vote = member[m].vote
<1>1. \A m \in Members : member'[m] \in {member[m], Swept(m)}
  BY DEF TerminateRows
<1>2. \A m \in Members : member'[m].pc = member[m].pc /\ member'[m].vote = member[m].vote
  BY <1>1, SweptSound DEF IInv
<1>3. MembersInv'
  <2>1. \A m \in Members : Sound(m, member'[m])
    BY <1>1, SweptSound DEF IInv, MembersInv
  <2>2. member' \in [Members -> Member]
    BY <1>1, <2>1 DEF TerminateRows, Sound
  <2> QED BY <2>1, <2>2 DEF MembersInv, Sound
<1>4. LoopsInv' /\ AliveInv'
  BY <1>2 DEF IInv, LoopsInv, AliveInv
<1>5. PermitsInv'
  BY <1>2, PermitsKept DEF IInv
<1> QED BY <1>2, <1>3, <1>4, <1>5

\* What Join and Leave write.
LEMMA JoinRowTypes ==
    /\ \A v \in {"pass", "fail"} : [pc |-> "joined", verdict |-> v] \in JoinRow
    /\ [pc |-> "idle", verdict |-> "none"] \in JoinRow
BY DEF JoinRow, JoinPcs

\* Every step of a loop keeps the invariant.
LEMMA LoopStepFacts ==
    ASSUME IInv, NEW l \in Loops, LoopStep(l)
    PROVE  IInv'
<1>0. LoopsInv /\ MembersInv /\ AliveInv /\ PermitsInv /\ RestInv
  BY DEF IInv
<1>1. CASE Start(l)
  <2>1. MembersInv' /\ AliveInv' /\ RestInv'
    BY <1>0, <1>1 DEF Start, MembersInv, AliveInv, RestInv, Sound
  <2>2. PermitsInv'
    BY <1>0, <1>1, PermitsKept DEF Start
  <2>3. join' \in [Loops -> JoinRow]
    BY <1>0, <1>1 DEF Start, LoopsInv, JoinRow, JoinPcs
  <2>4. join'[l].pc = "gather" /\ join'[l].verdict = join[l].verdict
        /\ \A k \in Loops : k # l => join'[k] = join[k]
    BY <1>0, <1>1 DEF Start, LoopsInv, JoinRow
  <2>5. LoopsInv'
    BY <1>0, <1>1, <2>3, <2>4, MembersAssumption DEF Start, LoopsInv
  <2> QED BY <2>1, <2>2, <2>5 DEF IInv
<1>2. CASE Fork(l)
  <2> DEFINE t == [IdleMember EXCEPT !.pc = "queued", !.row = "running"]
  <2>1. PICK m \in Members : LoopOf[m] = l /\ member[m].pc = "none" /\ Become(m, t)
    BY <1>2 DEF Fork, Unforked, Of
  <2>2. t \in Member /\ t.pc = "queued" /\ t.attempt = 0
    BY DEF IdleMember, Member, MemberPcs
  <2>3. Sound(m, t)
    BY <2>2, CapAssumption DEF Sound
  <2>4. member'[m] = t /\ \A n \in Members : n # m => member'[n] = member[n]
    BY <1>0, <2>1 DEF MembersInv, Become
  <2>5. MembersInv'
    <3>1. member' \in [Members -> Member]
      BY <1>0, <2>1, <2>2 DEF MembersInv, Become
    <3>2. \A n \in Members : Sound(n, member'[n])
      BY <1>0, <2>3, <2>4 DEF MembersInv
    <3> QED BY <3>1, <3>2 DEF MembersInv, Sound
  <2>6. LoopsInv'
    BY <1>0, <1>2, <2>1, <2>4 DEF LoopsInv, Fork
  <2>7. AliveInv' /\ RestInv'
    BY <1>0, <1>2, <2>1, <2>4 DEF AliveInv, RestInv, Fork
  <2>8. PermitsInv'
    BY <1>0, <1>2, <2>1, <2>2, <2>4, PermitsKept DEF Fork, Holding, Timed
  <2> QED BY <2>5, <2>6, <2>7, <2>8 DEF IInv
<1>3. CASE Join(l)
  <2>1. MembersInv' /\ AliveInv' /\ RestInv'
    BY <1>0, <1>3 DEF Join, MembersInv, AliveInv, RestInv, Sound
  <2>2. PermitsInv'
    BY <1>0, <1>3, PermitsKept DEF Join
  <2>3. PICK v \in {"pass", "fail"} : join' = [join EXCEPT ![l] = [pc |-> "joined", verdict |-> v]]
    BY <1>3 DEF Join
  <2>4. join' \in [Loops -> JoinRow]
    BY <1>0, <2>3, JoinRowTypes DEF LoopsInv
  <2>5. LoopsInv'
    BY <1>0, <1>3, <2>3, <2>4, MembersAssumption DEF Join, AllDone, Of, LoopsInv
  <2> QED BY <2>1, <2>2, <2>5 DEF IInv
<1>4. CASE Abort(l)
  <2>1. \A m \in Members :
          member'[m] = IF LoopOf[m] # l THEN member[m]
                       ELSE IF member[m].pc = "done" THEN IdleMember ELSE Swept(m)
    BY <1>4 DEF Abort
  <2>2. \A m \in Members :
          \/ member'[m].pc = member[m].pc
          \/ member[m].pc = "done" /\ member'[m].pc = "none" /\ LoopOf[m] = l
    <3> TAKE m \in Members
    <3>1. IdleMember.pc = "none" /\ Swept(m).pc = member[m].pc
      BY <1>0, IdleSound, SweptSound
    <3>2. CASE member'[m] = member[m] \/ member'[m] = Swept(m)
      BY <3>1, <3>2
    <3>3. CASE LoopOf[m] = l /\ member[m].pc = "done" /\ member'[m] = IdleMember
      BY <3>1, <3>3
    <3> QED BY <2>1, <3>2, <3>3
  <2>3. MembersInv'
    <3>1. \A m \in Members : Sound(m, member'[m])
      BY <1>0, <2>1, IdleSound, SweptSound DEF MembersInv
    <3>2. member' \in [Members -> Member]
      BY <1>4, <3>1 DEF Abort, Sound
    <3> QED BY <3>1, <3>2 DEF MembersInv, Sound
  <2>4. join'[l].pc = "failed" /\ join'[l].verdict = join[l].verdict
        /\ (\A k \in Loops : k # l => join'[k] = join[k]) /\ join' \in [Loops -> JoinRow]
    BY <1>0, <1>4 DEF Abort, LoopsInv, JoinRow, JoinPcs
  <2>5. LoopsInv'
    BY <1>0, <1>4, <2>2, <2>4, MembersAssumption DEF Abort, LoopsInv
  <2>6. AliveInv' /\ RestInv'
    BY <1>0, <1>4, <2>2 DEF Abort, AliveInv, RestInv
  <2>7. PermitsInv'
    BY <1>0, <1>4, <2>2, PermitsKept DEF Abort, Holding, Timed
  <2> QED BY <2>3, <2>5, <2>6, <2>7 DEF IInv
<1>5. CASE Leave(l)
  <2>1. \A m \in Members : member'[m] = IF LoopOf[m] = l THEN IdleMember ELSE member[m]
    BY <1>5 DEF Leave
  <2>2. \A m \in Members :
          \/ member'[m].pc = member[m].pc /\ LoopOf[m] # l
          \/ member[m].pc \in {"none", "done"} /\ member'[m].pc = "none" /\ LoopOf[m] = l
    BY <1>5, <2>1, IdleSound DEF Leave, Of
  <2>3. MembersInv'
    <3>1. \A m \in Members : Sound(m, member'[m])
      BY <1>0, <2>1, IdleSound DEF MembersInv
    <3>2. member' \in [Members -> Member]
      BY <1>5, <3>1 DEF Leave, Sound
    <3> QED BY <3>1, <3>2 DEF MembersInv, Sound
  <2>4. join' \in [Loops -> JoinRow]
    BY <1>0, <1>5, JoinRowTypes DEF Leave, LoopsInv
  <2>5. join'[l] = [pc |-> "idle", verdict |-> "none"] /\ \A k \in Loops : k # l => join'[k] = join[k]
    BY <1>0, <1>5 DEF Leave, LoopsInv
  <2>6. LoopsInv'
    BY <1>0, <2>2, <2>4, <2>5, MembersAssumption DEF LoopsInv
  <2>7. AliveInv' /\ RestInv'
    BY <1>0, <1>5, <2>2 DEF Leave, AliveInv, RestInv
  <2>8. PermitsInv'
    BY <1>0, <1>5, <2>2, PermitsKept DEF Leave, Holding, Timed
  <2> QED BY <2>3, <2>6, <2>7, <2>8 DEF IInv
<1>6. CASE Pause(l)
  <2>1. RestInv'
    BY <1>0, <1>6 DEF Pause, RestInv
  <2> QED BY <1>6, <2>1, TerminateFacts DEF IInv, Pause
<1>7. CASE Relaunch(l)
  <2>1. MembersInv' /\ AliveInv' /\ RestInv' /\ LoopsInv'
    BY <1>0, <1>7 DEF Relaunch, MembersInv, AliveInv, RestInv, LoopsInv, Sound
  <2>2. PermitsInv'
    BY <1>0, <1>7, PermitsKept DEF Relaunch
  <2> QED BY <2>1, <2>2 DEF IInv
<1> QED BY <1>1, <1>2, <1>3, <1>4, <1>5, <1>6, <1>7 DEF LoopStep, DispatchStep

-----------------------------------------------------------------------------
(* The theorems.                                                           *)

\* The first state satisfies the invariant.
LEMMA InitIInv == Init => IInv
<1> SUFFICES ASSUME Init PROVE IInv
  OBVIOUS
<1>1. MembersInv
  BY IdleSound DEF Init, MembersInv, Sound
<1>2. LoopsInv
  BY IdleSound, JoinRowTypes, MembersAssumption DEF Init, LoopsInv
<1>3. PermitsInv
  <2>1. Holders = {}
    BY IdleSound DEF Init, Holders, Holding, Timed
  <2> QED BY <2>1, FS_EmptySet, CapAssumption DEF Init, PermitsInv
<1> QED BY <1>1, <1>2, <1>3 DEF Init, IInv, AliveInv, RestInv

\* Every step keeps the invariant.
LEMMA NextIInv == IInv /\ [Next]_vars => IInv'
<1> SUFFICES ASSUME IInv, [Next]_vars PROVE IInv'
  OBVIOUS
<1>1. CASE Next
  BY <1>1, MemberStepFacts, LoopStepFacts DEF Next
<1>2. CASE UNCHANGED vars
  BY <1>2 DEF IInv, MembersInv, LoopsInv, AliveInv, PermitsInv, RestInv, Holders, Sound, vars
<1> QED BY <1>1, <1>2

\* The inductive invariant holds throughout.
THEOREM Invariant == Spec => []IInv
BY InitIInv, NextIInv, PTL DEF Spec

\* Every variable keeps its type, and no member is retried past its limit.
THEOREM TypeCorrect == Spec => []TypeOK
<1>1. IInv => TypeOK
  <2> SUFFICES ASSUME IInv PROVE TypeOK
    OBVIOUS
  <2>1. Cardinality(Holders) \in Nat
    BY MembersFinite DEF Holders
  <2>2. permits \in 0..Cap
    BY <2>1, CapAssumption DEF IInv, PermitsInv
  <2> QED BY <2>2 DEF IInv, TypeOK, MembersInv, LoopsInv, AliveInv, RestInv, JoinRow, Sound
<1> QED BY <1>1, Invariant, PTL

\* A process lives only while its task holds a permit, so the cap holds.
THEOREM CapIsHeld == Spec => []CapHeld
<1>1. IInv => CapHeld
  <2> SUFFICES ASSUME IInv PROVE CapHeld
    OBVIOUS
  <2>1. alive \subseteq Holders
    BY DEF IInv, AliveInv, Holders, Holding, Timed
  <2>2. IsFiniteSet(Holders) /\ Cardinality(Holders) \in Nat /\ Cardinality(alive) \in Nat
    BY MembersFinite DEF Holders, IInv, AliveInv
  <2>3. Cardinality(alive) <= Cardinality(Holders)
    BY <2>1, <2>2, FS_Subset
  <2> QED BY <2>2, <2>3, CapAssumption DEF IInv, PermitsInv, CapHeld
<1> QED BY <1>1, Invariant, PTL

\* No process outlives the round it was started in.
THEOREM NothingOutlives == Spec => []NoProcessOutlives
<1>1. IInv => NoProcessOutlives
  <2> SUFFICES ASSUME IInv, NEW m \in alive PROVE join[LoopOf[m]].pc \in {"gather", "failed"}
    BY DEF NoProcessOutlives
  <2>1. m \in Members /\ member[m].pc = "work" /\ join[LoopOf[m]] \in JoinRow
    BY MembersAssumption DEF IInv, AliveInv, LoopsInv
  <2> QED BY <2>1 DEF IInv, LoopsInv, JoinRow, JoinPcs
<1> QED BY <1>1, Invariant, PTL

\* A join leaves no member's row running, unless a database call failed.
THEOREM RowsAreClosed == Spec => []RowsClosed
<1>1. IInv => RowsClosed
  BY DEF IInv, RowsClosed, LoopsInv, MembersInv, Sound, Of
<1> QED BY <1>1, Invariant, PTL

-----------------------------------------------------------------------------
(* The refinement.                                                         *)

JoinVars == <<[m \in Members |-> Ballot(m)], {l \in moved : InRound(l)},
              [l \in Loops |-> join[l].verdict]>>

\* Steps that leave the votes, HEAD and the verdicts of the rounds alone.
Stutters ==
    /\ \A m \in Members : Ballot(m)' = Ballot(m)
    /\ {l \in moved : InRound(l)}' = {l \in moved : InRound(l)}
    /\ \A l \in Loops : join'[l].verdict = join[l].verdict

\* Such a step is a stuttering step of EnsembleJoin.
LEMMA StuttersLeavesJoin == Stutters => UNCHANGED JoinVars
BY DEF Stutters, JoinVars

\* A member's result is its vote; what else it does moves HEAD or shows
\* nowhere.
LEMMA MemberStepOfJoins ==
    ASSUME IInv, NEW m \in Members, MemberFacts(m)
    PROVE  [Joins!JoinNext]_JoinVars
<1> DEFINE l == LoopOf[m]
<1>1. l \in Loops
  BY MembersAssumption
<1>2. PICK t \in Member : Replaces(m, t)
  BY DEF MemberFacts
<1>3. member'[m] = t /\ (\A n \in Members : n # m => member'[n] = member[n]) /\ join' = join
  BY <1>2, ReplacesKeeps DEF Replaces
<1>4. \A n \in Members : n # m => Ballot(n)' = Ballot(n)
  BY <1>3 DEF Ballot, InRound
<1>5. \A k \in Loops : join'[k].verdict = join[k].verdict
  BY <1>3
<1>6. moved' \in {moved, moved \cup ({l} \cap Watched)}
  BY <1>2 DEF Replaces
<1>7. ASSUME ~InRound(l) \/ member[m].pc = "done"
      PROVE  Stutters
  <2>1. Ballot(m)' = Ballot(m)
    BY <1>2, <1>3, <1>7 DEF Ballot, InRound, Replaces
  <2>2. {k \in moved : InRound(k)}' = {k \in moved : InRound(k)}
    BY <1>2, <1>3, <1>6, <1>7 DEF InRound, Replaces
  <2> QED BY <1>4, <1>5, <2>1, <2>2 DEF Stutters
<1>8. ASSUME InRound(l), member[m].pc # "done"
      PROVE  Joins!Vote(m)
  <2>1. join[l].pc = "gather" /\ join[l].verdict = "none"
    BY <1>1, <1>8 DEF InRound, IInv, LoopsInv
  <2>2. Ballot(m) = "none" /\ Ballot(m)' \in Joins!Votes
    BY <1>8 DEF Ballot, Joins!Votes
  <2>3. [n \in Members |-> Ballot(n)]' = [[n \in Members |-> Ballot(n)] EXCEPT ![m] = Ballot(m)']
    BY <1>4
  <2>4. {k \in moved : InRound(k)}' \in {{k \in moved : InRound(k)},
                                         {k \in moved : InRound(k)} \cup {l}}
    BY <1>3, <1>6, <1>8 DEF InRound
  <2> QED BY <1>1, <1>5, <2>1, <2>2, <2>3, <2>4 DEF Joins!Vote, Joins!MovesHead
<1> QED BY <1>7, <1>8, StuttersLeavesJoin DEF Joins!JoinNext

\* The end of a round clears it.
LEMMA ClearsRound ==
    ASSUME IInv, NEW l \in Loops,
           ~InRound(l)', join'[l].verdict = "none",
           \A k \in Loops : k # l => join'[k] = join[k],
           \A m \in Members : LoopOf[m] # l => member'[m] = member[m],
           moved' \ {l} = moved \ {l}
    PROVE  Joins!Clear(l)
<1>1. \A k \in Loops : k # l => (InRound(k)' <=> InRound(k))
  BY DEF InRound
<1>2. \A m \in Members : Ballot(m)' = IF LoopOf[m] = l THEN "none" ELSE Ballot(m)
  <2> TAKE m \in Members
  <2>1. CASE LoopOf[m] = l
    BY <2>1 DEF Ballot
  <2>2. CASE LoopOf[m] # l
    <3>1. LoopOf[m] \in Loops
      BY MembersAssumption
    <3> QED BY <2>2, <3>1, <1>1 DEF Ballot
  <2> QED BY <2>1, <2>2
<1>3. {k \in moved : InRound(k)}' = {k \in moved : InRound(k)} \ {l}
  <2>1. moved \subseteq Loops
    BY MembersAssumption DEF IInv, RestInv
  <2> QED BY <1>1, <2>1
<1> QED BY <1>2, <1>3 DEF Joins!Clear

\* A join decides, the end of a round clears it, the rest is not seen.
LEMMA LoopStepOfJoins ==
    ASSUME IInv, IInv', NEW l \in Loops, LoopStep(l)
    PROVE  [Joins!JoinNext]_JoinVars
<1>0. LoopsInv /\ MembersInv /\ RestInv /\ LoopsInv'
  BY DEF IInv
<1>1. CASE Start(l)
  <2>1. join'[l].pc = "gather" /\ join[l].pc = "idle" /\ join'[l].verdict = join[l].verdict
        /\ (\A k \in Loops : k # l => join'[k] = join[k]) /\ member' = member
    BY <1>0, <1>1 DEF Start, LoopsInv, JoinRow
  <2>2. \A m \in Members : Ballot(m)' = Ballot(m)
    BY <1>0, <2>1, MembersAssumption DEF Ballot, InRound, LoopsInv
  <2>3. {k \in moved : InRound(k)}' = {k \in moved : InRound(k)}
    BY <1>0, <1>1, <2>1, MembersAssumption DEF Start, InRound, RestInv
  <2> QED BY <2>1, <2>2, <2>3, StuttersLeavesJoin DEF Stutters
<1>2. CASE Fork(l)
  <2>1. \A m \in Members :
          \/ member'[m] = member[m]
          \/ member[m].pc # "done" /\ member'[m].pc # "done"
    <3>1. PICK m \in Members : member[m].pc = "none"
                 /\ Become(m, [IdleMember EXCEPT !.pc = "queued", !.row = "running"])
      BY <1>2 DEF Fork, Unforked, Of
    <3> QED BY <1>0, <3>1 DEF MembersInv, Become, IdleMember
  <2>2. Stutters
    BY <1>2, <2>1 DEF Fork, Stutters, Ballot, InRound
  <2> QED BY <2>2, StuttersLeavesJoin
<1>3. CASE Join(l)
  <2>1. join[l].pc = "gather" /\ join[l].verdict = "none" /\ member' = member /\ moved' = moved
    BY <1>0, <1>3 DEF Join, LoopsInv
  <2>2. join'[l].pc = "joined" /\ \A k \in Loops : k # l => join'[k] = join[k]
    BY <1>0, <1>3 DEF Join, LoopsInv
  <2>3. \A m \in Of(l) : Ballot(m) = IF member[m].vote = "pass" THEN "for" ELSE "against"
    BY <1>3, <2>1 DEF Join, AllDone, Ballot, InRound, Of
  <2>4. Passed(l) = {m \in Joins!Of(l) : [n \in Members |-> Ballot(n)][m] = "for"}
    BY <2>3 DEF Passed, Of, Joins!Of
  <2>5. Joins!Won(l) <=> Cardinality(Passed(l)) >= MinPass[l] /\ l \notin moved
    <3>1. l \in {k \in moved : InRound(k)} <=> l \in moved
      BY <2>1 DEF InRound
    <3>2. Cardinality({m \in Joins!Of(l) : [n \in Members |-> Ballot(n)][m] = "for"})
            = Cardinality(Passed(l))
      BY <2>4
    <3>3. \A S : Joins!Cardinality(S) = Cardinality(S)
      BY DEF Cardinality, Joins!Cardinality
    <3> QED BY <3>1, <3>2, <3>3 DEF Joins!Won
  <2>6. [k \in Loops |-> join[k].verdict]'
          = [[k \in Loops |-> join[k].verdict] EXCEPT ![l] = IF Joins!Won(l) THEN "pass" ELSE "fail"]
    <3>1. join'[l].verdict = IF Joins!Won(l) THEN "pass" ELSE "fail"
      BY <1>0, <1>3, <2>5 DEF Join, LoopsInv
    <3> QED BY <2>2, <3>1
  <2>7. [n \in Members |-> Ballot(n)]' = [n \in Members |-> Ballot(n)]
    BY <2>1, <2>2, MembersAssumption DEF Ballot, InRound
  <2>8. {k \in moved : InRound(k)}' = {k \in moved : InRound(k)}
    BY <1>0, <2>1, <2>2, MembersAssumption DEF InRound, RestInv
  <2>9. \A m \in Joins!Of(l) : [n \in Members |-> Ballot(n)][m] # "none"
    BY <2>3 DEF Joins!Of, Of
  <2> QED BY <2>1, <2>6, <2>7, <2>8, <2>9 DEF Joins!JoinNext, Joins!Decide
<1>4. CASE Abort(l)
  <2>1. join[l].verdict = "none" /\ join'[l].pc = "failed" /\ join'[l].verdict = join[l].verdict
        /\ \A k \in Loops : k # l => join'[k] = join[k]
    BY <1>0, <1>4 DEF Abort, LoopsInv, JoinRow
  <2>2. \A m \in Members : LoopOf[m] # l => member'[m] = member[m]
    BY <1>4 DEF Abort
  <2>3. moved' = moved
    BY <1>4 DEF Abort
  <2>4. Joins!Clear(l)
    BY <2>1, <2>2, <2>3, ClearsRound DEF InRound
  <2> QED BY <2>4 DEF Joins!JoinNext
<1>5. CASE Leave(l)
  <2>1. join'[l].pc = "idle" /\ join'[l].verdict = "none"
        /\ \A k \in Loops : k # l => join'[k] = join[k]
    BY <1>0, <1>5 DEF Leave, LoopsInv
  <2>2. \A m \in Members : LoopOf[m] # l => member'[m] = member[m]
    BY <1>5 DEF Leave
  <2>3. moved' = moved \ {l}
    BY <1>5 DEF Leave
  <2>4. Joins!Clear(l)
    BY <2>1, <2>2, <2>3, ClearsRound DEF InRound
  <2> QED BY <2>4 DEF Joins!JoinNext
<1>6. CASE Pause(l)
  <2>1. \A m \in Members : member'[m].pc = member[m].pc /\ member'[m].vote = member[m].vote
    BY <1>6, TerminateFacts DEF Pause
  <2>2. Stutters
    BY <1>6, <2>1 DEF Pause, Stutters, Ballot, InRound
  <2> QED BY <2>2, StuttersLeavesJoin
<1>7. CASE Relaunch(l)
  <2>1. Stutters
    BY <1>7 DEF Relaunch, Stutters, Ballot, InRound
  <2> QED BY <2>1, StuttersLeavesJoin
<1> QED BY <1>1, <1>2, <1>3, <1>4, <1>5, <1>6, <1>7 DEF LoopStep, DispatchStep

\* The ensembles implement the joins that docs/loops.md promises.
THEOREM EnsemblesImplementJoins == Spec => QuorumOfAll
<1>1. Init => Joins!JoinInit
  BY MembersAssumption DEF Init, Joins!JoinInit, Ballot, InRound
<1>2. IInv /\ [Next]_vars => [Joins!JoinNext]_JoinVars
  <2> SUFFICES ASSUME IInv, [Next]_vars PROVE [Joins!JoinNext]_JoinVars
    OBVIOUS
  <2>1. CASE Next
    BY <2>1, NextIInv, MemberStepFacts, LoopStepFacts, MemberStepOfJoins, LoopStepOfJoins DEF Next
  <2>2. CASE UNCHANGED vars
    <3>1. Stutters
      BY <2>2 DEF vars, Stutters, Ballot, InRound
    <3> QED BY <3>1, StuttersLeavesJoin
  <2> QED BY <2>1, <2>2
<1>3. JoinVars = <<[m \in Members |-> Ballot(m)], {l \in moved : InRound(l)},
                   [l \in Loops |-> join[l].verdict]>>
  BY DEF JoinVars
<1> QED BY <1>1, <1>2, Invariant, PTL DEF Spec, QuorumOfAll, Joins!JoinSpec, Joins!jvars, JoinVars
=============================================================================
