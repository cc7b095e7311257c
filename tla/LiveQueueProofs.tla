--------------------------- MODULE LiveQueueProofs ---------------------------
(***************************************************************************)
(* Theorems about LiveQueue, for every set of specs, number of calls and   *)
(* bound on reopened specs.                                                *)
(***************************************************************************)
EXTENDS LiveQueue, FiniteSetTheorems, SequenceTheorems, TLAPS

-----------------------------------------------------------------------------
(* Queues.  SetToAllKPermutations is built from cardinalities; what the     *)
(* proofs use is that a queue is a sequence of specs without repetition.    *)

NoRepeats(q) == \A i, j \in 1..Len(q) : q[i] = q[j] => i = j

LEMMA QueueIsSeq ==
  ASSUME NEW q \in SetToAllKPermutations(Specs)
  PROVE  q \in Seq(Specs) /\ NoRepeats(q)
<1>1. PICK S \in SUBSET Specs : q \in SetToSeqs(S)
  BY DEF SetToAllKPermutations
<1>2. Cardinality(S) \in Nat
  BY SpecsAssumption, FS_Subset, FS_CardinalityType
<1>3. /\ q \in [1..Cardinality(S) -> S]
      /\ \A i, j \in 1..Cardinality(S) : i # j => q[i] # q[j]
  BY <1>1 DEF SetToSeqs
<1>4. q \in Seq(Specs) /\ Len(q) = Cardinality(S)
  BY <1>2, <1>3
<1> QED  BY <1>3, <1>4 DEF NoRepeats

LEMMA SeqIsQueue ==
  ASSUME NEW q \in Seq(Specs), NoRepeats(q)
  PROVE  q \in SetToAllKPermutations(Specs)
<1> DEFINE S == Range(q)
           D == 1..Len(q)
<1>1. Len(q) \in Nat /\ DOMAIN q = D /\ q \in [D -> Specs]
  BY LenProperties
<1>2. S \subseteq Specs /\ q \in [D -> S] /\ \A x \in S : \E i \in D : q[i] = x
  BY <1>1 DEF Range
<1>3. q \in Bijection(D, S)
  BY <1>1, <1>2 DEF NoRepeats, Bijection, Injection, Surjection, IsInjective
<1>4. Cardinality(S) = Len(q)
  BY <1>1, <1>3, FS_CountingElements DEF ExistsBijection
<1>5. q \in SetToSeqs(S)
  BY <1>2, <1>4 DEF SetToSeqs, NoRepeats
<1> QED  BY <1>2, <1>5 DEF SetToAllKPermutations

\* queue_add_spec: appending what is no member yet.
LEMMA AppendIsQueue ==
  ASSUME NEW q \in SetToAllKPermutations(Specs), NEW s \in Specs, s \notin Range(q)
  PROVE  Append(q, s) \in SetToAllKPermutations(Specs)
<1>1. q \in Seq(Specs) /\ NoRepeats(q)
  BY QueueIsSeq
<1>2. \A i \in 1..Len(q) : q[i] # s
  BY <1>1 DEF Range
<1>3. /\ Append(q, s) \in Seq(Specs) /\ Len(Append(q, s)) = Len(q) + 1
      /\ \A i \in 1..Len(q) : Append(q, s)[i] = q[i]
      /\ Append(q, s)[Len(q) + 1] = s
  BY <1>1, AppendProperties
<1>4. NoRepeats(Append(q, s))
  <2> SUFFICES ASSUME NEW i \in 1..(Len(q) + 1), NEW j \in 1..(Len(q) + 1),
                      Append(q, s)[i] = Append(q, s)[j]
               PROVE  i = j
    BY <1>3 DEF NoRepeats
  <2>1. Len(q) \in Nat
    BY <1>1
  <2>2. /\ i \in 1..Len(q) \/ i = Len(q) + 1
        /\ j \in 1..Len(q) \/ j = Len(q) + 1
    BY <2>1
  <2> QED  BY <1>1, <1>2, <1>3, <2>2 DEF NoRepeats
<1> QED  BY <1>3, <1>4, SeqIsQueue

\* remove_queue_member: deleting one row.
LEMMA RemoveIsQueue ==
  ASSUME NEW q \in SetToAllKPermutations(Specs), NEW k \in DOMAIN q
  PROVE  RemoveAt(q, k) \in SetToAllKPermutations(Specs)
<1>1. q \in Seq(Specs) /\ NoRepeats(q)
  BY QueueIsSeq
<1>2. Len(q) \in Nat /\ k \in 1..Len(q) /\ \A i \in 1..Len(q) : q[i] \in Specs
  BY <1>1, LenProperties
<1> DEFINE a == SubSeq(q, 1, k - 1)
           b == SubSeq(q, k + 1, Len(q))
<1>3. /\ a \in Seq(Specs) /\ Len(a) = k - 1
      /\ \A i \in 1..(k - 1) : a[i] = q[i]
  BY <1>2, SubSeqProperties
<1>4. /\ b \in Seq(Specs) /\ Len(b) = Len(q) - k
      /\ \A i \in 1..(Len(q) - k) : b[i] = q[k + i]
  <2>1. \A i \in (k + 1)..Len(q) : q[i] \in Specs
    BY <1>2
  <2>2. /\ b \in Seq(Specs) /\ Len(b) = IF k + 1 <= Len(q) THEN Len(q) - (k + 1) + 1 ELSE 0
        /\ \A i \in 1..(Len(q) - (k + 1) + 1) : b[i] = q[(k + 1) + i - 1]
    <3>1. k + 1 \in Int /\ Len(q) \in Int
      BY <1>2
    <3> QED  BY <2>1, <3>1, SubSeqProperties
  <2>3. Len(q) - (k + 1) + 1 = Len(q) - k /\ \A i \in Int : (k + 1) + i - 1 = k + i
    BY <1>2
  <2>4. Len(b) = Len(q) - k
    <3> HIDE DEF b
    <3> QED  BY <1>2, <2>2
  <2>5. ASSUME NEW i \in 1..(Len(q) - k) PROVE b[i] = q[k + i]
    <3>1. i \in Int /\ i \in 1..(Len(q) - (k + 1) + 1)
      BY <1>2
    <3>2. b[i] = q[(k + 1) + i - 1] /\ (k + 1) + i - 1 = k + i
      BY <2>2, <2>3, <3>1
    <3> QED  BY <3>2
  <2> QED  BY <2>2, <2>4, <2>5
<1> HIDE DEF a, b
<1> DEFINE e == a \o b
           M == Len(q) - 1
<1>5. /\ e \in Seq(Specs) /\ Len(e) = M
      /\ \A i \in 1..M : e[i] = IF i < k THEN q[i] ELSE q[i + 1]
  <2>1. /\ e \in Seq(Specs) /\ Len(e) = Len(a) + Len(b)
        /\ \A i \in 1..(Len(a) + Len(b)) : e[i] = IF i <= Len(a) THEN a[i] ELSE b[i - Len(a)]
    BY <1>3, <1>4, ConcatProperties
  <2>2. Len(a) + Len(b) = M
    BY <1>2, <1>3, <1>4
  <2>3. ASSUME NEW i \in 1..M PROVE e[i] = IF i < k THEN q[i] ELSE q[i + 1]
    <3>1. CASE i < k
      BY <1>2, <1>3, <2>1, <2>2, <3>1
    <3>2. CASE ~(i < k)
      <4>1. i - (k - 1) \in 1..(Len(q) - k) /\ k + (i - (k - 1)) = i + 1 /\ ~(i <= k - 1)
        BY <1>2, <3>2
      <4>2. e[i] = b[i - (k - 1)]
        BY <1>3, <2>1, <2>2, <4>1
      <4> QED  BY <1>4, <3>2, <4>1, <4>2
    <3> QED  BY <3>1, <3>2
  <2> QED  BY <2>1, <2>2, <2>3
<1>6. NoRepeats(e)
  <2> SUFFICES ASSUME NEW i \in 1..M, NEW j \in 1..M, e[i] = e[j] PROVE i = j
    BY <1>5 DEF NoRepeats
  <2> DEFINE f(n) == IF n < k THEN n ELSE n + 1
  <2>1. f(i) \in 1..Len(q) /\ f(j) \in 1..Len(q) /\ (f(i) = f(j) => i = j)
    BY <1>2
  <2>2. e[i] = q[f(i)] /\ e[j] = q[f(j)]
    BY <1>5
  <2> QED  BY <1>1, <2>1, <2>2 DEF NoRepeats
<1> HIDE DEF e
<1>7. e \in SetToAllKPermutations(Specs)
  BY <1>5, <1>6, SeqIsQueue
<1> QED  BY <1>7 DEF RemoveAt, e, a, b

\* queue_reorder: a permutation of the list that was read.
LEMMA ReorderIsQueue ==
  ASSUME NEW q \in SetToAllKPermutations(Specs), NEW order \in SetToSeqs(Range(q))
  PROVE  order \in SetToAllKPermutations(Specs)
<1>1. Range(q) \subseteq Specs
  BY QueueIsSeq, LenProperties DEF Range
<1> QED  BY <1>1 DEF SetToAllKPermutations

LEMMA EmptyIsQueue == <<>> \in SetToAllKPermutations(Specs)
<1>1. <<>> \in Seq(Specs) /\ Len(<<>>) = 0
  BY EmptySeq
<1>2. NoRepeats(<<>>)
  BY <1>1 DEF NoRepeats
<1> QED  BY <1>1, <1>2, SeqIsQueue

-----------------------------------------------------------------------------
(* The invariant.  TypeOK is not inductive: a spec is written by the task   *)
(* only because it has one where it works.  SeenDone is what keeps Complete *)
(* honest: between the last look and the last write no action makes a spec  *)
(* that was seen done anything but done or pending.                         *)

GoodTask == {t \in Task : t.pc \in {"start", "work"} => t.cur \in Specs}

SeenDone == task.pc = "complete" => \A s \in task.seen : spec[s] \in Done \cup {"pending"}

IInv == TypeOK /\ task \in GoodTask /\ SeenDone

LEMMA MembersAreSpecs == ASSUME TypeOK PROVE Members \subseteq Specs
BY QueueIsSeq, LenProperties DEF TypeOK, Members, Range

LEMMA IdleGood == IdleTask \in GoodTask /\ IdleTask.pc = "idle" /\ IdleCall \in Call
BY EmptyIsQueue DEF IdleTask, GoodTask, Task, TaskPcs, IdleCall, Call

LEMMA InitIInv == Init => IInv
BY EmptyIsQueue, IdleGood, ReopensAssumption
   DEF Init, IInv, TypeOK, SeenDone, Incomplete, Runnable, Done, LoopRow, GoodTask

\* A step of the dispatch that leaves the queue and the calls alone.
LEMMA TaskStep ==
  ASSUME IInv, NEW t \in GoodTask, task' = t, t.pc # "complete",
         spec' \in [Specs -> Incomplete \cup Done], open' \subseteq Specs, loop' \in LoopRow,
         UNCHANGED <<members, call, reopened>>
  PROVE  IInv'
BY DEF IInv, TypeOK, SeenDone, GoodTask

\* A step that leaves the dispatch alone, and of what it has seen makes
\* nothing but pending or done.
LEMMA OtherStep ==
  ASSUME IInv, task' = task,
         members' \in SetToAllKPermutations(Specs),
         spec' \in [Specs -> Incomplete \cup Done],
         \A s \in Specs : spec'[s] # spec[s] => spec'[s] \in Done \cup {"pending"},
         open' \subseteq Specs, loop' \in LoopRow, call' \in [Calls -> Call],
         reopened' \in 0..MaxReopens
  PROVE  IInv'
<1>1. task.seen \subseteq Specs
  BY DEF IInv, TypeOK, Task
<1> QED  BY <1>1 DEF IInv, TypeOK, SeenDone

LEMMA MoveGood ==
  ASSUME IInv, NEW pc \in TaskPcs, pc \in {"start", "work"} => task.cur \in Specs
  PROVE  /\ [task EXCEPT !.pc = pc] \in GoodTask
         /\ [task EXCEPT !.pc = pc].pc = pc
BY DEF IInv, TypeOK, GoodTask, Task

LEMMA TakeGood ==
  ASSUME IInv, NEW pc \in TaskPcs, NEW s \in Specs \cup {NoSpec},
         pc \in {"start", "work"} => s \in Specs
  PROVE  /\ [task EXCEPT !.pc = pc, !.cur = s] \in GoodTask
         /\ [task EXCEPT !.pc = pc, !.cur = s].pc = pc
BY DEF IInv, TypeOK, GoodTask, Task

LEMMA LoopStatusGood ==
  ASSUME TypeOK, NEW st \in {"draft", "running", "paused", "completed", "failed"}, SetLoopStatus(st)
  PROVE  loop' \in LoopRow
BY DEF TypeOK, LoopRow, SetLoopStatus

LEMMA SpecStatusGood ==
  ASSUME TypeOK, NEW s \in Specs, NEW st \in Incomplete \cup Done, SetSpecStatus(s, st)
  PROVE  /\ spec' \in [Specs -> Incomplete \cup Done]
         /\ spec'[s] = st /\ \A q \in Specs \ {s} : spec'[q] = spec[q]
BY DEF TypeOK, SetSpecStatus

LEMMA FirstIsSpec ==
  ASSUME TypeOK, NEW s \in Members PROVE s \in Specs
BY MembersAreSpecs

LEMMA DispatchStepIInv == ASSUME IInv, DispatchStep PROVE IInv'
<1> USE DEF IInv
<1> DEFINE Rest == /\ spec' \in [Specs -> Incomplete \cup Done] /\ open' \subseteq Specs
                   /\ loop' \in LoopRow
<1>1. ASSUME Rest, UNCHANGED <<members, call, reopened>>,
             \/ Return
             \/ \E pc \in TaskPcs \ {"start", "work", "complete"} : Move(pc)
             \/ \E s \in Specs \cup {NoSpec}, pc \in TaskPcs \ {"complete"} :
                   Take(pc, s) /\ (pc \in {"start", "work"} => s \in Specs)
      PROVE  IInv'
  <2>1. CASE Return
    BY <1>1, <2>1, IdleGood, TaskStep DEF Return
  <2>2. ASSUME NEW pc \in TaskPcs \ {"start", "work", "complete"}, Move(pc) PROVE IInv'
    <3> DEFINE t == [task EXCEPT !.pc = pc]
    <3>1. t \in GoodTask /\ t.pc # "complete" /\ task' = t
      BY <2>2, MoveGood DEF Move
    <3> HIDE DEF t
    <3> QED  BY <1>1, <3>1, TaskStep
  <2>3. ASSUME NEW s \in Specs \cup {NoSpec}, NEW pc \in TaskPcs \ {"complete"}, Take(pc, s),
               pc \in {"start", "work"} => s \in Specs
        PROVE  IInv'
    <3> DEFINE t == [task EXCEPT !.pc = pc, !.cur = s]
    <3>1. t \in GoodTask /\ t.pc = pc
      BY <2>3, TakeGood
    <3>2. task' = t /\ pc # "complete"
      BY <2>3 DEF Take
    <3> HIDE DEF t
    <3> QED  BY <1>1, <3>1, <3>2, TaskStep
  <2> QED  BY <1>1, <2>1, <2>2, <2>3
<1>2. CASE Launch
  BY <1>1, <1>2 DEF Launch, TypeOK, TaskPcs
<1>3. CASE Claim
  <2>1. loop' \in LoopRow
    BY <1>3, LoopStatusGood DEF Claim, TypeOK
  <2> QED  BY <1>1, <1>3, <2>1 DEF Claim, TypeOK, TaskPcs
<1>4. CASE Context
  <2>1. loop' \in LoopRow
    BY <1>4 DEF Context, TypeOK, LoopRow
  <2>2. \E pc \in {"take", "pick"} : Move(pc)
    BY <1>4 DEF Context
  <2> QED  BY <1>1, <1>4, <2>1, <2>2 DEF Context, TypeOK, TaskPcs
<1>5. CASE Pick
  <2>1. Rest /\ UNCHANGED <<members, call, reopened>>
    BY <1>5 DEF Pick, TypeOK
  <2>2. Return \/ Move("check") \/ \E s \in Members : Take("start", s)
    BY <1>5 DEF Pick
  <2> QED  BY <1>1, <2>1, <2>2, FirstIsSpec DEF TaskPcs
<1>6. CASE Resume
  <2>1. Rest /\ UNCHANGED <<members, call, reopened>>
    BY <1>6 DEF Resume, TypeOK
  <2>2. task' \in GoodTask /\ task'.pc # "complete"
    <3>1. CASE task' = [IdleTask EXCEPT !.pc = "pick"]
      BY <3>1 DEF IdleTask, GoodTask, Task, TaskPcs
    <3>2. ASSUME NEW s \in Members, task' = [IdleTask EXCEPT !.pc = "start", !.cur = s]
          PROVE  task' \in GoodTask /\ task'.pc # "complete"
      BY <3>2, FirstIsSpec DEF IdleTask, GoodTask, Task, TaskPcs
    <3> QED  BY <1>6, <3>1, <3>2 DEF Resume
  <2> QED  BY <2>1, <2>2, TaskStep
<1>7. CASE Start
  <2>1. task.cur \in Specs
    BY <1>7 DEF Start, GoodTask
  <2>2. spec' \in [Specs -> Incomplete \cup Done] /\ open' \subseteq Specs /\ loop' \in LoopRow
    BY <1>7, <2>1 DEF Start, TypeOK, Incomplete
  <2> DEFINE t == [task EXCEPT !.pc = "work"]
  <2>3. t \in GoodTask /\ t.pc = "work" /\ task' = t
    BY <1>7, <2>1, MoveGood DEF Start, Move, TaskPcs
  <2> HIDE DEF t
  <2> QED  BY <1>7, <2>2, <2>3, TaskStep DEF Start
<1>8. CASE WorkEnds
  <2>1. task.cur \in Specs
    BY <1>8 DEF WorkEnds, GoodTask
  <2>2. open' \subseteq Specs /\ loop' \in LoopRow /\ UNCHANGED <<members, call, reopened>>
    BY <1>8 DEF WorkEnds, TypeOK
  <2>3. spec' \in [Specs -> Incomplete \cup Done]
    <3>1. spec' = spec \/ \E st \in {"completed", "failed"} : SetSpecStatus(task.cur, st)
      BY <1>8 DEF WorkEnds
    <3> QED  BY <2>1, <3>1, SpecStatusGood DEF TypeOK, Incomplete, Done
  <2>4. Return \/ \E pc \in {"pick", "fail", "block"} : Take(pc, NoSpec)
    BY <1>8 DEF WorkEnds
  <2> QED  BY <1>1, <2>2, <2>3, <2>4 DEF TaskPcs
<1>9. CASE Fail \/ Complete
  <2>1. loop' \in LoopRow
    BY <1>9, LoopStatusGood DEF Fail, Complete
  <2> QED  BY <1>1, <1>9, <2>1 DEF Fail, Complete, TypeOK
<1>10. CASE Check
  <2>1. CASE HasIncomplete
    BY <1>1, <1>10, <2>1 DEF Check, TypeOK
  <2>2. CASE ~HasIncomplete
    <3>1. UNCHANGED <<members, spec, open, loop, call, reopened>>
          /\ task' = [task EXCEPT !.pc = "complete", !.seen = Members]
      BY <1>10, <2>2 DEF Check
    <3>2. Members \subseteq Specs /\ \A s \in Members : spec[s] \in Done
      BY <2>2, MembersAreSpecs DEF HasIncomplete, With, TypeOK
    <3>3. task' \in GoodTask /\ task'.seen = Members
      BY <3>1, <3>2 DEF TypeOK, GoodTask, Task, TaskPcs
    <3> QED  BY <3>1, <3>2, <3>3 DEF TypeOK, SeenDone, GoodTask
  <2> QED  BY <2>1, <2>2
<1> QED  BY <1>2, <1>3, <1>4, <1>5, <1>6, <1>7, <1>8, <1>9, <1>10 DEF DispatchStep

\* tokio::spawn: a task in no place where it holds a spec.
LEMMA SpawnGood ==
  ASSUME NEW resume \in BOOLEAN, SpawnDispatch(resume)
  PROVE  task' \in GoodTask /\ task'.pc = "launch"
BY IdleGood DEF SpawnDispatch, GoodTask, Task, TaskPcs

LEMMA LoopToolIInv ==
  ASSUME IInv, OpenRow \/ LoopRun \/ LoopPause \/ LoopContinue PROVE IInv'
<1> USE DEF IInv
<1>1. CASE OpenRow
  <2>1. task.cur \in Specs
    BY <1>1 DEF OpenRow, GoodTask
  <2> QED  BY <1>1, <2>1, OtherStep DEF OpenRow, TypeOK
<1>2. CASE LoopRun
  <2>1. task' \in GoodTask /\ task'.pc = "launch"
    BY <1>2, SpawnGood DEF LoopRun
  <2> QED  BY <1>2, <2>1, TaskStep DEF LoopRun, TypeOK
<1>3. CASE LoopPause
  <2>1. loop' \in LoopRow
    BY <1>3, LoopStatusGood DEF LoopPause
  <2> QED  BY <1>3, <2>1, OtherStep DEF LoopPause, TypeOK
<1>4. CASE LoopContinue
  <2>1. task' \in GoodTask /\ task'.pc = "launch"
    BY <1>4, SpawnGood DEF LoopContinue
  <2>2. spec' \in [Specs -> Incomplete \cup Done]
    BY <1>4, SpecStatusGood, FirstIsSpec DEF LoopContinue, TypeOK, Done
  <2> QED  BY <1>4, <2>1, <2>2, TaskStep DEF LoopContinue, TypeOK
<1> QED  BY <1>1, <1>2, <1>3, <1>4

\* Writing one slot of the calls.
LEMMA BeginGood ==
  ASSUME TypeOK, NEW c \in Calls, NEW r \in Call, Begin(c, r)
  PROVE  call' \in [Calls -> Call]
BY DEF TypeOK, Begin

LEMMA CallIInv ==
  ASSUME IInv, NEW c \in Calls, LoopReset(c) \/ Reorder(c) \/ CallStep(c)
  PROVE  IInv'
<1> USE DEF IInv
<1>1. call[c] \in Call
  BY DEF TypeOK
<1>2. CASE LoopReset(c)
  <2> DEFINE T == IF loop.queued THEN With(Incomplete \cup {"skipped"}) ELSE {}
             r == [IdleCall EXCEPT !.step = "reset", !.targets = T]
  <2>1. T \subseteq Specs
    BY MembersAreSpecs DEF With
  <2>2. r \in Call
    BY <2>1, EmptyIsQueue DEF IdleCall, Call
  <2>3. Begin(c, r)
    BY <1>2 DEF LoopReset
  <2> HIDE DEF r, T
  <2>4. call' \in [Calls -> Call]
    BY <2>2, <2>3, BeginGood
  <2> QED  BY <1>2, <2>4, OtherStep DEF LoopReset, TypeOK
<1>3. CASE Reorder(c)
  <2> DEFINE r == [IdleCall EXCEPT !.step = "list", !.order = members]
  <2>1. r \in Call /\ Begin(c, r)
    BY <1>3 DEF Reorder, IdleCall, Call, TypeOK
  <2> HIDE DEF r
  <2>2. call' \in [Calls -> Call]
    BY <2>1, BeginGood
  <2> QED  BY <1>3, <2>2, OtherStep DEF Reorder, TypeOK
<1>4. CASE ReorderCheck(c)
  <2>1. ASSUME NEW order \in SetToSeqs(Range(call[c].order)),
               Begin(c, [call[c] EXCEPT !.step = "order", !.order = order])
        PROVE  call' \in [Calls -> Call]
    <3> DEFINE r == [call[c] EXCEPT !.step = "order", !.order = order]
    <3>1. call[c].order \in SetToAllKPermutations(Specs)
      BY <1>1 DEF Call
    <3>2. order \in SetToAllKPermutations(Specs)
      BY <3>1, ReorderIsQueue
    <3>3. r \in Call /\ Begin(c, r)
      BY <1>1, <2>1, <3>2 DEF Call
    <3> HIDE DEF r
    <3> QED  BY <3>3, BeginGood
  <2>2. Hang(c) => call' \in [Calls -> Call]
    BY IdleGood, BeginGood DEF Hang
  <2>3. call' \in [Calls -> Call]
    BY <1>4, <2>1, <2>2 DEF ReorderCheck
  <2> QED  BY <1>4, <2>3, OtherStep DEF ReorderCheck, TypeOK
<1>5. CASE ResetApply(c) \/ RemoveApply(c) \/ ReorderApply(c)
  <2>1. call' \in [Calls -> Call]
    BY <1>5, IdleGood, BeginGood DEF ResetApply, RemoveApply, ReorderApply, Hang
  <2>2. CASE ResetApply(c)
    <3>1. loop' \in LoopRow
      BY <2>2, LoopStatusGood DEF ResetApply
    <3>2. /\ spec' \in [Specs -> Incomplete \cup Done]
          /\ \A s \in Specs : spec'[s] # spec[s] => spec'[s] = "pending"
      BY <2>2 DEF ResetApply, TypeOK, Incomplete, Runnable
    <3> QED  BY <2>1, <2>2, <3>1, <3>2, OtherStep DEF ResetApply, TypeOK
  <2>3. CASE RemoveApply(c)
    <3>1. members' \in SetToAllKPermutations(Specs)
      BY <2>3, RemoveIsQueue DEF RemoveApply, TypeOK
    <3> QED  BY <2>1, <2>3, <3>1, OtherStep DEF RemoveApply, TypeOK
  <2>4. CASE ReorderApply(c)
    <3>1. members' \in SetToAllKPermutations(Specs)
      BY <1>1, <2>4 DEF ReorderApply, Call
    <3> QED  BY <2>1, <2>4, <3>1, OtherStep DEF ReorderApply, TypeOK
  <2> QED  BY <1>5, <2>2, <2>3, <2>4
<1> QED  BY <1>2, <1>3, <1>4, <1>5 DEF CallStep

LEMMA EditIInv ==
  ASSUME IInv, NEW s \in Specs,
         \/ AddSpec(s) \/ SpecSetStatus(s) \/ CompleteNode(s)
         \/ \E c \in Calls : RemoveSpec(c, s)
  PROVE  IInv'
<1> USE DEF IInv
<1>1. CASE AddSpec(s)
  <2>1. members' \in SetToAllKPermutations(Specs)
    BY <1>1, AppendIsQueue DEF AddSpec, Members, TypeOK
  <2> QED  BY <1>1, <2>1, OtherStep DEF AddSpec, TypeOK
<1>2. CASE SpecSetStatus(s)
  <2>1. /\ spec' \in [Specs -> Incomplete \cup Done]
        /\ \A q \in Specs : spec'[q] # spec[q] => spec'[q] \in Done \cup {"pending"}
    BY <1>2, SpecStatusGood DEF SpecSetStatus, Incomplete, Runnable, Done
  <2>2. reopened' \in 0..MaxReopens
    BY <1>2, ReopensAssumption DEF SpecSetStatus, TypeOK
  <2> QED  BY <1>2, <2>1, <2>2, OtherStep DEF SpecSetStatus, TypeOK
<1>3. CASE CompleteNode(s)
  BY <1>3, OtherStep DEF CompleteNode, TypeOK
<1>4. ASSUME NEW c \in Calls, RemoveSpec(c, s) PROVE IInv'
  <2> DEFINE r == [IdleCall EXCEPT !.step = "remove", !.targets = {s}]
  <2>1. r \in Call /\ Begin(c, r)
    BY <1>4, EmptyIsQueue DEF RemoveSpec, IdleCall, Call
  <2> HIDE DEF r
  <2>2. call' \in [Calls -> Call]
    BY <2>1, BeginGood
  <2> QED  BY <1>4, <2>2, OtherStep DEF RemoveSpec, TypeOK
<1> QED  BY <1>1, <1>2, <1>3, <1>4

LEMMA RestartIInv == ASSUME IInv, Restart PROVE IInv'
<1>1. spec' \in [Specs -> Incomplete \cup Done] /\ open' \subseteq Specs
  BY DEF Restart, IInv, TypeOK, Incomplete, Runnable
<1>2. loop' \in LoopRow
  BY LoopStatusGood DEF Restart, IInv, TypeOK
<1>3. task' \in GoodTask /\ task'.pc = "idle" /\ call' \in [Calls -> Call]
  BY IdleGood DEF Restart
<1> QED  BY <1>1, <1>2, <1>3 DEF Restart, IInv, TypeOK, SeenDone, GoodTask

LEMMA NextIInv == IInv /\ [Next]_vars => IInv'
<1> SUFFICES ASSUME IInv, [Next]_vars PROVE IInv'
  OBVIOUS
<1>1. CASE UNCHANGED vars
  BY <1>1 DEF vars, IInv, TypeOK, SeenDone
<1>2. CASE Next
  BY <1>2, DispatchStepIInv, LoopToolIInv, CallIInv, EditIInv, RestartIInv DEF Next
<1> QED  BY <1>1, <1>2

LEMMA IInvHolds == Spec => []IInv
BY InitIInv, NextIInv, PTL DEF Spec

-----------------------------------------------------------------------------

\* Every edit of the queue, also one built from a list that has aged, leaves a
\* list of specs without repetition (append_queue_member, remove_queue_member,
\* reorder_queue_members), and every row and task stays in its domain.
THEOREM TypeCorrect == Spec => []TypeOK
<1>1. IInv => TypeOK
  BY DEF IInv
<1> QED  BY IInvHolds, <1>1, PTL

\* Whatever is edited, reset, skipped or reopened between the last look of a
\* dispatch and its last write, the loop is marked completed over members that
\* were seen done, or were added or put back to pending since.
THEOREM CompletionIsHonest == Spec => CompletedOverDone
<1>1. IInv => (Complete => \A s \in Members \cap task.seen : spec[s] \in Done \cup {"pending"})
  BY DEF IInv, SeenDone, Complete
<1> QED  BY IInvHolds, <1>1, PTL DEF CompletedOverDone

=============================================================================
