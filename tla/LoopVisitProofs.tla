--------------------------- MODULE LoopVisitProofs ---------------------------
(***************************************************************************)
(* The iteration budget of a node: how many rows one spec can leave at one *)
(* node between two failures that count, however often it is paused,       *)
(* resumed and taken up again on the way.  A silent agent is left out: its *)
(* failure is not counted, and the spec starts afresh after it all the     *)
(* same.                                                                   *)
(***************************************************************************)
EXTENDS LoopBudgetProofs

-----------------------------------------------------------------------------
(* Counting.                                                               *)

\* A set of numbers that leaves none out below its last is an interval.
LEMMA DownClosedIsInterval ==
  ASSUME NEW M \in Nat, NEW S \in SUBSET (1..M),
         \A k \in S, j \in 1..M : j < k => j \in S
  PROVE  Cardinality(S) \in Nat /\ S = 1..Cardinality(S)
<1>1. IsFiniteSet(1..M)
  BY FS_Interval
<1>2. IsFiniteSet(S)
  BY <1>1, FS_Subset
<1> DEFINE c == Cardinality(S)
<1>3. c \in Nat
  BY <1>2, FS_CardinalityType
<1>4. ASSUME NEW k \in S PROVE k \in 1..c
  <2>1. k \in Nat /\ k >= 1
    OBVIOUS
  <2>2. (1..k) \in SUBSET S
    OBVIOUS
  <2>3. Cardinality(1..k) = k
    BY <2>1, FS_Interval
  <2>4. k <= c
    BY <1>2, <2>2, <2>3, FS_Subset
  <2> QED  BY <1>3, <2>1, <2>4
<1>5. IsFiniteSet(1..c) /\ Cardinality(1..c) = c
  <2>1. 1 \in Int /\ c \in Int /\ (1 > c => c = 0) /\ c - 1 + 1 = c
    BY <1>3
  <2> QED  BY <2>1, FS_Interval
<1>6. S = 1..c
  BY <1>4, <1>5, FS_Subset
<1> QED  BY <1>3, <1>6

\* If at most B elements of a set bear each of M labels, it has M * B at most.
LEMMA LabelledCount ==
  ASSUME NEW N \in Nat, NEW M \in Nat, NEW B \in Nat, NEW S \in SUBSET (1..N),
         NEW label \in [S -> 1..M],
         \A k \in 1..M : Cardinality({r \in S : label[r] = k}) <= B
  PROVE  Cardinality(S) <= M * B
<1> DEFINE Upto(r) == {q \in S : label[q] = label[r] /\ q <= r}
           place == [r \in S |-> <<label[r], Cardinality(Upto(r))>>]
<1>1. IsFiniteSet(S)
  <2>1. IsFiniteSet(1..N)
    BY FS_Interval
  <2> QED  BY <2>1, FS_Subset
<1>2. ASSUME NEW r \in S PROVE IsFiniteSet(Upto(r)) /\ Cardinality(Upto(r)) \in Nat
  <2>1. Upto(r) \in SUBSET S
    OBVIOUS
  <2>2. IsFiniteSet(Upto(r))
    BY <1>1, <2>1, FS_Subset
  <2> HIDE DEF Upto
  <2> QED  BY <2>2, FS_CardinalityType
<1>3. ASSUME NEW r \in S PROVE Cardinality(Upto(r)) \in 1..B
  <2> DEFINE T == {q \in S : label[q] = label[r]}
  <2>1. label[r] \in 1..M /\ T \in SUBSET S
    OBVIOUS
  <2>2. IsFiniteSet(T) /\ Cardinality(T) <= B /\ Cardinality(T) \in Nat
    BY <1>1, <2>1, FS_Subset, FS_CardinalityType
  <2>3. Upto(r) \in SUBSET T
    OBVIOUS
  <2>4. Cardinality(Upto(r)) <= Cardinality(T)
    BY <2>2, <2>3, FS_Subset
  <2>5. r \in Upto(r)
    OBVIOUS
  <2>6. Cardinality(Upto(r)) # 0
    BY <1>2, <2>5, FS_EmptySet
  <2> QED  BY <1>2, <2>2, <2>4, <2>6
<1>4. ASSUME NEW q \in S, NEW r \in S, q < r, label[q] = label[r]
      PROVE  Cardinality(Upto(q)) # Cardinality(Upto(r))
  <2>1. Upto(q) \in SUBSET Upto(r)
    <3>1. \A p \in S : p <= q => p <= r
      BY <1>4
    <3> QED  BY <1>4, <3>1
  <2>2. r <= r /\ ~(r <= q)
    BY <1>4
  <2>3. r \in Upto(r) /\ r \notin Upto(q)
    BY <2>2
  <2> HIDE DEF Upto
  <2> QED  BY <1>2, <2>1, <2>3, FS_Subset
<1>5. place \in Injection(S, (1..M) \X (1..B))
  <2>1. place \in [S -> (1..M) \X (1..B)]
    BY <1>3
  <2>2. ASSUME NEW q \in S, NEW r \in S, place[q] = place[r] PROVE q = r
    <3>1. label[q] = label[r] /\ Cardinality(Upto(q)) = Cardinality(Upto(r))
      BY <2>2
    <3>2. ~(q < r) /\ ~(r < q)
      BY <1>4, <3>1
    <3> QED  BY <3>2
  <2> HIDE DEF place
  <2> QED  BY <2>1, <2>2 DEF Injection, IsInjective
<1>6. /\ IsFiniteSet(1..M) /\ Cardinality(1..M) = M
      /\ IsFiniteSet(1..B) /\ Cardinality(1..B) = B
  <2>1. ASSUME NEW n \in Nat PROVE IsFiniteSet(1..n) /\ Cardinality(1..n) = n
    <3>1. 1 \in Int /\ n \in Int /\ (1 > n => n = 0) /\ n - 1 + 1 = n
      OBVIOUS
    <3> QED  BY <3>1, FS_Interval
  <2> QED  BY <2>1
<1>7. IsFiniteSet((1..M) \X (1..B)) /\ Cardinality((1..M) \X (1..B)) = M * B
  BY <1>6, FS_Product
<1> QED  BY <1>5, <1>7, FS_Injection

-----------------------------------------------------------------------------
(* What the rows of a spec say about the visits to its nodes.              *)

Visits == 1..MaxIterations

\* The rows of one visit.
Rows(s, n, k) == {r \in RunsOf(s) : run[r].node = n /\ run[r].iter = k}
Num(s, n, k)  == Cardinality(Rows(s, n, k))

PerVisit == 1 + RetryLimit

\* What the eras that are over may have left of each visit.
Allowed(s) == PerVisit * (spec[s].attempts + daemon.restarts)

\* There is nothing but that.
Clean(s) == \A n \in Nodes, k \in Visits : Num(s, n, k) <= Allowed(s)

Counts(s) ==
    \A n \in Nodes, k \in Visits :
        /\ Num(s, n, k) <= Allowed(s) + PerVisit
        /\ spec[s].status \in FreshStatuses => Num(s, n, k) <= Allowed(s)

\* The visits that a task has not begun.
Ahead(t, n, k) == k > t.visits[n] \/ (k = t.visits[n] /\ n = t.node /\ t.pc = "insert")

\* A task knows how often it has been where, and keeps to the retries.
InEra(i) ==
    task[i].pc \in AtNode =>
      \A n \in Nodes, k \in Visits :
        IF Ahead(task[i], n, k) THEN Num(task[i].cur, n, k) <= Allowed(task[i].cur)
                                ELSE Rows(task[i].cur, n, k) # {}

InVisitRetries(i) ==
    task[i].pc \in InVisit =>
      /\ task[i].visits[task[i].node] >= 1
      /\ task[i].pc = "insert" => task[i].retry = 0
      /\ task[i].retry <= RetryLimit
      /\ task[i].pc = "retry" => task[i].retry < RetryLimit
      /\ task[i].pc \notin {"insert", "backoff"} =>
           Num(task[i].cur, task[i].node, task[i].visits[task[i].node])
             <= Allowed(task[i].cur) + task[i].retry + 1
      /\ task[i].pc = "backoff" =>
           Num(task[i].cur, task[i].node, task[i].visits[task[i].node])
             <= Allowed(task[i].cur) + task[i].retry

VisitTask(i) == /\ InEra(i)
                /\ InVisitRetries(i)
                /\ task[i].pc \in {"blocker", "failSpec"} => Clean(task[i].cur)

Numbered == \A r \in RunIds : run[r].status # "absent" => run[r].iter >= 1

\* The rows of a spec record the visits to a node without a gap.
NoGap ==
    \A s \in Specs, n \in Nodes, k, m \in Visits :
        k < m /\ Rows(s, n, m) # {} => Rows(s, n, k) # {}

VisitInv == /\ Numbered
            /\ NoGap
            /\ \A s \in Specs : Counts(s)
            /\ \A i \in Dispatches : VisitTask(i)

LEMMA RowsAreFinite ==
  ASSUME NEW s, NEW n, NEW k
  PROVE  Rows(s, n, k) \in SUBSET RunIds /\ IsFiniteSet(Rows(s, n, k)) /\ Num(s, n, k) \in Nat
<1>1. IsFiniteSet(RunIds)
  BY FS_Interval, BoundsAssumption DEF RunIds
<1>2. Rows(s, n, k) \in SUBSET RunIds
  BY DEF Rows, RunsOf
<1>3. IsFiniteSet(Rows(s, n, k))
  BY <1>1, <1>2, FS_Subset
<1> QED  BY <1>2, <1>3, FS_CardinalityType DEF Num

LEMMA RowsSame ==
  ASSUME RowsKept
  PROVE  \A s, n, k : Rows(s, n, k)' = Rows(s, n, k) /\ Num(s, n, k)' = Num(s, n, k)
<1>1. \A s, n, k : Rows(s, n, k)' = Rows(s, n, k)
  BY DEF RowsKept, Rows, RunsOf
<1> QED  BY <1>1 DEF Num

LEMMA AllowedIsNat == ASSUME IInv, NEW s \in Specs PROVE Allowed(s) \in Nat /\ PerVisit \in Nat
<1>1. RetryLimit \in Nat /\ spec[s].attempts \in Nat /\ daemon.restarts \in Nat
  BY BoundsAssumption DEF IInv, SpecRow, DaemonState
<1> QED  BY <1>1 DEF Allowed, PerVisit

LEMMA AllowedSame ==
  ASSUME NEW s, spec'[s].attempts = spec[s].attempts, daemon'.restarts = daemon.restarts
  PROVE  Allowed(s)' = Allowed(s)
BY DEF Allowed

\* One more failure, or one more restart.
LEMMA AllowedGrows ==
  ASSUME IInv, NEW s \in Specs,
         spec'[s].attempts + daemon'.restarts = spec[s].attempts + daemon.restarts + 1
  PROVE  Allowed(s)' = Allowed(s) + PerVisit
<1>1. spec[s].attempts + daemon.restarts \in Nat /\ PerVisit \in Nat
  BY BoundsAssumption DEF IInv, SpecRow, DaemonState, PerVisit
<1>2. ASSUME NEW x \in Nat, NEW y \in Nat PROVE y * (x + 1) = y * x + y
  OBVIOUS
<1> QED  BY <1>1, <1>2 DEF Allowed

\* Steps that add no row and take no failure back.
SameOrGrown ==
    \A s \in Specs : Allowed(s)' = Allowed(s) \/ Allowed(s)' = Allowed(s) + PerVisit

LEMMA CountsKept ==
  ASSUME IInv, VisitInv, RowsKept, SameOrGrown,
         \A s \in Specs : spec'[s].status \in FreshStatuses =>
            \/ spec[s].status \in FreshStatuses
            \/ Allowed(s)' = Allowed(s) + PerVisit
            \/ Clean(s)
  PROVE  Numbered' /\ NoGap' /\ \A s \in Specs : Counts(s)'
<1>1. \A s, n, k : Rows(s, n, k)' = Rows(s, n, k) /\ Num(s, n, k)' = Num(s, n, k)
  BY RowsSame
<1>2. Numbered'
  BY DEF VisitInv, Numbered, RowsKept
<1>3. NoGap'
  BY <1>1 DEF VisitInv, NoGap
<1>4. ASSUME NEW s \in Specs PROVE Counts(s)'
  <2>1. Allowed(s) \in Nat /\ PerVisit \in Nat /\ \A n, k : Num(s, n, k) \in Nat
    BY AllowedIsNat, RowsAreFinite
  <2>2. ASSUME NEW n \in Nodes, NEW k \in Visits
        PROVE  /\ Num(s, n, k) <= Allowed(s)' + PerVisit
               /\ spec'[s].status \in FreshStatuses => Num(s, n, k) <= Allowed(s)'
    <3>1. /\ Num(s, n, k) <= Allowed(s) + PerVisit
          /\ spec[s].status \in FreshStatuses => Num(s, n, k) <= Allowed(s)
          /\ Clean(s) => Num(s, n, k) <= Allowed(s)
      BY DEF VisitInv, Counts, Clean
    <3>2. Allowed(s)' = Allowed(s) \/ Allowed(s)' = Allowed(s) + PerVisit
      BY DEF SameOrGrown
    <3> QED  BY <2>1, <3>1, <3>2
  <2> QED  BY <1>1, <2>2 DEF Counts, PerVisit
<1> QED  BY <1>2, <1>3, <1>4

LEMMA VisitTaskKept ==
  ASSUME IInv, RowsKept, SameOrGrown, NEW j \in Dispatches, VisitTask(j), task'[j] = task[j]
  PROVE  VisitTask(j)'
<1>1. \A s, n, k : Rows(s, n, k)' = Rows(s, n, k) /\ Num(s, n, k)' = Num(s, n, k)
  BY RowsSame
<1>2. PICK t \in GoodTask : t = task[j] /\ t = task'[j]
  BY DEF IInv
<1>3. CASE t.pc \notin AtSpec
  BY <1>2, <1>3 DEF VisitTask, InEra, InVisitRetries, AtSpec, AtNode, InVisit
<1>4. CASE t.pc \in AtSpec
  <2>1. t.cur \in Specs /\ t.retry \in Nat
    BY <1>4 DEF GoodTask, Task
  <2>2. /\ Allowed(t.cur) \in Nat /\ PerVisit \in Nat /\ \A n, k : Num(t.cur, n, k) \in Nat
        /\ Allowed(t.cur)' = Allowed(t.cur) \/ Allowed(t.cur)' = Allowed(t.cur) + PerVisit
    BY <2>1, AllowedIsNat, RowsAreFinite DEF SameOrGrown
  <2>3. \A n, k : Num(t.cur, n, k) <= Allowed(t.cur) => Num(t.cur, n, k) <= Allowed(t.cur)'
    BY <2>2
  <2>5. InEra(j)'
    BY <1>1, <1>2, <2>3 DEF VisitTask, InEra
  <2>6. InVisitRetries(j)'
    <3>1. \A n, k : Num(t.cur, n, k) <= Allowed(t.cur) + t.retry
                    => Num(t.cur, n, k) <= Allowed(t.cur)' + t.retry
      BY <2>1, <2>2
    <3>2. \A n, k : Num(t.cur, n, k) <= Allowed(t.cur) + t.retry + 1
                    => Num(t.cur, n, k) <= Allowed(t.cur)' + t.retry + 1
      BY <2>1, <2>2
    <3> QED  BY <1>1, <1>2, <3>1, <3>2 DEF VisitTask, InVisitRetries
  <2>7. t.pc \in {"blocker", "failSpec"} => Clean(t.cur)'
    BY <1>1, <1>2, <2>3 DEF VisitTask, Clean
  <2> QED  BY <1>2, <2>5, <2>6, <2>7 DEF VisitTask
<1> QED  BY <1>3, <1>4

-----------------------------------------------------------------------------
(* The steps of a dispatch.                                                *)

\* The new row is one more of the visit that has begun, or is being retried.
LEMMA InsertedRow ==
  ASSUME IInv, NEW i \in Dispatches, InsertRun(i),
         NEW t \in GoodTask, t = task[i]
  PROVE  /\ \A s, n, k : s # t.cur \/ n # t.node \/ k # t.visits[t.node]
                           => Rows(s, n, k)' = Rows(s, n, k)
         /\ Rows(t.cur, t.node, t.visits[t.node])' # {}
         /\ Num(t.cur, t.node, t.visits[t.node])' = Num(t.cur, t.node, t.visits[t.node]) + 1
<1> DEFINE c == t.cur
           m == t.node
           v == t.visits[t.node]
<1>1. PICK r \in RunIds : InsertRow(r, m, c, v)
  BY DEF InsertRun
<1>2. /\ run[r].status = "absent"
      /\ run'[r].status # "absent" /\ run'[r].spec = c /\ run'[r].node = m /\ run'[r].iter = v
      /\ \A q \in RunIds \ {r} : run'[q] = run[q]
  BY <1>1 DEF InsertRow, IInv
<1>3. \A s, n, k : s # c \/ n # m \/ k # v => Rows(s, n, k)' = Rows(s, n, k)
  BY <1>2 DEF Rows, RunsOf
<1>4. Rows(c, m, v)' = Rows(c, m, v) \cup {r} /\ r \notin Rows(c, m, v)
  BY <1>2 DEF Rows, RunsOf
<1>5. IsFiniteSet(Rows(c, m, v))
  BY RowsAreFinite
<1>6. Cardinality(Rows(c, m, v) \cup {r}) = Cardinality(Rows(c, m, v)) + 1
  BY <1>4, <1>5, FS_AddElement
<1> QED  BY <1>3, <1>4, <1>6 DEF Num

LEMMA InsertRunVisit ==
  ASSUME IInv, Order, VisitInv, NoOverlap, NEW i \in Dispatches, InsertRun(i)
  PROVE  VisitInv'
<1>1. PICK t \in GoodTask : t = task[i] /\ t.pc \in {"insert", "backoff"}
  BY DEF IInv, InsertRun
<1>2. /\ t.cur \in Specs /\ t.node \in Nodes /\ t.visits \in [Nodes -> Nat] /\ t.retry \in Nat
      /\ t.visits[t.node] <= MaxIterations
  BY <1>1 DEF GoodTask, Task, AtSpec, AtNode, InVisit
<1> DEFINE c == t.cur
           m == t.node
           v == t.visits[t.node]
<1>3. /\ \A s, n, k : s # c \/ n # m \/ k # v => Rows(s, n, k)' = Rows(s, n, k)
      /\ Rows(c, m, v)' # {}
      /\ Num(c, m, v)' = Num(c, m, v) + 1
  BY <1>1, InsertedRow
<1>4. \A s, n, k : s # c \/ n # m \/ k # v => Num(s, n, k)' = Num(s, n, k)
  BY <1>3 DEF Num
<1>5. UNCHANGED <<spec, daemon>>
  BY DEF InsertRun
<1>6. \A s \in Specs : Allowed(s)' = Allowed(s) /\ Allowed(s) \in Nat /\ PerVisit \in Nat
  BY <1>5, AllowedSame, AllowedIsNat
<1>7. \A s, n, k : Num(s, n, k) \in Nat
  BY RowsAreFinite
<1>8. /\ v >= 1
      /\ t.pc = "insert" => t.retry = 0 /\ Num(c, m, v) <= Allowed(c)
      /\ t.pc = "backoff" => Num(c, m, v) <= Allowed(c) + t.retry
      /\ t.retry <= RetryLimit
      /\ \A n \in Nodes, k \in Visits :
           IF Ahead(t, n, k) THEN Num(c, n, k) <= Allowed(c) ELSE Rows(c, n, k) # {}
  <2>1. InEra(i) /\ InVisitRetries(i) /\ t.pc \in InVisit /\ t.pc \in AtNode
    BY <1>1 DEF VisitInv, VisitTask, InVisit, AtNode
  <2>2. v >= 1 /\ v \in Visits
    BY <1>1, <1>2, <2>1, BoundsAssumption DEF InVisitRetries, Visits
  <2>3. t.pc = "insert" => Ahead(t, m, v)
    BY DEF Ahead
  <2> QED  BY <1>1, <1>2, <2>1, <2>2, <2>3 DEF InEra, InVisitRetries
<1>9. v \in Visits
  BY <1>2, <1>8, BoundsAssumption DEF Visits
<1>10. Num(c, m, v)' <= Allowed(c) + t.retry + 1
  BY <1>1, <1>2, <1>3, <1>6, <1>7, <1>8
<1>11. PICK r \in RunIds : /\ InsertRow(r, m, c, v)
                           /\ Become(i, [task[i] EXCEPT !.pc = "spawn", !.run = r])
  BY <1>1 DEF InsertRun
<1>12. task'[i] = [t EXCEPT !.pc = "spawn", !.run = r] /\ \A j \in Dispatches \ {i} : task'[j] = task[j]
  BY <1>1, <1>11, BecomeFrame
<1>13. /\ task'[i].pc = "spawn" /\ task'[i].cur = c /\ task'[i].node = m
       /\ task'[i].visits = t.visits /\ task'[i].retry = t.retry
  BY <1>12 DEF GoodTask, Task
<1>14. Numbered'
  <2>1. run'[r].iter = v /\ \A q \in RunIds \ {r} : run'[q] = run[q]
    BY <1>11 DEF InsertRow, IInv
  <2> QED  BY <1>8, <2>1 DEF Numbered, VisitInv
<1>15. NoGap'
  <2>1. ASSUME NEW s \in Specs, NEW n \in Nodes, NEW k \in Visits, NEW l \in Visits, k < l,
               Rows(s, n, l)' # {}
        PROVE  Rows(s, n, k)' # {}
    <3>1. CASE s = c /\ n = m /\ l = v
      <4>1. ~Ahead(t, n, k)
        BY <1>2, <2>1, <3>1 DEF Ahead, Visits
      <4>2. Rows(c, n, k) # {} /\ k # v
        BY <1>8, <2>1, <3>1, <4>1 DEF Visits
      <4> QED  BY <1>3, <3>1, <4>2
    <3>2. CASE ~(s = c /\ n = m /\ l = v)
      <4>1. Rows(s, n, l) # {}
        BY <1>3, <2>1, <3>2
      <4>2. Rows(s, n, k) # {}
        BY <2>1, <4>1 DEF VisitInv, NoGap
      <4> QED  BY <1>3, <4>2
    <3> QED  BY <3>1, <3>2
  <2> QED  BY <2>1 DEF NoGap, Visits
<1>16. ASSUME NEW s \in Specs PROVE Counts(s)'
  <2>1. spec[c].status \notin FreshStatuses
    <3>1. t.pc \in InWork /\ t.pc \in AtSpec
      BY <1>1 DEF InWork, AtSpec
    <3> QED  BY <1>1, <3>1 DEF Order, OrderInv, TaskOrder, Cursor, FreshStatuses
  <2>2. ASSUME NEW n \in Nodes, NEW k \in Visits
        PROVE  /\ Num(s, n, k)' <= Allowed(s) + PerVisit
               /\ spec[s].status \in FreshStatuses => Num(s, n, k)' <= Allowed(s)
    <3>1. CASE s = c /\ n = m /\ k = v
      <4>1. Allowed(c) + t.retry + 1 <= Allowed(c) + PerVisit
        BY <1>2, <1>6, <1>8, BoundsAssumption DEF PerVisit
      <4>2. Num(c, m, v)' \in Nat
        BY <1>3, <1>7
      <4>3. Num(s, n, k)' = Num(c, m, v)'
        BY <1>3, <1>4, <3>1
      <4> HIDE DEF c, m, v
      <4> QED  BY <1>2, <1>6, <1>10, <2>1, <3>1, <4>1, <4>2, <4>3
    <3>2. CASE ~(s = c /\ n = m /\ k = v)
      <4>1. Num(s, n, k)' = Num(s, n, k)
        BY <1>4, <3>2
      <4> QED  BY <4>1 DEF VisitInv, Counts
    <3> QED  BY <3>1, <3>2
  <2> QED  BY <1>5, <1>6, <2>2 DEF Counts, Visits, PerVisit
<1>17. VisitTask(i)'
  <2>1. InEra(i)'
    <3>1. ASSUME NEW n \in Nodes, NEW k \in Visits
          PROVE  IF k > t.visits[n] THEN Num(c, n, k)' <= Allowed(c)' ELSE Rows(c, n, k)' # {}
      <4>1. CASE n = m /\ k = v
        BY <1>2, <1>3, <4>1
      <4>2. CASE ~(n = m /\ k = v)
        <5>1. Ahead(t, n, k) <=> k > t.visits[n]
          BY <4>2 DEF Ahead
        <5>2. Rows(c, n, k)' = Rows(c, n, k) /\ Num(c, n, k)' = Num(c, n, k)
          BY <1>3, <1>4, <4>2
        <5> QED  BY <1>2, <1>6, <1>8, <5>1, <5>2
      <4> QED  BY <4>1, <4>2
    <3> QED  BY <1>13, <3>1 DEF InEra, Ahead, Visits
  <2>2. InVisitRetries(i)'
    BY <1>2, <1>6, <1>8, <1>10, <1>13 DEF InVisitRetries
  <2> QED  BY <1>13, <2>1, <2>2 DEF VisitTask
<1>18. ASSUME NEW j \in Dispatches \ {i} PROVE VisitTask(j)'
  <2>1. ~Driving(j) /\ task'[j] = task[j]
    BY <1>1, <1>12 DEF NoOverlap, Driving
  <2> QED  BY <2>1 DEF Driving, VisitTask, InEra, InVisitRetries, AtNode, InVisit
<1> QED  BY <1>14, <1>15, <1>16, <1>17, <1>18 DEF VisitInv

\* Between the visits it begins, a dispatch neither forgets one nor skips a retry.
LEMMA CarriedVisit ==
  ASSUME IInv, VisitInv, RowsKept, NEW i \in Dispatches, NEW u, Become(i, u),
         Carries(task[i], u), task[i].pc # "count",
         \A s \in Specs : Allowed(s)' = Allowed(s)
  PROVE  VisitTask(i)'
<1>1. PICK t \in GoodTask : t = task[i]
  BY DEF IInv
<1>2. task'[i] = u
  BY BecomeFrame
<1>3. \A s, n, k : Rows(s, n, k)' = Rows(s, n, k) /\ Num(s, n, k)' = Num(s, n, k)
  BY RowsSame
<1>4. /\ <<t.pc, u.pc>> \in Flow
      /\ u.cur = t.cur /\ u.visits = t.visits
      /\ u.pc # "walk" => u.node = t.node
      /\ u.pc = "backoff" => u.retry = t.retry + 1
      /\ u.pc # "backoff" => u.retry = t.retry
      /\ u.pc = "retry" => t.retry < RetryLimit
  BY <1>1 DEF Carries
<1>5. t.retry \in Nat /\ (t.pc \in AtSpec => t.cur \in Specs)
  BY DEF GoodTask, Task
<1>6. VisitTask(i)
  BY DEF VisitInv
<1>7. InEra(i)'
  <2>1. CASE u.pc \in AtNode
    <3>1. t.pc \in AtNode /\ t.pc # "insert" /\ u.pc # "insert" /\ t.cur \in Specs
      BY <1>4, <1>5, <2>1 DEF Flow, AtNode, AtSpec
    <3>2. \A n, k : Ahead(u, n, k) <=> Ahead(t, n, k)
      BY <1>4, <3>1 DEF Ahead
    <3> QED  BY <1>1, <1>2, <1>3, <1>4, <1>6, <3>1, <3>2 DEF VisitTask, InEra
  <2>2. CASE u.pc \notin AtNode
    BY <1>2, <2>2 DEF InEra
  <2> QED  BY <2>1, <2>2
<1>8. InVisitRetries(i)'
  <2>1. CASE u.pc \in InVisit
    <3>1. /\ t.pc \in InVisit /\ t.pc \notin {"insert", "backoff"} /\ u.pc # "insert"
          /\ t.cur \in Specs /\ u.node = t.node
          /\ u.pc = "backoff" => t.pc = "retry"
      BY <1>4, <1>5, <2>1 DEF Flow, InVisit, AtSpec
    <3>2. /\ t.visits[t.node] >= 1
          /\ t.retry <= RetryLimit
          /\ t.pc = "retry" => t.retry < RetryLimit
          /\ Num(t.cur, t.node, t.visits[t.node]) <= Allowed(t.cur) + t.retry + 1
      BY <1>1, <1>6, <3>1 DEF VisitTask, InVisitRetries
    <3>3. Allowed(t.cur)' = Allowed(t.cur) /\ Allowed(t.cur) \in Nat
      BY <3>1, AllowedIsNat
    <3>4. u.retry <= RetryLimit
      BY <1>4, <1>5, <3>1, <3>2, BoundsAssumption
    <3>5. Num(u.cur, u.node, u.visits[u.node])'
            <= Allowed(u.cur)' + u.retry + (IF u.pc = "backoff" THEN 0 ELSE 1)
      BY <1>3, <1>4, <1>5, <3>1, <3>2, <3>3
    <3>6. Allowed(u.cur)' \in Nat /\ u.retry \in Nat
      BY <1>4, <1>5, <3>3
    <3>7. u.pc = "backoff" => Allowed(u.cur)' + u.retry + 0 = Allowed(u.cur)' + u.retry
      BY <3>6
    <3> QED  BY <1>2, <1>4, <3>1, <3>2, <3>4, <3>5, <3>7 DEF InVisitRetries
  <2>2. CASE u.pc \notin InVisit
    BY <1>2, <2>2 DEF InVisitRetries
  <2> QED  BY <2>1, <2>2
<1>9. u.pc \in {"blocker", "failSpec"} => Clean(u.cur)'
  <2>1. ASSUME u.pc \in {"blocker", "failSpec"}
        PROVE  t.pc \in {"blocker", "failSpec"} /\ t.cur \in Specs
    BY <1>1, <1>4, <1>5, <2>1 DEF Flow, AtSpec
  <2> QED  BY <1>1, <1>3, <1>4, <1>6, <2>1 DEF VisitTask, Clean
<1> QED  BY <1>2, <1>7, <1>8, <1>9 DEF VisitTask

\* A spec taken up again goes on with the visits its rows record; one that is
\* taken up afresh has none in this era.
LEMMA StartSpecVisit ==
  ASSUME IInv, Order, VisitInv, NEW i \in Dispatches, StartSpec(i)
  PROVE  VisitTask(i)'
<1>1. PICK t \in GoodTask : t = task[i] /\ t.pc = "start" /\ t.cur \in Specs
  BY DEF IInv, StartSpec, GoodTask, AtSpec
<1>2. PICK s \in Specs : s = t.cur
  BY <1>1
<1>3. RowsKept /\ UNCHANGED <<run, daemon>> /\ SetSpecStatus(s, "running")
  BY <1>1, <1>2 DEF StartSpec, RowsKept
<1>4. \A n, k : Rows(s, n, k)' = Rows(s, n, k) /\ Num(s, n, k)' = Num(s, n, k)
  BY <1>3, RowsSame
<1>5. Allowed(s)' = Allowed(s) /\ Allowed(s) \in Nat
  BY <1>3, AllowedSame, AllowedIsNat DEF SetSpecStatus, IInv, SpecRow
<1> DEFINE Known(n) == Cardinality(IterationsAt(s, n))
<1>6. ASSUME NEW n \in Nodes, NEW k \in Visits
      PROVE  k <= Known(n) <=> Rows(s, n, k) # {}
  <2>1. IterationsAt(s, n) = {l \in Visits : Rows(s, n, l) # {}}
    BY DEF IterationsAt, Visits, Rows
  <2>2. \A l \in IterationsAt(s, n), j \in Visits : j < l => j \in IterationsAt(s, n)
    BY <2>1 DEF VisitInv, NoGap
  <2>3. MaxIterations \in Nat /\ IterationsAt(s, n) \in SUBSET (1..MaxIterations)
    BY BoundsAssumption DEF IterationsAt
  <2>4. Known(n) \in Nat /\ IterationsAt(s, n) = 1..Known(n)
    BY <2>2, <2>3, DownClosedIsInterval DEF Visits
  <2>5. k \in Nat /\ k >= 1
    BY DEF Visits
  <2>6. k \in IterationsAt(s, n) <=> Rows(s, n, k) # {}
    BY <2>1
  <2> HIDE DEF Known
  <2> QED  BY <2>4, <2>5, <2>6
<1>7. ASSUME NEW n \in Nodes PROVE Known(n) \in Nat
  <2>1. IsFiniteSet(1..MaxIterations) /\ IterationsAt(s, n) \in SUBSET (1..MaxIterations)
    BY FS_Interval, BoundsAssumption DEF IterationsAt
  <2> QED  BY <2>1, FS_Subset, FS_CardinalityType
<1>8. ASSUME NEW n, NEW v \in [Nodes -> Nat],
             Become(i, [task[i] EXCEPT !.pc = "walk", !.node = n, !.visits = v]),
             \A l \in Nodes, k \in Visits : IF k > v[l] THEN Num(s, l, k) <= Allowed(s)
                                                        ELSE Rows(s, l, k) # {}
      PROVE  VisitTask(i)'
  <2>1. task'[i] = [t EXCEPT !.pc = "walk", !.node = n, !.visits = v]
    BY <1>1, <1>8, BecomeFrame
  <2>2. task'[i].pc = "walk" /\ task'[i].cur = s /\ task'[i].visits = v
    BY <1>1, <1>2, <2>1 DEF GoodTask, Task
  <2> QED  BY <1>4, <1>5, <1>8, <2>2 DEF VisitTask, InEra, InVisitRetries, InVisit, Ahead
<1>9. CASE t.snap[s] = "running" /\ RunsOf(s) # {}
  <2> DEFINE v == [n \in Nodes |-> Known(n)]
  <2>1. PICK n : Become(i, [task[i] EXCEPT !.pc = "walk", !.node = n, !.visits = v])
    BY <1>1, <1>2, <1>9 DEF StartSpec
  <2>2. v \in [Nodes -> Nat] /\ \A l \in Nodes : v[l] = Known(l)
    BY <1>7
  <2>3. ASSUME NEW l \in Nodes, NEW k \in Visits
        PROVE  IF k > v[l] THEN Num(s, l, k) <= Allowed(s) ELSE Rows(s, l, k) # {}
    <3>1. k <= Known(l) <=> Rows(s, l, k) # {}
      BY <1>6
    <3>2. k \in Nat /\ v[l] = Known(l) /\ Known(l) \in Nat
      BY <1>7 DEF Visits
    <3>3. Rows(s, l, k) = {} => Num(s, l, k) = 0
      BY FS_EmptySet DEF Num
    <3> HIDE DEF v, Known
    <3> QED  BY <1>5, <3>1, <3>2, <3>3
  <2> HIDE DEF v
  <2> QED  BY <1>8, <2>1, <2>2, <2>3
<1>10. CASE ~(t.snap[s] = "running" /\ RunsOf(s) # {})
  <2>1. Become(i, [task[i] EXCEPT !.pc = "walk", !.node = Entry, !.visits = NoVisits])
    BY <1>1, <1>2, <1>10 DEF StartSpec
  <2>2. Clean(s)
    <3>1. CASE RunsOf(s) = {}
      <4>1. \A n, k : Num(s, n, k) = 0
        BY <3>1, FS_EmptySet DEF Num, Rows
      <4> QED  BY <1>5, <4>1 DEF Clean
    <3>2. CASE t.snap[s] # "running"
      <4>1. SnapKept(i, s) /\ t.snap[s] \notin DoneStatuses
        BY <1>1, <1>2 DEF Order, OrderInv, TaskOrder, Cursor, AtSpec
      <4>2. spec[s].status = t.snap[s] /\ spec[s].status \in SpecStatuses
        BY <1>1, <3>2, <4>1 DEF SnapKept, IInv, SpecRow
      <4>3. spec[s].status \in FreshStatuses
        BY <3>2, <4>1, <4>2 DEF DoneStatuses, FreshStatuses, SpecStatuses
      <4> QED  BY <4>3 DEF VisitInv, Counts, Clean
    <3> QED  BY <1>10, <3>1, <3>2
  <2>3. \A l \in Nodes, k \in Visits : k > NoVisits[l] /\ Num(s, l, k) <= Allowed(s)
    BY <2>2 DEF Clean, NoVisits, Visits
  <2>4. NoVisits \in [Nodes -> Nat]
    BY DEF NoVisits
  <2> QED  BY <1>8, <2>1, <2>3, <2>4
<1> QED  BY <1>9, <1>10

\* The visit that begins has no row yet in this era.
LEMMA WalkVisit == ASSUME IInv, VisitInv, NEW i \in Dispatches, Walk(i), ~Return(i), RowsKept
                   PROVE  VisitTask(i)'
<1>1. PICK t \in GoodTask : t = task[i] /\ t.pc = "walk" /\ t.cur \in Specs /\ t.node \in Nodes
  BY DEF IInv, Walk, GoodTask, AtSpec, AtNode
<1>2. t.visits \in [Nodes -> Nat]
  BY DEF GoodTask, Task
<1>3. PICK v, pc : /\ v = [t.visits EXCEPT ![t.node] = @ + 1]
                   /\ pc \in {"insert", "overBudget"}
                   /\ Become(i, [task[i] EXCEPT !.visits = v, !.retry = 0, !.pc = pc])
  BY <1>1 DEF Walk, Visited
<1>4. task'[i] = [t EXCEPT !.visits = v, !.retry = 0, !.pc = pc]
  BY <1>1, <1>3, BecomeFrame
<1>5. /\ task'[i].pc = pc /\ task'[i].cur = t.cur /\ task'[i].node = t.node
      /\ task'[i].visits = v /\ task'[i].retry = 0
  BY <1>4 DEF GoodTask, Task
<1>6. /\ v[t.node] = t.visits[t.node] + 1
      /\ \A n \in Nodes \ {t.node} : v[n] = t.visits[n]
  BY <1>1, <1>2, <1>3
<1>7. \A s, n, k : Rows(s, n, k)' = Rows(s, n, k) /\ Num(s, n, k)' = Num(s, n, k)
  BY RowsSame
<1>8. Allowed(t.cur)' = Allowed(t.cur)
  BY <1>1, AllowedSame DEF Walk
<1>9. CASE pc = "insert"
  <2>1. ASSUME NEW n \in Nodes, NEW k \in Visits
        PROVE  k > v[n] \/ (k = v[n] /\ n = t.node) <=> k > t.visits[n]
    BY <1>1, <1>2, <1>6 DEF Visits
  <2>2. \A n \in Nodes, k \in Visits : IF k > t.visits[n] THEN Num(t.cur, n, k) <= Allowed(t.cur)
                                                          ELSE Rows(t.cur, n, k) # {}
    BY <1>1 DEF VisitInv, VisitTask, InEra, Ahead, AtNode
  <2>3. InEra(i)'
    BY <1>5, <1>7, <1>8, <1>9, <2>1, <2>2 DEF InEra, Ahead
  <2>4. v[t.node] >= 1 /\ 0 <= RetryLimit
    BY <1>1, <1>2, <1>6, BoundsAssumption
  <2> QED  BY <1>5, <1>9, <2>3, <2>4 DEF VisitTask, InVisitRetries
<1>10. CASE pc = "overBudget"
  BY <1>5, <1>10 DEF VisitTask, InEra, InVisitRetries, AtNode, InVisit
<1> QED  BY <1>3, <1>9, <1>10

\* A failure that is counted opens the next era: whatever the spec has left so
\* far is of the eras before.
LEMMA CountVisit ==
  ASSUME IInv, VisitInv, "silent" \notin Outcomes, NEW i \in Dispatches, CountAttempt(i)
  PROVE  VisitInv'
<1>1. PICK t \in GoodTask : t = task[i] /\ t.pc = "count" /\ t.cur \in Specs
  BY DEF IInv, CountAttempt, GoodTask, AtSpec
<1>2. ~Infra(i)
  BY <1>1 DEF Infra, GoodTask, Task, Verdicts
<1>3. PICK c \in Specs, pc \in {"failSpec", "blocker"}, e \in {"failed", "paused"} :
        /\ c = t.cur
        /\ spec' = [spec EXCEPT ![c].attempts = spec[c].attempts + 1]
        /\ Become(i, [task[i] EXCEPT !.pc = pc, !.end = e])
        /\ UNCHANGED <<run, daemon>>
  BY <1>1, <1>2 DEF CountAttempt
<1>4. /\ spec'[c].attempts = spec[c].attempts + 1
      /\ \A s \in Specs \ {c} : spec'[s] = spec[s]
      /\ \A s \in Specs : spec'[s].status = spec[s].status
  BY <1>3 DEF IInv, SpecRow
<1>5. RowsKept
  BY <1>3 DEF RowsKept
<1>6. Allowed(c)' = Allowed(c) + PerVisit
  <2>1. spec'[c].attempts + daemon'.restarts = spec[c].attempts + daemon.restarts + 1
    BY <1>3, <1>4 DEF IInv, SpecRow, DaemonState
  <2> QED  BY <2>1, AllowedGrows
<1>7. SameOrGrown
  BY <1>3, <1>4, <1>6, AllowedSame DEF SameOrGrown
<1>8. Numbered' /\ NoGap' /\ \A s \in Specs : Counts(s)'
  BY <1>4, <1>5, <1>7, CountsKept
<1>9. task'[i] = [t EXCEPT !.pc = pc, !.end = e] /\ \A j \in Dispatches \ {i} : task'[j] = task[j]
  BY <1>1, <1>3, BecomeFrame
<1>10. task'[i].pc = pc /\ task'[i].cur = c
  BY <1>3, <1>9 DEF GoodTask, Task
<1>11. Clean(c)'
  BY <1>5, <1>6, RowsSame DEF VisitInv, Counts, Clean, Visits
<1>12. VisitTask(i)'
  BY <1>3, <1>10, <1>11 DEF VisitTask, InEra, InVisitRetries, AtNode, InVisit
<1>13. \A j \in Dispatches \ {i} : VisitTask(j)'
  BY <1>5, <1>7, <1>9, VisitTaskKept DEF VisitInv
<1> QED  BY <1>8, <1>12, <1>13 DEF VisitInv

LEMMA DispatchVisit ==
  ASSUME IInv, Order, VisitInv, NoOverlap, "silent" \notin Outcomes, NEW i \in Dispatches,
         DispatchStep(i) \/ HardError(i)
  PROVE  VisitInv'
<1>1. CASE InsertRun(i)
  BY <1>1, InsertRunVisit
<1>2. CASE CountAttempt(i)
  BY <1>2, CountVisit
<1> SUFFICES ASSUME ~InsertRun(i), ~CountAttempt(i) PROVE VisitInv'
  BY <1>1, <1>2
<1>3. RowsKept
  BY DispatchRowsKept
<1>4. daemon' = daemon /\ \A s \in Specs : spec'[s].attempts = spec[s].attempts
  <2>1. daemon' = daemon
    BY DEF DispatchStep, HardError, Claim, Prepare, Pick, Finish, StartSpec, Walk, InsertRun,
         SpawnProc, ProcEnds, Settle, BeginRetry, RecordResult, Overrule, RouteVerdict,
         OverBudget, DeadEnd, SetBlocker, FailSpec, EndCheck, EndSet, Sweep
  <2> QED  BY <2>1, DispatchAttemptsKept
<1>5. \A s \in Specs : Allowed(s)' = Allowed(s)
  BY <1>4, AllowedSame
<1>6. SameOrGrown
  BY <1>5 DEF SameOrGrown
<1>7. task[i] \in GoodTask
  BY DEF IInv
<1>8. ASSUME NEW s \in Specs, spec'[s].status \in FreshStatuses
      PROVE  spec[s].status \in FreshStatuses \/ Clean(s)
  <2>1. CASE FailSpec(i)
    <3>1. SetSpecStatus(task[i].cur, "failed") /\ task[i].pc = "failSpec"
      BY <2>1 DEF FailSpec
    <3>2. s # task[i].cur => spec'[s] = spec[s]
      BY <3>1 DEF SetSpecStatus, IInv
    <3>3. Clean(task[i].cur)
      BY <3>1 DEF VisitInv, VisitTask
    <3> QED  BY <1>8, <3>2, <3>3
  <2>2. CASE ~FailSpec(i)
    <3>1. spec' = spec \/ \E st \in {"running", "completed"} : SetSpecStatus(task[i].cur, st)
      BY <2>2 DEF DispatchStep, HardError, Claim, Prepare, Pick, Finish, StartSpec, Walk,
         SpawnProc, ProcEnds, Settle, BeginRetry, RecordResult, Overrule, RouteVerdict,
         OverBudget, DeadEnd, SetBlocker, EndCheck, EndSet, Sweep
    <3> QED  BY <1>8, <3>1 DEF SetSpecStatus, IInv, SpecRow, FreshStatuses
  <2> QED  BY <2>1, <2>2
<1>9. Numbered' /\ NoGap' /\ \A s \in Specs : Counts(s)'
  BY <1>3, <1>6, <1>8, CountsKept
<1>10. PICK u : Become(i, u)
  BY DEF DispatchStep, HardError, Claim, Prepare, Pick, Finish, StartSpec, Walk,
         SpawnProc, ProcEnds, Settle, BeginRetry, RecordResult, Overrule, RouteVerdict,
         OverBudget, DeadEnd, SetBlocker, FailSpec, EndCheck, EndSet, Sweep, Move, Return
<1>11. task'[i] = u /\ \A j \in Dispatches \ {i} : task'[j] = task[j]
  BY <1>10, BecomeFrame
<1>12. \A j \in Dispatches \ {i} : VisitTask(j)'
  BY <1>3, <1>6, <1>11, VisitTaskKept DEF VisitInv
<1>13. VisitTask(i)'
  <2>1. CASE u.pc \in {"idle", "prepare", "pick", "finish", "start"}
    BY <1>11, <2>1 DEF VisitTask, InEra, InVisitRetries, AtNode, InVisit
  <2>2. CASE Return(i)
    <3>1. u.pc = "idle"
      BY <1>11, <2>2, BecomeFrame DEF Return, IdleTask
    <3> QED  BY <2>1, <3>1
  <2>3. CASE (Claim(i) \/ Prepare(i) \/ Pick(i)) /\ ~Return(i)
    <3>1. \/ \E x : u = [task[i] EXCEPT !.pc = "prepare", !.claimedAt = x]
          \/ \E x : u = [task[i] EXCEPT !.pc = "pick", !.snap = x]
          \/ \E x : u = [task[i] EXCEPT !.pc = "start", !.cur = x]
          \/ u = [task[i] EXCEPT !.pc = "finish"]
      <4>1. \/ \E x : Become(i, [task[i] EXCEPT !.pc = "prepare", !.claimedAt = x])
            \/ \E x : Become(i, [task[i] EXCEPT !.pc = "pick", !.snap = x])
            \/ \E x : Become(i, [task[i] EXCEPT !.pc = "start", !.cur = x])
            \/ Become(i, [task[i] EXCEPT !.pc = "finish"])
        BY <2>3 DEF Claim, Prepare, Pick, Move
      <4> QED  BY <1>11, <4>1, BecomeFrame
    <3>2. u.pc \in {"idle", "prepare", "pick", "finish", "start"}
      BY <1>7, <3>1 DEF GoodTask, Task
    <3> QED  BY <2>1, <3>2
  <2>4. CASE StartSpec(i)
    BY <2>4, StartSpecVisit
  <2>5. CASE Walk(i) /\ ~Return(i)
    BY <1>3, <2>5, WalkVisit
  <2>6. CASE ~Begins(i) /\ ~Return(i)
    <3>1. PICK w : Become(i, w) /\ Carries(task[i], w)
      BY <2>6, CarriesStep
    <3>2. task[i].pc # "count"
      BY DEF DispatchStep, HardError, Claim, Prepare, Pick, Finish, StartSpec, Walk,
         SpawnProc, ProcEnds, Settle, BeginRetry, RecordResult, Overrule, RouteVerdict,
         OverBudget, DeadEnd, SetBlocker, FailSpec, EndCheck, EndSet, Sweep
    <3> QED  BY <1>3, <1>5, <3>1, <3>2, CarriedVisit
  <2> QED  BY <2>2, <2>3, <2>4, <2>5, <2>6 DEF Begins
<1> QED  BY <1>9, <1>12, <1>13 DEF VisitInv

-----------------------------------------------------------------------------
(* The other steps, and the theorem.                                       *)

LEMMA ActorVisit ==
  ASSUME IInv, Order, VisitInv, OrderedOps, NEW a \in Actors,
         ToolStep(a) \/ SchedulerStep(a) \/ CallStep(a)
  PROVE  VisitInv'
<1>1. RowsKept
  BY ActorRowsKept
<1>2. /\ task' = task \/ SpawnDispatch
      /\ \/ spec' = spec
         \/ \E s \in Specs : spec[s].status = "running" /\ SetSpecStatus(s, "skipped")
  BY ActorStepShape DEF Order, OrderInv
<1>3. \A s \in Specs : /\ spec'[s].attempts = spec[s].attempts
                       /\ spec'[s].status \in FreshStatuses => spec[s].status \in FreshStatuses
  BY <1>2 DEF SetSpecStatus, IInv, SpecRow, FreshStatuses
<1>4. daemon' = daemon
  BY DEF ToolStep, SchedulerStep, CallStep, LoopRun, LoopPause, LoopContinue, LoopReset,
         Report, ScheduleAutorun, CronFire, AutorunList, PauseSet, PauseSweep, ContinueApply,
         ResetApply, ReportWrite, BlockPause, AutorunFire, AutoReset
<1>5. SameOrGrown
  BY <1>3, <1>4, AllowedSame DEF SameOrGrown
<1>6. Numbered' /\ NoGap' /\ \A s \in Specs : Counts(s)'
  BY <1>1, <1>3, <1>5, CountsKept
<1>7. ASSUME NEW j \in Dispatches PROVE VisitTask(j)'
  <2>1. CASE task'[j] = task[j]
    BY <1>1, <1>5, <2>1, VisitTaskKept DEF VisitInv
  <2>2. CASE task'[j].pc = "launch"
    BY <2>2 DEF VisitTask, InEra, InVisitRetries, AtNode, InVisit
  <2> QED  BY <1>2, <2>1, <2>2, SpawnedTasks
<1> QED  BY <1>6, <1>7 DEF VisitInv

\* A restart may send a spec back to its start: it opens an era as well.
LEMMA RestartVisit == ASSUME IInv, VisitInv, Crash \/ EndStop PROVE VisitInv'
<1>1. PICK stopped \in SUBSET RunIds, dropped \in SUBSET RunIds :
        Restart(stopped, dropped) /\ \A r \in stopped : run[r].status # "absent"
  BY RestartShape
<1>2. RowsKept
  BY <1>1, RestartRowsKept
<1>3. ASSUME NEW s \in Specs PROVE Allowed(s)' = Allowed(s) + PerVisit
  <2>1. spec'[s].attempts = spec[s].attempts /\ daemon'.restarts = daemon.restarts + 1
    BY <1>1 DEF Restart, IInv, SpecRow
  <2>2. spec'[s].attempts + daemon'.restarts = spec[s].attempts + daemon.restarts + 1
    BY <2>1 DEF IInv, SpecRow, DaemonState
  <2> QED  BY <2>2, AllowedGrows
<1>4. Numbered' /\ NoGap' /\ \A s \in Specs : Counts(s)'
  BY <1>2, <1>3, CountsKept DEF SameOrGrown
<1>5. \A j \in Dispatches : task'[j].pc = "idle"
  BY <1>1 DEF Restart, IdleTask
<1> QED  BY <1>4, <1>5 DEF VisitInv, VisitTask, InEra, InVisitRetries, AtNode, InVisit

LEMMA VisitFrame ==
  ASSUME IInv, VisitInv, UNCHANGED <<spec, run, task>>, daemon'.restarts = daemon.restarts
  PROVE  VisitInv'
<1>1. RowsKept
  BY DEF RowsKept
<1>2. SameOrGrown
  BY AllowedSame DEF SameOrGrown
<1>3. Numbered' /\ NoGap' /\ \A s \in Specs : Counts(s)'
  BY <1>1, <1>2, CountsKept
<1>4. \A j \in Dispatches : VisitTask(j)'
  BY <1>1, <1>2, VisitTaskKept DEF VisitInv
<1> QED  BY <1>3, <1>4 DEF VisitInv

LEMMA NextVisit ==
  ASSUME IInv, Order, VisitInv, NoOverlap, OrderedOps, "silent" \notin Outcomes, [Next]_vars
  PROVE  VisitInv'
<1>1. CASE UNCHANGED vars
  BY <1>1, VisitFrame DEF vars
<1>2. CASE \E i \in Dispatches : DispatchStep(i) \/ HardError(i)
  BY <1>2, DispatchVisit
<1>3. ASSUME NEW a \in Actors, ToolStep(a) \/ SchedulerStep(a) \/ CallStep(a) PROVE VisitInv'
  BY <1>3, ActorVisit
<1>4. CASE \E r \in RunIds : OrphanEnds(r)
  BY <1>4, VisitFrame DEF OrphanEnds
<1>5. CASE BeginStop
  <2>1. daemon'.restarts = daemon.restarts
    BY <1>5 DEF BeginStop, IInv, DaemonState
  <2> QED  BY <1>5, <2>1, VisitFrame DEF BeginStop
<1>6. CASE Crash \/ EndStop
  BY <1>6, RestartVisit
<1> QED  BY <1>1, <1>2, <1>3, <1>4, <1>5, <1>6 DEF Next, Actors

LEMMA InitVisit == Init => VisitInv
<1> SUFFICES ASSUME Init PROVE VisitInv
  OBVIOUS
<1>1. \A s, n, k : Rows(s, n, k) = {}
  BY DEF Init, AbsentRun, Rows, RunsOf
<1>2. \A s, n, k : Num(s, n, k) = 0
  BY <1>1, FS_EmptySet DEF Num
<1>3. \A s \in Specs : Allowed(s) = 0 /\ PerVisit \in Nat
  BY BoundsAssumption DEF Init, Allowed, PerVisit
<1>4. \A s \in Specs : Counts(s)
  BY <1>2, <1>3 DEF Counts
<1>5. Numbered /\ NoGap
  BY <1>1 DEF Init, AbsentRun, Numbered, NoGap
<1>6. \A i \in Dispatches : VisitTask(i)
  BY DEF Init, IdleTask, VisitTask, InEra, InVisitRetries, AtNode, InVisit
<1> QED  BY <1>4, <1>5, <1>6 DEF VisitInv

LEMMA VisitsBounded == ASSUME IInv, VisitInv PROVE NodeBudgetHeld
<1> SUFFICES ASSUME NEW s \in Specs, NEW n \in Nodes
             PROVE  Cardinality({r \in RunsOf(s) : run[r].node = n})
                      <= MaxIterations * (1 + RetryLimit) * Eras(s)
  BY DEF NodeBudgetHeld
<1> DEFINE S == {r \in RunsOf(s) : run[r].node = n}
           label == [r \in S |-> run[r].iter]
           B == PerVisit * Eras(s)
<1>1. S \in SUBSET (1..MaxRuns) /\ MaxRuns \in Nat /\ MaxIterations \in Nat
  BY BoundsAssumption DEF RunsOf, RunIds
<1>2. label \in [S -> 1..MaxIterations]
  <2>1. ASSUME NEW r \in S PROVE run[r].iter \in 1..MaxIterations
    <3>1. run[r].iter \in 0..MaxIterations /\ run[r].iter >= 1
      BY DEF RunsOf, IInv, GoodRow, RunRow, VisitInv, Numbered
    <3> QED  BY <3>1, BoundsAssumption
  <2> QED  BY <2>1
<1>3. /\ spec[s].attempts \in Nat /\ daemon.restarts \in Nat /\ PerVisit \in Nat
      /\ Eras(s) \in Nat
  BY BoundsAssumption DEF IInv, SpecRow, DaemonState, PerVisit, Eras
<1>4. B \in Nat /\ Allowed(s) \in Nat
  BY <1>3, AllowedIsNat
<1>5. B = Allowed(s) + (IF spec[s].status \in FreshStatuses THEN 0 ELSE PerVisit)
  <2>1. ASSUME NEW x \in Nat, NEW y \in Nat PROVE y * (x + 1) = y * x + y /\ y * (x + 0) = y * x + 0
    OBVIOUS
  <2>2. CASE spec[s].status \in FreshStatuses
    BY <1>3, <2>1, <2>2 DEF Eras, Allowed
  <2>3. CASE spec[s].status \notin FreshStatuses
    BY <1>3, <2>1, <2>3 DEF Eras, Allowed
  <2> QED  BY <2>2, <2>3
<1>6. ASSUME NEW k \in 1..MaxIterations PROVE Cardinality({r \in S : label[r] = k}) <= B
  <2>1. {r \in S : label[r] = k} = Rows(s, n, k)
    BY DEF Rows
  <2>2. Num(s, n, k) <= B
    <3>1. /\ Num(s, n, k) <= Allowed(s) + PerVisit
          /\ spec[s].status \in FreshStatuses => Num(s, n, k) <= Allowed(s)
      BY DEF VisitInv, Counts, Visits
    <3> HIDE DEF B
    <3> QED  BY <1>3, <1>4, <1>5, <3>1
  <2> QED  BY <2>1, <2>2 DEF Num
<1>7. Cardinality(S) <= MaxIterations * B
  <2> HIDE DEF label, B
  <2> QED  BY <1>1, <1>2, <1>4, <1>6, LabelledCount
<1>8. MaxIterations * B = MaxIterations * (1 + RetryLimit) * Eras(s)
  <2>1. ASSUME NEW x \in Nat, NEW y \in Nat, NEW z \in Nat PROVE x * (y * z) = x * y * z
    OBVIOUS
  <2> QED  BY <1>1, <1>3, <2>1 DEF PerVisit
<1> QED  BY <1>7, <1>8

LEMMA VisitHolds ==
  ASSUME OrderedOps, "silent" \notin Outcomes PROVE Spec /\ []NoOverlap => []VisitInv
<1>1. IInv /\ Order /\ VisitInv /\ NoOverlap /\ [Next]_vars => VisitInv'
  BY NextVisit
<1> QED  BY IInvHolds, OrderHolds, InitVisit, <1>1, PTL DEF Spec

\* Pauses, continues, hard errors and launches of every kind, skips or restarts:
\* as long as one dispatch drives at a time, what a spec spends on a node between
\* two counted failures or restarts is MaxIterations visits with their retries.
THEOREM NodeBudgetKept ==
  ASSUME OrderedOps, "silent" \notin Outcomes
  PROVE  Spec /\ []NoOverlap => []NodeBudgetHeld
<1>1. IInv /\ VisitInv => NodeBudgetHeld
  BY VisitsBounded
<1> QED  BY IInvHolds, VisitHolds, <1>1, PTL

\* Where nothing pauses or resets the loop, one dispatch drives at a time, and the
\* budget holds of every behaviour.
THEOREM LaunchesKeepNodeBudget ==
  ASSUME Ops \subseteq LaunchOps, "silent" \notin Outcomes
  PROVE  Spec => []NodeBudgetHeld
<1>1. OrderedOps
  BY DEF OrderedOps, LaunchOps
<1>2. SingleDriver => NoOverlap
  BY DEF SingleDriver, NoOverlap
<1> QED  BY <1>1, OneDriver, <1>2, NodeBudgetKept, PTL

=============================================================================
