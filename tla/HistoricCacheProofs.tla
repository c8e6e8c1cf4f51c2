------------------------ MODULE HistoricCacheProofs ------------------------
(***************************************************************************)
(* A completed job is indexed: for every set of jobs, every chain and any  *)
(* number of faults, crashes and tasks left behind.                        *)
(***************************************************************************)
EXTENDS HistoricCache, FiniteSetTheorems, TLAPS

\* Arithmetic the solver needs in small pieces.
LEMMA DivMod ==
  ASSUME NEW a \in Nat, NEW d \in Nat \ {0}
  PROVE  /\ a \div d \in Nat /\ a % d \in 0..(d - 1)
         /\ a = d * (a \div d) + (a % d)
  OBVIOUS

LEMMA FactorLess ==
  ASSUME NEW d \in Nat, NEW x \in Nat, NEW y \in Nat, d * x < d * y
  PROVE  x < y
  OBVIOUS

LEMMA Distribute ==
  ASSUME NEW x \in Int, NEW y \in Int, NEW z \in Int
  PROVE  /\ x * (y + z) = x * y + x * z /\ x * (y - z) = x * y - x * z
         /\ x * y = y * x /\ x * y \in Int
  OBVIOUS

LEMMA MinOfTwo ==
  ASSUME NEW x \in Int, NEW y \in Int
  PROVE  Min({x, y}) = IF x <= y THEN x ELSE y
<1>1. CASE x <= y
  <2>1. \A z \in {x, y} : x <= z
    BY <1>1
  <2>2. Min({x, y}) \in {x, y} /\ Min({x, y}) <= x
    BY <2>1 DEF Min
  <2>3. QED
    BY <1>1, <2>2
<1>2. CASE ~(x <= y)
  <2>1. \A z \in {x, y} : y <= z
    BY <1>2
  <2>2. Min({x, y}) \in {x, y} /\ Min({x, y}) <= y
    BY <2>1 DEF Min
  <2>3. QED
    BY <1>2, <2>2
<1>3. QED
  BY <1>1, <1>2

\* splitRange leaves no block out: every block up to the target is in one of
\* its ranges, whatever the target and the number of chunks.
LEMMA SplitCovers ==
  ASSUME NEW to \in Nat, NEW b \in 0..to
  PROVE  \E i \in Task : b \in SplitRange(to, i)
<1> DEFINE s == (to + 1) \div Chunks
           m == (to + 1) % Chunks
<1>1. /\ Chunks \in Nat \ {0} /\ s \in Nat /\ m \in 0..(Chunks - 1)
      /\ to + 1 = Chunks * s + m
  <2>1. Chunks \in Nat \ {0} /\ to + 1 \in Nat
    BY SizesAssumption
  <2>2. s \in Nat /\ m \in 0..(Chunks - 1) /\ to + 1 = Chunks * s + m
    BY <2>1, DivMod
  <2>3. QED
    BY <2>1, <2>2
<1>2. \A i \in Int : SplitRange(to, i) =
        LET start == i * s + Min({i, m})
            end == start + s - 1 + (IF i < m THEN 1 ELSE 0)
        IN  start..Min({end, to})
  BY DEF SplitRange
<1> HIDE DEF s, m
\* A range whose first and last blocks are around b.
<1>3. ASSUME NEW i \in Task, NEW e \in 0..1, e = (IF i < m THEN 1 ELSE 0),
             (IF i <= m THEN i * s + i ELSE i * s + m) <= b,
             b <= (IF i <= m THEN i * s + i ELSE i * s + m) + s - 1 + e
      PROVE  b \in SplitRange(to, i)
  <2> DEFINE start == i * s + Min({i, m})
             end == start + s - 1 + (IF i < m THEN 1 ELSE 0)
  <2>1. i \in Int /\ m \in Int /\ i * s \in Int
    BY <1>1, Distribute DEF Task
  <2>2. start = (IF i <= m THEN i * s + i ELSE i * s + m) /\ start \in Int
    BY <2>1, MinOfTwo
  <2>3. end \in Int /\ start <= b /\ b <= end
    BY <1>1, <1>3, <2>1, <2>2
  <2>5. SplitRange(to, i) = start..Min({end, to})
    BY <1>2, <2>1
  <2> HIDE DEF start, end
  <2>4. Min({end, to}) = IF end <= to THEN end ELSE to
    BY <2>3, MinOfTwo
  <2>6. QED
    BY <2>2, <2>3, <2>4, <2>5
<1>4. CASE b < m * (s + 1)
  <2> DEFINE i == b \div (s + 1)
             u == b % (s + 1)
  <2>1. i \in Nat /\ u \in 0..s /\ b = (s + 1) * i + u
    <3>1. s + 1 \in Nat \ {0}
      BY <1>1
    <3> DEFINE n == s + 1
    <3>2. n \in Nat \ {0} /\ b \in Nat
      BY <3>1
    <3> HIDE DEF n
    <3>3. b \div n \in Nat /\ b % n \in 0..(n - 1) /\ b = n * (b \div n) + (b % n)
      BY <3>2, DivMod
    <3> USE DEF n
    <3>4. i \in Nat /\ u \in 0..(n - 1) /\ b = n * i + u
      BY <3>3 DEF i, u
    <3>5. n - 1 = s
      BY <1>1
    <3> HIDE DEF i, u
    <3>6. QED
      BY <3>4, <3>5
  <2> HIDE DEF i, u
  <2>2. (s + 1) * i < (s + 1) * m
    BY <1>1, <1>4, <2>1, Distribute
  <2>3. i < m
    BY <1>1, <2>1, <2>2, FactorLess
  <2>4. (s + 1) * i = i * s + i
    BY <1>1, <2>1, Distribute
  <2>5. i \in Task
    BY <1>1, <2>1, <2>3 DEF Task
  <2>6. b \in SplitRange(to, i)
    BY <1>1, <1>3, <2>1, <2>3, <2>4, <2>5, Distribute
  <2>7. QED
    BY <2>5, <2>6
<1>5. CASE ~(b < m * (s + 1))
  <2> DEFINE d == b - m * (s + 1)
  <2>1. m * (s + 1) = m * s + m /\ m * s \in Int
    BY <1>1, Distribute
  <2>2. d \in Nat
    BY <1>1, <1>5, <2>1
  <2>3. s * (Chunks - m) = Chunks * s - m * s /\ Chunks * s \in Int
    BY <1>1, Distribute
  <2>4. d < s * (Chunks - m)
    BY <1>1, <2>1, <2>3
  <2>5. s # 0
    BY <1>1, <2>2, <2>4
  <2>6. b = m * s + m + d
    BY <1>1, <2>1
  <2> HIDE DEF d
  <2> DEFINE k == d \div s
             u == d % s
  <2>7. k \in Nat /\ u \in 0..(s - 1) /\ d = s * k + u
    BY <1>1, <2>2, <2>5, DivMod
  <2> HIDE DEF k, u
  <2>8. s * k < s * (Chunks - m)
    BY <1>1, <2>2, <2>4, <2>7, Distribute
  <2>9. k < Chunks - m
    BY <1>1, <2>7, <2>8, FactorLess
  <2>10. m + k \in Task
    BY <1>1, <2>7, <2>9 DEF Task
  <2>11. (m + k) * s = m * s + s * k
    BY <1>1, <2>7, Distribute
  <2>12. ~(m + k < m) /\ (m + k <= m => m + k = m)
    BY <1>1, <2>7
  <2>13. b \in SplitRange(to, m + k)
    BY <1>1, <1>3, <2>1, <2>6, <2>7, <2>10, <2>11, <2>12, Distribute
  <2>14. QED
    BY <2>10, <2>13
<1>6. QED
  BY <1>4, <1>5

----------------------------------------------------------------------------
\* Every nonempty set of naturals has a least element.
LEMMA LeastNat ==
  ASSUME NEW T, T \subseteq Nat, T # {}
  PROVE  \E x \in T : \A y \in T : x <= y
<1>1. PICK x \in T : \A y \in T : ~(<<y, x>> \in OpToRel(<, Nat))
  BY NatLessThanWellFounded, WFMin, Zenon
<1>2. \A y \in T : ~(y < x)
  BY <1>1 DEF OpToRel
<1>3. QED
  BY <1>2

LEMMA SequenceBounded ==
  ASSUME NEW n \in Nat, NEW f \in [1..n -> Nat]
  PROVE  \E m \in Nat : \A k \in 1..n : f[k] <= m
<1> DEFINE Bounded(k) == \E m \in Nat : \A i \in 1..k : f[i] <= m
           Bad == {k \in 0..n : ~Bounded(k)}
<1>1. SUFFICES ASSUME Bad # {} PROVE FALSE
  <2> HIDE DEF Bounded
  <2>1. n \in 0..n /\ Bad = {}
    BY <1>1
  <2>2. Bounded(n)
    BY <2>1
  <2> USE DEF Bounded
  <2> QED
    BY <2>2
<1>2. PICK k \in Bad : \A l \in Bad : k <= l
  <2> HIDE DEF Bounded
  <2>1. Bad \subseteq Nat
    OBVIOUS
  <2> HIDE DEF Bad
  <2> QED
    BY <1>1, <2>1, LeastNat
<1>3. Bounded(0)
  <2>1. \A i \in 1..0 : f[i] <= 0
    OBVIOUS
  <2> QED
    BY <2>1
<1>4. k \in 1..n /\ Bounded(k - 1)
  <2> HIDE DEF Bounded
  <2>1. k \in 0..n /\ k # 0
    BY <1>2, <1>3
  <2>2. k \in 1..n /\ k - 1 \in 0..n /\ ~(k <= k - 1)
    BY <2>1
  <2> QED
    BY <1>2, <2>2
<1>5. PICK m \in Nat : \A i \in 1..(k - 1) : f[i] <= m
  BY <1>4
<1>6. m + f[k] \in Nat /\ \A i \in 1..k : f[i] <= m + f[k]
  <2>1. \A i \in 1..n : f[i] \in Nat
    OBVIOUS
  <2>2. m + f[k] \in Nat /\ f[k] <= m + f[k] /\ m <= m + f[k]
    BY <1>4, <2>1
  <2>3. \A i \in 1..k : i = k \/ (i \in 1..(k - 1) /\ i \in 1..n)
    BY <1>4
  <2>4. ASSUME NEW i \in 1..k PROVE f[i] <= m + f[k]
    <3>1. CASE i = k
      BY <2>2, <3>1
    <3>2. CASE i \in 1..(k - 1) /\ i \in 1..n
      <4>1. f[i] <= m /\ f[i] \in Nat
        BY <1>5, <2>1, <3>2
      <4> QED
        BY <2>1, <2>2, <4>1, <1>4
    <3> QED
      BY <2>3, <3>1, <3>2
  <2> QED
    BY <2>2, <2>4
<1>7. Bounded(k)
  BY <1>6
<1> QED
  BY <1>2, <1>7

\* The newest block of a group exists, and no block of the group is newer.
LEMMA MaxOfFinite ==
  ASSUME NEW S, S \subseteq Nat, S # {}, IsFiniteSet(S)
  PROVE  Max(S) \in S /\ \A x \in S : x <= Max(S)
<1>1. PICK n \in Nat : ExistsSurjection(1..n, S)
  BY FS_NatSurjection
<1>2. PICK f : f \in Surjection(1..n, S)
  BY <1>1 DEF ExistsSurjection
<1>3. f \in [1..n -> Nat] /\ \A x \in S : \E k \in 1..n : f[k] = x
  BY <1>2 DEF Surjection
<1> DEFINE Upper == {m \in Nat : \A x \in S : x <= m}
<1>4. Upper # {} /\ Upper \subseteq Nat
  <2>1. PICK m \in Nat : \A k \in 1..n : f[k] <= m
    BY <1>3, SequenceBounded
  <2>2. m \in Upper
    BY <1>3, <2>1
  <2> QED
    BY <2>2
<1>5. PICK m \in Upper : \A l \in Upper : m <= l
  <2> HIDE DEF Upper
  <2> QED
    BY <1>4, LeastNat
<1>6. m \in S
  <2>1. SUFFICES ASSUME m \notin S PROVE FALSE
    OBVIOUS
  <2>2. m \in Nat /\ \A x \in S : x \in Nat /\ x < m
    BY <1>5, <2>1
  <2>3. m - 1 \in Nat /\ \A x \in S : x <= m - 1
    <3>1. PICK x \in S : TRUE
      OBVIOUS
    <3>2. 0 < m
      BY <2>2, <3>1
    <3> QED
      BY <2>2, <3>2
  <2> QED
    BY <1>5, <2>2, <2>3
<1>7. \A x \in S : m >= x /\ x \in Nat /\ m \in Nat
  BY <1>5
<1>8. Max(S) \in S /\ \A y \in S : Max(S) >= y
  BY <1>6, <1>7 DEF Max
<1> QED
  BY <1>7, <1>8

\* The block a group is scanned up to is one no job of the group is above.
LEMMA TargetCovers ==
  ASSUME NEW pools, pools \subseteq Job, pools # {}
  PROVE  /\ TargetBlock(pools) \in Nat
         /\ \A j \in pools : BlockOf[j] <= TargetBlock(pools)
<1> DEFINE S == {BlockOf[j] : j \in pools}
<1>1. S \subseteq Nat /\ S # {}
  BY JobAssumption
<1>2. IsFiniteSet(S)
  <2>1. IsFiniteSet(pools)
    BY JobAssumption, FS_Subset
  <2> DEFINE g == [j \in pools |-> BlockOf[j]]
  <2>2. g \in Surjection(pools, S)
    BY DEF Surjection
  <2> QED
    BY <2>1, <2>2, FS_Surjection
<1> HIDE DEF S
<1>3. Max(S) \in S /\ \A x \in S : x <= Max(S)
  BY <1>1, <1>2, MaxOfFinite
<1> USE DEF S
<1> QED
  BY <1>1, <1>3 DEF TargetBlock

LEMMA Monotone ==
  ASSUME NEW x \in Nat, NEW y \in Nat, NEW d \in Nat \ {0}, x < y
  PROVE  x * d < y * d
  OBVIOUS

\* A batch has at least one contract and at most as many as one call may name.
LEMMA BatchSizeInRange ==
  ASSUME NEW n \in Nat
  PROVE  BatchSize(n) \in 1..MaxContracts
<1>1. CASE n <= SmallGroup \/ n >= LargeGroup
  BY <1>1, SizesAssumption DEF BatchSize
<1>2. CASE ~(n <= SmallGroup \/ n >= LargeGroup)
  <2> DEFINE d == LargeGroup - SmallGroup
             a == (n - SmallGroup) * MaxContracts
             q == a \div d
  <2>1. d \in Nat \ {0} /\ n - SmallGroup \in Nat /\ n - SmallGroup < d
    BY <1>2, SizesAssumption
  <2>2. a < d * MaxContracts /\ a \in Nat
    BY <2>1, SizesAssumption, Monotone, Distribute
  <2> HIDE DEF a, d
  <2>3. q \in Nat /\ a % d \in 0..(d - 1) /\ a = d * q + (a % d)
    BY <2>1, <2>2, DivMod
  <2>4. d * q \in Int /\ d * q < d * MaxContracts
    BY <2>1, <2>2, <2>3, SizesAssumption, Distribute
  <2>5. q < MaxContracts
    BY <2>1, <2>3, <2>4, SizesAssumption, FactorLess
  <2>6. BatchSize(n) = Max({1, q})
    BY <1>2 DEF BatchSize, a, d
  <2> HIDE DEF q
  <2>7. Max({1, q}) \in {1, q} /\ 1 <= Max({1, q})
    <3>1. \E x \in {1, q} : \A y \in {1, q} : x >= y
      BY <2>3
    <3> QED
      BY <3>1 DEF Max
  <2> QED
    BY <2>3, <2>5, <2>6, <2>7, SizesAssumption
<1> QED
  BY <1>1, <1>2

----------------------------------------------------------------------------
(***************************************************************************)
(* The inductive invariant.  Only the tasks of the batch under way matter: *)
(* each event in the range of one of them is still to be fetched, about to *)
(* be inserted, or in the table, unless the task failed.  Nothing is said  *)
(* of the tasks a failed batch left behind, but for their type: whatever   *)
(* they insert, they only add rows.                                        *)
(***************************************************************************)

TaskRecord ==
  [jobs : SUBSET Job, remaining : SUBSET Int, logsToInsert : SUBSET (Job \X Nat),
   state : {"fetch", "insert", "done", "failed"}]

TasksTyped ==
  /\ tasks = <<>> \/ tasks \in [Task -> TaskRecord]
  /\ orphans \subseteq TaskRecord

\* No job of the group, and none of the batch, is above the target.
TargetBound ==
  /\ \A j \in group.pools : BlockOf[j] <= group.targetBlockNumber
  /\ pc \in {"scan", "complete"} =>
       \A j \in batch : BlockOf[j] <= group.targetBlockNumber

\* What a task of the batch has scanned so far.
Accounted(t, blocks) ==
  /\ t.jobs = batch
  /\ t.state = "fetch" => t.logsToInsert = {}
  /\ t.state = "done" => t.remaining = {} /\ t.logsToInsert = {}
  /\ t.state # "failed" =>
       \A j \in batch : \A b \in EventsOf[j] \cap blocks :
         b \in t.remaining \/ <<j, b>> \in t.logsToInsert \/ <<j, b>> \in logs

BatchAccounted ==
  pc \in {"scan", "complete"} =>
    /\ tasks \in [Task -> TaskRecord]
    /\ \A i \in Task :
         /\ Accounted(tasks[i], SplitRange(group.targetBlockNumber, i))
         /\ pc = "complete" => tasks[i].state = "done"

IInv ==
  TypeOK /\ TasksTyped /\ TargetBound /\ BatchAccounted /\ CompletedMeansIndexed

LEMMA InitEstablishes == Init => IInv
<1> SUFFICES ASSUME Init PROVE IInv
  OBVIOUS
<1>1. TypeOK
  <2>1. NoGroup \in [pools : SUBSET Job, batchSize : 1..MaxContracts,
                     targetBlockNumber : Nat]
    BY SizesAssumption DEF NoGroup
  <2>2. status \in [Job -> {"pending", "failed", "completed"}]
    BY DEF Init
  <2> QED
    BY <2>1, <2>2 DEF Init, TypeOK
<1>2. TasksTyped /\ TargetBound /\ BatchAccounted /\ CompletedMeansIndexed
  BY DEF Init, TasksTyped, TargetBound, BatchAccounted, CompletedMeansIndexed,
         NoGroup, WithStatus
<1> QED
  BY <1>1, <1>2 DEF IInv

\* Rows that are added keep the completed jobs indexed.
LEMMA LogsGrow ==
  ASSUME CompletedMeansIndexed, logs \subseteq logs', status' = status
  PROVE  CompletedMeansIndexed'
BY DEF CompletedMeansIndexed, WithStatus

\* At the end of a batch the table has every event of its jobs up to the target.
LEMMA BatchIndexed ==
  ASSUME IInv, pc = "complete", NEW j \in batch, NEW b \in EventsOf[j],
         b <= BlockOf[j]
  PROVE  <<j, b>> \in logs
<1>1. /\ group.targetBlockNumber \in Nat /\ j \in Job
      /\ BlockOf[j] <= group.targetBlockNumber
  BY DEF IInv, TypeOK, TargetBound
<1>2. b \in Nat /\ BlockOf[j] \in Nat
  BY <1>1, JobAssumption
<1>3. b \in 0..group.targetBlockNumber
  BY <1>1, <1>2
<1>4. PICK i \in Task : b \in SplitRange(group.targetBlockNumber, i)
  BY <1>1, <1>3, SplitCovers
<1>5. /\ tasks[i].state = "done"
      /\ Accounted(tasks[i], SplitRange(group.targetBlockNumber, i))
  BY <1>4 DEF IInv, BatchAccounted
<1> QED
  BY <1>4, <1>5 DEF Accounted

\* The steps of the tasks: rows are added, and each task keeps account of the
\* events it has not stored.
LEMMA TaskStepPreserves ==
  ASSUME IInv, NEW t \in Running,
         FetchLogs(t) \/ InsertLogs(t) \/ EndTask(t) \/ FetchThrows(t) \/ InsertThrows(t)
  PROVE  IInv'
<1>1. t \in TaskRecord /\ t.state \in {"fetch", "insert"}
  <2>1. \A i \in DOMAIN tasks : tasks[i] \in TaskRecord
    BY DEF IInv, TasksTyped
  <2> QED
    BY <2>1 DEF IInv, TasksTyped, Running, Unfinished
\* What any of these steps does: t becomes some u.
<1>2. PICK u : /\ Becomes(t, u)
               /\ u \in TaskRecord
               /\ u.jobs = t.jobs
               /\ logs \subseteq logs' /\ logs' \subseteq Job \X Nat
               /\ u.state = "fetch" => u.logsToInsert = {}
               /\ u.state = "done" =>
                    u.remaining = {} /\ (t.state = "fetch" /\ u.logsToInsert = t.logsToInsert)
               /\ u.state # "failed" =>
                    /\ \A j \in t.jobs : \A b \in EventsOf[j] \cap t.remaining :
                         b \in u.remaining \/ <<j, b>> \in u.logsToInsert
                    /\ \A r \in t.logsToInsert :
                         t.state = "insert" => r \in u.logsToInsert \cup logs'
  <2>1. CASE FetchLogs(t)
    <3>1. PICK blocks \in SUBSET t.remaining :
            Becomes(t, [t EXCEPT
              !.remaining = @ \ blocks,
              !.logsToInsert = RowsOf(t, blocks),
              !.state = IF RowsOf(t, blocks) = {} THEN "fetch" ELSE "insert"])
      BY <2>1 DEF FetchLogs
    <3> DEFINE u == [t EXCEPT
              !.remaining = @ \ blocks,
              !.logsToInsert = RowsOf(t, blocks),
              !.state = IF RowsOf(t, blocks) = {} THEN "fetch" ELSE "insert"]
    <3>2. RowsOf(t, blocks) \subseteq Job \X Nat
      BY <1>1, JobAssumption DEF RowsOf, TaskRecord
    <3>3. \A j \in t.jobs : \A b \in EventsOf[j] \cap blocks : <<j, b>> \in RowsOf(t, blocks)
      BY DEF RowsOf
    <3>4. /\ u \in TaskRecord /\ u.jobs = t.jobs
          /\ u.remaining = t.remaining \ blocks
          /\ u.logsToInsert = RowsOf(t, blocks)
          /\ u.state = IF RowsOf(t, blocks) = {} THEN "fetch" ELSE "insert"
      BY <1>1, <3>2 DEF TaskRecord
    <3>5. logs' = logs /\ logs \subseteq Job \X Nat /\ t.state = "fetch"
      BY <2>1 DEF FetchLogs, IInv, TypeOK
    <3> HIDE DEF u
    <3>6. Becomes(t, u)
      BY <3>1 DEF u
    <3> QED
      BY <3>3, <3>4, <3>5, <3>6
  <2>2. CASE InsertLogs(t) \/ InsertThrows(t)
    <3>1. PICK s \in {"fetch", "failed"} :
            Becomes(t, [t EXCEPT !.logsToInsert = {}, !.state = s])
            /\ (s = "fetch" => InsertLogs(t))
      BY <2>2 DEF InsertLogs, InsertThrows
    <3> DEFINE u == [t EXCEPT !.logsToInsert = {}, !.state = s]
    <3>2. /\ u \in TaskRecord /\ u.jobs = t.jobs /\ u.remaining = t.remaining
          /\ u.logsToInsert = {} /\ u.state = s
      BY <1>1 DEF TaskRecord
    <3>3. logs \subseteq logs' /\ logs' \subseteq logs \cup t.logsToInsert
          /\ (s = "fetch" => t.logsToInsert \subseteq logs')
      BY <2>2, <3>1 DEF InsertLogs, InsertThrows
    <3>4. logs' \subseteq Job \X Nat
      BY <1>1, <3>3 DEF IInv, TypeOK, TaskRecord
    <3> HIDE DEF u
    <3>5. Becomes(t, u)
      BY <3>1 DEF u
    <3> QED
      BY <3>1, <3>2, <3>3, <3>4, <3>5
  <2>3. CASE EndTask(t) \/ FetchThrows(t)
    <3>1. PICK s \in {"done", "failed"} :
            Becomes(t, [t EXCEPT !.state = s]) /\ (s = "done" => EndTask(t))
      BY <2>3 DEF EndTask, FetchThrows
    <3> DEFINE u == [t EXCEPT !.state = s]
    <3>2. /\ u \in TaskRecord /\ u.jobs = t.jobs /\ u.remaining = t.remaining
          /\ u.logsToInsert = t.logsToInsert /\ u.state = s
      BY <1>1 DEF TaskRecord
    <3>3. logs' = logs /\ logs \subseteq Job \X Nat
          /\ t.state = "fetch" /\ (s = "done" => t.remaining = {})
      BY <2>3, <3>1 DEF EndTask, FetchThrows, IInv, TypeOK
    <3> HIDE DEF u
    <3>4. Becomes(t, u)
      BY <3>1 DEF u
    <3> QED
      BY <3>1, <3>2, <3>3, <3>4
  <2> QED
    BY <2>1, <2>2, <2>3
<1>3. UNCHANGED <<status, pc, group, batch, jobsMutex>>
  BY <1>2 DEF Becomes
<1>4. TypeOK'
  BY <1>2, <1>3 DEF IInv, TypeOK
<1>5. TargetBound'
  BY <1>3 DEF IInv, TargetBound
<1>6. CompletedMeansIndexed'
  BY <1>2, <1>3, LogsGrow DEF IInv
<1>7. CASE UNCHANGED tasks
  <2>1. orphans' \subseteq TaskRecord
    BY <1>2, <1>7 DEF Becomes, IInv, TasksTyped
  <2>2. TasksTyped'
    BY <1>7, <2>1 DEF IInv, TasksTyped
  <2>3. BatchAccounted'
    BY <1>2, <1>3, <1>7 DEF IInv, BatchAccounted, Accounted
  <2> QED
    BY <1>4, <1>5, <1>6, <2>2, <2>3 DEF IInv
<1>8. CASE ~UNCHANGED tasks
  <2>1. PICK i \in DOMAIN tasks :
          tasks[i] = t /\ tasks' = [tasks EXCEPT ![i] = u] /\ UNCHANGED orphans
    BY <1>2, <1>8 DEF Becomes
  <2>2. tasks \in [Task -> TaskRecord] /\ i \in Task
    BY <2>1 DEF IInv, TasksTyped
  <2>3. TasksTyped' /\ tasks' \in [Task -> TaskRecord]
    BY <1>2, <2>1, <2>2 DEF IInv, TasksTyped
  <2>4. BatchAccounted'
    <3>1. SUFFICES ASSUME pc \in {"scan", "complete"}, NEW k \in Task
          PROVE  /\ Accounted(tasks[k], SplitRange(group.targetBlockNumber, k))'
                 /\ pc = "complete" => tasks'[k].state = "done"
      BY <1>3, <2>3 DEF BatchAccounted
    <3>2. /\ Accounted(tasks[k], SplitRange(group.targetBlockNumber, k))
          /\ pc = "complete" => tasks[k].state = "done"
      BY <3>1 DEF IInv, BatchAccounted
    <3>3. pc # "complete"
      <4>1. pc = "complete" => tasks[i].state = "done"
        BY <2>2, <3>1 DEF IInv, BatchAccounted
      <4> QED
        BY <1>1, <2>1, <4>1
    <3>4. SplitRange(group.targetBlockNumber, k)' = SplitRange(group.targetBlockNumber, k)
      BY <1>3 DEF SplitRange
    <3> DEFINE R == SplitRange(group.targetBlockNumber, k)
    <3> HIDE DEF R
    <3>5. CASE k # i
      BY <1>2, <1>3, <2>1, <2>2, <3>2, <3>3, <3>4, <3>5 DEF Accounted, R
    <3>6. CASE k = i
      <4>1. tasks'[k] = u /\ tasks[k] = t
        BY <2>1, <2>2, <3>6
      <4>2. /\ t.jobs = batch
            /\ t.state = "fetch" => t.logsToInsert = {}
            /\ \A j \in batch : \A b \in EventsOf[j] \cap R :
                 b \in t.remaining \/ <<j, b>> \in t.logsToInsert \/ <<j, b>> \in logs
        BY <1>1, <3>2, <4>1 DEF Accounted, R
      <4>3. u.jobs = batch
        BY <1>2, <4>2
      <4>4. u.state = "fetch" => u.logsToInsert = {}
        BY <1>2
      <4>5. u.state = "done" => u.remaining = {} /\ u.logsToInsert = {}
        BY <1>2, <4>2
      <4>6. ASSUME u.state # "failed", NEW j \in batch, NEW b \in EventsOf[j] \cap R
            PROVE  b \in u.remaining \/ <<j, b>> \in u.logsToInsert \/ <<j, b>> \in logs'
        BY <1>1, <1>2, <4>2, <4>6
      <4> QED
        BY <1>3, <3>3, <3>4, <4>1, <4>3, <4>4, <4>5, <4>6 DEF Accounted, R
    <3> QED
      BY <3>5, <3>6
  <2> QED
    BY <1>4, <1>5, <1>6, <2>3, <2>4 DEF IInv
<1> QED
  BY <1>7, <1>8

\* What getNextPoolGroup returns has a target no job of it is above.
LEMMA SelectPreserves ==
  ASSUME IInv, SelectPending \/ SelectFailed
  PROVE  IInv'
<1>1. /\ pc' = "batch"
      /\ UNCHANGED <<status, logs, batch, tasks, orphans, jobsMutex>>
  BY DEF SelectPending, SelectFailed
<1>2. PICK pools \in SUBSET Job, n \in 1..MaxContracts, to \in Nat :
        /\ group' = [pools |-> pools, batchSize |-> n, targetBlockNumber |-> to]
        /\ \A j \in pools : BlockOf[j] <= to
  <2>1. CASE SelectPending
    <3>1. PICK g : /\ PendingIn(g) # {}
                   /\ group' = [pools |-> PendingIn(g),
                                batchSize |-> BatchSize(Cardinality(PendingIn(g))),
                                targetBlockNumber |-> TargetBlock(PendingIn(g))]
      BY <2>1 DEF SelectPending
    <3>2. PendingIn(g) \subseteq Job
      BY DEF PendingIn, WithStatus
    <3>3. Cardinality(PendingIn(g)) \in Nat
      BY <3>2, JobAssumption, FS_Subset, FS_CardinalityType
    <3>4. BatchSize(Cardinality(PendingIn(g))) \in 1..MaxContracts
      BY <3>3, BatchSizeInRange
    <3>5. /\ TargetBlock(PendingIn(g)) \in Nat
          /\ \A j \in PendingIn(g) : BlockOf[j] <= TargetBlock(PendingIn(g))
      BY <3>1, <3>2, TargetCovers
    <3> QED
      BY <3>1, <3>2, <3>4, <3>5
  <2>2. CASE SelectFailed
    <3>1. PICK j \in Job :
            group' = [pools |-> {j}, batchSize |-> 1, targetBlockNumber |-> BlockOf[j]]
      BY <2>2 DEF SelectFailed, WithStatus
    <3>2. /\ {j} \in SUBSET Job /\ 1 \in 1..MaxContracts /\ BlockOf[j] \in Nat
          /\ \A k \in {j} : BlockOf[k] <= BlockOf[j]
      BY JobAssumption, SizesAssumption
    <3> QED
      BY <3>1, <3>2
  <2> QED
    BY <2>1, <2>2
<1>3. TypeOK'
  BY <1>1, <1>2 DEF IInv, TypeOK
<1>4. TasksTyped' /\ TargetBound' /\ BatchAccounted'
  BY <1>1, <1>2 DEF IInv, TasksTyped, TargetBound, BatchAccounted
<1>5. CompletedMeansIndexed'
  BY <1>1, LogsGrow DEF IInv
<1> QED
  BY <1>3, <1>4, <1>5 DEF IInv

\* The tasks of a new batch have everything before them.
LEMMA StartBatchPreserves ==
  ASSUME IInv, StartBatch
  PROVE  IInv'
<1>1. PICK jobs \in SUBSET group.pools :
        /\ batch' = jobs
        /\ group' = [group EXCEPT !.pools = @ \ jobs]
        /\ tasks' = [i \in Task |->
                      NewTask(jobs, SplitRange(group.targetBlockNumber, i))]
  BY DEF StartBatch
<1>2. pc' = "scan" /\ orphans' = Running /\ UNCHANGED <<status, logs, jobsMutex>>
  BY DEF StartBatch
<1>3. /\ group.pools \subseteq Job /\ group.targetBlockNumber \in Nat
      /\ group' \in [pools : SUBSET Job, batchSize : 1..MaxContracts,
                     targetBlockNumber : Nat]
      /\ group'.pools = group.pools \ jobs
      /\ group'.targetBlockNumber = group.targetBlockNumber
  BY <1>1 DEF IInv, TypeOK
<1>4. TypeOK'
  BY <1>1, <1>2, <1>3 DEF IInv, TypeOK
<1>5. \A i \in Task : /\ SplitRange(group.targetBlockNumber, i) \subseteq Int
                      /\ SplitRange(group.targetBlockNumber, i)' =
                           SplitRange(group.targetBlockNumber, i)
  BY <1>3 DEF SplitRange
<1>6. \A i \in Task : tasks'[i] = NewTask(jobs, SplitRange(group.targetBlockNumber, i))
  BY <1>1
<1>7. tasks' \in [Task -> TaskRecord]
  <2>1. \A i \in Task : NewTask(jobs, SplitRange(group.targetBlockNumber, i)) \in TaskRecord
    BY <1>1, <1>3, <1>5 DEF NewTask, TaskRecord
  <2> QED
    BY <1>1, <2>1
<1>8. TasksTyped'
  <2>1. Running \subseteq TaskRecord
    BY DEF IInv, TasksTyped, Running
  <2> QED
    BY <1>2, <1>7, <2>1 DEF TasksTyped
<1>9. TargetBound'
  BY <1>1, <1>3 DEF IInv, TargetBound
<1>10. BatchAccounted'
  <2>1. ASSUME NEW i \in Task
        PROVE  Accounted(tasks[i], SplitRange(group.targetBlockNumber, i))'
    BY <1>1, <1>5, <1>6 DEF Accounted, NewTask
  <2> QED
    BY <1>2, <1>7, <2>1 DEF BatchAccounted
<1>11. CompletedMeansIndexed'
  BY <1>2, LogsGrow DEF IInv
<1> QED
  BY <1>4, <1>8, <1>9, <1>10, <1>11 DEF IInv

\* A batch ends as completed only when every task of it is done.
LEMMA MarkPreserves ==
  ASSUME IInv,
         MarkCompleted \/ MarkCompletedThrows \/ MarkFailed \/ MarkFailedThrows
  PROVE  IInv'
<1>1. /\ pc' \in {"batch", "fail", "down"} /\ logs' = logs /\ jobsMutex' \in BOOLEAN
      /\ \/ UNCHANGED <<group, batch, tasks, orphans>>
         \/ group' = NoGroup /\ batch' = {} /\ tasks' = <<>> /\ orphans' = {}
  BY DEF MarkCompleted, MarkCompletedThrows, MarkFailed, MarkFailedThrows, Stop, IInv,
         TypeOK
<1>2. \/ status' \in {status, SetStatus("failed")}
      \/ pc = "complete" /\ status' = SetStatus("completed")
  BY DEF MarkCompleted, MarkCompletedThrows, MarkFailed, MarkFailedThrows
<1>3. TypeOK'
  <2>1. status' \in [Job -> {"pending", "failed", "completed"}]
    BY <1>2 DEF IInv, TypeOK, SetStatus
  <2>2. NoGroup \in [pools : SUBSET Job, batchSize : 1..MaxContracts,
                     targetBlockNumber : Nat]
    BY SizesAssumption DEF NoGroup
  <2> QED
    BY <1>1, <2>1, <2>2 DEF IInv, TypeOK
<1>4. TasksTyped' /\ TargetBound' /\ BatchAccounted'
  BY <1>1 DEF IInv, TasksTyped, TargetBound, BatchAccounted, NoGroup
<1>5. CompletedMeansIndexed'
  <2>1. SUFFICES ASSUME NEW j \in Job, status'[j] = "completed",
                        NEW b \in EventsOf[j], b <= BlockOf[j]
                 PROVE  <<j, b>> \in logs
    BY <1>1 DEF CompletedMeansIndexed, WithStatus
  <2>2. status[j] = "completed" \/ (pc = "complete" /\ j \in batch)
    BY <1>2, <2>1 DEF SetStatus
  <2>3. CASE status[j] = "completed"
    BY <2>1, <2>3 DEF IInv, CompletedMeansIndexed, WithStatus
  <2>4. CASE pc = "complete" /\ j \in batch
    BY <2>1, <2>4, BatchIndexed
  <2> QED
    BY <2>2, <2>3, <2>4
<1> QED
  BY <1>3, <1>4, <1>5 DEF IInv

\* The end of a group, of a scan or of the process, and its restart.
LEMMA ControlPreserves ==
  ASSUME IInv, EndGroup \/ AllDone \/ AnyFailed \/ Crash \/ Restart
  PROVE  IInv'
<1>1. /\ UNCHANGED <<status, logs>> /\ jobsMutex' \in BOOLEAN
      /\ pc' \in {"select", "complete", "fail", "down"}
      /\ pc' = "complete" =>
           pc = "scan" /\ \A i \in DOMAIN tasks : tasks[i].state = "done"
      /\ \/ UNCHANGED <<group, batch, tasks, orphans>>
         \/ /\ pc' # "complete" /\ group' = NoGroup /\ batch' = {} /\ tasks' = <<>>
            /\ orphans' \in {{}, Running}
  BY DEF EndGroup, AllDone, AnyFailed, Crash, Restart, Stop, IInv, TypeOK
<1>2. TypeOK'
  <2>1. NoGroup \in [pools : SUBSET Job, batchSize : 1..MaxContracts,
                     targetBlockNumber : Nat]
    BY SizesAssumption DEF NoGroup
  <2> QED
    BY <1>1, <2>1 DEF IInv, TypeOK
<1>3. TasksTyped'
  <2>1. Running \subseteq TaskRecord
    BY DEF IInv, TasksTyped, Running
  <2> QED
    BY <1>1, <2>1 DEF IInv, TasksTyped
<1>4. TargetBound'
  BY <1>1 DEF IInv, TargetBound, NoGroup
<1>5. BatchAccounted'
  <2>1. SUFFICES ASSUME pc' = "complete" PROVE BatchAccounted'
    BY <1>1 DEF BatchAccounted
  <2>2. pc = "scan" /\ UNCHANGED <<group, batch, tasks, logs>>
        /\ \A i \in DOMAIN tasks : tasks[i].state = "done"
    BY <1>1, <2>1
  <2>3. \A i \in Task :
          Accounted(tasks[i], SplitRange(group.targetBlockNumber, i))'
            <=> Accounted(tasks[i], SplitRange(group.targetBlockNumber, i))
    BY <2>2 DEF Accounted, SplitRange
  <2> QED
    BY <2>2, <2>3 DEF IInv, BatchAccounted
<1>6. CompletedMeansIndexed'
  BY <1>1, LogsGrow DEF IInv
<1> QED
  BY <1>2, <1>3, <1>4, <1>5, <1>6 DEF IInv

LEMMA StepPreserves == IInv /\ [Next]_vars => IInv'
<1> SUFFICES ASSUME IInv, [Next]_vars PROVE IInv'
  OBVIOUS
<1>1. CASE SelectPending \/ SelectFailed
  BY <1>1, SelectPreserves
<1>2. CASE StartBatch
  BY <1>2, StartBatchPreserves
<1>3. CASE TaskStep \/ TaskFailure
  BY <1>3, TaskStepPreserves DEF TaskStep, TaskFailure
<1>4. CASE MarkCompleted \/ MarkCompletedThrows \/ MarkFailed \/ MarkFailedThrows
  BY <1>4, MarkPreserves
<1>5. CASE EndGroup \/ AllDone \/ AnyFailed \/ Crash \/ Restart
  BY <1>5, ControlPreserves
<1>6. CASE UNCHANGED vars
  <2>1. UNCHANGED <<status, logs, pc, group, batch, tasks, orphans, jobsMutex>>
    BY <1>6 DEF vars
  <2>2. TypeOK' /\ TasksTyped' /\ TargetBound'
    BY <2>1 DEF IInv, TypeOK, TasksTyped, TargetBound
  <2>3. BatchAccounted'
    BY <2>1 DEF IInv, BatchAccounted, Accounted, SplitRange
  <2>4. CompletedMeansIndexed'
    BY <2>1, LogsGrow DEF IInv
  <2> QED
    BY <2>2, <2>3, <2>4 DEF IInv
<1> QED
  BY <1>1, <1>2, <1>3, <1>4, <1>5, <1>6 DEF Next, Loop

\* The invariant holds in every state the historic loop reaches.
THEOREM Invariance == Spec => []IInv
<1>1. Init => IInv
  BY InitEstablishes
<1>2. IInv /\ [Next]_vars => IInv'
  BY StepPreserves
<1> QED
  BY <1>1, <1>2, PTL DEF Spec

\* The loop keeps its types: among them a batch size between one and the number
\* of contracts a call may name, for every size of the group.
THEOREM TypeCorrect == Spec => []TypeOK
<1>1. IInv => TypeOK
  BY DEF IInv
<1> QED
  BY <1>1, Invariance, PTL

\* For every set of jobs, chain, number of ranges and sequence of failures: a job
\* marked as completed has every event up to its block in the table.
THEOREM CompletedMeansIndexedHolds == Spec => []CompletedMeansIndexed
<1>1. IInv => CompletedMeansIndexed
  BY DEF IInv
<1> QED
  BY <1>1, Invariance, PTL

----------------------------------------------------------------------------
(***************************************************************************)
(* No job is taken back from "completed": the jobs of the group and of the *)
(* batch are unfinished for as long as their status can still be written.  *)
(* After a failed updateJobStatus that is only so because the mutex is     *)
(* never released.                                                         *)
(***************************************************************************)

Open(j) == status[j] # "completed"

Pending ==
  /\ \A j \in group.pools : Open(j)
  /\ pc \in {"scan", "complete", "fail"} => group.pools \cap batch = {}
  /\ pc \in {"scan", "complete"} \/ (pc = "fail" /\ ~jobsMutex) =>
       \A j \in batch : Open(j)

LEMMA PendingInit == Init => Pending
  BY DEF Init, Pending, NoGroup

LEMMA PendingStep ==
  ASSUME IInv, Pending, [Next]_vars
  PROVE  /\ Pending'
         /\ \A j \in Job : status[j] = "completed" => status'[j] = "completed"
<1> USE DEF Open
<1>1. CASE SelectPending \/ SelectFailed
  <2>1. pc' = "batch" /\ status' = status
    BY <1>1 DEF SelectPending, SelectFailed
  <2>2. \A j \in group'.pools : status[j] # "completed"
    <3>1. CASE SelectPending
      <4>1. PICK g : group'.pools = PendingIn(g)
        BY <3>1 DEF SelectPending
      <4> QED
        BY <4>1 DEF PendingIn, WithStatus
    <3>2. CASE SelectFailed
      <4>1. PICK j \in WithStatus("failed") : group'.pools = {j}
        BY <3>2 DEF SelectFailed
      <4> QED
        BY <4>1 DEF WithStatus
    <3> QED
      BY <1>1, <3>1, <3>2
  <2> QED
    BY <2>1, <2>2 DEF Pending
<1>2. CASE StartBatch
  <2>1. PICK jobs \in SUBSET group.pools :
          batch' = jobs /\ group' = [group EXCEPT !.pools = @ \ jobs]
    BY <1>2 DEF StartBatch
  <2>2. group'.pools = group.pools \ jobs
    BY <2>1 DEF IInv, TypeOK
  <2>3. pc' = "scan" /\ status' = status
    BY <1>2 DEF StartBatch
  <2> QED
    BY <2>1, <2>2, <2>3 DEF Pending
<1>3. CASE TaskStep \/ TaskFailure
  <2>1. UNCHANGED <<status, pc, group, batch, jobsMutex>>
    BY <1>3 DEF TaskStep, TaskFailure, FetchLogs, InsertLogs, EndTask, FetchThrows,
                InsertThrows, Becomes
  <2> QED
    BY <2>1 DEF Pending
<1>4. CASE MarkCompleted \/ MarkCompletedThrows
  <2>1. /\ pc = "complete" /\ status' \in {status, SetStatus("completed")}
        /\ UNCHANGED <<group, batch>>
        /\ pc' = "batch" \/ (pc' = "fail" /\ jobsMutex' = TRUE)
    BY <1>4 DEF MarkCompleted, MarkCompletedThrows
  <2>2. \A j \in Job : /\ status[j] = "completed" => status'[j] = "completed"
                       /\ j \notin batch => status'[j] = status[j]
    BY <2>1 DEF SetStatus
  <2>3. group.pools \subseteq Job /\ group.pools \cap batch = {}
    BY <2>1 DEF Pending, IInv, TypeOK
  <2> QED
    BY <2>1, <2>2, <2>3 DEF Pending
<1>5. CASE MarkFailed \/ MarkFailedThrows
  <2>1. /\ pc = "fail" /\ ~jobsMutex /\ status' \in {status, SetStatus("failed")}
        /\ \/ pc' = "batch" /\ group' = group
           \/ pc' = "down" /\ group' = NoGroup
    BY <1>5 DEF MarkFailed, MarkFailedThrows, Stop
  <2>2. \A j \in batch : status[j] # "completed"
    BY <2>1 DEF Pending
  <2>3. \A j \in Job : /\ status[j] = "completed" => status'[j] = "completed"
                       /\ status[j] # "completed" => status'[j] # "completed"
    BY <2>1, <2>2 DEF SetStatus
  <2>4. group.pools \subseteq Job
    BY DEF IInv, TypeOK
  <2> QED
    BY <2>1, <2>3, <2>4 DEF Pending, NoGroup
<1>6. CASE EndGroup \/ Crash
  <2>1. pc' \in {"select", "down"} /\ status' = status /\ group' = NoGroup
    BY <1>6 DEF EndGroup, Crash, Stop
  <2> QED
    BY <2>1 DEF Pending, NoGroup
<1>7. CASE AllDone \/ AnyFailed \/ Restart
  <2>1. /\ UNCHANGED <<status, group, batch, jobsMutex>>
        /\ (pc = "scan" /\ pc' \in {"complete", "fail"}) \/ pc' = "select"
    BY <1>7 DEF AllDone, AnyFailed, Restart
  <2> QED
    BY <2>1 DEF Pending
<1>8. CASE UNCHANGED vars
  BY <1>8 DEF vars, Pending
<1> QED
  BY <1>1, <1>2, <1>3, <1>4, <1>5, <1>6, <1>7, <1>8 DEF Next, Loop

\* Whatever fails, and however late, no step takes a completed job back.
THEOREM CompletedIsFinalHolds == Spec => CompletedIsFinal
<1>1. Init => IInv /\ Pending
  BY InitEstablishes, PendingInit
<1>2. IInv /\ Pending /\ [Next]_vars => (IInv /\ Pending)'
  BY StepPreserves, PendingStep
<1>3. IInv /\ Pending /\ [Next]_vars =>
        [\A j \in Job : status[j] = "completed" => status'[j] = "completed"]_vars
  BY PendingStep
<1> QED
  BY <1>1, <1>2, <1>3, PTL DEF Spec, CompletedIsFinal

----------------------------------------------------------------------------
(***************************************************************************)
(* The loop implements JobTable.  Rows come from tasks, and each task      *)
(* holds only rows of events; a status is written for the jobs of the      *)
(* batch, which are open, and "completed" only when all tasks are done.    *)
(***************************************************************************)

Tasks == {tasks[i] : i \in DOMAIN tasks} \cup orphans

RowsAreEvents ==
  /\ logs \subseteq Table!Events
  /\ \A t \in Tasks : t.logsToInsert \subseteq Table!Events

LEMMA RowsInit == Init => RowsAreEvents
  BY DEF Init, RowsAreEvents, Tasks

\* A task takes its rows from the events of its jobs.
LEMMA RowsOfAreEvents ==
  ASSUME NEW t \in TaskRecord, NEW blocks
  PROVE  RowsOf(t, blocks) \subseteq Table!Events
<1> SUFFICES ASSUME NEW j \in t.jobs, NEW b \in EventsOf[j] \cap blocks
             PROVE  <<j, b>> \in Table!Events
  BY DEF RowsOf
<1>1. j \in Job /\ b \in Nat
  BY JobAssumption DEF TaskRecord
<1> QED
  BY <1>1 DEF Table!Events

\* No task is new but t's successor.
LEMMA BecomesTasks ==
  ASSUME IInv, NEW t, NEW u, Becomes(t, u)
  PROVE  Tasks' \subseteq Tasks \cup {u}
<1>1. CASE \E i \in DOMAIN tasks : tasks[i] = t /\ tasks' = [tasks EXCEPT ![i] = u]
  <2>1. PICK i \in DOMAIN tasks : tasks' = [tasks EXCEPT ![i] = u]
    BY <1>1
  <2>2. CASE tasks = <<>>
    <3>1. DOMAIN tasks = {}
      BY <2>2
    <3> QED
      BY <2>1, <3>1
  <2>3. CASE tasks \in [Task -> TaskRecord]
    <3>1. /\ DOMAIN tasks' = DOMAIN tasks
          /\ \A k \in DOMAIN tasks : tasks'[k] = IF k = i THEN u ELSE tasks[k]
      BY <2>1, <2>3
    <3>2. CASE orphans' = orphans
      BY <3>1, <3>2 DEF Tasks
    <3>3. CASE orphans' = (orphans \ {t}) \cup {v \in {u} : Unfinished(v)}
      BY <3>1, <3>3 DEF Tasks
    <3> QED
      BY <3>2, <3>3 DEF Becomes
  <2> QED
    BY <2>2, <2>3 DEF IInv, TasksTyped
<1>2. CASE tasks' = tasks /\ orphans' = (orphans \ {t}) \cup {v \in {u} : Unfinished(v)}
  BY <1>2 DEF Tasks
<1> QED
  BY <1>1, <1>2 DEF Becomes

\* Every step of a task only adds rows of events.
LEMMA TaskInserts ==
  ASSUME IInv, RowsAreEvents, TaskStep \/ TaskFailure
  PROVE  /\ RowsAreEvents'
         /\ logs \subseteq logs' /\ logs' \subseteq logs \cup Table!Events
         /\ status' = status
<1>1. PICK t \in Running :
        FetchLogs(t) \/ InsertLogs(t) \/ EndTask(t) \/ FetchThrows(t) \/ InsertThrows(t)
  BY DEF TaskStep, TaskFailure
<1>2. t \in Tasks /\ t \in TaskRecord
  <2>1. \A i \in DOMAIN tasks : tasks[i] \in TaskRecord
    BY DEF IInv, TasksTyped
  <2> QED
    BY <2>1 DEF IInv, TasksTyped, Running, Tasks
<1>3. t.logsToInsert \subseteq Table!Events /\ logs \subseteq Table!Events
  BY <1>2 DEF RowsAreEvents
<1>4. PICK u : Becomes(t, u) /\ u.logsToInsert \subseteq Table!Events
  <2>1. CASE FetchLogs(t)
    <3>1. PICK blocks : Becomes(t, [t EXCEPT
              !.remaining = @ \ blocks,
              !.logsToInsert = RowsOf(t, blocks),
              !.state = IF RowsOf(t, blocks) = {} THEN "fetch" ELSE "insert"])
      BY <2>1 DEF FetchLogs
    <3>2. [t EXCEPT
              !.remaining = @ \ blocks,
              !.logsToInsert = RowsOf(t, blocks),
              !.state = IF RowsOf(t, blocks) = {} THEN "fetch" ELSE "insert"].logsToInsert
            = RowsOf(t, blocks)
      BY <1>2 DEF TaskRecord
    <3> QED
      BY <1>2, <3>1, <3>2, RowsOfAreEvents
  <2>2. CASE InsertLogs(t)
    <3>1. [t EXCEPT !.logsToInsert = {}, !.state = "fetch"].logsToInsert = {}
      BY <1>2 DEF TaskRecord
    <3> QED
      BY <2>2, <3>1 DEF InsertLogs
  <2>3. CASE EndTask(t) \/ FetchThrows(t)
    <3>1. /\ [t EXCEPT !.state = "done"].logsToInsert = t.logsToInsert
          /\ [t EXCEPT !.state = "failed"].logsToInsert = t.logsToInsert
      BY <1>2 DEF TaskRecord
    <3> QED
      BY <1>3, <2>3, <3>1 DEF EndTask, FetchThrows
  <2>4. CASE InsertThrows(t)
    <3>1. [t EXCEPT !.logsToInsert = {}, !.state = "failed"].logsToInsert = {}
      BY <1>2 DEF TaskRecord
    <3> QED
      BY <2>4, <3>1 DEF InsertThrows
  <2> QED
    BY <1>1, <2>1, <2>2, <2>3, <2>4
<1>5. logs' \in {logs, logs \cup t.logsToInsert}
  BY <1>1 DEF FetchLogs, InsertLogs, EndTask, FetchThrows, InsertThrows
<1>6. Tasks' \subseteq Tasks \cup {u}
  BY <1>4, BecomesTasks
<1>7. Table!Events' = Table!Events
  BY DEF Table!Events
<1>8. status' = status
  BY <1>4 DEF Becomes
<1>9. /\ logs \subseteq logs' /\ logs' \subseteq logs \cup Table!Events
      /\ logs' \subseteq Table!Events
  BY <1>3, <1>5
<1>10. \A v \in Tasks' : v.logsToInsert \subseteq Table!Events
  BY <1>4, <1>6 DEF RowsAreEvents
<1> QED
  BY <1>7, <1>8, <1>9, <1>10 DEF RowsAreEvents

\* The steps of the loop itself write no row, and their tasks begin with none.
LEMMA LoopKeepsRows ==
  ASSUME IInv, RowsAreEvents,
         Loop \/ MarkCompletedThrows \/ MarkFailedThrows \/ Crash \/ UNCHANGED vars
  PROVE  RowsAreEvents' /\ logs' = logs
<1>1. logs' = logs
  BY DEF Loop, SelectPending, SelectFailed, StartBatch, EndGroup, AllDone, AnyFailed,
         MarkCompleted, MarkFailed, Restart, MarkCompletedThrows, MarkFailedThrows, Crash,
         vars
<1>2. \A t \in Tasks' : t \in Tasks \/ t.logsToInsert = {}
  <2>1. CASE StartBatch
    <3>1. PICK jobs : tasks' = [i \in Task |->
                         NewTask(jobs, SplitRange(group.targetBlockNumber, i))]
      BY <2>1 DEF StartBatch
    <3>2. \A i \in DOMAIN tasks' : tasks'[i].logsToInsert = {}
      BY <3>1 DEF NewTask
    <3>3. orphans' \subseteq Tasks
      BY <2>1 DEF StartBatch, Running, Tasks
    <3> QED
      BY <3>2, <3>3 DEF Tasks
  <2>2. CASE EndGroup
    <3>1. tasks' = <<>> /\ orphans' \subseteq Tasks
      BY <2>2 DEF EndGroup, Running, Tasks
    <3>2. DOMAIN tasks' = {}
      BY <3>1
    <3> QED
      BY <3>1, <3>2 DEF Tasks
  <2>3. CASE MarkFailedThrows \/ Crash
    <3>1. tasks' = <<>> /\ orphans' = {}
      BY <2>3 DEF MarkFailedThrows, Crash, Stop
    <3>2. DOMAIN tasks' = {}
      BY <3>1
    <3> QED
      BY <3>1, <3>2 DEF Tasks
  <2>4. CASE \/ SelectPending \/ SelectFailed \/ AllDone \/ AnyFailed \/ MarkCompleted
             \/ MarkFailed \/ Restart \/ MarkCompletedThrows \/ UNCHANGED vars
    <3>1. tasks' = tasks /\ orphans' = orphans
      BY <2>4 DEF SelectPending, SelectFailed, AllDone, AnyFailed, MarkCompleted,
           MarkFailed, Restart, MarkCompletedThrows, vars
    <3> QED
      BY <3>1 DEF Tasks
  <2> QED
    BY <2>1, <2>2, <2>3, <2>4 DEF Loop
<1>3. Table!Events' = Table!Events
  BY DEF Table!Events
<1> QED
  BY <1>1, <1>2, <1>3 DEF RowsAreEvents

\* The steps that write a status: only of open jobs, and "completed" only for jobs
\* whose rows are all there.
LEMMA MarksAreEarned ==
  ASSUME IInv, Pending,
         MarkCompleted \/ MarkCompletedThrows \/ MarkFailed \/ MarkFailedThrows
  PROVE  /\ status' \in [Job -> {"pending", "failed", "completed"}]
         /\ \A j \in Job : status'[j] # status[j] =>
              /\ status[j] # "completed" /\ status'[j] # "pending"
              /\ status'[j] = "completed" => Table!Owed(j) \subseteq logs
<1>1. status \in [Job -> {"pending", "failed", "completed"}]
  BY DEF IInv, TypeOK
<1>2. CASE MarkCompleted \/ MarkCompletedThrows
  <2>1. pc = "complete" /\ status' \in {status, SetStatus("completed")}
    BY <1>2 DEF MarkCompleted, MarkCompletedThrows
  <2>2. \A j \in batch : status[j] # "completed"
    BY <2>1 DEF Pending, Open
  <2>3. ASSUME NEW j \in batch PROVE Table!Owed(j) \subseteq logs
    BY <2>1, BatchIndexed DEF Table!Owed
  <2> QED
    BY <1>1, <2>1, <2>2, <2>3 DEF SetStatus
<1>3. CASE MarkFailed \/ MarkFailedThrows
  <2>1. /\ pc = "fail" /\ ~jobsMutex
        /\ status' \in {status, SetStatus("failed")}
    BY <1>3 DEF MarkFailed, MarkFailedThrows
  <2>2. \A j \in batch : status[j] # "completed"
    BY <2>1 DEF Pending, Open
  <2> QED
    BY <1>1, <2>1, <2>2 DEF SetStatus
<1> QED
  BY <1>2, <1>3

\* The historic loop implements the contract of the tables: it only ever adds rows of
\* events, and a status it writes is that of an open job, "completed" when its rows
\* are there.
THEOREM ImplementsJobTable == Spec => RefinesJobTable
<1>1. Init => Table!Init
  BY DEF Init, Table!Init
<1>2. IInv /\ Pending /\ RowsAreEvents /\ [Next]_vars =>
        [Table!Next]_<<Job, BlockOf, status, logs>>
  <2> SUFFICES ASSUME IInv, Pending, RowsAreEvents, [Next]_vars
               PROVE  Table!Next \/ UNCHANGED <<Job, BlockOf, status, logs>>
    OBVIOUS
  <2>1. CASE TaskStep \/ TaskFailure
    <3>1. Table!InsertLogs
      BY <2>1, TaskInserts DEF Table!InsertLogs
    <3> QED
      BY <3>1 DEF Table!Next
  <2>2. CASE MarkCompleted \/ MarkCompletedThrows \/ MarkFailed \/ MarkFailedThrows
    <3>1. logs' = logs
      BY <2>2, LoopKeepsRows DEF Loop
    <3>2. Table!UpdateJobStatus
      BY <2>2, <3>1, MarksAreEarned DEF Table!UpdateJobStatus
    <3> QED
      BY <3>2 DEF Table!Next
  <2>3. CASE \/ SelectPending \/ SelectFailed \/ StartBatch \/ EndGroup
             \/ AllDone \/ AnyFailed \/ Restart \/ Crash \/ UNCHANGED vars
    <3>1. UNCHANGED <<status, logs>>
      BY <2>3 DEF SelectPending, SelectFailed, StartBatch, EndGroup, AllDone, AnyFailed,
                  Restart, Crash, vars
    <3> QED
      BY <3>1
  <2> QED
    BY <2>1, <2>2, <2>3 DEF Next, Loop
<1>3. Init => IInv /\ Pending /\ RowsAreEvents
  BY InitEstablishes, PendingInit, RowsInit
<1>4. IInv /\ Pending /\ RowsAreEvents /\ [Next]_vars =>
        (IInv /\ Pending /\ RowsAreEvents)'
  BY StepPreserves, PendingStep, TaskInserts, LoopKeepsRows DEF Next
<1> QED
  BY <1>1, <1>2, <1>3, <1>4, PTL DEF Spec, RefinesJobTable, Table!Spec

----------------------------------------------------------------------------
(***************************************************************************)
(* What a failed updateJobStatus costs, for all jobs and failures: the     *)
(* run historic_mutex finds the loop waiting in its catch block, and here  *)
(* is that it waits there, and nowhere else, until the process ends.       *)
(***************************************************************************)

MutexHeldInCatch == jobsMutex => pc = "fail"

LEMMA MutexStep ==
  ASSUME IInv, MutexHeldInCatch, [Next]_vars
  PROVE  /\ MutexHeldInCatch'
         /\ pc = "fail" /\ jobsMutex =>
              \/ pc' = "fail" /\ jobsMutex' = TRUE /\ status' = status
              \/ pc' = "down" /\ crashes' = crashes + 1
<1>0. jobsMutex \in BOOLEAN
  BY DEF IInv, TypeOK
<1>1. CASE TaskStep \/ TaskFailure
  <2>1. UNCHANGED <<pc, status, jobsMutex>>
    BY <1>1, TaskInserts DEF TaskStep, TaskFailure, FetchLogs, InsertLogs, EndTask,
       FetchThrows, InsertThrows, Becomes
  <2> QED
    BY <1>0, <2>1 DEF MutexHeldInCatch
<1>2. CASE Loop \/ MarkFailedThrows
  <2>1. ~(pc = "fail" /\ jobsMutex)
    BY <1>2 DEF Loop, SelectPending, SelectFailed, StartBatch, EndGroup, AllDone,
       AnyFailed, MarkCompleted, MarkFailed, Restart, MarkFailedThrows
  <2>2. jobsMutex' \in {jobsMutex, FALSE}
    BY <1>2 DEF Loop, SelectPending, SelectFailed, StartBatch, EndGroup, AllDone,
       AnyFailed, MarkCompleted, MarkFailed, Restart, MarkFailedThrows, Stop
  <2>3. jobsMutex = FALSE
    BY <1>0, <2>1 DEF MutexHeldInCatch
  <2>4. jobsMutex' = FALSE
    BY <2>2, <2>3
  <2> QED
    BY <2>1, <2>4 DEF MutexHeldInCatch
<1>3. CASE MarkCompletedThrows
  <2>1. pc = "complete" /\ pc' = "fail"
    BY <1>3 DEF MarkCompletedThrows
  <2> QED
    BY <2>1 DEF MutexHeldInCatch
<1>4. CASE Crash
  <2>1. pc' = "down" /\ jobsMutex' = FALSE /\ crashes' = crashes + 1
    BY <1>4 DEF Crash, Stop
  <2> QED
    BY <2>1 DEF MutexHeldInCatch
<1>5. CASE UNCHANGED vars
  BY <1>0, <1>5 DEF vars, MutexHeldInCatch
<1> QED
  BY <1>1, <1>2, <1>3, <1>4, <1>5 DEF Next

\* The mutex is never held when the loop comes to mark a batch as completed: it is held
\* only in the catch block that follows the failed update.
THEOREM MutexIsHeldInCatch == Spec => []MutexHeldInCatch
<1>1. Init => MutexHeldInCatch
  BY DEF Init, MutexHeldInCatch
<1> QED
  BY <1>1, MutexStep, Invariance, PTL DEF Spec

\* Once the catch block waits for the mutex it goes on waiting, and writes no status,
\* until the process ends.
StuckUntilCrash ==
  [][pc = "fail" /\ jobsMutex =>
       \/ pc' = "fail" /\ jobsMutex' = TRUE /\ status' = status
       \/ pc' = "down" /\ crashes' = crashes + 1]_vars

THEOREM CatchBlockIsStuck == Spec => StuckUntilCrash
<1>1. IInv /\ MutexHeldInCatch /\ [Next]_vars =>
        [pc = "fail" /\ jobsMutex =>
           \/ pc' = "fail" /\ jobsMutex' = TRUE /\ status' = status
           \/ pc' = "down" /\ crashes' = crashes + 1]_vars
  BY MutexStep
<1> QED
  BY <1>1, MutexIsHeldInCatch, Invariance, PTL DEF Spec, StuckUntilCrash
============================================================================
