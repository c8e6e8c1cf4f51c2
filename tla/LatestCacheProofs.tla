------------------------- MODULE LatestCacheProofs -------------------------
(***************************************************************************)
(* What the scanner of LatestCache guarantees for every chain, batch size  *)
(* and number of failures.                                                 *)
(***************************************************************************)
EXTENDS LatestCache, FiniteSetTheorems, TLAPS

Processing == pc \in {"fetch", "checkpoint", "commit"}

\* waitForBlock has brought the target within reach.
TargetReached == Processing => next <= latest

\* Every block behind the scan is stored, or was passed over.
ScannedIsStored ==
  origin # None =>
    \A b \in origin..(next - 1) : RowsOf[b] \subseteq logs \/ b \in skipped

\* The open transaction holds the rows of the blocks being processed.
TransactionHoldsBatch ==
  pc \in {"checkpoint", "commit"} =>
    \A b \in BlockRange : RowsOf[b] \subseteq pending \/ b \in skipped

\* The checkpoint leads the scan by less than a batch.
CheckpointLead == settings # None => settings <= next + BatchSize - 1

\* A process that has run has an origin, and only a crash ends it.
Lifecycle ==
  /\ pc # "down" => origin # None
  /\ origin = None => settings = None
  /\ crashes = 0 /\ pc = "down" => settings = None /\ origin = None

NothingSkipped ==
  nulls = 0 /\ (crashes = 0 \/ BatchSize = 1) => skipped = {}

IInv ==
  /\ TypeOK
  /\ TargetReached
  /\ ScannedIsStored
  /\ TransactionHoldsBatch
  /\ CheckpointLead
  /\ Lifecycle
  /\ NothingSkipped

----------------------------------------------------------------------------
\* The batch ends inside the chain and at most BatchSize - 1 blocks after it
\* began (processBlocks).
LEMMA BatchEnd ==
  ASSUME next \in Int, latest \in Int, next <= latest
  PROVE  /\ LatestProcessed \in Int
         /\ next <= LatestProcessed
         /\ LatestProcessed <= next + BatchSize - 1
         /\ LatestProcessed <= latest
<1>1. CASE ShouldBatch
  <2>1. next + BatchSize < latest
    BY <1>1, BatchSizeAssumption DEF ShouldBatch
  <2>2. \A y \in {next + BatchSize, latest} : next + BatchSize <= y
    BY <2>1, BatchSizeAssumption
  <2>3. Min({next + BatchSize, latest}) \in {next + BatchSize, latest}
        /\ Min({next + BatchSize, latest}) <= next + BatchSize
    BY <2>2 DEF Min
  <2>4. Min({next + BatchSize, latest}) = next + BatchSize
    BY <2>1, <2>3, BatchSizeAssumption
  <2>5. QED
    BY <1>1, <2>1, <2>4, BatchSizeAssumption DEF LatestProcessed
<1>2. CASE ~ShouldBatch
  BY <1>2, BatchSizeAssumption DEF LatestProcessed
<1>3. QED
  BY <1>1, <1>2

LEMMA InitEstablishes == Init => IInv
  BY ChainAssumption, NoneAssumption, BatchSizeAssumption
     DEF Init, IInv, TypeOK, PC, TargetReached, Processing, ScannedIsStored,
         TransactionHoldsBatch, CheckpointLead, Lifecycle, NothingSkipped

LEMMA StepPreserves == IInv /\ [Next]_vars => IInv'
<1> SUFFICES ASSUME IInv, [Next]_vars PROVE IInv'
  OBVIOUS
<1> USE BatchSizeAssumption, ChainAssumption, NoneAssumption
<1> USE DEF IInv, history
<1>1. CASE MineBlock
  <2>1. TypeOK'
    BY <1>1 DEF MineBlock, TypeOK
  <2>2. TransactionHoldsBatch'
    BY <1>1 DEF MineBlock, TransactionHoldsBatch, BlockRange, LatestProcessed,
       ShouldBatch
  <2>3. QED
    BY <1>1, <2>1, <2>2 DEF MineBlock, TargetReached, Processing,
       ScannedIsStored, CheckpointLead, Lifecycle, NothingSkipped
<1>2. CASE StartFresh
  BY <1>2 DEF StartFresh, TypeOK, PC, TargetReached, Processing,
       ScannedIsStored, TransactionHoldsBatch, CheckpointLead, Lifecycle,
       NothingSkipped
<1>3. CASE StartResume
  <2>1. settings \in Int /\ origin # None /\ crashes # 0
    BY <1>3 DEF StartResume, TypeOK, Lifecycle
  <2>2. TypeOK'
    BY <1>3, <2>1 DEF StartResume, TypeOK, PC
  <2>3. ScannedIsStored'
    BY <1>3, <2>1 DEF StartResume, TypeOK, ScannedIsStored
  <2>4. NothingSkipped'
    BY <1>3, <2>1 DEF StartResume, TypeOK, NothingSkipped, CheckpointLead
  <2>5. QED
    BY <1>3, <2>1, <2>2, <2>3, <2>4 DEF StartResume, TypeOK, TargetReached,
       Processing, TransactionHoldsBatch, CheckpointLead, Lifecycle
<1>4. CASE WaitForBlock
  BY <1>4 DEF WaitForBlock, TypeOK, PC, TargetReached, Processing,
       ScannedIsStored, TransactionHoldsBatch, CheckpointLead, Lifecycle,
       NothingSkipped
<1>5. CASE Process
  <2>1. PICK missed \in SUBSET BlockRange : ProcessBlocks(missed)
    BY <1>5 DEF Process
  <2>2. /\ pc = "fetch" /\ next \in Int /\ latest \in Int /\ next <= latest
        /\ next > 0 /\ head \in Int /\ latest <= head /\ head <= LastBlock
    BY <2>1 DEF ProcessBlocks, TypeOK, TargetReached, Processing
  <2>3. /\ LatestProcessed \in Int /\ next <= LatestProcessed
        /\ LatestProcessed <= next + BatchSize - 1 /\ LatestProcessed <= latest
    BY <2>2, BatchEnd
  <2>4. IsFiniteSet(missed) /\ Cardinality(missed) \in Nat
    BY <2>2, <2>3, FS_Interval, FS_Subset, FS_CardinalityType DEF BlockRange
  <2>5. Cardinality(missed) = 0 => missed = {}
    BY <2>4, FS_EmptySet
  <2>5a. nulls' = 0 => nulls = 0 /\ skipped' = skipped
    <3>1. nulls' = nulls + Cardinality(missed) /\ nulls \in Nat
      BY <2>1 DEF ProcessBlocks, TypeOK
    <3>2. nulls' = 0 => nulls = 0 /\ Cardinality(missed) = 0
      BY <2>4, <3>1
    <3>3. QED
      BY <2>1, <2>5, <3>2 DEF ProcessBlocks
  <2>6. RowsRead(missed) \subseteq Row
    <3>1. BlockRange \subseteq 0..LastBlock
      BY <2>2, <2>3 DEF BlockRange
    <3>2. \A b \in BlockRange : RowsOf[b] \subseteq Row
      BY <3>1, RowsAssumption
    <3>3. QED
      BY <3>2 DEF RowsRead
  <2>7. \A b \in BlockRange : RowsOf[b] \subseteq RowsRead(missed) \/ b \in skipped'
    BY <2>1 DEF ProcessBlocks, RowsRead
  <2>8. CASE RowsRead(missed) = {}
    <3>1. next' = LatestProcessed + 1 /\ pc' = "wait" /\ pending' = pending
      BY <2>1, <2>8 DEF ProcessBlocks
    <3>2. TypeOK'
      BY <2>1, <2>2, <2>3, <2>4, <3>1 DEF ProcessBlocks, TypeOK, PC, BlockRange
    <3>3. ScannedIsStored'
      BY <2>1, <2>2, <2>3, <2>7, <2>8, <3>1
      DEF ProcessBlocks, TypeOK, ScannedIsStored, BlockRange
    <3>4. NothingSkipped'
      BY <2>1, <2>5a DEF ProcessBlocks, NothingSkipped
    <3>5. QED
      BY <2>1, <2>2, <2>3, <3>1, <3>2, <3>3, <3>4 DEF ProcessBlocks, TypeOK,
         TargetReached, Processing, TransactionHoldsBatch, CheckpointLead,
         Lifecycle
  <2>9. CASE RowsRead(missed) # {}
    <3>1. next' = next /\ pc' = "checkpoint" /\ pending' = RowsRead(missed)
      BY <2>1, <2>9 DEF ProcessBlocks
    <3>2. TypeOK'
      BY <2>1, <2>2, <2>3, <2>4, <2>6, <3>1
      DEF ProcessBlocks, TypeOK, PC, BlockRange
    <3>3. TransactionHoldsBatch'
      BY <2>1, <2>7, <3>1 DEF ProcessBlocks, TransactionHoldsBatch, BlockRange,
         LatestProcessed, ShouldBatch
    <3>4. NothingSkipped'
      BY <2>1, <2>5a DEF ProcessBlocks, NothingSkipped
    <3>5. QED
      BY <2>1, <2>2, <3>1, <3>2, <3>3, <3>4 DEF ProcessBlocks, TypeOK,
         TargetReached, Processing, ScannedIsStored, CheckpointLead, Lifecycle
  <2>10. QED
    BY <2>8, <2>9
<1>6. CASE UpdateCheckpoint
  <2>1. /\ LatestProcessed \in Int /\ LatestProcessed <= latest
        /\ LatestProcessed <= next + BatchSize - 1
    BY <1>6, BatchEnd DEF UpdateCheckpoint, TypeOK, TargetReached, Processing
  <2>2. TransactionHoldsBatch'
    BY <1>6 DEF UpdateCheckpoint, TransactionHoldsBatch, BlockRange,
       LatestProcessed, ShouldBatch
  <2>3. QED
    BY <1>6, <2>1, <2>2 DEF UpdateCheckpoint, TypeOK, PC, TargetReached,
       Processing, ScannedIsStored, CheckpointLead, Lifecycle, NothingSkipped
<1>7. CASE Commit
  <2>1. /\ LatestProcessed \in Int /\ next <= LatestProcessed
        /\ LatestProcessed <= latest
    BY <1>7, BatchEnd DEF Commit, TypeOK, TargetReached, Processing
  <2>2. ScannedIsStored'
    BY <1>7, <2>1 DEF Commit, TypeOK, ScannedIsStored, TransactionHoldsBatch,
       BlockRange
  <2>3. QED
    BY <1>7, <2>1, <2>2 DEF Commit, TypeOK, PC, TargetReached, Processing,
       TransactionHoldsBatch, CheckpointLead, Lifecycle, NothingSkipped
<1>8. CASE Rollback
  BY <1>8 DEF Rollback, EarliestSafeBlock, TypeOK, PC, TargetReached,
     Processing, ScannedIsStored, TransactionHoldsBatch, CheckpointLead,
     Lifecycle, NothingSkipped
<1>9. CASE FetchFails
  BY <1>9 DEF FetchFails, Fault, TypeOK, PC, TargetReached, Processing,
     ScannedIsStored, TransactionHoldsBatch, CheckpointLead, Lifecycle,
     NothingSkipped
<1>10. CASE CheckpointFails
  <2>1. /\ LatestProcessed \in Int /\ LatestProcessed <= latest
        /\ LatestProcessed <= next + BatchSize - 1
    BY <1>10, BatchEnd DEF CheckpointFails, TypeOK, TargetReached, Processing
  <2>2. QED
    BY <1>10, <2>1 DEF CheckpointFails, Fault, TypeOK, PC, TargetReached,
       Processing, ScannedIsStored, TransactionHoldsBatch, CheckpointLead,
       Lifecycle, NothingSkipped
<1>11. CASE CommitFails
  BY <1>11 DEF CommitFails, Fault, TypeOK, PC, TargetReached, Processing,
     ScannedIsStored, TransactionHoldsBatch, CheckpointLead, Lifecycle,
     NothingSkipped
<1>12. CASE RollbackFails
  BY <1>12 DEF RollbackFails, Fault, EarliestSafeBlock, TypeOK, PC,
     TargetReached, Processing, ScannedIsStored, TransactionHoldsBatch,
     CheckpointLead, Lifecycle, NothingSkipped
<1>13. CASE Crash
  BY <1>13 DEF Crash, TypeOK, PC, TargetReached, Processing, ScannedIsStored,
     TransactionHoldsBatch, CheckpointLead, Lifecycle, NothingSkipped
<1>14. CASE UNCHANGED vars
  BY <1>14 DEF vars, TypeOK, TargetReached, Processing, ScannedIsStored,
     TransactionHoldsBatch, BlockRange, LatestProcessed, ShouldBatch,
     CheckpointLead, Lifecycle, NothingSkipped
<1>15. QED
  BY <1>1, <1>2, <1>3, <1>4, <1>5, <1>6, <1>7, <1>8, <1>9, <1>10, <1>11,
     <1>12, <1>13, <1>14 DEF Next, Scanner, Failure

THEOREM Invariance == Spec => []IInv
  BY InitEstablishes, StepPreserves, PTL DEF Spec

----------------------------------------------------------------------------
\* The crashes whose restart has happened.
Resumed == IF pc = "down" /\ origin # None THEN crashes - 1 ELSE crashes

\* Each of them passed over less than a batch, each null answer over a block.
LossAccounted ==
  /\ IsFiniteSet(skipped)
  /\ Cardinality(skipped) <= Resumed * (BatchSize - 1) + nulls

LEMMA OneMore ==
  ASSUME NEW m \in Int, NEW k \in Nat
  PROVE  (m - 1) * k + k = m * k /\ (m - 1) * k <= m * k /\ m * k \in Int
  OBVIOUS

LEMMA LossStep == IInv /\ LossAccounted /\ [Next]_vars => LossAccounted'
<1> SUFFICES ASSUME IInv, LossAccounted, [Next]_vars PROVE LossAccounted'
  OBVIOUS
<1> USE BatchSizeAssumption DEF history
<1>1. /\ crashes \in Nat /\ nulls \in Nat /\ pc \in PC /\ BatchSize - 1 \in Nat
      /\ Cardinality(skipped) \in Nat
  BY FS_CardinalityType DEF IInv, TypeOK, LossAccounted
<1>2. CASE StartFresh \/ StartResume
  <2>1. Resumed' = crashes /\ (Resumed = crashes \/ Resumed = crashes - 1)
    BY <1>2, <1>1 DEF StartFresh, StartResume, Resumed
  <2>2. CASE StartFresh
    <3>1. Resumed * (BatchSize - 1) <= Resumed' * (BatchSize - 1)
      BY <1>1, <2>1, OneMore
    <3>2. QED
      BY <2>2, <2>1, <1>1, <3>1, OneMore DEF StartFresh, LossAccounted
  <2>3. CASE StartResume
    <3>1. /\ settings \in Int /\ next \in Int /\ origin # None
          /\ settings <= next + BatchSize - 1
      BY <2>3, <1>1 DEF StartResume, IInv, TypeOK, CheckpointLead, Lifecycle
    <3>2. Resumed = crashes - 1
      BY <2>3, <3>1 DEF StartResume, Resumed
    <3> DEFINE gap == next..(settings - 1)
    <3>3. IsFiniteSet(gap) /\ Cardinality(gap) \in 0..(BatchSize - 1)
      <4>1. settings - 1 \in Int
        BY <3>1
      <4>2. /\ IsFiniteSet(gap)
            /\ Cardinality(gap) = IF next > settings - 1 THEN 0
                                  ELSE settings - 1 - next + 1
        BY <3>1, <4>1, FS_Interval
      <4> HIDE DEF gap
      <4>3. QED
        BY <3>1, <4>2, <1>1
    <3>4. /\ IsFiniteSet(skipped')
          /\ Cardinality(skipped') <= Cardinality(skipped) + Cardinality(gap)
      <4>1. skipped' = skipped \cup gap
        BY <2>3 DEF StartResume
      <4> HIDE DEF gap
      <4>2. IsFiniteSet(skipped \cap gap)
        BY FS_Subset DEF LossAccounted
      <4>3. Cardinality(skipped \cap gap) \in Nat
        BY <4>2, FS_CardinalityType
      <4>4. /\ IsFiniteSet(skipped')
            /\ Cardinality(skipped') = Cardinality(skipped) + Cardinality(gap)
                 - Cardinality(skipped \cap gap)
        BY <3>3, <4>1, FS_Union DEF LossAccounted
      <4>5. QED
        BY <3>3, <4>3, <4>4, <1>1
    <3> HIDE DEF gap
    <3>5. /\ (crashes - 1) * (BatchSize - 1) + (BatchSize - 1)
               = crashes * (BatchSize - 1)
          /\ (crashes - 1) * (BatchSize - 1) \in Int
      BY <1>1, OneMore
    <3>6. nulls' = nulls
      BY <2>3 DEF StartResume
    <3>7. Cardinality(skipped') \in Nat
      BY <3>4, FS_CardinalityType
    <3>8. Cardinality(skipped) <= (crashes - 1) * (BatchSize - 1) + nulls
      BY <3>2 DEF LossAccounted
    <3>9. Cardinality(skipped') <= crashes * (BatchSize - 1) + nulls
      BY <1>1, <3>3, <3>4, <3>5, <3>7, <3>8
    <3>10. QED
      BY <2>1, <3>4, <3>6, <3>9 DEF LossAccounted
  <2>4. QED
    BY <1>2, <2>2, <2>3
<1>3. CASE Crash
  <2>1. Resumed = crashes /\ Resumed' = crashes
    BY <1>3, <1>1 DEF Crash, Resumed, IInv, Lifecycle
  <2>2. QED
    BY <1>3, <2>1 DEF Crash, LossAccounted
<1>4. CASE Process
  <2>1. PICK missed \in SUBSET BlockRange : ProcessBlocks(missed)
    BY <1>4 DEF Process
  <2>2. LatestProcessed \in Int /\ next \in Int
    BY <2>1, BatchEnd
    DEF ProcessBlocks, IInv, TypeOK, TargetReached, Processing
  <2>3. IsFiniteSet(missed) /\ Cardinality(missed) \in Nat
    BY <2>2, FS_Interval, FS_Subset, FS_CardinalityType DEF BlockRange
  <2>4. IsFiniteSet(skipped \cap missed)
    BY FS_Subset DEF LossAccounted
  <2>5. Cardinality(skipped \cap missed) \in Nat
    BY <2>4, FS_CardinalityType
  <2>6. skipped' = skipped \cup missed /\ nulls' = nulls + Cardinality(missed)
    BY <2>1 DEF ProcessBlocks
  <2>7. /\ IsFiniteSet(skipped')
        /\ Cardinality(skipped') = Cardinality(skipped) + Cardinality(missed)
             - Cardinality(skipped \cap missed)
    BY <2>3, <2>6, FS_Union DEF LossAccounted
  <2>8. Resumed' = crashes /\ Resumed = crashes
    BY <2>1 DEF ProcessBlocks, Resumed
  <2>9. crashes * (BatchSize - 1) \in Int
    BY <1>1, OneMore
  <2>10. Cardinality(skipped) <= crashes * (BatchSize - 1) + nulls
    BY <2>8 DEF LossAccounted
  <2>11. Cardinality(skipped') <= crashes * (BatchSize - 1) + nulls'
    BY <1>1, <2>3, <2>5, <2>6, <2>7, <2>9, <2>10
  <2>12. QED
    BY <2>7, <2>8, <2>11 DEF LossAccounted
<1>5. CASE MineBlock \/ WaitForBlock \/ UpdateCheckpoint \/ Commit \/ Rollback
           \/ Failure \/ UNCHANGED vars
  <2>1. skipped' = skipped /\ crashes' = crashes /\ nulls' = nulls
    BY <1>5 DEF MineBlock, WaitForBlock, UpdateCheckpoint, Commit, Rollback,
       Failure, FetchFails, CheckpointFails, CommitFails, RollbackFails, Fault,
       vars
  <2>2. Resumed' = Resumed
    BY <1>5, <1>1 DEF MineBlock, WaitForBlock, UpdateCheckpoint, Commit,
       Rollback, Failure, FetchFails, CheckpointFails, CommitFails,
       RollbackFails, Fault, vars, Resumed
  <2>3. QED
    BY <2>1, <2>2 DEF LossAccounted
<1>6. QED
  BY <1>2, <1>3, <1>4, <1>5 DEF Next, Scanner

\* Types are kept, and the scan and the checkpoint never pass the chain.
THEOREM TypeCorrect == Spec => []TypeOK
<1>1. IInv => TypeOK
  BY DEF IInv
<1>2. QED
  BY <1>1, Invariance, PTL

\* Failures of the provider and of the database never cost a row, whatever
\* their number and whatever statement of insertLogs or processError they hit.
THEOREM NoGapHolds == Spec => []NoGap
<1>1. IInv => NoGap
  BY DEF IInv, NoGap, NothingSkipped, ScannedIsStored, Missing, Claimed
<1>2. QED
  BY <1>1, Invariance, PTL

\* A crash costs at most the rest of one batch, a null answer one block: the
\* price of the checkpoint that insertLogs sends outside its transaction.
THEOREM LossBoundHolds == Spec => []LossBound
<1>1. Init => LossAccounted
  BY FS_EmptySet, OneMore, BatchSizeAssumption DEF Init, LossAccounted, Resumed
<1>2. Spec => []LossAccounted
  BY <1>1, LossStep, Invariance, PTL DEF Spec
<1>3. IInv /\ LossAccounted => LossBound
  <2> SUFFICES ASSUME IInv, LossAccounted PROVE LossBound
    OBVIOUS
  <2>1. Missing \subseteq skipped
    BY DEF IInv, ScannedIsStored, Missing, Claimed
  <2>2. /\ Cardinality(Missing) \in Nat /\ Cardinality(skipped) \in Nat
        /\ Cardinality(Missing) <= Cardinality(skipped)
    BY <2>1, FS_Subset, FS_CardinalityType DEF LossAccounted
  <2>3. crashes \in Nat /\ nulls \in Nat /\ BatchSize - 1 \in Nat
    BY BatchSizeAssumption DEF IInv, TypeOK
  <2>4. /\ Resumed * (BatchSize - 1) <= crashes * (BatchSize - 1)
        /\ Resumed * (BatchSize - 1) \in Int /\ crashes * (BatchSize - 1) \in Int
    BY <2>3, OneMore DEF Resumed
  <2>5. QED
    BY <2>2, <2>3, <2>4 DEF LossAccounted, LossBound
<1>4. QED
  BY <1>2, <1>3, Invariance, PTL

\* One block at a time the early commit of the checkpoint is harmless: the block it
\* names is scanned again by whoever resumes there, so that no reader and no restart
\* finds a row missing below the checkpoint.
THEOREM SingleBlockCoversLogs ==
  ASSUME BatchSize = 1
  PROVE  Spec => [](nulls = 0 => CheckpointCoversLogs)
<1>1. IInv => (nulls = 0 => CheckpointCoversLogs)
  <2> SUFFICES ASSUME IInv, nulls = 0, settings # None, origin # None,
                      NEW b \in origin..(settings - 1)
               PROVE  RowsOf[b] \subseteq logs
    BY DEF CheckpointCoversLogs
  <2>1. skipped = {} /\ settings <= next
    BY DEF IInv, TypeOK, NothingSkipped, CheckpointLead
  <2>2. b \in origin..(next - 1)
    BY <2>1 DEF IInv, TypeOK
  <2>3. QED
    BY <2>1, <2>2 DEF IInv, ScannedIsStored
<1>2. QED
  BY <1>1, Invariance, PTL
============================================================================
