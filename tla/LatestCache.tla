---------------------------- MODULE LatestCache ----------------------------
(***************************************************************************)
(* The latest-block scanner of packages/workers: one endless loop per      *)
(* chain that waits for a block, reads the receipts of one block or of a   *)
(* batch of blocks, stores the user rows it finds, and writes the number   *)
(* of the last block it processed (the checkpoint) from which a restarted  *)
(* process resumes.                                                        *)
(*                                                                         *)
(* What is kept: every database statement and its order, every error path, *)
(* restarts.  What is abstracted: a block is the set of rows its receipts  *)
(* parse to, given by the constant RowsOf.                                 *)
(***************************************************************************)
EXTENDS Integers, FiniteSets, FiniteSetsExt

CONSTANTS
  Row,          \* the rows of the table logs
  RowsOf,       \* RowsOf[b]: the rows that the receipts of block b parse to
  BatchSize,    \* BLOCK_RUNNER_BATCH_SIZE
  FirstHead,    \* the head of the chain when the indexer is first deployed
  LastBlock,    \* bound: the chain stops growing here
  MaxFaults,    \* bound: failures of the provider or of the database
  MaxCrashes,   \* bound: ends of the process
  MaxNulls,     \* bound: blocks for which the provider answers null
  None          \* the SQL value NULL, and a history variable not yet set

ASSUME BatchSizeAssumption == BatchSize \in Nat \ {0}
ASSUME BoundsAssumption ==
  MaxFaults \in Nat /\ MaxCrashes \in Nat /\ MaxNulls \in Nat
ASSUME ChainAssumption ==
  FirstHead \in Nat \ {0} /\ LastBlock \in Nat /\ FirstHead <= LastBlock
ASSUME RowsAssumption == RowsOf \in [0..LastBlock -> SUBSET Row]
ASSUME NoneAssumption == None \notin Int

VARIABLES
  head,         \* the newest block of the chain
  settings,     \* settings.value of the key latest_block_processed
  logs,         \* the committed rows of the table logs
  pc,           \* where the scanner is in one iteration
  next,         \* nextProcessingBlockNumber
  latest,       \* latestBlockNumber, as waitForBlock returned it
  pending,      \* rows inserted by the open transaction
  origin,       \* history: the block the scan began at
  skipped,      \* history: blocks passed over without reading their rows
  faults, crashes, nulls   \* history: how much of each bound is used

history == <<origin, skipped, faults, crashes, nulls>>
vars == <<head, settings, logs, pc, next, latest, pending, history>>

PC == {"down", "wait", "fetch", "checkpoint", "commit", "rollback"}

\* The process is not running; the migrations have created the row of
\* settings with the value NULL.
Init ==
  /\ head = FirstHead
  /\ settings = None
  /\ logs = {}
  /\ pc = "down"
  /\ next = FirstHead
  /\ latest = FirstHead
  /\ pending = {}
  /\ origin = None
  /\ skipped = {}
  /\ faults = 0 /\ crashes = 0 /\ nulls = 0

\* The chain grows.
MineBlock ==
  /\ head < LastBlock
  /\ head' = head + 1
  /\ UNCHANGED <<settings, logs, pc, next, latest, pending, history>>

----------------------------------------------------------------------------
\* getBlockToProcess without a checkpoint: NULL, and also 0, are falsy, so the
\* scan begins at the block number the provider gives.
StartFresh ==
  /\ pc = "down"
  /\ settings \in {None, 0}
  /\ pc' = "wait"
  /\ \E n \in FirstHead..head : next' = n /\ origin' = n
  /\ UNCHANGED <<head, settings, logs, latest, pending, skipped,
                 faults, crashes, nulls>>

\* Mutant: the scan resumes after the checkpoint instead of at it.
StartResume_AfterCheckpoint ==
  /\ pc = "down"
  /\ settings \notin {None, 0}
  /\ pc' = "wait"
  /\ next' = settings + 1
  /\ skipped' = skipped \cup (next..(settings - 1))
  /\ UNCHANGED <<head, settings, logs, latest, pending, origin,
                 faults, crashes, nulls>>

\* getBlockToProcess with a checkpoint.  While the process is down next still
\* holds the value that was lost, so that skipped can record a jump over it.
StartResume ==
  /\ pc = "down"
  /\ settings \notin {None, 0}
  /\ pc' = "wait"
  /\ next' = settings
  /\ skipped' = skipped \cup (next..(settings - 1))
  /\ UNCHANGED <<head, settings, logs, latest, pending, origin,
                 faults, crashes, nulls>>

\* The worker ends at any point: its transaction is never committed.  An error
\* that escapes from any chain ends the worker that runs all of them.
Crash ==
  /\ pc # "down"
  /\ crashes < MaxCrashes
  /\ crashes' = crashes + 1
  /\ pc' = "down"
  /\ pending' = {}
  /\ UNCHANGED <<head, settings, logs, next, latest, origin, skipped,
                 faults, nulls>>

----------------------------------------------------------------------------
\* Mutant: the answer is not compared with the target.
WaitForBlock_AnyAnswer ==
  /\ pc = "wait"
  /\ \E n \in FirstHead..head : latest' = n
  /\ pc' = "fetch"
  /\ UNCHANGED <<head, settings, logs, next, pending, history>>

\* waitForBlock returns once the provider reports a block number that has
\* reached the target; a node behind the head may be the one that answers.
WaitForBlock ==
  /\ pc = "wait"
  /\ \E n \in next..head : latest' = n
  /\ pc' = "fetch"
  /\ UNCHANGED <<head, settings, logs, next, pending, history>>

ShouldBatch == latest - next > BatchSize

\* latestProcessedBlockNumber of this iteration.
LatestProcessed ==
  IF ShouldBatch THEN Min({next + BatchSize, latest}) - 1 ELSE next

\* Mutant: a batch one block short of the checkpoint it will write.
BlockRange_ShortByOne == next..Max({next, LatestProcessed - 1})

BlockRange == next..LatestProcessed

\* What processBlock returns for the blocks of this iteration.  The blocks of
\* missed are those whose receipts came back null, which reads as no receipts.
RowsRead(missed) == UNION {RowsOf[b] : b \in BlockRange \ missed}

\* The receipts arrive.  Without rows the database is not touched; with rows
\* insertLogs opens its transaction and inserts them.
ProcessBlocks(missed) ==
  /\ pc = "fetch"
  /\ next > 0
  /\ nulls + Cardinality(missed) <= MaxNulls
  /\ nulls' = nulls + Cardinality(missed)
  /\ skipped' = skipped \cup missed
  /\ IF RowsRead(missed) = {}
       THEN /\ next' = LatestProcessed + 1
            /\ pc' = "wait"
            /\ UNCHANGED pending
       ELSE /\ pending' = RowsRead(missed)
            /\ pc' = "checkpoint"
            /\ UNCHANGED next
  /\ UNCHANGED <<head, settings, logs, latest, origin, faults, crashes>>

\* Mutant: the checkpoint is the head of the chain.
UpdateCheckpoint_Head ==
  /\ pc = "checkpoint"
  /\ settings' = latest
  /\ pc' = "commit"
  /\ UNCHANGED <<head, logs, next, latest, pending, history>>

\* updateLatestBlockProcessed, called inside the transaction of insertLogs but
\* sent through the pool: it is committed at once, on its own.
UpdateCheckpoint ==
  /\ pc = "checkpoint"
  /\ settings' = LatestProcessed
  /\ pc' = "commit"
  /\ UNCHANGED <<head, logs, next, latest, pending, history>>

\* COMMIT of the rows; processBlocks returns the block to process next.
Commit ==
  /\ pc = "commit"
  /\ logs' = logs \cup pending
  /\ pending' = {}
  /\ next' = LatestProcessed + 1
  /\ pc' = "wait"
  /\ UNCHANGED <<head, settings, latest, history>>

----------------------------------------------------------------------------
\* An error inside processBlocks leads to processError, whatever the statement
\* that failed.  A write that reports an error may have been applied.
Fault ==
  /\ faults < MaxFaults
  /\ faults' = faults + 1
  /\ UNCHANGED <<head, latest, origin, skipped, crashes, nulls>>

\* The provider fails or times out, or BEGIN or INSERT fails.
FetchFails ==
  /\ pc \in {"fetch", "checkpoint"}
  /\ Fault
  /\ pc' = "rollback"
  /\ pending' = {}
  /\ UNCHANGED <<settings, logs, next>>

\* The UPDATE of the checkpoint is applied and its answer lost.
CheckpointFails ==
  /\ pc = "checkpoint"
  /\ Fault
  /\ settings' = LatestProcessed
  /\ pc' = "rollback"
  /\ pending' = {}
  /\ UNCHANGED <<logs, next>>

\* The COMMIT fails, or is applied and its answer lost.
CommitFails ==
  /\ pc = "commit"
  /\ Fault
  /\ logs' \in {logs, logs \cup pending}
  /\ pc' = "rollback"
  /\ pending' = {}
  /\ UNCHANGED <<settings, next>>

\* earliestSafeBlock of processError.
EarliestSafeBlock == next - BatchSize

\* processError: the checkpoint and the scan go back together.
Rollback ==
  /\ pc = "rollback"
  /\ settings' = EarliestSafeBlock
  /\ next' = EarliestSafeBlock
  /\ pc' = "wait"
  /\ UNCHANGED <<head, logs, latest, pending, history>>

\* processError when its UPDATE fails too: the same block is tried again.
RollbackFails ==
  /\ pc = "rollback"
  /\ Fault
  /\ settings' \in {settings, EarliestSafeBlock}
  /\ pc' = "wait"
  /\ UNCHANGED <<logs, next, pending>>

----------------------------------------------------------------------------
Process == \E missed \in SUBSET BlockRange : ProcessBlocks(missed)

Scanner ==
  \/ StartFresh \/ StartResume
  \/ WaitForBlock \/ Process \/ UpdateCheckpoint \/ Commit \/ Rollback

Failure == FetchFails \/ CheckpointFails \/ CommitFails \/ RollbackFails

Next == MineBlock \/ Scanner \/ Failure \/ Crash

\* The loop never stops by itself, and a worker that ended is started again: not
\* by main.ts, but by whoever deploys it and watches /health.  Nothing is assumed
\* of the chain, the failures or the crashes.
Fairness == WF_vars(Scanner)

Spec == Init /\ [][Next]_vars /\ Fairness

----------------------------------------------------------------------------
\* Every variable keeps its type; neither the scan nor the checkpoint is ever
\* further than one block past the head of the chain.
TypeOK ==
  /\ head \in FirstHead..LastBlock
  /\ settings \in Int \cup {None} /\ (settings # None => settings <= head)
  /\ logs \subseteq Row
  /\ pc \in PC
  /\ next \in Int /\ next <= head + 1
  /\ latest \in Int /\ latest <= head
  /\ pending \subseteq Row
  /\ origin \in Int \cup {None}
  /\ skipped \subseteq Int
  /\ faults \in Nat /\ crashes \in Nat /\ nulls \in Nat

\* The blocks the scan claims to have processed, since its beginning.
Claimed == IF origin = None THEN {} ELSE origin..(next - 1)

\* Those whose rows are not all in the table.
Missing == {b \in Claimed : ~(RowsOf[b] \subseteq logs)}

\* Failures of the provider and of the database, in any number and at any
\* statement, never cost a row: with no crash of the process (or one block at a
\* time, where there is nothing to skip) and no null receipts, every block the
\* scan has passed since its beginning is in the table.
NoGap ==
  (nulls = 0 /\ (crashes = 0 \/ BatchSize = 1)) => Missing = {}

\* What crashes can cost: a restart from a checkpoint written ahead of its rows
\* passes over at most the rest of one batch.
LossBound ==
  Cardinality(Missing) <= crashes * (BatchSize - 1) + nulls

\* Rows committed before the checkpoint that covers them: every block below the
\* checkpoint is in the table whatever instant the database is read at (or the
\* process ends at).
CheckpointCoversLogs ==
  settings # None /\ origin # None =>
    \A b \in origin..(settings - 1) : RowsOf[b] \subseteq logs

\* A block of the chain that lies on the path of the scan is indexed in the end,
\* unless a restart or a null answer passed over it.
InPath(b) == origin # None /\ origin <= b /\ b <= head

EventuallyIndexed ==
  \A b \in FirstHead..LastBlock :
    InPath(b) ~> (RowsOf[b] \subseteq logs \/ b \in skipped \/ ~InPath(b))
============================================================================
