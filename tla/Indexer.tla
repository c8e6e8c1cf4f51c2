------------------------------ MODULE Indexer ------------------------------
(***************************************************************************)
(* One chain of packages/workers as a whole: how a worker starts, which    *)
(* jobs it adds to the database and at which block, the two loops that     *)
(* share the table logs from then on, and the health endpoint that has an  *)
(* ended worker started again.                                             *)
(*                                                                         *)
(* The loops are taken at the grain of what they do to the database: an    *)
(* iteration of the latest loop is a step (its statements are those of     *)
(* LatestCache), and so is an insert or the end of a job of the historic   *)
(* loop (HistoricCache).  The row of an event is the pair of its job and   *)
(* its block.                                                              *)
(***************************************************************************)
EXTENDS Integers, FiniteSetsExt

CONSTANTS
  Job,          \* the pools' events: a contract, a topic0, a user index
  KeyOf,        \* KeyOf[j]: createWatchKey, the contract and the topic0 of j
  EventsOf,     \* EventsOf[j]: the blocks with an event of j
  BatchSize,    \* BLOCK_RUNNER_BATCH_SIZE
  FirstHead,    \* the head of the chain when the indexer is first deployed
  LastBlock,    \* bound: the chain stops growing here
  MaxFaults,    \* bound: failed iterations and failed jobs
  MaxHangs,     \* bound: failed transactions on the table jobs
  MaxCrashes,   \* bound: ends of the worker
  MaxNulls,     \* bound: blocks for which the provider answers null
  None          \* NULL: no checkpoint, no row in jobs

ASSUME JobAssumption ==
  /\ DOMAIN KeyOf = Job
  /\ DOMAIN EventsOf = Job /\ \A j \in Job : EventsOf[j] \subseteq Nat
ASSUME ChainAssumption ==
  FirstHead \in Nat \ {0} /\ LastBlock \in Nat /\ FirstHead <= LastBlock
ASSUME BatchSizeAssumption == BatchSize \in Nat \ {0}
ASSUME BoundsAssumption ==
  MaxFaults \in Nat /\ MaxHangs \in Nat /\ MaxCrashes \in Nat /\ MaxNulls \in Nat
ASSUME NoneAssumption == None \notin Int

VARIABLES
  head,         \* the newest block of the chain
  settings,     \* settings.value of the key latest_block_processed
  logs,         \* the rows of the table logs
  blockNumber,  \* the table jobs: the column block_number, None without a row
  status,       \* the table jobs: the column status
  pc,           \* where the worker is: "down", "jobs", "watch" or "run"
  next,         \* nextProcessingBlockNumber; at first the blockNumber of the start
  watched,      \* userIndexMap: the jobs whose events the latest loop reads
  hung,         \* TRUE while the historic loop waits for a mutex never released
  healthy,      \* what /health answers
  lost,         \* history: rows whose block the scan passed over
  freshStarts,  \* history: starts without a checkpoint
  faults, hangs, crashes, nulls   \* history: how much of each bound is used

database == <<settings, logs, blockNumber, status>>
used == <<faults, hangs, crashes, nulls>>
vars == <<head, database, pc, next, watched, hung, healthy, lost, freshStarts, used>>

Init ==
  /\ head = FirstHead
  /\ settings = None
  /\ logs = {}
  /\ blockNumber = [j \in Job |-> None]
  /\ status = [j \in Job |-> "pending"]
  /\ pc = "down"
  /\ next = FirstHead
  /\ watched = {}
  /\ hung = FALSE
  /\ healthy = FALSE
  /\ lost = {}
  /\ freshStarts = 0
  /\ faults = 0 /\ hangs = 0 /\ crashes = 0 /\ nulls = 0

MineBlock ==
  /\ head < LastBlock
  /\ head' = head + 1
  /\ UNCHANGED <<database, pc, next, watched, hung, healthy, lost, freshStarts, used>>

----------------------------------------------------------------------------
\* The start of a worker.

Jobs == {j \in Job : blockNumber[j] # None}

\* The rows that only the latest loop would have found, of blocks from..to.
OwedByScan(from, to) ==
  {<<j, b>> : j \in Jobs, b \in from..to} \cap
    {r \in Job \X Nat : r[2] \in EventsOf[r[1]] /\ blockNumber[r[1]] < r[2]}

\* Mutant: the checkpoint is not read.
GetBlockToProcess_Head(n) == n \in FirstHead..head

\* getBlockToProcess: the checkpoint, or without one (NULL, or 0, which is falsy
\* too) the block number of the provider.
GetBlockToProcess(n) ==
  IF settings \in {None, 0} THEN n \in FirstHead..head ELSE n = settings

\* main.ts starts the worker when its own process starts, and never again: the
\* process is started by whoever watches /health.  The worker begins at block n.
\* While it is down next still holds what was lost, so that lost can record the
\* rows jumped over.
Start ==
  /\ pc = "down"
  /\ ~healthy
  /\ pc' = "jobs"
  /\ \E n \in (FirstHead..head) \cup ({settings} \ {None}) :
       /\ GetBlockToProcess(n)
       /\ next' = n
       /\ lost' = lost \cup (OwedByScan(next, n - 1) \ logs)
  /\ freshStarts' = IF settings \in {None, 0} THEN freshStarts + 1 ELSE freshStarts
  /\ healthy' = TRUE
  /\ UNCHANGED <<head, database, watched, hung, used>>

\* Mutant: ON CONFLICT DO UPDATE.
InsertJobs_Overwrites(supported) ==
  blockNumber' = [j \in Job |-> IF j \in supported THEN next ELSE blockNumber[j]]

\* insertJobs: one transaction; ON CONFLICT DO NOTHING keeps the old rows.
InsertJobs(supported) ==
  blockNumber' = [j \in Job |->
    IF j \in supported /\ blockNumber[j] = None THEN next ELSE blockNumber[j]]

\* updateNewJobs with what the deployed version of the library supports.
UpdateNewJobs ==
  /\ pc = "jobs"
  /\ \E supported \in SUBSET Job : InsertJobs(supported)
  /\ pc' = "watch"
  /\ UNCHANGED <<head, settings, logs, status, next, watched, hung, healthy, lost,
                 freshStarts, used>>

\* Mutant: the map is built from fetchUnfinishedJobs.
UserIndexMap_Unfinished(w) ==
  /\ w \subseteq {j \in Jobs : status[j] # "completed"}
  /\ \A j \in Jobs : status[j] # "completed" => \E i \in w : KeyOf[i] = KeyOf[j]

\* The map has one entry for each watch key, that of whichever job comes last.
UserIndexMap(w) ==
  /\ w \subseteq Jobs
  /\ \A j \in Jobs : \E i \in w : KeyOf[i] = KeyOf[j]
  /\ \A i, j \in w : KeyOf[i] = KeyOf[j] => i = j

\* The latest loop reads all jobs, once.
FetchAllJobs ==
  /\ pc = "watch"
  /\ \E w \in SUBSET Job : UserIndexMap(w) /\ watched' = w
  /\ pc' = "run"
  /\ UNCHANGED <<head, database, next, hung, healthy, lost, freshStarts, used>>

----------------------------------------------------------------------------
\* An iteration of the latest loop.

\* Mutant: a batch is not limited by the block that the provider reported.
LatestProcessed_PastHead(n) == next + BatchSize - 1

\* latestProcessedBlockNumber, when the provider reported block n.
LatestProcessed(n) ==
  IF n - next > BatchSize THEN next + BatchSize - 1 ELSE next

\* The blocks that an iteration may end with.
Targets == {LatestProcessed(n) : n \in next..head}

RowsRead(to, missed) ==
  {<<j, b>> : j \in watched, b \in (next..to) \ missed} \cap
    {r \in Job \X Nat : r[2] \in EventsOf[r[1]]}

\* The checkpoint is written along with rows, if there are any.
WrittenCheckpoint(to) == {to : r \in RowsRead(to, {})}

\* The blocks up to `to` are read, but for those whose receipts came back null.
\* Their rows and then the checkpoint are written, if there are rows.
LatestIteration ==
  /\ pc = "run"
  /\ next > 0
  /\ \E to \in Targets : \E missed \in SUBSET (next..to) :
       /\ nulls + Cardinality(missed) <= MaxNulls
       /\ nulls' = nulls + Cardinality(missed)
       /\ lost' = lost \cup {r \in OwedByScan(next, to) \ logs : r[2] \in missed}
       /\ logs' = logs \cup RowsRead(to, missed)
       /\ settings' = IF RowsRead(to, missed) = {} THEN settings ELSE to
       /\ next' = to + 1
  /\ healthy' = TRUE
  /\ UNCHANGED <<head, blockNumber, status, pc, watched, hung, freshStarts,
                 faults, hangs, crashes>>

Fault ==
  /\ faults < MaxFaults
  /\ faults' = faults + 1
  /\ UNCHANGED <<hangs, crashes, nulls>>

\* Mutant: the checkpoint goes back and the scan goes on.
GoesBack_ScanGoesOn ==
  settings' = next - BatchSize /\ next' = next + 1

\* processError: the checkpoint and the scan go back by a batch.
GoesBack == settings' = next - BatchSize /\ next' = next - BatchSize

\* The iteration fails at any statement: its rows may be stored and its checkpoint
\* written.  The health message is posted all the same.
LatestIterationFails ==
  /\ pc = "run"
  /\ Fault
  /\ \E to \in Targets :
       /\ logs' \in {logs, logs \cup RowsRead(to, {})}
       /\ \/ GoesBack
          \* The UPDATE of processError fails as well.
          \/ /\ settings' \in {settings, next - BatchSize} \cup WrittenCheckpoint(to)
             /\ UNCHANGED next
  /\ healthy' = TRUE
  /\ UNCHANGED <<head, blockNumber, status, pc, watched, hung, lost, freshStarts>>

----------------------------------------------------------------------------
\* The historic loop, which starts with the latest loop.

Running == pc \in {"watch", "run"}

\* The rows of j up to its block, those that the historic loop has to find.
Historic(j) == {<<j, b>> : b \in {e \in EventsOf[j] : e <= blockNumber[j]}}

\* A group of jobs is scanned up to the newest block among them.  Orphans of a failed
\* batch insert rows as well, whatever the status of their job is by then.
HistoricInserts(j) ==
  /\ Running
  /\ j \in Jobs
  /\ \E b \in EventsOf[j] :
       /\ \E i \in Jobs : b <= blockNumber[i]
       /\ <<j, b>> \notin logs
       /\ logs' = logs \cup {<<j, b>>}
  /\ UNCHANGED <<head, settings, blockNumber, status, pc, next, watched, hung, healthy,
                 lost, freshStarts, used>>

\* A job is completed once its rows are stored.
HistoricCompletes(j) ==
  /\ Running /\ ~hung
  /\ j \in Jobs /\ status[j] # "completed"
  /\ Historic(j) \subseteq logs
  /\ status' = [status EXCEPT ![j] = "completed"]
  /\ UNCHANGED <<head, settings, logs, blockNumber, pc, next, watched, hung, healthy,
                 lost, freshStarts, used>>

HistoricFails(j) ==
  /\ Running /\ ~hung
  /\ j \in Jobs /\ status[j] # "completed"
  /\ Fault
  /\ status' = [status EXCEPT ![j] = "failed"]
  /\ UNCHANGED <<head, settings, logs, blockNumber, pc, next, watched, hung, healthy,
                 lost, freshStarts>>

\* The UPDATE of the status fails, though it may have been applied: the mutex of
\* the table jobs is never released.
HistoricHangs(j) ==
  /\ Running /\ ~hung
  /\ j \in Jobs /\ status[j] # "completed"
  /\ hangs < MaxHangs
  /\ hangs' = hangs + 1
  /\ hung' = TRUE
  /\ \E s \in {status[j]} \cup (IF Historic(j) \subseteq logs THEN {"completed"} ELSE {}) :
       status' = [status EXCEPT ![j] = s]
  /\ UNCHANGED <<head, settings, logs, blockNumber, pc, next, watched, healthy, lost,
                 freshStarts, faults, crashes, nulls>>

----------------------------------------------------------------------------
\* The worker and its parent process.

\* The worker ends: process.exit after an error of any chain, or killed with its
\* process.  An open transaction is lost, but not its UPDATE of the checkpoint,
\* which was sent through the pool.
Crash ==
  /\ pc # "down"
  /\ crashes < MaxCrashes
  /\ crashes' = crashes + 1
  /\ pc' = "down"
  /\ watched' = {}
  /\ hung' = FALSE
  /\ \/ UNCHANGED settings
     \/ /\ pc = "run"
        /\ \E to \in Targets : settings' \in WrittenCheckpoint(to)
  /\ UNCHANGED <<head, logs, blockNumber, status, next, healthy, lost, freshStarts,
                 faults, hangs, nulls>>

\* Mutant: an ended worker counts as healthy.
Expires_WhileRunning ==
  /\ pc = "run"
  /\ healthy
  /\ healthy' = FALSE
  /\ UNCHANGED <<head, database, pc, next, watched, hung, lost, freshStarts, used>>

\* Ten minutes go by without a message: /health answers 500.
Expires ==
  /\ healthy
  /\ healthy' = FALSE
  /\ UNCHANGED <<head, database, pc, next, watched, hung, lost, freshStarts, used>>

----------------------------------------------------------------------------
Starting == Start \/ UpdateNewJobs \/ FetchAllJobs

\* What the historic loop is sure to do: for the jobs not completed yet, insert the rows
\* up to their blocks.  Rows beyond them depend on the group, and orphans may stop.
HistoricStep ==
  \E j \in Job :
    /\ ~hung /\ status[j] # "completed"
    /\ \/ HistoricInserts(j) /\ logs' \ logs \subseteq Historic(j)
       \/ HistoricCompletes(j)

Next ==
  \/ MineBlock
  \/ Starting
  \/ LatestIteration \/ LatestIterationFails
  \/ \E j \in Job : \/ HistoricInserts(j) \/ HistoricCompletes(j)
                    \/ HistoricFails(j) \/ HistoricHangs(j)
  \/ Crash \/ Expires

\* Both loops run, ten minutes pass while no message comes, and the process is
\* started when it is not healthy; nothing is assumed of the failures.
Fairness ==
  /\ WF_vars(Starting)
  /\ WF_vars(pc = "down" /\ Expires)
  /\ WF_vars(LatestIteration)
  /\ WF_vars(HistoricStep)

Spec == Init /\ [][Next]_vars /\ Fairness

----------------------------------------------------------------------------
\* Types are kept; jobs are numbered with blocks of the chain, and the scan is never
\* more than one block past its head.
TypeOK ==
  /\ head \in FirstHead..LastBlock
  /\ settings \in Int \cup {None} /\ (settings # None => settings <= head)
  /\ logs \subseteq Job \X Nat
  /\ blockNumber \in [Job -> Int \cup {None}]
  /\ \A j \in Jobs : blockNumber[j] <= head
  /\ status \in [Job -> {"pending", "failed", "completed"}]
  /\ pc \in {"down", "jobs", "watch", "run"}
  /\ next \in Int /\ next <= head + 1
  /\ watched \subseteq Jobs
  /\ hung \in BOOLEAN /\ healthy \in BOOLEAN
  /\ lost \subseteq Job \X Nat
  /\ freshStarts \in Nat
  /\ faults \in Nat /\ hangs \in Nat /\ crashes \in Nat /\ nulls \in Nat

\* No other job has the contract and the topic0 of j.
OwnKey(j) == \A i \in Job : KeyOf[i] = KeyOf[j] => i = j

\* Between them the loops leave no event out: behind the scan every event of a job
\* is stored, or still to be found by the historic loop, or was passed over by a
\* restart or a null answer; whatever the versions deployed support, and though each
\* job was added at another block and the scan goes back after errors.
NothingMissed ==
  \A j \in Jobs : OwnKey(j) =>
    \A b \in EventsOf[j] : b < next =>
      \/ <<j, b>> \in logs \cup lost
      \/ b <= blockNumber[j] /\ status[j] # "completed"

\* As long as there was a checkpoint to restart from, restarts pass over at most the
\* rest of one batch each.
LossBound ==
  freshStarts <= 1 =>
    Cardinality({r[2] : r \in lost}) <= crashes * (BatchSize - 1) + nulls

Table == INSTANCE JobTable WITH jobs <- Jobs

\* Starts, both loops and their failures implement what the tables promise: a job
\* keeps the block of the start that added it, and rows and completed jobs stay.
RefinesJobTable == Table!Spec

\* A worker that ended is working again in the end, though nothing but /health
\* notices that it ended.
WorkerComesBack == pc = "down" ~> pc = "run"

\* Every event of a job is stored in the end, unless it was passed over or the
\* historic loop hangs (which /health does not show).
EventuallyIndexed ==
  \A j \in Job : OwnKey(j) =>
    \A b \in EventsOf[j] :
      (j \in Jobs /\ b <= head) ~> (<<j, b>> \in logs \cup lost \/ hung)

\* New pools are added with the latest processed block as the reference of both
\* loops: between them they cover every block that the scan has passed.
PoolsCovered ==
  \A j \in Jobs : OwnKey(j) =>
    \A b \in EventsOf[j] : b < next =>
      <<j, b>> \in logs \/ (b <= blockNumber[j] /\ status[j] # "completed")
============================================================================
