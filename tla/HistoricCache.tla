--------------------------- MODULE HistoricCache ---------------------------
(***************************************************************************)
(* The historic loop of packages/workers: it takes a group of unfinished   *)
(* jobs from the database, scans the chain from block 0 for their events   *)
(* in batches of contracts, with several ranges of blocks at a time, and   *)
(* marks the jobs of each batch as completed or failed.                    *)
(*                                                                         *)
(* A range is scanned by a task.  Its generator is the one of FetchEvents, *)
(* taken here at the level of RangeScan: it hands over any part of the     *)
(* blocks that remain.  The row of an event is the pair of its job and its *)
(* block.                                                                  *)
(***************************************************************************)
EXTENDS Integers, FiniteSets, FiniteSetsExt, Functions

CONSTANTS
  Job,          \* rows of the table jobs: a contract, a topic0, a user index
  GroupOf,      \* GroupOf[j]: the topic0 and the user index of j
  BlockOf,      \* BlockOf[j]: block_number, where the job was added
  EventsOf,     \* EventsOf[j]: the blocks with an event of j that parses
  Chunks,       \* MAX_CONCURRENT_BATCHES
  MaxContracts, \* MaxContractsPerCall of the chain
  SmallGroup,   \* 10 * MaxContracts: groups up to this go one by one
  LargeGroup,   \* 100 * MaxContracts: groups from this on go MaxContracts at once
  MaxFaults,    \* bound: failed requests and failed inserts
  MaxStatusFaults,   \* bound: failed transactions on the table jobs
  MaxCrashes    \* bound: ends of the process

ASSUME JobAssumption ==
  /\ IsFiniteSet(Job)
  /\ BlockOf \in [Job -> Nat]
  /\ DOMAIN GroupOf = Job
  /\ DOMAIN EventsOf = Job /\ \A j \in Job : EventsOf[j] \subseteq Nat
ASSUME SizesAssumption ==
  /\ Chunks \in Nat \ {0} /\ MaxContracts \in Nat \ {0}
  /\ SmallGroup \in Nat /\ LargeGroup \in Nat /\ SmallGroup < LargeGroup
ASSUME BoundsAssumption ==
  MaxFaults \in Nat /\ MaxStatusFaults \in Nat /\ MaxCrashes \in Nat

VARIABLES
  status,       \* the column status of the table jobs
  logs,         \* the committed rows of the table logs
  pc,           \* where the loop is; "down" when the process is not running
  group,        \* what getNextPoolGroup returned, less the batches begun
  batch,        \* contractAddresses: the jobs being scanned
  tasks,        \* the concurrent ranges of this batch
  orphans,      \* tasks of a batch that failed, which nothing stops
  jobsMutex,    \* TRUE while #jobsMutex is held
  faults, statusFaults, crashes   \* history: how much of each bound is used

used == <<faults, statusFaults, crashes>>
vars == <<status, logs, pc, group, batch, tasks, orphans, jobsMutex, used>>

Task == 0..(Chunks - 1)
NoGroup == [pools |-> {}, batchSize |-> 1, targetBlockNumber |-> 0]

\* All jobs were added when the process started, and wait to be scanned.
Init ==
  /\ status = [j \in Job |-> "pending"]
  /\ logs = {}
  /\ pc = "select"
  /\ group = NoGroup
  /\ batch = {}
  /\ tasks = <<>>
  /\ orphans = {}
  /\ jobsMutex = FALSE
  /\ faults = 0 /\ statusFaults = 0 /\ crashes = 0

----------------------------------------------------------------------------
\* getNextPoolGroup.

WithStatus(s) == {j \in Job : status[j] = s}
PendingIn(g) == {j \in WithStatus("pending") : GroupOf[j] = g}

\* Mutant: the average without the lower bound of one contract.
BatchSize_NoMinimum(n) ==
  IF n <= SmallGroup THEN 1
  ELSE IF n >= LargeGroup THEN MaxContracts
  ELSE ((n - SmallGroup) * MaxContracts) \div (LargeGroup - SmallGroup)

\* How many contracts of a group of n are scanned together.
BatchSize(n) ==
  IF n <= SmallGroup THEN 1
  ELSE IF n >= LargeGroup THEN MaxContracts
  ELSE Max({1, ((n - SmallGroup) * MaxContracts) \div (LargeGroup - SmallGroup)})

TargetBlock(pools) == Max({BlockOf[j] : j \in pools})

\* The largest group of pending jobs, up to the newest block among them.
SelectPending ==
  /\ pc = "select"
  /\ \E g \in Range(GroupOf) :
       /\ PendingIn(g) # {}
       /\ \A h \in Range(GroupOf) :
            Cardinality(PendingIn(h)) <= Cardinality(PendingIn(g))
       /\ group' = [pools |-> PendingIn(g),
                    batchSize |-> BatchSize(Cardinality(PendingIn(g))),
                    targetBlockNumber |-> TargetBlock(PendingIn(g))]
  /\ pc' = "batch"
  /\ UNCHANGED <<status, logs, batch, tasks, orphans, jobsMutex, used>>

\* Mutant: only pending jobs are read back, so a failed one is never retried.
SelectFailed_PendingOnly ==
  /\ pc = "select"
  /\ WithStatus("pending") = {}
  /\ \E j \in WithStatus("pending") :
       group' = [pools |-> {j}, batchSize |-> 1, targetBlockNumber |-> BlockOf[j]]
  /\ pc' = "batch"
  /\ UNCHANGED <<status, logs, batch, tasks, orphans, jobsMutex, used>>

\* With nothing pending, whichever failed job the database lists first.
SelectFailed ==
  /\ pc = "select"
  /\ WithStatus("pending") = {}
  /\ \E j \in WithStatus("failed") :
       group' = [pools |-> {j}, batchSize |-> 1, targetBlockNumber |-> BlockOf[j]]
  /\ pc' = "batch"
  /\ UNCHANGED <<status, logs, batch, tasks, orphans, jobsMutex, used>>

----------------------------------------------------------------------------
\* One batch of the group.

\* Mutant: the first ranges do not take the remainder.
SplitRange_NoRemainder(to, i) ==
  LET rangeSize == (to + 1) \div Chunks
      start == i * rangeSize + Min({i, (to + 1) % Chunks})
  IN  start..Min({start + rangeSize - 1, to})

\* The i-th of the ranges that splitRange makes of 0..to.
SplitRange(to, i) ==
  LET totalSize == to + 1
      rangeSize == totalSize \div Chunks
      remainder == totalSize % Chunks
      start == i * rangeSize + Min({i, remainder})
      end == start + rangeSize - 1 + (IF i < remainder THEN 1 ELSE 0)
  IN  start..Min({end, to})

NewTask(jobs, blocks) ==
  [jobs |-> jobs, remaining |-> blocks, logsToInsert |-> {}, state |-> "fetch"]

Unfinished(t) == t.state \in {"fetch", "insert"}

\* The tasks that run: those of the batch and those a failed batch left behind.
\* (Two orphans in the same state count as one: they insert the same rows.)
Running == {t \in {tasks[i] : i \in DOMAIN tasks} \cup orphans : Unfinished(t)}

StartBatch ==
  /\ pc = "batch"
  /\ group.pools # {}
  /\ \E jobs \in SUBSET group.pools :
       /\ Cardinality(jobs) = Min({group.batchSize, Cardinality(group.pools)})
       /\ batch' = jobs
       /\ group' = [group EXCEPT !.pools = @ \ jobs]
       /\ tasks' = [i \in Task |->
                     NewTask(jobs, SplitRange(group.targetBlockNumber, i))]
  /\ orphans' = Running
  /\ pc' = "scan"
  /\ UNCHANGED <<status, logs, jobsMutex, used>>

\* The iteration ends; the loop begins another one.
EndGroup ==
  /\ pc = "batch"
  /\ group.pools = {}
  /\ orphans' = Running
  /\ tasks' = <<>>
  /\ batch' = {}
  /\ group' = NoGroup
  /\ pc' = "select"
  /\ UNCHANGED <<status, logs, jobsMutex, used>>

----------------------------------------------------------------------------
\* The tasks.

Fault ==
  /\ faults < MaxFaults
  /\ faults' = faults + 1
  /\ UNCHANGED <<statusFaults, crashes>>

\* Task t becomes u; an orphan that ends is forgotten.
Becomes(t, u) ==
  /\ \/ /\ \E i \in DOMAIN tasks :
             tasks[i] = t /\ tasks' = [tasks EXCEPT ![i] = u]
        /\ UNCHANGED orphans
     \/ /\ t \in orphans
        /\ orphans' = (orphans \ {t}) \cup {v \in {u} : Unfinished(v)}
        /\ UNCHANGED tasks
  /\ UNCHANGED <<status, pc, group, batch, jobsMutex>>

\* The rows of the events of the task's contracts in some blocks.
RowsOf(t, blocks) ==
  UNION {{<<j, b>> : b \in EventsOf[j] \cap blocks} : j \in t.jobs}

\* The generator yields the logs of some of the blocks.
FetchLogs(t) ==
  /\ t.state = "fetch"
  /\ \E blocks \in SUBSET t.remaining :
       /\ blocks # {}
       /\ Becomes(t, [t EXCEPT
            !.remaining = @ \ blocks,
            !.logsToInsert = RowsOf(t, blocks),
            !.state = IF RowsOf(t, blocks) = {} THEN "fetch" ELSE "insert"])
  /\ UNCHANGED <<logs, used>>

\* insertLogs without a block number: one transaction, no checkpoint.
InsertLogs(t) ==
  /\ t.state = "insert"
  /\ logs' = logs \cup t.logsToInsert
  /\ Becomes(t, [t EXCEPT !.logsToInsert = {}, !.state = "fetch"])
  /\ UNCHANGED used

\* The generator has nothing left.
EndTask(t) ==
  /\ t.state = "fetch"
  /\ t.remaining = {}
  /\ Becomes(t, [t EXCEPT !.state = "done"])
  /\ UNCHANGED <<logs, used>>

\* fetchEvents throws; with no block left it may still be asking for a range
\* that ends before it begins.
FetchThrows(t) ==
  /\ t.state = "fetch"
  /\ Fault
  /\ Becomes(t, [t EXCEPT !.state = "failed"])
  /\ UNCHANGED logs

\* insertLogs throws; its COMMIT may have been applied.
InsertThrows(t) ==
  /\ t.state = "insert"
  /\ Fault
  /\ logs' \in {logs, logs \cup t.logsToInsert}
  /\ Becomes(t, [t EXCEPT !.logsToInsert = {}, !.state = "failed"])

----------------------------------------------------------------------------
\* The end of a batch.

\* Mutant: Promise.allSettled, whose outcome nobody reads.
AllDone_Settled ==
  /\ pc = "scan"
  /\ \A i \in DOMAIN tasks : ~Unfinished(tasks[i])
  /\ pc' = "complete"
  /\ UNCHANGED <<status, logs, group, batch, tasks, orphans, jobsMutex, used>>

\* Promise.all resolves when every task is done.
AllDone ==
  /\ pc = "scan"
  /\ \A i \in DOMAIN tasks : tasks[i].state = "done"
  /\ pc' = "complete"
  /\ UNCHANGED <<status, logs, group, batch, tasks, orphans, jobsMutex, used>>

\* It rejects when the first task fails, whatever the others are doing.
AnyFailed ==
  /\ pc = "scan"
  /\ \E i \in DOMAIN tasks : tasks[i].state = "failed"
  /\ pc' = "fail"
  /\ UNCHANGED <<status, logs, group, batch, tasks, orphans, jobsMutex, used>>

SetStatus(s) == [j \in Job |-> IF j \in batch THEN s ELSE status[j]]

StatusFault ==
  /\ statusFaults < MaxStatusFaults
  /\ statusFaults' = statusFaults + 1
  /\ UNCHANGED <<faults, crashes>>

\* updateJobStatus acquires the mutex, updates in a transaction, releases.
MarkCompleted ==
  /\ pc = "complete"
  /\ ~jobsMutex
  /\ status' = SetStatus("completed")
  /\ pc' = "batch"
  /\ UNCHANGED <<logs, group, batch, tasks, orphans, jobsMutex, used>>

\* Mutant: the mutex is released in a finally block, so that the catch block
\* can follow a COMMIT that was applied.
MarkCompletedThrows_Releases ==
  /\ pc = "complete"
  /\ ~jobsMutex
  /\ StatusFault
  /\ status' \in {status, SetStatus("completed")}
  /\ pc' = "fail"
  /\ UNCHANGED <<logs, group, batch, tasks, orphans, jobsMutex>>

\* Its transaction throws (though it may have been applied): release is never
\* called, and the catch block is next.
MarkCompletedThrows ==
  /\ pc = "complete"
  /\ ~jobsMutex
  /\ StatusFault
  /\ status' \in {status, SetStatus("completed")}
  /\ jobsMutex' = TRUE
  /\ pc' = "fail"
  /\ UNCHANGED <<logs, group, batch, tasks, orphans>>

\* The catch block: the same function, so the same mutex.
MarkFailed ==
  /\ pc = "fail"
  /\ ~jobsMutex
  /\ status' = SetStatus("failed")
  /\ pc' = "batch"
  /\ UNCHANGED <<logs, group, batch, tasks, orphans, jobsMutex, used>>

\* A process that ends loses everything but the database.
Stop ==
  /\ pc' = "down"
  /\ group' = NoGroup
  /\ batch' = {}
  /\ tasks' = <<>>
  /\ orphans' = {}
  /\ jobsMutex' = FALSE

\* An error in the catch block ends the process.
MarkFailedThrows ==
  /\ pc = "fail"
  /\ ~jobsMutex
  /\ StatusFault
  /\ status' \in {status, SetStatus("failed")}
  /\ Stop
  /\ UNCHANGED logs

\* So does one of fetchUnfinishedJobs, or of any other chain.
Crash ==
  /\ pc # "down"
  /\ crashes < MaxCrashes
  /\ crashes' = crashes + 1
  /\ Stop
  /\ UNCHANGED <<status, logs, faults, statusFaults>>

Restart ==
  /\ pc = "down"
  /\ pc' = "select"
  /\ UNCHANGED <<status, logs, group, batch, tasks, orphans, jobsMutex, used>>

----------------------------------------------------------------------------
TaskStep == \E t \in Running : FetchLogs(t) \/ InsertLogs(t) \/ EndTask(t)

TaskFailure == \E t \in Running : FetchThrows(t) \/ InsertThrows(t)

Loop ==
  \/ SelectPending \/ SelectFailed \/ StartBatch \/ EndGroup
  \/ AllDone \/ AnyFailed \/ MarkCompleted \/ MarkFailed \/ Restart

Next ==
  Loop \/ TaskStep \/ TaskFailure \/ MarkCompletedThrows \/ MarkFailedThrows \/ Crash

\* The loop and its tasks run (the requests time out, so they all end), and a
\* worker that ended is started again by whoever deploys it; nothing is assumed
\* of the failures.
Fairness == WF_vars(Loop) /\ WF_vars(TaskStep)

Spec == Init /\ [][Next]_vars /\ Fairness

----------------------------------------------------------------------------
\* Every variable keeps its type; the statuses are those the table allows.
TypeOK ==
  /\ status \in [Job -> {"pending", "failed", "completed"}]
  /\ logs \subseteq Job \X Nat
  /\ pc \in {"select", "batch", "scan", "complete", "fail", "down"}
  /\ group \in [pools : SUBSET Job, batchSize : 1..MaxContracts,
                targetBlockNumber : Nat]
  /\ batch \subseteq Job
  /\ jobsMutex \in BOOLEAN

\* A job marked as completed has all its events up to its block in the table,
\* whatever failed, was retried or went on in the background before.
CompletedMeansIndexed ==
  \A j \in WithStatus("completed") :
    \A b \in EventsOf[j] : b <= BlockOf[j] => <<j, b>> \in logs

\* A completed job is never scanned again: no late failure takes it back.
CompletedIsFinal ==
  [][\A j \in Job : status[j] = "completed" => status'[j] = "completed"]_vars

Table == INSTANCE JobTable WITH jobs <- Job, blockNumber <- BlockOf

\* The loop, with all it leaves running, retries and does twice, implements what the
\* tables promise: rows are events and stay, and updateJobStatus writes "completed"
\* once, when the rows of the job are there.
RefinesJobTable == Table!Spec

\* Every job is completed in the end.
EveryJobCompletes == <>[](WithStatus("completed") = Job)

\* When an error occurs the jobs of the batch are marked as failed: the loop
\* does not stay in the catch block.
ErrorsAreMarked == (pc = "fail") ~> (pc # "fail")
============================================================================
