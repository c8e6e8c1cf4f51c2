# A formal model of the DeFi adapters indexer

This directory holds TLA+ specifications of the program in this repository, TLC
configurations that model-check them on small instances, and theorems about
them with proofs checked by TLAPS.

## 1. The system and its parts

The repository finds the DeFi positions of a blockchain address. Finding them
cheaply depends on an index: for each user, the contracts whose events ever
named that user. `packages/workers` builds the index in PostgreSQL, one database
per chain; `packages/adapters-library` reads it and asks the chain about the
contracts it names; the API, the CLI and the UI are front ends of the library.

| part | state | operations | what makes it correct |
| --- | --- | --- | --- |
| latest cache (`workers/src/cache/build-latest-cache.ts`) | next block, last known head; `settings.latest_block_processed` | wait for a block, process one or a batch, store rows and checkpoint, go back on an error | no block on the path of the scan is passed over; each is stored in the end |
| historic cache (`build-historic-cache.ts`, `get-next-pool-group.ts`) | table `jobs`, the group, the batch and its concurrent ranges | choose a group, split the blocks, scan, mark completed or failed | a completed job has all its rows; every job is completed in the end |
| event fetching (`fetch-events.ts`) | queue of ranges, local to a generator | request, split, yield, throw | exactly the range asked for, each block once, and an end |
| database client (`workers/src/database/postgres-cache-client.ts`) | connection pool, two mutexes | transactions on `logs`, `jobs`, `settings` | what is written together is seen together; a mutex is given back |
| worker process (`main.ts`, `main-worker.ts`, `runner-loop.ts`) | one thread that runs two loops for each chain | pick the first block, add jobs, run | a restart loses nothing |
| job creation (`update-new-jobs.ts`) | rows of `jobs` | insert with the block number of this start | blocks up to that number belong to the historic scan, the others to the latest |
| health API (`api/build-api.ts`) | when each chain last reported | `/health` | a worker that ended is seen |
| multicall queue (`adapters-library/src/core/provider/MulticallQueue.ts`) | queued calls, a timer | queue, flush, settle | each queued call is settled, once |
| provider (`CustomJsonRpcProvider.ts`, `retryHandlerFactory.ts`) | caches of promises | call with timeout and retries | answers are fresh, requests are shared, every call ends in time |
| unwrapping and prices (`unwrap.ts`, `unwrapCache.ts`, `propagatePrice.ts`) | cache of promises, tokens seen | follow underlying tokens | recursion ends; no price is that of a part |
| position queries (`defiProvider.ts`, `adaptersController.ts`) | adapters by chain, shared promises | detect pools, run adapters, collect | one adapter's failure is only its own |
| metadata database (`SQLiteMetadataProvider.ts`) | read-only SQLite | lookups | - |
| protocol adapters (966 files) | none of their own | contract calls, arithmetic | - |
| CLI, HTTP API, UI | files, requests, views | - | - |

How they interact: on a start, the worker reads the checkpoint (or, without one,
the head of the chain), inserts the jobs that are new with that block number, and
runs the two loops for ever. They share the process, the pool of connections and
the table `logs`: the historic loop covers a job from block 0 to its
`block_number`, the latest loop all jobs from the starting block on. The worker
reports each processed block to the main thread, which serves `/health`. An error
that leaves either loop of any chain ends the worker for all chains
(`process.exit(1)` in the thread); the main thread does not start another one.

A query for positions (`DefiProvider.getPositions`) asks the index for the user's
pools on every chain and runs each adapter as a task of its own. A task fetches
the positions of its adapter and unwraps their tokens recursively. All tasks of
all queries share the map of token adapters and the cache of rates and prices,
and their contract calls go through one multicall queue and one provider for each
chain.

Behaviour that is hard to test: the two statements of a transaction that are in
fact two transactions; failures of which only the answer is lost; tasks left
running by a rejected `Promise.all`; a mutex that is not released on an error;
restarts between any two of these, with jobs added by each; promises that are
shared before they settle, and kept when they fail; tokens that lead back to
themselves. `PROJECT.json` lists each hazard at its line.

## 2. Modules

```
packages/workers                                    packages/adapters-library

Indexer        both loops, jobs, restarts           Positions       queries, tasks, tokens
  |      \  takes as steps what these show            (its caches are promises of the kind of)
LatestCache   HistoricCache                         ProviderCache   requests, retries, caches
                |  takes from its tasks what
              RangeScan  <- refined by - FetchEvents  MulticallQueue  calls sent together

JobTable      <- refined by - HistoricCache, Indexer
```

`XProofs` holds the theorems of module `X` (`PriceProofs` those about the prices of
`Positions`), `MCX` the small instances that TLC checks. There are two abstract
specifications and three refinements. `FetchEvents` implements `RangeScan`, which
is what `HistoricCache` takes its answers to be. `HistoricCache` and `Indexer` both
implement `JobTable`: `Indexer` takes the historic loop at the grain of what it does
to the database, a job at a time, and `HistoricCache` shows, range by range, that the
loop does no more than that. For the latest loop there is no common abstraction:
`Indexer` takes an iteration as one step, and what happens between its statements is
shown by `LatestCache` alone.

### LatestCache

One iteration of `buildLatestCache` is a walk of `pc`:

| pc | code | action |
| --- | --- | --- |
| `down` | the worker does not run; `getBlockToProcess` | `StartFresh`, `StartResume` |
| `wait` | `waitForBlock` | `WaitForBlock` |
| `fetch` | receipts of the block or the batch, `BEGIN`, `INSERT` | `ProcessBlocks` |
| `checkpoint` | `updateLatestBlockProcessed` inside `insertLogs` | `UpdateCheckpoint` |
| `commit` | `COMMIT` | `Commit` |
| `rollback` | `processError` | `Rollback`, `RollbackFails` |

`settings` and `logs` are the database and survive a `Crash`; `next`, `latest`
and `pending` are the process. `pending` is the open transaction. The checkpoint
is an action of its own because the code sends it through the pool and not
through the connection of the transaction; this is the fact on which the
properties turn. `FetchFails`, `CheckpointFails` and `CommitFails` are the
errors of each statement; a write that reports an error may or may not have been
applied. `waitForBlock` polls for ever and is one step, taken when some node's
answer has reached the target; while waiting nothing else of this loop happens.
The receipts of a block are abstracted to the rows they parse to (`RowsOf`), and a null
answer to no rows, as `receipts?.flat() || []` does. The variables `origin`,
`skipped`, `faults`, `crashes` and `nulls` record history and guard nothing but
the bounds.

Below block 1 the conversion of the block number breaks and every attempt fails.
The guard `next > 0` of `ProcessBlocks` models it: from there only failures are
possible. The configurations start the chain more than
`MaxFaults * BatchSize` blocks up, so their runs do not get there.

### FetchEvents and RangeScan

`FetchEvents` is the generator: its queue, the request for its head, and one
action for each way the answer is dealt with. The provider is described by what
the error codes say: `Limit` blocks at most in a request (-32602, -32062), and
`Dense` blocks whose events are too many to return (-32005). A provider may
answer with either error when both apply. `MaxFaults` bounds timeouts, server
errors and others, which can hit any request, one for a single block included.
Taking a range from the queue and its answer are one step as nobody else sees
the queue. `RangeScan` is what a caller counts on, and the refinement maps its
`remaining` to the blocks not yet yielded.

### JobTable

What the tables `jobs` and `logs` promise to those who read them, and nothing about
how: `insertJobs` adds rows and moves the block of none that is there;
`insertLogs` adds events; `updateJobStatus` settles jobs that are not completed,
and writes `completed` only when the rows up to the job's
block are there. In `HistoricCache` all jobs are there from the start, so `jobs` is
`Job` and `blockNumber` is `BlockOf`; in `Indexer` they are the jobs added so far. Both read
and write `status` and `logs` themselves. It has no fairness: that a job is completed
in the end depends on the loop.

### HistoricCache

`status` and `logs` are the database. `SelectPending`/`SelectFailed` are
`getNextPoolGroup`; `StartBatch` takes the next contracts and creates the
concurrent ranges by `splitRange`; `FetchLogs`, `InsertLogs`, `EndTask` and
their failures are the steps of one range, with `fetchEvents` at the level of
`RangeScan`; `AllDone` and `AnyFailed` are the two outcomes of `Promise.all`;
the `Mark...` actions are `updateJobStatus` in the two places it is called.

Three things are there because the code does them. A rejected `Promise.all` does
not stop the other ranges: they move to `orphans` and go on inserting,
whatever the loop does meanwhile. `jobsMutex` is taken by `updateJobStatus` and
given back only when its transaction succeeds. A failed transaction may have
been applied.

Rows are pairs of a job and a block: finer than the table, whose rows are pairs
of a user and a contract, so a row that is missing here may be present there
thanks to another event, never the reverse. A batch is any subset of the group
of the right size, as the order of a `SELECT` without `ORDER BY` is the
database's. Inserting no rows is skipped, as in the code. Jobs are all added
before the model starts; `Indexer` has those added later.

### MulticallQueue

The queue by which the library sends contract calls together. A handler runs up
to its next `await` without interruption, so `queueCall` with the synchronous
part of the `_flush` it may start is one action: `QueueFills` when the call fills
the batch of its tag, `QueueCall` otherwise. `TimerFires` is the timer's
callback. `flushes` holds what each running `_flush` has left, the first batch
of it being the request it awaits; several can run at once. `Answered` settles
promises by position, as the code does; `RequestFails` and `ShortAnswer` reject
the batch and end the flush. `dropped` records the calls such a flush leaves
behind. There is nothing above the queue that would try again: the retries of
`CustomJsonRpcProvider.call` are bypassed by the override in
`CustomMulticallJsonRpcProvider`.

### ProviderCache

`call` and `getLogs` are the same program under two sets of keys, so a caller is
an invocation of either. A caller runs up to its next `await` in one action
(`Call`), and on from there (`Resume`) when what it waits for has settled. What
the code keeps under a key is the promise of the `callHandler` of whoever made
it: `cache[k]` names that caller, `entry[c]` is its promise with the attempt
under way. `TimedOut` is the timer of `retryHandler`, which tries again or throws;
`Answer` and `Error` settle the attempt under way, and answers of attempts that
timed out change nothing. `readAt` records when the node read what it answered,
any time since the attempt began.

The clock moves (`Tick`) only when no microtask is left to run and no timer is
more than `Lag` late: that is the event loop. Counters of log requests are left out.

### Indexer

One chain of the worker as a whole. `Start` is `getBlockToProcess` in a process
that someone started; `UpdateNewJobs` inserts the jobs of any subset of `Job`,
since each start may be that of another version of the library, with the block
number of this start; `FetchAllJobs` builds `userIndexMap`, in which of two jobs
with one watch key the last row wins, whichever that is. Then both loops run:
`LatestIteration` with `LatestIterationFails`, and `HistoricInserts`,
`HistoricCompletes`, `HistoricFails`, `HistoricHangs` for a job at a time. A
group is scanned up to its newest job, so the historic loop may insert rows after
the block of a job, too.

`Crash` ends the worker at any point, between the checkpoint and the `COMMIT` as
well. `healthy` is `/health` for this chain: a message of the latest loop, posted
after each iteration, failed ones included, sets it, and ten minutes without one
clear it (`Expires`). `lost` and `freshStarts` record history.

### Positions

A task is one run of `runTaskForAdapter`, and a query the call of `getPositions` it belongs
to. `Detect` is the detection on all chains of the query, which fails or answers
for each chain on its own; `FetchPositions` is the runner up to `unwrap`, with the
answers of the adapter for positions and rewards taken as one. A call of
`unwrapToken` is a frame, named by the path of tokens from the position to its
own, as `tokensSeen` is: `FindAdapter` awaits the map of token adapters and then
looks into the cache, `AnswerDirect` is the call with a block number, which never
touches the cache, `AnswerCached` and `AnswerFetched` go on with a promise of
`fetchWithCache`. Frames of a task that has failed go on, as their promises do.

`cache[k]` is the list of all promises made for a token, of which the last one is
the entry of the map: callers that find an entry expired at the same time each
make one. A call of a contract goes through the multicall queue unless the
configuration turns it off (`config.ts:90`), with no timeout around it, and may be one that queue drops
(`multicall_dropped`). So each call of an adapter, of a fetcher of rates or prices, and of what
builds the map of token adapters may stay unanswered for ever: `AdapterUnanswered`, and
the outcome `"unanswered"` of `BuildProtocolTokens`, `Settle` and `AnswerDirect`. Such
calls share the budget of failed ones (`MaxFailures`). The promise that waits for one stays in
its cache, and with it every later frame for that token. An adapter's rate can be unable (the two errors `unwrap` forgives) or
fail; a price that fails, or is 0, reads as no price. `PropagatePrice` is the
recursion over the tokens of an answer, with amounts abstracted to whether a price
is known. It is a recursive function over paths and is checked against a
reference that looks at the ends of all paths at once.

Left out: Solana addresses (no detection, no filter), `DefiProvider.unwrap` and
`getSupport`, and the answers dropped because they have no tokens.

## 3. Runs

| run | instance | checks |
| --- | --- | --- |
| `latest` | batches of 2, head 5 to 8, 2 failures, 1 crash, 1 null | `TypeOK`, `NoGap`, `LossBound`, `EventuallyIndexed` |
| `latest_ahead` | batches of 3, no failure | `CheckpointCoversLogs`, violated |
| `fetch` | all ranges within 0..7, also empty ones; at most 2 blocks a request, one dense block, 3 failures | `TypeOK`, `NothingLost`, `DeliveredOnce`, `RequestsRunOut`, `Terminates`, `RefinesRangeScan` |
| `historic` | 3 jobs in 2 groups, 2 ranges, 2 failed requests or inserts, 1 failed status update, 1 crash | `RefinesJobTable`, `CompletedMeansIndexed`, `CompletedIsFinal` |
| `historic_live` | the same jobs, thresholds 1 and 4, 1 failure, 1 crash | `TypeOK`, `EveryJobCompletes` |
| `historic_mutex` | the same jobs, 1 failed status update | `ErrorsAreMarked`, violated |
| `multicall` | 3 calls at one tag and 2 at another, batches of 2, 2 failing requests | `TypeOK`, `InOnePlace`, `TimerCoversQueue`, `OwnAnswer`, `DroppedBehindOtherTag`, `SettledOrDropped` |
| `multicall_dropped` | the same calls, 1 failing request | `EveryCallSettles`, violated |
| `provider_cache` | 3 callers of one request until time 4, answers live 2, attempts take 1, one retry | `TypeOK`, `AnswerFresh`, `RequestedOnce`, `SettledInTime`, `FailureIsKept`, `EveryCallSettles` |
| `indexer` | 2 jobs with events at 2 and 5, and at 4; deployed at block 3, head up to 6, batches of 2, 1 failure, 1 hang, 1 crash | `TypeOK`, `NothingMissed`, `LossBound`, `RefinesJobTable`, `WorkerComesBack`, `EventuallyIndexed` |
| `indexer_gap` | 3 jobs, two with one watch key, 1 crash and nothing else | `PoolsCovered`, violated |
| `positions` | 3 tasks of 2 queries, 2 adapters on 2 chains, one chain at a block number, 4 tokens with a cycle, 1 call that fails or is never answered, answers live 1 | `TypeOK`, `RequestsAreShared`, `NothingOmitted`, `FailureHasCause`, `WaitsForSomething`, `PriceIsWhole`, `EndsUnlessUnanswered` |

Deadlock is not checked: the chain stops growing at `LastBlock`, `fetchEvents`
returns, the historic loop only sleeps when all jobs are completed, callers
stop calling, and tasks end.

**Latest cache.** `NoGap`: failures alone, at any statement, never leave a hole
behind the scan. The early checkpoint does no harm to a process that stays
alive, because `processError` goes back a whole batch. `LossBound`: what the early
checkpoint costs is bounded: each crash at most `BatchSize - 1` blocks, each
null answer one block. `CheckpointCoversLogs` is the property a transaction would
have given; it holds with batches of one, where the restart scans the block of
the checkpoint again (theorem `SingleBlockCoversLogs`), and fails with batches. `latest_ahead` needs no failure to
show it: the state after `UpdateCheckpoint` is the counterexample, and a worker
that ends there loses rows for good.

**Event fetching.** Splitting yields each block of the range once, never leaves
the range, and ends. On termination: an error on a single block splits it into
itself and an empty range, so while the provider keeps failing the queue grows;
the run shows that the generator recovers from any such burst. `RequestsRunOut`
says how fast: each request, answered or refused, lowers the number that can still
follow. That number is no more than twice the blocks not yet yielded, less twice the
ranges in the queue that have a block, plus the length of the queue and two for each
fault to come: a split of a range with two blocks or more adds a range and a first
block, and a split of a shorter one happens only on a fault. A scan of `n` blocks thus takes at most `2n - 1`
requests, and two more for each fault. If too many events in one block were split too, as a timeout is
(mutant `SplitTooManyEvents_OneBlock`), it would not end.

**Historic cache.** `CompletedMeansIndexed` holds in all interleavings of ranges,
orphans and retries. `CompletedIsFinal` holds too, but for a reason worth
knowing: when marking a batch as completed reports an error although it was
applied, it is only the mutex that was never released that keeps the
catch block from marking the completed jobs as failed. Releasing the mutex in a
`finally` block, the obvious repair of the second finding below, breaks this property
(mutant `MarkCompletedThrows_Releases`); the harm would be another scan.
`EveryJobCompletes` holds without failed status updates, and `historic_mutex`
shows what one of them does. `RefinesJobTable` is the loop seen from outside: rows
that are events and stay, and `completed` written only over rows that are there.
If `Promise.all` waited for all ranges without looking at their outcome
(mutant `AllDone_Settled`), a failed range would be marked as completed.

**Multicall queue.** A call is in one place at any time, so it is sent once; a
queue with calls has a timer, whichever of timer and full batch comes first; the
length check is what keeps a short answer from handing a caller another one's
data (mutant `ShortAnswer_Unchecked`). Every call is settled or dropped, and a
call is dropped only behind a failing request of another block tag.

**Provider.** A request in flight is shared, and sent again only when an answer to
it has expired, by each of those that found it expired. An answer may be older
than the thirty minutes by the time of one attempt, no more (`AnswerFresh`): the
entry is stamped when the answer arrives, while its age is measured before it is
awaited. `SettledInTime` is not obvious either: a caller that waits for another's
entry and must then send the request itself could wait twice as long; it never
does, since an entry can only be too old if it was settled at the call.
`FailureIsKept` states what the code does with failures: nothing ever replaces them.

**Indexer.** `NothingMissed` is the point of the indexer: the historic scan ends at
the block at which a job was added, the latest scan goes on from there, and
between them there is no gap, though jobs are added at different blocks, the
scan goes back, and the job table is read once. It claims this for
jobs that have a watch key of their own (`OwnKey`); of two jobs with one contract
and topic0 only one is watched, and the events of the other after its block are
not found. What restarts pass over is recorded in `lost`, and `LossBound` bounds
it as long as there is a checkpoint to restart from. Without one the loss is
unbounded: `indexer_gap`. `WorkerComesBack`: although nothing in the program
starts a worker again, one that ended, at any point of its start too, shows as
unhealthy in the end. A historic loop that hangs never does; `EventuallyIndexed`
excludes it by name. `RefinesJobTable` adds what a later start may not do: move
the block of a job that is there, which would leave a completed job with a block that its scan
never reached (mutant `InsertJobs_Overwrites`, an upsert in place of
`ON CONFLICT DO NOTHING`).

**Positions.** `NothingOmitted` and `FailureHasCause` say that one part's failure
stays its own: a failed detection costs the pools of its chain, a failed call the
tasks with that token on a path. The second is wider than it looks, since the
caches keep failures: the task that fails may have asked long after. A
failure while the map of token adapters is built fails every task for the life of
the process; the property allows it, as the code does. `TypeOK` holds the
argument that recursion ends: no path repeats a token (mutant `Unseen_All`).
`EndsUnlessUnanswered`: every task ends, unless a call is never answered and the task
itself waits for it, for its own positions, for a token on a path of its own, or for the
map of token adapters. As a pending promise is shared and has no expiry, that may be a
call of another task, of another query, made long before; nothing in the library ever
gives such a call up. A query awaits all of its tasks, so the answer of one with a
task like this never comes, though its other tasks end.
`WaitsForSomething` is what it says without fairness: a call of
`unwrapToken` that waits does so for a map someone is building or a promise someone asked for,
a task that goes on has no call that threw, and a task that is done has none that
waits. An error that is caught and forgotten on the way up (mutant
`Throws_Swallowed`) would leave the task waiting.
`PriceIsWhole`: a token has a price if and only if every token at the bottom of it has.

Why small instances are enough to be useful: a batch of 2 has a first and a last
block (3 in `latest_ahead`, with a middle one), and the chain is long enough for a
batch, the switch to single blocks and a rollback across the two; the second failure
makes the rollback itself fail, or repeats it; every fourth block has no rows, so both
paths of `ProcessBlocks` occur with and without batching. Ranges of 8 blocks
with requests of 2 split three times. Three jobs give a group of two and one of one, batches
of one and two, and target blocks that are and are not multiples of the number of
ranges, one (0) smaller than it. Five calls at two tags make full batches, two flushes
at once, and flushes of one and of both tags in either order. Callers around an
expiry of 2 arrive before it, at it and after it, with both attempts of a request
still running or failed. An event before, at or after the block of a job, with
two starts and a scan that goes back, is every case of who must find it. Four
tokens hold a position that comes with an underlying token, which leads to a priced
token and back, and a position without any. The theorems below lift the safety properties
from these instances to all values of the constants.

Every property of a passing run has a mutant in `PROJECT.json`: a plausible bug
in one definition which makes TLC report it.

### Findings

1. `postgres-cache-client.ts:305` (run `latest_ahead`). The checkpoint is written
   inside `#bulkTransaction` but not in the transaction, against the comment on
   that method ("Use when there is a need to run multiple queries in a single
   transaction.").
2. `postgres-cache-client.ts:214` (run `historic_mutex`). `updateJobStatus` keeps
   the mutex when its transaction throws; its caller then waits for it for ever,
   where `build-historic-cache.ts:29` says "If an error occurs, mark the jobs as
   failed."
3. `MulticallQueue.ts:187` and `:216` (run `multicall_dropped`). `_flush` returns
   at the first block tag that fails; the calls of the tags after it have left the
   queue and are never settled, against "reject all to be on safe side" (`:193`).
4. `main-worker.ts:88` (run `indexer_gap`). On a new chain there is no checkpoint
   until the first row is stored. A restart before that begins at a newer head,
   while the jobs keep the block of the first start as the end of their historic
   scan: events between the two are read by neither loop. `workers/README.md:31`
   says new pools use "the latest processed block as reference for the two cache
   processes".

## 4. Fairness

- `LatestCache`: weak fairness of the scanner as a whole. The loop is
  `while (true)`, its requests time out (`withTimeout`), and an error leads back
  to the loop. Starting again after a crash is part of it: no code of this
  repository does that, whoever runs the worker does, on the word of `/health`.
  The chain, failures and crashes are not assumed to happen.
- `FetchEvents`: weak fairness of `Next`: requests end by an answer or a timeout,
  and `for await` asks for the next value.
- `HistoricCache`: weak fairness of the loop, and of the tasks together. Tasks
  need no fairness of their own as each has finitely many steps.

- `MulticallQueue`: the timer fires and requests end. Callers need not call.
- `ProviderCache`: time passes, timers fire, microtasks run. The node need never
  answer: the timers alone settle every call.
- `Indexer`: both loops run (their requests time out), ten minutes pass while
  no message comes, and the process is started when `/health` says unhealthy, which is
  what the endpoint is for. Of the historic loop only the inserts it owes are assumed
  (`HistoricStep`: rows of jobs not completed, up to their blocks); rows beyond those, and rows that
  orphans insert, may come or not. Failures, crashes and new blocks are not assumed.
- `Positions`: of each call it comes to be known that it is answered, by a value or an
  error, or that it never will be: weak fairness of `CacheStep` and `TaskStep` takes one of
  these outcomes, none in particular, so nothing assumes an answer that the multicall queue
  may withhold. The event loop goes on with each answer. The detection is assumed to
  answer: it is a function that the application gives to `DefiProvider`, in this
  repository a query of the database, and no contract call.

Failures, crashes and null answers are bounded (`MaxFaults`, `MaxStatusFaults`,
`MaxCrashes`, `MaxNulls`), so liveness means: once they stop.

## 5. Proofs

The proofs are for every value of the constants that the named assumptions of a
module allow: any chain, batch size, set of jobs, number of ranges, and any
number of failures.

- `LatestCacheProofs`. The inductive invariant `IInv` relates the scan to the
  table: every block behind the scan is stored or was recorded as skipped
  (`ScannedIsStored`), the open transaction holds the logs of the batch fetched
  (`TransactionHoldsBatch`), and the checkpoint leads the scan by less than a
  batch (`CheckpointLead`), so that a crash skips at most `BatchSize - 1` blocks.
  `NoGap` and `LossBound` are not inductive by themselves: neither says where
  the checkpoint is. Theorems `TypeCorrect`, `NoGapHolds`, `LossBoundHolds`.
- `FetchEventsProofs`. The invariant is that the queued ranges are disjoint from
  each other and from what was yielded, lie inside the call, and together with
  it make up the call; the lemma about `Halves` carries the arithmetic. Theorems
  `TypeCorrect`, `NothingLostHolds`, `DeliveredOnceHolds`, and `Refinement`
  (`Spec => Scan!Spec`). For `RequestsRunOutHolds` the ranges with a block are
  counted by their first blocks (`FirstBlocks`), which are as many as these ranges since they are
  disjoint, and a second invariant (`Progress`) ties the number of other, empty, ranges to the
  faults that made them. `QueueIsBounded` follows from it: the queue is never longer than
  the call has blocks, but for one range for each fault and the one of an empty call.
- `HistoricCacheProofs`. The invariant says of each running task that what it was
  given is either still to be fetched, waiting to be inserted, or in the table,
  and that the ranges of a batch cover 0 to the target. The lemmas `SplitCovers`
  and `TargetCovers` are the arithmetic of `splitRange` for every number of
  chunks, `BatchSizeInRange` that of the batch size. Theorems `TypeCorrect`,
  `CompletedMeansIndexedHolds`, `CompletedIsFinalHolds` (by a second invariant:
  a batch in progress has no completed job unless the mutex is lost), and
  `ImplementsJobTable`. The refinement needs that what a task has fetched are events
  of jobs, an orphan's too, and that no job of a batch in progress is completed; then each of
  the loop's actions is a step of `JobTable` or changes nothing of it.
  `MutexIsHeldInCatch` and `CatchBlockIsStuck` say of every instance what
  `historic_mutex` shows on one: the mutex is held only in the catch block, and
  from there no step writes a status or leaves, except a crash.
- `MulticallQueueProofs`. The invariant is that each queue is well formed (one
  batch for a tag, no call twice, no batch empty), that no two queues share a
  call, and that the calls in queues are those that wait and were not dropped.
  Theorems `TypeCorrect`, `InOnePlaceHolds`, `TimerCoversQueueHolds`,
  `OwnAnswerHolds`, `DroppedBehindOtherTagHolds`. From the same invariant,
  `NobodyIsForgotten`: when no timer is set and no flush runs, whoever still waits was
  dropped, which is `SettledOrDropped` without its fairness; `OneTagSettlesAll`:
  with one block tag nobody is dropped; `SettledForGoodHolds`: no promise is
  settled twice.
- `ProviderCacheProofs`. The invariant ties callers, cache and entries to each other
  (`Links`: an entry is awaited only under its own key), dates them (`Clock`,
  `RetriesInTime`: each retry starts at most one attempt after the one before), and
  says that a caller which finds its entry too old found it settled, so that no
  time has passed since its call (`ExpiredAtOnce`); without that, `SettledInTime`
  would allow only twice the time. Theorems `TypeCorrect`, `AnswersAreFresh`,
  `RequestsAreShared`, `CallsSettleInTime`, `FailuresAreKept`.
- `IndexerProofs`. `NothingMissed` needs to know that a completed job has its rows
  (`CompletedIsStored`) and that the latest loop watches every job with a key of
  its own (`AllWatched`); `Lifecycle` says that the checkpoint leads the scan by less
  than a batch. `LossBound` follows from a second invariant, `LossAccounted`, in
  which the restart still to come after a crash is counted apart. Theorems
  `TypeCorrect`, `NothingMissedHolds`, `LossBoundHolds`, `ImplementsJobTable`
  (step by step, as the steps of the historic loop are as coarse here as those of
  the table), and
  `PoolsCoveredWithoutLoss`: `PoolsCovered`, which `indexer_gap` violates, does hold as
  long as there was at most one start without a checkpoint, no null answer, and either no
  crash or batches of one.
- `PositionsProofs`. The invariant says that a frame waits for a promise of the
  last token of its path, that promises once settled never change (`Later`), so
  that a rejection that failed a task is still there to be named as its cause, and
  that what a task left out was left out for its own chain from the moment it
  fetched. `PathGrows` is the argument that paths stay free of repetition.
  Theorems `TypeCorrect`, `RequestsShared`, `PoolsNotOmitted`,
  `FailuresHaveCauses`, `NobodyWaitsForNothing` (by a second invariant about the map and
  the promises awaited) and, for finitely many tokens, `RecursionIsBounded`: a
  path that repeats no token is no longer than there are tokens.
- `PriceProofs`. `PricesAreWhole` compares a recursive function over paths with a
  statement about the ends of all paths. Its invariant says that the calls of a task are
  a tree (`TreeOK`: each hangs under the one before it, which has gone on to it) of
  finite depth (`DepthOK`). The library's theorem that a recursive function
  satisfies its own equation takes an operator as a parameter, so the proof goes
  another way: the statement about the ends of paths solves the equation of the
  recursion (`WholeIsPropagated`), so the function is a solution too, and there is only
  one (`PropagatedOnce`: of two, take a deepest path at which they differ).

The assumptions are those of the modules: constants have their types, bounds are naturals.
`NoneAssumption` of `Positions` adds that the value `None` is no set of tokens or
chains, which the code's `undefined` is not either.

`LatestCacheProofs` also proves `SingleBlockCoversLogs`: with batches of one and no
null answer the database never has a checkpoint ahead of its rows.

Only model-checked: the liveness properties (`EventuallyIndexed`, `Terminates`,
`EveryJobCompletes`, `SettledOrDropped`, `WorkerComesBack`, `EveryCallSettles` of
`ProviderCache` and `EndsUnlessUnanswered`), as fairness and `ENABLED` are out of the prover's
reach. Of three of them the safety core is proved: `RequestsRunOutHolds` for `Terminates`,
`NobodyIsForgotten` for `SettledOrDropped`, `NobodyWaitsForNothing` for `EndsUnlessUnanswered`; what
remains for TLC is that something happens at all. Every invariant and every action property that a
passing run checks is a theorem.

## 6. Not modelled

- The protocol adapters: 966 files of contract calls and arithmetic for one protocol
  each, most of it generated bindings. They keep no state and meet the rest only
  through `getPositions`, `unwrap` and `getProtocolTokens`, whose answers and
  errors `Positions` takes as arbitrary. This is nearly all of the repository's
  text, and the reason why the modelled lines are a small share of it.
- Log parsing and `buildTokenEventMappings`: pure functions from ABI data to rows
  and jobs, abstracted to constants. A stale or foreign ABI is thus out of the
  models' reach (see the hazards without a property).
- DDL and migrations, the metadata database and the CLI, which a developer runs by
  hand, one at a time; the HTTP API and the UI, which keep no state.
- `DefiProvider.unwrap` and `getSupport`, Solana, block numbers below 1, and the
  connections of the pool: `insertLogs` holds one while its checkpoint takes a
  second, but its mutex admits one holder, so ten are enough.

What would come next: the event definitions of jobs, so that a group or a watch
key shared by two of them could parse with the wrong one; the composition of
`Positions` with `ProviderCache`, two caches whose kept failures add up; an error
that never stops, for the order in which failed jobs are retried.
