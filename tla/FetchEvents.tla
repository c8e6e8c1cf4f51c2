---------------------------- MODULE FetchEvents ----------------------------
(***************************************************************************)
(* The generator fetchEvents of packages/workers: it asks the provider for *)
(* the events of a range of blocks and, when the provider refuses or times *)
(* out, splits the range in two and queues both halves.                    *)
(*                                                                         *)
(* The queue is local to the generator, so taking a range from it and the  *)
(* answer to the request for it are one step.                              *)
(***************************************************************************)
EXTENDS Integers, Sequences, FiniteSets

CONSTANTS
  MaxBlock,    \* bound: the ranges scanned lie in 0..MaxBlock
  Limit,       \* the provider refuses requests for more blocks than this
  Dense,       \* blocks with more events than the provider returns at once
  MaxFaults    \* bound: requests that time out or fail in the provider

ASSUME MaxBlockAssumption == MaxBlock \in Nat
ASSUME LimitAssumption == Limit \in Nat \ {0}
ASSUME DenseAssumption == Dense \subseteq 0..MaxBlock
ASSUME FaultsAssumption == MaxFaults \in Nat

VARIABLES
  fromBlock, toBlock,   \* the range asked for
  ranges,               \* the queue of ranges still to be requested
  delivered,            \* history: the blocks whose events were yielded
  status,               \* "running", "done", or "failed" after a throw
  faults                \* history: how much of MaxFaults is used

vars == <<fromBlock, toBlock, ranges, delivered, status, faults>>

BlockRange == [fromBlock : Int, toBlock : Int]

\* The blocks of a range.  Splitting a range of one block leaves a second half
\* that ends before it begins, and so do the chunks of splitRange when there
\* are fewer blocks than chunks.
BlocksOf(b) == b.fromBlock..b.toBlock

\* A call of fetchEvents, possibly for one of those empty ranges.
Init ==
  /\ fromBlock \in 0..MaxBlock
  /\ toBlock \in (fromBlock - 1)..MaxBlock
  /\ ranges = <<[fromBlock |-> fromBlock, toBlock |-> toBlock]>>
  /\ delivered = {}
  /\ status = "running"
  /\ faults = 0

\* The request under way is for the range at the head of the queue.
Requesting == status = "running" /\ ranges # <<>>
Request == Head(ranges)

TooLong(b) == b.toBlock - b.fromBlock >= Limit
TooManyEvents(b) == BlocksOf(b) \cap Dense # {}
OneBlock(b) == b.toBlock - b.fromBlock <= 0

Fault == faults < MaxFaults /\ faults' = faults + 1

----------------------------------------------------------------------------
\* getLogs answers and its logs are yielded.
Yield ==
  /\ Requesting
  /\ ~TooLong(Request) /\ ~TooManyEvents(Request)
  /\ delivered' = delivered \cup BlocksOf(Request)
  /\ ranges' = Tail(ranges)
  /\ UNCHANGED <<fromBlock, toBlock, status, faults>>

\* Mutant: the second half begins at the middle block.
Halves_Overlapping(b) ==
  LET midBlock == (b.fromBlock + b.toBlock) \div 2
  IN  << [fromBlock |-> b.fromBlock, toBlock |-> midBlock],
         [fromBlock |-> midBlock, toBlock |-> b.toBlock] >>

\* Mutant: the first half ends before the middle block.
Halves_Gap(b) ==
  LET midBlock == (b.fromBlock + b.toBlock) \div 2
  IN  << [fromBlock |-> b.fromBlock, toBlock |-> midBlock - 1],
         [fromBlock |-> midBlock + 1, toBlock |-> b.toBlock] >>

Halves(b) ==
  LET midBlock == (b.fromBlock + b.toBlock) \div 2
  IN  << [fromBlock |-> b.fromBlock, toBlock |-> midBlock],
         [fromBlock |-> midBlock + 1, toBlock |-> b.toBlock] >>

\* Both halves of the range go to the end of the queue.
Split ==
  /\ ranges' = Tail(ranges) \o Halves(Request)
  /\ UNCHANGED <<fromBlock, toBlock, delivered, status>>

\* Codes -32602 and -32062: the request is for too many blocks.
SplitTooLong ==
  /\ Requesting
  /\ TooLong(Request)
  /\ Split
  /\ UNCHANGED faults

\* Mutant: a single block with too many events is split as well.
SplitTooManyEvents_OneBlock ==
  /\ Requesting
  /\ TooManyEvents(Request)
  /\ Split
  /\ UNCHANGED faults

\* Code -32005: too many events, and more than one block to find them in.
SplitTooManyEvents ==
  /\ Requesting
  /\ TooManyEvents(Request) /\ ~OneBlock(Request)
  /\ Split
  /\ UNCHANGED faults

\* A timeout, a server error or code -32603 splits any range, one of a single
\* block and an empty one as well.
SplitOnFault ==
  /\ Requesting
  /\ Fault
  /\ Split

Throw ==
  /\ status' = "failed"
  /\ UNCHANGED <<fromBlock, toBlock, ranges, delivered>>

\* Code -32005 for a single block is thrown to the caller.
ThrowTooManyEvents ==
  /\ Requesting
  /\ TooManyEvents(Request) /\ OneBlock(Request)
  /\ Throw
  /\ UNCHANGED faults

\* So is any error that is not in the list.
ThrowOnFault ==
  /\ Requesting
  /\ Fault
  /\ Throw

\* Mutant: the loop ends with a range still in the queue.
Return_Early ==
  /\ status = "running"
  /\ Len(ranges) <= 1
  /\ status' = "done"
  /\ UNCHANGED <<fromBlock, toBlock, ranges, delivered, faults>>

\* The queue is empty: the generator returns.
Return ==
  /\ status = "running"
  /\ ranges = <<>>
  /\ status' = "done"
  /\ UNCHANGED <<fromBlock, toBlock, ranges, delivered, faults>>

Next ==
  \/ Yield
  \/ SplitTooLong \/ SplitTooManyEvents \/ SplitOnFault
  \/ ThrowTooManyEvents \/ ThrowOnFault
  \/ Return

\* Every request ends (withTimeout), and the caller keeps asking for more.
Fairness == WF_vars(Next)

Spec == Init /\ [][Next]_vars /\ Fairness

----------------------------------------------------------------------------
\* The blocks of the ranges of a queue, and that no block is in two of them.
Covered(queue) == UNION {BlocksOf(queue[i]) : i \in DOMAIN queue}

Disjoint(queue) ==
  \A i, j \in DOMAIN queue :
    i # j => BlocksOf(queue[i]) \cap BlocksOf(queue[j]) = {}

\* The ranges of a queue lie in the range of the call, and each of them ends at
\* the earliest one block before it begins.
Inside(queue) ==
  \A i \in DOMAIN queue :
    /\ fromBlock <= queue[i].fromBlock
    /\ queue[i].toBlock <= toBlock
    /\ queue[i].fromBlock - 1 <= queue[i].toBlock

\* Types are kept, and what is asked of the provider stays inside the call.
TypeOK ==
  /\ fromBlock \in Int /\ toBlock \in Int
  /\ ranges \in Seq(BlockRange) /\ Inside(ranges)
  /\ delivered \subseteq Int
  /\ status \in {"running", "done", "failed"}
  /\ faults \in Nat

\* However often and wherever the range is split, no block of it is lost
\* between the queue and what was yielded, and none from outside is asked for.
NothingLost == delivered \cup Covered(ranges) = fromBlock..toBlock

\* No block is asked for twice once it was yielded, nor queued in two ranges:
\* the rows of an event are not inserted twice in one scan.
DeliveredOnce == delivered \cap Covered(ranges) = {} /\ Disjoint(ranges)

\* With finitely many faults the splitting ends, even when the provider refuses
\* all but the shortest requests.
Terminates == <>(status # "running")

\* The first blocks of the ranges in the queue that have a block at all.
FirstBlocks(queue) ==
  {queue[i].fromBlock : i \in {k \in DOMAIN queue : BlocksOf(queue[k]) # {}}}

\* The requests still to be made at most: 2n - 1 for a range of n blocks, one for an
\* empty range, and two more for each fault to come.
RequestsLeft ==
  2 * (Cardinality((fromBlock..toBlock) \ delivered) - Cardinality(FirstBlocks(ranges)))
    + Len(ranges) + 2 * (MaxFaults - faults)

\* Splitting makes progress though the queue grows with it: every request, refused or
\* not, leaves fewer to be made, so a scan of n blocks ends within 2n - 1 requests and
\* two for each fault, whichever ranges are refused.
RequestsRunOut ==
  [][status' = "running" => RequestsLeft' \in 0..(RequestsLeft - 1)]_vars

Scan == INSTANCE RangeScan
          WITH range <- fromBlock..toBlock,
               remaining <- (fromBlock..toBlock) \ delivered

\* The generator is a RangeScan: when it returns it has yielded the events of the
\* whole range, and what it yields was not yielded before.
RefinesRangeScan == Scan!Spec
============================================================================
