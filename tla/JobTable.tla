------------------------------ MODULE JobTable ------------------------------
(***************************************************************************)
(* What the tables jobs and logs promise to whoever reads them: rows are   *)
(* events of a job and are never removed, a job keeps the block it was     *)
(* added at, and it is marked as completed, once and for all, only when    *)
(* its rows up to that block are there.                                    *)
(*                                                                         *)
(* HistoricCache and Indexer both implement it: what Indexer takes one     *)
(* step of its historic loop to do is what HistoricCache does in many.     *)
(***************************************************************************)
EXTENDS Integers

CONSTANTS
  Job,          \* the jobs there may be
  EventsOf      \* EventsOf[j]: the blocks with an event of j

VARIABLES
  jobs,         \* the rows of the table jobs
  blockNumber,  \* their column block_number
  status,       \* their column status
  logs          \* the rows of the table logs

Events == {r \in Job \X Nat : r[2] \in EventsOf[r[1]]}

\* The rows that a completed job has stored.
Owed(j) == {<<j, b>> : b \in {e \in EventsOf[j] : e <= blockNumber[j]}}

Init ==
  /\ jobs \subseteq Job
  /\ status = [j \in Job |-> "pending"]
  /\ logs = {}

AddJobs ==
  /\ jobs \subseteq jobs' /\ jobs' \subseteq Job
  /\ \A j \in jobs : blockNumber'[j] = blockNumber[j]
  /\ UNCHANGED <<status, logs>>

InsertLogs ==
  /\ logs \subseteq logs' /\ logs' \subseteq logs \cup Events
  /\ UNCHANGED <<jobs, blockNumber, status>>

UpdateJobStatus ==
  /\ status' \in [Job -> {"pending", "failed", "completed"}]
  /\ \A j \in Job : status'[j] # status[j] =>
       /\ j \in jobs /\ status[j] # "completed" /\ status'[j] # "pending"
       /\ status'[j] = "completed" => Owed(j) \subseteq logs
  /\ UNCHANGED <<jobs, blockNumber, logs>>

Next == AddJobs \/ InsertLogs \/ UpdateJobStatus

Spec == Init /\ [][Next]_<<jobs, blockNumber, status, logs>>
============================================================================
