--------------------------- MODULE IndexerProofs ---------------------------
(***************************************************************************)
(* The two loops of an Indexer leave no event out but what a restart or a  *)
(* null answer passes over, and restarts pass over less than a batch each, *)
(* for all jobs, chains and batch sizes and any number of failures.        *)
(***************************************************************************)
EXTENDS Indexer, FiniteSetTheorems, TLAPS

\* A completed job has its rows up to its block.
CompletedIsStored ==
  \A j \in Job : status[j] = "completed" => j \in Jobs /\ Historic(j) \subseteq logs

\* Every job with a watch key of its own is watched while the latest loop runs.
AllWatched == pc = "run" => \A j \in Jobs : OwnKey(j) => j \in watched

\* Jobs and checkpoints come from a start, and the checkpoint leads the scan by less
\* than a batch.
Lifecycle ==
  /\ pc # "down" \/ Jobs # {} \/ settings # None => freshStarts > 0
  /\ settings # None => settings <= next + BatchSize - 1
  /\ pc = "down" => watched = {}
  /\ pc = "jobs" => next <= head

IInv ==
  /\ TypeOK
  /\ CompletedIsStored
  /\ AllWatched
  /\ Lifecycle
  /\ NothingMissed

----------------------------------------------------------------------------
LEMMA InitIInv == Init => IInv
<1> SUFFICES ASSUME Init PROVE IInv
  OBVIOUS
<1> USE ChainAssumption, NoneAssumption, BatchSizeAssumption DEF Init
<1>1. Jobs = {}
  BY DEF Jobs
<1>2. TypeOK
  <2>1. head \in FirstHead..LastBlock /\ next \in Int /\ next <= head + 1
    OBVIOUS
  <2>2. /\ blockNumber \in [Job -> Int \cup {None}]
        /\ status \in [Job -> {"pending", "failed", "completed"}]
    OBVIOUS
  <2>3. QED
    BY <1>1, <2>1, <2>2 DEF TypeOK
<1>3. CompletedIsStored /\ AllWatched /\ Lifecycle /\ NothingMissed
  BY <1>1 DEF CompletedIsStored, AllWatched, Lifecycle, NothingMissed
<1>4. QED
  BY <1>2, <1>3 DEF IInv

\* An iteration ends with a block of the chain, less than a batch further.
LEMMA TargetRange ==
  ASSUME TypeOK, NEW to \in Targets
  PROVE  to \in Int /\ next <= to /\ to <= next + BatchSize - 1 /\ to <= head
         /\ next <= head
<1>1. PICK n \in next..head : to = LatestProcessed(n)
  BY DEF Targets
<1>2. n \in Int /\ next \in Int /\ head \in Int /\ next <= n /\ n <= head
  BY <1>1, ChainAssumption DEF TypeOK
<1>3. QED
  BY <1>1, <1>2, BatchSizeAssumption DEF LatestProcessed

LEMMA RowsReadIs ==
  ASSUME NEW to, NEW missed, NEW j, NEW b
  PROVE  <<j, b>> \in RowsRead(to, missed) <=>
           /\ j \in watched /\ b \in (next..to) \ missed
           /\ j \in Job /\ b \in Nat /\ b \in EventsOf[j]
BY DEF RowsRead

LEMMA RowsReadAre ==
  ASSUME NEW to, NEW missed
  PROVE  RowsRead(to, missed) \subseteq Job \X Nat
BY DEF RowsRead

LEMMA OwedIs ==
  ASSUME NEW from, NEW to, NEW j, NEW b
  PROVE  <<j, b>> \in OwedByScan(from, to) <=>
           /\ j \in Jobs /\ b \in from..to
           /\ j \in Job /\ b \in Nat /\ b \in EventsOf[j] /\ blockNumber[j] < b
BY DEF OwedByScan

LEMMA OwedAre ==
  ASSUME NEW from, NEW to
  PROVE  /\ OwedByScan(from, to) \subseteq Job \X Nat
         /\ \A r \in OwedByScan(from, to) : r[2] \in from..to
         /\ Jobs = {} => OwedByScan(from, to) = {}
BY DEF OwedByScan

----------------------------------------------------------------------------
LEMMA StartIInv ==
  ASSUME IInv, Start
  PROVE  IInv'
<1>1. TypeOK /\ CompletedIsStored /\ Lifecycle /\ NothingMissed
  BY DEF IInv
<1>2. PICK n \in (FirstHead..head) \cup ({settings} \ {None}) :
        /\ GetBlockToProcess(n)
        /\ next' = n
        /\ lost' = lost \cup (OwedByScan(next, n - 1) \ logs)
  BY DEF Start
<1>3. /\ pc' = "jobs" /\ healthy' = TRUE
      /\ head' = head /\ settings' = settings /\ logs' = logs
      /\ blockNumber' = blockNumber /\ status' = status
      /\ watched' = watched /\ hung' = hung
      /\ faults' = faults /\ hangs' = hangs /\ crashes' = crashes /\ nulls' = nulls
      /\ freshStarts' = IF settings \in {None, 0} THEN freshStarts + 1 ELSE freshStarts
  BY DEF Start, database, used
<1>4. Jobs' = Jobs
  BY <1>3 DEF Jobs
<1>5. /\ n \in Int /\ n <= head /\ head \in Int /\ next \in Int
      /\ settings \in Int => n >= settings
  BY <1>1, <1>2, ChainAssumption, NoneAssumption DEF TypeOK, GetBlockToProcess
<1>6. freshStarts' \in Nat /\ freshStarts' > 0
  BY <1>1, <1>3 DEF TypeOK, Lifecycle
<1>7. TypeOK'
  <2>1. lost' \subseteq Job \X Nat
    BY <1>1, <1>2, OwedAre DEF TypeOK
  <2>2. QED
    BY <1>1, <1>2, <1>3, <1>4, <1>5, <1>6, <2>1 DEF TypeOK
<1>8. CompletedIsStored'
  BY <1>1, <1>3, <1>4 DEF CompletedIsStored, Historic
<1>9. AllWatched'
  BY <1>3 DEF AllWatched
<1>10. Lifecycle'
  BY <1>1, <1>2, <1>3, <1>5, <1>6, BatchSizeAssumption DEF Lifecycle, TypeOK
<1>11. NothingMissed'
  <2> SUFFICES ASSUME NEW j \in Jobs, OwnKey(j), NEW b \in EventsOf[j], b < n
               PROVE  \/ <<j, b>> \in logs \cup lost'
                      \/ b <= blockNumber[j] /\ status[j] # "completed"
    BY <1>2, <1>3, <1>4 DEF NothingMissed
  <2>1. j \in Job /\ b \in Nat /\ blockNumber[j] \in Int
    BY <1>1, JobAssumption DEF Jobs, TypeOK
  <2>2. CASE b < next
    BY <1>1, <1>2, <2>2 DEF NothingMissed
  <2>3. CASE next <= b /\ blockNumber[j] < b
    <3>1. <<j, b>> \in OwedByScan(next, n - 1)
      BY <1>5, <2>1, <2>3, OwedIs
    <3>2. QED
      BY <1>2, <3>1
  <2>4. CASE b <= blockNumber[j]
    BY <1>1, <2>1, <2>4 DEF CompletedIsStored, Historic
  <2>5. QED
    BY <1>5, <2>1, <2>2, <2>3, <2>4
<1>12. QED
  BY <1>7, <1>8, <1>9, <1>10, <1>11 DEF IInv

LEMMA UpdateNewJobsIInv ==
  ASSUME IInv, UpdateNewJobs
  PROVE  IInv'
<1>1. TypeOK /\ CompletedIsStored /\ Lifecycle /\ NothingMissed
  BY DEF IInv
<1>2. PICK supported \in SUBSET Job : InsertJobs(supported)
  BY DEF UpdateNewJobs
<1>3. /\ pc = "jobs" /\ pc' = "watch"
      /\ head' = head /\ settings' = settings /\ logs' = logs /\ status' = status
      /\ next' = next /\ watched' = watched /\ hung' = hung /\ healthy' = healthy
      /\ lost' = lost /\ freshStarts' = freshStarts
      /\ faults' = faults /\ hangs' = hangs /\ crashes' = crashes /\ nulls' = nulls
  BY DEF UpdateNewJobs, used
<1>4. /\ blockNumber' \in [Job -> Int \cup {None}]
      /\ \A j \in Jobs : j \in Jobs' /\ blockNumber'[j] = blockNumber[j]
      /\ \A j \in Jobs' : j \in Jobs \/ blockNumber'[j] = next
  BY <1>1, <1>2, NoneAssumption DEF InsertJobs, Jobs, TypeOK
<1>5. TypeOK'
  <2>1. \A j \in Jobs' : blockNumber'[j] <= head
    <3>1. next <= head
      BY <1>1, <1>3 DEF Lifecycle
    <3>2. QED
      BY <1>1, <1>4, <3>1 DEF TypeOK
  <2>2. QED
    BY <1>1, <1>3, <1>4, <2>1 DEF TypeOK
<1>6. CompletedIsStored'
  BY <1>1, <1>3, <1>4 DEF CompletedIsStored, Historic, Jobs
<1>7. AllWatched' /\ Lifecycle'
  BY <1>1, <1>3 DEF AllWatched, Lifecycle
<1>8. NothingMissed'
  <2> SUFFICES ASSUME NEW j \in Jobs', OwnKey(j), NEW b \in EventsOf[j], b < next
               PROVE  \/ <<j, b>> \in logs \cup lost
                      \/ b <= blockNumber'[j] /\ status[j] # "completed"
    BY <1>3 DEF NothingMissed
  <2>1. CASE j \in Jobs
    BY <1>1, <1>4, <2>1 DEF NothingMissed
  <2>2. CASE j \notin Jobs
    <3>1. j \in Job /\ b \in Nat /\ next \in Int /\ status[j] # "completed"
      BY <1>1, <2>2, JobAssumption DEF Jobs, TypeOK, CompletedIsStored
    <3>2. QED
      BY <1>4, <2>2, <3>1
  <2>3. QED
    BY <2>1, <2>2
<1>9. QED
  BY <1>5, <1>6, <1>7, <1>8 DEF IInv

LEMMA FetchAllJobsIInv ==
  ASSUME IInv, FetchAllJobs
  PROVE  IInv'
<1>1. PICK w \in SUBSET Job : UserIndexMap(w) /\ watched' = w
  BY DEF FetchAllJobs
<1>2. /\ pc = "watch" /\ pc' = "run"
      /\ head' = head /\ settings' = settings /\ logs' = logs /\ status' = status
      /\ blockNumber' = blockNumber /\ next' = next /\ hung' = hung
      /\ healthy' = healthy /\ lost' = lost /\ freshStarts' = freshStarts
      /\ faults' = faults /\ hangs' = hangs /\ crashes' = crashes /\ nulls' = nulls
      /\ Jobs' = Jobs
  BY DEF FetchAllJobs, database, used, Jobs
<1>3. TypeOK' /\ CompletedIsStored' /\ Lifecycle' /\ NothingMissed'
  BY <1>1, <1>2 DEF IInv, TypeOK, CompletedIsStored, Historic, Lifecycle, NothingMissed,
                    UserIndexMap
<1>4. AllWatched'
  <2>1. ASSUME NEW j \in Jobs, OwnKey(j) PROVE j \in w
    <3>1. PICK i \in w : KeyOf[i] = KeyOf[j]
      BY <1>1 DEF UserIndexMap
    <3>2. QED
      BY <2>1, <3>1 DEF OwnKey
  <2>2. QED
    BY <1>1, <1>2, <2>1 DEF AllWatched
<1>5. QED
  BY <1>3, <1>4 DEF IInv

----------------------------------------------------------------------------
\* Steps that store rows of jobs and leave the scan where it is.
LEMMA StoreIInv ==
  ASSUME IInv,
         logs \subseteq logs', logs' \subseteq Job \X Nat,
         status' \in [Job -> {"pending", "failed", "completed"}],
         \A j \in Job : status[j] = "completed" => status'[j] = "completed",
         \A j \in Job : status'[j] = "completed" /\ status[j] # "completed" =>
           j \in Jobs /\ Historic(j) \subseteq logs,
         hung' \in BOOLEAN, faults' \in Nat, hangs' \in Nat,
         UNCHANGED <<head, settings, blockNumber, pc, next, watched, healthy, lost,
                     freshStarts, crashes, nulls>>
  PROVE  IInv'
<1>1. Jobs' = Jobs /\ \A j \in Job : Historic(j)' = Historic(j)
  BY DEF Jobs, Historic
<1>2. TypeOK' /\ AllWatched' /\ Lifecycle'
  BY <1>1 DEF IInv, TypeOK, AllWatched, Lifecycle
<1>3. CompletedIsStored'
  BY <1>1 DEF IInv, CompletedIsStored
<1>4. NothingMissed'
  <2> SUFFICES ASSUME NEW j \in Jobs, OwnKey(j), NEW b \in EventsOf[j], b < next
               PROVE  \/ <<j, b>> \in logs' \cup lost
                      \/ b <= blockNumber[j] /\ status'[j] # "completed"
    BY <1>1 DEF NothingMissed
  <2>1. \/ <<j, b>> \in logs \cup lost
        \/ b <= blockNumber[j] /\ status[j] # "completed"
    BY DEF IInv, NothingMissed
  <2>2. CASE b <= blockNumber[j] /\ status'[j] = "completed" /\ status[j] # "completed"
    BY <2>2 DEF Jobs, Historic
  <2>3. QED
    BY <2>1, <2>2
<1>5. QED
  BY <1>2, <1>3, <1>4 DEF IInv

LEMMA HistoricIInv ==
  ASSUME IInv, NEW j \in Job,
         \/ HistoricInserts(j) \/ HistoricCompletes(j)
         \/ HistoricFails(j) \/ HistoricHangs(j)
  PROVE  IInv'
<1>1. /\ TypeOK /\ logs \subseteq Job \X Nat /\ hung \in BOOLEAN
      /\ faults \in Nat /\ hangs \in Nat
      /\ status \in [Job -> {"pending", "failed", "completed"}]
  BY DEF IInv, TypeOK
<1>2. CASE HistoricInserts(j)
  <2>1. logs \subseteq logs' /\ logs' \subseteq Job \X Nat
    BY <1>1, <1>2, JobAssumption DEF HistoricInserts
  <2>2. QED
    BY <1>1, <1>2, <2>1, StoreIInv DEF HistoricInserts, used
<1>3. CASE HistoricCompletes(j)
  BY <1>1, <1>3, StoreIInv DEF HistoricCompletes, used
<1>4. CASE HistoricFails(j)
  BY <1>1, <1>4, StoreIInv DEF HistoricFails, Fault
<1>5. CASE HistoricHangs(j)
  <2>1. PICK s \in {status[j]} \cup (IF Historic(j) \subseteq logs THEN {"completed"} ELSE {}) :
          status' = [status EXCEPT ![j] = s]
    BY <1>5 DEF HistoricHangs
  <2>2. /\ status' \in [Job -> {"pending", "failed", "completed"}]
        /\ status[j] # "completed" /\ j \in Jobs
        /\ \A i \in Job : i # j => status'[i] = status[i]
        /\ status'[j] = "completed" => Historic(j) \subseteq logs
    BY <1>1, <1>5, <2>1 DEF HistoricHangs
  <2>3. QED
    BY <1>1, <1>5, <2>2, StoreIInv DEF HistoricHangs
<1>6. QED
  BY <1>2, <1>3, <1>4, <1>5

----------------------------------------------------------------------------
LEMMA LatestIterationIInv ==
  ASSUME IInv, LatestIteration
  PROVE  IInv'
<1>1. TypeOK /\ CompletedIsStored /\ AllWatched /\ Lifecycle /\ NothingMissed
  BY DEF IInv
<1>2. PICK to \in Targets : \E missed \in SUBSET (next..to) :
        /\ nulls' = nulls + Cardinality(missed)
        /\ lost' = lost \cup {r \in OwedByScan(next, to) \ logs : r[2] \in missed}
        /\ logs' = logs \cup RowsRead(to, missed)
        /\ settings' = IF RowsRead(to, missed) = {} THEN settings ELSE to
        /\ next' = to + 1
  BY DEF LatestIteration
<1>3. PICK missed \in SUBSET (next..to) :
        /\ nulls' = nulls + Cardinality(missed)
        /\ lost' = lost \cup {r \in OwedByScan(next, to) \ logs : r[2] \in missed}
        /\ logs' = logs \cup RowsRead(to, missed)
        /\ settings' = IF RowsRead(to, missed) = {} THEN settings ELSE to
        /\ next' = to + 1
  BY <1>2
<1>4. /\ pc = "run" /\ pc' = "run" /\ healthy' = TRUE
      /\ head' = head /\ status' = status /\ blockNumber' = blockNumber
      /\ watched' = watched /\ hung' = hung /\ freshStarts' = freshStarts
      /\ faults' = faults /\ hangs' = hangs /\ crashes' = crashes
      /\ Jobs' = Jobs
  BY DEF LatestIteration, Jobs
<1>5. to \in Int /\ next \in Int /\ next <= to /\ to <= head /\ head \in Int
  BY <1>1, TargetRange, ChainAssumption DEF TypeOK
<1>6. TypeOK'
  <2>1. nulls' \in Nat
    <3>1. IsFiniteSet(missed)
      BY <1>5, FS_Interval, FS_Subset
    <3>2. QED
      BY <1>1, <1>3, <3>1, FS_CardinalityType DEF TypeOK
  <2>2. lost' \subseteq Job \X Nat /\ logs' \subseteq Job \X Nat
    BY <1>1, <1>3, OwedAre, RowsReadAre DEF TypeOK
  <2>3. /\ settings' \in Int \cup {None} /\ (settings' # None => settings' <= head)
        /\ next' \in Int /\ next' <= head + 1
    BY <1>1, <1>3, <1>5 DEF TypeOK
  <2>4. QED
    BY <1>1, <1>4, <2>1, <2>2, <2>3 DEF TypeOK
<1>7. CompletedIsStored' /\ AllWatched'
  BY <1>1, <1>3, <1>4 DEF CompletedIsStored, AllWatched, Historic
<1>8. Lifecycle'
  BY <1>1, <1>3, <1>4, <1>5, BatchSizeAssumption DEF Lifecycle, TypeOK
<1>9. NothingMissed'
  <2> SUFFICES ASSUME NEW j \in Jobs, OwnKey(j), NEW b \in EventsOf[j], b < to + 1
               PROVE  \/ <<j, b>> \in logs' \cup lost'
                      \/ b <= blockNumber[j] /\ status[j] # "completed"
    BY <1>3, <1>4 DEF NothingMissed
  <2>1. j \in Job /\ b \in Nat /\ blockNumber[j] \in Int /\ j \in watched
    BY <1>1, <1>4, JobAssumption DEF Jobs, TypeOK, AllWatched
  <2>2. CASE b < next
    BY <1>1, <1>3, <2>2 DEF NothingMissed
  <2>3. CASE b <= blockNumber[j]
    BY <1>1, <1>3, <2>1, <2>3 DEF CompletedIsStored, Historic
  <2>4. CASE next <= b /\ blockNumber[j] < b /\ b \notin missed
    <3>1. <<j, b>> \in RowsRead(to, missed)
      BY <1>5, <2>1, <2>4, RowsReadIs
    <3>2. QED
      BY <1>3, <3>1
  <2>5. CASE next <= b /\ blockNumber[j] < b /\ b \in missed
    <3>1. <<j, b>> \in OwedByScan(next, to)
      BY <1>5, <2>1, <2>5, OwedIs
    <3>2. <<j, b>> \in logs \/ <<j, b>> \in lost'
      BY <1>3, <2>5, <3>1
    <3>3. QED
      BY <1>3, <3>2
  <2>6. QED
    BY <1>5, <2>1, <2>2, <2>3, <2>4, <2>5
<1>10. QED
  BY <1>6, <1>7, <1>8, <1>9 DEF IInv

LEMMA LatestIterationFailsIInv ==
  ASSUME IInv, LatestIterationFails
  PROVE  IInv'
<1>1. TypeOK /\ CompletedIsStored /\ AllWatched /\ Lifecycle /\ NothingMissed
  BY DEF IInv
<1>2. PICK to \in Targets :
        /\ logs' \in {logs, logs \cup RowsRead(to, {})}
        /\ \/ GoesBack
           \/ /\ settings' \in {settings, next - BatchSize} \cup WrittenCheckpoint(to)
              /\ UNCHANGED next
  BY DEF LatestIterationFails
<1>3. /\ pc = "run" /\ pc' = "run" /\ healthy' = TRUE
      /\ head' = head /\ status' = status /\ blockNumber' = blockNumber
      /\ watched' = watched /\ hung' = hung /\ freshStarts' = freshStarts
      /\ lost' = lost
      /\ faults' = faults + 1 /\ hangs' = hangs /\ crashes' = crashes /\ nulls' = nulls
      /\ Jobs' = Jobs
  BY DEF LatestIterationFails, Fault, Jobs
<1>4. /\ to \in Int /\ next \in Int /\ next <= to /\ to <= head /\ head \in Int
      /\ to <= next + BatchSize - 1
  BY <1>1, TargetRange, ChainAssumption DEF TypeOK
<1>5. /\ settings' \in {settings, next - BatchSize, to}
      /\ next' = next \/ (next' = next - BatchSize /\ settings' = next - BatchSize)
  BY <1>2 DEF GoesBack, WrittenCheckpoint
<1>6. logs \subseteq logs' /\ logs' \subseteq Job \X Nat
  BY <1>1, <1>2, RowsReadAre DEF TypeOK
<1>7. TypeOK'
  <2>1. /\ settings' \in Int \cup {None} /\ (settings' # None => settings' <= head)
        /\ next' \in Int /\ next' <= head + 1
    BY <1>1, <1>4, <1>5, BatchSizeAssumption DEF TypeOK
  <2>2. QED
    BY <1>1, <1>3, <1>6, <2>1 DEF TypeOK
<1>8. CompletedIsStored' /\ AllWatched'
  BY <1>1, <1>3, <1>6 DEF CompletedIsStored, AllWatched, Historic
<1>9. Lifecycle'
  BY <1>1, <1>3, <1>4, <1>5, BatchSizeAssumption DEF Lifecycle, TypeOK
<1>10. NothingMissed'
  <2> SUFFICES ASSUME NEW j \in Jobs, OwnKey(j), NEW b \in EventsOf[j], b < next'
               PROVE  \/ <<j, b>> \in logs' \cup lost
                      \/ b <= blockNumber[j] /\ status[j] # "completed"
    BY <1>3 DEF NothingMissed
  <2>1. b < next
    BY <1>1, <1>4, <1>5, BatchSizeAssumption, JobAssumption DEF Jobs
  <2>2. QED
    BY <1>1, <1>6, <2>1 DEF NothingMissed
<1>11. QED
  BY <1>7, <1>8, <1>9, <1>10 DEF IInv

LEMMA CrashIInv ==
  ASSUME IInv, Crash
  PROVE  IInv'
<1>1. TypeOK /\ CompletedIsStored /\ Lifecycle /\ NothingMissed
  BY DEF IInv
<1>2. /\ pc # "down" /\ pc' = "down" /\ watched' = {} /\ hung' = FALSE
      /\ crashes' = crashes + 1
      /\ head' = head /\ logs' = logs /\ blockNumber' = blockNumber /\ status' = status
      /\ next' = next /\ healthy' = healthy /\ lost' = lost
      /\ freshStarts' = freshStarts
      /\ faults' = faults /\ hangs' = hangs /\ nulls' = nulls /\ Jobs' = Jobs
  BY DEF Crash, Jobs
<1>3. settings' = settings \/ \E to \in Targets : settings' = to
  BY DEF Crash, WrittenCheckpoint
<1>4. /\ settings' \in Int \cup {None} /\ (settings' # None => settings' <= head)
      /\ settings' # None => settings' <= next + BatchSize - 1
  BY <1>1, <1>3, TargetRange DEF TypeOK, Lifecycle
<1>5. TypeOK'
  <2>1. crashes \in Nat
    BY <1>1 DEF TypeOK
  <2>2. crashes' \in Nat
    BY <1>2, <2>1
  <2>3. watched' \subseteq Jobs' /\ hung' \in BOOLEAN
    BY <1>2
  <2>4. QED
    BY <1>1, <1>2, <1>4, <2>2, <2>3 DEF TypeOK
<1>6. AllWatched' /\ Lifecycle'
  BY <1>1, <1>2, <1>4 DEF AllWatched, Lifecycle
<1>7. CompletedIsStored' /\ NothingMissed'
  BY <1>1, <1>2 DEF CompletedIsStored, Historic, NothingMissed
<1>8. QED
  BY <1>5, <1>6, <1>7 DEF IInv

\* Steps of the chain or of the health endpoint.
LEMMA IdleIInv ==
  ASSUME IInv,
         head' \in FirstHead..LastBlock, head <= head', healthy' \in BOOLEAN,
         UNCHANGED <<settings, logs, blockNumber, status, pc, next, watched, hung, lost,
                     freshStarts, faults, hangs, crashes, nulls>>
  PROVE  IInv'
<1>1. TypeOK /\ head \in Int /\ head' \in Int /\ Jobs' = Jobs
  BY ChainAssumption DEF IInv, TypeOK, Jobs
<1>2. next' <= head' + 1
  <2>1. ASSUME NEW n \in Int, NEW h \in Int, NEW g \in Int, n <= h + 1, h <= g
        PROVE  n <= g + 1
    BY <2>1
  <2>2. next \in Int /\ next <= head + 1
    BY <1>1 DEF TypeOK
  <2>3. QED
    BY <1>1, <2>1, <2>2
<1>3. settings' # None => settings' <= head'
  BY <1>1 DEF TypeOK
<1>4. \A j \in Jobs' : blockNumber'[j] <= head'
  BY <1>1, NoneAssumption DEF TypeOK, Jobs
<1>5. TypeOK'
  BY <1>1, <1>2, <1>3, <1>4 DEF TypeOK
<1>6. CompletedIsStored' /\ AllWatched' /\ NothingMissed'
  BY <1>1 DEF IInv, CompletedIsStored, Historic, AllWatched, NothingMissed
<1>7. Lifecycle'
  BY <1>1 DEF IInv, Lifecycle, TypeOK
<1>8. QED
  BY <1>5, <1>6, <1>7 DEF IInv

LEMMA StepIInv == IInv /\ [Next]_vars => IInv'
<1> SUFFICES ASSUME IInv, [Next]_vars PROVE IInv'
  OBVIOUS
<1>1. CASE MineBlock
  <2>1. head' \in FirstHead..LastBlock /\ head <= head' /\ healthy' \in BOOLEAN
    BY <1>1, ChainAssumption DEF MineBlock, IInv, TypeOK
  <2>2. QED
    BY <1>1, <2>1, IdleIInv DEF MineBlock, database, used
<1>2. CASE Expires
  <2>1. head' \in FirstHead..LastBlock /\ head <= head'
    BY <1>2, ChainAssumption DEF Expires, IInv, TypeOK
  <2>2. QED
    BY <1>2, <2>1, IdleIInv DEF Expires, database, used
<1>3. CASE UNCHANGED vars
  <2>1. head' \in FirstHead..LastBlock /\ head <= head' /\ healthy' \in BOOLEAN
    BY <1>3, ChainAssumption DEF vars, IInv, TypeOK
  <2>2. QED
    BY <1>3, <2>1, IdleIInv DEF vars, database, used
<1>4. QED
  BY <1>1, <1>2, <1>3, StartIInv, UpdateNewJobsIInv, FetchAllJobsIInv, HistoricIInv,
     LatestIterationIInv, LatestIterationFailsIInv, CrashIInv DEF Next, Starting

THEOREM Invariance == Spec => []IInv
  BY InitIInv, StepIInv, PTL DEF Spec

----------------------------------------------------------------------------
\* The crashes whose restart has happened.
Resumed == IF pc = "down" /\ freshStarts > 0 THEN crashes - 1 ELSE crashes

LostBlocks == {r[2] : r \in lost}

\* Each of them passed over less than a batch, each null answer over a block.
LossAccounted ==
  /\ pc = "down" /\ freshStarts > 0 => crashes > 0
  /\ IsFiniteSet(LostBlocks)
  /\ freshStarts <= 1 => Cardinality(LostBlocks) <= Resumed * (BatchSize - 1) + nulls

LEMMA OneMore ==
  ASSUME NEW m \in Int, NEW k \in Nat
  PROVE  (m - 1) * k + k = m * k /\ (m - 1) * k <= m * k /\ m * k \in Int
  OBVIOUS

\* Passing over some blocks of an interval.
LEMMA LostMore ==
  ASSUME IsFiniteSet(LostBlocks), NEW more, IsFiniteSet(more),
         LostBlocks' \subseteq LostBlocks \cup more
  PROVE  /\ IsFiniteSet(LostBlocks')
         /\ Cardinality(LostBlocks') \in Nat
         /\ Cardinality(LostBlocks') <= Cardinality(LostBlocks) + Cardinality(more)
<1>1. IsFiniteSet(LostBlocks \cap more) /\ Cardinality(LostBlocks \cap more) \in Nat
  BY FS_Subset, FS_CardinalityType
<1>2. /\ IsFiniteSet(LostBlocks \cup more)
      /\ Cardinality(LostBlocks \cup more)
           = Cardinality(LostBlocks) + Cardinality(more) - Cardinality(LostBlocks \cap more)
  BY FS_Union
<1>3. /\ IsFiniteSet(LostBlocks')
      /\ Cardinality(LostBlocks') <= Cardinality(LostBlocks \cup more)
  BY <1>2, FS_Subset
<1>4. Cardinality(LostBlocks') \in Nat /\ Cardinality(LostBlocks \cup more) \in Nat
      /\ Cardinality(LostBlocks) \in Nat /\ Cardinality(more) \in Nat
  BY <1>2, <1>3, FS_CardinalityType
<1>5. QED
  BY <1>1, <1>2, <1>3, <1>4

LEMMA LossStep == IInv /\ LossAccounted /\ [Next]_vars => LossAccounted'
<1> SUFFICES ASSUME IInv, LossAccounted, [Next]_vars PROVE LossAccounted'
  OBVIOUS
<1>1. /\ crashes \in Nat /\ nulls \in Nat /\ freshStarts \in Nat /\ next \in Int
      /\ head \in Int /\ BatchSize - 1 \in Nat
  BY BatchSizeAssumption, ChainAssumption DEF IInv, TypeOK
<1>2. /\ IsFiniteSet(LostBlocks) /\ Cardinality(LostBlocks) \in Nat
  BY FS_CardinalityType DEF LossAccounted
<1>3. CASE Start
  <2>1. PICK n \in (FirstHead..head) \cup ({settings} \ {None}) :
          /\ GetBlockToProcess(n)
          /\ lost' = lost \cup (OwedByScan(next, n - 1) \ logs)
    BY <1>3 DEF Start
  <2>2. /\ pc = "down" /\ pc' = "jobs" /\ crashes' = crashes /\ nulls' = nulls
        /\ freshStarts' = IF settings \in {None, 0} THEN freshStarts + 1 ELSE freshStarts
    BY <1>3 DEF Start, used
  <2>3. /\ n \in Int
        /\ settings \notin {None, 0} => n = settings
        /\ settings \in Int => settings <= next + BatchSize - 1
        /\ settings # None => freshStarts > 0
        /\ freshStarts = 0 => Jobs = {}
    BY <1>1, <2>1, NoneAssumption, ChainAssumption
    DEF GetBlockToProcess, IInv, TypeOK, Lifecycle
  <2> DEFINE gap == next..(n - 1)
  <2>4. /\ IsFiniteSet(gap)
        /\ settings \notin {None, 0} => Cardinality(gap) \in 0..(BatchSize - 1)
    <3>1. n - 1 \in Int
      BY <2>3
    <3>2. /\ IsFiniteSet(gap)
          /\ Cardinality(gap) = IF next > n - 1 THEN 0 ELSE n - 1 - next + 1
      BY <1>1, <3>1, FS_Interval
    <3> HIDE DEF gap
    <3>3. settings \notin {None, 0} => settings \in Int
      BY DEF IInv, TypeOK
    <3>4. QED
      BY <1>1, <2>3, <3>2, <3>3
  <2>5. LostBlocks' \subseteq LostBlocks \cup gap
    BY <2>1, OwedAre DEF LostBlocks
  <2> HIDE DEF gap
  <2>6. /\ IsFiniteSet(LostBlocks')
        /\ Cardinality(LostBlocks') \in Nat
        /\ Cardinality(LostBlocks') <= Cardinality(LostBlocks) + Cardinality(gap)
    BY <1>2, <2>4, <2>5, LostMore
  <2>7. Resumed' = crashes
    BY <2>2 DEF Resumed
  <2>8. CASE settings \in {None, 0}
    <3>1. CASE freshStarts = 0
      <4>1. OwedByScan(next, n - 1) = {}
        BY <2>3, <3>1, OwedAre
      <4>2. LostBlocks' = LostBlocks /\ Resumed = crashes
        BY <2>1, <3>1, <4>1 DEF LostBlocks, Resumed
      <4>3. QED
        BY <1>1, <2>2, <2>7, <3>1, <4>2 DEF LossAccounted
    <3>2. CASE freshStarts > 0
      BY <1>1, <2>2, <2>6, <2>8, <3>2 DEF LossAccounted
    <3>3. QED
      BY <1>1, <3>1, <3>2
  <2>9. CASE settings \notin {None, 0}
    <3>1. Resumed = crashes - 1 /\ freshStarts' = freshStarts
      BY <2>2, <2>3, <2>9 DEF Resumed
    <3>2. /\ (crashes - 1) * (BatchSize - 1) + (BatchSize - 1) = crashes * (BatchSize - 1)
          /\ (crashes - 1) * (BatchSize - 1) \in Int
      BY <1>1, OneMore
    <3>3. freshStarts <= 1 =>
            Cardinality(LostBlocks) <= (crashes - 1) * (BatchSize - 1) + nulls
      BY <3>1 DEF LossAccounted
    <3>4. freshStarts <= 1 => Cardinality(LostBlocks') <= crashes * (BatchSize - 1) + nulls
      BY <1>1, <1>2, <2>4, <2>6, <2>9, <3>2, <3>3
    <3>5. QED
      BY <2>2, <2>6, <2>7, <3>1, <3>4 DEF LossAccounted
  <2>10. QED
    BY <2>8, <2>9
<1>4. CASE LatestIteration
  <2>1. PICK to \in Targets : \E missed \in SUBSET (next..to) :
          /\ nulls' = nulls + Cardinality(missed)
          /\ lost' = lost \cup {r \in OwedByScan(next, to) \ logs : r[2] \in missed}
    BY <1>4 DEF LatestIteration
  <2>2. PICK missed \in SUBSET (next..to) :
          /\ nulls' = nulls + Cardinality(missed)
          /\ lost' = lost \cup {r \in OwedByScan(next, to) \ logs : r[2] \in missed}
    BY <2>1
  <2>3. to \in Int
    BY TargetRange DEF IInv
  <2>4. IsFiniteSet(missed) /\ Cardinality(missed) \in Nat
    BY <1>1, <2>3, FS_Interval, FS_Subset, FS_CardinalityType
  <2>5. LostBlocks' \subseteq LostBlocks \cup missed
    BY <2>2 DEF LostBlocks
  <2>6. /\ IsFiniteSet(LostBlocks')
        /\ Cardinality(LostBlocks') \in Nat
        /\ Cardinality(LostBlocks') <= Cardinality(LostBlocks) + Cardinality(missed)
    BY <1>2, <2>4, <2>5, LostMore
  <2>7. /\ pc = "run" /\ pc' = "run" /\ crashes' = crashes /\ freshStarts' = freshStarts
    BY <1>4 DEF LatestIteration
  <2>8. Resumed' = crashes /\ Resumed = crashes /\ crashes * (BatchSize - 1) \in Int
    BY <1>1, <2>7, OneMore DEF Resumed
  <2>9. freshStarts <= 1 => Cardinality(LostBlocks) <= crashes * (BatchSize - 1) + nulls
    BY <2>8 DEF LossAccounted
  <2>10. freshStarts <= 1 => Cardinality(LostBlocks') <= crashes * (BatchSize - 1) + nulls'
    BY <1>1, <1>2, <2>2, <2>4, <2>6, <2>8, <2>9
  <2>11. QED
    BY <2>6, <2>7, <2>8, <2>10 DEF LossAccounted
<1>5. CASE Crash
  <2>1. /\ pc # "down" /\ pc' = "down" /\ crashes' = crashes + 1
        /\ freshStarts' = freshStarts /\ lost' = lost /\ nulls' = nulls
    BY <1>5 DEF Crash
  <2>2. freshStarts > 0
    BY <2>1 DEF IInv, Lifecycle
  <2>3. Resumed = crashes /\ Resumed' = crashes
    BY <1>1, <2>1, <2>2 DEF Resumed
  <2>4. QED
    BY <1>1, <2>1, <2>3 DEF LossAccounted, LostBlocks
<1>6. CASE \/ MineBlock \/ UpdateNewJobs \/ FetchAllJobs \/ LatestIterationFails
           \/ \E j \in Job : \/ HistoricInserts(j) \/ HistoricCompletes(j)
                             \/ HistoricFails(j) \/ HistoricHangs(j)
           \/ Expires \/ UNCHANGED vars
  <2>1. /\ lost' = lost /\ crashes' = crashes /\ nulls' = nulls
        /\ freshStarts' = freshStarts
        /\ pc' = pc \/ (pc # "down" /\ pc' # "down")
    BY <1>6 DEF MineBlock, UpdateNewJobs, FetchAllJobs, LatestIterationFails,
       HistoricInserts, HistoricCompletes, HistoricFails, HistoricHangs, Expires, Fault,
       used, vars
  <2>2. Resumed' = Resumed /\ LostBlocks' = LostBlocks
    BY <2>1 DEF Resumed, LostBlocks
  <2>3. QED
    BY <2>1, <2>2 DEF LossAccounted
<1>7. QED
  BY <1>3, <1>4, <1>5, <1>6 DEF Next, Starting

LEMMA LossAccountedHolds == Spec => []LossAccounted
<1>1. Init => LossAccounted
  <2> SUFFICES ASSUME Init PROVE LossAccounted
    OBVIOUS
  <2>1. LostBlocks = {}
    BY DEF Init, LostBlocks
  <2>2. Resumed = 0 /\ nulls = 0 /\ freshStarts = 0
    BY DEF Init, Resumed
  <2>3. QED
    BY <2>1, <2>2, FS_EmptySet, BatchSizeAssumption DEF LossAccounted
<1>2. QED
  BY <1>1, LossStep, Invariance, PTL DEF Spec

\* Types are kept; jobs are numbered with blocks of the chain, and the scan is never
\* more than one block past its head.
THEOREM TypeCorrect == Spec => []TypeOK
<1>1. IInv => TypeOK
  BY DEF IInv
<1>2. QED
  BY <1>1, Invariance, PTL

\* Behind the scan no event of a job with a watch key of its own is left out by both
\* loops, through any starts, failures and crashes, unless it was passed over.
THEOREM NothingMissedHolds == Spec => []NothingMissed
<1>1. IInv => NothingMissed
  BY DEF IInv
<1>2. QED
  BY <1>1, Invariance, PTL

\* Restarts from a checkpoint pass over at most the rest of one batch each.
THEOREM LossBoundHolds == Spec => []LossBound
<1>1. IInv /\ LossAccounted => LossBound
  <2> SUFFICES ASSUME IInv, LossAccounted, freshStarts <= 1
               PROVE  Cardinality(LostBlocks) <= crashes * (BatchSize - 1) + nulls
    BY DEF LossBound, LostBlocks
  <2>1. /\ crashes \in Nat /\ nulls \in Nat /\ BatchSize - 1 \in Nat
        /\ Cardinality(LostBlocks) \in Nat
    BY BatchSizeAssumption, FS_CardinalityType DEF IInv, TypeOK, LossAccounted
  <2>2. /\ Resumed * (BatchSize - 1) <= crashes * (BatchSize - 1)
        /\ Resumed * (BatchSize - 1) \in Int /\ crashes * (BatchSize - 1) \in Int
    BY <2>1, OneMore DEF Resumed
  <2>3. QED
    BY <2>1, <2>2 DEF LossAccounted
<1>2. QED
  BY <1>1, LossAccountedHolds, Invariance, PTL

----------------------------------------------------------------------------
(***************************************************************************)
(* The chain as a whole implements JobTable.                               *)
(***************************************************************************)

\* Both loops only add rows of events.
LEMMA StoresEvents ==
  ASSUME IInv, \/ LatestIteration \/ LatestIterationFails
               \/ \E j \in Job : HistoricInserts(j)
  PROVE  Table!InsertLogs
<1>1. /\ logs \subseteq logs' /\ logs' \subseteq logs \cup Table!Events
  <2>1. CASE LatestIteration
    <3>1. PICK to \in Targets, missed \in SUBSET Int : logs' = logs \cup RowsRead(to, missed)
      <4>1. PICK to \in Targets : \E missed \in SUBSET (next..to) :
                                    logs' = logs \cup RowsRead(to, missed)
        BY <2>1 DEF LatestIteration
      <4>2. QED
        BY <4>1
    <3>2. QED
      BY <3>1 DEF RowsRead, Table!Events
  <2>2. CASE LatestIterationFails
    <3>1. PICK to \in Targets : logs' \in {logs, logs \cup RowsRead(to, {})}
      BY <2>2 DEF LatestIterationFails
    <3>2. QED
      BY <3>1 DEF RowsRead, Table!Events
  <2>3. CASE \E j \in Job : HistoricInserts(j)
    <3>1. PICK j \in Job : \E b \in EventsOf[j] : logs' = logs \cup {<<j, b>>}
      BY <2>3 DEF HistoricInserts
    <3> PICK b \in EventsOf[j] : logs' = logs \cup {<<j, b>>}
      BY <3>1
    <3>2. <<j, b>> \in Table!Events
      BY <3>1, JobAssumption DEF Table!Events
    <3>3. QED
      BY <3>2
  <2>4. QED
    BY <2>1, <2>2, <2>3
<1>2. UNCHANGED <<blockNumber, status>>
  BY DEF LatestIteration, LatestIterationFails, HistoricInserts
<1>3. Jobs' = Jobs
  BY <1>2 DEF Jobs
<1>4. QED
  BY <1>1, <1>2, <1>3 DEF Table!InsertLogs

\* The historic loop, at the grain of this module, marks open jobs only.
LEMMA MarksOpenJobs ==
  ASSUME IInv, NEW j \in Job, HistoricCompletes(j) \/ HistoricFails(j) \/ HistoricHangs(j)
  PROVE  Table!UpdateJobStatus
<1>1. PICK s \in {"pending", "failed", "completed"} :
        /\ status' = [status EXCEPT ![j] = s]
        /\ s # status[j] => s # "pending" /\ (s = "completed" => Historic(j) \subseteq logs)
  <2>1. status[j] \in {"pending", "failed", "completed"}
    BY DEF IInv, TypeOK
  <2>2. CASE HistoricCompletes(j)
    BY <2>2 DEF HistoricCompletes
  <2>3. CASE HistoricFails(j)
    BY <2>3 DEF HistoricFails
  <2>4. CASE HistoricHangs(j)
    <3>1. PICK s \in {status[j]} \cup (IF Historic(j) \subseteq logs THEN {"completed"} ELSE {}) :
            status' = [status EXCEPT ![j] = s]
      BY <2>4 DEF HistoricHangs
    <3>2. QED
      BY <2>1, <3>1
  <2>5. QED
    BY <2>2, <2>3, <2>4
<1>2. /\ j \in Jobs /\ status[j] # "completed"
      /\ UNCHANGED <<blockNumber, logs>>
  BY DEF HistoricCompletes, HistoricFails, HistoricHangs
<1>3. status \in [Job -> {"pending", "failed", "completed"}]
  BY DEF IInv, TypeOK
<1>4. /\ status' \in [Job -> {"pending", "failed", "completed"}]
      /\ status'[j] = s
      /\ \A i \in Job : i # j => status'[i] = status[i]
  BY <1>1, <1>3
<1>5. Table!Owed(j) = Historic(j)
  BY DEF Table!Owed, Historic
<1>6. Jobs' = Jobs
  BY <1>2 DEF Jobs
<1>7. QED
  BY <1>1, <1>2, <1>4, <1>5, <1>6 DEF Table!UpdateJobStatus

\* A start adds jobs at its own block and leaves those that are there as they are.
LEMMA StartAddsJobs ==
  ASSUME IInv, UpdateNewJobs
  PROVE  Table!AddJobs
<1>1. PICK supported \in SUBSET Job : InsertJobs(supported)
  BY DEF UpdateNewJobs
<1>2. next # None
  BY NoneAssumption DEF IInv, TypeOK
<1>3. /\ Jobs \subseteq Jobs' /\ Jobs' \subseteq Job
      /\ \A j \in Jobs : blockNumber'[j] = blockNumber[j]
  BY <1>1, <1>2 DEF InsertJobs, Jobs
<1>4. UNCHANGED <<status, logs>>
  BY DEF UpdateNewJobs
<1>5. QED
  BY <1>3, <1>4 DEF Table!AddJobs

\* Whatever is deployed, started, failed and crashed: a job keeps the block of the start
\* that added it, rows are events and stay, and "completed" is written once, when the
\* rows up to that block are there.
THEOREM ImplementsJobTable == Spec => RefinesJobTable
<1>1. Init => Table!Init
  BY DEF Init, Jobs, Table!Init
<1>2. IInv /\ [Next]_vars => [Table!Next]_<<Jobs, blockNumber, status, logs>>
  <2> SUFFICES ASSUME IInv, [Next]_vars
               PROVE  Table!Next \/ UNCHANGED <<Jobs, blockNumber, status, logs>>
    OBVIOUS
  <2>1. CASE LatestIteration \/ LatestIterationFails \/ \E j \in Job : HistoricInserts(j)
    BY <2>1, StoresEvents DEF Table!Next
  <2>2. CASE \E j \in Job : HistoricCompletes(j) \/ HistoricFails(j) \/ HistoricHangs(j)
    BY <2>2, MarksOpenJobs DEF Table!Next
  <2>3. CASE UpdateNewJobs
    BY <2>3, StartAddsJobs DEF Table!Next
  <2>4. CASE MineBlock \/ Start \/ FetchAllJobs \/ Crash \/ Expires \/ UNCHANGED vars
    <3>1. UNCHANGED <<blockNumber, status, logs>>
      BY <2>4 DEF MineBlock, Start, FetchAllJobs, Crash, Expires, vars, database
    <3>2. Jobs' = Jobs
      BY <3>1 DEF Jobs
    <3>3. QED
      BY <3>1, <3>2
  <2>5. QED
    BY <2>1, <2>2, <2>3, <2>4 DEF Next, Starting
<1>3. QED
  BY <1>1, <1>2, Invariance, PTL DEF Spec, RefinesJobTable, Table!Spec

----------------------------------------------------------------------------
(***************************************************************************)
(* When the pools are covered after all.  They are not in general, as a    *)
(* worker that ends before the first row begins again at a newer head.     *)
(***************************************************************************)

\* With one start without a checkpoint, no null answers, and batches of one block or no
\* crash, no event is passed over: the loops cover every block that the scan passed.
THEOREM PoolsCoveredWithoutLoss ==
  Spec => []((freshStarts <= 1 /\ nulls = 0 /\ (crashes = 0 \/ BatchSize = 1))
               => PoolsCovered)
<1>1. Spec => [](IInv /\ LossAccounted /\ LossBound)
  BY LossAccountedHolds, LossBoundHolds, Invariance, PTL
<1>2. ASSUME IInv, LossAccounted, LossBound,
             freshStarts <= 1, nulls = 0, crashes = 0 \/ BatchSize = 1
      PROVE  PoolsCovered
  <2>1. Cardinality(LostBlocks) \in Nat /\ IsFiniteSet(LostBlocks)
    BY <1>2, FS_CardinalityType DEF LossAccounted
  <2>2. crashes * (BatchSize - 1) = 0
    <3>1. crashes \in Nat /\ BatchSize \in Nat
      BY <1>2, BatchSizeAssumption DEF IInv, TypeOK
    <3>2. CASE crashes = 0
      BY <3>1, <3>2
    <3>3. CASE BatchSize = 1
      BY <3>1, <3>3
    <3>4. QED
      BY <1>2, <3>2, <3>3
  <2>3. Cardinality(LostBlocks) = 0
    BY <1>2, <2>1, <2>2 DEF LossBound, LostBlocks
  <2>4. LostBlocks = {}
    BY <2>1, <2>3, FS_EmptySet
  <2>5. lost = {}
    BY <2>4 DEF LostBlocks
  <2>6. QED
    BY <1>2, <2>5 DEF IInv, NothingMissed, PoolsCovered
<1>3. QED
  BY <1>1, <1>2, PTL
============================================================================
