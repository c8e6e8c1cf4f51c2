------------------------ MODULE MulticallQueueProofs ------------------------
(***************************************************************************)
(* Every call of MulticallQueue is sent once and answered with its own     *)
(* data, for every number of calls, tags and failures.                     *)
(***************************************************************************)
EXTENDS MulticallQueue, TLAPS

Queues == flushes \cup {pendingCalls}

InBatch(b, c) == \E k \in DOMAIN b.calls : b.calls[k] = c
In(q, c) == \E i \in DOMAIN q : InBatch(q[i], c)

\* A batch holds calls of its tag, each of them once, and is never empty.
BatchOK(b) ==
  /\ b \in Batch
  /\ Len(b.calls) \in 1..MaxBatchSize
  /\ \A k \in DOMAIN b.calls : TagOf[b.calls[k]] = b.blockTag
  /\ \A k, l \in DOMAIN b.calls : b.calls[k] = b.calls[l] => k = l

\* A queue has one batch for each of its tags.
WellFormed(q) ==
  /\ q \in Seq(Batch)
  /\ \A i \in DOMAIN q : BatchOK(q[i])
  /\ \A i, j \in DOMAIN q : q[i].blockTag = q[j].blockTag => i = j

\* A flush has something to send.
FlushesNotEmpty == <<>> \notin flushes /\ pendingCalls \notin flushes

QueuesWellFormed == \A q \in Queues : WellFormed(q)

\* No batch is kept back once it is full.
NoneFull == ~Full(pendingCalls)

\* Queues have no call in common.
QueuesApart ==
  \A q, r \in Queues : \A c \in Call : In(q, c) /\ In(r, c) => q = r

\* The calls in the queues are those whose promises wait, less those dropped.
QueuesWait ==
  \A c \in Call :
    (\E q \in Queues : In(q, c)) <=> (status[c] = "waiting" /\ c \notin dropped)

IInv ==
  /\ TypeOK
  /\ FlushesNotEmpty
  /\ QueuesWellFormed
  /\ NoneFull
  /\ QueuesApart
  /\ QueuesWait
  /\ TimerCoversQueue
  /\ OwnAnswer
  /\ DroppedBehindOtherTag

----------------------------------------------------------------------------
\* Lemmas about queues.

LEMMA EmptyQueue == WellFormed(<<>>) /\ \A c : ~In(<<>>, c)
BY DEF WellFormed, In

\* The calls of a well-formed queue are calls.
LEMMA InIsCall ==
  ASSUME NEW q, WellFormed(q), NEW c, In(q, c)
  PROVE  c \in Call
<1>1. PICK i \in DOMAIN q : InBatch(q[i], c)
  BY DEF In
<1>2. q[i] \in Batch
  BY DEF WellFormed, BatchOK
<1>3. QED
  BY <1>1, <1>2 DEF InBatch, Batch

\* A queue is its first batch and the rest, which share neither call nor tag.
LEMMA QueueHead ==
  ASSUME NEW q, WellFormed(q), q # <<>>
  PROVE  /\ BatchOK(Head(q)) /\ WellFormed(Tail(q))
         /\ \A c : In(q, c) <=> InBatch(Head(q), c) \/ In(Tail(q), c)
         /\ \A c : In(Tail(q), c) => TagOf[c] # Head(q).blockTag
         /\ \A c : InBatch(Head(q), c) => TagOf[c] = Head(q).blockTag
<1>1. /\ q \in Seq(Batch) /\ Len(q) \in Nat \ {0} /\ DOMAIN q = 1..Len(q)
      /\ Tail(q) \in Seq(Batch) /\ DOMAIN Tail(q) = 1..(Len(q) - 1)
      /\ Head(q) = q[1]
      /\ \A i \in 1..(Len(q) - 1) : Tail(q)[i] = q[i + 1]
  BY DEF WellFormed
<1>2. \A i \in DOMAIN q : i = 1 \/ (i - 1 \in DOMAIN Tail(q) /\ q[i] = Tail(q)[i - 1])
  BY <1>1
<1>3. \A i \in DOMAIN Tail(q) : i + 1 \in DOMAIN q /\ i + 1 # 1 /\ Tail(q)[i] = q[i + 1]
  BY <1>1
<1>4. 1 \in DOMAIN q
  BY <1>1
<1>5. BatchOK(Head(q))
  BY <1>1, <1>4 DEF WellFormed
<1>6. WellFormed(Tail(q))
  <2>1. \A i \in DOMAIN Tail(q) : BatchOK(Tail(q)[i])
    BY <1>3 DEF WellFormed
  <2>2. ASSUME NEW i \in DOMAIN Tail(q), NEW j \in DOMAIN Tail(q),
               Tail(q)[i].blockTag = Tail(q)[j].blockTag
        PROVE  i = j
    <3>1. i + 1 = j + 1
      BY <1>3, <2>2 DEF WellFormed
    <3>2. QED
      BY <1>1, <3>1
  <2>3. QED
    BY <1>1, <2>1, <2>2 DEF WellFormed
<1>7. ASSUME NEW c
      PROVE  In(q, c) <=> InBatch(Head(q), c) \/ In(Tail(q), c)
  <2>1. In(q, c) => InBatch(Head(q), c) \/ In(Tail(q), c)
    BY <1>1, <1>2 DEF In
  <2>2. InBatch(Head(q), c) \/ In(Tail(q), c) => In(q, c)
    BY <1>1, <1>3, <1>4 DEF In
  <2>3. QED
    BY <2>1, <2>2
<1>8. ASSUME NEW c, In(Tail(q), c)
      PROVE  TagOf[c] # Head(q).blockTag
  <2>1. PICK i \in DOMAIN Tail(q) : InBatch(Tail(q)[i], c)
    BY <1>8 DEF In
  <2>2. TagOf[c] = q[i + 1].blockTag
    BY <1>3, <2>1 DEF InBatch, WellFormed, BatchOK
  <2>3. QED
    BY <1>1, <1>3, <1>4, <2>2 DEF WellFormed
<1>9. \A c : InBatch(Head(q), c) => TagOf[c] = Head(q).blockTag
  BY <1>5 DEF InBatch, BatchOK
<1>10. QED
  BY <1>5, <1>6, <1>7, <1>8, <1>9

\* What queueCall makes of pendingCalls.
LEMMA WithCallQueue ==
  ASSUME IInv, NEW c \in Call, status[c] = "idle"
  PROVE  /\ WellFormed(WithCall(c)) /\ WithCall(c) # <<>>
         /\ \A d : In(WithCall(c), d) <=> In(pendingCalls, d) \/ d = c
<1> DEFINE p == pendingCalls
           tag == TagOf[c]
           w == WithCall(c)
<1>1. WellFormed(p) /\ p \in Seq(Batch) /\ tag \in Tag /\ DOMAIN p = 1..Len(p)
      /\ Len(p) \in Nat
  BY TagAssumption DEF IInv, QueuesWellFormed, Queues, WellFormed
<1>2. ~In(p, c)
  BY DEF IInv, QueuesWait, Queues
<1>3. \A i \in DOMAIN p : p[i] \in Batch /\ Len(p[i].calls) \in 1..(MaxBatchSize - 1)
  <2>1. \A i \in DOMAIN p : p[i] \in Batch /\ Len(p[i].calls) \in 1..MaxBatchSize
                            /\ ~(Len(p[i].calls) >= MaxBatchSize)
    BY <1>1 DEF WellFormed, BatchOK, IInv, NoneFull, Full
  <2>2. QED
    BY <2>1, SizeAssumption
<1>4. CASE \E i \in DOMAIN p : p[i].blockTag = tag
  <2>1. PICK t \in DOMAIN p : p[t].blockTag = tag
    BY <1>4
  <2> DEFINE b == [p[t] EXCEPT !.calls = Append(@, c)]
  <2>2. \A i \in DOMAIN p : i # t => p[i].blockTag # tag
    BY <1>1, <2>1 DEF WellFormed
  <2>3. w = [i \in DOMAIN p |-> IF i = t THEN b ELSE p[i]]
    BY <1>4, <2>1, <2>2 DEF WithCall
  <2>4. /\ p[t].calls \in Seq(Call) /\ Len(p[t].calls) \in Nat
        /\ Len(p[t].calls) \in 1..(MaxBatchSize - 1)
        /\ p[t] = [blockTag |-> tag, calls |-> p[t].calls]
    BY <1>3, <2>1 DEF Batch
  <2>5. b = [blockTag |-> tag, calls |-> Append(p[t].calls, c)]
    BY <2>4
  <2> DEFINE calls == Append(p[t].calls, c)
  <2>6a. /\ calls \in Seq(Call) /\ Len(calls) = Len(p[t].calls) + 1
         /\ DOMAIN calls = 1..(Len(p[t].calls) + 1)
         /\ DOMAIN p[t].calls = 1..Len(p[t].calls)
         /\ \A k \in DOMAIN p[t].calls : calls[k] = p[t].calls[k]
         /\ calls[Len(p[t].calls) + 1] = c
    BY <2>4
  <2>6b. b.blockTag = tag /\ b.calls = calls /\ b \in Batch
    BY <1>1, <2>5, <2>6a DEF Batch
  <2> HIDE DEF calls
  <2>6. /\ b.blockTag = tag /\ b.calls \in Seq(Call)
        /\ Len(b.calls) = Len(p[t].calls) + 1
        /\ DOMAIN b.calls = 1..(Len(p[t].calls) + 1)
        /\ DOMAIN p[t].calls = 1..Len(p[t].calls)
        /\ \A k \in DOMAIN p[t].calls : b.calls[k] = p[t].calls[k]
        /\ b.calls[Len(p[t].calls) + 1] = c
        /\ b \in Batch
    BY <2>6a, <2>6b
  <2> HIDE DEF b
  <2>7. \A k \in DOMAIN b.calls :
          \/ k = Len(p[t].calls) + 1 /\ b.calls[k] = c
          \/ k \in DOMAIN p[t].calls /\ b.calls[k] = p[t].calls[k]
    BY <2>4, <2>6
  <2>8. \A k \in DOMAIN p[t].calls : p[t].calls[k] # c
    BY <1>2 DEF In, InBatch
  <2>9. BatchOK(p[t])
    BY <1>1 DEF WellFormed
  <2>10. BatchOK(b)
    <3>1. Len(b.calls) \in 1..MaxBatchSize
      BY <2>4, <2>6, SizeAssumption
    <3>2. \A k \in DOMAIN b.calls : TagOf[b.calls[k]] = b.blockTag
      BY <2>1, <2>6, <2>7, <2>9 DEF BatchOK
    <3>3. \A k, l \in DOMAIN b.calls : b.calls[k] = b.calls[l] => k = l
      BY <2>7, <2>8, <2>9 DEF BatchOK
    <3>4. QED
      BY <2>6, <3>1, <3>2, <3>3 DEF BatchOK
  <2>11. /\ w \in Seq(Batch) /\ DOMAIN w = DOMAIN p
         /\ w[t] = b /\ \A i \in DOMAIN p : i # t => w[i] = p[i]
    BY <1>1, <2>3, <2>6
  <2>12. WellFormed(w)
    <3>1. \A i \in DOMAIN w : BatchOK(w[i])
      BY <1>1, <2>10, <2>11 DEF WellFormed
    <3>2. \A i \in DOMAIN w : w[i].blockTag = p[i].blockTag
      BY <2>1, <2>6, <2>11
    <3>3. \A i, j \in DOMAIN w : w[i].blockTag = w[j].blockTag => i = j
      BY <1>1, <2>11, <3>2 DEF WellFormed
    <3>4. QED
      BY <2>11, <3>1, <3>3 DEF WellFormed
  <2>13. \A d : InBatch(b, d) <=> InBatch(p[t], d) \/ d = c
    <3>1. \A d : InBatch(b, d) => InBatch(p[t], d) \/ d = c
      BY <2>7 DEF InBatch
    <3>2. \A d : InBatch(p[t], d) => InBatch(b, d)
      BY <2>4, <2>6 DEF InBatch
    <3>3. Len(p[t].calls) + 1 \in DOMAIN b.calls
      BY <2>4, <2>6
    <3>4. InBatch(b, c)
      BY <2>6, <3>3 DEF InBatch
    <3>5. QED
      BY <3>1, <3>2, <3>4
  <2>14. ASSUME NEW d PROVE In(w, d) <=> In(p, d) \/ d = c
    <3>1. In(w, d) => In(p, d) \/ d = c
      BY <2>11, <2>13 DEF In
    <3>2. In(p, d) \/ d = c => In(w, d)
      BY <2>11, <2>13 DEF In
    <3>3. QED
      BY <3>1, <3>2
  <2>15. w # <<>>
    BY <2>11
  <2>16. QED
    BY <2>12, <2>14, <2>15
<1>5. CASE ~\E i \in DOMAIN p : p[i].blockTag = tag
  <2> DEFINE b == [blockTag |-> tag, calls |-> <<c>>]
  <2>1. w = Append(p, b)
    BY <1>5 DEF WithCall
  <2>2. /\ b \in Batch /\ b.blockTag = tag /\ b.calls = <<c>>
        /\ DOMAIN b.calls = {1} /\ b.calls[1] = c /\ Len(b.calls) = 1
    BY <1>1 DEF Batch
  <2>3. BatchOK(b)
    <3>1. Len(b.calls) \in 1..MaxBatchSize
      BY <2>2, SizeAssumption
    <3>2. QED
      BY <2>2, <3>1 DEF BatchOK
  <2> HIDE DEF b
  <2>4. /\ w \in Seq(Batch) /\ DOMAIN w = 1..(Len(p) + 1) /\ w[Len(p) + 1] = b
        /\ \A i \in DOMAIN p : w[i] = p[i]
    BY <1>1, <2>1, <2>2
  <2>5. \A i \in DOMAIN w :
          \/ i = Len(p) + 1 /\ w[i] = b
          \/ i \in DOMAIN p /\ w[i] = p[i]
    BY <1>1, <2>4
  <2>6. Len(p) + 1 \in DOMAIN w /\ \A i \in DOMAIN p : i \in DOMAIN w
    BY <1>1, <2>4
  <2>7. WellFormed(w)
    <3>1. \A i \in DOMAIN w : BatchOK(w[i])
      BY <1>1, <2>3, <2>5 DEF WellFormed
    <3>2. \A i, j \in DOMAIN w : w[i].blockTag = w[j].blockTag => i = j
      BY <1>1, <1>5, <2>2, <2>5 DEF WellFormed
    <3>3. QED
      BY <2>4, <3>1, <3>2 DEF WellFormed
  <2>8. \A d : InBatch(b, d) <=> d = c
    BY <2>2 DEF InBatch
  <2>9. ASSUME NEW d PROVE In(w, d) <=> In(p, d) \/ d = c
    <3>1. In(w, d) => In(p, d) \/ d = c
      BY <2>5, <2>8 DEF In
    <3>2. In(p, d) \/ d = c => In(w, d)
      BY <2>4, <2>6, <2>8 DEF In
    <3>3. QED
      BY <3>1, <3>2
  <2>10. w # <<>>
    BY <2>6
  <2>11. QED
    BY <2>7, <2>9, <2>10
<1>6. QED
  BY <1>4, <1>5

LEMMA NonEmptyHasCall ==
  ASSUME NEW q, WellFormed(q), q # <<>>
  PROVE  \E c \in Call : InBatch(Head(q), c) /\ In(q, c)
<1>1. BatchOK(Head(q)) /\ \A c : InBatch(Head(q), c) => In(q, c)
  BY QueueHead
<1> DEFINE calls == Head(q).calls
<1>2. calls \in Seq(Call) /\ Len(calls) \in 1..MaxBatchSize
  BY <1>1 DEF BatchOK, Batch
<1>3. 1 \in DOMAIN calls /\ calls[1] \in Call
  BY <1>2, SizeAssumption
<1>4. InBatch(Head(q), calls[1])
  BY <1>3 DEF InBatch
<1>5. QED
  BY <1>1, <1>3, <1>4

\* The first batch of a flush, and what it sends.
LEMMA SentCalls ==
  ASSUME IInv, NEW f \in flushes
  PROVE  /\ f \in Queues /\ f # <<>> /\ f # pendingCalls /\ WellFormed(f)
         /\ Sent(f) \in Seq(Call)
         /\ \A k, l \in DOMAIN Sent(f) : Sent(f)[k] = Sent(f)[l] => k = l
         /\ \A c : c \in ToSet(Sent(f)) <=> InBatch(Head(f), c)
         /\ \A c : c \in Behind(f) <=> In(Tail(f), c)
<1>1. f \in Queues /\ f # <<>> /\ f # pendingCalls /\ WellFormed(f)
  BY DEF IInv, FlushesNotEmpty, QueuesWellFormed, Queues
<1>2. BatchOK(Head(f)) /\ WellFormed(Tail(f))
  BY <1>1, QueueHead
<1>3. /\ Sent(f) \in Seq(Call)
      /\ \A k, l \in DOMAIN Sent(f) : Sent(f)[k] = Sent(f)[l] => k = l
  BY <1>2 DEF Sent, BatchOK, Batch
<1>4. \A c : c \in ToSet(Sent(f)) <=> InBatch(Head(f), c)
  BY DEF ToSet, InBatch, Sent
<1>5. \A c : c \in Behind(f) <=> In(Tail(f), c)
  BY DEF Behind, ToSet, In, InBatch
<1>6. QED
  BY <1>1, <1>3, <1>4, <1>5

\* Settling by position gives each promise the result of its own call.
LEMMA SettleOwn ==
  ASSUME TypeOK, NEW calls \in Seq(Call), NEW failing,
         \A k, l \in DOMAIN calls : calls[k] = calls[l] => k = l,
         Settle(calls, Results(calls, failing))
  PROVE  /\ status' \in [Call -> {"idle", "waiting", "resolved", "rejected"}]
         /\ returned' \in [Call -> Call \cup {None}]
         /\ \A c \in Call : c \notin ToSet(calls) =>
              status'[c] = status[c] /\ returned'[c] = returned[c]
         /\ \A c \in ToSet(calls) :
              \/ status'[c] = "resolved" /\ returned'[c] = c
              \/ status'[c] = "rejected" /\ returned'[c] = returned[c]
<1> DEFINE results == Results(calls, failing)
           answered == {calls[i] : i \in DOMAIN results}
           result == [c \in answered |->
                        results[CHOOSE i \in DOMAIN results : calls[i] = c]]
<1>1. DOMAIN results = DOMAIN calls /\ answered = ToSet(calls)
  BY DEF Results, ToSet
<1>2. ASSUME NEW c \in ToSet(calls)
      PROVE  c \in Call /\ result[c].returnData = c
  <2>1. \E i \in DOMAIN results : calls[i] = c
    BY <1>1
  <2> DEFINE n == CHOOSE i \in DOMAIN results : calls[i] = c
  <2>2. n \in DOMAIN results /\ calls[n] = c
    BY <2>1
  <2>3. result[c] = results[n]
    BY <1>1
  <2> HIDE DEF n
  <2>4. results[n].returnData = calls[n]
    BY <1>1, <2>2 DEF Results
  <2>5. c \in Call
    BY <1>1, <2>2
  <2>6. QED
    BY <2>2, <2>3, <2>4, <2>5
<1>3. /\ status' = [c \in Call |->
           IF c \notin answered THEN status[c]
           ELSE IF result[c].success THEN "resolved" ELSE "rejected"]
      /\ returned' = [c \in Call |->
           IF c \in answered /\ result[c].success
             THEN result[c].returnData ELSE returned[c]]
  BY DEF Settle
<1> HIDE DEF results, answered, result
<1>4. /\ status \in [Call -> {"idle", "waiting", "resolved", "rejected"}]
      /\ returned \in [Call -> Call \cup {None}]
  BY DEF TypeOK
<1>5. /\ status' \in [Call -> {"idle", "waiting", "resolved", "rejected"}]
      /\ returned' \in [Call -> Call \cup {None}]
  BY <1>1, <1>2, <1>3, <1>4
<1>6. \A c \in Call : c \notin ToSet(calls) =>
        status'[c] = status[c] /\ returned'[c] = returned[c]
  BY <1>1, <1>3
<1>7. \A c \in ToSet(calls) :
        \/ status'[c] = "resolved" /\ returned'[c] = c
        \/ status'[c] = "rejected" /\ returned'[c] = returned[c]
  BY <1>1, <1>2, <1>3
<1>8. QED
  BY <1>5, <1>6, <1>7
----------------------------------------------------------------------------
LEMMA InitEstablishes == Init => IInv
<1> SUFFICES ASSUME Init PROVE IInv
  OBVIOUS
<1>1. Queues = {<<>>} /\ flushes = {} /\ pendingCalls = <<>> /\ dropped = {}
  BY DEF Init, Queues
<1>2. TypeOK
  <2>1. pendingCalls \in Seq(Batch) /\ flushes = {} /\ timer = FALSE
    BY DEF Init
  <2>2. /\ status \in [Call -> {"idle", "waiting", "resolved", "rejected"}]
        /\ returned \in [Call -> Call \cup {None}]
        /\ dropped \subseteq Call /\ faults \in Nat
    BY DEF Init
  <2>3. QED
    BY <2>1, <2>2, Zenon DEF TypeOK
<1>3. QueuesWellFormed /\ QueuesApart /\ QueuesWait
  BY <1>1, EmptyQueue DEF Init, QueuesWellFormed, QueuesApart, QueuesWait
<1>4. NoneFull
  BY <1>1 DEF NoneFull, Full
<1>5. QED
  BY <1>1, <1>2, <1>3, <1>4 DEF Init, IInv, FlushesNotEmpty, TimerCoversQueue,
     OwnAnswer, DroppedBehindOtherTag

\* A call that is queued joins pendingCalls, which then waits or is flushed.
LEMMA QueueStepPreserves ==
  ASSUME IInv, NEW c \in Call, QueueFills(c) \/ QueueCall(c)
  PROVE  IInv'
<1> DEFINE w == WithCall(c)
<1>1. /\ status[c] = "idle" /\ status' = [status EXCEPT ![c] = "waiting"]
      /\ UNCHANGED <<returned, dropped, faults>>
  BY DEF QueueFills, QueueCall
<1>2. /\ WellFormed(w) /\ w # <<>>
      /\ \A d : In(w, d) <=> In(pendingCalls, d) \/ d = c
  BY <1>1, WithCallQueue
<1> HIDE DEF w
<1>3. /\ status \in [Call -> {"idle", "waiting", "resolved", "rejected"}]
      /\ status'[c] = "waiting" /\ \A d \in Call : d # c => status'[d] = status[d]
      /\ status' \in [Call -> {"idle", "waiting", "resolved", "rejected"}]
  BY <1>1 DEF IInv, TypeOK
<1>4. \A q \in flushes : ~In(q, c)
  BY <1>1 DEF IInv, QueuesWait, Queues
<1>5. w \notin flushes
  BY <1>2, <1>4
<1>6. c \notin dropped
  BY <1>1 DEF IInv, DroppedBehindOtherTag
<1>7. \A q \in flushes : \A d \in Call : ~(In(q, d) /\ In(w, d))
  <2> SUFFICES ASSUME NEW q \in flushes, NEW d \in Call, In(q, d), In(w, d)
               PROVE  FALSE
    OBVIOUS
  <2>1. d # c /\ In(pendingCalls, d)
    BY <1>2, <1>4
  <2>2. q = pendingCalls
    BY <2>1 DEF IInv, QueuesApart, Queues
  <2>3. QED
    BY <2>2 DEF IInv, FlushesNotEmpty
<1>8. \A d \in Call : (In(w, d) \/ \E q \in flushes : In(q, d))
                         <=> (status'[d] = "waiting" /\ d \notin dropped)
  <2> SUFFICES ASSUME NEW d \in Call
               PROVE  (In(w, d) \/ \E q \in flushes : In(q, d))
                         <=> (status'[d] = "waiting" /\ d \notin dropped)
    OBVIOUS
  <2>1. CASE d = c
    BY <1>2, <1>3, <1>6, <2>1
  <2>2. CASE d # c
    BY <1>2, <1>3, <2>2 DEF IInv, QueuesWait, Queues
  <2>3. QED
    BY <2>1, <2>2
<1>9. OwnAnswer'
  BY <1>1, <1>3 DEF IInv, OwnAnswer
<1>10. DroppedBehindOtherTag'
  BY <1>1, <1>3 DEF IInv, TypeOK, DroppedBehindOtherTag
<1>11. \A i \in DOMAIN w : Len(w[i].calls) \in 1..MaxBatchSize
  BY <1>2 DEF WellFormed, BatchOK
<1>12. w \in Seq(Batch)
  BY <1>2 DEF WellFormed
<1>13. CASE QueueFills(c)
  <2>1. /\ pendingCalls' = <<>> /\ flushes' = flushes \cup {w} /\ timer' = timer
    BY <1>13 DEF QueueFills, w
  <2>2. Queues' = flushes \cup {w, <<>>}
    BY <2>1 DEF Queues
  <2>3. TypeOK'
    BY <1>1, <1>3, <1>11, <1>12, <2>1 DEF IInv, TypeOK
  <2>4. FlushesNotEmpty'
    BY <1>2, <2>1 DEF IInv, FlushesNotEmpty
  <2>5. QueuesWellFormed'
    BY <1>2, <2>2, EmptyQueue DEF IInv, QueuesWellFormed, Queues
  <2>6. NoneFull'
    BY <2>1 DEF NoneFull, Full
  <2>7. QueuesApart'
    BY <1>7, <2>2, EmptyQueue DEF IInv, QueuesApart, Queues
  <2>8. QueuesWait'
    BY <1>1, <1>8, <2>2, EmptyQueue DEF QueuesWait
  <2>9. TimerCoversQueue'
    BY <2>1 DEF TimerCoversQueue
  <2>10. QED
    BY <1>9, <1>10, <2>3, <2>4, <2>5, <2>6, <2>7, <2>8, <2>9 DEF IInv
<1>14. CASE QueueCall(c)
  <2>1. /\ pendingCalls' = w /\ flushes' = flushes /\ timer' = TRUE /\ ~Full(w)
    BY <1>14 DEF QueueCall, w
  <2>2. Queues' = flushes \cup {w}
    BY <2>1 DEF Queues
  <2>3. TypeOK'
    BY <1>1, <1>3, <1>12, <2>1 DEF IInv, TypeOK
  <2>4. FlushesNotEmpty'
    BY <1>5, <2>1 DEF IInv, FlushesNotEmpty
  <2>5. QueuesWellFormed'
    BY <1>2, <2>2 DEF IInv, QueuesWellFormed, Queues
  <2>6. NoneFull'
    BY <2>1 DEF NoneFull, Full
  <2>7. QueuesApart'
    BY <1>7, <2>2 DEF IInv, QueuesApart, Queues
  <2>8. QueuesWait'
    BY <1>1, <1>8, <2>2 DEF QueuesWait
  <2>9. TimerCoversQueue'
    BY <2>1 DEF TimerCoversQueue
  <2>10. QED
    BY <1>9, <1>10, <2>3, <2>4, <2>5, <2>6, <2>7, <2>8, <2>9 DEF IInv
<1>15. QED
  BY <1>13, <1>14

\* The timer turns pendingCalls into a flush.
LEMMA TimerStepPreserves ==
  ASSUME IInv, TimerFires
  PROVE  IInv'
<1>1. /\ pendingCalls' = <<>> /\ timer' = FALSE
      /\ flushes' = flushes \cup ({pendingCalls} \ {<<>>})
      /\ UNCHANGED <<status, returned, dropped, faults>>
  BY DEF TimerFires
<1>2. Queues' = Queues \cup {<<>>}
  BY <1>1 DEF Queues
<1>3. TypeOK'
  <2>1. WellFormed(pendingCalls)
    BY DEF IInv, QueuesWellFormed, Queues
  <2>2. /\ pendingCalls \in Seq(Batch)
        /\ \A i \in DOMAIN pendingCalls :
             Len(pendingCalls[i].calls) \in 1..MaxBatchSize
    BY <2>1 DEF WellFormed, BatchOK
  <2>3. flushes' \subseteq Seq(Batch) /\ pendingCalls' \in Seq(Batch)
    BY <1>1, <2>2 DEF IInv, TypeOK
  <2>4. \A f \in flushes' : \A i \in DOMAIN f : Len(f[i].calls) \in 1..MaxBatchSize
    BY <1>1, <2>2 DEF IInv, TypeOK
  <2>5. timer' \in BOOLEAN
    BY <1>1
  <2>6. QED
    BY <1>1, <2>3, <2>4, <2>5 DEF IInv, TypeOK
<1>4. FlushesNotEmpty'
  BY <1>1 DEF IInv, FlushesNotEmpty
<1>5. QueuesWellFormed'
  BY <1>2, EmptyQueue DEF IInv, QueuesWellFormed
<1>6. NoneFull'
  BY <1>1 DEF NoneFull, Full
<1>7. QueuesApart'
  BY <1>2, EmptyQueue DEF IInv, QueuesApart
<1>8. QueuesWait'
  BY <1>1, <1>2, EmptyQueue DEF IInv, QueuesWait
<1>9. QED
  BY <1>1, <1>3, <1>4, <1>5, <1>6, <1>7, <1>8
     DEF IInv, TimerCoversQueue, OwnAnswer, DroppedBehindOtherTag

\* A flush that sent its first batch: what is left of it, and what the promises
\* of that batch were.
LEMMA SentStep ==
  ASSUME IInv, NEW f \in flushes
  PROVE  /\ \A c \in ToSet(Sent(f)) :
              /\ c \in Call /\ status[c] = "waiting" /\ c \notin dropped
              /\ returned[c] = None /\ ~In(Tail(f), c)
              /\ \A q \in Queues \ {f} : ~In(q, c)
         /\ \A c \in Behind(f) :
              /\ c \in Call /\ status[c] = "waiting" /\ c \notin dropped
              /\ c \notin ToSet(Sent(f))
              /\ \A q \in Queues \ {f} : ~In(q, c)
         /\ \A c \in Call : In(f, c) <=> c \in ToSet(Sent(f)) \/ c \in Behind(f)
<1>1. /\ f \in Queues /\ f # <<>> /\ WellFormed(f)
      /\ \A c : c \in ToSet(Sent(f)) <=> InBatch(Head(f), c)
      /\ \A c : c \in Behind(f) <=> In(Tail(f), c)
  BY SentCalls
<1>2. /\ \A c : In(f, c) <=> InBatch(Head(f), c) \/ In(Tail(f), c)
      /\ \A c : In(Tail(f), c) => TagOf[c] # Head(f).blockTag
      /\ \A c : InBatch(Head(f), c) => TagOf[c] = Head(f).blockTag
  BY <1>1, QueueHead
<1>3. \A c : In(f, c) => c \in Call
  BY <1>1, InIsCall
<1>4. \A c : In(f, c) => /\ status[c] = "waiting" /\ c \notin dropped
                         /\ \A q \in Queues \ {f} : ~In(q, c)
  BY <1>1, <1>3 DEF IInv, QueuesWait, QueuesApart
<1>5. \A c \in Call : status[c] = "waiting" => returned[c] = None
  BY DEF IInv, OwnAnswer
<1>6. QED
  BY <1>1, <1>2, <1>3, <1>4, <1>5

\* The first batch of a flush is answered.
LEMMA AnswerStepPreserves ==
  ASSUME IInv, NEW f \in flushes, Answered(f)
  PROVE  IInv'
<1> DEFINE sent == ToSet(Sent(f))
           rest == Tail(f)
<1>1. /\ f \in Queues /\ f # <<>> /\ f # pendingCalls /\ WellFormed(f)
      /\ WellFormed(rest)
      /\ \A c : In(rest, c) <=> c \in Behind(f)
  BY SentCalls, QueueHead
<1>2. /\ \A c \in sent :
           /\ c \in Call /\ status[c] = "waiting" /\ c \notin dropped
           /\ returned[c] = None /\ ~In(rest, c)
           /\ \A q \in Queues \ {f} : ~In(q, c)
      /\ \A c \in Behind(f) : \A q \in Queues \ {f} : ~In(q, c)
      /\ \A c \in Call : In(f, c) <=> c \in sent \/ In(rest, c)
  BY <1>1, SentStep
<1>3. /\ status' \in [Call -> {"idle", "waiting", "resolved", "rejected"}]
      /\ returned' \in [Call -> Call \cup {None}]
      /\ \A c \in Call : c \notin sent =>
           status'[c] = status[c] /\ returned'[c] = returned[c]
      /\ \A c \in sent :
           \/ status'[c] = "resolved" /\ returned'[c] = c
           \/ status'[c] = "rejected" /\ returned'[c] = returned[c]
  <2>1. PICK failing \in SUBSET sent : Settle(Sent(f), Results(Sent(f), failing))
    BY DEF Answered
  <2>2. TypeOK /\ Sent(f) \in Seq(Call)
        /\ \A k, l \in DOMAIN Sent(f) : Sent(f)[k] = Sent(f)[l] => k = l
    BY SentCalls DEF IInv
  <2>3. QED
    BY <2>1, <2>2, SettleOwn
<1>4. /\ flushes' = (flushes \ {f}) \cup ({rest} \ {<<>>})
      /\ UNCHANGED <<pendingCalls, timer, dropped, faults>>
  BY DEF Answered
<1> HIDE DEF sent, rest
<1>5. /\ Queues' \subseteq (Queues \ {f}) \cup {rest}
      /\ Queues \ {f} \subseteq Queues'
      /\ rest # <<>> => rest \in Queues'
  BY <1>1, <1>4 DEF Queues
<1>6. TypeOK'
  <2>1. rest \in Seq(Batch) /\ \A i \in DOMAIN rest : Len(rest[i].calls) \in 1..MaxBatchSize
    BY <1>1 DEF WellFormed, BatchOK
  <2>2. flushes' \subseteq Seq(Batch)
    BY <1>4, <2>1 DEF IInv, TypeOK
  <2>3. \A g \in flushes' : \A i \in DOMAIN g : Len(g[i].calls) \in 1..MaxBatchSize
    BY <1>4, <2>1 DEF IInv, TypeOK
  <2>4. QED
    BY <1>3, <1>4, <2>2, <2>3 DEF IInv, TypeOK
<1>7. FlushesNotEmpty'
  <2>1. rest # <<>> => rest # pendingCalls
    <3> SUFFICES ASSUME rest # <<>>, rest = pendingCalls PROVE FALSE
      OBVIOUS
    <3>1. PICK c \in Call : In(rest, c)
      BY <1>1, NonEmptyHasCall
    <3>2. c \in Behind(f) /\ pendingCalls \in Queues \ {f}
      BY <1>1, <3>1 DEF Queues
    <3>3. QED
      BY <1>2, <3>1, <3>2
  <2>2. QED
    BY <1>4, <2>1 DEF IInv, FlushesNotEmpty
<1>8. QueuesWellFormed'
  BY <1>1, <1>5 DEF IInv, QueuesWellFormed
<1>9. NoneFull'
  BY <1>4 DEF IInv, NoneFull, Full
<1>10. QueuesApart'
  <2> SUFFICES ASSUME NEW q \in Queues', NEW r \in Queues', NEW c \in Call,
                      In(q, c), In(r, c)
               PROVE  q = r
    BY DEF QueuesApart
  <2>1. CASE q \in Queues \ {f} /\ r \in Queues \ {f}
    BY <2>1 DEF IInv, QueuesApart
  <2>2. CASE q = rest \/ r = rest
    BY <1>1, <1>2, <1>5, <2>2
  <2>3. QED
    BY <1>5, <2>1, <2>2
<1>11. QueuesWait'
  <2> SUFFICES ASSUME NEW c \in Call
               PROVE  (\E q \in Queues' : In(q, c))
                        <=> (status'[c] = "waiting" /\ c \notin dropped)
    BY <1>4 DEF QueuesWait
  <2>1. CASE c \in sent
    BY <1>2, <1>3, <1>5, <2>1
  <2>2. CASE c \notin sent
    <3>1. (\E q \in Queues' : In(q, c)) <=> (\E q \in Queues : In(q, c))
      <4>1. In(rest, c) => rest # <<>>
        BY EmptyQueue
      <4>2. In(f, c) <=> In(rest, c)
        BY <1>2, <2>2
      <4>3. QED
        BY <1>1, <1>5, <4>1, <4>2
    <3>2. QED
      BY <1>3, <2>2, <3>1 DEF IInv, QueuesWait
  <2>3. QED
    BY <2>1, <2>2
<1>12. TimerCoversQueue'
  BY <1>4 DEF IInv, TimerCoversQueue
<1>13. OwnAnswer'
  <2> SUFFICES ASSUME NEW c \in Call
               PROVE  returned'[c] = (IF status'[c] = "resolved" THEN c ELSE None)
    BY DEF OwnAnswer
  <2>1. CASE c \in sent
    BY <1>2, <1>3, <2>1
  <2>2. CASE c \notin sent
    BY <1>3, <2>2 DEF IInv, OwnAnswer
  <2>3. QED
    BY <2>1, <2>2
<1>14. DroppedBehindOtherTag'
  <2>1. \A c \in Call : c \in dropped \/ status[c] = "rejected" => c \notin sent
    BY <1>2
  <2>2. QED
    BY <1>3, <1>4, <2>1 DEF IInv, TypeOK, DroppedBehindOtherTag
<1>15. QED
  BY <1>6, <1>7, <1>8, <1>9, <1>10, <1>11, <1>12, <1>13, <1>14 DEF IInv

\* The request for the first batch of a flush fails.
LEMMA RejectStepPreserves ==
  ASSUME IInv, NEW f \in flushes, RejectAndReturn(f), faults' \in Nat
  PROVE  IInv'
<1> DEFINE sent == ToSet(Sent(f))
<1>1. /\ f \in Queues /\ f # <<>> /\ f # pendingCalls /\ WellFormed(f)
      /\ \A c : c \in sent <=> InBatch(Head(f), c)
      /\ \A c : c \in Behind(f) <=> In(Tail(f), c)
  BY SentCalls
<1>2. /\ \A c \in sent :
           /\ c \in Call /\ status[c] = "waiting" /\ c \notin dropped
           /\ returned[c] = None
           /\ \A q \in Queues \ {f} : ~In(q, c)
      /\ \A c \in Behind(f) :
           /\ c \in Call /\ status[c] = "waiting" /\ c \notin dropped
           /\ c \notin sent
           /\ \A q \in Queues \ {f} : ~In(q, c)
      /\ \A c \in Call : In(f, c) <=> c \in sent \/ c \in Behind(f)
  BY <1>1, SentStep
<1>3. /\ status' = [c \in Call |-> IF c \in sent THEN "rejected" ELSE status[c]]
      /\ flushes' = flushes \ {f}
      /\ dropped' = dropped \cup Behind(f)
      /\ UNCHANGED <<pendingCalls, timer, returned>>
  BY DEF RejectAndReturn
<1>4. PICK d \in sent : TagOf[d] = Head(f).blockTag
  BY <1>1, NonEmptyHasCall, QueueHead
<1>5. \A c \in Behind(f) : TagOf[c] # Head(f).blockTag
  BY <1>1, QueueHead
<1> HIDE DEF sent
<1>6. Queues' = Queues \ {f}
  BY <1>1, <1>3 DEF Queues
<1>7. TypeOK'
  BY <1>2, <1>3 DEF IInv, TypeOK
<1>8. FlushesNotEmpty' /\ QueuesWellFormed' /\ QueuesApart'
  BY <1>3, <1>6 DEF IInv, FlushesNotEmpty, QueuesWellFormed, QueuesApart
<1>9. QueuesWait'
  <2> SUFFICES ASSUME NEW c \in Call
               PROVE  (\E q \in Queues \ {f} : In(q, c))
                        <=> (status'[c] = "waiting" /\ c \notin dropped')
    BY <1>6 DEF QueuesWait
  <2>1. CASE c \in sent
    BY <1>2, <1>3, <2>1
  <2>2. CASE c \in Behind(f)
    BY <1>2, <1>3, <2>2
  <2>3. CASE c \notin sent /\ c \notin Behind(f)
    <3>1. ~In(f, c) /\ status'[c] = status[c]
      BY <1>2, <1>3, <2>3
    <3>2. QED
      BY <1>3, <2>3, <3>1 DEF IInv, QueuesWait
  <2>4. QED
    BY <2>1, <2>2, <2>3
<1>10. NoneFull' /\ TimerCoversQueue'
  BY <1>3 DEF IInv, NoneFull, Full, TimerCoversQueue
<1>11. OwnAnswer'
  BY <1>2, <1>3 DEF IInv, OwnAnswer
<1>12. DroppedBehindOtherTag'
  <2> SUFFICES ASSUME NEW c \in dropped'
               PROVE  /\ status'[c] = "waiting"
                      /\ \E e \in Call : TagOf[e] # TagOf[c] /\ status'[e] = "rejected"
    BY DEF DroppedBehindOtherTag
  <2>1. CASE c \in Behind(f)
    <3>1. status'[c] = "waiting"
      BY <1>2, <1>3, <2>1
    <3>2. d \in Call /\ TagOf[d] # TagOf[c] /\ status'[d] = "rejected"
      BY <1>2, <1>3, <1>4, <1>5, <2>1
    <3>3. QED
      BY <3>1, <3>2
  <2>2. CASE c \in dropped
    <3>1. c \in Call /\ c \notin sent
      BY <1>2, <2>2 DEF IInv, TypeOK
    <3>2. QED
      BY <1>3, <2>2, <3>1 DEF IInv, DroppedBehindOtherTag
  <2>3. QED
    BY <1>3, <2>1, <2>2
<1>13. QED
  BY <1>7, <1>8, <1>9, <1>10, <1>11, <1>12 DEF IInv

LEMMA StepPreserves == IInv /\ [Next]_vars => IInv'
<1> SUFFICES ASSUME IInv, [Next]_vars PROVE IInv'
  OBVIOUS
<1>1. CASE \E c \in Call : QueueFills(c) \/ QueueCall(c)
  BY <1>1, QueueStepPreserves
<1>2. CASE TimerFires
  BY <1>2, TimerStepPreserves
<1>3. CASE Flushing
  BY <1>3, AnswerStepPreserves DEF Flushing
<1>4. CASE \E f \in flushes : RequestFails(f) \/ ShortAnswer(f)
  <2>1. PICK f \in flushes : Fault /\ RejectAndReturn(f)
    BY <1>4 DEF RequestFails, ShortAnswer
  <2>2. faults' \in Nat
    BY <2>1 DEF Fault, IInv, TypeOK
  <2>3. QED
    BY <2>1, <2>2, RejectStepPreserves
<1>5. CASE UNCHANGED vars
  BY <1>5 DEF vars, IInv, TypeOK, FlushesNotEmpty, QueuesWellFormed, Queues,
     NoneFull, Full, QueuesApart, QueuesWait, TimerCoversQueue, OwnAnswer,
     DroppedBehindOtherTag
<1>6. QED
  BY <1>1, <1>2, <1>3, <1>4, <1>5 DEF Next

THEOREM Invariance == Spec => []IInv
  BY InitEstablishes, StepPreserves, PTL DEF Spec

\* No request has more calls than the provider is configured for, or none.
THEOREM TypeCorrect == Spec => []TypeOK
<1>1. IInv => TypeOK
  BY DEF IInv
<1>2. QED
  BY <1>1, Invariance, PTL

\* A call in a well-formed queue is at one place of it.
LEMMA OnePlaceInQueue ==
  ASSUME NEW q, WellFormed(q), NEW c,
         NEW i \in DOMAIN q, NEW j \in DOMAIN q,
         NEW k \in DOMAIN q[i].calls, NEW l \in DOMAIN q[j].calls,
         q[i].calls[k] = c, q[j].calls[l] = c
  PROVE  i = j /\ k = l
<1>1. q[i].blockTag = TagOf[c] /\ q[j].blockTag = TagOf[c]
  BY DEF WellFormed, BatchOK
<1>2. i = j
  BY <1>1 DEF WellFormed
<1>3. QED
  BY <1>2 DEF WellFormed, BatchOK

\* A promise waits exactly while its call is in one batch of one queue, or was
\* dropped: no call is sent twice and none gets lost between queue and flush.
THEOREM InOnePlaceHolds == Spec => []InOnePlace
<1>1. ASSUME IInv PROVE InOnePlace
  <2> SUFFICES ASSUME NEW c \in Call
               PROVE  IF status[c] = "waiting" /\ c \notin dropped
                        THEN \E p \in Places(c) : Places(c) = {p}
                        ELSE Places(c) = {}
    BY DEF InOnePlace
  <2>1. \A p : p \in Places(c) <=>
          \E q \in Queues : \E i \in DOMAIN q : \E k \in DOMAIN q[i].calls :
            q[i].calls[k] = c /\ p = <<q, i, k>>
    BY DEF Places, Queues
  <2>2. (\E p : p \in Places(c)) <=> \E q \in Queues : In(q, c)
    BY <2>1 DEF In, InBatch
  <2>3. ASSUME NEW p \in Places(c), NEW r \in Places(c)
        PROVE  p = r
    <3>1. PICK q \in Queues : \E i \in DOMAIN q : \E k \in DOMAIN q[i].calls :
                                q[i].calls[k] = c /\ p = <<q, i, k>>
      BY <2>1
    <3>2. PICK i \in DOMAIN q : \E k \in DOMAIN q[i].calls :
                 q[i].calls[k] = c /\ p = <<q, i, k>>
      BY <3>1
    <3>2a. PICK k \in DOMAIN q[i].calls : q[i].calls[k] = c /\ p = <<q, i, k>>
      BY <3>2
    <3>3. PICK s \in Queues : \E j \in DOMAIN s : \E l \in DOMAIN s[j].calls :
                                s[j].calls[l] = c /\ r = <<s, j, l>>
      BY <2>1
    <3>4. PICK j \in DOMAIN s : \E l \in DOMAIN s[j].calls :
                 s[j].calls[l] = c /\ r = <<s, j, l>>
      BY <3>3
    <3>4a. PICK l \in DOMAIN s[j].calls : s[j].calls[l] = c /\ r = <<s, j, l>>
      BY <3>4
    <3>5. q = s
      BY <1>1, <3>2a, <3>4a DEF In, InBatch, IInv, QueuesApart
    <3>6. i = j /\ k = l
      BY <1>1, <3>2a, <3>4a, <3>5, OnePlaceInQueue DEF IInv, QueuesWellFormed
    <3>7. QED
      BY <3>2a, <3>4a, <3>5, <3>6
  <2>4. (status[c] = "waiting" /\ c \notin dropped) <=> \E p : p \in Places(c)
    BY <1>1, <2>2 DEF IInv, QueuesWait
  <2>5. CASE status[c] = "waiting" /\ c \notin dropped
    <3>1. PICK p : p \in Places(c)
      BY <2>4, <2>5
    <3>2. Places(c) = {p}
      BY <2>3, <3>1
    <3>3. QED
      BY <2>5, <3>1, <3>2
  <2>6. CASE ~(status[c] = "waiting" /\ c \notin dropped)
    BY <2>4, <2>6
  <2>7. QED
    BY <2>5, <2>6
<1>2. QED
  BY <1>1, Invariance, PTL

\* Calls that wait to be sent have a timer, however full batches and the timer
\* interleave.
THEOREM TimerCoversQueueHolds == Spec => []TimerCoversQueue
<1>1. IInv => TimerCoversQueue
  BY DEF IInv
<1>2. QED
  BY <1>1, Invariance, PTL

\* A promise is resolved only with the return data of its own call.
THEOREM OwnAnswerHolds == Spec => []OwnAnswer
<1>1. IInv => OwnAnswer
  BY DEF IInv
<1>2. QED
  BY <1>1, Invariance, PTL

\* A failing request drops no call of its own block tag.
THEOREM DroppedBehindOtherTagHolds == Spec => []DroppedBehindOtherTag
<1>1. IInv => DroppedBehindOtherTag
  BY DEF IInv
<1>2. QED
  BY <1>1, Invariance, PTL

----------------------------------------------------------------------------
(***************************************************************************)
(* What SettledOrDropped says when fairness is taken away: a call that     *)
(* waits has something under way that will settle it, and what is settled  *)
(* stays as it is.                                                         *)
(***************************************************************************)

NothingUnderWay == ~timer /\ flushes = {}

\* When no timer is set and no flush is running, the only calls still waiting are the
\* ones that a failing request of another tag dropped.
THEOREM NobodyIsForgotten ==
  Spec => [](NothingUnderWay => \A c \in Call : status[c] = "waiting" => c \in dropped)
<1>1. IInv => (NothingUnderWay => \A c \in Call : status[c] = "waiting" => c \in dropped)
  <2> SUFFICES ASSUME IInv, NothingUnderWay, NEW c \in Call, status[c] = "waiting"
               PROVE  c \in dropped
    OBVIOUS
  <2>1. Queues = {<<>>}
    BY DEF NothingUnderWay, IInv, TimerCoversQueue, Queues
  <2>2. ~\E q \in Queues : In(q, c)
    BY <2>1, EmptyQueue
  <2>3. QED
    BY <2>2 DEF IInv, QueuesWait
<1>2. QED
  BY <1>1, Invariance, PTL

\* With a single block tag no call is dropped, however many requests fail: there, when
\* nothing is under way, every call made is settled.
THEOREM OneTagSettlesAll ==
  ASSUME \A c, d \in Call : TagOf[c] = TagOf[d]
  PROVE  Spec => [](/\ dropped = {}
                    /\ NothingUnderWay => \A c \in Call : status[c] # "waiting")
<1>1. ASSUME IInv PROVE dropped = {}
  BY <1>1 DEF IInv, TypeOK, DroppedBehindOtherTag
<1>2. ASSUME dropped = {},
             NothingUnderWay => \A c \in Call : status[c] = "waiting" => c \in dropped
      PROVE  NothingUnderWay => \A c \in Call : status[c] # "waiting"
  BY <1>2
<1>3. QED
  BY <1>1, <1>2, Invariance, NobodyIsForgotten, PTL

\* A promise is settled once: no later answer, failure or flush settles it again.
SettledForGood ==
  [][\A c \in Call : status[c] \in {"resolved", "rejected"} =>
       status'[c] = status[c] /\ returned'[c] = returned[c]]_vars

THEOREM SettledForGoodHolds == Spec => SettledForGood
<1>1. ASSUME IInv, [Next]_vars, NEW c \in Call, status[c] \in {"resolved", "rejected"}
      PROVE  status'[c] = status[c] /\ returned'[c] = returned[c]
  <2>1. CASE \E d \in Call : QueueFills(d) \/ QueueCall(d)
    <3>1. PICK d \in Call : /\ status[d] = "idle"
                            /\ status' = [status EXCEPT ![d] = "waiting"]
                            /\ returned' = returned
      BY <2>1 DEF QueueFills, QueueCall
    <3>2. c # d
      BY <1>1, <3>1
    <3>3. QED
      BY <1>1, <3>1, <3>2 DEF IInv, TypeOK
  <2>2. CASE Flushing
    <3>1. PICK f \in flushes : Answered(f)
      BY <2>2 DEF Flushing
    <3>2. PICK failing \in SUBSET ToSet(Sent(f)) : Settle(Sent(f), Results(Sent(f), failing))
      BY <3>1 DEF Answered
    <3>3. c \notin ToSet(Sent(f))
      BY <1>1, SentStep
    <3>4. /\ Sent(f) \in Seq(Call)
          /\ \A k, l \in DOMAIN Sent(f) : Sent(f)[k] = Sent(f)[l] => k = l
      BY <1>1, SentCalls
    <3>5. TypeOK
      BY <1>1 DEF IInv
    <3>6. QED
      BY <1>1, <3>2, <3>3, <3>4, <3>5, SettleOwn
  <2>3. CASE \E f \in flushes : RequestFails(f) \/ ShortAnswer(f)
    <3>1. PICK f \in flushes : RejectAndReturn(f)
      BY <2>3 DEF RequestFails, ShortAnswer
    <3>2. c \notin ToSet(Sent(f))
      BY <1>1, SentStep
    <3>3. QED
      BY <1>1, <3>1, <3>2 DEF RejectAndReturn
  <2>4. CASE TimerFires \/ UNCHANGED vars
    BY <2>4 DEF TimerFires, vars
  <2>5. QED
    BY <1>1, <2>1, <2>2, <2>3, <2>4 DEF Next
<1>2. IInv /\ [Next]_vars =>
        [\A c \in Call : status[c] \in {"resolved", "rejected"} =>
           status'[c] = status[c] /\ returned'[c] = returned[c]]_vars
  BY <1>1
<1>3. QED
  BY <1>2, Invariance, PTL DEF Spec, SettledForGood
============================================================================
