------------------------- MODULE FetchEventsProofs -------------------------
(***************************************************************************)
(* fetchEvents loses no block and yields none twice, for every range,      *)
(* every provider limit and every number of faults.                        *)
(***************************************************************************)
EXTENDS FetchEvents, FiniteSetTheorems, TLAPS

IInv == TypeOK /\ NothingLost /\ DeliveredOnce

\* The two halves of a range are that range, cut in two.
LEMMA HalvesPartition ==
  ASSUME NEW b \in BlockRange, b.fromBlock - 1 <= b.toBlock
  PROVE  /\ Halves(b) \in Seq(BlockRange) /\ Len(Halves(b)) = 2
         /\ BlocksOf(Halves(b)[1]) \cup BlocksOf(Halves(b)[2]) = BlocksOf(b)
         /\ BlocksOf(Halves(b)[1]) \cap BlocksOf(Halves(b)[2]) = {}
         /\ \A i \in 1..2 :
              /\ b.fromBlock <= Halves(b)[i].fromBlock
              /\ Halves(b)[i].toBlock <= b.toBlock
              /\ Halves(b)[i].fromBlock - 1 <= Halves(b)[i].toBlock
<1> DEFINE mid == (b.fromBlock + b.toBlock) \div 2
           lo == [fromBlock |-> b.fromBlock, toBlock |-> mid]
           hi == [fromBlock |-> mid + 1, toBlock |-> b.toBlock]
<1>1. b.fromBlock \in Int /\ b.toBlock \in Int
  BY DEF BlockRange
<1>2. mid \in Int /\ b.fromBlock - 1 <= mid /\ mid <= b.toBlock
  BY <1>1
<1>3. Halves(b) = <<lo, hi>>
  BY DEF Halves
<1> HIDE DEF mid
<1>4. lo \in BlockRange /\ hi \in BlockRange
  BY <1>1, <1>2 DEF BlockRange
<1>5. /\ BlocksOf(lo) \cup BlocksOf(hi) = BlocksOf(b)
      /\ BlocksOf(lo) \cap BlocksOf(hi) = {}
  BY <1>1, <1>2 DEF BlocksOf
<1>6. QED
  BY <1>1, <1>2, <1>3, <1>4, <1>5

\* What leaves the queue with its head.
LEMMA QueueHead ==
  ASSUME NEW q \in Seq(BlockRange), q # <<>>
  PROVE  /\ Head(q) \in BlockRange /\ Tail(q) \in Seq(BlockRange)
         /\ Covered(q) = BlocksOf(Head(q)) \cup Covered(Tail(q))
         /\ Disjoint(q) => /\ Disjoint(Tail(q))
                           /\ BlocksOf(Head(q)) \cap Covered(Tail(q)) = {}
         /\ Inside(q) => /\ Inside(Tail(q))
                         /\ fromBlock <= Head(q).fromBlock
                         /\ Head(q).toBlock <= toBlock
                         /\ Head(q).fromBlock - 1 <= Head(q).toBlock
<1>1. /\ Head(q) \in BlockRange /\ Tail(q) \in Seq(BlockRange)
      /\ Len(q) \in Nat \ {0} /\ DOMAIN q = 1..Len(q)
      /\ DOMAIN Tail(q) = 1..(Len(q) - 1) /\ Head(q) = q[1]
      /\ \A i \in 1..(Len(q) - 1) : Tail(q)[i] = q[i + 1]
  OBVIOUS
<1>2. \A i \in DOMAIN q : i = 1 \/ (i - 1 \in DOMAIN Tail(q) /\ q[i] = Tail(q)[i - 1])
  BY <1>1
<1>3. \A i \in DOMAIN Tail(q) : i + 1 \in DOMAIN q /\ i + 1 # 1 /\ Tail(q)[i] = q[i + 1]
  BY <1>1
<1>4. 1 \in DOMAIN q
  BY <1>1
<1>5. Covered(q) = BlocksOf(Head(q)) \cup Covered(Tail(q))
  <2>1. ASSUME NEW x PROVE x \in Covered(q) => x \in BlocksOf(Head(q)) \cup Covered(Tail(q))
    BY <1>1, <1>2 DEF Covered
  <2>2. ASSUME NEW x PROVE x \in BlocksOf(Head(q)) \cup Covered(Tail(q)) => x \in Covered(q)
    BY <1>1, <1>3, <1>4 DEF Covered
  <2>3. QED
    BY <2>1, <2>2
<1>6. ASSUME Disjoint(q)
      PROVE  Disjoint(Tail(q)) /\ BlocksOf(Head(q)) \cap Covered(Tail(q)) = {}
  <2>1. Disjoint(Tail(q))
    <3> SUFFICES ASSUME NEW i \in DOMAIN Tail(q), NEW j \in DOMAIN Tail(q), i # j
                 PROVE  BlocksOf(Tail(q)[i]) \cap BlocksOf(Tail(q)[j]) = {}
      BY DEF Disjoint
    <3>1. i \in Int /\ j \in Int /\ i + 1 # j + 1
      BY <1>1
    <3>2. QED
      BY <1>3, <1>6, <3>1 DEF Disjoint
  <2>2. BlocksOf(Head(q)) \cap Covered(Tail(q)) = {}
    BY <1>1, <1>3, <1>4, <1>6 DEF Disjoint, Covered
  <2>3. QED
    BY <2>1, <2>2
<1>7. ASSUME Inside(q)
      PROVE  /\ Inside(Tail(q))
             /\ fromBlock <= Head(q).fromBlock
             /\ Head(q).toBlock <= toBlock
             /\ Head(q).fromBlock - 1 <= Head(q).toBlock
  BY <1>1, <1>3, <1>4, <1>7 DEF Inside
<1>8. QED
  BY <1>1, <1>5, <1>6, <1>7

\* What a queue becomes when ranges are added at its end.
LEMMA QueueAppend ==
  ASSUME NEW q \in Seq(BlockRange), NEW h \in Seq(BlockRange)
  PROVE  /\ q \o h \in Seq(BlockRange)
         /\ Covered(q \o h) = Covered(q) \cup Covered(h)
         /\ (Disjoint(q) /\ Disjoint(h) /\ Covered(q) \cap Covered(h) = {})
              => Disjoint(q \o h)
         /\ Inside(q) /\ Inside(h) => Inside(q \o h)
<1>1. /\ q \o h \in Seq(BlockRange) /\ Len(q) \in Nat /\ Len(h) \in Nat
      /\ DOMAIN q = 1..Len(q) /\ DOMAIN h = 1..Len(h)
      /\ DOMAIN (q \o h) = 1..(Len(q) + Len(h))
      /\ \A i \in 1..(Len(q) + Len(h)) :
           (q \o h)[i] = IF i <= Len(q) THEN q[i] ELSE h[i - Len(q)]
  OBVIOUS
<1>2. \A i \in DOMAIN (q \o h) :
        \/ i \in DOMAIN q /\ (q \o h)[i] = q[i]
        \/ i \notin DOMAIN q /\ i - Len(q) \in DOMAIN h /\ (q \o h)[i] = h[i - Len(q)]
  BY <1>1
<1>3. \A i \in DOMAIN q : i \in DOMAIN (q \o h) /\ (q \o h)[i] = q[i]
  BY <1>1
<1>4. \A i \in DOMAIN h :
        i + Len(q) \in DOMAIN (q \o h) /\ (q \o h)[i + Len(q)] = h[i]
  BY <1>1
<1>5. Covered(q \o h) = Covered(q) \cup Covered(h)
  <2>1. ASSUME NEW x PROVE x \in Covered(q \o h) => x \in Covered(q) \cup Covered(h)
    BY <1>2 DEF Covered
  <2>2. ASSUME NEW x PROVE x \in Covered(q) \cup Covered(h) => x \in Covered(q \o h)
    BY <1>3, <1>4 DEF Covered
  <2>3. QED
    BY <2>1, <2>2
<1>6. ASSUME Disjoint(q), Disjoint(h), Covered(q) \cap Covered(h) = {}
      PROVE  Disjoint(q \o h)
  <2> SUFFICES ASSUME NEW i \in DOMAIN (q \o h), NEW j \in DOMAIN (q \o h), i # j
               PROVE  BlocksOf((q \o h)[i]) \cap BlocksOf((q \o h)[j]) = {}
    BY DEF Disjoint
  <2>1. CASE i \in DOMAIN q /\ j \in DOMAIN q
    BY <1>3, <1>6, <2>1 DEF Disjoint
  <2>2. CASE i \notin DOMAIN q /\ j \notin DOMAIN q
    <3>1. i - Len(q) # j - Len(q)
      BY <1>1
    <3>2. QED
      BY <1>2, <1>6, <2>2, <3>1 DEF Disjoint
  <2>3. CASE i \in DOMAIN q /\ j \notin DOMAIN q
    BY <1>2, <1>6, <2>3 DEF Covered
  <2>4. CASE i \notin DOMAIN q /\ j \in DOMAIN q
    BY <1>2, <1>6, <2>4 DEF Covered
  <2>5. QED
    BY <2>1, <2>2, <2>3, <2>4
<1>7. Inside(q) /\ Inside(h) => Inside(q \o h)
  BY <1>2 DEF Inside
<1>8. QED
  BY <1>1, <1>5, <1>6, <1>7
----------------------------------------------------------------------------
LEMMA InitEstablishes == Init => IInv
<1> SUFFICES ASSUME Init PROVE IInv
  OBVIOUS
<1> DEFINE whole == [fromBlock |-> fromBlock, toBlock |-> toBlock]
<1>1. /\ fromBlock \in Int /\ toBlock \in Int /\ fromBlock - 1 <= toBlock
      /\ delivered = {} /\ status = "running" /\ faults = 0
  BY MaxBlockAssumption DEF Init
<1>2. /\ whole \in BlockRange /\ BlocksOf(whole) = fromBlock..toBlock
      /\ whole.fromBlock = fromBlock /\ whole.toBlock = toBlock
  BY <1>1 DEF BlockRange, BlocksOf
<1>3. ranges = <<whole>>
  BY DEF Init
<1> HIDE DEF whole
<1>4. /\ ranges \in Seq(BlockRange) /\ DOMAIN ranges = {1} /\ ranges[1] = whole
  BY <1>2, <1>3
<1>5. /\ Inside(ranges) /\ Disjoint(ranges)
      /\ Covered(ranges) = fromBlock..toBlock
  BY <1>1, <1>2, <1>4 DEF Inside, Disjoint, Covered
<1>6. QED
  BY <1>1, <1>4, <1>5 DEF IInv, TypeOK, NothingLost, DeliveredOnce

\* A range taken from the queue and cut in two leaves the queue covering the
\* same blocks, each of them once.
LEMMA SplitKeepsQueue ==
  ASSUME IInv, ranges # <<>>, Split, faults' \in Nat
  PROVE  IInv'
<1> DEFINE tail == Tail(ranges)
           halves == Halves(Request)
<1>1. /\ Request \in BlockRange /\ Request.fromBlock - 1 <= Request.toBlock
      /\ fromBlock <= Request.fromBlock /\ Request.toBlock <= toBlock
      /\ tail \in Seq(BlockRange) /\ Inside(tail) /\ Disjoint(tail)
      /\ Covered(ranges) = BlocksOf(Request) \cup Covered(tail)
      /\ BlocksOf(Request) \cap Covered(tail) = {}
  BY QueueHead DEF IInv, TypeOK, DeliveredOnce, Request
<1>2. /\ halves \in Seq(BlockRange) /\ Len(halves) = 2
      /\ BlocksOf(halves[1]) \cup BlocksOf(halves[2]) = BlocksOf(Request)
      /\ BlocksOf(halves[1]) \cap BlocksOf(halves[2]) = {}
      /\ \A i \in 1..2 :
           /\ Request.fromBlock <= halves[i].fromBlock
           /\ halves[i].toBlock <= Request.toBlock
           /\ halves[i].fromBlock - 1 <= halves[i].toBlock
  BY <1>1, HalvesPartition
<1>3. ranges' = tail \o halves
  BY DEF Split
<1>4. /\ fromBlock' = fromBlock /\ toBlock' = toBlock
      /\ delivered' = delivered /\ status' = status
  BY DEF Split
<1> HIDE DEF tail, halves
<1>5. DOMAIN halves = 1..2
  BY <1>2
<1>6. Covered(halves) = BlocksOf(Request) /\ Disjoint(halves)
  BY <1>2, <1>5 DEF Covered, Disjoint
<1>7. Inside(halves)
  <2> SUFFICES ASSUME NEW i \in 1..2
               PROVE  fromBlock <= halves[i].fromBlock /\ halves[i].toBlock <= toBlock
    BY <1>2, <1>5 DEF Inside
  <2>1. /\ halves[i] \in BlockRange
        /\ Request.fromBlock <= halves[i].fromBlock
        /\ halves[i].toBlock <= Request.toBlock
    BY <1>2, <1>5
  <2>2. QED
    BY <1>1, <2>1 DEF BlockRange, IInv, TypeOK
<1>8. /\ ranges' \in Seq(BlockRange) /\ Inside(ranges') /\ Disjoint(ranges')
      /\ Covered(ranges') = Covered(ranges)
  <2>1. /\ tail \o halves \in Seq(BlockRange)
        /\ Inside(tail \o halves) /\ Disjoint(tail \o halves)
        /\ Covered(tail \o halves) = Covered(tail) \cup Covered(halves)
    BY <1>1, <1>2, <1>6, <1>7, QueueAppend
  <2>2. QED
    BY <1>1, <1>3, <1>6, <2>1
<1>9. Inside(ranges)'
  BY <1>4, <1>8 DEF Inside
<1>10. QED
  BY <1>4, <1>8, <1>9 DEF IInv, TypeOK, NothingLost, DeliveredOnce, Disjoint,
     Covered

LEMMA StepPreserves == IInv /\ [Next]_vars => IInv'
<1> SUFFICES ASSUME IInv, [Next]_vars PROVE IInv'
  OBVIOUS
<1>1. CASE Yield
  <2>1. /\ Tail(ranges) \in Seq(BlockRange)
        /\ Inside(Tail(ranges)) /\ Disjoint(Tail(ranges))
        /\ Covered(ranges) = BlocksOf(Request) \cup Covered(Tail(ranges))
        /\ BlocksOf(Request) \cap Covered(Tail(ranges)) = {}
    BY <1>1, QueueHead DEF Yield, Requesting, IInv, TypeOK, DeliveredOnce, Request
  <2>2. /\ ranges' = Tail(ranges) /\ delivered' = delivered \cup BlocksOf(Request)
        /\ UNCHANGED <<fromBlock, toBlock, status, faults>>
    BY <1>1 DEF Yield
  <2>3. BlocksOf(Request) \subseteq Int
    BY DEF BlocksOf
  <2>4. Inside(ranges)'
    BY <2>1, <2>2 DEF Inside
  <2>5. Covered(ranges') = Covered(Tail(ranges)) /\ Disjoint(ranges')
    BY <2>1, <2>2
  <2>6. TypeOK'
    BY <2>1, <2>2, <2>3, <2>4 DEF IInv, TypeOK
  <2>7. NothingLost'
    <3>1. delivered' \cup Covered(ranges') = fromBlock'..toBlock'
      BY <2>1, <2>2, <2>5 DEF IInv, NothingLost
    <3>2. QED
      BY <3>1 DEF NothingLost, Covered
  <2>8. DeliveredOnce'
    <3>1. delivered' \cap Covered(ranges') = {}
      BY <2>1, <2>2, <2>5 DEF IInv, DeliveredOnce
    <3>2. QED
      BY <2>5, <3>1 DEF DeliveredOnce, Covered, Disjoint
  <2>9. QED
    BY <2>6, <2>7, <2>8 DEF IInv
<1>2. CASE SplitTooLong
  BY <1>2, SplitKeepsQueue DEF SplitTooLong, Requesting, IInv, TypeOK
<1>3. CASE SplitTooManyEvents
  BY <1>3, SplitKeepsQueue DEF SplitTooManyEvents, Requesting, IInv, TypeOK
<1>4. CASE SplitOnFault
  <2>1. faults' \in Nat
    BY <1>4 DEF SplitOnFault, Fault, IInv, TypeOK
  <2>2. QED
    BY <1>4, <2>1, SplitKeepsQueue DEF SplitOnFault, Requesting
<1>5. CASE ThrowTooManyEvents \/ ThrowOnFault \/ Return \/ UNCHANGED vars
  <2>1. /\ UNCHANGED <<fromBlock, toBlock, ranges, delivered>>
        /\ status' \in {"running", "done", "failed"} /\ faults' \in Nat
    BY <1>5 DEF ThrowTooManyEvents, ThrowOnFault, Throw, Fault, Return, vars,
       IInv, TypeOK
  <2>2. QED
    BY <2>1 DEF IInv, TypeOK, NothingLost, DeliveredOnce, Inside, Covered,
       Disjoint
<1>6. QED
  BY <1>1, <1>2, <1>3, <1>4, <1>5 DEF Next

THEOREM Invariance == Spec => []IInv
  BY InitEstablishes, StepPreserves, PTL DEF Spec

\* What is asked of the provider stays inside the range of the call.
THEOREM TypeCorrect == Spec => []TypeOK
<1>1. IInv => TypeOK
  BY DEF IInv
<1>2. QED
  BY <1>1, Invariance, PTL

\* No block is lost by the splitting, whatever the provider refuses.
THEOREM NothingLostHolds == Spec => []NothingLost
<1>1. IInv => NothingLost
  BY DEF IInv
<1>2. QED
  BY <1>1, Invariance, PTL

\* No block is yielded or queued twice.
THEOREM DeliveredOnceHolds == Spec => []DeliveredOnce
<1>1. IInv => DeliveredOnce
  BY DEF IInv
<1>2. QED
  BY <1>1, Invariance, PTL

\* The generator implements RangeScan: it returns only when every block was
\* yielded.
THEOREM Refinement == Spec => RefinesRangeScan
<1>1. Init => Scan!Init
  BY DEF Init, Scan!Init
<1>2. IInv /\ [Next]_vars => [Scan!Next]_<<fromBlock..toBlock,
                                 (fromBlock..toBlock) \ delivered, status>>
  <2> SUFFICES ASSUME IInv, [Next]_vars
               PROVE  Scan!Next \/ UNCHANGED <<fromBlock..toBlock,
                                     (fromBlock..toBlock) \ delivered, status>>
    OBVIOUS
  <2>1. CASE Yield
    BY <2>1 DEF Yield, Requesting, Scan!Next, Scan!Deliver
  <2>2. CASE SplitTooLong \/ SplitTooManyEvents \/ SplitOnFault \/ UNCHANGED vars
    BY <2>2 DEF SplitTooLong, SplitTooManyEvents, SplitOnFault, Split, vars
  <2>3. CASE ThrowTooManyEvents \/ ThrowOnFault
    BY <2>3 DEF ThrowTooManyEvents, ThrowOnFault, Throw, Requesting, Scan!Next,
       Scan!Fail
  <2>4. CASE Return
    <3>1. Covered(ranges) = {}
      BY <2>4 DEF Return, Covered
    <3>2. (fromBlock..toBlock) \ delivered = {}
      BY <3>1 DEF IInv, NothingLost
    <3>3. QED
      BY <2>4, <3>2 DEF Return, Scan!Next, Scan!Finish
  <2>5. QED
    BY <2>1, <2>2, <2>3, <2>4 DEF Next
<1>3. QED
  BY <1>1, <1>2, Invariance, PTL DEF Spec, RefinesRangeScan, Scan!Spec

----------------------------------------------------------------------------
(***************************************************************************)
(* The splitting ends.  What is left of Terminates when fairness is taken  *)
(* away: requests are numbered by a variant that every one of them lowers. *)
(* It counts the blocks of the queue twice, less its ranges, so that       *)
(* cutting a range of several blocks lowers it although the queue grows;   *)
(* only a fault can leave a range without blocks behind.                   *)
(***************************************************************************)

Left == (fromBlock..toBlock) \ delivered

LEMMA FirstBlocksCovered ==
  ASSUME NEW q \in Seq(BlockRange)
  PROVE  FirstBlocks(q) \subseteq Covered(q)
<1> SUFFICES ASSUME NEW i \in DOMAIN q, BlocksOf(q[i]) # {}
             PROVE  q[i].fromBlock \in Covered(q)
  BY DEF FirstBlocks
<1>1. q[i] \in BlockRange
  OBVIOUS
<1>2. q[i].fromBlock \in Int /\ q[i].toBlock \in Int
  BY <1>1 DEF BlockRange
<1>3. q[i].fromBlock \in BlocksOf(q[i])
  BY <1>2 DEF BlocksOf
<1>4. QED
  BY <1>3 DEF Covered

\* The head of a queue takes its first block with it.
LEMMA FirstBlocksHead ==
  ASSUME NEW q \in Seq(BlockRange), q # <<>>, Disjoint(q)
  PROVE  /\ BlocksOf(Head(q)) = {} => FirstBlocks(Tail(q)) = FirstBlocks(q)
         /\ BlocksOf(Head(q)) # {} =>
              /\ Head(q).fromBlock \in FirstBlocks(q)
              /\ FirstBlocks(Tail(q)) = FirstBlocks(q) \ {Head(q).fromBlock}
<1>1. /\ Head(q) \in BlockRange /\ Tail(q) \in Seq(BlockRange)
      /\ Len(q) \in Nat \ {0} /\ DOMAIN q = 1..Len(q)
      /\ DOMAIN Tail(q) = 1..(Len(q) - 1) /\ Head(q) = q[1]
      /\ \A i \in 1..(Len(q) - 1) : Tail(q)[i] = q[i + 1]
  OBVIOUS
<1>2. \A i \in DOMAIN q : i = 1 \/ (i - 1 \in DOMAIN Tail(q) /\ q[i] = Tail(q)[i - 1])
  BY <1>1
<1>3. \A i \in DOMAIN Tail(q) : i + 1 \in DOMAIN q /\ Tail(q)[i] = q[i + 1]
  BY <1>1
<1>4. 1 \in DOMAIN q
  BY <1>1
<1>5. FirstBlocks(Tail(q)) \subseteq FirstBlocks(q)
  BY <1>3 DEF FirstBlocks
<1>6. \A x \in FirstBlocks(q) :
        x \in FirstBlocks(Tail(q)) \/ (x = Head(q).fromBlock /\ BlocksOf(Head(q)) # {})
  <2> SUFFICES ASSUME NEW i \in DOMAIN q, BlocksOf(q[i]) # {}
               PROVE  \/ q[i].fromBlock \in FirstBlocks(Tail(q))
                      \/ q[i].fromBlock = Head(q).fromBlock /\ BlocksOf(Head(q)) # {}
    BY DEF FirstBlocks
  <2>1. CASE i = 1
    BY <1>1, <2>1
  <2>2. CASE i - 1 \in DOMAIN Tail(q) /\ q[i] = Tail(q)[i - 1]
    BY <2>2 DEF FirstBlocks
  <2>3. QED
    BY <1>2, <2>1, <2>2
<1>7. BlocksOf(Head(q)) # {} =>
        Head(q).fromBlock \in FirstBlocks(q) /\ Head(q).fromBlock \in BlocksOf(Head(q))
  BY <1>1, <1>4 DEF FirstBlocks, BlocksOf, BlockRange
<1>8. FirstBlocks(Tail(q)) \cap BlocksOf(Head(q)) = {}
  BY <1>1, FirstBlocksCovered, QueueHead
<1>9. QED
  BY <1>5, <1>6, <1>7, <1>8

LEMMA FirstBlocksAppend ==
  ASSUME NEW q \in Seq(BlockRange), NEW h \in Seq(BlockRange)
  PROVE  FirstBlocks(q \o h) = FirstBlocks(q) \cup FirstBlocks(h)
<1>1. /\ Len(q) \in Nat /\ Len(h) \in Nat
      /\ DOMAIN q = 1..Len(q) /\ DOMAIN h = 1..Len(h)
      /\ DOMAIN (q \o h) = 1..(Len(q) + Len(h))
      /\ \A i \in 1..(Len(q) + Len(h)) :
           (q \o h)[i] = IF i <= Len(q) THEN q[i] ELSE h[i - Len(q)]
  OBVIOUS
<1>2. \A i \in DOMAIN (q \o h) :
        \/ i \in DOMAIN q /\ (q \o h)[i] = q[i]
        \/ i - Len(q) \in DOMAIN h /\ (q \o h)[i] = h[i - Len(q)]
  BY <1>1
<1>3. \A i \in DOMAIN q : i \in DOMAIN (q \o h) /\ (q \o h)[i] = q[i]
  BY <1>1
<1>4. \A i \in DOMAIN h : i + Len(q) \in DOMAIN (q \o h) /\ (q \o h)[i + Len(q)] = h[i]
  BY <1>1
<1>5. FirstBlocks(q \o h) \subseteq FirstBlocks(q) \cup FirstBlocks(h)
  BY <1>2 DEF FirstBlocks
<1>6. FirstBlocks(q) \subseteq FirstBlocks(q \o h)
  BY <1>3 DEF FirstBlocks
<1>7. FirstBlocks(h) \subseteq FirstBlocks(q \o h)
  BY <1>4 DEF FirstBlocks
<1>8. QED
  BY <1>5, <1>6, <1>7

\* A range of several blocks is cut into two that have blocks; one of a single block
\* into itself and an empty one, and an empty one into two of its kind.
LEMMA FirstBlocksOfHalves ==
  ASSUME NEW b \in BlockRange, b.fromBlock - 1 <= b.toBlock
  PROVE  /\ b.fromBlock < b.toBlock => \E m \in BlocksOf(b) \ {b.fromBlock} :
                                       FirstBlocks(Halves(b)) = {b.fromBlock, m}
         /\ b.fromBlock = b.toBlock => FirstBlocks(Halves(b)) = {b.fromBlock}
         /\ b.fromBlock > b.toBlock => FirstBlocks(Halves(b)) = {}
<1> DEFINE mid == (b.fromBlock + b.toBlock) \div 2
           lo == [fromBlock |-> b.fromBlock, toBlock |-> mid]
           hi == [fromBlock |-> mid + 1, toBlock |-> b.toBlock]
<1>1. b.fromBlock \in Int /\ b.toBlock \in Int
  BY DEF BlockRange
<1>2. /\ mid \in Int
      /\ b.fromBlock < b.toBlock => b.fromBlock <= mid /\ mid < b.toBlock
      /\ b.fromBlock = b.toBlock => mid = b.fromBlock
      /\ b.fromBlock > b.toBlock => mid = b.toBlock
  BY <1>1
<1>3. Halves(b) = <<lo, hi>>
  BY DEF Halves
<1> HIDE DEF mid
<1>4. FirstBlocks(Halves(b)) =
        {x \in {lo.fromBlock} : BlocksOf(lo) # {}} \cup {x \in {hi.fromBlock} : BlocksOf(hi) # {}}
  <2>1. DOMAIN <<lo, hi>> = {1, 2} /\ <<lo, hi>>[1] = lo /\ <<lo, hi>>[2] = hi
    OBVIOUS
  <2> HIDE DEF lo, hi
  <2>2. QED
    BY <1>3, <2>1 DEF FirstBlocks
<1>5. /\ BlocksOf(lo) # {} <=> b.fromBlock <= mid
      /\ BlocksOf(hi) # {} <=> mid + 1 <= b.toBlock
      /\ lo.fromBlock = b.fromBlock /\ hi.fromBlock = mid + 1
  BY <1>1, <1>2 DEF BlocksOf
<1> HIDE DEF lo, hi
<1>6. CASE b.fromBlock < b.toBlock
  <2>1. FirstBlocks(Halves(b)) = {b.fromBlock, mid + 1}
    BY <1>1, <1>2, <1>4, <1>5, <1>6
  <2>2. mid + 1 \in BlocksOf(b) \ {b.fromBlock}
    BY <1>1, <1>2, <1>6 DEF BlocksOf
  <2>3. QED
    BY <1>1, <1>6, <2>1, <2>2
<1>7. CASE b.fromBlock = b.toBlock
  BY <1>1, <1>2, <1>4, <1>5, <1>7
<1>8. CASE b.fromBlock > b.toBlock
  BY <1>1, <1>2, <1>4, <1>5, <1>8
<1>9. QED
  BY <1>1, <1>6, <1>7, <1>8

\* What is left is what the queue covers, and more blocks than ranges begin with.
Counted ==
  /\ IsFiniteSet(Left) /\ Cardinality(Left) \in Nat
  /\ Cardinality(Left) <= Cardinality(fromBlock..toBlock)
  /\ FirstBlocks(ranges) \subseteq Left
  /\ IsFiniteSet(FirstBlocks(ranges)) /\ Cardinality(FirstBlocks(ranges)) \in Nat
  /\ Cardinality(FirstBlocks(ranges)) <= Cardinality(Left)
  /\ Len(ranges) \in Nat /\ faults \in Nat

LEMMA LeftCounts == IInv => Counted
<1> SUFFICES ASSUME IInv PROVE Counted
  OBVIOUS
<1>1. Left = Covered(ranges)
  BY DEF IInv, NothingLost, DeliveredOnce, Left
<1>2. IsFiniteSet(fromBlock..toBlock)
  BY FS_Interval DEF IInv, TypeOK
<1>3. /\ IsFiniteSet(Left) /\ Cardinality(Left) \in Nat
      /\ Cardinality(Left) <= Cardinality(fromBlock..toBlock)
  BY <1>2, FS_Subset, FS_CardinalityType DEF Left
<1>4. FirstBlocks(ranges) \subseteq Left
  BY <1>1, FirstBlocksCovered DEF IInv, TypeOK
<1>5. /\ IsFiniteSet(FirstBlocks(ranges)) /\ Cardinality(FirstBlocks(ranges)) \in Nat
      /\ Cardinality(FirstBlocks(ranges)) <= Cardinality(Left)
  BY <1>3, <1>4, FS_Subset, FS_CardinalityType
<1>6. QED
  BY <1>3, <1>4, <1>5 DEF IInv, TypeOK, Counted

----------------------------------------------------------------------------
\* A range without blocks in the queue was put there by a fault, or by the call.
Progress ==
  /\ faults <= MaxFaults
  /\ Len(ranges) <= Cardinality(FirstBlocks(ranges)) + faults
                      + (IF fromBlock > toBlock THEN 1 ELSE 0)

LEMMA QueueLength ==
  ASSUME NEW q \in Seq(BlockRange), NEW h \in Seq(BlockRange)
  PROVE  Len(q \o h) = Len(q) + Len(h)
  OBVIOUS

\* A split moves no block, and adds a range to begin with unless the range it cuts has
\* a single block or none.
LEMMA SplitCounts ==
  ASSUME IInv, ranges # <<>>, Split
  PROVE  /\ Left' = Left
         /\ Len(ranges') = Len(ranges) + 1
         /\ Cardinality(FirstBlocks(ranges')) =
              Cardinality(FirstBlocks(ranges))
                + (IF Request.fromBlock < Request.toBlock THEN 1 ELSE 0)
<1> DEFINE q == Tail(ranges)
           h == Halves(Request)
           F == FirstBlocks(ranges)
<1>1. /\ Request \in BlockRange /\ Request.fromBlock - 1 <= Request.toBlock
      /\ q \in Seq(BlockRange)
      /\ BlocksOf(Request) \cap Covered(q) = {}
      /\ Request.fromBlock \in Int /\ Request.toBlock \in Int
  BY QueueHead DEF IInv, TypeOK, DeliveredOnce, Request, BlockRange
<1>2. h \in Seq(BlockRange) /\ Len(h) = 2
  BY <1>1, HalvesPartition
<1>3. /\ ranges' = q \o h
      /\ UNCHANGED <<fromBlock, toBlock, delivered>>
  BY DEF Split
<1>4. Len(q) = Len(ranges) - 1 /\ Len(ranges) \in Nat /\ Len(q \o h) = Len(q) + Len(h)
  <2>1. ranges \in Seq(BlockRange)
    BY DEF IInv, TypeOK
  <2>2. Len(q) = Len(ranges) - 1 /\ Len(ranges) \in Nat
    <3>1. ranges # <<>>
      OBVIOUS
    <3>2. QED
      BY <2>1, <3>1
  <2> HIDE DEF q, h
  <2>3. Len(q \o h) = Len(q) + Len(h)
    BY <1>1, <1>2, QueueLength
  <2>4. QED
    BY <2>2, <2>3
<1>5. Left' = Left
  BY <1>3 DEF Left
<1>6. FirstBlocks(ranges') = FirstBlocks(q) \cup FirstBlocks(h)
  BY <1>1, <1>2, <1>3, FirstBlocksAppend
<1>7. /\ BlocksOf(Request) = {} => FirstBlocks(q) = F
      /\ BlocksOf(Request) # {} => /\ Request.fromBlock \in F
                                   /\ FirstBlocks(q) = F \ {Request.fromBlock}
  BY FirstBlocksHead DEF IInv, TypeOK, DeliveredOnce, Request
<1>8. BlocksOf(Request) # {} <=> Request.fromBlock <= Request.toBlock
  BY <1>1 DEF BlocksOf
<1>9. FirstBlocks(q) \subseteq Covered(q) /\ IsFiniteSet(F)
  BY <1>1, FirstBlocksCovered, LeftCounts DEF Counted
<1>10. Cardinality(FirstBlocks(ranges')) =
         Cardinality(F) + (IF Request.fromBlock < Request.toBlock THEN 1 ELSE 0)
  <2> HIDE DEF q, h, F
  <2>1. CASE Request.fromBlock < Request.toBlock
    <3>1. PICK m \in BlocksOf(Request) \ {Request.fromBlock} :
            FirstBlocks(h) = {Request.fromBlock, m}
      BY <1>1, <2>1, FirstBlocksOfHalves DEF h
    <3>2. /\ Request.fromBlock \in F
          /\ FirstBlocks(q) = F \ {Request.fromBlock}
      BY <1>1, <1>7, <1>8, <2>1
    <3>3. m \notin FirstBlocks(q)
      BY <1>1, <1>9, <3>1
    <3>4. FirstBlocks(ranges') = F \cup {m} /\ m \notin F
      BY <1>6, <3>1, <3>2, <3>3
    <3>5. QED
      BY <1>9, <2>1, <3>4, FS_AddElement
  <2>2. CASE Request.fromBlock = Request.toBlock
    <3>1. FirstBlocks(h) = {Request.fromBlock}
      BY <1>1, <2>2, FirstBlocksOfHalves DEF h
    <3>2. FirstBlocks(ranges') = F
      BY <1>1, <1>6, <1>7, <1>8, <2>2, <3>1
    <3>3. Cardinality(F) \in Int
      BY <1>9, FS_CardinalityType
    <3>4. QED
      BY <1>1, <2>2, <3>2, <3>3
  <2>3. CASE Request.fromBlock > Request.toBlock
    <3>1. FirstBlocks(h) = {}
      BY <1>1, <2>3, FirstBlocksOfHalves DEF h
    <3>2. FirstBlocks(ranges') = F
      BY <1>1, <1>6, <1>7, <1>8, <2>3, <3>1
    <3>3. Cardinality(F) \in Int
      BY <1>9, FS_CardinalityType
    <3>4. QED
      BY <1>1, <2>3, <3>2, <3>3
  <2>4. QED
    BY <1>1, <2>1, <2>2, <2>3
<1>11. QED
  BY <1>2, <1>3, <1>4, <1>5, <1>10

\* Yielding a range takes its blocks, and with them one that a range begins with.
LEMMA YieldCounts ==
  ASSUME IInv, Yield
  PROVE  /\ Len(ranges') = Len(ranges) - 1
         /\ \/ /\ Cardinality(Left') = Cardinality(Left)
               /\ Cardinality(FirstBlocks(ranges')) = Cardinality(FirstBlocks(ranges))
            \/ /\ Cardinality(Left') \in 0..(Cardinality(Left) - 1)
               /\ Cardinality(FirstBlocks(ranges')) = Cardinality(FirstBlocks(ranges)) - 1
<1> DEFINE F == FirstBlocks(ranges)
<1>1. /\ ranges # <<>> /\ ranges' = Tail(ranges)
      /\ delivered' = delivered \cup BlocksOf(Request)
      /\ fromBlock' = fromBlock /\ toBlock' = toBlock
  BY DEF Yield, Requesting
<1>2. Len(ranges') = Len(ranges) - 1
  BY <1>1 DEF IInv, TypeOK
<1>3. Left' = Left \ BlocksOf(Request)
  BY <1>1 DEF Left
<1>4. /\ BlocksOf(Request) = {} => FirstBlocks(ranges') = F
      /\ BlocksOf(Request) # {} => /\ Request.fromBlock \in F
                                   /\ FirstBlocks(ranges') = F \ {Request.fromBlock}
  BY <1>1, FirstBlocksHead DEF IInv, TypeOK, DeliveredOnce, Request
<1>5. IsFiniteSet(F) /\ IsFiniteSet(Left) /\ F \subseteq Left
  BY LeftCounts DEF Counted
<1>6. CASE BlocksOf(Request) = {}
  BY <1>2, <1>3, <1>4, <1>6
<1>7. CASE BlocksOf(Request) # {}
  <2>1. Request \in BlockRange
    BY <1>1, QueueHead DEF IInv, TypeOK, Request
  <2>2. Request.fromBlock \in BlocksOf(Request) /\ Request.fromBlock \in Left
    BY <1>4, <1>5, <1>7, <2>1 DEF BlocksOf, BlockRange
  <2>3. Left' \subseteq Left \ {Request.fromBlock}
    BY <1>3, <2>2
  <2>4. /\ IsFiniteSet(Left \ {Request.fromBlock})
        /\ Cardinality(Left \ {Request.fromBlock}) = Cardinality(Left) - 1
    BY <1>5, <2>2, FS_RemoveElement
  <2>5. IsFiniteSet(Left') /\ Cardinality(Left') <= Cardinality(Left) - 1
    BY <2>3, <2>4, FS_Subset
  <2>6. Cardinality(Left') \in Nat /\ Cardinality(Left) \in Nat
    BY <1>5, <2>5, FS_CardinalityType
  <2>7. Cardinality(FirstBlocks(ranges')) = Cardinality(F) - 1
    BY <1>4, <1>5, <1>7, FS_RemoveElement
  <2>8. QED
    BY <1>2, <2>5, <2>6, <2>7
<1>8. QED
  BY <1>6, <1>7

LEMMA ProgressInit == Init => Progress
<1> SUFFICES ASSUME Init PROVE Progress
  OBVIOUS
<1> DEFINE whole == [fromBlock |-> fromBlock, toBlock |-> toBlock]
<1>1. fromBlock \in Int /\ toBlock \in Int
  BY MaxBlockAssumption DEF Init
<1>2. ranges = <<whole>> /\ faults = 0 /\ 0 <= MaxFaults
  BY FaultsAssumption DEF Init
<1>3. BlocksOf(whole) # {} <=> fromBlock <= toBlock
  BY <1>1 DEF BlocksOf
<1>4. whole.fromBlock = fromBlock
  OBVIOUS
<1> HIDE DEF whole
<1>5. Len(ranges) = 1 /\ DOMAIN ranges = {1} /\ ranges[1] = whole
  BY <1>2
<1>6. fromBlock <= toBlock => FirstBlocks(ranges) = {fromBlock}
  BY <1>3, <1>4, <1>5 DEF FirstBlocks
<1>7. fromBlock > toBlock => FirstBlocks(ranges) = {}
  BY <1>1, <1>3, <1>5 DEF FirstBlocks
<1>8. QED
  BY <1>1, <1>2, <1>5, <1>6, <1>7, FS_Singleton, FS_EmptySet DEF Progress

\* The arithmetic of a step: l blocks left, f of them first blocks, n ranges, t faults
\* spent and e empty ranges of the call.
LEMMA Arithmetic ==
  ASSUME NEW l \in Nat, NEW f \in Nat, NEW n \in Nat, NEW t \in Nat, NEW e \in {0, 1},
         NEW m \in Nat, f <= l, n <= f + t + e, t <= m,
         NEW lp \in Nat, NEW fp \in Nat, NEW np \in Nat, NEW tp \in Nat, fp <= lp, tp <= m,
         \/ np = n - 1 /\ tp = t /\ lp = l /\ fp = f
         \/ np = n - 1 /\ tp = t /\ lp <= l - 1 /\ fp = f - 1
         \/ np = n + 1 /\ tp = t /\ lp = l /\ fp = f + 1
         \/ np = n + 1 /\ tp = t + 1 /\ lp = l /\ fp = f
         \/ np = n + 1 /\ tp = t + 1 /\ lp = l /\ fp = f + 1
  PROVE  /\ np <= fp + tp + e
         /\ 2 * (lp - fp) + np + 2 * (m - tp) \in 0..(2 * (l - f) + n + 2 * (m - t) - 1)
<1>1. CASE np = n - 1 /\ tp = t /\ lp = l /\ fp = f
  BY <1>1
<1>2. CASE np = n - 1 /\ tp = t /\ lp <= l - 1 /\ fp = f - 1
  BY <1>2
<1>3. CASE np = n + 1 /\ tp = t /\ lp = l /\ fp = f + 1
  BY <1>3
<1>4. CASE np = n + 1 /\ tp = t + 1 /\ lp = l /\ fp = f
  BY <1>4
<1>5. CASE np = n + 1 /\ tp = t + 1 /\ lp = l /\ fp = f + 1
  BY <1>5
<1>6. QED
  BY <1>1, <1>2, <1>3, <1>4, <1>5

LeftSize == Cardinality(Left)
Firsts == Cardinality(FirstBlocks(ranges))
Queued == Len(ranges)
EmptyCall == IF fromBlock > toBlock THEN 1 ELSE 0

LEMMA ProgressStep ==
  ASSUME IInv, Progress, [Next]_vars
  PROVE  /\ Progress'
         /\ [status' = "running" => RequestsLeft' \in 0..(RequestsLeft - 1)]_vars
<1>1. IInv' /\ Counted /\ Counted'
  <2>1. IInv'
    BY StepPreserves
  <2>2. QED
    BY <2>1, LeftCounts, PTL
<1>2. /\ LeftSize \in Nat /\ Firsts \in Nat /\ Firsts <= LeftSize /\ Queued \in Nat
      /\ faults \in Nat /\ MaxFaults \in Nat /\ faults <= MaxFaults
      /\ Queued <= Firsts + faults + EmptyCall /\ EmptyCall \in {0, 1}
  BY <1>1, FaultsAssumption DEF Counted, Progress, LeftSize, Firsts, EmptyCall, Queued
<1>3. PICK l \in Nat, f \in Nat, n \in Nat, t \in Nat :
        /\ LeftSize' = l /\ Firsts' = f /\ Queued' = n /\ faults' = t
        /\ f <= l
  BY <1>1 DEF Counted, LeftSize, Firsts, EmptyCall, Queued
<1>4. RequestsLeft = 2 * (LeftSize - Firsts) + Queued + 2 * (MaxFaults - faults)
  BY DEF RequestsLeft, Left, LeftSize, Firsts, EmptyCall, Queued
<1>5. RequestsLeft' = 2 * (l - f) + n + 2 * (MaxFaults - t)
  BY <1>3 DEF RequestsLeft, Left, LeftSize, Firsts, EmptyCall, Queued
\* It is enough to know the sizes after the step.
<1>6. ASSUME t <= MaxFaults, n <= f + t + EmptyCall, EmptyCall' = EmptyCall
      PROVE  Progress'
  BY <1>3, <1>6 DEF Progress, LeftSize, Firsts, EmptyCall, Queued
<1>7. CASE Yield
  <2>1. /\ n = Queued - 1 /\ t = faults /\ EmptyCall' = EmptyCall
        /\ \/ l = LeftSize /\ f = Firsts
           \/ l \in 0..(LeftSize - 1) /\ f = Firsts - 1
    BY <1>7, <1>3, YieldCounts DEF Yield, LeftSize, Firsts, EmptyCall, Queued
  <2>2. /\ n <= f + t + EmptyCall
        /\ 2 * (l - f) + n + 2 * (MaxFaults - t) \in
             0..(2 * (LeftSize - Firsts) + Queued + 2 * (MaxFaults - faults) - 1)
    BY <1>2, <1>3, <2>1, Arithmetic
  <2>3. RequestsLeft' \in 0..(RequestsLeft - 1)
    BY <1>2, <1>4, <1>5, <2>2
  <2>4. QED
    BY <1>2, <1>6, <2>1, <2>2, <2>3
<1>8. CASE SplitTooLong \/ SplitTooManyEvents
  <2>1. Request.fromBlock \in Int /\ Request.toBlock \in Int
    BY <1>8, QueueHead DEF SplitTooLong, SplitTooManyEvents, Requesting, IInv, TypeOK,
       Request, BlockRange
  <2>2. Request.fromBlock < Request.toBlock
    BY <1>8, <2>1, LimitAssumption DEF SplitTooLong, SplitTooManyEvents, TooLong, OneBlock
  <2>3. n = Queued + 1 /\ l = LeftSize /\ f = Firsts + 1 /\ t = faults /\ EmptyCall' = EmptyCall
    BY <1>3, <1>8, <2>2, SplitCounts DEF SplitTooLong, SplitTooManyEvents, Requesting, Split,
       LeftSize, Firsts, EmptyCall, Queued
  <2>4. /\ n <= f + t + EmptyCall
        /\ 2 * (l - f) + n + 2 * (MaxFaults - t) \in
             0..(2 * (LeftSize - Firsts) + Queued + 2 * (MaxFaults - faults) - 1)
    BY <1>2, <1>3, <2>3
  <2>5. QED
    BY <1>2, <1>4, <1>5, <1>6, <2>3, <2>4
<1>9. CASE SplitOnFault
  <2>1. /\ t = faults + 1 /\ t <= MaxFaults
    BY <1>2, <1>3, <1>9 DEF SplitOnFault, Fault
  <2>2. /\ n = Queued + 1 /\ l = LeftSize /\ EmptyCall' = EmptyCall
        /\ f \in {Firsts, Firsts + 1}
    <3>1. ranges # <<>> /\ Split
      BY <1>9 DEF SplitOnFault, Requesting
    <3>2. fromBlock' = fromBlock /\ toBlock' = toBlock
      BY <3>1 DEF Split
    <3>3. /\ n = Queued + 1 /\ l = LeftSize
          /\ f = Firsts + (IF Request.fromBlock < Request.toBlock THEN 1 ELSE 0)
      BY <1>3, <3>1, SplitCounts DEF LeftSize, Firsts, EmptyCall, Queued
    <3>4. QED
      BY <1>2, <3>2, <3>3 DEF EmptyCall
  <2>3. /\ n <= f + t + EmptyCall
        /\ 2 * (l - f) + n + 2 * (MaxFaults - t) \in
             0..(2 * (LeftSize - Firsts) + Queued + 2 * (MaxFaults - faults) - 1)
    BY <1>2, <1>3, <2>1, <2>2, Arithmetic
  <2>4. RequestsLeft' \in 0..(RequestsLeft - 1)
    BY <1>2, <1>4, <1>5, <2>3
  <2>5. QED
    BY <1>6, <2>1, <2>2, <2>3, <2>4
<1>10. CASE ThrowTooManyEvents \/ ThrowOnFault \/ Return
  <2>1. /\ UNCHANGED <<fromBlock, toBlock, ranges, delivered>>
        /\ status' # "running"
        /\ t \in {faults, faults + 1} /\ t <= MaxFaults
    BY <1>2, <1>3, <1>10 DEF ThrowTooManyEvents, ThrowOnFault, Throw, Return, Fault
  <2>2. n = Queued /\ f = Firsts /\ EmptyCall' = EmptyCall
    BY <1>3, <2>1 DEF LeftSize, Firsts, EmptyCall, Queued
  <2>3. n <= f + t + EmptyCall
    BY <1>2, <1>3, <2>1, <2>2
  <2>4. QED
    BY <1>6, <2>1, <2>2, <2>3
<1>11. CASE UNCHANGED vars
  <2>1. n = Queued /\ f = Firsts /\ EmptyCall' = EmptyCall /\ t = faults
    BY <1>3, <1>11 DEF vars, LeftSize, Firsts, EmptyCall, Queued
  <2>2. QED
    BY <1>2, <1>6, <1>11, <2>1
<1>12. QED
  BY <1>7, <1>8, <1>9, <1>10, <1>11 DEF Next

\* Every request that does not end the scan leaves fewer to be made: whatever the
\* provider refuses and however often it fails, the splitting cannot go on for ever.
THEOREM RequestsRunOutHolds == Spec => RequestsRunOut
<1>1. Init => IInv /\ Progress
  BY InitEstablishes, ProgressInit
<1>2. IInv /\ Progress /\ [Next]_vars => (IInv /\ Progress)'
  BY StepPreserves, ProgressStep
<1>3. IInv /\ Progress /\ [Next]_vars =>
        [status' = "running" => RequestsLeft' \in 0..(RequestsLeft - 1)]_vars
  BY ProgressStep
<1>4. QED
  BY <1>1, <1>2, <1>3, PTL DEF Spec, RequestsRunOut

\* The queue never holds more ranges than the call has blocks, but for one for each
\* fault and for the empty range of a call without blocks: what makes it grow without
\* end is a provider that keeps failing, and nothing else.
THEOREM QueueIsBounded ==
  Spec => [](Len(ranges) <= Cardinality(fromBlock..toBlock) + faults
                             + (IF fromBlock > toBlock THEN 1 ELSE 0))
<1>1. Spec => [](IInv /\ Progress)
  <2>1. Init => IInv /\ Progress
    BY InitEstablishes, ProgressInit
  <2>2. IInv /\ Progress /\ [Next]_vars => (IInv /\ Progress)'
    BY StepPreserves, ProgressStep
  <2>3. QED
    BY <2>1, <2>2, PTL DEF Spec
<1>2. IInv /\ Progress =>
        Len(ranges) <= Cardinality(fromBlock..toBlock) + faults
                        + (IF fromBlock > toBlock THEN 1 ELSE 0)
  <2> SUFFICES ASSUME IInv, Progress
               PROVE  Len(ranges) <= Cardinality(fromBlock..toBlock) + faults
                        + (IF fromBlock > toBlock THEN 1 ELSE 0)
    OBVIOUS
  <2>1. /\ Cardinality(FirstBlocks(ranges)) <= Cardinality(fromBlock..toBlock)
        /\ Cardinality(FirstBlocks(ranges)) \in Nat /\ Cardinality(fromBlock..toBlock) \in Nat
        /\ Len(ranges) \in Nat /\ faults \in Nat
    <3>1. Cardinality(fromBlock..toBlock) \in Nat
      BY FS_Interval, FS_CardinalityType DEF IInv, TypeOK
    <3>2. Counted
      BY LeftCounts
    <3>3. QED
      BY <3>1, <3>2 DEF Counted
  <2>2. QED
    BY <2>1 DEF Progress
<1>3. QED
  BY <1>1, <1>2, PTL
============================================================================
