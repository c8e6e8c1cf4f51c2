-------------------------- MODULE PositionsProofs --------------------------
(***************************************************************************)
(* What Positions guarantees for all queries, adapters and tokens, however *)
(* these refer to each other: paths without repetition, shared requests,   *)
(* no pool left out but for its own chain, no failure of a task but for    *)
(* its own tokens.                                                         *)
(***************************************************************************)
EXTENDS Positions, FiniteSetTheorems, TLAPS

At_ == {"adapter", "direct", "cached", "fetched", "unanswered", "thrown"} \cup Resolved

Promise ==
  [state : {"pending", "unanswered"} \cup Outcome, expiryTime : 0..(LastTime + TTL)]

CacheOK == cache \in [Token -> Seq(Promise)]

\* A frame is named by a path of tokens that ends with its own, and what it waits for
\* is a promise of that token.
FrameOK(g) ==
  /\ g \in [path : Seq(Token), at : At_, own : Nat]
  /\ Len(g.path) > 0 /\ IsInjective(g.path)
  /\ g.own <= Len(cache[Last(g.path)])
  /\ g.at \in {"cached", "fetched"} => g.own > 0

FramesOK ==
  /\ DOMAIN frames = Task
  /\ \A t \in Task : \A g \in frames[t] : FrameOK(g)

\* The other variables.
StateOK ==
  /\ now \in 0..LastTime
  /\ protocolTokens \in {"none", "building", "built", "failed", "unanswered"}
  /\ detected \in [Query -> (SUBSET Chain) \cup {None}]
  /\ stage \in [Task -> {"begin", "unanswered", "unwrap", "done", "failed"}]
  /\ tokens \in [Task -> SUBSET Token]
  /\ broken \subseteq Task
  /\ failures \in 0..MaxFailures

\* From its detection on the pools of a task are those it will answer with.
Omits(t) ==
  \A p \in Held[AdapterOf[t]] \ tokens[t] :
    IF Wanted[QueryOf[t]] = None
      THEN ChainOf[AdapterOf[t]] \notin detected[QueryOf[t]]
      ELSE p \notin Wanted[QueryOf[t]]

PoolsKept ==
  \A t \in Task :
    /\ stage[t] # "begin" \/ frames[t] # {} => detected[QueryOf[t]] # None
    /\ stage[t] \in {"unwrap", "done"} => Omits(t)

Cause(t) ==
  \/ t \in broken
  \/ protocolTokens = "failed"
  \/ \E g \in frames[t] : g.at = "thrown" /\ g.own > 0 /\ Rejected(Last(g.path), g.own)

Causes == \A t \in Task : stage[t] = "failed" => Cause(t)

IInv ==
  /\ StateOK /\ CacheOK /\ FramesOK
  /\ PoolsKept
  /\ Causes
  /\ RequestsAreShared

----------------------------------------------------------------------------
LEMMA InitIInv == Init => IInv
<1> SUFFICES ASSUME Init PROVE IInv
  OBVIOUS
<1> USE BoundsAssumption DEF Init
<1>1. StateOK
  <2>1. now \in 0..LastTime /\ failures \in 0..MaxFailures
    OBVIOUS
  <2>2. /\ detected \in [Query -> (SUBSET Chain) \cup {None}]
        /\ tokens \in [Task -> SUBSET Token]
    OBVIOUS
  <2>3. QED
    BY <2>1, <2>2 DEF StateOK
<1>2. CacheOK /\ RequestsAreShared
  BY DEF CacheOK, RequestsAreShared
<1>3. FramesOK
  BY DEF FramesOK
<1>4. PoolsKept /\ Causes
  BY DEF PoolsKept, Causes
<1>5. QED
  BY <1>1, <1>2, <1>3, <1>4 DEF IInv

\* A promise is never taken back once it has settled, and the clock never goes back.
Later ==
  /\ CacheOK' /\ now <= now' /\ now' \in Int
  /\ \A k \in Token :
       /\ Len(cache[k]) <= Len(cache'[k])
       /\ \A i \in 1..Len(cache[k]) : Settled(k, i) => cache'[k][i] = cache[k][i]

LEMMA RejectedLater ==
  ASSUME CacheOK, Later, NEW k \in Token, NEW i \in 1..Len(cache[k]), Rejected(k, i)
  PROVE  Rejected(k, i)'
  BY DEF Later, Rejected, Settled, Outcome

LEMMA ExpiredLater ==
  ASSUME CacheOK, Later, now \in Int, NEW k \in Token, NEW i \in 1..Len(cache[k]),
         Expired(k, i)
  PROVE  Expired(k, i)'
<1>1. cache[k][i] \in Promise /\ Settled(k, i) /\ ~Rejected(k, i)
  BY DEF CacheOK, Expired
<1>2. cache'[k][i] = cache[k][i]
  BY <1>1 DEF Later
<1>3. cache[k][i].expiryTime \in Int
  BY <1>1, BoundsAssumption DEF Promise
<1>4. QED
  BY <1>1, <1>2, <1>3 DEF Later, Expired, Settled, Rejected

LEMMA FrameLater ==
  ASSUME CacheOK, Later, NEW g, FrameOK(g)
  PROVE  FrameOK(g)'
<1>1. Last(g.path) \in Token
  BY DEF FrameOK, Last
<1>2. Len(cache[Last(g.path)]) \in Nat /\ Len(cache'[Last(g.path)]) \in Nat
  BY <1>1 DEF CacheOK, Later
<1>3. QED
  BY <1>1, <1>2 DEF FrameOK, Later

\* A cause stays a cause as long as the frames that threw are kept.
LEMMA CauseLater ==
  ASSUME CacheOK, FramesOK, Later, NEW t \in Task, Cause(t),
         broken \subseteq broken',
         protocolTokens = "failed" => protocolTokens' = "failed",
         \A g \in frames[t] : g.at = "thrown" => g \in frames'[t]
  PROVE  Cause(t)'
<1>1. CASE t \in broken \/ protocolTokens = "failed"
  BY <1>1 DEF Cause
<1>2. CASE \E g \in frames[t] :
             g.at = "thrown" /\ g.own > 0 /\ Rejected(Last(g.path), g.own)
  <2>1. PICK g \in frames[t] :
          g.at = "thrown" /\ g.own > 0 /\ Rejected(Last(g.path), g.own)
    BY <1>2
  <2>2. Last(g.path) \in Token /\ g.own \in 1..Len(cache[Last(g.path)])
    BY <2>1 DEF FramesOK, FrameOK, CacheOK, Last
  <2>3. Rejected(Last(g.path), g.own)'
    BY <2>1, <2>2, RejectedLater
  <2>4. QED
    BY <2>1, <2>3 DEF Cause
<1>3. QED
  BY <1>1, <1>2 DEF Cause

LEMMA SharedLater ==
  ASSUME CacheOK, Later, now \in Int, RequestsAreShared,
         \A k \in Token : Len(cache'[k]) > 1 =>
           Len(cache[k]) > 1 \/ \E i \in 1..Len(cache[k]) : Expired(k, i)
  PROVE  RequestsAreShared'
<1> SUFFICES ASSUME NEW k \in Token, Len(cache'[k]) > 1
             PROVE  \E i \in DOMAIN cache'[k] : Expired(k, i)'
  BY DEF RequestsAreShared
<1>1. DOMAIN cache[k] = 1..Len(cache[k]) /\ DOMAIN cache'[k] = 1..Len(cache'[k])
  BY DEF CacheOK, Later
<1>2. PICK i \in 1..Len(cache[k]) : Expired(k, i)
  BY <1>1 DEF RequestsAreShared
<1>3. Expired(k, i)' /\ i \in 1..Len(cache'[k])
  BY <1>2, ExpiredLater DEF Later, CacheOK
<1>4. QED
  BY <1>1, <1>3

----------------------------------------------------------------------------
\* What the steps do to the cache.
LEMMA LaterSame ==
  ASSUME IInv, UNCHANGED <<now, cache>>
  PROVE  Later
  BY BoundsAssumption DEF IInv, StateOK, CacheOK, Later

LEMMA LaterTick ==
  ASSUME IInv, now' = now + 1, UNCHANGED cache
  PROVE  Later
  BY BoundsAssumption DEF IInv, StateOK, CacheOK, Later

LEMMA LaterFetch ==
  ASSUME IInv, NEW k \in Token, UNCHANGED now,
         cache' = [cache EXCEPT ![k] = Append(@, Pending)]
  PROVE  /\ Later
         /\ Len(cache'[k]) = Len(cache[k]) + 1
         /\ \A j \in Token \ {k} : cache'[j] = cache[j]
<1>1. Pending \in Promise
  BY BoundsAssumption DEF Pending, Promise
<1>2. CacheOK /\ now \in Int
  BY BoundsAssumption DEF IInv, StateOK
<1>3. /\ cache' \in [Token -> Seq(Promise)]
      /\ cache'[k] = Append(cache[k], Pending)
      /\ \A j \in Token \ {k} : cache'[j] = cache[j]
  BY <1>1, <1>2 DEF CacheOK
<1>4. Len(cache'[k]) = Len(cache[k]) + 1
  BY <1>1, <1>2, <1>3 DEF CacheOK
<1>5. \A i \in 1..Len(cache[k]) : cache'[k][i] = cache[k][i]
  BY <1>1, <1>2, <1>3 DEF CacheOK
<1>6. \A j \in Token :
        /\ Len(cache[j]) <= Len(cache'[j])
        /\ \A i \in 1..Len(cache[j]) : cache'[j][i] = cache[j][i]
  BY <1>2, <1>3, <1>4, <1>5 DEF CacheOK
<1>7. QED
  BY <1>2, <1>3, <1>4, <1>6 DEF Later, CacheOK

LEMMA LaterSettle ==
  ASSUME IInv, NEW k \in Token, NEW i \in DOMAIN cache[k], NEW result \in Outcome \cup {"unanswered"},
         UNCHANGED now, cache[k][i] = Pending,
         cache' = [cache EXCEPT ![k][i] = [state |-> result, expiryTime |-> now + TTL]]
  PROVE  Later /\ \A j \in Token : Len(cache'[j]) = Len(cache[j])
<1> DEFINE r == [state |-> result, expiryTime |-> now + TTL]
<1>1. r \in Promise /\ now \in Int
  BY BoundsAssumption DEF IInv, StateOK, Promise
<1>2. CacheOK /\ i \in 1..Len(cache[k])
  BY DEF IInv, CacheOK
<1> HIDE DEF r
<1>3. /\ cache' = [cache EXCEPT ![k] = [cache[k] EXCEPT ![i] = r]]
      /\ cache[k] \in Seq(Promise)
  BY <1>2 DEF CacheOK, r
<1>4. /\ [cache[k] EXCEPT ![i] = r] \in Seq(Promise)
      /\ Len([cache[k] EXCEPT ![i] = r]) = Len(cache[k])
  BY <1>1, <1>2, <1>3
<1>5. /\ CacheOK'
      /\ cache'[k] = [cache[k] EXCEPT ![i] = r]
      /\ \A j \in Token \ {k} : cache'[j] = cache[j]
  BY <1>2, <1>3, <1>4 DEF CacheOK
<1>6. \A j \in Token : Len(cache'[j]) = Len(cache[j]) /\ Len(cache[j]) \in Nat
  BY <1>2, <1>4, <1>5 DEF CacheOK
<1>7. ~Settled(k, i)
  BY DEF Settled, Pending, Outcome
<1>8. \A j \in Token : \A n \in 1..Len(cache[j]) :
        Settled(j, n) => cache'[j][n] = cache[j][n]
  BY <1>2, <1>3, <1>5, <1>7 DEF CacheOK
<1>9. QED
  BY <1>1, <1>5, <1>6, <1>8 DEF Later

----------------------------------------------------------------------------
\* A step that leaves the frames alone, or adds some to a task that had none.
LEMMA StateKeeps ==
  ASSUME IInv, Later, StateOK', PoolsKept',
         \A k \in Token : Len(cache'[k]) = Len(cache[k]),
         DOMAIN frames' = Task,
         \A t \in Task :
           /\ stage[t] = "failed" =>
                \A g \in frames[t] : g.at = "thrown" => g \in frames'[t]
           /\ \A g \in frames'[t] \ frames[t] : FrameOK(g)',
         broken \subseteq broken',
         protocolTokens = "failed" => protocolTokens' = "failed",
         \A t \in Task : stage'[t] = "failed" => stage[t] = "failed" \/ t \in broken'
  PROVE  IInv'
<1> USE DEF IInv
<1>1. CacheOK'
  BY DEF Later
<1>2. FramesOK'
  BY FrameLater DEF FramesOK
<1>3. Causes'
  <2> SUFFICES ASSUME NEW t \in Task, stage'[t] = "failed"
               PROVE  Cause(t)'
    BY DEF Causes
  <2>1. CASE t \in broken'
    BY <2>1 DEF Cause
  <2>2. CASE stage[t] = "failed"
    <3>1. Cause(t)
      BY <2>2 DEF Causes
    <3>2. QED
      BY <2>2, <3>1, CauseLater
  <2>3. QED
    BY <2>1, <2>2
<1>4. RequestsAreShared'
  <2>1. now \in Int
    BY BoundsAssumption DEF StateOK
  <2>2. \A k \in Token : Len(cache'[k]) > 1 =>
          Len(cache[k]) > 1 \/ \E i \in 1..Len(cache[k]) : Expired(k, i)
    OBVIOUS
  <2>3. QED
    BY <2>1, <2>2, SharedLater
<1>5. QED
  BY <1>1, <1>2, <1>3, <1>4

----------------------------------------------------------------------------
LEMMA TickIInv ==
  ASSUME IInv, Tick
  PROVE  IInv'
<1>1. Later /\ StateOK'
  BY LaterTick, BoundsAssumption DEF Tick, IInv, StateOK, caches
<1>2. PoolsKept'
  BY DEF Tick, IInv, PoolsKept, Omits
<1>3. QED
  BY <1>1, <1>2, StateKeeps DEF Tick, IInv, FramesOK, CacheOK, caches

LEMMA DetectIInv ==
  ASSUME IInv, NEW q \in Query, Detect(q)
  PROVE  IInv'
<1>1. PICK found \in SUBSET Chains(q) : detected' = [detected EXCEPT ![q] = found]
  BY DEF Detect
<1>2. found \in SUBSET Chain
  BY TaskAssumption DEF Chains, Chain, Adapter
<1>3. Later /\ StateOK'
  BY <1>1, <1>2, LaterSame DEF Detect, IInv, StateOK, caches
<1>4. PoolsKept'
  <2> SUFFICES ASSUME NEW t \in Task, detected[QueryOf[t]] # None
               PROVE  detected'[QueryOf[t]] = detected[QueryOf[t]]
    BY DEF Detect, IInv, PoolsKept, Omits
  <2>1. QueryOf[t] # q
    BY DEF Detect
  <2>2. QueryOf[t] \in Query /\ detected \in [Query -> (SUBSET Chain) \cup {None}]
    BY DEF Query, IInv, StateOK
  <2>3. QED
    BY <1>1, <2>1, <2>2
<1>5. QED
  BY <1>3, <1>4, StateKeeps DEF Detect, IInv, FramesOK, CacheOK, caches

LEMMA BuildIInv ==
  ASSUME IInv, BuildProtocolTokens
  PROVE  IInv'
<1>1. failures' \in 0..MaxFailures
  BY BoundsAssumption DEF BuildProtocolTokens, Fault, IInv, StateOK
<1>2. Later /\ StateOK'
  BY <1>1, LaterSame DEF BuildProtocolTokens, IInv, StateOK
<1>3. PoolsKept'
  BY DEF BuildProtocolTokens, IInv, PoolsKept, Omits
<1>4. QED
  BY <1>2, <1>3, StateKeeps DEF BuildProtocolTokens, IInv, FramesOK, CacheOK

LEMMA SettleIInv ==
  ASSUME IInv, NEW k \in Token, NEW i \in DOMAIN cache[k], Settle(k, i)
  PROVE  IInv'
<1>1. PICK result \in Outcome \cup {"unanswered"} :
        /\ IF result \in {"failed", "unanswered"} THEN Fault ELSE UNCHANGED failures
        /\ cache' = [cache EXCEPT ![k][i] = [state |-> result, expiryTime |-> now + TTL]]
  BY DEF Settle
<1>2. Later /\ \A j \in Token : Len(cache'[j]) = Len(cache[j])
  BY <1>1, LaterSettle DEF Settle
<1>3. failures' \in 0..MaxFailures
  BY <1>1, BoundsAssumption DEF Fault, IInv, StateOK
<1>4. StateOK'
  BY <1>3 DEF Settle, IInv, StateOK
<1>5. PoolsKept'
  BY DEF Settle, IInv, PoolsKept, Omits
<1>6. QED
  BY <1>2, <1>4, <1>5, StateKeeps DEF Settle, IInv, FramesOK

\* A task that fails, one that hangs, or one that ends, keeps its pools.
LEMMA StageKeepsPools ==
  ASSUME IInv, NEW t \in Task, UNCHANGED <<detected, tokens>>,
         detected[QueryOf[t]] # None,
         \A i \in Task \ {t} : frames'[i] = frames[i],
         \/ UNCHANGED stage
         \/ Fails(t)
         \/ stage' = [stage EXCEPT ![t] = "unanswered"]
         \/ stage[t] = "unwrap" /\ stage' = [stage EXCEPT ![t] = "done"]
  PROVE  PoolsKept'
<1> SUFFICES ASSUME NEW i \in Task
             PROVE  /\ stage'[i] # "begin" \/ frames'[i] # {} => detected[QueryOf[i]] # None
                    /\ stage'[i] \in {"unwrap", "done"} => Omits(i)
  BY DEF PoolsKept, Omits
<1>1. /\ stage[i] # "begin" \/ frames[i] # {} => detected[QueryOf[i]] # None
      /\ stage[i] \in {"unwrap", "done"} => Omits(i)
  BY DEF IInv, PoolsKept
<1>2. DOMAIN stage = Task
  BY DEF IInv, StateOK
<1>3. QED
  BY <1>1, <1>2 DEF Fails

LEMMA FinishIInv ==
  ASSUME IInv, NEW t \in Task, Finish(t)
  PROVE  IInv'
<1>1. PoolsKept'
  BY StageKeepsPools DEF Finish, IInv, PoolsKept
<1>2. Later /\ StateOK'
  BY LaterSame DEF Finish, IInv, StateOK, caches
<1>3. \A i \in Task : stage'[i] = "failed" => stage[i] = "failed"
  BY DEF Finish, IInv, StateOK
<1>4. QED
  BY <1>1, <1>2, <1>3, StateKeeps DEF Finish, IInv, FramesOK, CacheOK, caches

LEMMA AdapterFailsIInv ==
  ASSUME IInv, NEW t \in Task, AdapterFails(t)
  PROVE  IInv'
<1>1. PoolsKept'
  BY StageKeepsPools DEF AdapterFails
<1>2. failures' \in 0..MaxFailures
  BY BoundsAssumption DEF AdapterFails, Fault, IInv, StateOK
<1>3. Later /\ StateOK'
  BY <1>2, LaterSame DEF AdapterFails, Fails, IInv, StateOK, caches
<1>4. \A i \in Task : stage'[i] = "failed" => stage[i] = "failed" \/ i \in broken'
  BY DEF AdapterFails, Fails, IInv, StateOK
<1>5. QED
  BY <1>1, <1>3, <1>4, StateKeeps DEF AdapterFails, IInv, FramesOK, CacheOK, caches

LEMMA AdapterUnansweredIInv ==
  ASSUME IInv, NEW t \in Task, AdapterUnanswered(t)
  PROVE  IInv'
<1>1. PoolsKept'
  BY StageKeepsPools DEF AdapterUnanswered
<1>2. failures' \in 0..MaxFailures
  BY BoundsAssumption DEF AdapterUnanswered, Fault, IInv, StateOK
<1>3. Later /\ StateOK'
  BY <1>2, LaterSame DEF AdapterUnanswered, IInv, StateOK, caches
<1>4. \A i \in Task : stage'[i] = "failed" => stage[i] = "failed"
  BY DEF AdapterUnanswered, IInv, StateOK
<1>5. QED
  BY <1>1, <1>3, <1>4, StateKeeps
  DEF AdapterUnanswered, IInv, FramesOK, CacheOK, caches

----------------------------------------------------------------------------
\* A new frame asks for its adapter, and no token is on its path twice.
LEMMA CallOK ==
  ASSUME CacheOK, NEW path \in Seq(Token), Len(path) > 0, IsInjective(path)
  PROVE  FrameOK(Frame(path, "adapter", 0))
<1>1. Last(path) \in Token
  BY DEF Last
<1>2. Len(cache[Last(path)]) \in Nat
  BY <1>1 DEF CacheOK
<1>3. QED
  BY <1>2 DEF FrameOK, Frame, At_

LEMMA FetchPositionsIInv ==
  ASSUME IInv, NEW t \in Task, FetchPositions(t)
  PROVE  IInv'
<1> DEFINE a == AdapterOf[t]
           q == QueryOf[t]
           found(filter) == IF filter = None THEN Held[a] ELSE Held[a] \cap filter
<1>1. PICK filter \in Filters(q, a) :
        /\ stage' = [stage EXCEPT ![t] = IF filter = {} THEN "done" ELSE "unwrap"]
        /\ tokens' = [tokens EXCEPT ![t] = found(filter)]
        /\ frames' = [frames EXCEPT ![t] = Calls({<<p>> : p \in found(filter)})]
        /\ AsksForAdapter(found(filter))
  BY DEF FetchPositions
<1>2. a \in Adapter /\ q \in Query /\ Held[a] \in SUBSET Token
  BY TokenAssumption DEF Adapter, Query
<1>3. found(filter) \in SUBSET Token
  BY <1>2
<1>4. Later
  BY LaterSame DEF FetchPositions
<1>5. StateOK'
  BY <1>1, <1>3 DEF FetchPositions, AsksForAdapter, IInv, StateOK
<1>6. PoolsKept'
  <2>1. \A p \in Held[a] \ found(filter) :
          IF Wanted[q] = None THEN ChainOf[a] \notin detected[q] ELSE p \notin Wanted[q]
    BY DEF Filters, PoolsFound
  <2>2. tokens'[t] = found(filter)
    BY <1>1 DEF IInv, StateOK
  <2>3. Omits(t)'
    BY <2>1, <2>2 DEF Omits, FetchPositions
  <2> SUFFICES ASSUME NEW i \in Task \ {t}
               PROVE  /\ stage'[i] # "begin" \/ frames'[i] # {} => detected'[QueryOf[i]] # None
                      /\ stage'[i] \in {"unwrap", "done"} => Omits(i)'
    BY <2>3 DEF PoolsKept, FetchPositions
  <2>4. /\ stage'[i] = stage[i] /\ tokens'[i] = tokens[i]
        /\ frames'[i] = frames[i] /\ detected' = detected
    BY <1>1 DEF FetchPositions, IInv, StateOK, FramesOK
  <2>5. QED
    BY <2>4 DEF IInv, PoolsKept, Omits
<1>7. ASSUME NEW i \in Task
      PROVE  /\ stage'[i] = "failed" => stage[i] = "failed"
             /\ stage[i] = "failed" => frames'[i] = frames[i]
             /\ \A g \in frames'[i] \ frames[i] : FrameOK(g)'
  <2>1. CASE i = t
    <3>1. frames'[t] = Calls({<<p>> : p \in found(filter)}) /\ stage'[t] # "failed"
      BY <1>1 DEF IInv, FramesOK, StateOK
    <3>2. \A p \in Token : <<p>> \in Seq(Token) /\ Len(<<p>>) > 0 /\ IsInjective(<<p>>)
      BY DEF IsInjective
    <3>3. \A p \in Token : FrameOK(Frame(<<p>>, "adapter", 0))
      BY <3>2, CallOK DEF IInv
    <3>4. \A g \in frames'[t] : FrameOK(g)
      BY <1>3, <3>1, <3>3 DEF Calls
    <3>5. \A g \in frames'[t] : FrameOK(g)'
      BY <1>4, <3>4, FrameLater DEF IInv
    <3>6. QED
      BY <2>1, <3>1, <3>5 DEF FetchPositions
  <2>2. CASE i # t
    BY <1>1, <2>2 DEF IInv, FramesOK, StateOK
  <2>3. QED
    BY <2>1, <2>2
<1>8. /\ DOMAIN frames' = Task
      /\ protocolTokens = "failed" => protocolTokens' = "failed"
      /\ \A k \in Token : Len(cache'[k]) = Len(cache[k])
      /\ broken' = broken
  BY <1>1 DEF FetchPositions, AsksForAdapter, IInv, FramesOK
<1> HIDE DEF found, a, q
<1>9. QED
  BY <1>4, <1>5, <1>6, <1>7, <1>8, StateKeeps

----------------------------------------------------------------------------
\* A step of one frame: it goes on or ends, and perhaps begins others; if its task fails
\* of it there is a cause.
LEMMA FrameKeeps ==
  ASSUME IInv, Later, NEW t \in Task, NEW g \in frames[t], g.at # "thrown",
         NEW new, frames' = [frames EXCEPT ![t] = (@ \ {g}) \cup new],
         \A f \in new : FrameOK(f)',
         UNCHANGED <<now, detected, tokens, protocolTokens>>,
         broken' \subseteq Task, broken \subseteq broken', failures' \in 0..MaxFailures,
         \A k \in Token : Len(cache'[k]) > 1 =>
           Len(cache[k]) > 1 \/ \E i \in 1..Len(cache[k]) : Expired(k, i),
         UNCHANGED stage \/ (Fails(t) /\ Cause(t)')
  PROVE  IInv'
<1>1. StateOK'
  BY DEF IInv, StateOK, Fails
<1>2. CacheOK'
  BY DEF Later
<1>3. \A i \in Task : i # t => frames'[i] = frames[i]
  BY DEF IInv, FramesOK
<1>4. frames'[t] = (frames[t] \ {g}) \cup new
  BY DEF IInv, FramesOK
<1>5. FramesOK'
  <2>1. \A i \in Task : \A f \in frames[i] : FrameOK(f)'
    BY FrameLater DEF IInv, FramesOK
  <2>2. QED
    BY <1>3, <1>4, <2>1 DEF FramesOK, IInv
<1>6. PoolsKept'
  BY <1>3, StageKeepsPools DEF IInv, PoolsKept
<1>7. Causes'
  <2> SUFFICES ASSUME NEW i \in Task, stage'[i] = "failed", stage[i] = "failed"
               PROVE  Cause(i)'
    BY DEF Causes, Fails, IInv, StateOK
  <2>1. Cause(i)
    BY DEF IInv, Causes
  <2>2. \A f \in frames[i] : f.at = "thrown" => f \in frames'[i]
    BY <1>3, <1>4
  <2>3. QED
    BY <2>1, <2>2, CauseLater DEF IInv
<1>8. RequestsAreShared'
  BY SharedLater, BoundsAssumption DEF IInv, StateOK
<1>9. QED
  BY <1>1, <1>2, <1>5, <1>6, <1>7, <1>8 DEF IInv

\* A token that is not on the path yet can be followed.
LEMMA PathGrows ==
  ASSUME NEW path \in Seq(Token), IsInjective(path), NEW k \in Token, ~Contains(path, k)
  PROVE  IsInjective(Append(path, k))
<1>1. \A i \in 1..Len(path) : path[i] # k /\ Append(path, k)[i] = path[i]
  BY DEF Contains
<1>2. \A i, j \in 1..Len(path) : path[i] = path[j] => i = j
  BY DEF IsInjective
<1>3. /\ DOMAIN Append(path, k) = 1..(Len(path) + 1)
      /\ Append(path, k)[Len(path) + 1] = k
  OBVIOUS
<1>4. \A i, j \in 1..(Len(path) + 1) :
        Append(path, k)[i] = Append(path, k)[j] => i = j
  BY <1>1, <1>2, <1>3
<1>5. QED
  BY <1>3, <1>4 DEF IsInjective

LEMMA ChildrenAreTokens ==
  ASSUME NEW path \in Seq(Token), Len(path) > 0, NEW result,
         result = "opened" => Last(path) \in DOMAIN Underlying
  PROVE  Children(path, result) \subseteq Token
<1>1. path[1] \in Token
  OBVIOUS
<1>2. Given[path[1]] \subseteq Token /\ Claimable[path[1]] \subseteq Token
  BY <1>1, TokenAssumption
<1>3. result = "opened" => Underlying[Last(path)] \subseteq Token
  BY TokenAssumption
<1>4. QED
  BY <1>2, <1>3 DEF Children

\* A frame that resolves, and the calls that it makes.
LEMMA ResolvesOK ==
  ASSUME CacheOK, NEW g, FrameOK(g), NEW result \in Resolved,
         result = "opened" => Last(g.path) \in DOMAIN Underlying,
         NEW f \in {Frame(g.path, result, g.own)}
                    \cup Calls({Append(g.path, k) :
                                  k \in Unseen(g.path, Children(g.path, result))})
  PROVE  FrameOK(f)
<1>1. g.path \in Seq(Token) /\ Len(g.path) > 0 /\ IsInjective(g.path)
  BY DEF FrameOK
<1>2. CASE f = Frame(g.path, result, g.own)
  BY <1>2 DEF FrameOK, Frame, At_, Resolved
<1>3. CASE f \in Calls({Append(g.path, k) :
                         k \in Unseen(g.path, Children(g.path, result))})
  <2>1. PICK k \in Unseen(g.path, Children(g.path, result)) :
          f = Frame(Append(g.path, k), "adapter", 0)
    BY <1>3 DEF Calls
  <2>2. k \in Token /\ ~Contains(g.path, k)
    BY <1>1, <2>1, ChildrenAreTokens DEF Unseen
  <2>3. IsInjective(Append(g.path, k))
    BY <1>1, <2>2, PathGrows
  <2>4. Append(g.path, k) \in Seq(Token) /\ Len(Append(g.path, k)) > 0
    BY <1>1, <2>2
  <2>5. QED
    BY <2>1, <2>3, <2>4, CallOK
<1>4. QED
  BY <1>2, <1>3

\* A frame that got an answer.  It throws only for a rejected promise of its token, or
\* for a failed call of its task.
LEMMA AnsweredIInv ==
  ASSUME IInv, NEW t \in Task, NEW g \in frames[t], NEW result \in Outcome,
         g.at # "thrown", Answered(t, g, result),
         UNCHANGED <<now, cache, detected, tokens>>,
         broken' \subseteq Task, broken \subseteq broken', failures' \in 0..MaxFailures,
         result = "failed" =>
           t \in broken' \/ (g.own > 0 /\ Rejected(Last(g.path), g.own))
  PROVE  IInv'
<1>1. Later
  BY LaterSame
<1>2. FrameOK(g) /\ CacheOK
  BY DEF IInv, FramesOK
<1>3. \A k \in Token : Len(cache'[k]) > 1 => Len(cache[k]) > 1
  OBVIOUS
<1>4. ASSUME NEW to \in Resolved, Resolves(t, g, to),
             to = "opened" => Last(g.path) \in DOMAIN Underlying
      PROVE  IInv'
  <2> DEFINE new == {Frame(g.path, to, g.own)}
                      \cup Calls({Append(g.path, k) :
                                    k \in Unseen(g.path, Children(g.path, to))})
  <2>1. frames' = [frames EXCEPT ![t] = (@ \ {g}) \cup new]
    BY <1>4 DEF Resolves
  <2>2. \A f \in new : FrameOK(f)
    BY <1>2, <1>4, ResolvesOK
  <2> HIDE DEF new
  <2>3. \A f \in new : FrameOK(f)'
    BY <1>1, <1>2, <2>2, FrameLater
  <2>4. /\ UNCHANGED <<now, detected, tokens, protocolTokens>>
        /\ UNCHANGED stage \/ (Fails(t) /\ Cause(t)')
        /\ \A k \in Token : Len(cache'[k]) > 1 =>
             Len(cache[k]) > 1 \/ \E i \in 1..Len(cache[k]) : Expired(k, i)
    BY <1>3, <1>4 DEF Resolves
  <2>5. QED
    BY <1>1, <2>1, <2>3, <2>4, FrameKeeps, Zenon
<1>5. ASSUME Throws(t, g), result = "failed"
      PROVE  IInv'
  <2> DEFINE new == {Frame(g.path, "thrown", g.own)}
  <2>1. frames' = [frames EXCEPT ![t] = (@ \ {g}) \cup new]
    BY <1>5 DEF Throws, Becomes
  <2>2. \A f \in new : FrameOK(f)'
    BY <1>2 DEF FrameOK, Frame, At_
  <2>3. Frame(g.path, "thrown", g.own) \in frames'[t]
    BY <2>1 DEF IInv, FramesOK
  <2>4. Cause(t)'
    BY <1>5, <2>3 DEF Cause, Frame, Rejected
  <2> HIDE DEF new
  <2>5. QED
    BY <1>1, <1>3, <1>5, <2>1, <2>2, <2>4, FrameKeeps DEF Throws
<1>6. QED
  BY <1>4, <1>5 DEF Answered, Resolved

\* A frame that goes on to wait.
LEMMA BecomesIInv ==
  ASSUME IInv, Later, NEW t \in Task, NEW g \in frames[t], g.at # "thrown",
         NEW at \in {"direct", "cached", "fetched", "unanswered"},
         NEW i \in 0..Len(cache'[Last(g.path)]), at \in {"cached", "fetched"} => i > 0,
         Becomes(t, g, at, i), failures' \in 0..MaxFailures,
         UNCHANGED <<now, stage, detected, tokens, protocolTokens, broken>>,
         \A k \in Token : Len(cache'[k]) > 1 =>
           Len(cache[k]) > 1 \/ \E n \in 1..Len(cache[k]) : Expired(k, n)
  PROVE  IInv'
<1> DEFINE new == {Frame(g.path, at, i)}
<1>1. frames' = [frames EXCEPT ![t] = (@ \ {g}) \cup new]
  BY DEF Becomes
<1>2. FrameOK(g)
  BY DEF IInv, FramesOK
<1>3. Last(g.path) \in Token
  BY <1>2 DEF FrameOK, Last
<1>4. i \in Nat /\ i <= Len(cache'[Last(g.path)])
  BY <1>3 DEF Later, CacheOK
<1>5. \A f \in new : FrameOK(f)'
  BY <1>2, <1>4 DEF FrameOK, Frame, At_
<1>6. broken' \subseteq Task
  BY DEF IInv, StateOK
<1>7. /\ UNCHANGED <<now, detected, tokens, protocolTokens>>
      /\ broken \subseteq broken'
      /\ UNCHANGED stage \/ (Fails(t) /\ Cause(t)')
  OBVIOUS
<1> HIDE DEF new
<1>8. QED
  BY <1>1, <1>5, <1>6, <1>7, FrameKeeps, Zenon

\* A frame asks for its token: for the first time, or again for an answer that expired.
LEMMA FetchIInv ==
  ASSUME IInv, NEW t \in Task, NEW g \in frames[t], g.at # "thrown", Fetch(t, g),
         UNCHANGED <<now, stage, detected, tokens, protocolTokens, broken, failures>>,
         \/ Len(cache[Last(g.path)]) = 0
         \/ \E i \in 1..Len(cache[Last(g.path)]) : Expired(Last(g.path), i)
  PROVE  IInv'
<1> DEFINE k == Last(g.path)
<1>1. k \in Token
  BY DEF IInv, FramesOK, FrameOK, Last
<1> HIDE DEF k
<1>2. /\ Later
      /\ Len(cache'[k]) = Len(cache[k]) + 1
      /\ \A j \in Token \ {k} : cache'[j] = cache[j]
  BY <1>1, LaterFetch DEF Fetch, k
<1>3. Len(cache[k]) \in Nat
  BY <1>1 DEF IInv, CacheOK
<1>4. \A j \in Token : Len(cache'[j]) > 1 =>
        Len(cache[j]) > 1 \/ \E n \in 1..Len(cache[j]) : Expired(j, n)
  BY <1>1, <1>2, <1>3 DEF k
<1>5. Becomes(t, g, "fetched", Len(cache[k]) + 1)
  BY DEF Fetch, k
<1>6. Len(cache[k]) + 1 \in 0..Len(cache'[Last(g.path)]) /\ Len(cache[k]) + 1 > 0
  BY <1>2, <1>3 DEF k
<1>7. failures' \in 0..MaxFailures
  BY DEF IInv, StateOK
<1>8. QED
  BY <1>2, <1>4, <1>5, <1>6, <1>7, BecomesIInv

----------------------------------------------------------------------------
LEMMA FindAdapterIInv ==
  ASSUME IInv, NEW t \in Task, NEW g \in frames[t], FindAdapter(t, g)
  PROVE  IInv'
<1> USE DEF FindAdapter
<1>1. FrameOK(g) /\ CacheOK /\ Last(g.path) \in Token
  BY DEF IInv, FramesOK, FrameOK, Last
<1>2. Len(cache[Last(g.path)]) \in Nat
  BY <1>1 DEF CacheOK
<1>3. broken' \subseteq Task /\ failures' \in 0..MaxFailures
  BY DEF IInv, StateOK
<1>4. \A k \in Token : Len(cache[k]) > 1 =>
        Len(cache[k]) > 1 \/ \E i \in 1..Len(cache[k]) : Expired(k, i)
  OBVIOUS
<1>5. ASSUME protocolTokens = "failed", Throws(t, g), UNCHANGED cache
      PROVE  IInv'
  <2> DEFINE new == {Frame(g.path, "thrown", g.own)}
  <2>1. frames' = [frames EXCEPT ![t] = (@ \ {g}) \cup new]
    BY <1>5 DEF Throws, Becomes
  <2>2. \A f \in new : FrameOK(f)'
    BY <1>1, <1>5 DEF FrameOK, Frame, At_
  <2>3. Later
    BY <1>5, LaterSame
  <2>4. /\ UNCHANGED <<now, detected, tokens, protocolTokens>>
        /\ broken \subseteq broken'
        /\ UNCHANGED stage \/ (Fails(t) /\ Cause(t)')
        /\ \A k \in Token : Len(cache'[k]) > 1 =>
             Len(cache[k]) > 1 \/ \E i \in 1..Len(cache[k]) : Expired(k, i)
    BY <1>4, <1>5 DEF Throws, Cause
  <2>5. g.at # "thrown"
    OBVIOUS
  <2> HIDE DEF new
  <2>6. QED
    BY <1>3, <2>1, <2>2, <2>3, <2>4, <2>5, FrameKeeps, Zenon
<1>6. ASSUME Resolves(t, g, "given"), UNCHANGED cache
      PROVE  IInv'
  <2> DEFINE new == {Frame(g.path, "given", g.own)}
                      \cup Calls({Append(g.path, k) :
                                    k \in Unseen(g.path, Children(g.path, "given"))})
  <2>1. frames' = [frames EXCEPT ![t] = (@ \ {g}) \cup new]
    BY <1>6 DEF Resolves
  <2>2. \A f \in new : FrameOK(f)
    BY <1>1, ResolvesOK DEF Resolved
  <2> HIDE DEF new
  <2>3. Later
    BY <1>6, LaterSame
  <2>4. \A f \in new : FrameOK(f)'
    BY <1>1, <2>2, <2>3, FrameLater
  <2>5. /\ UNCHANGED <<now, detected, tokens, protocolTokens>>
        /\ broken \subseteq broken'
        /\ UNCHANGED stage \/ (Fails(t) /\ Cause(t)')
        /\ \A k \in Token : Len(cache'[k]) > 1 =>
             Len(cache[k]) > 1 \/ \E i \in 1..Len(cache[k]) : Expired(k, i)
    BY <1>4, <1>6 DEF Resolves
  <2>6. g.at # "thrown"
    OBVIOUS
  <2>7. QED
    BY <1>3, <2>1, <2>3, <2>4, <2>5, <2>6, FrameKeeps, Zenon
<1>7. ASSUME NEW at \in {"direct", "cached"}, NEW i \in 0..Len(cache[Last(g.path)]),
             at # "direct" => i > 0,
             Becomes(t, g, at, i), UNCHANGED <<cache, stage, protocolTokens>>
      PROVE  IInv'
  <2>1. Later
    BY <1>7, LaterSame
  <2>2. i \in 0..Len(cache'[Last(g.path)])
    BY <1>7
  <2>3. \A k \in Token : Len(cache'[k]) > 1 =>
          Len(cache[k]) > 1 \/ \E n \in 1..Len(cache[k]) : Expired(k, n)
    BY <1>7
  <2>4. g.at # "thrown" /\ UNCHANGED <<now, stage, detected, tokens, protocolTokens, broken>>
    BY <1>7
  <2>5. QED
    BY <1>3, <1>7, <2>1, <2>2, <2>3, <2>4, BecomesIInv
<1>8. ASSUME Cached(Last(g.path)) = {}, Fetch(t, g), UNCHANGED <<stage, protocolTokens>>
      PROVE  IInv'
  <2>1. Len(cache[Last(g.path)]) = 0
    BY <1>2, <1>8 DEF Cached
  <2>2. QED
    BY <1>8, <2>1, FetchIInv
<1>9. ASSUME NEW i \in Cached(Last(g.path))
      PROVE  i \in 0..Len(cache[Last(g.path)]) /\ i > 0
  BY <1>2 DEF Cached
<1>10. QED
  BY <1>2, <1>5, <1>6, <1>7, <1>8, <1>9

LEMMA AnswerDirectIInv ==
  ASSUME IInv, NEW t \in Task, NEW g \in frames[t], AnswerDirect(t, g)
  PROVE  IInv'
<1>1. broken \subseteq Task /\ failures \in 0..MaxFailures
  BY DEF IInv, StateOK
<1>2. g.at # "thrown" /\ UNCHANGED <<now, cache, detected, tokens>>
  BY DEF AnswerDirect
<1>3. ASSUME NEW result \in Outcome, Answered(t, g, result),
             IF result = "failed" THEN Fault /\ broken' = broken \cup {t}
                                  ELSE UNCHANGED <<failures, broken>>
      PROVE  IInv'
  <2>1. failures' \in 0..MaxFailures
    BY <1>1, <1>3, BoundsAssumption DEF Fault
  <2>2. broken' \subseteq Task /\ broken \subseteq broken'
    BY <1>1, <1>3
  <2>3. QED
    BY <1>2, <1>3, <2>1, <2>2, AnsweredIInv
<1>4. ASSUME Becomes(t, g, "unanswered", 0), Fault, UNCHANGED <<stage, protocolTokens, broken>>
      PROVE  IInv'
  <2>1. Later
    BY <1>2, LaterSame
  <2>2. failures' \in 0..MaxFailures
    BY <1>1, <1>4, BoundsAssumption DEF Fault
  <2>3. Last(g.path) \in Token
    BY DEF IInv, FramesOK, FrameOK, Last
  <2>4. 0 \in 0..Len(cache'[Last(g.path)])
    BY <1>2, <2>3 DEF IInv, CacheOK
  <2>5. \A k \in Token : Len(cache'[k]) > 1 => Len(cache[k]) > 1
    BY <1>2
  <2>6. QED
    BY <1>2, <1>4, <2>1, <2>2, <2>4, <2>5, BecomesIInv
<1>5. QED
  BY <1>3, <1>4 DEF AnswerDirect

\* What a frame waits for is a promise of its own token, which has an outcome now.
LEMMA OwnPromise ==
  ASSUME IInv, NEW t \in Task, NEW g \in frames[t], g.at \in {"cached", "fetched"},
         Settled(Last(g.path), g.own)
  PROVE  /\ Last(g.path) \in Token
         /\ g.own \in 1..Len(cache[Last(g.path)])
         /\ cache[Last(g.path)][g.own].state \in Outcome
<1>1. Last(g.path) \in Token /\ g.own \in 1..Len(cache[Last(g.path)])
  BY DEF IInv, FramesOK, FrameOK, CacheOK, Last
<1>2. cache[Last(g.path)][g.own] \in Promise
  BY <1>1 DEF IInv, CacheOK
<1>3. QED
  BY <1>1, <1>2 DEF Promise, Settled

LEMMA AnswerFetchedIInv ==
  ASSUME IInv, NEW t \in Task, NEW g \in frames[t], AnswerFetched(t, g)
  PROVE  IInv'
<1>1. /\ g.own \in 1..Len(cache[Last(g.path)])
      /\ cache[Last(g.path)][g.own].state \in Outcome
  BY OwnPromise DEF AnswerFetched
<1>2. broken \subseteq Task /\ failures \in 0..MaxFailures
  BY DEF IInv, StateOK
<1>3. QED
  BY <1>1, <1>2, AnsweredIInv DEF AnswerFetched, Rejected

LEMMA AnswerCachedIInv ==
  ASSUME IInv, NEW t \in Task, NEW g \in frames[t], AnswerCached(t, g)
  PROVE  IInv'
<1>1. /\ g.own \in 1..Len(cache[Last(g.path)])
      /\ cache[Last(g.path)][g.own].state \in Outcome
  BY OwnPromise DEF AnswerCached
<1>2. broken \subseteq Task /\ failures \in 0..MaxFailures
  BY DEF IInv, StateOK
<1>3. CASE Expired(Last(g.path), g.own)
  BY <1>1, <1>3, FetchIInv DEF AnswerCached
<1>4. CASE ~Expired(Last(g.path), g.own)
  BY <1>1, <1>2, <1>4, AnsweredIInv DEF AnswerCached, Rejected
<1>5. QED
  BY <1>3, <1>4

----------------------------------------------------------------------------
LEMMA NextIInv == IInv /\ [Next]_vars => IInv'
<1> SUFFICES ASSUME IInv, [Next]_vars PROVE IInv'
  OBVIOUS
<1>1. CASE Tick
  BY <1>1, TickIInv
<1>2. ASSUME NEW q \in Query, Detect(q) PROVE IInv'
  BY <1>2, DetectIInv
<1>3. CASE CacheStep
  BY <1>3, BuildIInv, SettleIInv DEF CacheStep
<1>4. ASSUME NEW t \in Task, FetchPositions(t) PROVE IInv'
  BY <1>4, FetchPositionsIInv
<1>5. ASSUME NEW t \in Task, AdapterFails(t) PROVE IInv'
  BY <1>5, AdapterFailsIInv
<1>6. ASSUME NEW t \in Task, AdapterUnanswered(t) PROVE IInv'
  BY <1>6, AdapterUnansweredIInv
<1>7. ASSUME NEW t \in Task, FrameStep(t) PROVE IInv'
  <2>1. PICK g \in frames[t] : \/ FindAdapter(t, g) \/ AnswerDirect(t, g)
                               \/ AnswerCached(t, g) \/ AnswerFetched(t, g)
    BY <1>7 DEF FrameStep
  <2>2. QED
    BY <2>1, FindAdapterIInv, AnswerDirectIInv, AnswerCachedIInv, AnswerFetchedIInv
<1>8. ASSUME NEW t \in Task, Finish(t) PROVE IInv'
  BY <1>8, FinishIInv
<1>9. CASE UNCHANGED vars
  <2>1. Later /\ StateOK'
    BY <1>9, LaterSame DEF vars, caches, IInv, StateOK
  <2>2. PoolsKept'
    BY <1>9 DEF vars, caches, IInv, PoolsKept, Omits
  <2>3. QED
    BY <1>9, <2>1, <2>2, StateKeeps DEF vars, caches, IInv, FramesOK, CacheOK
<1>10. QED
  BY <1>1, <1>2, <1>3, <1>4, <1>5, <1>6, <1>7, <1>8, <1>9 DEF Next, TaskStep

LEMMA Invariance == Spec => []IInv
  BY InitIInv, NextIInv, PTL DEF Spec

----------------------------------------------------------------------------
\* Every variable keeps its type, and no path of calls of unwrapToken holds a token
\* twice, whatever the tokens unwrap to.
THEOREM TypeCorrect == Spec => []TypeOK
<1>1. IInv => TypeOK
  <2> SUFFICES ASSUME IInv PROVE TypeOK
    OBVIOUS
  <2>1. \A k \in Token : \A i \in DOMAIN cache[k] : cache[k][i] \in Promise
    BY DEF IInv, CacheOK
  <2>2. \A t \in Task : \A g \in frames[t] :
          /\ g.path \in Seq(Token) /\ IsInjective(g.path)
          /\ g.at \in {"adapter", "direct", "cached", "fetched", "unanswered", "thrown"}
                       \cup Resolved
    BY DEF IInv, FramesOK, FrameOK, At_
  <2>3. QED
    BY <2>1, <2>2 DEF TypeOK, IInv, StateOK, Promise
<1>2. QED
  BY <1>1, Invariance, PTL

\* The cache of rates and prices asks for a token again only after an answer for it has
\* expired.
THEOREM RequestsShared == Spec => []RequestsAreShared
<1>1. IInv => RequestsAreShared
  BY DEF IInv
<1>2. QED
  BY <1>1, Invariance, PTL

\* A failed detection costs an answer the pools of its own chain, and no others.
THEOREM PoolsNotOmitted == Spec => []NothingOmitted
<1>1. IInv => NothingOmitted
  BY DEF IInv, PoolsKept, Omits, NothingOmitted
<1>2. QED
  BY <1>1, Invariance, PTL

\* runTaskForAdapter keeps errors apart: a task fails for what it asked itself.
THEOREM FailuresHaveCauses == Spec => []FailureHasCause
<1>1. IInv => FailureHasCause
  BY DEF IInv, Causes, Cause, FailureHasCause
<1>2. QED
  BY <1>1, Invariance, PTL

----------------------------------------------------------------------------
\* Nobody waits for nothing.

\* What a task does agrees with what its frames do.
WaitOK ==
  \A t \in Task :
    /\ stage[t] = "begin" => frames[t] = {}
    /\ stage[t] = "unwrap" => \A g \in frames[t] : g.at # "thrown"
    /\ stage[t] = "done" => \A g \in frames[t] : g.at \in Resolved
    /\ frames[t] # {} => protocolTokens # "none"

LEMMA FrameWaits ==
  ASSUME IInv, WaitOK, NEW t \in Task, NEW g \in frames[t], g.at \notin Resolved,
         NEW new, frames' = [frames EXCEPT ![t] = (@ \ {g}) \cup new],
         UNCHANGED protocolTokens,
         \/ UNCHANGED stage /\ \A f \in new : f.at # "thrown"
         \/ Fails(t)
  PROVE  WaitOK'
<1>1. /\ frames'[t] = (frames[t] \ {g}) \cup new
      /\ \A i \in Task \ {t} : frames'[i] = frames[i]
  BY DEF IInv, FramesOK
<1>2. /\ stage[t] # "begin" /\ stage[t] # "done" /\ protocolTokens' # "none"
      /\ stage[t] \in {"begin", "unanswered", "unwrap", "done", "failed"}
  BY DEF WaitOK, IInv, StateOK
<1>3. /\ \A i \in Task \ {t} : stage'[i] = stage[i]
      /\ stage'[t] = "failed" \/ (stage'[t] = stage[t] /\ \A f \in new : f.at # "thrown")
  BY <1>2 DEF IInv, StateOK, Fails
<1> SUFFICES ASSUME NEW i \in Task
             PROVE  /\ stage'[i] = "begin" => frames'[i] = {}
                    /\ stage'[i] = "unwrap" => \A f \in frames'[i] : f.at # "thrown"
                    /\ stage'[i] = "done" => \A f \in frames'[i] : f.at \in Resolved
                    /\ frames'[i] # {} => protocolTokens' # "none"
  BY DEF WaitOK
<1>4. CASE i = t
  <2>1. stage'[t] = "unwrap" => \A f \in frames'[t] : f.at # "thrown"
    BY <1>1, <1>3 DEF WaitOK
  <2>2. stage'[t] # "begin" /\ stage'[t] # "done"
    BY <1>2, <1>3
  <2>3. QED
    BY <1>2, <1>4, <2>1, <2>2
<1>5. CASE i # t
  BY <1>1, <1>3, <1>5 DEF WaitOK
<1>6. QED
  BY <1>4, <1>5

LEMMA BecomesWaits ==
  ASSUME IInv, WaitOK, NEW t \in Task, NEW g \in frames[t], g.at \notin Resolved,
         NEW at \in {"direct", "cached", "fetched", "unanswered"}, NEW i, Becomes(t, g, at, i),
         UNCHANGED <<stage, protocolTokens>>
  PROVE  WaitOK'
<1>1. \A f \in {Frame(g.path, at, i)} : f.at # "thrown"
  BY DEF Frame
<1>2. QED
  BY <1>1, FrameWaits DEF Becomes

LEMMA ThrowsWaits ==
  ASSUME IInv, WaitOK, NEW t \in Task, NEW g \in frames[t], g.at \notin Resolved,
         Throws(t, g)
  PROVE  WaitOK'
  BY FrameWaits DEF Throws, Becomes

LEMMA ResolvesWaits ==
  ASSUME IInv, WaitOK, NEW t \in Task, NEW g \in frames[t], g.at \notin Resolved,
         NEW result \in Resolved, Resolves(t, g, result)
  PROVE  WaitOK'
<1> DEFINE new == {Frame(g.path, result, g.own)}
                    \cup Calls({Append(g.path, k) :
                                  k \in Unseen(g.path, Children(g.path, result))})
<1>1. frames' = [frames EXCEPT ![t] = (@ \ {g}) \cup new]
  BY DEF Resolves
<1>2. \A f \in new : f.at # "thrown"
  BY DEF Frame, Calls, Resolved
<1> HIDE DEF new
<1>3. QED
  BY <1>1, <1>2, FrameWaits DEF Resolves

LEMMA AnsweredWaits ==
  ASSUME IInv, WaitOK, NEW t \in Task, NEW g \in frames[t], g.at \notin Resolved,
         NEW result, Answered(t, g, result)
  PROVE  WaitOK'
  BY ResolvesWaits, ThrowsWaits DEF Answered, Resolved

LEMMA FrameStepWaits ==
  ASSUME IInv, WaitOK, NEW t \in Task, FrameStep(t)
  PROVE  WaitOK'
<1>1. PICK g \in frames[t] : \/ FindAdapter(t, g) \/ AnswerDirect(t, g)
                             \/ AnswerCached(t, g) \/ AnswerFetched(t, g)
  BY DEF FrameStep
<1>2. g.at \notin Resolved
  BY <1>1 DEF FindAdapter, AnswerDirect, AnswerCached, AnswerFetched, Resolved
<1>3. CASE FindAdapter(t, g)
  <2>1. CASE Throws(t, g)
    BY <1>2, <2>1, ThrowsWaits
  <2>2. CASE Resolves(t, g, "given")
    BY <1>2, <2>2, ResolvesWaits DEF Resolved
  <2>3. CASE UNCHANGED <<stage, protocolTokens>> /\ \E i : Becomes(t, g, "direct", i)
    BY <1>2, <2>3, BecomesWaits
  <2>4. CASE UNCHANGED <<stage, protocolTokens>> /\ \E i : Becomes(t, g, "cached", i)
    BY <1>2, <2>4, BecomesWaits
  <2>5. CASE UNCHANGED <<stage, protocolTokens>> /\ Fetch(t, g)
    BY <1>2, <2>5, BecomesWaits DEF Fetch
  <2>6. QED
    BY <1>3, <2>1, <2>2, <2>3, <2>4, <2>5 DEF FindAdapter
<1>4. CASE AnswerDirect(t, g)
  BY <1>2, <1>4, AnsweredWaits, BecomesWaits DEF AnswerDirect
<1>5. CASE AnswerCached(t, g)
  BY <1>2, <1>5, AnsweredWaits, BecomesWaits DEF AnswerCached, Fetch
<1>6. CASE AnswerFetched(t, g)
  BY <1>2, <1>6, AnsweredWaits DEF AnswerFetched
<1>7. QED
  BY <1>1, <1>3, <1>4, <1>5, <1>6

LEMMA NextWaits == IInv /\ WaitOK /\ [Next]_vars => WaitOK'
<1> SUFFICES ASSUME IInv, WaitOK, [Next]_vars PROVE WaitOK'
  OBVIOUS
<1>1. ASSUME UNCHANGED <<stage, frames>>, protocolTokens # "none" => protocolTokens' # "none"
      PROVE  WaitOK'
  BY <1>1 DEF WaitOK
<1>2. CASE BuildProtocolTokens
  BY <1>1, <1>2 DEF BuildProtocolTokens
<1>3. CASE Tick \/ UNCHANGED vars
  BY <1>1, <1>3 DEF Tick, vars, caches
<1>4. ASSUME NEW q \in Query, Detect(q) PROVE WaitOK'
  BY <1>1, <1>4 DEF Detect, caches
<1>5. ASSUME NEW k \in Token, NEW i \in DOMAIN cache[k], Settle(k, i) PROVE WaitOK'
  BY <1>1, <1>5 DEF Settle
<1>6. ASSUME NEW t \in Task, FetchPositions(t) PROVE WaitOK'
  <2> DEFINE Found(filter) == IF filter = None THEN Held[AdapterOf[t]]
                                               ELSE Held[AdapterOf[t]] \cap filter
  <2>0. PICK filter :
          /\ stage' = [stage EXCEPT ![t] = IF filter = {} THEN "done" ELSE "unwrap"]
          /\ frames' = [frames EXCEPT ![t] = Calls({<<p>> : p \in Found(filter)})]
          /\ AsksForAdapter(Found(filter))
    BY <1>6 DEF FetchPositions
  <2> DEFINE found == Found(filter)
  <2>1. /\ stage' = [stage EXCEPT ![t] = IF filter = {} THEN "done" ELSE "unwrap"]
        /\ frames' = [frames EXCEPT ![t] = Calls({<<p>> : p \in found})]
        /\ AsksForAdapter(found)
        /\ filter = {} => found = {}
    BY <2>0, NoneAssumption
  <2> HIDE DEF found, Found
  <2>2. \A f \in Calls({<<p>> : p \in found}) : f.at = "adapter" /\ found # {}
    BY DEF Calls, Frame
  <2>3. /\ \A i \in Task \ {t} : frames'[i] = frames[i] /\ stage'[i] = stage[i]
        /\ frames'[t] = Calls({<<p>> : p \in found})
        /\ stage'[t] = IF filter = {} THEN "done" ELSE "unwrap"
    BY <2>1 DEF IInv, FramesOK, StateOK
  <2>4. /\ protocolTokens # "none" => protocolTokens' # "none"
        /\ found # {} => protocolTokens' # "none"
    BY <2>1 DEF AsksForAdapter
  <2>5. ASSUME NEW i \in Task, i # t
        PROVE  /\ stage'[i] = "begin" => frames'[i] = {}
               /\ stage'[i] = "unwrap" => \A f \in frames'[i] : f.at # "thrown"
               /\ stage'[i] = "done" => \A f \in frames'[i] : f.at \in Resolved
               /\ frames'[i] # {} => protocolTokens' # "none"
    BY <2>3, <2>4, <2>5 DEF WaitOK
  <2>6. /\ stage'[t] # "begin"
        /\ stage'[t] = "unwrap" => \A f \in frames'[t] : f.at # "thrown"
        /\ stage'[t] = "done" => \A f \in frames'[t] : f.at \in Resolved
        /\ frames'[t] # {} => protocolTokens' # "none"
    BY <2>1, <2>2, <2>3, <2>4
  <2>7. QED
    BY <2>5, <2>6 DEF WaitOK
<1>7. ASSUME NEW t \in Task, AdapterFails(t) PROVE WaitOK'
  <2>1. \A i \in Task : stage'[i] = stage[i] \/ stage'[i] = "failed"
    BY <1>7 DEF AdapterFails, Fails, IInv, StateOK
  <2>2. QED
    BY <1>7, <2>1 DEF AdapterFails, WaitOK, caches
<1>8. ASSUME NEW t \in Task, AdapterUnanswered(t) PROVE WaitOK'
  <2>1. \A i \in Task : stage'[i] = stage[i] \/ stage'[i] = "unanswered"
    BY <1>8 DEF AdapterUnanswered, IInv, StateOK
  <2>2. QED
    BY <1>8, <2>1 DEF AdapterUnanswered, WaitOK, caches
<1>9. ASSUME NEW t \in Task, Finish(t) PROVE WaitOK'
  <2>1. /\ \A i \in Task : stage'[i] = IF i = t THEN "done" ELSE stage[i]
        /\ \A g \in frames[t] : g.at \in Resolved
    BY <1>9 DEF Finish, IInv, StateOK
  <2>2. QED
    BY <1>9, <2>1 DEF Finish, WaitOK, caches
<1>10. QED
  BY <1>2, <1>3, <1>4, <1>5, <1>6, <1>7, <1>8, <1>9, FrameStepWaits
  DEF Next, TaskStep, CacheStep

\* While a task unwraps each of its calls has returned, or waits for something that was
\* asked for: no error is swallowed, no wait is left without its promise.
THEOREM NobodyWaitsForNothing == Spec => []WaitsForSomething
<1>1. Init => WaitOK
  BY DEF Init, WaitOK
<1>2. IInv /\ WaitOK => WaitsForSomething
  <2> SUFFICES ASSUME IInv, WaitOK, NEW t \in Task, NEW g \in frames[t]
               PROVE  /\ g.at = "adapter" => protocolTokens # "none"
                      /\ g.at \in {"cached", "fetched"} =>
                           g.own \in DOMAIN cache[Last(g.path)]
    BY DEF WaitOK, WaitsForSomething
  <2>1. FrameOK(g) /\ Last(g.path) \in Token
    BY DEF IInv, FramesOK, FrameOK, Last
  <2>2. DOMAIN cache[Last(g.path)] = 1..Len(cache[Last(g.path)])
    BY <2>1 DEF IInv, CacheOK
  <2>3. QED
    BY <2>1, <2>2 DEF WaitOK, FrameOK
<1>3. QED
  BY <1>1, <1>2, InitIInv, NextIInv, NextWaits, Invariance, PTL DEF Spec

\* The recursion of unwrapToken is never deeper than there are tokens, however these
\* refer to each other.
THEOREM RecursionIsBounded ==
  ASSUME IsFiniteSet(Token)
  PROVE  Spec => [](\A t \in Task : \A g \in frames[t] : Len(g.path) <= Cardinality(Token))
<1>1. IInv => \A t \in Task : \A g \in frames[t] : Len(g.path) <= Cardinality(Token)
  <2> SUFFICES ASSUME IInv, NEW t \in Task, NEW g \in frames[t]
               PROVE  Len(g.path) <= Cardinality(Token)
    OBVIOUS
  <2>1. g.path \in Seq(Token) /\ IsInjective(g.path)
    BY DEF IInv, FramesOK, FrameOK
  <2> DEFINE n == Len(g.path)
  <2>2. n \in Nat /\ g.path \in [1..n -> Token]
    BY <2>1
  <2>3. g.path \in Injection(1..n, Token)
    BY <2>1, <2>2 DEF Injection
  <2>4. Cardinality(1..n) <= Cardinality(Token)
    BY <2>3, FS_Injection
  <2>5. Cardinality(1..n) = n
    BY <2>2, FS_Interval
  <2>6. QED
    BY <2>4, <2>5
<1>2. QED
  BY <1>1, Invariance, PTL
============================================================================
