----------------------------- MODULE Positions -----------------------------
(***************************************************************************)
(* getPositions of the adapters library: the pools of a user are detected  *)
(* chain by chain, then every adapter runs as a task of its own that       *)
(* fetches its positions and unwraps their tokens down to tokens with a    *)
(* price.  The tasks of all queries share two caches: the map from tokens  *)
(* to adapters, built once, and the rates and prices of tokens, kept as    *)
(* promises for ten minutes.                                               *)
(*                                                                         *)
(* A call of a contract goes through the multicall queue (MulticallQueue), *)
(* without a timeout, and the queue may drop it: besides a value and an    *)
(* error an outcome of a call is that it is never answered.                *)
(*                                                                         *)
(* A call of unwrapToken is a frame, named by its path: the tokens from    *)
(* the position down to its own.  Amounts are abstracted to whether a      *)
(* price is known; an EVM chain is taken for granted (on Solana there is   *)
(* no detection and no filter).                                            *)
(***************************************************************************)
EXTENDS Integers, FiniteSets, SequencesExt

CONSTANTS
  Task,         \* runs of runTaskForAdapter
  QueryOf,      \* QueryOf[t]: the call of getPositions that t belongs to
  AdapterOf,    \* AdapterOf[t]: the adapter that t runs
  ChainOf,      \* ChainOf[a]: the chain of adapter a
  Held,         \* Held[a]: the pools of adapter a that the user is in
  Given,        \* Given[p]: underlying tokens that the position in p comes with
  Claimable,    \* Claimable[p]: reward tokens of the position in p
  Wanted,       \* Wanted[q]: filterProtocolTokens of query q, or None
  AtBlock,      \* blockNumbers: the pairs of a query and a chain that have one
  Token,        \* pools, the tokens underneath, rewards
  Underlying,   \* Underlying[t]: what t unwraps to, for the tokens with an adapter
  TTL,          \* expiryTimeInMs
  LastTime,     \* bound: the clock stops here
  MaxFailures,  \* bound: calls that fail or are never answered
  None          \* undefined

Query == {QueryOf[t] : t \in Task}
Adapter == {AdapterOf[t] : t \in Task}
Chain == {ChainOf[a] : a \in Adapter}

ASSUME TaskAssumption ==
  /\ DOMAIN QueryOf = Task /\ DOMAIN AdapterOf = Task
  /\ Adapter \subseteq DOMAIN ChainOf
  /\ Wanted \in [Query -> (SUBSET Token) \cup {None}]
ASSUME TokenAssumption ==
  /\ Held \in [Adapter -> SUBSET Token]
  /\ Given \in [Token -> SUBSET Token] /\ Claimable \in [Token -> SUBSET Token]
  /\ DOMAIN Underlying \subseteq Token
  /\ \A t \in DOMAIN Underlying : Underlying[t] \subseteq Token
ASSUME BoundsAssumption ==
  TTL \in Nat \ {0} /\ LastTime \in Nat /\ MaxFailures \in Nat
ASSUME NoneAssumption == \A S \in SUBSET (Token \cup Chain) : S # None

VARIABLES
  now,            \* Date.now()
  protocolTokens, \* the promise of buildProtocolTokens
  cache,          \* cache[k]: the promises made for the key k, the last one cached
  detected,       \* detected[q]: the chains whose pools are known, None before that
  stage,          \* stage[t]: what task t waits for, or how it ended
  tokens,         \* tokens[t]: the pools of the positions of t
  frames,         \* frames[t]: the calls of unwrapToken that t has made
  broken,         \* history: tasks with a failed call of their own
  failures        \* history: calls that failed or will never be answered

caches == <<protocolTokens, cache>>
vars == <<now, caches, detected, stage, tokens, frames, broken, failures>>

Init ==
  /\ now = 0
  /\ protocolTokens = "none"
  /\ cache = [k \in Token |-> <<>>]
  /\ detected = [q \in Query |-> None]
  /\ stage = [t \in Task |-> "begin"]
  /\ tokens = [t \in Task |-> {}]
  /\ frames = [t \in Task |-> {}]
  /\ broken = {}
  /\ failures = 0

Tick ==
  /\ now < LastTime
  /\ now' = now + 1
  /\ UNCHANGED <<caches, detected, stage, tokens, frames, broken, failures>>

Fault ==
  /\ failures < MaxFailures
  /\ failures' = failures + 1

----------------------------------------------------------------------------
\* Detection, and the positions of an adapter.

\* The chains of a query, those that filterChainIds leaves.
Chains(q) == {ChainOf[AdapterOf[t]] : t \in {i \in Task : QueryOf[i] = q}}

\* The query goes on when the detection of every chain is through: it answered with the
\* user's pools, or else with undefined or an error, which is logged.
Detect(q) ==
  /\ detected[q] = None
  /\ \E found \in SUBSET Chains(q) : detected' = [detected EXCEPT ![q] = found]
  /\ UNCHANGED <<now, caches, stage, tokens, frames, broken, failures>>

\* Mutant: when the detection of a chain failed no chain counts as detected.
PoolsFound_AllChains(q, a) ==
  IF detected[q] = Chains(q) THEN Held[a] ELSE {}

\* contractAddresses || []: a failed detection reads as no pools.
PoolsFound(q, a) == IF ChainOf[a] \in detected[q] THEN Held[a] ELSE {}

\* getProtocolTokensFilter: the pools given by the caller, or those detected, or all
\* (None) when the adapter cannot name its pools.
Filters(q, a) ==
  IF Wanted[q] # None THEN {Wanted[q]} ELSE {PoolsFound(q, a), None}

\* A call of unwrapToken asks fetchTokenAdapter first.
Frame(path, at, own) == [path |-> path, at |-> at, own |-> own]

Calls(paths) == {Frame(path, "adapter", 0) : path \in paths}

\* The first call of fetchTokenAdapter starts to build the map.
AsksForAdapter(calls) ==
  protocolTokens' = IF calls # {} /\ protocolTokens = "none" THEN "building"
                                                            ELSE protocolTokens

\* Once the chains are detected the task runs.  With an empty filter it ends; else the
\* adapter answers with the user's positions and then with their rewards, and unwrap
\* begins with a frame for each position.
FetchPositions(t) ==
  /\ stage[t] = "begin"
  /\ detected[QueryOf[t]] # None
  /\ \E filter \in Filters(QueryOf[t], AdapterOf[t]) :
       LET found == IF filter = None THEN Held[AdapterOf[t]]
                                     ELSE Held[AdapterOf[t]] \cap filter
       IN  /\ stage' = [stage EXCEPT ![t] = IF filter = {} THEN "done" ELSE "unwrap"]
           /\ tokens' = [tokens EXCEPT ![t] = found]
           /\ frames' = [frames EXCEPT ![t] = Calls({<<p>> : p \in found})]
           /\ AsksForAdapter(found)
  /\ UNCHANGED <<now, cache, detected, broken, failures>>

\* Mutant: nothing catches the error of a task.
Fails_WholeQuery(t) ==
  stage' = [i \in Task |->
    IF QueryOf[i] = QueryOf[t] /\ stage[i] # "done" THEN "failed" ELSE stage[i]]

\* runTaskForAdapter catches the error.  Frames of the task go on by themselves.
Fails(t) == stage' = [stage EXCEPT ![t] = IF @ = "done" THEN @ ELSE "failed"]

\* The adapter fails to answer with the positions or the rewards.
AdapterFails(t) ==
  /\ stage[t] = "begin"
  /\ detected[QueryOf[t]] # None
  /\ \E filter \in Filters(QueryOf[t], AdapterOf[t]) : filter # {}
  /\ Fault
  /\ Fails(t)
  /\ broken' = broken \cup {t}
  /\ UNCHANGED <<now, caches, detected, tokens, frames>>

\* A call that the adapter makes for them is never answered.
AdapterUnanswered(t) ==
  /\ stage[t] = "begin"
  /\ detected[QueryOf[t]] # None
  /\ \E filter \in Filters(QueryOf[t], AdapterOf[t]) : filter # {}
  /\ Fault
  /\ stage' = [stage EXCEPT ![t] = "unanswered"]
  /\ UNCHANGED <<now, caches, detected, tokens, frames, broken>>

----------------------------------------------------------------------------
\* The two caches.

\* buildProtocolTokens: any error but NotImplementedError rejects the one promise.
BuildProtocolTokens ==
  /\ protocolTokens = "building"
  /\ \/ protocolTokens' = "built" /\ UNCHANGED failures
     \/ protocolTokens' \in {"failed", "unanswered"} /\ Fault
  /\ UNCHANGED <<now, cache, detected, stage, tokens, frames, broken>>

Pending == [state |-> "pending", expiryTime |-> 0]

\* The outcomes of a fetcher.  An adapter is "unable" when it has no rate at the block
\* (two kinds of error that unwrap forgives), a price is when it is 0.
Outcome == {"ok", "unable", "failed"}

\* A promise in the cache settles, or its call is one that is never answered; only a
\* value has an expiry time.
Settle(k, i) ==
  /\ cache[k][i] = Pending
  /\ \E result \in Outcome \cup {"unanswered"} :
       /\ IF result \in {"failed", "unanswered"} THEN Fault ELSE UNCHANGED failures
       /\ cache' = [cache EXCEPT ![k][i] = [state |-> result, expiryTime |-> now + TTL]]
  /\ UNCHANGED <<now, protocolTokens, detected, stage, tokens, frames, broken>>

\* Mutant: an error wakes none of those that wait.
Settled_Value(k, i) == cache[k][i].state \in {"ok", "unable"}

Settled(k, i) == cache[k][i].state \in Outcome

Rejected(k, i) ==
  \/ cache[k][i].state = "failed"
  \/ cache[k][i].state = "unable" /\ k \in DOMAIN Underlying

----------------------------------------------------------------------------
\* The frames of a task.

\* The frame g of task t goes on to wait for promise i of its token, or ends.
Becomes(t, g, at, i) ==
  frames' = [frames EXCEPT ![t] = (@ \ {g}) \cup {Frame(g.path, at, i)}]

\* Mutant: a key enters the cache with the answer.
Cached_Settled(k) == {i \in {Len(cache[k])} \ {0} : cache[k][i].state \in Outcome}

\* this.cache.get(key)
Cached(k) == {Len(cache[k])} \ {0}

\* A new promise is cached before it settles.
Fetch(t, g) ==
  LET k == Last(g.path) IN
  /\ cache' = [cache EXCEPT ![k] = Append(@, Pending)]
  /\ Becomes(t, g, "fetched", Len(cache[k]) + 1)

\* Mutant: a token may come up again on its own path.
Unseen_All(path, S) == S

\* tokensSeen: the tokens that are followed.
Unseen(path, S) == {k \in S : ~Contains(path, k)}

\* What hangs under the token of a frame that ended with the given result.
Children(path, result) ==
  (IF Len(path) = 1 THEN Given[path[1]] \cup Claimable[path[1]] ELSE {})
    \cup (IF result = "opened" THEN Underlying[Last(path)] ELSE {})

\* The token of frame g is resolved and the tokens under it are followed.
Resolves(t, g, result) ==
  LET next == Unseen(g.path, Children(g.path, result)) IN
  /\ frames' = [frames EXCEPT ![t] =
       (@ \ {g}) \cup {Frame(g.path, result, g.own)}
                 \cup Calls({Append(g.path, k) : k \in next})]
  /\ UNCHANGED <<stage, protocolTokens>>

\* Mutant: the error of a token is swallowed, and nothing waits for its frame.
Throws_Swallowed(t, g) ==
  /\ Becomes(t, g, "thrown", g.own)
  /\ UNCHANGED <<stage, protocolTokens>>

\* A frame throws, and with it its task.
Throws(t, g) ==
  /\ Becomes(t, g, "thrown", g.own)
  /\ Fails(t)
  /\ UNCHANGED protocolTokens

\* What the answer for its token makes of a frame: only an adapter's error that is not
\* forgiven goes on to the task.
Answered(t, g, result) ==
  LET priced == Last(g.path) \notin DOMAIN Underlying IN
  \/ result = "ok" /\ Resolves(t, g, IF priced THEN "priced" ELSE "opened")
  \/ result = "unable" /\ Resolves(t, g, "bare")
  \/ result = "failed" /\ priced /\ Resolves(t, g, "bare")
  \/ result = "failed" /\ ~priced /\ Throws(t, g)

\* fetchTokenAdapter has its answer.
FindAdapter(t, g) ==
  /\ g.at = "adapter"
  /\ \/ /\ protocolTokens = "failed"
        /\ Throws(t, g)
        /\ UNCHANGED cache
     \/ /\ protocolTokens = "built"
        /\ Len(g.path) = 1 /\ Given[g.path[1]] # {}
        /\ Resolves(t, g, "given")
        /\ UNCHANGED cache
     \/ /\ protocolTokens = "built"
        /\ ~(Len(g.path) = 1 /\ Given[g.path[1]] # {})
        /\ IF <<QueryOf[t], ChainOf[AdapterOf[t]]>> \in AtBlock
             THEN Becomes(t, g, "direct", 0) /\ UNCHANGED cache
             ELSE \/ /\ Cached(Last(g.path)) = {}
                     /\ Fetch(t, g)
                  \/ \E i \in Cached(Last(g.path)) :
                       /\ Becomes(t, g, "cached", i)
                       /\ UNCHANGED cache
        /\ UNCHANGED <<stage, protocolTokens>>
  /\ UNCHANGED <<now, detected, tokens, broken, failures>>

\* The answer to a query with a block number, which the cache never sees, or that there
\* will be none.
AnswerDirect(t, g) ==
  /\ g.at = "direct"
  /\ \/ \E result \in Outcome :
          /\ Answered(t, g, result)
          /\ IF result = "failed" THEN Fault /\ broken' = broken \cup {t}
                                  ELSE UNCHANGED <<failures, broken>>
     \/ /\ Becomes(t, g, "unanswered", 0)
        /\ Fault
        /\ UNCHANGED <<stage, protocolTokens, broken>>
  /\ UNCHANGED <<now, cache, detected, tokens>>

\* A value whose ten minutes are over.  A rejected promise has no expiry time.
Expired(k, i) ==
  Settled(k, i) /\ ~Rejected(k, i) /\ cache[k][i].expiryTime <= now

\* The cached promise that a frame waits for has settled.  When it has expired by now
\* the frame fetches, whether or not others did so since it looked.
AnswerCached(t, g) ==
  LET k == Last(g.path) IN
  /\ g.at = "cached"
  /\ Settled(k, g.own)
  /\ IF Expired(k, g.own)
       THEN Fetch(t, g) /\ UNCHANGED <<stage, protocolTokens>>
       ELSE Answered(t, g, cache[k][g.own].state) /\ UNCHANGED cache
  /\ UNCHANGED <<now, detected, tokens, broken, failures>>

\* The promise that the frame itself made has settled.
AnswerFetched(t, g) ==
  LET k == Last(g.path) IN
  /\ g.at = "fetched"
  /\ Settled(k, g.own)
  /\ Answered(t, g, cache[k][g.own].state)
  /\ UNCHANGED <<now, cache, detected, tokens, broken, failures>>

Resolved == {"given", "opened", "bare", "priced"}

\* All frames have returned: the task has its positions.
Finish(t) ==
  /\ stage[t] = "unwrap"
  /\ \A g \in frames[t] : g.at \in Resolved
  /\ stage' = [stage EXCEPT ![t] = "done"]
  /\ UNCHANGED <<now, caches, detected, tokens, frames, broken, failures>>

----------------------------------------------------------------------------
FrameStep(t) ==
  \E g \in frames[t] :
    FindAdapter(t, g) \/ AnswerDirect(t, g) \/ AnswerCached(t, g) \/ AnswerFetched(t, g)

CacheStep ==
  BuildProtocolTokens \/ \E k \in Token : \E i \in DOMAIN cache[k] : Settle(k, i)

TaskStep(t) ==
  \/ FetchPositions(t) \/ AdapterFails(t) \/ AdapterUnanswered(t)
  \/ FrameStep(t) \/ Finish(t)

Next ==
  \/ Tick
  \/ \E q \in Query : Detect(q)
  \/ CacheStep
  \/ \E t \in Task : TaskStep(t)

\* In the end it is known of each call that it is answered, by a value or an error, or
\* that it never will be, and the event loop runs what an answer makes ready.  Only the
\* detection is always answered: it is a function of the caller's, not a contract call.
Fairness ==
  /\ WF_vars(\E q \in Query : Detect(q))
  /\ WF_vars(CacheStep)
  /\ \A t \in Task : WF_vars(TaskStep(t))

Spec == Init /\ [][Next]_vars /\ Fairness

----------------------------------------------------------------------------
\* The prices of an answer.

\* The frame of a path in the answer of t, if its token was followed.
At(t, path) == {g \in frames[t] : g.path = path}

\* The paths under a path, those of tokens that were not followed included.
Below(t, path) ==
  UNION {{Append(path, k) : k \in Children(path, g.at)} : g \in At(t, path)}

Paths(t) ==
  {g.path : g \in frames[t]} \cup UNION {Below(t, g.path) : g \in frames[t]}

\* Mutant: a token counts its children that have a price.
PropagatePrice_Some(t) ==
  LET price[path \in Paths(t)] ==
        IF Below(t, path) = {} THEN \E g \in At(t, path) : g.at = "priced"
                               ELSE \E p \in Below(t, path) : price[p]
  IN price

\* propagatePrice: whether the token of a path is shown with a price.
PropagatePrice(t) ==
  LET price[path \in Paths(t)] ==
        IF Below(t, path) = {} THEN \E g \in At(t, path) : g.at = "priced"
                               ELSE \A p \in Below(t, path) : price[p]
  IN price

----------------------------------------------------------------------------
\* Types are kept, and no token is followed twice on a path, however the tokens refer
\* to each other.
TypeOK ==
  /\ now \in 0..LastTime
  /\ protocolTokens \in {"none", "building", "built", "failed", "unanswered"}
  /\ \A k \in Token : \A i \in DOMAIN cache[k] :
       cache[k][i] \in [state : {"pending", "unanswered"} \cup Outcome,
                        expiryTime : 0..(LastTime + TTL)]
  /\ detected \in [Query -> (SUBSET Chain) \cup {None}]
  /\ stage \in [Task -> {"begin", "unanswered", "unwrap", "done", "failed"}]
  /\ tokens \in [Task -> SUBSET Token]
  /\ \A t \in Task : \A g \in frames[t] :
       /\ g.path \in Seq(Token) /\ IsInjective(g.path)
       /\ g.at \in {"adapter", "direct", "cached", "fetched", "unanswered", "thrown"}
                     \cup Resolved
  /\ broken \subseteq Task
  /\ failures \in 0..MaxFailures

\* A token is asked for again only once an answer for it has expired: requests that run
\* at the same time are shared, and what failed at first is never asked again.
RequestsAreShared ==
  \A k \in Token : Len(cache[k]) > 1 => \E i \in DOMAIN cache[k] : Expired(k, i)

\* A pool of the user is missing from an answer only if its own chain was not detected,
\* or the caller did not want it.
NothingOmitted ==
  \A t \in Task : stage[t] = "done" =>
    \A p \in Held[AdapterOf[t]] \ tokens[t] :
      IF Wanted[QueryOf[t]] = None
        THEN ChainOf[AdapterOf[t]] \notin detected[QueryOf[t]]
        ELSE p \notin Wanted[QueryOf[t]]

\* A task fails only for a call of its own, for a token on a path of its own whose
\* request failed (whoever made it, and whenever), or for the map of adapters.
FailureHasCause ==
  \A t \in Task : stage[t] = "failed" =>
    \/ t \in broken
    \/ protocolTokens = "failed"
    \/ \E g \in frames[t] : g.at = "thrown" /\ Rejected(Last(g.path), g.own)

\* No task waits for nothing: as long as it unwraps each of its calls has its answer, or
\* waits for the map or for a promise of its token that someone has asked for (though
\* perhaps in vain), and none has thrown; an answer is given only when all have returned.
WaitsForSomething ==
  \A t \in Task :
    /\ stage[t] = "unwrap" => \A g \in frames[t] : g.at # "thrown"
    /\ stage[t] = "done" => \A g \in frames[t] : g.at \in Resolved
    /\ \A g \in frames[t] :
         /\ g.at = "adapter" => protocolTokens # "none"
         /\ g.at \in {"cached", "fetched"} => g.own \in DOMAIN cache[Last(g.path)]

\* A token under a position is shown with a price only if every token at the bottom of
\* it has one: no value is ever that of a part.
PriceIsWhole ==
  \A t \in Task : stage[t] = "done" =>
    LET price == PropagatePrice(t) IN
    \A path \in Paths(t) :
      price[path] <=>
        \A p \in Paths(t) :
          IsPrefix(path, p) /\ Below(t, p) = {} => \E g \in At(t, p) : g.at = "priced"

\* Task t waits for a call that is never answered: one of its adapter, one for a token
\* on a path of its own (whoever asked, and whenever), or one for the map of adapters.
WaitsForUnanswered(t) ==
  \/ stage[t] = "unanswered"
  \/ \E g \in frames[t] :
       \/ g.at = "unanswered"
       \/ g.at = "adapter" /\ protocolTokens = "unanswered"
       \/ /\ g.at \in {"cached", "fetched"}
          /\ cache[Last(g.path)][g.own].state = "unanswered"

\* Every task ends, though tokens may lead back to themselves, except one that itself
\* waits for a call that is never answered (and with it the answer of its query, which
\* awaits all of its tasks).
EndsUnlessUnanswered ==
  \A t \in Task : <>(stage[t] \in {"done", "failed"} \/ WaitsForUnanswered(t))
============================================================================
