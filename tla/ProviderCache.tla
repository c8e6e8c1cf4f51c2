--------------------------- MODULE ProviderCache ---------------------------
(***************************************************************************)
(* The provider of packages/adapters-library: call and getLogs of          *)
(* CustomJsonRpcProvider, which remember the promise of each request by    *)
(* its key, and retryHandlerFactory, which gives every attempt a timeout   *)
(* and tries again after a timeout but not after an error.                 *)
(*                                                                         *)
(* A caller runs up to its next await in one step.  What it finds settled  *)
(* it goes on with in a microtask, before the clock moves (Resume); timers *)
(* fire at most Lag after they are due.                                    *)
(***************************************************************************)
EXTENDS Integers

CONSTANTS
  Caller,      \* invocations of call and getLogs, each made once
  Key,         \* the requests: a transaction or a filter, as a cache key
  KeyOf,       \* KeyOf[c]: the key of the request of caller c
  TTL,         \* THIRTY_MINUTES
  Timeout,     \* timeoutInMs
  Lag,         \* how late the event loop may run a timer
  MaxRetries,
  LastCall,    \* bound: calls are made up to this time
  None         \* no caller

\* What one attempt takes at most, and all of a request's.
Attempt == Timeout + Lag
Budget == (MaxRetries + 1) * Attempt

ASSUME KeyAssumption == KeyOf \in [Caller -> Key]
ASSUME TimeAssumption ==
  TTL \in Nat \ {0} /\ Timeout \in Nat /\ Lag \in Nat /\ LastCall \in Nat
ASSUME RetriesAssumption == MaxRetries \in Nat
ASSUME NoneAssumption == None \notin Caller

VARIABLES
  now,          \* Date.now()
  enableCache,  \* _enableCache
  cache,        \* cacheCalls and cacheLogs: the caller that made the entry
  entry,        \* entry[c]: the promise of callHandler made by caller c
  status,       \* of each caller's own promise
  on,           \* the entry that a caller awaits, or was settled by
  calledAt      \* when the caller called: also the now it compares with

vars == <<now, enableCache, cache, entry, status, on, calledAt>>

Phase == {"none", "pending", "ok", "failed"}

Entry == [phase : Phase,
          retryCount : 0..MaxRetries,
          startedAt : Nat,    \* when the attempt under way was started
          readAt : Nat,       \* when the node read the result
          timestamp : Nat]

NoEntry ==
  [phase |-> "none", retryCount |-> 0, startedAt |-> 0, readAt |-> 0, timestamp |-> 0]

\* An attempt started now, an answer received now and a failure.
Trying(n) ==
  [phase |-> "pending", retryCount |-> n, startedAt |-> now, readAt |-> 0, timestamp |-> 0]
Result(t) ==
  [phase |-> "ok", retryCount |-> 0, startedAt |-> 0, readAt |-> t, timestamp |-> now]
Failed ==
  [phase |-> "failed", retryCount |-> 0, startedAt |-> 0, readAt |-> 0, timestamp |-> 0]

Init ==
  /\ now = 0
  /\ enableCache \in BOOLEAN
  /\ cache = [k \in Key |-> None]
  /\ entry = [c \in Caller |-> NoEntry]
  /\ status = [c \in Caller |-> "idle"]
  /\ on = [c \in Caller |-> None]
  /\ calledAt = [c \in Caller |-> 0]

----------------------------------------------------------------------------
\* Mutant: the entry is never put in the cache.
Begin_NotCached(c) ==
  /\ entry' = [entry EXCEPT ![c] = Trying(0)]
  /\ on' = [on EXCEPT ![c] = c]
  /\ UNCHANGED cache

\* Caller c sends the request itself.  Its entry takes the place of any other
\* under its key, whoever made that.
Begin(c) ==
  /\ entry' = [entry EXCEPT ![c] = Trying(0)]
  /\ on' = [on EXCEPT ![c] = c]
  /\ cache' = IF enableCache THEN [cache EXCEPT ![KeyOf[c]] = c] ELSE cache

Cached(c) == enableCache /\ cache[KeyOf[c]] # None

\* call or getLogs up to its first await: of the cached promise, if there is one.
Call(c) ==
  /\ status[c] = "idle"
  /\ now <= LastCall
  /\ status' = [status EXCEPT ![c] = "waiting"]
  /\ calledAt' = [calledAt EXCEPT ![c] = now]
  /\ IF Cached(c)
       THEN on' = [on EXCEPT ![c] = cache[KeyOf[c]]] /\ UNCHANGED <<cache, entry>>
       ELSE Begin(c)
  /\ UNCHANGED <<now, enableCache>>

\* Mutant: an entry is good up to and including its thirtieth minute.
Fresh_AtExpiry(c, e) == calledAt[c] - e.timestamp <= TTL

\* The age of an entry is measured when it is asked for, not when it arrives.
Fresh(c, e) == calledAt[c] - e.timestamp < TTL

Ready(c) == status[c] = "waiting" /\ entry[on[c]].phase \in {"ok", "failed"}

\* Mutant: a caller whose cached entry failed sends the request itself.
Resume_RetriesFailure(c) ==
  /\ Ready(c)
  /\ IF entry[on[c]].phase = "failed"
       THEN IF on[c] = c
         THEN status' = [status EXCEPT ![c] = "rejected"] /\ UNCHANGED <<on, cache, entry>>
         ELSE UNCHANGED status /\ Begin(c)
     ELSE IF on[c] = c \/ Fresh(c, entry[on[c]])
       THEN status' = [status EXCEPT ![c] = "answered"] /\ UNCHANGED <<on, cache, entry>>
     ELSE UNCHANGED status /\ Begin(c)
  /\ UNCHANGED <<now, enableCache, calledAt>>

\* The caller goes on once what it awaits is settled.  A failed entry rejects
\* everyone who asks for it and stays where it is; an entry that is too old is
\* requested anew by each caller that was given it.
Resume(c) ==
  /\ Ready(c)
  /\ IF entry[on[c]].phase = "failed"
       THEN status' = [status EXCEPT ![c] = "rejected"] /\ UNCHANGED <<on, cache, entry>>
     ELSE IF on[c] = c \/ Fresh(c, entry[on[c]])
       THEN status' = [status EXCEPT ![c] = "answered"] /\ UNCHANGED <<on, cache, entry>>
     ELSE UNCHANGED status /\ Begin(c)
  /\ UNCHANGED <<now, enableCache, calledAt>>

----------------------------------------------------------------------------
\* The node answers the attempt under way.  Answers to attempts that timed out
\* change nothing: their promises are settled.
Answer(c) ==
  /\ entry[c].phase = "pending"
  /\ \E t \in entry[c].startedAt..now :
       entry' = [entry EXCEPT ![c] = Result(t)]
  /\ UNCHANGED <<now, enableCache, cache, status, on, calledAt>>

\* An error other than the timeout: it is not retried.
Error(c) ==
  /\ entry[c].phase = "pending"
  /\ entry' = [entry EXCEPT ![c] = Failed]
  /\ UNCHANGED <<now, enableCache, cache, status, on, calledAt>>

\* Mutant: one retry too many.
TimedOut_ExtraRetry(c) ==
  /\ entry[c].phase = "pending"
  /\ now >= entry[c].startedAt + Timeout
  /\ entry' = [entry EXCEPT ![c] =
       IF @.retryCount > MaxRetries THEN Failed
       ELSE Trying(@.retryCount + 1)]
  /\ UNCHANGED <<now, enableCache, cache, status, on, calledAt>>

\* Mutant: the last timeout is not thrown.
TimedOut_Waits(c) ==
  /\ entry[c].phase = "pending"
  /\ now >= entry[c].startedAt + Timeout
  /\ entry[c].retryCount < MaxRetries
  /\ entry' = [entry EXCEPT ![c] = Trying(@.retryCount + 1)]
  /\ UNCHANGED <<now, enableCache, cache, status, on, calledAt>>

\* The timer of the attempt under way fires: retryHandler tries again or throws.
TimedOut(c) ==
  /\ entry[c].phase = "pending"
  /\ now >= entry[c].startedAt + Timeout
  /\ entry' = [entry EXCEPT ![c] =
       IF @.retryCount >= MaxRetries THEN Failed
       ELSE Trying(@.retryCount + 1)]
  /\ UNCHANGED <<now, enableCache, cache, status, on, calledAt>>

\* The clock moves: no microtask is left to run and no timer is overdue.
Tick ==
  /\ now < LastCall + Budget
  /\ \A c \in Caller : ~Ready(c)
  /\ \A c \in Caller : entry[c].phase = "pending" => now < entry[c].startedAt + Attempt
  /\ now' = now + 1
  /\ UNCHANGED <<enableCache, cache, entry, status, on, calledAt>>

----------------------------------------------------------------------------
Next ==
  \/ \E c \in Caller : Call(c) \/ Resume(c) \/ Answer(c) \/ Error(c) \/ TimedOut(c)
  \/ Tick

\* Time passes, timers fire and microtasks run; the node need never answer.
Fairness ==
  /\ WF_vars(Tick)
  /\ \A c \in Caller : WF_vars(TimedOut(c)) /\ WF_vars(Resume(c))

Spec == Init /\ [][Next]_vars /\ Fairness

----------------------------------------------------------------------------
\* Types are kept.
TypeOK ==
  /\ now \in Nat
  /\ enableCache \in BOOLEAN
  /\ cache \in [Key -> Caller \cup {None}]
  /\ entry \in [Caller -> Entry]
  /\ status \in [Caller -> {"idle", "waiting", "answered", "rejected"}]
  /\ on \in [Caller -> Caller \cup {None}]
  /\ calledAt \in [Caller -> Nat]

\* An answer is one to the caller's own request and was read by the node less
\* than thirty minutes and one attempt before the call, though the entry is
\* stamped when the answer arrives and its age is measured before it is awaited.
AnswerFresh ==
  \A c \in Caller : status[c] = "answered" =>
    /\ KeyOf[on[c]] = KeyOf[c]
    /\ entry[on[c]].readAt > calledAt[c] - (TTL + Attempt)

\* With the cache on, a request is sent a second time only once some answer to it
\* has expired: callers that arrive together share one request, failures included.
RequestedOnce ==
  enableCache =>
    \A c, d \in Caller :
      c # d /\ KeyOf[c] = KeyOf[d] /\ entry[c].phase # "none" /\ entry[d].phase # "none"
        => \E e \in Caller : /\ KeyOf[e] = KeyOf[c]
                             /\ entry[e].phase = "ok"
                             /\ now >= entry[e].timestamp + TTL

\* A call waits no longer than its attempts may take, its own request or not: one
\* that awaits another's entry and then has to send the request itself found that
\* entry settled when it called.
SettledInTime ==
  \A c \in Caller : status[c] = "waiting" => now <= calledAt[c] + Budget

\* Nobody can replace the failed entry under key k any more.
Poisoned(k) ==
  /\ cache[k] # None
  /\ entry[cache[k]].phase = "failed"
  /\ \A c \in Caller : status[c] = "waiting" /\ KeyOf[c] = k => on[c] = cache[k]

\* A request that failed is never sent again: its key answers with the old failure
\* for as long as the process runs, past the thirty minutes an answer would live.
FailureIsKept == [][\A k \in Key : Poisoned(k) => Poisoned(k)']_vars

\* Every call is settled, whether or not the node ever answers.
EveryCallSettles ==
  \A c \in Caller : status[c] = "waiting" ~> status[c] \in {"answered", "rejected"}
============================================================================
