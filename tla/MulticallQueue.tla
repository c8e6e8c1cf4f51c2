--------------------------- MODULE MulticallQueue ---------------------------
(***************************************************************************)
(* The multicall queue of packages/adapters-library: contract calls made   *)
(* by any number of callers are collected by block tag and sent together,  *)
(* when a tag has enough of them or when a timer fires, and each caller's  *)
(* promise is settled from its place in the answer.                        *)
(*                                                                         *)
(* JavaScript runs one handler at a time up to its next await: queueCall   *)
(* with the flush it may start is a step, and so is what _flush does with  *)
(* the answer to one request.                                              *)
(***************************************************************************)
EXTENDS Integers, Sequences, SequencesExt

CONSTANTS
  Call,          \* the calls made; each is queued once
  Tag,           \* block tags, among them LATEST
  TagOf,         \* TagOf[c]: the block tag of call c
  MaxBatchSize,
  MaxFaults,     \* bound: requests that fail or are answered in part
  None           \* no return data

ASSUME TagAssumption == TagOf \in [Call -> Tag]
ASSUME SizeAssumption == MaxBatchSize \in Nat \ {0}
ASSUME FaultsAssumption == MaxFaults \in Nat
ASSUME NoneAssumption == None \notin Call

VARIABLES
  pendingCalls,  \* the batches by tag, in the order their tags were added
  timer,         \* TRUE while the timer is set
  flushes,       \* what each running _flush has left; it awaits the first batch
  status,        \* of each call's promise
  returned,      \* the call whose return data a promise was resolved with
  dropped,       \* history: calls of a flush that returned before their batch
  faults         \* history: how much of MaxFaults is used

vars == <<pendingCalls, timer, flushes, status, returned, dropped, faults>>

Batch == [blockTag : Tag, calls : Seq(Call)]

Init ==
  /\ pendingCalls = <<>>
  /\ timer = FALSE
  /\ flushes = {}
  /\ status = [c \in Call |-> "idle"]
  /\ returned = [c \in Call |-> None]
  /\ dropped = {}
  /\ faults = 0

----------------------------------------------------------------------------
\* Mutant: every call begins a batch of its own.
WithCall_OwnBatch(c) ==
  Append(pendingCalls, [blockTag |-> TagOf[c], calls |-> <<c>>])

\* pendingCalls with call c added to the batch of its tag.
WithCall(c) ==
  IF \E i \in DOMAIN pendingCalls : pendingCalls[i].blockTag = TagOf[c]
    THEN [i \in DOMAIN pendingCalls |->
            IF pendingCalls[i].blockTag = TagOf[c]
              THEN [pendingCalls[i] EXCEPT !.calls = Append(@, c)]
              ELSE pendingCalls[i]]
    ELSE Append(pendingCalls, [blockTag |-> TagOf[c], calls |-> <<c>>])

\* Mutant: a batch is sent once it has more than enough calls.
Full_MoreThan(queue) ==
  \E i \in DOMAIN queue : Len(queue[i].calls) > MaxBatchSize

\* The batch that was added to has enough calls (the others have fewer).
Full(queue) ==
  \E i \in DOMAIN queue : Len(queue[i].calls) >= MaxBatchSize

\* Mutant: a full queue is sent but not emptied.
QueueFills_Keeps(c) ==
  /\ status[c] = "idle"
  /\ Full(WithCall(c))
  /\ status' = [status EXCEPT ![c] = "waiting"]
  /\ pendingCalls' = WithCall(c)
  /\ flushes' = flushes \cup {WithCall(c)}
  /\ UNCHANGED <<timer, returned, dropped, faults>>

\* queueCall with the call that fills a batch: _flush takes every batch, those
\* of other tags as well.  The timer is left as it is.
QueueFills(c) ==
  /\ status[c] = "idle"
  /\ Full(WithCall(c))
  /\ status' = [status EXCEPT ![c] = "waiting"]
  /\ pendingCalls' = <<>>
  /\ flushes' = flushes \cup {WithCall(c)}
  /\ UNCHANGED <<timer, returned, dropped, faults>>

\* queueCall with any other call: it sets the timer unless it is set.
QueueCall(c) ==
  /\ status[c] = "idle"
  /\ ~Full(WithCall(c))
  /\ status' = [status EXCEPT ![c] = "waiting"]
  /\ pendingCalls' = WithCall(c)
  /\ timer' = TRUE
  /\ UNCHANGED <<flushes, returned, dropped, faults>>

\* Mutant: the timer sends only the batch at the front.
TimerFires_First ==
  /\ timer
  /\ timer' = FALSE
  /\ pendingCalls # <<>>
  /\ pendingCalls' = Tail(pendingCalls)
  /\ flushes' = flushes \cup {<<Head(pendingCalls)>>}
  /\ UNCHANGED <<status, returned, dropped, faults>>

\* The timer fires, perhaps on a queue that was flushed since it was set.
TimerFires ==
  /\ timer
  /\ timer' = FALSE
  /\ pendingCalls' = <<>>
  /\ flushes' = IF pendingCalls = <<>> THEN flushes
                ELSE flushes \cup {pendingCalls}
  /\ UNCHANGED <<status, returned, dropped, faults>>

----------------------------------------------------------------------------
\* The request of flush f under way.
Sent(f) == Head(f).calls

\* The promises of some calls are settled by position: the i-th result is for
\* the i-th of them.
Settle(calls, results) ==
  LET answered == {calls[i] : i \in DOMAIN results}
      result == [c \in answered |->
                   results[CHOOSE i \in DOMAIN results : calls[i] = c]]
  IN  /\ status' = [c \in Call |->
           IF c \notin answered THEN status[c]
           ELSE IF result[c].success THEN "resolved" ELSE "rejected"]
      /\ returned' = [c \in Call |->
           IF c \in answered /\ result[c].success
             THEN result[c].returnData ELSE returned[c]]

\* The results of some calls, of which those in failing revert.
Results(calls, failing) ==
  [i \in DOMAIN calls |-> [success |-> calls[i] \notin failing,
                           returnData |-> calls[i]]]

\* A complete answer: the flush goes on to its next batch.
Answered(f) ==
  /\ \E failing \in SUBSET ToSet(Sent(f)) :
       Settle(Sent(f), Results(Sent(f), failing))
  /\ flushes' = (flushes \ {f}) \cup ({Tail(f)} \ {<<>>})
  /\ UNCHANGED <<pendingCalls, timer, dropped, faults>>

Fault == faults < MaxFaults /\ faults' = faults + 1

\* The calls of the batches after the first.
Behind(f) == UNION {ToSet(Tail(f)[i].calls) : i \in DOMAIN Tail(f)}

\* Every call of the batch is rejected and _flush returns: the batches behind
\* it have left the queue and are never sent.
RejectAndReturn(f) ==
  /\ status' = [c \in Call |-> IF c \in ToSet(Sent(f)) THEN "rejected" ELSE status[c]]
  /\ flushes' = flushes \ {f}
  /\ dropped' = dropped \cup Behind(f)
  /\ UNCHANGED <<pendingCalls, timer, returned>>

\* The request fails.
RequestFails(f) == Fault /\ RejectAndReturn(f)

\* Mutant: the number of results is not compared with the number of calls.
ShortAnswer_Unchecked(f) ==
  /\ Fault
  /\ \E i \in DOMAIN Sent(f) : Settle(Sent(f), RemoveAt(Results(Sent(f), {}), i))
  /\ flushes' = (flushes \ {f}) \cup ({Tail(f)} \ {<<>>})
  /\ UNCHANGED <<pendingCalls, timer, dropped>>

\* The answer lacks a result: none of the others is used.
ShortAnswer(f) == Fault /\ RejectAndReturn(f)

----------------------------------------------------------------------------
Flushing == \E f \in flushes : Answered(f)

Next ==
  \/ \E c \in Call : QueueFills(c) \/ QueueCall(c)
  \/ TimerFires
  \/ Flushing
  \/ \E f \in flushes : RequestFails(f) \/ ShortAnswer(f)

\* The timer fires, and every request ends; callers may or may not call.
Fairness == WF_vars(TimerFires) /\ WF_vars(Flushing)

Spec == Init /\ [][Next]_vars /\ Fairness

----------------------------------------------------------------------------
\* Types are kept; a request has at least one call and never more than the
\* provider is configured for.
TypeOK ==
  /\ pendingCalls \in Seq(Batch)
  /\ timer \in BOOLEAN
  /\ flushes \subseteq Seq(Batch)
  /\ \A f \in flushes : \A i \in DOMAIN f : Len(f[i].calls) \in 1..MaxBatchSize
  /\ status \in [Call -> {"idle", "waiting", "resolved", "rejected"}]
  /\ returned \in [Call -> Call \cup {None}]
  /\ dropped \subseteq Call
  /\ faults \in Nat

\* The places where a call is: a batch of pendingCalls or of a flush, and its
\* position there.
Places(c) ==
  UNION {UNION {{<<q, i, k>> : k \in {n \in DOMAIN q[i].calls : q[i].calls[n] = c}} :
                  i \in DOMAIN q} :
           q \in flushes \cup {pendingCalls}}

\* A promise waits exactly while its call is in one place, or was dropped: no
\* call is sent twice, none is sent after it was answered, and none is lost
\* between the queue and a flush.
InOnePlace ==
  \A c \in Call :
    IF status[c] = "waiting" /\ c \notin dropped
      THEN \E p \in Places(c) : Places(c) = {p}
      ELSE Places(c) = {}

\* Calls that are not sent yet have a timer to send them, however full batches
\* and the timer interleave.
TimerCoversQueue == pendingCalls # <<>> => timer

\* A promise is resolved with the return data of its own call, whatever else was
\* in the batch or missing from the answer.
OwnAnswer ==
  \A c \in Call : returned[c] = (IF status[c] = "resolved" THEN c ELSE None)

\* What a failing request costs: a call is dropped only behind a rejected call
\* of another tag.  With one block tag nothing is dropped.
DroppedBehindOtherTag ==
  \A c \in dropped :
    /\ status[c] = "waiting"
    /\ \E d \in Call : TagOf[d] # TagOf[c] /\ status[d] = "rejected"

Settled(c) == status[c] \in {"resolved", "rejected"}

\* Every queued call that is not dropped is settled.
SettledOrDropped ==
  \A c \in Call : status[c] = "waiting" ~> (Settled(c) \/ c \in dropped)

\* Every queued call is settled: when something goes wrong all are rejected.
EveryCallSettles == \A c \in Call : status[c] = "waiting" ~> Settled(c)
============================================================================
