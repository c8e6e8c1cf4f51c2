------------------------- MODULE ProviderCacheProofs -------------------------
(***************************************************************************)
(* What ProviderCache promises about the age of answers, the number of     *)
(* requests and the time a call takes, for every number of callers and     *)
(* keys and all durations.                                                 *)
(***************************************************************************)
EXTENDS ProviderCache, TLAPS

\* The cache, the callers and the entries point at each other: an entry is made
\* once, by a caller that then awaits it, and is awaited only under its own key.
Links ==
  /\ \A k \in Key : cache[k] # None =>
       enableCache /\ KeyOf[cache[k]] = k /\ entry[cache[k]].phase # "none"
  /\ \A c \in Caller : enableCache /\ entry[c].phase # "none" => cache[KeyOf[c]] # None
  /\ \A c \in Caller : entry[c].phase # "none" => status[c] # "idle" /\ on[c] = c
  /\ \A c \in Caller : status[c] # "idle" =>
       on[c] \in Caller /\ KeyOf[on[c]] = KeyOf[c] /\ entry[on[c]].phase # "none"
  /\ \A c \in Caller : status[c] = "answered" => entry[on[c]].phase = "ok"

\* Nothing is recorded before it happens, and an attempt is cut off in time.
Clock ==
  /\ \A c \in Caller : calledAt[c] <= now
  /\ \A c \in Caller : status[c] # "idle" => calledAt[on[c]] <= calledAt[c]
  /\ \A c \in Caller : entry[c].phase = "pending" =>
       /\ calledAt[c] <= entry[c].startedAt
       /\ entry[c].startedAt <= now
       /\ now <= entry[c].startedAt + Attempt
  /\ \A c \in Caller : entry[c].phase = "ok" =>
       /\ calledAt[c] <= entry[c].readAt
       /\ entry[c].timestamp <= entry[c].readAt + Attempt

\* A caller is answered from an entry that was fresh when it called.
FromFresh ==
  \A c \in Caller :
    status[c] = "answered" /\ on[c] # c => Fresh(c, entry[on[c]])

\* A caller that finds its entry too old found it settled: no time has passed.
ExpiredAtOnce ==
  \A c \in Caller :
    /\ status[c] = "waiting" /\ on[c] # c
    /\ entry[on[c]].phase = "ok" /\ ~Fresh(c, entry[on[c]])
    => now = calledAt[c]

\* Each retry starts at most one attempt after the one before it.
RetriesInTime ==
  \A c \in Caller : entry[c].phase = "pending" =>
    entry[c].startedAt <= calledAt[c] + entry[c].retryCount * Attempt

IInv ==
  /\ TypeOK
  /\ Links
  /\ Clock
  /\ FromFresh
  /\ ExpiredAtOnce
  /\ RetriesInTime
  /\ SettledInTime
  /\ RequestedOnce

----------------------------------------------------------------------------
LEMMA Durations ==
  /\ Attempt \in Nat /\ Budget \in Nat
  /\ \A r \in 0..MaxRetries : /\ r * Attempt \in Nat
                              /\ (r + 1) * Attempt = r * Attempt + Attempt
                              /\ r * Attempt + Attempt <= Budget
<1>1. Attempt \in Nat
  BY TimeAssumption DEF Attempt
<1>2. Budget \in Nat
  BY <1>1, RetriesAssumption DEF Budget
<1>3. ASSUME NEW r \in 0..MaxRetries
      PROVE  /\ r * Attempt \in Nat
             /\ (r + 1) * Attempt = r * Attempt + Attempt
             /\ r * Attempt + Attempt <= Budget
  <2>1. r \in Nat /\ MaxRetries - r \in Nat
    BY RetriesAssumption
  <2>2. r * Attempt \in Nat /\ (MaxRetries - r) * Attempt \in Nat
    BY <1>1, <2>1
  <2>3. /\ (r + 1) * Attempt = r * Attempt + Attempt
        /\ Budget = r * Attempt + Attempt + (MaxRetries - r) * Attempt
    BY <1>1, <2>1, RetriesAssumption DEF Budget
  <2>4. QED
    BY <1>1, <2>2, <2>3
<1>4. QED
  BY <1>1, <1>2, <1>3

LEMMA InitIInv == Init => IInv
<1> SUFFICES ASSUME Init PROVE IInv
  OBVIOUS
<1> USE KeyAssumption, TimeAssumption, RetriesAssumption, NoneAssumption DEF Init
<1>1. TypeOK
  BY DEF TypeOK, NoEntry, Entry, Phase
<1>2. Links
  BY DEF Links, NoEntry
<1>3. Clock
  BY DEF Clock, NoEntry
<1>4. FromFresh /\ ExpiredAtOnce /\ RetriesInTime /\ SettledInTime /\ RequestedOnce
  BY DEF FromFresh, ExpiredAtOnce, RetriesInTime, SettledInTime, RequestedOnce, NoEntry
<1>5. QED
  BY <1>1, <1>2, <1>3, <1>4 DEF IInv

\* A new entry.
LEMMA BeginTypes ==
  ASSUME TypeOK, NEW c \in Caller, Begin(c)
  PROVE  /\ entry' \in [Caller -> Entry] /\ on' \in [Caller -> Caller \cup {None}]
         /\ cache' \in [Key -> Caller \cup {None}]
         /\ entry'[c].phase = "pending" /\ entry'[c].startedAt = now
         /\ entry'[c].retryCount = 0
         /\ \A d \in Caller : d # c => entry'[d] = entry[d] /\ on'[d] = on[d]
         /\ on'[c] = c
         /\ \A k \in Key : cache'[k] = IF enableCache /\ k = KeyOf[c] THEN c ELSE cache[k]
<1> DEFINE n == Trying(0)
<1>1. n \in Entry /\ n.phase = "pending" /\ n.startedAt = now /\ n.retryCount = 0
  BY RetriesAssumption DEF TypeOK, Entry, Phase, Trying
<1>2. entry' = [entry EXCEPT ![c] = n]
  BY DEF Begin
<1>3. entry \in [Caller -> Entry]
  BY DEF TypeOK
<1> HIDE DEF n
<1>4. /\ entry' \in [Caller -> Entry] /\ entry'[c] = n
      /\ \A d \in Caller : d # c => entry'[d] = entry[d]
  BY <1>1, <1>2, <1>3
<1>5. /\ on' \in [Caller -> Caller \cup {None}] /\ on'[c] = c
      /\ \A d \in Caller : d # c => on'[d] = on[d]
  BY DEF TypeOK, Begin
<1>6. /\ cache' \in [Key -> Caller \cup {None}]
      /\ \A k \in Key : cache'[k] = IF enableCache /\ k = KeyOf[c] THEN c ELSE cache[k]
  BY KeyAssumption DEF TypeOK, Begin
<1>7. QED
  BY <1>1, <1>4, <1>5, <1>6

\* A request is begun by a caller that has none, at the time it called, and by the
\* first caller of its key unless an answer has expired.
Begins(c) ==
  /\ IInv /\ Begin(c)
  /\ entry[c].phase = "none"
  /\ status'[c] = "waiting"
  /\ \A d \in Caller : d # c => status'[d] = status[d] /\ calledAt'[d] = calledAt[d]
  /\ calledAt'[c] = now
  /\ status' \in [Caller -> {"idle", "waiting", "answered", "rejected"}]
  /\ calledAt' \in [Caller -> Nat]
  /\ now' = now /\ enableCache' = enableCache
  /\ enableCache =>
       \/ cache[KeyOf[c]] = None
       \/ \E e \in Caller : /\ KeyOf[e] = KeyOf[c] /\ entry[e].phase = "ok"
                            /\ now >= entry[e].timestamp + TTL

LEMMA BeginsIInv ==
  ASSUME NEW c \in Caller, Begins(c)
  PROVE  IInv'
<1>1. TypeOK /\ Links /\ Clock
  BY DEF Begins, IInv
<1>2. /\ entry' \in [Caller -> Entry] /\ on' \in [Caller -> Caller \cup {None}]
      /\ cache' \in [Key -> Caller \cup {None}]
      /\ entry'[c].phase = "pending" /\ entry'[c].startedAt = now
      /\ entry'[c].retryCount = 0
      /\ \A d \in Caller : d # c => entry'[d] = entry[d] /\ on'[d] = on[d]
      /\ on'[c] = c
      /\ \A k \in Key : cache'[k] = IF enableCache /\ k = KeyOf[c] THEN c ELSE cache[k]
  BY <1>1, BeginTypes DEF Begins
<1>3. /\ entry[c].phase = "none" /\ status'[c] = "waiting" /\ calledAt'[c] = now
      /\ now' = now /\ enableCache' = enableCache /\ now \in Nat
      /\ \A d \in Caller : d # c => status'[d] = status[d] /\ calledAt'[d] = calledAt[d]
  BY <1>1 DEF Begins, TypeOK
<1>4. \A d \in Caller : d # c /\ on[d] \in Caller /\ entry[on[d]].phase # "none" => on[d] # c
  BY <1>3
<1>5. TypeOK'
  BY <1>1, <1>2, <1>3 DEF TypeOK, Begins
<1>6. Links'
  <2>1. \A k \in Key : cache'[k] # None =>
          enableCache' /\ KeyOf[cache'[k]] = k /\ entry'[cache'[k]].phase # "none"
    <3>1. ASSUME NEW k \in Key, cache'[k] # None
          PROVE  enableCache' /\ KeyOf[cache'[k]] = k /\ entry'[cache'[k]].phase # "none"
      <4>1. CASE enableCache /\ k = KeyOf[c]
        BY <1>2, <1>3, <4>1
      <4>2. CASE ~(enableCache /\ k = KeyOf[c])
        <5>1. cache'[k] = cache[k] /\ cache[k] \in Caller
          BY <1>1, <1>2, <3>1, <4>2 DEF TypeOK
        <5>2. enableCache /\ KeyOf[cache[k]] = k /\ entry[cache[k]].phase # "none"
          BY <1>1, <3>1, <5>1 DEF Links
        <5>3. entry'[cache[k]] = entry[cache[k]]
          BY <1>2, <1>3, <5>1, <5>2
        <5>4. QED
          BY <1>3, <5>1, <5>2, <5>3
      <4>3. QED
        BY <4>1, <4>2
    <3>2. QED
      BY <3>1
  <2>2. \A d \in Caller : enableCache' /\ entry'[d].phase # "none" => cache'[KeyOf[d]] # None
    BY <1>1, <1>2, <1>3, KeyAssumption, NoneAssumption DEF Links
  <2>3. \A d \in Caller : entry'[d].phase # "none" => status'[d] # "idle" /\ on'[d] = d
    BY <1>1, <1>2, <1>3 DEF Links
  <2>4. \A d \in Caller : status'[d] # "idle" =>
          on'[d] \in Caller /\ KeyOf[on'[d]] = KeyOf[d] /\ entry'[on'[d]].phase # "none"
    BY <1>1, <1>2, <1>3, <1>4 DEF Links
  <2>5. \A d \in Caller : status'[d] = "answered" => entry'[on'[d]].phase = "ok"
    BY <1>1, <1>2, <1>3, <1>4 DEF Links
  <2>6. QED
    BY <2>1, <2>2, <2>3, <2>4, <2>5 DEF Links
<1>7. Clock'
  <2>1. \A d \in Caller : calledAt'[d] <= now'
    BY <1>1, <1>3 DEF Clock
  <2>2. \A d \in Caller : calledAt[d] <= calledAt'[d] /\ (d # c => calledAt'[d] = calledAt[d])
    BY <1>1, <1>3 DEF Clock, TypeOK
  <2>3. \A d \in Caller : status'[d] # "idle" => calledAt'[on'[d]] <= calledAt'[d]
    BY <1>1, <1>2, <1>3, <1>4, <2>2 DEF Clock, Links
  <2>4. Attempt \in Nat
    BY Durations
  <2>5. \A d \in Caller : entry'[d].phase = "pending" =>
          /\ calledAt'[d] <= entry'[d].startedAt
          /\ entry'[d].startedAt <= now'
          /\ now' <= entry'[d].startedAt + Attempt
    BY <1>1, <1>2, <1>3, <2>4 DEF Clock
  <2>6. \A d \in Caller : entry'[d].phase = "ok" =>
          /\ calledAt'[d] <= entry'[d].readAt
          /\ entry'[d].timestamp <= entry'[d].readAt + Attempt
    BY <1>1, <1>2, <1>3 DEF Clock
  <2>7. QED
    BY <2>1, <2>3, <2>5, <2>6 DEF Clock
<1>8. FromFresh'
  BY <1>1, <1>2, <1>3, <1>4 DEF FromFresh, Fresh, Begins, IInv, Links
<1>9. ExpiredAtOnce'
  BY <1>1, <1>2, <1>3, <1>4 DEF ExpiredAtOnce, Fresh, Begins, IInv, Links
<1>10. RetriesInTime'
  <2>1. 0 * Attempt = 0
    BY Durations
  <2>2. QED
    BY <1>2, <1>3, <2>1 DEF RetriesInTime, Begins, IInv
<1>11. SettledInTime'
  BY <1>2, <1>3, Durations DEF SettledInTime, Begins, IInv
<1>12. RequestedOnce'
  <2> SUFFICES ASSUME enableCache, NEW a \in Caller, NEW b \in Caller,
                      a # b, KeyOf[a] = KeyOf[b],
                      entry'[a].phase # "none", entry'[b].phase # "none"
               PROVE  \E e \in Caller : /\ KeyOf[e] = KeyOf[a]
                                        /\ entry'[e].phase = "ok"
                                        /\ now' >= entry'[e].timestamp + TTL
    BY <1>3 DEF RequestedOnce
  <2>1. \E e \in Caller : /\ KeyOf[e] = KeyOf[a]
                          /\ entry[e].phase = "ok"
                          /\ now >= entry[e].timestamp + TTL
    <3>1. CASE a # c /\ b # c
      BY <1>2, <3>1 DEF RequestedOnce, Begins, IInv
    <3>2. CASE a = c \/ b = c
      <4>1. KeyOf[a] = KeyOf[c] /\ cache[KeyOf[c]] # None
        BY <1>1, <1>2, <3>2 DEF Links
      <4>2. QED
        BY <4>1 DEF Begins
    <3>3. QED
      BY <3>1, <3>2
  <2>2. QED
    BY <1>2, <1>3, <2>1
<1>13. QED
  BY <1>5, <1>6, <1>7, <1>8, <1>9, <1>10, <1>11, <1>12 DEF IInv

----------------------------------------------------------------------------
\* Steps that change one entry under way: an answer, an error or a timeout.
Settles(c) ==
  /\ IInv
  /\ entry[c].phase = "pending"
  /\ entry' \in [Caller -> Entry]
  /\ \A d \in Caller : d # c => entry'[d] = entry[d]
  /\ entry'[c].phase # "none"
  /\ UNCHANGED <<now, enableCache, cache, status, on, calledAt>>
  /\ entry'[c].phase = "ok" =>
       /\ calledAt[c] <= entry'[c].readAt
       /\ entry'[c].timestamp = now
       /\ now <= entry'[c].readAt + Attempt
  /\ entry'[c].phase = "pending" =>
       /\ entry'[c].startedAt = now
       /\ now <= calledAt[c] + entry'[c].retryCount * Attempt

LEMMA SettlesIInv ==
  ASSUME NEW c \in Caller, Settles(c)
  PROVE  IInv'
<1>1. TypeOK /\ Links /\ Clock
  BY DEF Settles, IInv
<1>2. /\ \A d \in Caller : d # c => entry'[d] = entry[d]
      /\ entry[c].phase = "pending" /\ entry'[c].phase # "none"
      /\ now' = now /\ enableCache' = enableCache /\ cache' = cache
      /\ status' = status /\ on' = on /\ calledAt' = calledAt
      /\ entry' \in [Caller -> Entry] /\ now \in Nat /\ calledAt \in [Caller -> Nat]
  BY <1>1 DEF Settles, TypeOK
<1>3. \A d \in Caller : entry[d].phase # "none" <=> entry'[d].phase # "none"
  BY <1>2
<1>4. \A d \in Caller : entry[d].phase = "ok" => entry'[d] = entry[d]
  BY <1>2
<1>5. \A d \in Caller : entry[d] \in Entry /\ entry'[d] \in Entry
  BY <1>1, <1>2 DEF TypeOK
<1>6. Attempt \in Nat /\ TTL \in Nat \ {0}
  BY Durations, TimeAssumption
<1>7. TypeOK'
  BY <1>1, <1>2 DEF TypeOK
<1>8. Links'
  <2>1. \A k \in Key : cache[k] # None => cache[k] \in Caller
    BY <1>1 DEF TypeOK
  <2>2. \A d \in Caller : status[d] = "answered" => entry'[on[d]].phase = "ok"
    BY <1>1, <1>4 DEF Links
  <2>3. QED
    BY <1>1, <1>2, <1>3, <2>1, <2>2 DEF Links
<1>9. Clock'
  <2>1. \A d \in Caller : d # c =>
          /\ entry'[d].phase = "pending" =>
               /\ calledAt[d] <= entry'[d].startedAt
               /\ entry'[d].startedAt <= now
               /\ now <= entry'[d].startedAt + Attempt
          /\ entry'[d].phase = "ok" =>
               /\ calledAt[d] <= entry'[d].readAt
               /\ entry'[d].timestamp <= entry'[d].readAt + Attempt
    BY <1>1, <1>2 DEF Clock
  <2>2. entry'[c].phase = "pending" =>
          /\ calledAt[c] <= entry'[c].startedAt
          /\ entry'[c].startedAt <= now
          /\ now <= entry'[c].startedAt + Attempt
    BY <1>1, <1>2, <1>6 DEF Clock, Settles
  <2>3. entry'[c].phase = "ok" =>
          /\ calledAt[c] <= entry'[c].readAt
          /\ entry'[c].timestamp <= entry'[c].readAt + Attempt
    BY DEF Settles
  <2>4. QED
    BY <1>1, <1>2, <2>1, <2>2, <2>3 DEF Clock
<1>10. FromFresh'
  BY <1>1, <1>2, <1>4 DEF FromFresh, Fresh, Links, Settles, IInv
<1>11. ExpiredAtOnce'
  <2> SUFFICES ASSUME NEW d \in Caller, status[d] = "waiting", on[d] # d,
                      entry'[on[d]].phase = "ok",
                      ~(calledAt[d] - entry'[on[d]].timestamp < TTL)
               PROVE  now = calledAt[d]
    BY <1>2 DEF ExpiredAtOnce, Fresh
  <2>1. on[d] \in Caller
    BY <1>1 DEF Links
  <2>2. on[d] # c
    <3>1. calledAt[d] \in Nat /\ calledAt[d] <= now
      BY <1>1, <1>2 DEF Clock
    <3>2. on[d] = c => entry'[on[d]].timestamp = now
      BY DEF Settles
    <3>3. QED
      BY <1>2, <1>6, <3>1, <3>2
  <2>3. QED
    BY <1>2, <2>1, <2>2 DEF ExpiredAtOnce, Fresh, Settles, IInv
<1>12. RetriesInTime'
  BY <1>2 DEF RetriesInTime, Settles, IInv
<1>13. SettledInTime'
  BY <1>2 DEF SettledInTime, Settles, IInv
<1>14. RequestedOnce'
  BY <1>2, <1>3, <1>4 DEF RequestedOnce, Settles, IInv
<1>15. QED
  BY <1>7, <1>8, <1>9, <1>10, <1>11, <1>12, <1>13, <1>14 DEF IInv

LEMMA AnswerIInv ==
  ASSUME IInv, NEW c \in Caller, Answer(c)
  PROVE  IInv'
<1>1. PICK t \in entry[c].startedAt..now : entry' = [entry EXCEPT ![c] = Result(t)]
  BY DEF Answer
<1>2. TypeOK /\ Clock /\ entry[c] \in Entry /\ Attempt \in Nat
  BY Durations DEF IInv, TypeOK
<1>3. t \in Nat /\ now \in Nat /\ entry[c].startedAt \in Nat /\ calledAt[c] \in Nat
      /\ entry \in [Caller -> Entry]
  BY <1>1, <1>2 DEF TypeOK, Entry
<1>4. /\ Result(t) \in Entry /\ Result(t).phase = "ok"
      /\ Result(t).readAt = t /\ Result(t).timestamp = now
  BY <1>3, RetriesAssumption DEF Result, Entry, Phase
<1>5. /\ calledAt[c] <= t /\ now <= t + Attempt
  BY <1>1, <1>2, <1>3 DEF Clock, Answer
<1>6. entry' \in [Caller -> Entry] /\ entry'[c] = Result(t)
      /\ \A d \in Caller : d # c => entry'[d] = entry[d]
  BY <1>1, <1>3, <1>4
<1>7. Settles(c)
  BY <1>4, <1>5, <1>6 DEF Settles, Answer
<1>8. QED
  BY <1>7, SettlesIInv

LEMMA FailedEntry ==
  ASSUME IInv, NEW c \in Caller, entry[c].phase = "pending",
         entry' = [entry EXCEPT ![c] = Failed],
         UNCHANGED <<now, enableCache, cache, status, on, calledAt>>
  PROVE  IInv'
<1>1. Failed \in Entry /\ Failed.phase = "failed"
  BY RetriesAssumption DEF Failed, Entry, Phase
<1>2. entry \in [Caller -> Entry]
  BY DEF IInv, TypeOK
<1>3. entry' \in [Caller -> Entry] /\ entry'[c] = Failed
      /\ \A d \in Caller : d # c => entry'[d] = entry[d]
  BY <1>1, <1>2
<1>4. Settles(c)
  BY <1>1, <1>3 DEF Settles
<1>5. QED
  BY <1>4, SettlesIInv

LEMMA TimedOutIInv ==
  ASSUME IInv, NEW c \in Caller, TimedOut(c)
  PROVE  IInv'
<1>1. TypeOK /\ Clock /\ RetriesInTime
  BY DEF IInv
<1>2. entry[c] \in Entry /\ entry \in [Caller -> Entry] /\ entry[c].phase = "pending"
      /\ now \in Nat /\ calledAt[c] \in Nat
  BY <1>1 DEF TypeOK, TimedOut
<1>3. CASE entry[c].retryCount >= MaxRetries
  BY <1>2, <1>3, FailedEntry DEF TimedOut
<1>4. CASE ~(entry[c].retryCount >= MaxRetries)
  <2> DEFINE r == entry[c].retryCount
             n == Trying(r + 1)
  <2>1. r \in 0..MaxRetries /\ r + 1 \in 0..MaxRetries /\ entry[c].startedAt \in Nat
    BY <1>2, <1>4, RetriesAssumption DEF Entry
  <2>2. n \in Entry /\ n.phase = "pending" /\ n.startedAt = now /\ n.retryCount = r + 1
    BY <1>2, <2>1 DEF Trying, Entry, Phase
  <2>3. entry' = [entry EXCEPT ![c] = n]
    BY <1>4 DEF TimedOut
  <2> HIDE DEF n
  <2>4. entry' \in [Caller -> Entry] /\ entry'[c] = n
        /\ \A d \in Caller : d # c => entry'[d] = entry[d]
    BY <1>2, <2>2, <2>3
  <2>5. now <= calledAt[c] + (r * Attempt + Attempt)
    <3>1. entry[c].startedAt <= calledAt[c] + r * Attempt
      BY <1>1, <1>2 DEF RetriesInTime
    <3>2. now <= entry[c].startedAt + Attempt
      BY <1>1, <1>2 DEF Clock
    <3>3. Attempt \in Nat /\ r * Attempt \in Nat
      BY <2>1, Durations
    <3>4. QED
      BY <1>2, <2>1, <3>1, <3>2, <3>3
  <2>6. (r + 1) * Attempt = r * Attempt + Attempt
    BY <2>1, Durations
  <2>7. Settles(c)
    BY <1>2, <2>2, <2>4, <2>5, <2>6 DEF Settles, TimedOut
  <2>8. QED
    BY <2>7, SettlesIInv
<1>5. QED
  BY <1>3, <1>4

----------------------------------------------------------------------------
LEMMA CallIInv ==
  ASSUME IInv, NEW c \in Caller, Call(c)
  PROVE  IInv'
<1>1. TypeOK /\ Links /\ Clock
  BY DEF IInv
<1>2. /\ status' \in [Caller -> {"idle", "waiting", "answered", "rejected"}]
      /\ calledAt' \in [Caller -> Nat]
      /\ status'[c] = "waiting" /\ calledAt'[c] = now /\ now \in Nat
      /\ \A d \in Caller : d # c => status'[d] = status[d] /\ calledAt'[d] = calledAt[d]
      /\ now' = now /\ enableCache' = enableCache
  BY <1>1 DEF Call, TypeOK
<1>3. status[c] = "idle" /\ entry[c].phase = "none"
  BY <1>1 DEF Links, Call
<1>4. CASE ~Cached(c)
  <2>1. Begins(c)
    BY <1>2, <1>3, <1>4 DEF Begins, Call, Cached
  <2>2. QED
    BY <2>1, BeginsIInv
<1>5. CASE Cached(c)
  <2> DEFINE e == cache[KeyOf[c]]
  <2>1. entry' = entry /\ cache' = cache /\ on' = [on EXCEPT ![c] = e]
    BY <1>5 DEF Call
  <2>2. KeyOf[c] \in Key /\ e \in Caller /\ KeyOf[e] = KeyOf[c] /\ entry[e].phase # "none"
    BY <1>1, <1>5, KeyAssumption DEF Cached, Links, TypeOK
  <2>3. on' \in [Caller -> Caller \cup {None}] /\ on'[c] = e
        /\ \A d \in Caller : d # c => on'[d] = on[d]
    BY <1>1, <2>1, <2>2 DEF TypeOK
  <2>4. \A d \in Caller : status[d] # "idle" => on[d] # c
    BY <1>1, <1>3 DEF Links
  <2>5. e # c
    BY <1>3, <2>2
  <2>6. TypeOK'
    BY <1>1, <1>2, <2>1, <2>3 DEF TypeOK
  <2>7. Links'
    BY <1>1, <1>2, <1>3, <2>1, <2>2, <2>3 DEF Links
  <2>8. Clock'
    <3>1. \A d \in Caller : calledAt[d] <= now /\ calledAt[d] \in Nat
      BY <1>1 DEF Clock, TypeOK
    <3>2. calledAt'[e] <= calledAt'[c]
      BY <1>2, <2>2, <2>5, <3>1
    <3>3. \A d \in Caller : status'[d] # "idle" => calledAt'[on'[d]] <= calledAt'[d]
      BY <1>1, <1>2, <2>3, <2>4, <3>2 DEF Clock, Links
    <3>4. QED
      BY <1>1, <1>2, <1>3, <2>1, <3>3 DEF Clock
  <2>9. FromFresh'
    BY <1>2, <2>1, <2>3 DEF FromFresh, Fresh, IInv
  <2>10. ExpiredAtOnce'
    BY <1>2, <2>1, <2>3 DEF ExpiredAtOnce, Fresh, IInv
  <2>11. RetriesInTime'
    BY <1>2, <1>3, <2>1 DEF RetriesInTime, IInv
  <2>12. SettledInTime'
    BY <1>2, Durations DEF SettledInTime, IInv
  <2>13. RequestedOnce'
    BY <1>2, <2>1 DEF RequestedOnce, IInv
  <2>14. QED
    BY <2>6, <2>7, <2>8, <2>9, <2>10, <2>11, <2>12, <2>13 DEF IInv
<1>6. QED
  BY <1>4, <1>5

LEMMA ResumeIInv ==
  ASSUME IInv, NEW c \in Caller, Resume(c)
  PROVE  IInv'
<1>1. TypeOK /\ Links /\ Clock
  BY DEF IInv
<1>2. /\ status[c] = "waiting" /\ entry[on[c]].phase \in {"ok", "failed"}
      /\ on[c] \in Caller /\ KeyOf[on[c]] = KeyOf[c]
      /\ now' = now /\ enableCache' = enableCache /\ calledAt' = calledAt
      /\ now \in Nat /\ calledAt \in [Caller -> Nat]
  BY <1>1 DEF Resume, Ready, Links, TypeOK
<1>3. CASE /\ entry[on[c]].phase # "failed"
           /\ on[c] # c /\ ~Fresh(c, entry[on[c]])
  <2>1. status' = status /\ Begin(c) /\ entry[on[c]].phase = "ok"
    BY <1>2, <1>3 DEF Resume
  <2>2. entry[c].phase = "none"
    BY <1>1, <1>3 DEF Links
  <2>3. now = calledAt[c]
    BY <1>2, <1>3, <2>1 DEF ExpiredAtOnce, IInv
  <2>4. now >= entry[on[c]].timestamp + TTL
    <3>1. entry[on[c]].timestamp \in Nat /\ TTL \in Nat
      BY <1>1, <1>2, TimeAssumption DEF TypeOK, Entry
    <3>2. QED
      BY <1>2, <1>3, <2>3, <3>1 DEF Fresh
  <2>5. Begins(c)
    BY <1>1, <1>2, <2>1, <2>2, <2>3, <2>4 DEF Begins, TypeOK
  <2>6. QED
    BY <2>5, BeginsIInv
<1>4. CASE /\ status' \in [Caller -> {"idle", "waiting", "answered", "rejected"}]
           /\ \A d \in Caller : d # c => status'[d] = status[d]
           /\ \/ status'[c] = "rejected"
              \/ /\ status'[c] = "answered" /\ entry[on[c]].phase = "ok"
                 /\ on[c] = c \/ Fresh(c, entry[on[c]])
           /\ on' = on /\ cache' = cache /\ entry' = entry
  <2>1. TypeOK'
    BY <1>1, <1>2, <1>4 DEF TypeOK
  <2>2. Links'
    BY <1>1, <1>2, <1>4 DEF Links
  <2>3. Clock'
    BY <1>1, <1>2, <1>4 DEF Clock
  <2>4. FromFresh' /\ ExpiredAtOnce'
    BY <1>2, <1>4 DEF FromFresh, ExpiredAtOnce, Fresh, IInv
  <2>5. RetriesInTime' /\ SettledInTime'
    BY <1>2, <1>4 DEF RetriesInTime, SettledInTime, IInv
  <2>6. RequestedOnce'
    BY <1>2, <1>4 DEF RequestedOnce, IInv
  <2>7. QED
    BY <2>1, <2>2, <2>3, <2>4, <2>5, <2>6 DEF IInv
<1>5. \/ /\ entry[on[c]].phase = "failed"
         /\ status' = [status EXCEPT ![c] = "rejected"]
         /\ UNCHANGED <<on, cache, entry>>
      \/ /\ entry[on[c]].phase = "ok"
         /\ on[c] = c \/ Fresh(c, entry[on[c]])
         /\ status' = [status EXCEPT ![c] = "answered"]
         /\ UNCHANGED <<on, cache, entry>>
      \/ /\ entry[on[c]].phase # "failed"
         /\ on[c] # c /\ ~Fresh(c, entry[on[c]])
  BY <1>2 DEF Resume
<1>6. status \in [Caller -> {"idle", "waiting", "answered", "rejected"}]
  BY <1>1 DEF TypeOK
<1>7. QED
  BY <1>3, <1>4, <1>5, <1>6

LEMMA TickIInv ==
  ASSUME IInv, Tick
  PROVE  IInv'
<1>1. TypeOK /\ Links /\ Clock
  BY DEF IInv
<1>2. /\ now' = now + 1 /\ enableCache' = enableCache /\ cache' = cache
      /\ entry' = entry /\ status' = status /\ on' = on /\ calledAt' = calledAt
      /\ now \in Nat
  BY <1>1 DEF Tick, TypeOK
<1>3. \A c \in Caller : entry[c] \in Entry /\ calledAt[c] \in Nat
  BY <1>1 DEF TypeOK
<1>4. \A c \in Caller : entry[c].phase = "pending" =>
        now + 1 <= entry[c].startedAt + Attempt /\ entry[c].startedAt \in Nat
        /\ entry[c].retryCount \in 0..MaxRetries
  BY <1>2, <1>3, Durations DEF Tick, Entry
<1>5. \A c \in Caller : status[c] = "waiting" =>
        on[c] \in Caller /\ entry[on[c]].phase = "pending"
  BY <1>1, <1>3 DEF Links, Tick, Ready, Entry, Phase
<1>6. TypeOK' /\ Links'
  BY <1>1, <1>2 DEF TypeOK, Links
<1>7. Clock'
  BY <1>1, <1>2, <1>3, <1>4 DEF Clock
<1>8. FromFresh' /\ RetriesInTime'
  BY <1>2 DEF FromFresh, Fresh, RetriesInTime, IInv
<1>9. ExpiredAtOnce'
  BY <1>2, <1>5 DEF ExpiredAtOnce, Fresh
<1>10. SettledInTime'
  <2> SUFFICES ASSUME NEW c \in Caller, status[c] = "waiting"
               PROVE  now + 1 <= calledAt[c] + Budget
    BY <1>2 DEF SettledInTime
  <2> DEFINE e == on[c]
             r == entry[e].retryCount
  <2>1. e \in Caller /\ entry[e].phase = "pending" /\ r \in 0..MaxRetries
    BY <1>4, <1>5
  <2>2. /\ now + 1 <= entry[e].startedAt + Attempt
        /\ entry[e].startedAt <= calledAt[e] + r * Attempt
        /\ calledAt[e] <= calledAt[c]
    BY <1>1, <1>4, <2>1 DEF RetriesInTime, Clock, IInv
  <2>3. /\ Attempt \in Nat /\ r * Attempt \in Nat /\ Budget \in Nat
        /\ r * Attempt + Attempt <= Budget
    BY <2>1, Durations
  <2>4. QED
    BY <1>2, <1>3, <1>4, <2>1, <2>2, <2>3
<1>11. RequestedOnce'
  <2> SUFFICES ASSUME enableCache, NEW c \in Caller, NEW d \in Caller,
                      c # d, KeyOf[c] = KeyOf[d],
                      entry[c].phase # "none", entry[d].phase # "none"
               PROVE  \E e \in Caller : /\ KeyOf[e] = KeyOf[c]
                                        /\ entry[e].phase = "ok"
                                        /\ now + 1 >= entry[e].timestamp + TTL
    BY <1>2 DEF RequestedOnce
  <2>1. PICK e \in Caller : /\ KeyOf[e] = KeyOf[c] /\ entry[e].phase = "ok"
                            /\ now >= entry[e].timestamp + TTL
    BY DEF RequestedOnce, IInv
  <2>2. entry[e].timestamp \in Nat /\ TTL \in Nat
    BY <1>3, TimeAssumption DEF Entry
  <2>3. now + 1 >= entry[e].timestamp + TTL
    BY <1>2, <2>1, <2>2
  <2>4. QED
    BY <2>1, <2>3
<1>12. QED
  BY <1>6, <1>7, <1>8, <1>9, <1>10, <1>11 DEF IInv

LEMMA NextIInv == IInv /\ [Next]_vars => IInv'
<1> SUFFICES ASSUME IInv, [Next]_vars PROVE IInv'
  OBVIOUS
<1>1. CASE UNCHANGED vars
  BY <1>1 DEF vars, IInv, TypeOK, Links, Clock, FromFresh, ExpiredAtOnce, Fresh,
              RetriesInTime, SettledInTime, RequestedOnce
<1>2. ASSUME NEW c \in Caller, Call(c) PROVE IInv'
  BY <1>2, CallIInv
<1>3. ASSUME NEW c \in Caller, Resume(c) PROVE IInv'
  BY <1>3, ResumeIInv
<1>4. ASSUME NEW c \in Caller, Answer(c) PROVE IInv'
  BY <1>4, AnswerIInv
<1>5. ASSUME NEW c \in Caller, Error(c) PROVE IInv'
  BY <1>5, FailedEntry DEF Error
<1>6. ASSUME NEW c \in Caller, TimedOut(c) PROVE IInv'
  BY <1>6, TimedOutIInv
<1>7. CASE Tick
  BY <1>7, TickIInv
<1>8. QED
  BY <1>1, <1>2, <1>3, <1>4, <1>5, <1>6, <1>7 DEF Next

LEMMA Inductive == Spec => []IInv
<1>1. QED
  BY InitIInv, NextIInv, PTL DEF Spec

----------------------------------------------------------------------------
\* Types are kept and no request has more than MaxRetries retries.
THEOREM TypeCorrect == Spec => []TypeOK
<1>1. IInv => TypeOK
  BY DEF IInv
<1>2. QED
  BY <1>1, Inductive, PTL

\* Every answer is the caller's own and was read less than TTL and one attempt
\* before the call.
THEOREM AnswersAreFresh == Spec => []AnswerFresh
<1>1. IInv => AnswerFresh
  <2> SUFFICES ASSUME IInv, NEW c \in Caller, status[c] = "answered"
               PROVE  /\ KeyOf[on[c]] = KeyOf[c]
                      /\ entry[on[c]].readAt > calledAt[c] - (TTL + Attempt)
    BY DEF AnswerFresh
  <2> DEFINE e == entry[on[c]]
  <2>1. on[c] \in Caller /\ KeyOf[on[c]] = KeyOf[c] /\ e.phase = "ok"
    BY DEF IInv, Links
  <2>2. /\ e.readAt \in Nat /\ e.timestamp \in Nat /\ calledAt[c] \in Nat
        /\ Attempt \in Nat /\ TTL \in Nat \ {0}
    BY <2>1, Durations, TimeAssumption DEF IInv, TypeOK, Entry
  <2>3. e.timestamp <= e.readAt + Attempt /\ calledAt[on[c]] <= e.readAt
    BY <2>1 DEF IInv, Clock
  <2>4. on[c] = c \/ calledAt[c] - e.timestamp < TTL
    BY DEF IInv, FromFresh, Fresh
  <2>5. QED
    BY <2>1, <2>2, <2>3, <2>4
<1>2. QED
  BY <1>1, Inductive, PTL

\* A request is repeated only after an answer to it has expired.
THEOREM RequestsAreShared == Spec => []RequestedOnce
<1>1. IInv => RequestedOnce
  BY DEF IInv
<1>2. QED
  BY <1>1, Inductive, PTL

\* No call waits longer than the attempts of one request take.
THEOREM CallsSettleInTime == Spec => []SettledInTime
<1>1. IInv => SettledInTime
  BY DEF IInv
<1>2. QED
  BY <1>1, Inductive, PTL

\* A failed request is never sent again.
THEOREM FailuresAreKept == Spec => FailureIsKept
<1>1. ASSUME IInv, [Next]_vars, NEW k \in Key, Poisoned(k)
      PROVE  Poisoned(k)'
  <2> DEFINE e == cache[k]
  <2>1. /\ e \in Caller /\ entry[e].phase = "failed" /\ on[e] = e /\ status[e] # "idle"
        /\ enableCache
    BY <1>1 DEF Poisoned, IInv, TypeOK, Links
  <2>2. ASSUME NEW c \in Caller, Call(c) PROVE Poisoned(k)'
    <3>1. CASE KeyOf[c] = k
      <4>1. Cached(c) /\ on'[c] = e /\ cache' = cache /\ entry' = entry
            /\ \A d \in Caller : d # c => on'[d] = on[d] /\ status'[d] = status[d]
        BY <1>1, <2>1, <2>2, <3>1 DEF Cached, Call, Poisoned, IInv, TypeOK
      <4>2. QED
        BY <1>1, <2>1, <4>1 DEF Poisoned
    <3>2. CASE KeyOf[c] # k
      <4>1. e # c
        BY <2>1, <2>2 DEF Call
      <4>2. cache'[k] = cache[k] /\ entry'[e] = entry[e]
        BY <1>1, <2>1, <2>2, <3>2, <4>1 DEF Call, Begin, IInv, TypeOK
      <4>3. \A d \in Caller : d # c => on'[d] = on[d] /\ status'[d] = status[d]
        BY <1>1, <2>2 DEF Call, Begin, IInv, TypeOK
      <4>4. QED
        BY <1>1, <3>2, <4>2, <4>3 DEF Poisoned
    <3>3. QED
      BY <3>1, <3>2
  <2>3. ASSUME NEW c \in Caller, Resume(c) PROVE Poisoned(k)'
    <3>1. CASE KeyOf[c] = k
      <4>1. status[c] = "waiting" /\ on[c] = e
        BY <1>1, <2>3, <3>1 DEF Poisoned, Resume, Ready
      <4>2. on' = on /\ cache' = cache /\ entry' = entry
            /\ \A d \in Caller : d # c => status'[d] = status[d]
        BY <1>1, <2>1, <2>3, <4>1 DEF Resume, IInv, TypeOK
      <4>3. QED
        BY <1>1, <4>1, <4>2 DEF Poisoned
    <3>2. CASE KeyOf[c] # k
      <4>1. cache'[k] = cache[k]
            /\ \A d \in Caller : d # c => on'[d] = on[d] /\ status'[d] = status[d]
        BY <1>1, <2>3, <3>2, KeyAssumption DEF Resume, Begin, IInv, TypeOK
      <4>2. entry'[e] = entry[e]
        <5>1. CASE entry' = entry
          BY <5>1
        <5>2. CASE Begin(c) /\ on[c] # c
          <6>1. e # c
            BY <2>1, <5>2
          <6>2. QED
            BY <1>1, <2>1, <5>2, <6>1 DEF Begin, IInv, TypeOK
        <5>3. QED
          BY <2>3, <5>1, <5>2 DEF Resume, Ready
      <4>3. QED
        BY <1>1, <3>2, <4>1, <4>2 DEF Poisoned
    <3>3. QED
      BY <3>1, <3>2
  <2>4. ASSUME NEW c \in Caller, Answer(c) \/ Error(c) \/ TimedOut(c)
        PROVE  Poisoned(k)'
    <3>1. c # e
      BY <2>1, <2>4 DEF Answer, Error, TimedOut
    <3>2. entry'[e] = entry[e] /\ cache' = cache /\ status' = status /\ on' = on
      BY <1>1, <2>1, <2>4, <3>1 DEF Answer, Error, TimedOut, IInv, TypeOK
    <3>3. QED
      BY <1>1, <3>2 DEF Poisoned
  <2>5. CASE Tick \/ UNCHANGED vars
    BY <1>1, <2>5 DEF Tick, vars, Poisoned
  <2>6. QED
    BY <1>1, <2>2, <2>3, <2>4, <2>5 DEF Next
<1>2. IInv /\ [Next]_vars => [\A k \in Key : Poisoned(k) => Poisoned(k)']_vars
  BY <1>1
<1>3. QED
  BY <1>2, Inductive, PTL DEF Spec, FailureIsKept
============================================================================
