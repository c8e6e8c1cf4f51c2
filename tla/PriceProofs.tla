---------------------------- MODULE PriceProofs ----------------------------
(***************************************************************************)
(* The prices of Positions: propagatePrice, a recursion over the tree of   *)
(* tokens that unwrapToken has left, shows a token with a price if and     *)
(* only if every token at the bottom of it has one, for every tree.        *)
(***************************************************************************)
EXTENDS PositionsProofs, WellFoundedInduction

\* The calls of a task are a tree: every token on the path of a call hangs under the
\* one before it, as the call for that one has ended.
TreeOK ==
  \A t \in Task : \A g \in frames[t] : \A m \in 1..(Len(g.path) - 1) :
    \E h \in frames[t] :
      h.path = SubSeq(g.path, 1, m) /\ g.path[m + 1] \in Children(h.path, h.at)

\* Only tokens with an adapter are opened.
OpenedOK ==
  \A t \in Task : \A g \in frames[t] :
    g.at = "opened" => Last(g.path) \in DOMAIN Underlying

\* The tree is finite in depth, as each step makes it deeper by one call at most.
DepthOK ==
  \A t \in Task : \E n \in Nat : \A g \in frames[t] : Len(g.path) <= n

TreeInv == TreeOK /\ OpenedOK /\ DepthOK

----------------------------------------------------------------------------
LEMMA InitTreeInv == Init => TreeInv
<1> SUFFICES ASSUME Init PROVE TreeInv
  OBVIOUS
<1>1. \A t \in Task : frames[t] = {}
  BY DEF Init
<1>2. 0 \in Nat
  OBVIOUS
<1>3. QED
  BY <1>1, <1>2 DEF TreeInv, TreeOK, OpenedOK, DepthOK

\* A path and one token more.
LEMMA OneMoreToken ==
  ASSUME NEW path \in Seq(Token), NEW k \in Token
  PROVE  /\ Append(path, k) \in Seq(Token)
         /\ Len(Append(path, k)) = Len(path) + 1
         /\ Append(path, k)[Len(path) + 1] = k
         /\ SubSeq(Append(path, k), 1, Len(path)) = path
         /\ \A m \in 1..(Len(path) - 1) :
              /\ SubSeq(Append(path, k), 1, m) = SubSeq(path, 1, m)
              /\ Append(path, k)[m + 1] = path[m + 1]
<1> DEFINE q == Append(path, k)
<1>1. q \in Seq(Token) /\ Len(q) = Len(path) + 1 /\ q[Len(path) + 1] = k
  OBVIOUS
<1>2. \A i \in 1..Len(path) : q[i] = path[i]
  OBVIOUS
<1> HIDE DEF q
<1>3. \A m \in 1..Len(path) : SubSeq(q, 1, m) = SubSeq(path, 1, m)
  BY <1>1, <1>2
<1>4. SubSeq(path, 1, Len(path)) = path
  OBVIOUS
<1>5. SubSeq(q, 1, Len(path)) = path
  <2>1. CASE Len(path) = 0
    BY <1>1, <2>1
  <2>2. CASE Len(path) # 0
    BY <1>3, <1>4, <2>2
  <2>3. QED
    BY <2>1, <2>2
<1>6. QED
  BY <1>1, <1>2, <1>3, <1>5 DEF q

\* A frame goes on or ends, and perhaps calls for tokens that hang under its own.
LEMMA TreeGrows ==
  ASSUME IInv, TreeInv, NEW t \in Task, NEW g \in frames[t], g.at # "opened",
         NEW at, NEW own, NEW next \in SUBSET Token,
         next \subseteq Children(g.path, at),
         at = "opened" => Last(g.path) \in DOMAIN Underlying,
         frames' = [frames EXCEPT ![t] =
           (@ \ {g}) \cup {Frame(g.path, at, own)}
                     \cup Calls({Append(g.path, k) : k \in next})]
  PROVE  TreeInv'
<1> DEFINE h0 == Frame(g.path, at, own)
           calls == Calls({Append(g.path, k) : k \in next})
<1>1. frames'[t] = (frames[t] \ {g}) \cup {h0} \cup calls
  BY DEF IInv, FramesOK
<1>2. \A i \in Task \ {t} : frames'[i] = frames[i]
  BY DEF IInv, FramesOK
<1>3. h0.path = g.path /\ h0.at = at
  BY DEF Frame
<1>4. g.path \in Seq(Token)
  BY DEF IInv, FramesOK, FrameOK
<1>5. \A f \in calls : \E k \in next : f.path = Append(g.path, k) /\ f.at = "adapter"
  BY DEF Calls, Frame
<1>6. Children(g.path, g.at) \subseteq Children(g.path, at)
  BY DEF Children
<1> HIDE DEF h0, calls
\* Every frame is still there, with at least the same children.
<1>7. ASSUME NEW h \in frames[t]
      PROVE  \E i \in frames'[t] :
               i.path = h.path /\ Children(h.path, h.at) \subseteq Children(i.path, i.at)
  <2>1. CASE h = g
    BY <1>1, <1>3, <1>6, <2>1
  <2>2. CASE h # g
    BY <1>1, <2>2
  <2>3. QED
    BY <2>1, <2>2
<1>8. ASSUME NEW f \in frames[t], NEW m \in 1..(Len(f.path) - 1)
      PROVE  \E h \in frames'[t] :
               h.path = SubSeq(f.path, 1, m) /\ f.path[m + 1] \in Children(h.path, h.at)
  <2>1. PICK h \in frames[t] :
          h.path = SubSeq(f.path, 1, m) /\ f.path[m + 1] \in Children(h.path, h.at)
    BY DEF TreeInv, TreeOK
  <2>2. PICK i \in frames'[t] :
          i.path = h.path /\ Children(h.path, h.at) \subseteq Children(i.path, i.at)
    BY <1>7
  <2>3. QED
    BY <2>1, <2>2
<1>9. ASSUME NEW f \in frames'[t], NEW m \in 1..(Len(f.path) - 1)
      PROVE  \E h \in frames'[t] :
               h.path = SubSeq(f.path, 1, m) /\ f.path[m + 1] \in Children(h.path, h.at)
  <2>1. CASE f \in frames[t]
    BY <1>8, <2>1
  <2>2. CASE f = h0
    BY <1>3, <1>8, <2>2
  <2>3. CASE f \in calls
    <3>1. PICK k \in next : f.path = Append(g.path, k)
      BY <1>5, <2>3
    <3>2. /\ Len(f.path) = Len(g.path) + 1 /\ f.path[Len(g.path) + 1] = k
          /\ SubSeq(f.path, 1, Len(g.path)) = g.path
          /\ \A n \in 1..(Len(g.path) - 1) :
               /\ SubSeq(f.path, 1, n) = SubSeq(g.path, 1, n)
               /\ f.path[n + 1] = g.path[n + 1]
      BY <1>4, <3>1, OneMoreToken
    <3>3. CASE m = Len(g.path)
      BY <1>1, <1>3, <3>1, <3>2, <3>3
    <3>4. CASE m # Len(g.path)
      <4>1. m \in 1..(Len(g.path) - 1)
        BY <1>4, <3>2, <3>4
      <4>2. PICK h \in frames'[t] :
              h.path = SubSeq(g.path, 1, m) /\ g.path[m + 1] \in Children(h.path, h.at)
        BY <1>8, <4>1
      <4>3. SubSeq(f.path, 1, m) = SubSeq(g.path, 1, m) /\ f.path[m + 1] = g.path[m + 1]
        BY <3>2, <4>1
      <4>4. QED
        BY <4>2, <4>3
    <3>5. QED
      BY <3>3, <3>4
  <2>4. QED
    BY <1>1, <2>1, <2>2, <2>3
<1>10. TreeOK'
  <2> SUFFICES ASSUME NEW i \in Task, NEW f \in frames'[i], NEW m \in 1..(Len(f.path) - 1)
               PROVE  \E h \in frames'[i] : /\ h.path = SubSeq(f.path, 1, m)
                                           /\ f.path[m + 1] \in Children(h.path, h.at)
    BY DEF TreeOK
  <2>1. CASE i = t
    BY <1>9, <2>1
  <2>2. CASE i # t
    BY <1>2, <2>2 DEF TreeInv, TreeOK
  <2>3. QED
    BY <2>1, <2>2
<1>11. OpenedOK'
  <2>1. \A f \in frames'[t] : f.at = "opened" => Last(f.path) \in DOMAIN Underlying
    BY <1>1, <1>3, <1>5 DEF TreeInv, OpenedOK
  <2>2. QED
    BY <1>2, <2>1 DEF TreeInv, OpenedOK
<1>12. DepthOK'
  <2>1. PICK n \in Nat : \A f \in frames[t] : Len(f.path) <= n
    BY DEF TreeInv, DepthOK
  <2>2. Len(g.path) \in Nat /\ Len(g.path) <= n
    BY <1>4, <2>1
  <2>3. \A f \in calls : Len(f.path) <= n + 1
    BY <1>4, <1>5, <2>2, OneMoreToken
  <2>4. \A f \in frames[t] : Len(f.path) <= n + 1
    <3>1. \A f \in frames[t] : Len(f.path) \in Nat
      BY DEF IInv, FramesOK, FrameOK
    <3>2. QED
      BY <2>1, <3>1
  <2>5. Len(h0.path) <= n + 1
    BY <1>3, <2>4
  <2>6. \A f \in frames'[t] : Len(f.path) <= n + 1
    BY <1>1, <2>3, <2>4, <2>5, Zenon
  <2>7. n + 1 \in Nat
    OBVIOUS
  <2>8. \E k \in Nat : \A f \in frames'[t] : Len(f.path) <= k
    BY <2>6, <2>7
  <2>9. QED
    BY <1>2, <2>8 DEF TreeInv, DepthOK
<1>13. QED
  BY <1>10, <1>11, <1>12 DEF TreeInv

LEMMA TreeSame ==
  ASSUME TreeInv, UNCHANGED frames
  PROVE  TreeInv'
  BY DEF TreeInv, TreeOK, OpenedOK, DepthOK

\* A task begins with a call for each of its positions.
LEMMA FetchPositionsTree ==
  ASSUME IInv, TreeInv, NEW t \in Task, FetchPositions(t)
  PROVE  TreeInv'
<1>1. PICK found : frames' = [frames EXCEPT ![t] = Calls({<<p>> : p \in found})]
  BY DEF FetchPositions
<1>2. \A i \in Task \ {t} : frames'[i] = frames[i]
  BY <1>1 DEF IInv, FramesOK
<1>3. \A g \in frames'[t] : Len(g.path) = 1 /\ g.at = "adapter"
  BY <1>1 DEF IInv, FramesOK, Calls, Frame
<1>4. TreeOK'
  <2> SUFFICES ASSUME NEW i \in Task, NEW f \in frames'[i], NEW m \in 1..(Len(f.path) - 1)
               PROVE  \E h \in frames'[i] : /\ h.path = SubSeq(f.path, 1, m)
                                           /\ f.path[m + 1] \in Children(h.path, h.at)
    BY DEF TreeOK
  <2>1. CASE i = t
    <3>1. Len(f.path) = 1
      BY <1>3, <2>1
    <3>2. m \in 1..0
      BY <3>1
    <3>3. QED
      BY <3>2
  <2>2. CASE i # t
    BY <1>2, <2>2 DEF TreeInv, TreeOK
  <2>3. QED
    BY <2>1, <2>2
<1>5. OpenedOK'
  <2>1. \A g \in frames'[t] : g.at = "opened" => Last(g.path) \in DOMAIN Underlying
    BY <1>3
  <2>2. QED
    BY <1>2, <2>1 DEF TreeInv, OpenedOK
<1>6. DepthOK'
  <2>1. ASSUME NEW f \in frames'[t]
        PROVE  Len(f.path) <= 1
    <3>1. Len(f.path) = 1
      BY <1>3
    <3>2. QED
      BY <3>1
  <2>2. 1 \in Nat
    OBVIOUS
  <2>3. QED
    BY <1>2, <2>1, <2>2 DEF TreeInv, DepthOK
<1>7. QED
  BY <1>4, <1>5, <1>6 DEF TreeInv

LEMMA BecomesTree ==
  ASSUME IInv, TreeInv, NEW t \in Task, NEW g \in frames[t], g.at # "opened",
         NEW at, at # "opened", NEW i, Becomes(t, g, at, i)
  PROVE  TreeInv'
<1> DEFINE next == {}
<1>1. Calls({Append(g.path, k) : k \in next}) = {}
  BY DEF Calls
<1>2. frames' = [frames EXCEPT ![t] =
         (@ \ {g}) \cup {Frame(g.path, at, i)}
                   \cup Calls({Append(g.path, k) : k \in next})]
  BY <1>1 DEF Becomes
<1>3. next \in SUBSET Token /\ next \subseteq Children(g.path, at)
  OBVIOUS
<1> HIDE DEF next
<1>4. QED
  BY <1>2, <1>3, TreeGrows

LEMMA ResolvesTree ==
  ASSUME IInv, TreeInv, NEW t \in Task, NEW g \in frames[t], g.at # "opened",
         NEW result, result = "opened" => Last(g.path) \in DOMAIN Underlying,
         Resolves(t, g, result)
  PROVE  TreeInv'
<1> DEFINE next == Unseen(g.path, Children(g.path, result))
<1>1. g.path \in Seq(Token) /\ Len(g.path) > 0
  BY DEF IInv, FramesOK, FrameOK
<1>2. next \in SUBSET Token /\ next \subseteq Children(g.path, result)
  BY <1>1, ChildrenAreTokens DEF Unseen
<1>3. frames' = [frames EXCEPT ![t] =
         (@ \ {g}) \cup {Frame(g.path, result, g.own)}
                   \cup Calls({Append(g.path, k) : k \in next})]
  BY DEF Resolves
<1> HIDE DEF next
<1>4. QED
  BY <1>2, <1>3, TreeGrows

LEMMA AnsweredTree ==
  ASSUME IInv, TreeInv, NEW t \in Task, NEW g \in frames[t], g.at # "opened",
         NEW result, Answered(t, g, result)
  PROVE  TreeInv'
  BY ResolvesTree, BecomesTree DEF Answered, Throws

LEMMA FrameStepTree ==
  ASSUME IInv, TreeInv, NEW t \in Task, FrameStep(t)
  PROVE  TreeInv'
<1>1. PICK g \in frames[t] : \/ FindAdapter(t, g) \/ AnswerDirect(t, g)
                             \/ AnswerCached(t, g) \/ AnswerFetched(t, g)
  BY DEF FrameStep
<1>2. CASE FindAdapter(t, g)
  <2>1. g.at # "opened"
    BY <1>2 DEF FindAdapter
  <2>2. \/ Throws(t, g) \/ Resolves(t, g, "given") \/ Fetch(t, g)
        \/ \E at \in {"direct", "cached"}, i \in Nat : Becomes(t, g, at, i)
    <3>1. Cached(Last(g.path)) \subseteq Nat
      <4>1. Last(g.path) \in Token
        BY DEF IInv, FramesOK, FrameOK, Last
      <4>2. Len(cache[Last(g.path)]) \in Nat
        BY <4>1 DEF IInv, CacheOK
      <4>3. QED
        BY <4>2 DEF Cached
    <3>2. QED
      BY <1>2, <3>1 DEF FindAdapter
  <2>3. QED
    BY <2>1, <2>2, ResolvesTree, BecomesTree DEF Throws, Fetch
<1>3. CASE AnswerDirect(t, g)
  BY <1>3, AnsweredTree, BecomesTree DEF AnswerDirect
<1>4. CASE AnswerCached(t, g)
  BY <1>4, AnsweredTree, BecomesTree DEF AnswerCached, Fetch
<1>5. CASE AnswerFetched(t, g)
  BY <1>5, AnsweredTree DEF AnswerFetched
<1>6. QED
  BY <1>1, <1>2, <1>3, <1>4, <1>5

LEMMA NextTreeInv == IInv /\ TreeInv /\ [Next]_vars => TreeInv'
<1> SUFFICES ASSUME IInv, TreeInv, [Next]_vars PROVE TreeInv'
  OBVIOUS
<1>1. CASE UNCHANGED frames
  BY <1>1, TreeSame
<1>2. ASSUME NEW t \in Task, FetchPositions(t) PROVE TreeInv'
  BY <1>2, FetchPositionsTree
<1>3. ASSUME NEW t \in Task, FrameStep(t) PROVE TreeInv'
  BY <1>3, FrameStepTree
<1>4. \/ UNCHANGED frames
      \/ \E t \in Task : FetchPositions(t) \/ FrameStep(t)
  BY DEF Next, TaskStep, Tick, Detect, CacheStep, BuildProtocolTokens, Settle,
         AdapterFails, AdapterUnanswered, Finish, vars
<1>5. QED
  BY <1>1, <1>2, <1>3, <1>4

LEMMA TreeInvariance == Spec => []TreeInv
  BY InitIInv, NextIInv, InitTreeInv, NextTreeInv, PTL DEF Spec

----------------------------------------------------------------------------
\* The paths of an answer.

LEMMA SameTokens ==
  ASSUME NEW p \in Seq(Token), NEW r \in Seq(Token), Len(r) = Len(p),
         \A i \in 1..Len(p) : p[i] = r[i]
  PROVE  p = r
  OBVIOUS

LEMMA FirstTokens ==
  ASSUME NEW q \in Seq(Token), NEW n \in Nat, n <= Len(q)
  PROVE  /\ SubSeq(q, 1, n) \in Seq(Token)
         /\ Len(SubSeq(q, 1, n)) = n
         /\ \A i \in 1..n : SubSeq(q, 1, n)[i] = q[i]
  OBVIOUS

LEMMA PrefixIs ==
  ASSUME NEW p \in Seq(Token), NEW q \in Seq(Token), IsPrefix(p, q)
  PROVE  /\ Len(p) \in Nat /\ Len(q) \in Nat /\ Len(p) <= Len(q)
         /\ \A i \in 1..Len(p) : p[i] = q[i]
<1>1. /\ Len(p) \in Nat /\ Len(q) \in Nat /\ Len(p) <= Len(q)
      /\ SubSeq(p, 1, Len(p)) = SubSeq(q, 1, Len(p))
  BY DEF IsPrefix
<1>2. \A i \in 1..Len(p) : SubSeq(p, 1, Len(p))[i] = p[i]
  BY <1>1, FirstTokens
<1>3. \A i \in 1..Len(p) : SubSeq(q, 1, Len(p))[i] = q[i]
  BY <1>1, FirstTokens
<1>4. QED
  BY <1>1, <1>2, <1>3

LEMMA IsAPrefix ==
  ASSUME NEW p \in Seq(Token), NEW q \in Seq(Token), Len(p) <= Len(q),
         \A i \in 1..Len(p) : p[i] = q[i]
  PROVE  IsPrefix(p, q)
<1>1. Len(p) \in Nat /\ Len(p) <= Len(p)
  OBVIOUS
<1> DEFINE r == SubSeq(p, 1, Len(p))
           s == SubSeq(q, 1, Len(p))
<1>2. /\ r \in Seq(Token) /\ Len(r) = Len(p) /\ \A i \in 1..Len(p) : r[i] = p[i]
      /\ s \in Seq(Token) /\ Len(s) = Len(p) /\ \A i \in 1..Len(p) : s[i] = q[i]
  BY <1>1, FirstTokens
<1> HIDE DEF r, s
<1>3. r = s
  BY <1>2, SameTokens
<1>4. QED
  BY <1>3 DEF IsPrefix, r, s

\* The tokens that hang under the call for a path.
LEMMA BelowIs ==
  ASSUME IInv, TreeInv, NEW t \in Task, NEW p, NEW q \in Below(t, p)
  PROVE  /\ p \in Seq(Token) /\ Len(p) > 0
         /\ q \in Paths(t) /\ p \in Paths(t)
         /\ \E g \in frames[t] : g.path = p
         /\ \E k \in Token : q = Append(p, k)
<1>1. PICK g \in At(t, p) : q \in {Append(p, k) : k \in Children(p, g.at)}
  BY DEF Below
<1>2. g \in frames[t] /\ g.path = p
  BY <1>1 DEF At
<1>3. p \in Seq(Token) /\ Len(p) > 0
  BY <1>2 DEF IInv, FramesOK, FrameOK
<1>4. g.at = "opened" => Last(p) \in DOMAIN Underlying
  BY <1>2 DEF TreeInv, OpenedOK
<1>5. Children(p, g.at) \subseteq Token
  BY <1>3, <1>4, ChildrenAreTokens
<1>6. q \in Paths(t) /\ p \in Paths(t)
  BY <1>2 DEF Paths
<1>7. QED
  BY <1>1, <1>2, <1>3, <1>5, <1>6

LEMMA PathsAre ==
  ASSUME IInv, TreeInv, NEW t \in Task, NEW p \in Paths(t)
  PROVE  /\ p \in Seq(Token) /\ Len(p) > 0
         /\ \/ \E g \in frames[t] : g.path = p
            \/ \E q \in Paths(t) : p \in Below(t, q)
<1>1. CASE \E g \in frames[t] : g.path = p
  BY <1>1 DEF IInv, FramesOK, FrameOK
<1>2. CASE ~\E g \in frames[t] : g.path = p
  <2>1. PICK g \in frames[t] : p \in Below(t, g.path)
    BY <1>2 DEF Paths
  <2>2. /\ g.path \in Seq(Token) /\ g.path \in Paths(t)
        /\ \E k \in Token : p = Append(g.path, k)
    BY <2>1, BelowIs
  <2>3. p \in Seq(Token) /\ Len(p) > 0
    BY <2>2
  <2>4. QED
    BY <2>1, <2>2, <2>3
<1>3. QED
  BY <1>1, <1>2

\* Between two paths of the tree is a child of the shorter one.
LEMMA StepDown ==
  ASSUME IInv, TreeInv, NEW t \in Task, NEW p \in Paths(t), NEW q \in Paths(t),
         IsPrefix(p, q), p # q
  PROVE  \E r \in Below(t, p) : IsPrefix(r, q)
<1>1. p \in Seq(Token) /\ q \in Seq(Token) /\ Len(p) > 0
  BY PathsAre
<1>2. /\ Len(p) \in Nat /\ Len(q) \in Nat /\ Len(p) <= Len(q)
      /\ \A i \in 1..Len(p) : p[i] = q[i]
  BY <1>1, PrefixIs
<1>3. Len(p) < Len(q)
  BY <1>1, <1>2, SameTokens
\* The first of the tokens that q has more is a child.
<1>4. ASSUME NEW f \in frames[t], Len(p) < Len(f.path),
             \A i \in 1..Len(p) : p[i] = f.path[i]
      PROVE  Append(p, f.path[Len(p) + 1]) \in Below(t, p)
  <2>1. f.path \in Seq(Token) /\ Len(f.path) \in Nat
    BY DEF IInv, FramesOK, FrameOK
  <2>2. Len(p) \in 1..(Len(f.path) - 1)
    BY <1>1, <1>2, <1>4, <2>1
  <2>3. SubSeq(f.path, 1, Len(p)) = p
    BY <1>1, <1>4, <2>1, <2>2
  <2>4. PICK h \in frames[t] :
          /\ h.path = SubSeq(f.path, 1, Len(p))
          /\ f.path[Len(p) + 1] \in Children(h.path, h.at)
    BY <2>2 DEF TreeInv, TreeOK
  <2>5. h \in At(t, p) /\ f.path[Len(p) + 1] \in Children(p, h.at)
    BY <2>3, <2>4 DEF At
  <2>6. QED
    BY <2>5 DEF Below
<1>5. q[Len(p) + 1] \in Token
  BY <1>1, <1>2, <1>3
<1>6. Append(p, q[Len(p) + 1]) \in Below(t, p)
  <2>1. CASE \E f \in frames[t] : f.path = q
    BY <1>2, <1>3, <1>4, <2>1
  <2>2. CASE \E s \in Paths(t) : q \in Below(t, s)
    <3>1. PICK s : q \in Below(t, s)
      BY <2>2
    <3>2. PICK f \in frames[t], k \in Token :
            f.path = s /\ s \in Seq(Token) /\ q = Append(s, k)
      BY <3>1, BelowIs
    <3>3. /\ Len(q) = Len(s) + 1 /\ q[Len(s) + 1] = k
          /\ \A i \in 1..Len(s) : q[i] = s[i]
      BY <3>2
    <3>4. CASE Len(p) < Len(s)
      <4>1. \A i \in 1..Len(p) : p[i] = s[i]
        BY <1>2, <3>2, <3>3, <3>4
      <4>2. s[Len(p) + 1] = q[Len(p) + 1]
        BY <1>2, <3>2, <3>3, <3>4
      <4>3. QED
        BY <1>4, <3>2, <3>4, <4>1, <4>2
    <3>5. CASE Len(p) = Len(s)
      <4>1. p = s
        BY <1>1, <1>2, <3>2, <3>3, <3>5
      <4>2. QED
        BY <3>1, <3>2, <3>3, <4>1
    <3>6. QED
      BY <1>2, <1>3, <3>2, <3>3, <3>4, <3>5
  <2>3. QED
    BY <2>1, <2>2, PathsAre
<1>7. IsPrefix(Append(p, q[Len(p) + 1]), q)
  <2> DEFINE r == Append(p, q[Len(p) + 1])
  <2>1. /\ r \in Seq(Token) /\ Len(r) = Len(p) + 1 /\ r[Len(p) + 1] = q[Len(p) + 1]
        /\ \A i \in 1..Len(p) : r[i] = p[i]
    BY <1>1, <1>5
  <2> HIDE DEF r
  <2>2. Len(r) <= Len(q) /\ \A i \in 1..Len(r) : r[i] = q[i]
    BY <1>2, <1>3, <2>1
  <2>3. IsPrefix(r, q)
    BY <1>1, <2>1, <2>2, IsAPrefix
  <2>4. QED
    BY <2>3 DEF r
<1>8. QED
  BY <1>6, <1>7

LEMMA UpToParent ==
  ASSUME IInv, TreeInv, NEW t \in Task, NEW p, NEW r \in Below(t, p),
         NEW q \in Paths(t), IsPrefix(r, q)
  PROVE  IsPrefix(p, q)
<1>1. PICK k \in Token : r = Append(p, k) /\ p \in Seq(Token)
  BY BelowIs
<1>2. q \in Seq(Token)
  BY PathsAre
<1>3. /\ r \in Seq(Token) /\ Len(r) = Len(p) + 1
      /\ \A i \in 1..Len(p) : r[i] = p[i]
  BY <1>1
<1>4. Len(r) <= Len(q) /\ \A i \in 1..Len(r) : r[i] = q[i]
  BY <1>2, <1>3, PrefixIs
<1>5. Len(p) <= Len(q) /\ \A i \in 1..Len(p) : p[i] = q[i]
  BY <1>1, <1>2, <1>3, <1>4
<1>6. QED
  BY <1>1, <1>2, <1>5, IsAPrefix

----------------------------------------------------------------------------
\* propagatePrice.

\* What PropagatePrice makes of the prices found so far.
Propagated(t, price) ==
  [path \in Paths(t) |->
     IF Below(t, path) = {} THEN \E g \in At(t, path) : g.at = "priced"
                            ELSE \A p \in Below(t, path) : price[p]]

\* The tokens at the bottom of a path have a price.
Whole(t) ==
  [path \in Paths(t) |->
     \A p \in Paths(t) :
       IsPrefix(path, p) /\ Below(t, p) = {} => \E g \in At(t, p) : g.at = "priced"]

\* That all tokens at the bottom have a price is passed on from child to parent.
LEMMA WholeIsPropagated ==
  ASSUME IInv, TreeInv, NEW t \in Task
  PROVE  Whole(t) = Propagated(t, Whole(t))
<1> DEFINE Priced(p) == \E g \in At(t, p) : g.at = "priced"
           W(path) == \A p \in Paths(t) : IsPrefix(path, p) /\ Below(t, p) = {} => Priced(p)
<1>1. ASSUME NEW path \in Paths(t), Below(t, path) = {}
      PROVE  W(path) <=> Priced(path)
  <2>1. IsPrefix(path, path)
    <3>1. path \in Seq(Token)
      BY PathsAre
    <3>2. Len(path) <= Len(path)
      BY <3>1
    <3>3. QED
      BY <3>1, <3>2, IsAPrefix
  <2>2. \A p \in Paths(t) : IsPrefix(path, p) => p = path
    BY <1>1, StepDown
  <2> HIDE DEF Priced
  <2>3. QED
    BY <1>1, <2>1, <2>2
<1>2. ASSUME NEW path \in Paths(t), Below(t, path) # {}
      PROVE  W(path) <=> \A r \in Below(t, path) : W(r)
  <2> HIDE DEF Priced
  <2>1. ASSUME W(path), NEW r \in Below(t, path)
        PROVE  W(r)
    BY <2>1, UpToParent
  <2>2. ASSUME \A r \in Below(t, path) : W(r)
        PROVE  W(path)
    <3> SUFFICES ASSUME NEW p \in Paths(t), IsPrefix(path, p), Below(t, p) = {}
                 PROVE  Priced(p)
      OBVIOUS
    <3>1. p # path
      BY <1>2
    <3>2. PICK r \in Below(t, path) : IsPrefix(r, p)
      BY <3>1, StepDown
    <3>3. QED
      BY <2>2, <3>2
  <2>3. QED
    BY <2>1, <2>2
<1>3. \A path \in Paths(t) :
        /\ Below(t, path) = {} => W(path) = Priced(path)
        /\ Below(t, path) # {} => W(path) = (\A r \in Below(t, path) : W(r))
  <2>1. \A path \in Paths(t) : W(path) \in BOOLEAN /\ Priced(path) \in BOOLEAN
    OBVIOUS
  <2>2. \A path \in Paths(t) : (\A r \in Below(t, path) : W(r)) \in BOOLEAN
    OBVIOUS
  <2> HIDE DEF W, Priced
  <2>3. QED
    BY <1>1, <1>2, <2>1, <2>2
<1> HIDE DEF W, Priced
<1>4. \A path \in Paths(t) : Whole(t)[path] = W(path)
  BY DEF Whole, W, Priced
<1>5. ASSUME NEW path \in Paths(t)
      PROVE  Whole(t)[path] = IF Below(t, path) = {} THEN Priced(path)
                              ELSE \A p \in Below(t, path) : Whole(t)[p]
  <2>1. \A p \in Below(t, path) : p \in Paths(t)
    BY BelowIs
  <2>2. (\A p \in Below(t, path) : Whole(t)[p]) = (\A p \in Below(t, path) : W(p))
    BY <1>4, <2>1
  <2>3. QED
    BY <1>3, <1>4, <2>2
<1>6. QED
  BY <1>5 DEF Whole, Propagated, Priced

\* The recursion determines the prices: of two answers that differ take a deepest path
\* where they do.
LEMMA PropagatedOnce ==
  ASSUME IInv, TreeInv, NEW t \in Task,
         NEW f, f = Propagated(t, f), NEW w, w = Propagated(t, w)
  PROVE  f = w
<1> DEFINE Differ == {p \in Paths(t) : f[p] # w[p]}
<1>1. /\ f = [p \in Paths(t) |-> f[p]] /\ w = [p \in Paths(t) |-> w[p]]
      /\ \A p \in Paths(t) : Below(t, p) = {} => f[p] = w[p]
      /\ \A p \in Paths(t) : Below(t, p) # {} =>
           /\ f[p] = (\A r \in Below(t, p) : f[r])
           /\ w[p] = (\A r \in Below(t, p) : w[r])
  BY DEF Propagated
<1>2. SUFFICES ASSUME Differ # {} PROVE FALSE
  BY <1>1
<1>3. PICK n \in Nat : \A p \in Paths(t) : Len(p) \in Nat /\ Len(p) <= n
  <2>1. PICK n \in Nat : \A g \in frames[t] : Len(g.path) <= n
    BY DEF TreeInv, DepthOK
  <2>2. ASSUME NEW p \in Paths(t)
        PROVE  Len(p) \in Nat /\ Len(p) <= n + 1
    <3>1. CASE \E g \in frames[t] : g.path = p
      BY <2>1, <3>1, PathsAre
    <3>2. CASE \E q \in Paths(t) : p \in Below(t, q)
      <4>1. PICK q : p \in Below(t, q)
        BY <3>2
      <4>2. PICK g \in frames[t], k \in Token :
              g.path = q /\ q \in Seq(Token) /\ p = Append(q, k)
        BY <4>1, BelowIs
      <4>3. Len(q) \in Nat /\ Len(q) <= n /\ Len(p) = Len(q) + 1
        BY <2>1, <4>2
      <4>4. QED
        BY <4>3
    <3>3. QED
      BY <3>1, <3>2, PathsAre
  <2>3. n + 1 \in Nat
    OBVIOUS
  <2>4. QED
    BY <2>2, <2>3
<1> DEFINE Rests == {n - Len(p) : p \in Differ}
<1>4. PICK p \in Differ : \A q \in Differ : Len(q) <= Len(p)
  <2>1. Rests \subseteq Nat /\ Rests # {}
    BY <1>2, <1>3
  <2> HIDE DEF Rests
  <2>2. PICK x \in Rests : \A y \in Rests : x <= y
    <3>1. PICK x \in Rests : \A y \in Rests : ~(<<y, x>> \in OpToRel(<, Nat))
      BY <2>1, NatLessThanWellFounded, WFMin, Zenon
    <3>2. \A y \in Rests : ~(y < x)
      BY <2>1, <3>1 DEF OpToRel
    <3>3. QED
      BY <2>1, <3>2
  <2>3. PICK p \in Differ : x = n - Len(p)
    BY <2>2 DEF Rests
  <2>4. \A q \in Differ : n - Len(p) <= n - Len(q)
    BY <2>2, <2>3 DEF Rests
  <2>5. \A q \in Differ : Len(q) \in Nat
    BY <1>3
  <2> HIDE DEF Differ
  <2>6. QED
    BY <2>3, <2>4, <2>5
<1>5. p \in Paths(t) /\ f[p] # w[p] /\ Below(t, p) # {}
  BY <1>1
<1>6. ASSUME NEW r \in Below(t, p)
      PROVE  f[r] = w[r]
  <2>1. r \in Paths(t) /\ \E k \in Token : p \in Seq(Token) /\ r = Append(p, k)
    BY BelowIs
  <2>2. Len(r) = Len(p) + 1 /\ Len(p) \in Nat
    BY <2>1
  <2>3. ~(Len(r) <= Len(p))
    BY <2>2
  <2>4. r \notin Differ
    BY <1>4, <2>3
  <2>5. QED
    BY <2>1, <2>4
<1>7. QED
  BY <1>1, <1>5, <1>6

LEMMA PropagatePriceIs ==
  ASSUME IInv, TreeInv, NEW t \in Task
  PROVE  PropagatePrice(t) = Whole(t)
<1>1. PropagatePrice(t) = CHOOSE f : f = Propagated(t, f)
  BY DEF PropagatePrice, Propagated
<1>2. Whole(t) = Propagated(t, Whole(t))
  BY WholeIsPropagated
<1>3. PropagatePrice(t) = Propagated(t, PropagatePrice(t))
  BY <1>1, <1>2, Zenon
<1>4. QED
  BY <1>2, <1>3, PropagatedOnce

\* propagatePrice never shows the value of a part as that of the whole, and never drops
\* a price that is complete: for every tree of tokens that unwrapping can end with.
THEOREM PricesAreWhole == Spec => []PriceIsWhole
<1>1. IInv /\ TreeInv => PriceIsWhole
  <2> SUFFICES ASSUME IInv, TreeInv, NEW t \in Task, NEW path \in Paths(t)
               PROVE  PropagatePrice(t)[path] <=>
                        \A p \in Paths(t) :
                          IsPrefix(path, p) /\ Below(t, p) = {} =>
                            \E g \in At(t, p) : g.at = "priced"
    BY DEF PriceIsWhole
  <2>1. PropagatePrice(t) = Whole(t)
    BY PropagatePriceIs
  <2>2. QED
    BY <2>1 DEF Whole
<1>2. QED
  BY <1>1, Invariance, TreeInvariance, PTL
============================================================================
