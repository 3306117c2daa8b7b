---------------------------- MODULE ScoresProofs ----------------------------
(***************************************************************************)
(* The heap of scores, for any number of variables and any scores: it      *)
(* stays a heap that misses no variable that could be decided, so that     *)
(* decisions and trail reuse find the best score.                          *)
(***************************************************************************)
EXTENDS Scores, Recursion, FiniteSetTheorems, SequenceTheorems

Distinct(h) == \A i, j \in DOMAIN h : h[i] = h[j] => i = j

\* The heap g has the elements of h, as often as h has them.
Shuffled(h, g) ==
  /\ g \in Seq(Var) /\ Len(g) = Len(h) /\ ToSet(g) = ToSet(h)
  /\ Distinct(h) => Distinct(g)

\* No element has a higher score than its parent: at all places, at all but one
\* that may rise, at all but those below one that may sink.
Ordered(s, h) == \A i \in 2 .. Len(h) : s[h[i]] <= s[h[i \div 2]]
SkipsWell(s, h, i) ==
  i > 1 => \A j \in 2 .. Len(h) : j \div 2 = i => s[h[j]] <= s[h[i \div 2]]
RisesWell(s, h, i) ==
  /\ \A j \in 2 .. Len(h) : j # i => s[h[j]] <= s[h[j \div 2]]
  /\ SkipsWell(s, h, i)
SinksWell(s, h, i) ==
  /\ \A j \in 2 .. Len(h) : j \div 2 # i => s[h[j]] <= s[h[j \div 2]]
  /\ SkipsWell(s, h, i)

Stab == [Var -> Nat]
Heap == Seq(Var)

-----------------------------------------------------------------------------
LEMMA SeqOfFunction ==
  ASSUME NEW S, NEW n \in Nat, NEW f \in [1 .. n -> S]
  PROVE  f \in Seq(S)
  OBVIOUS

LEMMA LastOne ==
  ASSUME NEW n \in Nat, NEW k \in 0 .. n, ~(k < n)
  PROVE  k = n
  OBVIOUS

\* Exchanging two elements changes neither which there are nor how often
\* (exchange).
LEMMA ExchangeShuffles ==
  ASSUME NEW h \in Heap, NEW i \in DOMAIN h, NEW j \in DOMAIN h
  PROVE  /\ Shuffled(h, Exchange(h, i, j)) /\ DOMAIN Exchange(h, i, j) = DOMAIN h
         /\ \A k \in DOMAIN h : Exchange(h, i, j)[k] = IF k = i THEN h[j] ELSE IF k = j THEN h[i] ELSE h[k]
<1> DEFINE g == Exchange(h, i, j)
<1>1. /\ DOMAIN g = DOMAIN h
      /\ \A k \in DOMAIN h : g[k] = IF k = i THEN h[j] ELSE IF k = j THEN h[i] ELSE h[k]
  BY DEF Exchange
<1>2. DOMAIN h = 1 .. Len(h) /\ Len(h) \in Nat /\ \A k \in DOMAIN h : h[k] \in Var
  BY DEF Heap
<1>3. g \in Seq(Var) /\ Len(g) = Len(h)
  BY <1>2 DEF Exchange, Heap
<1> HIDE DEF g
<1>4. ToSet(g) = ToSet(h)
  <2>1. \A k \in DOMAIN h : g[k] \in ToSet(h)
    BY <1>1 DEF ToSet
  <2>2. \A k \in DOMAIN h : \E m \in DOMAIN h : h[k] = g[m]
    <3> SUFFICES ASSUME NEW k \in DOMAIN h PROVE \E m \in DOMAIN h : h[k] = g[m]
      OBVIOUS
    <3>1. g[IF k = i THEN j ELSE IF k = j THEN i ELSE k] = h[k]
      BY <1>1
    <3> QED
      BY <3>1
  <2> QED
    BY <1>1, <2>1, <2>2 DEF ToSet
<1>5. Distinct(h) => Distinct(g)
  BY <1>1 DEF Distinct
<1> QED
  BY <1>1, <1>3, <1>4, <1>5 DEF Shuffled, g

LEMMA ShuffledTwice ==
  ASSUME NEW f, NEW g, NEW h, Shuffled(f, g), Shuffled(g, h)
  PROVE  Shuffled(f, h)
  BY DEF Shuffled

\* Of two elements one may move above the other only if its score is as high.
LEMMA LessScores ==
  ASSUME NEW s \in Stab, NEW a \in Var, NEW b \in Var
  PROVE  Less(s, a, b) \in BOOLEAN /\ (Less(s, a, b) => s[a] <= s[b]) /\ (~Less(s, a, b) => s[b] <= s[a])
<1>1. s[a] \in Nat /\ s[b] \in Nat
  BY DEF Stab
<1> QED
  BY <1>1 DEF Less, Var

LEMMA HeapParts ==
  ASSUME NEW s \in Stab, NEW h \in Heap
  PROVE  /\ Len(h) \in Nat /\ DOMAIN h = 1 .. Len(h)
         /\ \A k \in DOMAIN h : h[k] \in Var /\ s[h[k]] \in Nat
  BY DEF Stab, Heap

\* One turn of the loop of 'up'.
LEMMA RiseStep ==
  ASSUME NEW s \in Stab, NEW h \in Heap, NEW i \in DOMAIN h, RisesWell(s, h, i),
         i > 1, Less(s, h[i \div 2], h[i])
  PROVE  RisesWell(s, Exchange(h, i, i \div 2), i \div 2)
<1> DEFINE k == i \div 2
<1> DEFINE g == Exchange(h, i, k)
<1>1. /\ Len(h) \in Nat /\ DOMAIN h = 1 .. Len(h)
      /\ \A m \in DOMAIN h : h[m] \in Var /\ s[h[m]] \in Nat
  BY HeapParts
<1>2. k \in DOMAIN h /\ k < i /\ i \in Nat /\ k \in Nat
  BY <1>1
<1>3. s[h[k]] <= s[h[i]]
  <2> HIDE DEF k
  <2> QED
    BY <1>1, <1>2, LessScores DEF k
<1>4. /\ Len(g) = Len(h) /\ DOMAIN g = DOMAIN h
      /\ \A m \in DOMAIN h : g[m] = IF m = i THEN h[k] ELSE IF m = k THEN h[i] ELSE h[m]
  <2> HIDE DEF k
  <2> QED
    BY <1>2, ExchangeShuffles DEF Shuffled
<1> HIDE DEF g
<1>5. ASSUME NEW j \in 2 .. Len(g), j # k PROVE s[g[j]] <= s[g[j \div 2]]
  <2>1. j \in DOMAIN h /\ j \div 2 \in DOMAIN h /\ j \div 2 < j
    BY <1>1, <1>4
  <2>2. s[g[k]] = s[h[i]] /\ s[g[i]] = s[h[k]]
    BY <1>2, <1>4
  <2>3. CASE j = i
    BY <1>3, <2>2, <2>3
  <2>4. CASE j # i /\ j \div 2 = i
    <3>1. g[j] = h[j]
      BY <1>4, <1>5, <2>1, <2>4
    <3>2. s[h[j]] <= s[h[k]]
      BY <1>4, <1>5, <2>4 DEF RisesWell, SkipsWell
    <3> QED
      BY <2>2, <2>4, <3>1, <3>2
  <2>5. CASE j # i /\ j \div 2 = k
    <3>1. g[j] = h[j] /\ s[h[j]] <= s[h[k]]
      BY <1>4, <1>5, <2>1, <2>5 DEF RisesWell
    <3>2. s[h[j]] \in Nat /\ s[h[k]] \in Nat /\ s[h[i]] \in Nat
      BY <1>1, <1>2, <2>1
    <3> QED
      BY <1>3, <2>2, <2>5, <3>1, <3>2, SMTT(60)
  <2>6. CASE j # i /\ j \div 2 # i /\ j \div 2 # k
    <3>1. g[j] = h[j] /\ g[j \div 2] = h[j \div 2]
      BY <1>4, <1>5, <2>1, <2>6
    <3>2. s[h[j]] <= s[h[j \div 2]]
      BY <1>4, <1>5, <2>6 DEF RisesWell
    <3> QED
      BY <3>1, <3>2
  <2> QED
    BY <2>3, <2>4, <2>5, <2>6
<1>6. ASSUME k > 1, NEW j \in 2 .. Len(g), j \div 2 = k PROVE s[g[j]] <= s[g[k \div 2]]
  <2>1. j \in DOMAIN h /\ k \div 2 \in DOMAIN h /\ k \div 2 < k /\ k < j
    BY <1>1, <1>2, <1>4, <1>6
  <2>2. s[h[k]] <= s[h[k \div 2]] /\ g[k \div 2] = h[k \div 2]
    <3>1. k \in 2 .. Len(h) /\ k # i
      BY <1>1, <1>2, <1>6
    <3>2. s[h[k]] <= s[h[k \div 2]]
      BY <3>1 DEF RisesWell
    <3>3. k \div 2 # i /\ k \div 2 # k
      BY <1>2, <2>1
    <3> QED
      BY <1>4, <2>1, <3>2, <3>3
  <2>3. s[h[j]] \in Nat /\ s[h[k]] \in Nat /\ s[h[k \div 2]] \in Nat
    BY <1>1, <1>2, <2>1
  <2>4. CASE j = i
    BY <1>2, <1>4, <2>2, <2>4
  <2>5. CASE j # i
    <3>1. g[j] = h[j] /\ s[h[j]] <= s[h[k]]
      BY <1>2, <1>4, <1>6, <2>1, <2>5 DEF RisesWell
    <3> QED
      BY <2>2, <2>3, <3>1
  <2> QED
    BY <2>4, <2>5
<1> HIDE DEF k
<1>7. RisesWell(s, g, k)
  BY <1>5, <1>6 DEF RisesWell, SkipsWell
<1> QED
  BY <1>7 DEF g, k

\* Where the loop of 'up' ends the heap is in order.
LEMMA RiseStop ==
  ASSUME NEW s \in Stab, NEW h \in Heap, NEW i \in DOMAIN h, RisesWell(s, h, i),
         ~(i > 1 /\ Less(s, h[i \div 2], h[i]))
  PROVE  Ordered(s, h)
<1>1. /\ Len(h) \in Nat /\ DOMAIN h = 1 .. Len(h)
      /\ \A m \in DOMAIN h : h[m] \in Var /\ s[h[m]] \in Nat
  BY HeapParts
<1> SUFFICES ASSUME NEW j \in 2 .. Len(h) PROVE s[h[j]] <= s[h[j \div 2]]
  BY DEF Ordered
<1>2. CASE j # i
  BY <1>2 DEF RisesWell
<1>3. CASE j = i
  <2>1. i > 1 /\ i \div 2 \in DOMAIN h
    BY <1>1, <1>3
  <2>2. h[i] \in Var /\ h[i \div 2] \in Var
    BY <1>1, <2>1
  <2> QED
    BY <1>3, <2>1, <2>2, LessScores
<1> QED
  BY <1>2, <1>3

LEMMA PositionParts ==
  ASSUME NEW p \in Position
  PROVE  /\ p.stab \in Stab /\ p.heap \in Heap /\ p.at \in DOMAIN p.heap /\ p.at \in Nat
         /\ p.at >= 1 /\ p.at <= Len(p.heap) /\ p = At(p.stab, p.heap, p.at)
  BY DEF Position, At, Stab, Heap

LEMMA MovedIsPosition ==
  ASSUME NEW p \in Position, NEW i \in DOMAIN p.heap
  PROVE  /\ Moved(p, i) \in Position /\ Moved(p, i).at = i /\ Moved(p, i).stab = p.stab
         /\ Moved(p, i).heap = Exchange(p.heap, p.at, i)
         /\ Shuffled(p.heap, Moved(p, i).heap)
<1>1. /\ p.stab \in Stab /\ p.heap \in Heap /\ p.at \in DOMAIN p.heap
  BY PositionParts
<1>2. Shuffled(p.heap, Exchange(p.heap, p.at, i)) /\ DOMAIN Exchange(p.heap, p.at, i) = DOMAIN p.heap
  BY <1>1, ExchangeShuffles
<1>3. Exchange(p.heap, p.at, i) \in Seq(Var) /\ i \in Nat
  BY <1>1, <1>2 DEF Shuffled, Heap
<1> QED
  BY <1>1, <1>2, <1>3 DEF Position, Moved, At, Stab

\* up is the function its loop computes.
LEMMA UpUnfolds ==
  \A p \in Position : up[p] = IF RisesFrom(p) THEN up[Moved(p, p.at \div 2)] ELSE p.heap
<1> DEFINE rank == [p \in Position |-> p.at]
<1> DEFINE step == [p \in Position |-> IF RisesFrom(p) THEN Moved(p, p.at \div 2) ELSE p]
<1> DEFINE stop == {p \in Position : ~RisesFrom(p)}
<1> DEFINE val == [p \in Position |-> p.heap]
<1>1. rank \in [Position -> Nat] /\ val \in [Position -> Heap]
  BY PositionParts
<1>2. ASSUME NEW p \in Position, RisesFrom(p)
      PROVE  Moved(p, p.at \div 2) \in Position /\ Moved(p, p.at \div 2).at < p.at
  <2>1. p.at \div 2 \in DOMAIN p.heap /\ p.at \div 2 < p.at
    BY <1>2, PositionParts DEF RisesFrom
  <2> QED
    BY <2>1, MovedIsPosition
<1>3. step \in [Position -> Position]
  BY <1>2
<1>4. \A p \in Position \ stop : rank[step[p]] < rank[p]
  BY <1>2
<1>5. \E f \in [Position -> Heap] : Recursive(f, Position, step, stop, val)
  <2> HIDE DEF rank, step, stop, val
  <2> QED
    BY <1>1, <1>3, <1>4, TailRecursion
<1>6. PICK f \in [Position -> Heap] : Recursive(f, Position, step, stop, val)
  BY <1>5
<1>7. \A p \in Position : f[p] = IF RisesFrom(p) THEN f[Moved(p, p.at \div 2)] ELSE p.heap
  BY <1>6 DEF Recursive
<1>8. f = [p \in Position |-> IF RisesFrom(p) THEN f[Moved(p, p.at \div 2)] ELSE p.heap]
  BY <1>7
<1>9. up = [p \in Position |-> IF RisesFrom(p) THEN up[Moved(p, p.at \div 2)] ELSE p.heap]
  BY <1>8 DEF up
<1> QED
  BY <1>9

\* A property of a place and its heap that holds where the loop of 'up' ends and
\* is handed on by its turns holds of the result.
LEMMA UpInduction ==
  ASSUME NEW Good \in SUBSET Position,
         \A p \in Position : ~RisesFrom(p) => p \in Good,
         \A p \in Position : RisesFrom(p) /\ Moved(p, p.at \div 2) \in Good => p \in Good
  PROVE  Good = Position
<1> DEFINE rank == [p \in Position |-> p.at]
<1>1. rank \in [Position -> Nat]
  BY PositionParts
<1>2. ASSUME NEW p \in Position, \A q \in Position : rank[q] < rank[p] => q \in Good
      PROVE  p \in Good
  <2>1. CASE ~RisesFrom(p)
    BY <2>1
  <2>2. CASE RisesFrom(p)
    <3>1. p.at \div 2 \in DOMAIN p.heap /\ p.at \div 2 < p.at
      BY <2>2, PositionParts DEF RisesFrom
    <3>2. Moved(p, p.at \div 2) \in Position /\ Moved(p, p.at \div 2).at = p.at \div 2
      BY <3>1, MovedIsPosition
    <3> QED
      BY <1>2, <2>2, <3>1, <3>2
  <2> QED
    BY <2>1, <2>2
<1> HIDE DEF rank
<1> QED
  BY <1>1, <1>2, RankInduction

\* What 'up' does to a heap.
LEMMA UpWorks ==
  ASSUME NEW p \in Position
  PROVE  /\ Shuffled(p.heap, up[p])
         /\ RisesWell(p.stab, p.heap, p.at) => Ordered(p.stab, up[p])
<1> DEFINE Fine(q) == /\ Shuffled(q.heap, up[q])
                      /\ RisesWell(q.stab, q.heap, q.at) => Ordered(q.stab, up[q])
<1> DEFINE Good == {q \in Position : Fine(q)}
<1>1. ASSUME NEW q \in Position, ~RisesFrom(q) PROVE Fine(q)
  <2>1. up[q] = q.heap
    BY <1>1, UpUnfolds
  <2>2. /\ q.stab \in Stab /\ q.heap \in Heap /\ q.at \in DOMAIN q.heap
    BY PositionParts
  <2>3. Shuffled(q.heap, q.heap)
    BY <2>2 DEF Shuffled, Heap
  <2>4. ~(q.at > 1 /\ Less(q.stab, q.heap[q.at \div 2], q.heap[q.at]))
    BY <1>1 DEF RisesFrom
  <2>5. RisesWell(q.stab, q.heap, q.at) => Ordered(q.stab, q.heap)
    BY <2>2, <2>4, RiseStop
  <2> QED
    BY <2>1, <2>3, <2>5
<1>2. ASSUME NEW q \in Position, RisesFrom(q), Fine(Moved(q, q.at \div 2)) PROVE Fine(q)
  <2> DEFINE r == Moved(q, q.at \div 2)
  <2>1. /\ q.stab \in Stab /\ q.heap \in Heap /\ q.at \in DOMAIN q.heap
        /\ q.at > 1 /\ Less(q.stab, q.heap[q.at \div 2], q.heap[q.at]) /\ q.at \div 2 \in DOMAIN q.heap
    BY <1>2, PositionParts DEF RisesFrom
  <2>2. up[q] = up[r]
    BY <1>2, UpUnfolds
  <2>3. /\ r.at = q.at \div 2 /\ r.stab = q.stab /\ r.heap = Exchange(q.heap, q.at, q.at \div 2)
        /\ Shuffled(q.heap, r.heap)
    BY <2>1, MovedIsPosition
  <2> HIDE DEF r
  <2>4. Shuffled(q.heap, up[q])
    BY <1>2, <2>2, <2>3, ShuffledTwice DEF r
  <2>5. RisesWell(q.stab, q.heap, q.at) => RisesWell(r.stab, r.heap, r.at)
    BY <2>1, <2>3, RiseStep
  <2> QED
    BY <1>2, <2>2, <2>3, <2>4, <2>5 DEF r
<1> HIDE DEF Fine
<1>3. Good \in SUBSET Position
  OBVIOUS
<1>4. \A q \in Position : ~RisesFrom(q) => q \in Good
  BY <1>1
<1>5. \A q \in Position : RisesFrom(q) /\ Moved(q, q.at \div 2) \in Good => q \in Good
  BY <1>2
<1>6. Good = Position
  <2> HIDE DEF Good
  <2> QED
    BY <1>3, <1>4, <1>5, UpInduction
<1> QED
  BY <1>6 DEF Fine

-----------------------------------------------------------------------------
\* The child that 'down' looks at has the higher score of the two.
LEMMA ChildIsBest ==
  ASSUME NEW s \in Stab, NEW h \in Heap, NEW i \in DOMAIN h, 2 * i <= Len(h)
  PROVE  /\ Child(s, h, i) \in DOMAIN h /\ Child(s, h, i) \in Nat
         /\ Child(s, h, i) > i /\ Child(s, h, i) \div 2 = i
         /\ \A j \in 2 .. Len(h) : j \div 2 = i => s[h[j]] <= s[h[Child(s, h, i)]]
<1>1. /\ Len(h) \in Nat /\ DOMAIN h = 1 .. Len(h)
      /\ \A k \in DOMAIN h : h[k] \in Var /\ s[h[k]] \in Nat
  BY HeapParts
<1>2. Child(s, h, i) \in {2 * i, 2 * i + 1} /\ (Child(s, h, i) = 2 * i + 1 => 2 * i + 1 <= Len(h))
  BY DEF Child
<1>3. i \in Nat /\ i >= 1
  BY <1>1
<1>4. ASSUME NEW j \in 2 .. Len(h), j \div 2 = i PROVE s[h[j]] <= s[h[Child(s, h, i)]]
  <2>1. j = 2 * i \/ j = 2 * i + 1
    BY <1>3, <1>4
  <2>2. CASE 2 * i + 1 <= Len(h)
    <3> DEFINE a == h[2 * i]
    <3> DEFINE b == h[2 * i + 1]
    <3>1. a \in Var /\ b \in Var /\ s[a] \in Nat /\ s[b] \in Nat
      BY <1>1, <1>3, <2>2
    <3>2. (Less(s, a, b) => s[a] <= s[b]) /\ (~Less(s, a, b) => s[b] <= s[a])
      <4> HIDE DEF a, b
      <4> QED
        BY <3>1, LessScores
    <3>3. Child(s, h, i) = IF Less(s, a, b) THEN 2 * i + 1 ELSE 2 * i
      BY <2>2 DEF Child
    <3>4. CASE Less(s, a, b)
      <4>1. s[h[Child(s, h, i)]] = s[b] /\ s[a] <= s[b]
        BY ONLY <3>2, <3>3, <3>4 DEF b
      <4>2. s[h[j]] = s[a] \/ s[h[j]] = s[b]
        BY ONLY <2>1 DEF a, b
      <4> HIDE DEF a, b
      <4> QED
        BY ONLY <3>1, <4>1, <4>2
    <3>5. CASE ~Less(s, a, b)
      <4>1. s[h[Child(s, h, i)]] = s[a] /\ s[b] <= s[a]
        BY ONLY <3>2, <3>3, <3>5 DEF a
      <4>2. s[h[j]] = s[a] \/ s[h[j]] = s[b]
        BY ONLY <2>1 DEF a, b
      <4> HIDE DEF a, b
      <4> QED
        BY ONLY <3>1, <4>1, <4>2
    <3> QED
      BY ONLY <3>4, <3>5
  <2>3. CASE ~(2 * i + 1 <= Len(h))
    <3>1. j = 2 * i /\ Child(s, h, i) = 2 * i
      BY <1>1, <1>2, <2>1, <2>3
    <3> QED
      BY <1>1, <1>4, <3>1
  <2> QED
    BY <2>2, <2>3
<1> QED
  BY <1>1, <1>2, <1>3, <1>4, SMTT(60)

\* One turn of the loop of 'down'.
LEMMA SinkStep ==
  ASSUME NEW s \in Stab, NEW h \in Heap, NEW i \in DOMAIN h, SinksWell(s, h, i),
         2 * i <= Len(h), Less(s, h[i], h[Child(s, h, i)])
  PROVE  SinksWell(s, Exchange(h, i, Child(s, h, i)), Child(s, h, i))
<1> DEFINE c == Child(s, h, i)
<1> DEFINE g == Exchange(h, i, c)
<1>1. /\ Len(h) \in Nat /\ DOMAIN h = 1 .. Len(h)
      /\ \A m \in DOMAIN h : h[m] \in Var /\ s[h[m]] \in Nat
  BY HeapParts
<1>c. /\ c \in DOMAIN h /\ c \in Nat /\ c > i /\ c \div 2 = i
      /\ \A j \in 2 .. Len(h) : j \div 2 = i => s[h[j]] <= s[h[c]]
  BY ONLY ChildIsBest, s \in Stab, h \in Heap, i \in DOMAIN h, 2 * i <= Len(h)
<1> HIDE DEF c
<1>2. /\ c \in DOMAIN h /\ c > i /\ c \div 2 = i /\ c \in Nat /\ i \in Nat /\ i >= 1
      /\ \A j \in 2 .. Len(h) : j \div 2 = i => s[h[j]] <= s[h[c]]
  BY <1>1, <1>c
<1>3. s[h[i]] <= s[h[c]] /\ s[h[i]] \in Nat /\ s[h[c]] \in Nat
  BY <1>1, <1>2, LessScores DEF c
<1>4. /\ Len(g) = Len(h) /\ DOMAIN g = DOMAIN h
      /\ \A m \in DOMAIN h : g[m] = IF m = i THEN h[c] ELSE IF m = c THEN h[i] ELSE h[m]
  BY <1>2, ExchangeShuffles, SMTT(60) DEF Shuffled
<1> HIDE DEF g
<1>5. s[g[i]] = s[h[c]] /\ s[g[c]] = s[h[i]]
  BY <1>2, <1>4
<1>6. ASSUME NEW j \in 2 .. Len(g), j \div 2 # c PROVE s[g[j]] <= s[g[j \div 2]]
  <2>1. j \in DOMAIN h /\ j \div 2 \in DOMAIN h /\ j \div 2 < j
    BY <1>1, <1>4
  <2>2. CASE j = c
    BY <1>2, <1>3, <1>5, <2>2
  <2>3. CASE j # c /\ j = i
    <3>1. s[h[c]] <= s[h[i \div 2]]
      BY <1>1, <1>2, <2>1, <2>3, SMTT(60) DEF SinksWell, SkipsWell
    <3>2. g[j \div 2] = h[i \div 2]
      BY <1>4, <1>6, <2>1, <2>3
    <3> QED
      BY <1>5, <2>3, <3>1, <3>2
  <2>4. CASE j # c /\ j # i /\ j \div 2 = i
    <3>1. g[j] = h[j]
      BY <1>4, <2>1, <2>4
    <3>2. s[h[j]] <= s[h[c]]
      BY <1>2, <1>4, <2>4
    <3> QED
      BY <1>5, <2>4, <3>1, <3>2
  <2>5. CASE j # c /\ j # i /\ j \div 2 # i
    <3>1. g[j] = h[j] /\ g[j \div 2] = h[j \div 2]
      BY <1>4, <1>6, <2>1, <2>5
    <3>2. s[h[j]] <= s[h[j \div 2]]
      BY <1>4, <2>5 DEF SinksWell
    <3> QED
      BY <3>1, <3>2
  <2> QED
    BY <2>2, <2>3, <2>4, <2>5
<1>7. ASSUME NEW j \in 2 .. Len(g), j \div 2 = c PROVE s[g[j]] <= s[g[c \div 2]]
  <2>1. j \in DOMAIN h /\ j # c /\ j # i
    BY <1>1, <1>2, <1>4, <1>7
  <2>2. g[j] = h[j]
    BY <1>4, <2>1
  <2>3. s[h[j]] <= s[h[c]]
    <3>1. j \div 2 # i
      BY <1>2, <1>7
    <3> QED
      BY <1>4, <1>7, <3>1 DEF SinksWell
  <2> QED
    BY <1>2, <1>5, <2>2, <2>3
<1>8. SinksWell(s, g, c)
  BY <1>6, <1>7 DEF SinksWell, SkipsWell
<1> QED
  BY <1>8 DEF g, c

\* Where the loop of 'down' ends the heap is in order.
LEMMA SinkStop ==
  ASSUME NEW s \in Stab, NEW h \in Heap, NEW i \in DOMAIN h, SinksWell(s, h, i),
         ~(2 * i <= Len(h) /\ Less(s, h[i], h[Child(s, h, i)]))
  PROVE  Ordered(s, h)
<1>1. /\ Len(h) \in Nat /\ DOMAIN h = 1 .. Len(h)
      /\ \A m \in DOMAIN h : h[m] \in Var /\ s[h[m]] \in Nat
  BY HeapParts
<1> SUFFICES ASSUME NEW j \in 2 .. Len(h) PROVE s[h[j]] <= s[h[j \div 2]]
  BY DEF Ordered
<1>2. CASE j \div 2 # i
  BY <1>2 DEF SinksWell
<1>3. CASE j \div 2 = i
  <2> DEFINE c == Child(s, h, i)
  <2>1. 2 * i <= Len(h) /\ i \in Nat
    BY <1>1, <1>3
  <2>2. c \in DOMAIN h /\ s[h[j]] <= s[h[c]]
    BY <1>3, <2>1, ChildIsBest
  <2>3. ~Less(s, h[i], h[c])
    BY <2>1
  <2> HIDE DEF c
  <2>4. h[i] \in Var /\ h[c] \in Var /\ j \in DOMAIN h
    BY <1>1, <2>2
  <2>5. s[h[c]] <= s[h[i]]
    BY <2>3, <2>4, LessScores
  <2>6. s[h[c]] \in Nat /\ s[h[i]] \in Nat /\ s[h[j]] \in Nat
    BY <1>1, <2>2, <2>4
  <2> QED
    BY <1>3, <2>2, <2>5, <2>6, SMTT(60)
<1> QED
  BY <1>2, <1>3

\* One turn of the loop of 'down' for a place and its heap.
LEMMA SinkMoves ==
  ASSUME NEW p \in Position, SinksFrom(p)
  PROVE  LET c == Child(p.stab, p.heap, p.at)
         IN /\ c \in DOMAIN p.heap /\ c > p.at /\ c <= Len(p.heap) /\ c \in Nat
            /\ Moved(p, c) \in Position /\ Moved(p, c).at = c /\ Moved(p, c).stab = p.stab
            /\ Moved(p, c).heap = Exchange(p.heap, p.at, c)
            /\ Shuffled(p.heap, Moved(p, c).heap) /\ Len(Moved(p, c).heap) = Len(p.heap)
<1> DEFINE c == Child(p.stab, p.heap, p.at)
<1>1. /\ p.stab \in Stab /\ p.heap \in Heap /\ p.at \in DOMAIN p.heap /\ 2 * p.at <= Len(p.heap)
  BY PositionParts DEF SinksFrom
<1>2. c \in DOMAIN p.heap /\ c > p.at /\ c \in Nat
  BY <1>1, ChildIsBest
<1>3. c <= Len(p.heap)
  BY <1>1, <1>2, HeapParts
<1> HIDE DEF c
<1>4. /\ Moved(p, c) \in Position /\ Moved(p, c).at = c /\ Moved(p, c).stab = p.stab
      /\ Moved(p, c).heap = Exchange(p.heap, p.at, c)
      /\ Shuffled(p.heap, Moved(p, c).heap)
  BY <1>2, MovedIsPosition
<1>5. Len(Moved(p, c).heap) = Len(p.heap)
  BY <1>4 DEF Shuffled
<1> QED
  BY <1>2, <1>3, <1>4, <1>5 DEF c

DownRank == [p \in Position |-> Len(p.heap) - p.at]

LEMMA DownRankLowers ==
  /\ DownRank \in [Position -> Nat]
  /\ \A p \in Position : SinksFrom(p) =>
       DownRank[Moved(p, Child(p.stab, p.heap, p.at))] < DownRank[p]
<1>1. ASSUME NEW p \in Position PROVE Len(p.heap) - p.at \in Nat /\ Len(p.heap) \in Nat /\ p.at \in Nat
  BY PositionParts, HeapParts
<1>2. ASSUME NEW p \in Position, SinksFrom(p)
      PROVE  DownRank[Moved(p, Child(p.stab, p.heap, p.at))] < DownRank[p]
  <2> DEFINE c == Child(p.stab, p.heap, p.at)
  <2>1. c > p.at /\ c \in Nat /\ Moved(p, c) \in Position /\ Moved(p, c).at = c
        /\ Len(Moved(p, c).heap) = Len(p.heap)
    BY <1>2, SinkMoves
  <2> HIDE DEF c
  <2>2. DownRank[Moved(p, c)] = Len(p.heap) - c /\ DownRank[p] = Len(p.heap) - p.at
    BY <2>1 DEF DownRank
  <2> QED
    BY <1>1, <2>1, <2>2 DEF c
<1> QED
  BY <1>1, <1>2 DEF DownRank

\* down is the function its loop computes.
LEMMA DownUnfolds ==
  \A p \in Position :
    down[p] = IF SinksFrom(p) THEN down[Moved(p, Child(p.stab, p.heap, p.at))] ELSE p.heap
<1> DEFINE next(p) == Moved(p, Child(p.stab, p.heap, p.at))
<1> DEFINE step == [p \in Position |-> IF SinksFrom(p) THEN next(p) ELSE p]
<1> DEFINE stop == {p \in Position : ~SinksFrom(p)}
<1> DEFINE val == [p \in Position |-> p.heap]
<1>1. val \in [Position -> Heap]
  BY PositionParts
<1>2. \A p \in Position : SinksFrom(p) => next(p) \in Position
  BY SinkMoves
<1>3. step \in [Position -> Position]
  BY <1>2
<1>4. \A p \in Position \ stop : DownRank[step[p]] < DownRank[p]
  BY DownRankLowers
<1>5. \E f \in [Position -> Heap] : Recursive(f, Position, step, stop, val)
  <2> HIDE DEF step, stop, val
  <2> QED
    BY <1>1, <1>3, <1>4, DownRankLowers, TailRecursion
<1>6. PICK f \in [Position -> Heap] : Recursive(f, Position, step, stop, val)
  BY <1>5
<1>7. \A p \in Position : f[p] = IF SinksFrom(p) THEN f[next(p)] ELSE p.heap
  BY <1>6 DEF Recursive
<1>8. f = [p \in Position |-> IF SinksFrom(p) THEN f[next(p)] ELSE p.heap]
  BY <1>7
<1>9. down = [p \in Position |-> IF SinksFrom(p) THEN down[next(p)] ELSE p.heap]
  BY <1>8 DEF down
<1> QED
  BY <1>9

\* What 'down' does to a heap.
LEMMA DownWorks ==
  ASSUME NEW p \in Position
  PROVE  /\ Shuffled(p.heap, down[p])
         /\ SinksWell(p.stab, p.heap, p.at) => Ordered(p.stab, down[p])
<1> DEFINE Fine(q) == /\ Shuffled(q.heap, down[q])
                      /\ SinksWell(q.stab, q.heap, q.at) => Ordered(q.stab, down[q])
<1> DEFINE Good == {q \in Position : Fine(q)}
<1> DEFINE next(q) == Moved(q, Child(q.stab, q.heap, q.at))
<1>1. ASSUME NEW q \in Position, ~SinksFrom(q) PROVE Fine(q)
  <2>1. down[q] = q.heap
    BY <1>1, DownUnfolds
  <2>2. /\ q.stab \in Stab /\ q.heap \in Heap /\ q.at \in DOMAIN q.heap
    BY PositionParts
  <2>3. Shuffled(q.heap, q.heap)
    BY <2>2 DEF Shuffled, Heap
  <2>4. ~(2 * q.at <= Len(q.heap) /\ Less(q.stab, q.heap[q.at], q.heap[Child(q.stab, q.heap, q.at)]))
    BY <1>1 DEF SinksFrom
  <2>5. SinksWell(q.stab, q.heap, q.at) => Ordered(q.stab, q.heap)
    BY <2>2, <2>4, SinkStop
  <2> QED
    BY <2>1, <2>3, <2>5
<1>2. ASSUME NEW q \in Position, SinksFrom(q), Fine(next(q)) PROVE Fine(q)
  <2> DEFINE c == Child(q.stab, q.heap, q.at)
  <2> DEFINE r == Moved(q, c)
  <2>1. /\ q.stab \in Stab /\ q.heap \in Heap /\ q.at \in DOMAIN q.heap
        /\ 2 * q.at <= Len(q.heap) /\ Less(q.stab, q.heap[q.at], q.heap[c])
    BY <1>2, PositionParts DEF SinksFrom
  <2>2. down[q] = down[r]
    BY <1>2, DownUnfolds
  <2>3. /\ r.at = c /\ r.stab = q.stab /\ r.heap = Exchange(q.heap, q.at, c)
        /\ Shuffled(q.heap, r.heap)
    BY <1>2, SinkMoves
  <2>4. Shuffled(r.heap, down[r]) /\ (SinksWell(r.stab, r.heap, r.at) => Ordered(r.stab, down[r]))
    BY <1>2
  <2>5. SinksWell(q.stab, q.heap, q.at) => SinksWell(q.stab, Exchange(q.heap, q.at, c), c)
    BY <2>1, SinkStep
  <2> HIDE DEF r, c
  <2>6. Shuffled(q.heap, down[r])
    BY <2>3, <2>4, ShuffledTwice
  <2> QED
    BY <2>2, <2>3, <2>4, <2>5, <2>6
<1> HIDE DEF Fine
<1>3. ASSUME NEW q \in Position, \A e \in Position : DownRank[e] < DownRank[q] => e \in Good
      PROVE  q \in Good
  <2>1. SinksFrom(q) => next(q) \in Good
    BY <1>3, SinkMoves, DownRankLowers
  <2> QED
    BY <1>1, <1>2, <2>1
<1>4. Good = Position
  <2>1. Good \in SUBSET Position
    OBVIOUS
  <2> HIDE DEF Good
  <2> QED
    BY <1>3, <2>1, DownRankLowers, RankInduction
<1> QED
  BY <1>4 DEF Fine

-----------------------------------------------------------------------------
LEMMA OrderedSinks ==
  ASSUME NEW s \in Stab, NEW h \in Heap, NEW i \in DOMAIN h, Ordered(s, h)
  PROVE  SinksWell(s, h, i)
<1>1. /\ Len(h) \in Nat /\ DOMAIN h = 1 .. Len(h)
      /\ \A m \in DOMAIN h : h[m] \in Var /\ s[h[m]] \in Nat
  BY HeapParts
<1>2. ASSUME i > 1, NEW j \in 2 .. Len(h), j \div 2 = i PROVE s[h[j]] <= s[h[i \div 2]]
  <2>1. i \in 2 .. Len(h) /\ j \in DOMAIN h /\ i \div 2 \in DOMAIN h
    BY <1>1, <1>2
  <2>2. s[h[j]] <= s[h[i]] /\ s[h[i]] <= s[h[i \div 2]]
    BY <1>2, <2>1 DEF Ordered
  <2> QED
    BY <1>1, <2>1, <2>2
<1> QED
  BY <1>2 DEF Ordered, SinksWell, SkipsWell

\* index: an element of the heap has its place.
LEMMA PlaceIs ==
  ASSUME NEW h \in Heap, NEW v \in ToSet(h)
  PROVE  Place(h, v) \in DOMAIN h /\ h[Place(h, v)] = v
  BY DEF Place, ToSet

\* update restores the order when only one element is too good for its place.
LEMMA UpdateWorks ==
  ASSUME NEW s \in Stab, NEW h \in Heap, NEW v \in ToSet(h)
  PROVE  /\ Shuffled(h, Update(s, h, v))
         /\ RisesWell(s, h, Place(h, v)) => Ordered(s, Update(s, h, v))
<1> DEFINE p == At(s, h, Place(h, v))
<1> DEFINE g == up[p]
<1> DEFINE q == At(s, g, Place(g, v))
<1>1. p \in Position /\ p.stab = s /\ p.heap = h /\ p.at = Place(h, v)
  BY PlaceIs DEF Position, At, Stab, Heap
<1> HIDE DEF p
<1>2. Shuffled(h, g) /\ (RisesWell(s, h, Place(h, v)) => Ordered(s, g))
  BY <1>1, UpWorks
<1> HIDE DEF g
<1>3. g \in Heap /\ v \in ToSet(g)
  BY <1>2 DEF Shuffled, Heap
<1>4. q \in Position /\ q.stab = s /\ q.heap = g /\ q.at = Place(g, v) /\ Place(g, v) \in DOMAIN g
  BY <1>3, PlaceIs DEF Position, At, Stab, Heap
<1> HIDE DEF q
<1>5. Shuffled(g, down[q]) /\ (SinksWell(s, g, Place(g, v)) => Ordered(s, down[q]))
  BY <1>4, DownWorks
<1>6. Ordered(s, g) => SinksWell(s, g, Place(g, v))
  BY <1>3, <1>4, OrderedSinks
<1>7. Update(s, h, v) = down[q]
  BY DEF Update, p, g, q
<1> QED
  BY <1>2, <1>5, <1>6, <1>7, ShuffledTwice

\* push_back adds one element.
LEMMA PushBackWorks ==
  ASSUME NEW s \in Stab, NEW h \in Heap, NEW v \in Var, v \notin ToSet(h)
  PROVE  /\ PushBack(s, h, v) \in Heap /\ ToSet(PushBack(s, h, v)) = ToSet(h) \cup {v}
         /\ Distinct(h) => Distinct(PushBack(s, h, v))
         /\ Ordered(s, h) => Ordered(s, PushBack(s, h, v))
<1> DEFINE g == Append(h, v)
<1> DEFINE n == Len(h) + 1
<1>1. Len(h) \in Nat /\ DOMAIN h = 1 .. Len(h) /\ \A k \in DOMAIN h : h[k] \in Var
  BY HeapParts
<1>2. /\ g \in Heap /\ Len(g) = n /\ DOMAIN g = 1 .. n /\ g[n] = v
      /\ \A k \in DOMAIN h : g[k] = h[k]
  BY <1>1 DEF Heap
<1> HIDE DEF g
<1>3. ToSet(g) = ToSet(h) \cup {v} /\ v \in ToSet(g)
  <2>1. DOMAIN g = DOMAIN h \cup {n}
    BY <1>1, <1>2
  <2> HIDE DEF n
  <2>2. \A x : x \in ToSet(g) <=> x \in ToSet(h) \cup {v}
    BY <1>2, <2>1 DEF ToSet
  <2> QED
    BY <2>2
<1>4. Place(g, v) = n
  <2>1. \A k \in DOMAIN g : g[k] = v => k = n
    BY <1>1, <1>2 DEF ToSet
  <2> QED
    BY <1>2, <1>3, <2>1, PlaceIs
<1>5. Distinct(h) => Distinct(g)
  <2>1. \A k \in DOMAIN h : h[k] # v
    BY DEF ToSet
  <2>2. \A k \in DOMAIN g : k \in DOMAIN h \/ k = n
    BY <1>1, <1>2
  <2> HIDE DEF n
  <2> QED
    BY <1>2, <2>1, <2>2 DEF Distinct
<1>6. Ordered(s, h) => RisesWell(s, g, n)
  <2> SUFFICES ASSUME Ordered(s, h) PROVE RisesWell(s, g, n)
    OBVIOUS
  <2>1. ASSUME NEW j \in 2 .. Len(g), j # n PROVE s[g[j]] <= s[g[j \div 2]]
    <3>1. j \in 2 .. Len(h) /\ j \in DOMAIN h /\ j \div 2 \in DOMAIN h
      BY <1>1, <1>2, <2>1
    <3> QED
      BY <1>2, <3>1 DEF Ordered
  <2>2. \A j \in 2 .. Len(g) : j \div 2 # n
    BY <1>1, <1>2
  <2> QED
    BY <2>1, <2>2 DEF RisesWell, SkipsWell
<1>7. Shuffled(g, Update(s, g, v)) /\ (RisesWell(s, g, n) => Ordered(s, Update(s, g, v)))
  <2> HIDE DEF n
  <2> QED
    BY <1>2, <1>3, <1>4, UpdateWorks
<1> QED
  BY <1>3, <1>5, <1>6, <1>7 DEF PushBack, Shuffled, Heap, g

\* pop_front takes the first element away.
LEMMA PopFrontWorks ==
  ASSUME NEW s \in Stab, NEW h \in Heap, h # <<>>
  PROVE  /\ PopFront(s, h) \in Heap /\ Len(PopFront(s, h)) = Len(h) - 1
         /\ Distinct(h) => /\ ToSet(PopFront(s, h)) = ToSet(h) \ {Head(h)}
                           /\ Distinct(PopFront(s, h))
         /\ Ordered(s, h) => Ordered(s, PopFront(s, h))
<1>1. /\ Len(h) \in Nat /\ DOMAIN h = 1 .. Len(h) /\ Len(h) >= 1 /\ Head(h) = h[1]
      /\ \A k \in DOMAIN h : h[k] \in Var
  BY HeapParts DEF Heap
<1>2. CASE Len(h) = 1
  <2>1. PopFront(s, h) = <<>>
    BY <1>2 DEF PopFront
  <2>2. ToSet(h) = {Head(h)} /\ ToSet(<<>>) = {}
    BY <1>1, <1>2 DEF ToSet
  <2> QED
    BY <1>1, <1>2, <2>1, <2>2 DEF Heap, Distinct, Ordered
<1>3. CASE Len(h) > 1
  <2> DEFINE n == Len(h) - 1
  <2> DEFINE g == SubSeq(<<h[Len(h)]>> \o Tail(h), 1, n)
  <2>1. /\ <<h[Len(h)]>> \in Seq(Var) /\ Tail(h) \in Seq(Var) /\ Len(Tail(h)) = n
        /\ \A k \in 1 .. n : Tail(h)[k] = h[k + 1]
    BY <1>1, <1>3 DEF Heap
  <2>2. /\ <<h[Len(h)]>> \o Tail(h) \in Seq(Var) /\ Len(<<h[Len(h)]>> \o Tail(h)) = Len(h)
        /\ (<<h[Len(h)]>> \o Tail(h))[1] = h[Len(h)]
        /\ \A k \in 2 .. Len(h) : (<<h[Len(h)]>> \o Tail(h))[k] = h[k]
    BY <1>1, <1>3, <2>1
  <2>3. /\ g \in Heap /\ Len(g) = n /\ DOMAIN g = 1 .. n /\ n \in Nat /\ n >= 1
        /\ g[1] = h[n + 1] /\ \A k \in 2 .. n : g[k] = h[k]
    <3> DEFINE m == <<h[Len(h)]>> \o Tail(h)
    <3>1. m \in Seq(Var) /\ Len(m) = Len(h) /\ m[1] = h[Len(h)] /\ \A k \in 2 .. Len(h) : m[k] = h[k]
      BY <2>2
    <3> HIDE DEF m
    <3>2. SubSeq(m, 1, n) \in Seq(Var) /\ Len(SubSeq(m, 1, n)) = n /\ \A k \in 1 .. n : SubSeq(m, 1, n)[k] = m[k]
      BY <1>1, <1>3, <3>1
    <3> QED
      BY <1>1, <1>3, <3>1, <3>2 DEF m, Heap
  <2> HIDE DEF g
  <2>4. ASSUME Distinct(h) PROVE ToSet(g) = ToSet(h) \ {Head(h)}
    <3>1. \A k \in DOMAIN g : g[k] \in ToSet(h) /\ g[k] # h[1]
      BY <1>1, <1>3, <2>3, <2>4 DEF ToSet, Distinct
    <3>2. ASSUME NEW k \in DOMAIN h, k # 1 PROVE h[k] \in ToSet(g)
      <4>1. CASE k = n + 1
        <5>1. h[k] = g[1] /\ 1 \in DOMAIN g
          BY <2>3, <4>1
        <5> QED
          BY <5>1 DEF ToSet
      <4>2. CASE k # n + 1
        <5>1. h[k] = g[k] /\ k \in DOMAIN g
          BY <1>1, <2>3, <3>2, <4>2
        <5> QED
          BY <5>1 DEF ToSet
      <4> QED
        BY <4>1, <4>2
    <3> QED
      BY <1>1, <3>1, <3>2 DEF ToSet
  <2>5. ASSUME Distinct(h) PROVE Distinct(g)
    <3>1. \A k \in DOMAIN g : k # 1 => g[k] = h[k] /\ k \in DOMAIN h /\ k # n + 1
      BY <1>1, <2>3
    <3>2. g[1] = h[n + 1] /\ n + 1 \in DOMAIN h
      BY <1>1, <2>3
    <3> QED
      BY <2>5, <3>1, <3>2 DEF Distinct
  <2>6. Ordered(s, h) => SinksWell(s, g, 1)
    <3> SUFFICES ASSUME Ordered(s, h), NEW j \in 2 .. Len(g), j \div 2 # 1
                 PROVE  s[g[j]] <= s[g[j \div 2]]
      BY DEF SinksWell, SkipsWell
    <3>1. j \in 2 .. n /\ j \div 2 \in 2 .. n /\ j \in 2 .. Len(h)
      BY <1>1, <2>3
    <3>2. g[j] = h[j] /\ g[j \div 2] = h[j \div 2]
      BY <2>3, <3>1
    <3> QED
      BY <3>1, <3>2 DEF Ordered
  <2> DEFINE p == At(s, g, 1)
  <2>7. p \in Position /\ p.stab = s /\ p.heap = g /\ p.at = 1
    BY <2>3 DEF Position, At, Stab, Heap
  <2>8. PopFront(s, h) = down[p]
    BY <1>3 DEF PopFront, g
  <2> HIDE DEF p
  <2>9. Shuffled(g, down[p]) /\ (SinksWell(s, g, 1) => Ordered(s, down[p]))
    BY <2>7, DownWorks
  <2> QED
    BY <2>3, <2>4, <2>5, <2>6, <2>8, <2>9 DEF Shuffled, Heap
<1>4. Len(h) = 1 \/ Len(h) > 1
  BY <1>1
<1> QED
  BY <1>2, <1>3, <1>4
-----------------------------------------------------------------------------
LEMMA HeadTail ==
  ASSUME NEW r \in Seq(Var), r # <<>>
  PROVE  /\ Head(r) \in Var /\ Tail(r) \in Seq(Var)
         /\ Len(r) \in Nat /\ Len(r) > 0 /\ Len(Tail(r)) = Len(r) - 1
         /\ ToSet(r) = {Head(r)} \cup ToSet(Tail(r))
<1>1. /\ Len(r) \in Nat /\ Len(r) > 0 /\ DOMAIN r = 1 .. Len(r) /\ Head(r) = r[1]
      /\ r[1] \in Var
  OBVIOUS
<1>2. /\ Tail(r) \in Seq(Var) /\ Len(Tail(r)) = Len(r) - 1
      /\ \A k \in 1 .. Len(r) - 1 : Tail(r)[k] = r[k + 1]
  BY <1>1
<1>3. DOMAIN Tail(r) = 1 .. Len(r) - 1
  BY <1>1, <1>2
<1>4. ASSUME NEW k \in DOMAIN r, k # 1 PROVE r[k] \in ToSet(Tail(r))
  <2>1. k - 1 \in DOMAIN Tail(r) /\ Tail(r)[k - 1] = r[k]
    BY <1>1, <1>2, <1>3, <1>4
  <2> QED
    BY <2>1 DEF ToSet
<1>5. ASSUME NEW k \in DOMAIN Tail(r) PROVE Tail(r)[k] \in ToSet(r)
  <2>1. k + 1 \in DOMAIN r /\ Tail(r)[k] = r[k + 1]
    BY <1>1, <1>2, <1>3
  <2> QED
    BY <2>1 DEF ToSet
<1>6. ToSet(Tail(r)) \subseteq ToSet(r) /\ ToSet(r) \subseteq {Head(r)} \cup ToSet(Tail(r))
  BY <1>1, <1>4, <1>5 DEF ToSet
<1>7. Head(r) \in ToSet(r)
  BY <1>1 DEF ToSet
<1> QED
  BY <1>1, <1>2, <1>6, <1>7

LEMMA WaitingParts ==
  ASSUME NEW p \in Waiting
  PROVE  p.stab \in Stab /\ p.heap \in Heap /\ p.rest \in Seq(Var) /\ Len(p.rest) \in Nat /\ Len(p.heap) \in Nat
  BY DEF Waiting, Stab, Heap

\* One element is pushed unless the heap has it.
LEMMA PushNextWorks ==
  ASSUME NEW p \in Waiting, p.rest # <<>>
  PROVE  /\ PushNext(p) \in Waiting /\ Len(PushNext(p).rest) < Len(p.rest)
         /\ PushNext(p).stab = p.stab
         /\ ToSet(PushNext(p).heap) \cup ToSet(PushNext(p).rest) = ToSet(p.heap) \cup ToSet(p.rest)
         /\ Distinct(p.heap) => Distinct(PushNext(p).heap)
         /\ Ordered(p.stab, p.heap) => Ordered(p.stab, PushNext(p).heap)
<1> DEFINE v == Head(p.rest)
<1> DEFINE g == IF v \in ToSet(p.heap) THEN p.heap ELSE PushBack(p.stab, p.heap, v)
<1>1. p.stab \in Stab /\ p.heap \in Heap /\ p.rest \in Seq(Var)
  BY WaitingParts
<1>2. /\ v \in Var /\ Tail(p.rest) \in Seq(Var) /\ Len(p.rest) \in Nat
      /\ Len(Tail(p.rest)) < Len(p.rest) /\ ToSet(p.rest) = {v} \cup ToSet(Tail(p.rest))
  BY <1>1, HeadTail
<1> HIDE DEF v
<1>3. /\ g \in Heap /\ ToSet(g) = ToSet(p.heap) \cup {v}
      /\ Distinct(p.heap) => Distinct(g)
      /\ Ordered(p.stab, p.heap) => Ordered(p.stab, g)
  BY <1>1, <1>2, PushBackWorks
<1> HIDE DEF g
<1>4. PushNext(p) = [stab |-> p.stab, rest |-> Tail(p.rest), heap |-> g]
  BY DEF PushNext, g, v
<1>5. PushNext(p) \in Waiting
  BY <1>1, <1>2, <1>3, <1>4 DEF Waiting, Stab, Heap
<1> QED
  BY <1>2, <1>3, <1>4, <1>5

\* pushed is the function its loop computes.
LEMMA PushedUnfolds ==
  \A p \in Waiting : pushed[p] = IF p.rest = <<>> THEN p.heap ELSE pushed[PushNext(p)]
<1> DEFINE rank == [p \in Waiting |-> Len(p.rest)]
<1> DEFINE step == [p \in Waiting |-> IF p.rest = <<>> THEN p ELSE PushNext(p)]
<1> DEFINE stop == {p \in Waiting : p.rest = <<>>}
<1> DEFINE val == [p \in Waiting |-> p.heap]
<1>1. rank \in [Waiting -> Nat] /\ val \in [Waiting -> Heap]
  BY WaitingParts
<1>2. \A p \in Waiting : p.rest # <<>> => PushNext(p) \in Waiting /\ Len(PushNext(p).rest) < Len(p.rest)
  BY PushNextWorks
<1>3. step \in [Waiting -> Waiting]
  BY <1>2
<1>4. \A p \in Waiting \ stop : rank[step[p]] < rank[p]
  BY <1>2
<1>5. \E f \in [Waiting -> Heap] : Recursive(f, Waiting, step, stop, val)
  <2> HIDE DEF rank, step, stop, val
  <2> QED
    BY <1>1, <1>3, <1>4, TailRecursion
<1>6. PICK f \in [Waiting -> Heap] : Recursive(f, Waiting, step, stop, val)
  BY <1>5
<1>7. \A p \in Waiting : f[p] = IF p.rest = <<>> THEN p.heap ELSE f[PushNext(p)]
  BY <1>6 DEF Recursive
<1>8. f = [p \in Waiting |-> IF p.rest = <<>> THEN p.heap ELSE f[PushNext(p)]]
  BY <1>7
<1>9. pushed = [p \in Waiting |-> IF p.rest = <<>> THEN p.heap ELSE pushed[PushNext(p)]]
  BY <1>8 DEF pushed
<1> QED
  BY <1>9

\* The heap afterwards has what it had and what was waiting.
LEMMA PushedWorks ==
  ASSUME NEW p \in Waiting
  PROVE  /\ pushed[p] \in Heap /\ ToSet(pushed[p]) = ToSet(p.heap) \cup ToSet(p.rest)
         /\ Distinct(p.heap) => Distinct(pushed[p])
         /\ Ordered(p.stab, p.heap) => Ordered(p.stab, pushed[p])
<1> DEFINE Fine(q) == /\ pushed[q] \in Heap /\ ToSet(pushed[q]) = ToSet(q.heap) \cup ToSet(q.rest)
                      /\ Distinct(q.heap) => Distinct(pushed[q])
                      /\ Ordered(q.stab, q.heap) => Ordered(q.stab, pushed[q])
<1> DEFINE Good == {q \in Waiting : Fine(q)}
<1> DEFINE rank == [q \in Waiting |-> Len(q.rest)]
<1>1. ASSUME NEW q \in Waiting, q.rest = <<>> PROVE Fine(q)
  <2>1. pushed[q] = q.heap /\ ToSet(q.rest) = {} /\ q.heap \in Heap
    BY <1>1, PushedUnfolds, WaitingParts DEF ToSet
  <2> QED
    BY <2>1
<1>2. ASSUME NEW q \in Waiting, q.rest # <<>>, Fine(PushNext(q)) PROVE Fine(q)
  <2>1. pushed[q] = pushed[PushNext(q)]
    BY <1>2, PushedUnfolds
  <2>2. /\ PushNext(q).stab = q.stab
        /\ ToSet(PushNext(q).heap) \cup ToSet(PushNext(q).rest) = ToSet(q.heap) \cup ToSet(q.rest)
        /\ Distinct(q.heap) => Distinct(PushNext(q).heap)
        /\ Ordered(q.stab, q.heap) => Ordered(q.stab, PushNext(q).heap)
    BY <1>2, PushNextWorks
  <2> QED
    BY <1>2, <2>1, <2>2
<1> HIDE DEF Fine
<1>3. ASSUME NEW q \in Waiting, \A e \in Waiting : rank[e] < rank[q] => e \in Good
      PROVE  q \in Good
  <2>1. ASSUME q.rest # <<>> PROVE PushNext(q) \in Good
    BY <1>3, <2>1, PushNextWorks
  <2> QED
    BY <1>1, <1>2, <2>1
<1>4. Good = Waiting
  <2>1. Good \in SUBSET Waiting /\ rank \in [Waiting -> Nat]
    BY WaitingParts
  <2> HIDE DEF Good, rank
  <2> QED
    BY <1>3, <2>1, RankInduction
<1> QED
  BY <1>4 DEF Fine

LEMMA PushAllWorks ==
  ASSUME NEW s \in Stab, NEW h \in Heap, NEW vs \in Seq(Var)
  PROVE  /\ PushAll(s, h, vs) \in Heap /\ ToSet(PushAll(s, h, vs)) = ToSet(h) \cup ToSet(vs)
         /\ Distinct(h) => Distinct(PushAll(s, h, vs))
         /\ Ordered(s, h) => Ordered(s, PushAll(s, h, vs))
<1> DEFINE p == [stab |-> s, heap |-> h, rest |-> vs]
<1>1. p \in Waiting /\ p.stab = s /\ p.heap = h /\ p.rest = vs
  BY DEF Waiting, Stab, Heap
<1> HIDE DEF p
<1>2. PushAll(s, h, vs) = pushed[p]
  BY DEF PushAll, p
<1> QED
  BY <1>1, <1>2, PushedWorks
LEMMA PushAllFresh ==
  ASSUME NEW s \in Stab, NEW vs \in Seq(Var)
  PROVE  /\ PushAll(s, <<>>, vs) \in Heap /\ ToSet(PushAll(s, <<>>, vs)) = ToSet(vs)
         /\ Distinct(PushAll(s, <<>>, vs)) /\ Ordered(s, PushAll(s, <<>>, vs))
<1> DEFINE h == <<>>
<1>1. h \in Heap /\ ToSet(h) = {} /\ Distinct(h) /\ Ordered(s, h)
  BY DEF Heap, ToSet, Distinct, Ordered
<1> HIDE DEF h
<1>2. /\ PushAll(s, h, vs) \in Heap /\ ToSet(PushAll(s, h, vs)) = ToSet(h) \cup ToSet(vs)
      /\ Distinct(PushAll(s, h, vs)) /\ Ordered(s, PushAll(s, h, vs))
  BY <1>1, PushAllWorks, ZenonT(60)
<1>3. ToSet(h) \cup ToSet(vs) = ToSet(vs)
  BY <1>1
<1> QED
  BY <1>2, <1>3 DEF h

-----------------------------------------------------------------------------
LEMMA AppendParts ==
  ASSUME NEW r \in Seq(Var), NEW v \in Var
  PROVE  /\ Append(r, v) \in Seq(Var) /\ ToSet(Append(r, v)) = ToSet(r) \cup {v}
         /\ Distinct(r) /\ v \notin ToSet(r) => Distinct(Append(r, v))
<1> DEFINE g == Append(r, v)
<1> DEFINE n == Len(r) + 1
<1>1. Len(r) \in Nat /\ DOMAIN r = 1 .. Len(r)
  OBVIOUS
<1>2. /\ g \in Seq(Var) /\ DOMAIN g = 1 .. n /\ g[n] = v /\ \A k \in DOMAIN r : g[k] = r[k]
  BY <1>1
<1>3. DOMAIN g = DOMAIN r \cup {n} /\ n \notin DOMAIN r
  BY <1>1, <1>2
<1> HIDE DEF n, g
<1>4. \A x : x \in ToSet(g) <=> x \in ToSet(r) \cup {v}
  BY <1>2, <1>3 DEF ToSet
<1>5. Distinct(r) /\ v \notin ToSet(r) => Distinct(g)
  <2>1. v \notin ToSet(r) => \A k \in DOMAIN r : r[k] # v
    BY DEF ToSet
  <2> QED
    BY <1>2, <1>3, <2>1 DEF Distinct
<1> QED
  BY <1>2, <1>4, <1>5 DEF g

\* What is on the heap and what has been popped: nothing is lost or twice there.
Apart(p) == Distinct(p.heap) /\ Distinct(p.rest) /\ ToSet(p.heap) \cap ToSet(p.rest) = {}
Elements(p) == ToSet(p.heap) \cup ToSet(p.rest)

\* The first element goes from the heap to the end of those popped.
LEMMA PopNextWorks ==
  ASSUME NEW p \in Waiting, p.heap # <<>>
  PROVE  /\ PopNext(p) \in Waiting /\ Len(PopNext(p).heap) < Len(p.heap)
         /\ Apart(p) => Apart(PopNext(p)) /\ Elements(PopNext(p)) = Elements(p)
<1> DEFINE v == Head(p.heap)
<1> DEFINE g == PopFront(p.stab, p.heap)
<1> DEFINE r == Append(p.rest, v)
<1>1. p.stab \in Stab /\ p.heap \in Heap /\ p.rest \in Seq(Var) /\ Len(p.heap) \in Nat
  BY WaitingParts
<1>2. v \in Var /\ v \in ToSet(p.heap)
  <2>1. v \in Var /\ ToSet(p.heap) = {v} \cup ToSet(Tail(p.heap))
    BY <1>1, HeadTail DEF Heap
  <2> QED
    BY <2>1
<1>3. /\ g \in Heap /\ Len(g) = Len(p.heap) - 1
      /\ Distinct(p.heap) => ToSet(g) = ToSet(p.heap) \ {v} /\ Distinct(g)
  BY <1>1, PopFrontWorks
<1> HIDE DEF v, g
<1>4. /\ r \in Seq(Var) /\ ToSet(r) = ToSet(p.rest) \cup {v}
      /\ Distinct(p.rest) /\ v \notin ToSet(p.rest) => Distinct(r)
  BY <1>1, <1>2, AppendParts
<1> HIDE DEF r
<1>5. PopNext(p) = [stab |-> p.stab, heap |-> g, rest |-> r]
  BY DEF PopNext, g, r, v
<1>6. PopNext(p) \in Waiting
  BY <1>1, <1>3, <1>4, <1>5 DEF Waiting, Stab, Heap
<1>7. PopNext(p).heap = g /\ PopNext(p).rest = r
  BY <1>5
<1>8. ASSUME Apart(p) PROVE Apart(PopNext(p)) /\ Elements(PopNext(p)) = Elements(p)
  BY <1>2, <1>3, <1>4, <1>7, <1>8 DEF Apart, Elements
<1> QED
  BY <1>1, <1>3, <1>6, <1>7, <1>8

\* popped is the function its loop computes.
LEMMA PoppedUnfolds ==
  \A p \in Waiting : popped[p] = IF p.heap = <<>> THEN p.rest ELSE popped[PopNext(p)]
<1> DEFINE rank == [p \in Waiting |-> Len(p.heap)]
<1> DEFINE step == [p \in Waiting |-> IF p.heap = <<>> THEN p ELSE PopNext(p)]
<1> DEFINE stop == {p \in Waiting : p.heap = <<>>}
<1> DEFINE val == [p \in Waiting |-> p.rest]
<1>1. rank \in [Waiting -> Nat] /\ val \in [Waiting -> Heap]
  BY WaitingParts DEF Heap
<1>2. \A p \in Waiting : p.heap # <<>> => PopNext(p) \in Waiting /\ Len(PopNext(p).heap) < Len(p.heap)
  BY PopNextWorks
<1>3. step \in [Waiting -> Waiting]
  BY <1>2
<1>4. \A p \in Waiting \ stop : rank[step[p]] < rank[p]
  BY <1>2
<1>5. \E f \in [Waiting -> Heap] : Recursive(f, Waiting, step, stop, val)
  <2> HIDE DEF rank, step, stop, val
  <2> QED
    BY <1>1, <1>3, <1>4, TailRecursion
<1>6. PICK f \in [Waiting -> Heap] : Recursive(f, Waiting, step, stop, val)
  BY <1>5
<1>7. \A p \in Waiting : f[p] = IF p.heap = <<>> THEN p.rest ELSE f[PopNext(p)]
  BY <1>6 DEF Recursive
<1>8. f = [p \in Waiting |-> IF p.heap = <<>> THEN p.rest ELSE f[PopNext(p)]]
  BY <1>7
<1>9. popped = [p \in Waiting |-> IF p.heap = <<>> THEN p.rest ELSE popped[PopNext(p)]]
  BY <1>8 DEF popped
<1> QED
  BY <1>9

LEMMA PoppedWorks ==
  ASSUME NEW p \in Waiting, Apart(p)
  PROVE  popped[p] \in Seq(Var) /\ Distinct(popped[p]) /\ ToSet(popped[p]) = Elements(p)
<1> DEFINE Fine(q) ==
      Apart(q) => popped[q] \in Seq(Var) /\ Distinct(popped[q]) /\ ToSet(popped[q]) = Elements(q)
<1> DEFINE Good == {q \in Waiting : Fine(q)}
<1> DEFINE rank == [q \in Waiting |-> Len(q.heap)]
<1>1. ASSUME NEW q \in Waiting, q.heap = <<>> PROVE Fine(q)
  <2>1. popped[q] = q.rest /\ ToSet(q.heap) = {} /\ q.rest \in Seq(Var)
    BY <1>1, PoppedUnfolds, WaitingParts DEF ToSet
  <2> QED
    BY <2>1 DEF Apart, Elements
<1>2. ASSUME NEW q \in Waiting, q.heap # <<>>, Fine(PopNext(q)) PROVE Fine(q)
  <2>1. popped[q] = popped[PopNext(q)]
    BY <1>2, PoppedUnfolds
  <2>2. Apart(q) => Apart(PopNext(q)) /\ Elements(PopNext(q)) = Elements(q)
    BY <1>2, PopNextWorks
  <2> QED
    BY <1>2, <2>1, <2>2
<1> HIDE DEF Fine
<1>3. ASSUME NEW q \in Waiting, \A e \in Waiting : rank[e] < rank[q] => e \in Good
      PROVE  q \in Good
  <2>1. ASSUME q.heap # <<>> PROVE PopNext(q) \in Good
    BY <1>3, <2>1, PopNextWorks
  <2> QED
    BY <1>1, <1>2, <2>1
<1>4. Good = Waiting
  <2>1. Good \in SUBSET Waiting /\ rank \in [Waiting -> Nat]
    BY WaitingParts
  <2> HIDE DEF Good, rank
  <2> QED
    BY <1>3, <2>1, RankInduction
<1> QED
  BY <1>4 DEF Fine

LEMMA PopAllWorks ==
  ASSUME NEW s \in Stab, NEW h \in Heap, Distinct(h)
  PROVE  PopAll(s, h) \in Seq(Var) /\ Distinct(PopAll(s, h)) /\ ToSet(PopAll(s, h)) = ToSet(h)
<1> DEFINE p == [stab |-> s, heap |-> h, rest |-> <<>>]
<1>1. p \in Waiting /\ p.heap = h /\ p.rest = <<>>
  BY DEF Waiting, Stab, Heap
<1> HIDE DEF p
<1>2. Apart(p) /\ Elements(p) = ToSet(h)
  BY <1>1 DEF Apart, Elements, Distinct, ToSet
<1>3. PopAll(s, h) = popped[p]
  BY DEF PopAll, p
<1> QED
  BY <1>1, <1>2, <1>3, PoppedWorks

-----------------------------------------------------------------------------
\* front: in a heap that is in order the first element has the highest score.
LEMMA FrontIsBest ==
  ASSUME NEW s \in Stab, NEW h \in Heap, Ordered(s, h), NEW v \in ToSet(h)
  PROVE  h # <<>> /\ Head(h) \in Var /\ Head(h) \in ToSet(h) /\ s[v] <= s[Head(h)]
<1>1. /\ Len(h) \in Nat /\ DOMAIN h = 1 .. Len(h)
      /\ \A k \in DOMAIN h : h[k] \in Var /\ s[h[k]] \in Nat
  BY HeapParts
<1>2. PICK m \in DOMAIN h : h[m] = v
  BY DEF ToSet
<1>3. 1 \in DOMAIN h /\ h # <<>> /\ Head(h) = h[1]
  BY <1>1, <1>2 DEF Heap
<1> DEFINE rank == [k \in DOMAIN h |-> k]
<1> DEFINE Good == {k \in DOMAIN h : s[h[k]] <= s[h[1]]}
<1>4. rank \in [DOMAIN h -> Nat] /\ Good \in SUBSET DOMAIN h
  BY <1>1
<1>5. ASSUME NEW k \in DOMAIN h, \A e \in DOMAIN h : rank[e] < rank[k] => e \in Good
      PROVE  s[h[k]] <= s[h[1]]
  <2>1. CASE k = 1
    BY <1>1, <2>1
  <2>2. CASE k # 1
    <3>1. k \in 2 .. Len(h) /\ k \div 2 \in DOMAIN h /\ k \div 2 < k
      BY <1>1, <2>2
    <3>2. k \div 2 \in Good
      BY <1>5, <3>1
    <3>3. s[h[k]] <= s[h[k \div 2]]
      BY <3>1 DEF Ordered
    <3> QED
      BY <1>1, <1>3, <3>1, <3>2, <3>3
  <2> QED
    BY <2>1, <2>2
<1>6. Good = DOMAIN h
  <2>1. \A k \in DOMAIN h : (\A e \in DOMAIN h : rank[e] < rank[k] => e \in Good) => k \in Good
    BY <1>5
  <2> HIDE DEF Good, rank
  <2> QED
    BY <1>4, <2>1, RankInduction
<1>7. s[h[m]] <= s[h[1]]
  BY <1>6
<1> QED
  BY <1>1, <1>2, <1>3, <1>7 DEF ToSet
-----------------------------------------------------------------------------
\* Division rounds down and keeps the order.
LEMMA DivFacts ==
  ASSUME NEW a \in Nat, NEW d \in Nat \ {0}
  PROVE  a \div d \in Nat /\ d * (a \div d) <= a /\ a < d * (a \div d) + d
<1>1. a \in Nat /\ d \in Nat /\ d > 0
  OBVIOUS
<1>2. a \div d \in Int
  BY ONLY <1>1
<1>3. a \div d >= 0
  BY ONLY <1>1
<1>4. d * (a \div d) <= a
  BY ONLY <1>1
<1>5. a < d * (a \div d) + d
  BY ONLY <1>1
<1> QED
  BY <1>2, <1>3, <1>4, <1>5

LEMMA DivKeepsOrder ==
  ASSUME NEW a \in Nat, NEW b \in Nat, NEW d \in Nat \ {0}, a <= b
  PROVE  a \div d <= b \div d
<1> DEFINE q == a \div d
<1> DEFINE r == b \div d
<1>1. q \in Nat /\ r \in Nat /\ d * q <= a /\ b < d * r + d
  BY DivFacts
<1> HIDE DEF q, r
<1>2. SUFFICES ASSUME q >= r + 1 PROVE FALSE
  BY <1>1 DEF q, r
<1>3. d * q >= d * (r + 1)
  BY <1>1, <1>2
<1>4. d * (r + 1) = d * r + d
  BY <1>1
<1> QED
  BY <1>1, <1>3, <1>4

\* Both halves of a trail.
LEMMA SplitAt ==
  ASSUME NEW t \in Seq(Var), NEW n \in 0 .. Len(t)
  PROVE  /\ SubSeq(t, 1, n) \in Seq(Var) /\ Len(SubSeq(t, 1, n)) = n
         /\ SubSeq(t, n + 1, Len(t)) \in Seq(Var)
         /\ ToSet(SubSeq(t, 1, n)) \cup ToSet(SubSeq(t, n + 1, Len(t))) = ToSet(t)
<1> DEFINE a == SubSeq(t, 1, n)
<1> DEFINE b == SubSeq(t, n + 1, Len(t))
<1>1. /\ Len(t) \in Nat /\ DOMAIN t = 1 .. Len(t) /\ n \in Nat
  OBVIOUS
<1>2. a \in Seq(Var) /\ Len(a) = n /\ DOMAIN a = 1 .. n /\ \A k \in 1 .. n : a[k] = t[k]
  BY <1>1
<1>3. /\ b \in Seq(Var) /\ Len(b) = Len(t) - n /\ DOMAIN b = 1 .. Len(t) - n
      /\ \A k \in 1 .. Len(t) - n : b[k] = t[n + k]
  <2> DEFINE m == n + 1
  <2> DEFINE l == Len(t)
  <2>1. m \in Int /\ l \in Int /\ \A k \in m .. l : t[k] \in Var
    BY <1>1
  <2> HIDE DEF m, l
  <2>2. /\ SubSeq(t, m, l) \in Seq(Var) /\ Len(SubSeq(t, m, l)) = IF m <= l THEN l - m + 1 ELSE 0
        /\ \A k \in 1 .. l - m + 1 : SubSeq(t, m, l)[k] = t[m + k - 1]
    BY ONLY <2>1, SubSeqProperties, SMTT(60)
  <2> DEFINE c == SubSeq(t, m, l)
  <2> HIDE DEF c
  <2>3. c \in Seq(Var) /\ Len(c) = l - n /\ DOMAIN c = 1 .. l - n
    <3>1. l \in Nat /\ n \in Nat /\ n <= l /\ m = n + 1
      BY <1>1 DEF m, l
    <3>2. (IF m <= l THEN l - m + 1 ELSE 0) = l - n
      BY <3>1
    <3>3. c \in Seq(Var) /\ Len(c) = l - n
      BY <2>2, <3>2 DEF c
    <3> QED
      BY <3>3
  <2>4. \A k \in 1 .. l - n : c[k] = t[n + k]
    <3>1. \A k \in 1 .. l - n : m + k - 1 = n + k /\ k \in 1 .. l - m + 1
      BY <1>1 DEF m, l
    <3> QED
      BY <2>2, <3>1, SMTT(60) DEF c
  <2> QED
    BY <2>3, <2>4 DEF m, l, c
<1> HIDE DEF a, b
<1>4. \A k \in DOMAIN a : a[k] \in ToSet(t)
  BY <1>1, <1>2 DEF ToSet
<1>5. \A k \in DOMAIN b : b[k] \in ToSet(t)
  <2> SUFFICES ASSUME NEW k \in DOMAIN b PROVE b[k] \in ToSet(t)
    OBVIOUS
  <2>1. n + k \in DOMAIN t /\ b[k] = t[n + k]
    BY <1>1, <1>3
  <2> QED
    BY <2>1 DEF ToSet
<1>6. ASSUME NEW k \in DOMAIN t PROVE t[k] \in ToSet(a) \cup ToSet(b)
  <2>1. CASE k <= n
    <3>1. k \in DOMAIN a /\ a[k] = t[k]
      BY <1>1, <1>2, <2>1
    <3> QED
      BY <3>1 DEF ToSet
  <2>2. CASE k > n
    <3>1. k - n \in DOMAIN b /\ b[k - n] = t[k]
      BY <1>1, <1>3, <2>2
    <3> QED
      BY <3>1 DEF ToSet
  <2> QED
    BY <1>1, <2>1, <2>2
<1>7. ToSet(a) \cup ToSet(b) = ToSet(t)
  BY <1>4, <1>5, <1>6, SMTT(60) DEF ToSet
<1> QED
  BY <1>2, <1>3, <1>7 DEF a, b

\* A sequence without repetition of some of 1 .. m has at most m elements, and
\* has them all if it is that long.
LEMMA DistinctLength ==
  ASSUME NEW m \in Nat, NEW h \in Seq(1 .. m), Distinct(h)
  PROVE  Len(h) \in Nat /\ Len(h) <= m /\ (Len(h) = m => ToSet(h) = 1 .. m)
<1>1. Len(h) \in Nat /\ DOMAIN h = 1 .. Len(h) /\ h \in [1 .. Len(h) -> 1 .. m]
  OBVIOUS
<1>2. h \in Injection(1 .. Len(h), 1 .. m)
  BY <1>1 DEF Distinct, Injection, IsInjective
<1>3. IsFiniteSet(1 .. m) /\ Cardinality(1 .. m) = m
  BY FS_Interval
<1>4. Cardinality(1 .. Len(h)) = Len(h)
  <2>1. Cardinality(1 .. Len(h)) = IF 1 > Len(h) THEN 0 ELSE Len(h) - 1 + 1
    <3>1. 1 \in Int /\ Len(h) \in Int
      BY <1>1
    <3> QED
      BY ONLY <3>1, FS_Interval
  <2> QED
    BY <1>1, <2>1
<1>5. /\ Cardinality(1 .. Len(h)) <= Cardinality(1 .. m)
      /\ Cardinality(1 .. Len(h)) = Cardinality(1 .. m) <=> h \in Surjection(1 .. Len(h), 1 .. m)
  BY <1>2, <1>3, FS_Injection
<1>6. h \in Surjection(1 .. Len(h), 1 .. m) => ToSet(h) = 1 .. m
  BY <1>1 DEF Surjection, ToSet
<1> QED
  BY <1>1, <1>3, <1>4, <1>5, <1>6
-----------------------------------------------------------------------------
\* The inductive invariant. The heap is a heap without repetitions, of variables
\* that have been added; the others have no score yet.
HeapOK ==
  /\ max_var \in 0 .. MaxVar
  /\ scores \in Heap /\ Distinct(scores) /\ ToSet(scores) \subseteq Added
  /\ stab \in [Var -> 0 .. Limit] /\ score_inc \in 1 .. Limit
  /\ \A v \in Var \ Added : stab[v] = 0
  /\ Ordered(stab, scores)

\* A level starts where the trail was when it was opened.
TrailOK ==
  /\ trail \in Seq(Var) /\ Assigned \subseteq Added
  /\ control \in Seq([decision : Var, trail : Nat])
  /\ \A n \in DOMAIN control : control[n].decision \in Added /\ control[n].trail <= Len(trail)
  /\ \A m, n \in DOMAIN control : m <= n => control[m].trail <= control[n].trail

\* A variable that has been popped is assigned.
NoneMissing == Added \ Assigned \subseteq ToSet(scores)

\* Variables are bumped before the program goes on.
StepsOK ==
  /\ stable \in BOOLEAN /\ pc \in {"search", "decide", "restart", "bump", "jump"}
  /\ analyzed \subseteq Assigned /\ (pc # "bump" => analyzed = {})

HeapInvariant == HeapOK /\ TrailOK /\ NoneMissing /\ StepsOK

LEMMA InvariantImplies ==
  ASSUME HeapInvariant
  PROVE  HeapKept
<1>1. /\ Len(scores) \in Nat /\ DOMAIN scores = 1 .. Len(scores)
      /\ \A i \in DOMAIN scores : scores[i] \in ToSet(scores)
  BY DEF HeapInvariant, HeapOK, Heap, ToSet
<1>2. \A i, j \in DOMAIN scores : scores[i] \in Added /\ (scores[i] = scores[j] => i = j)
  BY <1>1 DEF HeapInvariant, HeapOK, Distinct
<1>3. TypeOK
  BY <1>2 DEF HeapInvariant, HeapOK, TrailOK, StepsOK, TypeOK
<1> QED
  BY <1>3 DEF HeapKept, HeapInvariant, HeapOK, NoneMissing, Ordered

LEMMA InvariantHolds ==
  ASSUME ScoresAssumption, Init
  PROVE  HeapInvariant
<1>1. Added = {} /\ ToSet(scores) = {} /\ Assigned = {}
  BY DEF Init, Added, Assigned, ToSet
<1>2. One \in 1 .. Limit /\ 0 \in 0 .. Limit /\ MaxVar \in Nat
  BY DEF ScoresAssumption
<1>3. stab \in [Var -> 0 .. Limit] /\ \A v \in Var : stab[v] = 0
  BY <1>2 DEF Init
<1>4. scores \in Heap /\ Distinct(scores) /\ Ordered(stab, scores)
  BY DEF Init, Heap, Distinct, Ordered
<1>5. HeapOK
  BY <1>1, <1>2, <1>3, <1>4 DEF Init, HeapOK
<1>6. TrailOK
  BY <1>1 DEF Init, TrailOK
<1> QED
  BY <1>1, <1>5, <1>6 DEF Init, HeapInvariant, NoneMissing, StepsOK

\* What HeapOK says of the scores as numbers.
LEMMA Numbers ==
  ASSUME ScoresAssumption, HeapOK
  PROVE  /\ stab \in Stab /\ Added \subseteq Var /\ Limit \in Nat /\ MaxVar \in Nat
         /\ max_var \in Nat /\ score_inc \in Nat /\ score_inc >= 1 /\ One \in Nat /\ One >= 1 /\ Factor \in Nat
         /\ One <= Limit /\ MaxVar <= Limit
<1>1. Limit \in Nat /\ MaxVar \in Nat
  BY DEF HeapOK, ScoresAssumption
<1> QED
  BY <1>1 DEF HeapOK, ScoresAssumption, Stab, Added, Var
-----------------------------------------------------------------------------
\* rescale_variable_scores: the divider is the largest of the scores.
LEMMA DividerIs ==
  ASSUME ScoresAssumption, HeapOK
  PROVE  /\ Divider \in Nat \ {0} /\ score_inc <= Divider
         /\ \A v \in Var : stab[v] <= Divider
<1> DEFINE D == {score_inc} \cup {stab[v] : v \in Added}
<1> DEFINE T == {x \in Nat : \E d \in D : x = Limit - d}
<1>1. /\ Added \subseteq Var /\ Limit \in Nat /\ score_inc \in 1 .. Limit
      /\ \A v \in Var : stab[v] \in 0 .. Limit
  BY Numbers DEF HeapOK
<1>2. \A d \in D : d \in 0 .. Limit
  BY <1>1
<1>3. T \in SUBSET Nat /\ T # {}
  <2>1. Limit - score_inc \in T
    BY <1>1
  <2> QED
    BY <2>1
<1>4. PICK x \in T : \A y \in T : x <= y
  <2> HIDE DEF T
  <2> QED
    BY <1>3, LeastOf
<1>5. PICK d \in D : x = Limit - d
  BY <1>4
<1>6. \A e \in D : d >= e
  <2> SUFFICES ASSUME NEW e \in D PROVE d >= e
    OBVIOUS
  <2>1. Limit - e \in T /\ d \in Nat /\ e \in Nat
    BY <1>1, <1>2
  <2>2. x <= Limit - e
    BY <1>4, <2>1
  <2> QED
    BY <1>1, <1>5, <2>1, <2>2
<1>7. \E c \in D : \A v \in Added : c >= stab[v] /\ c >= score_inc
  BY <1>6
<1>8. Divider \in D /\ \A v \in Added : Divider >= stab[v] /\ Divider >= score_inc
  BY <1>7 DEF Divider
<1>9. Divider \in Nat /\ Divider >= score_inc
  <2>1. CASE Added = {}
    BY <1>1, <1>8, <2>1
  <2>2. CASE Added # {}
    BY <1>1, <1>2, <1>8, <2>2
  <2> QED
    BY <2>1, <2>2
<1>10. \A v \in Var \ Added : stab[v] = 0
  BY DEF HeapOK
<1> HIDE DEF D, T
<1> QED
  BY <1>1, <1>8, <1>9, <1>10

\* Rescaled scores are in the same order, but for new ties, and none is above One.
LEMMA ScaledIs ==
  ASSUME ScoresAssumption, HeapOK, NEW x \in Nat, x <= Divider
  PROVE  /\ Scaled(x) \in 0 .. Limit /\ Scaled(0) = 0
         /\ \A y \in Nat : y <= x => Scaled(y) <= Scaled(x)
<1> DEFINE d == Divider
<1>1. d \in Nat \ {0} /\ One \in Nat /\ One <= Limit /\ Limit \in Nat
  BY DividerIs, Numbers
<1> HIDE DEF d
<1>2. Scaled(x) = (x * One) \div d /\ Scaled(0) = (0 * One) \div d
  BY DEF Scaled, d
<1>3. ASSUME NEW y \in Nat, NEW z \in Nat, y <= z
      PROVE  (y * One) \div d <= (z * One) \div d
  <2>1. y * One \in Nat /\ z * One \in Nat /\ y * One <= z * One
    BY <1>1, <1>3
  <2> QED
    BY ONLY <1>1, <2>1, DivKeepsOrder
<1>4. (d * One) \div d = One
  <2> DEFINE q == (d * One) \div d
  <2>1. d * One \in Nat
    BY <1>1
  <2>2. q \in Nat /\ d * q <= d * One /\ d * One < d * q + d
    BY ONLY <1>1, <2>1, DivFacts
  <2> HIDE DEF q
  <2>3. q <= One
    <3> SUFFICES ASSUME q >= One + 1 PROVE FALSE
      BY <1>1, <2>2
    <3>1. d * q >= d * (One + 1) /\ d * (One + 1) = d * One + d
      BY <1>1, <2>2
    <3> QED
      BY <1>1, <2>1, <2>2, <3>1
  <2>4. One <= q
    <3> SUFFICES ASSUME q + 1 <= One PROVE FALSE
      BY <1>1, <2>2
    <3>1. d * One >= d * (q + 1) /\ d * (q + 1) = d * q + d
      BY <1>1, <2>2
    <3> QED
      BY <1>1, <2>1, <2>2, <3>1
  <2> QED
    BY <1>1, <2>2, <2>3, <2>4 DEF q
<1>5. (x * One) \div d \in Nat /\ (x * One) \div d <= One
  <2>1. x * One \in Nat /\ x <= d
    BY <1>1 DEF d
  <2>2. (x * One) \div d \in Nat
    BY ONLY <1>1, <2>1, DivFacts
  <2>3. (x * One) \div d <= (d * One) \div d
    BY <1>1, <1>3, <2>1
  <2> QED
    BY <1>1, <1>4, <2>2, <2>3
<1>6. Scaled(0) = 0
  <2>1. 0 * One = 0
    BY <1>1
  <2>2. 0 \div d \in Nat /\ d * (0 \div d) <= 0
    <3>1. 0 \in Nat
      OBVIOUS
    <3> QED
      BY ONLY <1>1, <3>1, DivFacts
  <2>3. 0 \div d = 0
    <3> DEFINE q == 0 \div d
    <3>1. q \in Nat /\ d * q <= 0
      BY <2>2
    <3> HIDE DEF q
    <3>2. q = 0
      BY <1>1, <3>1
    <3> QED
      BY <3>2 DEF q
  <2> QED
    BY <1>2, <2>1, <2>3
<1>7. \A y \in Nat : y <= x => Scaled(y) <= Scaled(x)
  BY <1>3 DEF Scaled, d
<1> QED
  BY <1>1, <1>2, <1>5, <1>6, <1>7

\* Rounding keeps the heap in order.
LEMMA RescaleKeeps ==
  ASSUME ScoresAssumption, HeapOK, Rescale, UNCHANGED <<max_var, scores>>
  PROVE  HeapOK'
<1> USE ScoresAssumption, HeapOK
<1>1. /\ stab \in Stab /\ Added \subseteq Var /\ Limit \in Nat /\ score_inc \in Nat
      /\ One <= Limit /\ One >= 1 /\ One \in Nat
  BY Numbers
<1>2. /\ Divider \in Nat \ {0} /\ score_inc <= Divider
      /\ \A v \in Var : stab[v] \in Nat /\ stab[v] <= Divider
  BY <1>1, DividerIs DEF Stab
<1>3. \A v \in Var : stab'[v] = Scaled(stab[v])
  BY DEF Rescale
<1>4. stab' \in [Var -> 0 .. Limit]
  <2>1. \A v \in Var : Scaled(stab[v]) \in 0 .. Limit
    BY <1>2, ScaledIs
  <2> QED
    BY <2>1 DEF Rescale
<1>5. score_inc' \in 1 .. Limit
  <2>1. Scaled(score_inc) \in 0 .. Limit
    BY <1>1, <1>2, ScaledIs
  <2> QED
    BY <1>1, <2>1 DEF Rescale, ScaledInc
<1>6. \A v \in Var \ Added : stab'[v] = 0
  BY <1>2, <1>3, ScaledIs DEF HeapOK
<1>7. Ordered(stab', scores)
  <2> SUFFICES ASSUME NEW i \in 2 .. Len(scores) PROVE stab'[scores[i]] <= stab'[scores[i \div 2]]
    BY DEF Ordered
  <2>1. /\ scores \in Heap /\ Ordered(stab, scores)
    BY DEF HeapOK
  <2>2. /\ Len(scores) \in Nat /\ DOMAIN scores = 1 .. Len(scores)
        /\ \A k \in DOMAIN scores : scores[k] \in Var
    BY <1>1, <2>1, HeapParts
  <2>3. i \in DOMAIN scores /\ i \div 2 \in DOMAIN scores
    BY <2>2
  <2>4. scores[i] \in Var /\ scores[i \div 2] \in Var /\ stab[scores[i]] <= stab[scores[i \div 2]]
    BY <2>1, <2>2, <2>3 DEF Ordered
  <2> QED
    BY <1>2, <1>3, <2>4, ScaledIs
<1> QED
  BY <1>4, <1>5, <1>6, <1>7 DEF HeapOK, Added
-----------------------------------------------------------------------------
\* What is not changed by a step of the search.
LEMMA TrailStays ==
  ASSUME TrailOK, UNCHANGED <<max_var, search>>
  PROVE  TrailOK' /\ Added' = Added /\ Assigned' = Assigned
<1>1. trail' = trail /\ control' = control /\ max_var' = max_var
  BY DEF search
<1> QED
  BY <1>1 DEF TrailOK, Added, Assigned

Frame == [decision : Var, trail : Nat]

LEMMA ControlParts ==
  ASSUME TrailOK
  PROVE  /\ trail \in Seq(Var) /\ Len(trail) \in Nat
         /\ control \in Seq(Frame) /\ Len(control) \in Nat /\ DOMAIN control = 1 .. Len(control)
         /\ \A n \in DOMAIN control : /\ control[n].decision \in Added
                                      /\ control[n].trail \in 0 .. Len(trail)
         /\ \A m, n \in DOMAIN control : m <= n => control[m].trail <= control[n].trail
<1>1. trail \in Seq(Var) /\ Len(trail) \in Nat
  BY DEF TrailOK
<1>2. control \in Seq(Frame)
  BY DEF TrailOK, Frame
<1>3. Len(control) \in Nat /\ DOMAIN control = 1 .. Len(control) /\ \A n \in DOMAIN control : control[n] \in Frame
  BY <1>2
<1>4. \A n \in DOMAIN control : control[n].trail \in Nat
  BY <1>3 DEF Frame
<1> QED
  BY <1>1, <1>2, <1>3, <1>4 DEF TrailOK

LEMMA HeapStays ==
  ASSUME HeapOK, UNCHANGED <<max_var, heap>>
  PROVE  HeapOK' /\ Added' = Added
<1>1. scores' = scores /\ stab' = stab /\ score_inc' = score_inc /\ max_var' = max_var
  BY DEF heap
<1> QED
  BY <1>1 DEF HeapOK, Added

\* A variable is added: it goes on the heap with the score zero.
LEMMA InitScoresKeeps ==
  ASSUME ScoresAssumption, HeapInvariant, InitScores
  PROVE  HeapInvariant'
<1> DEFINE v == max_var + 1
<1>1. /\ HeapOK /\ TrailOK /\ NoneMissing /\ StepsOK
  BY DEF HeapInvariant
<1>2. /\ stab \in Stab /\ Added \subseteq Var /\ max_var \in Nat /\ MaxVar \in Nat
  BY <1>1, Numbers
<1>3. v \in Var /\ v \notin Added /\ v \in 0 .. MaxVar
  BY <1>2 DEF InitScores, Added, Var
<1>4. scores \in Heap /\ Distinct(scores) /\ ToSet(scores) \subseteq Added /\ Ordered(stab, scores)
  BY <1>1 DEF HeapOK
<1> HIDE DEF v
<1>5. /\ PushBack(stab, scores, v) \in Heap /\ Distinct(PushBack(stab, scores, v))
      /\ ToSet(PushBack(stab, scores, v)) = ToSet(scores) \cup {v}
      /\ Ordered(stab, PushBack(stab, scores, v))
  BY <1>2, <1>3, <1>4, PushBackWorks
<1>6. /\ max_var' = v /\ scores' = PushBack(stab, scores, v) /\ stab' = stab
      /\ score_inc' = score_inc /\ trail' = trail /\ control' = control /\ control = <<>>
      /\ stable' = stable /\ pc' = pc /\ analyzed' = analyzed
  BY DEF InitScores, search, v
<1>7. Added' = Added \cup {v} /\ Assigned' = Assigned
  BY <1>2, <1>3, <1>6 DEF Added, Assigned, v
<1>8. HeapOK'
  BY <1>1, <1>3, <1>4, <1>5, <1>6, <1>7 DEF HeapOK
<1>9. TrailOK'
  BY <1>1, <1>6, <1>7 DEF TrailOK
<1>10. NoneMissing'
  BY <1>1, <1>5, <1>6, <1>7 DEF NoneMissing
<1>11. StepsOK'
  BY <1>1, <1>6, <1>7 DEF StepsOK
<1> QED
  BY <1>8, <1>9, <1>10, <1>11 DEF HeapInvariant

\* A variable that is assigned leaves the heap when it is at its front.
LEMMA PopAssignedKeeps ==
  ASSUME ScoresAssumption, HeapInvariant, PopAssigned
  PROVE  HeapInvariant'
<1>1. /\ HeapOK /\ TrailOK /\ NoneMissing /\ StepsOK
  BY DEF HeapInvariant
<1>2. /\ stab \in Stab /\ scores \in Heap /\ scores # <<>> /\ Distinct(scores) /\ Ordered(stab, scores)
      /\ ToSet(scores) \subseteq Added
  BY <1>1, Numbers DEF HeapOK, PopAssigned
<1>3. /\ PopFront(stab, scores) \in Heap /\ Distinct(PopFront(stab, scores))
      /\ ToSet(PopFront(stab, scores)) = ToSet(scores) \ {Head(scores)}
      /\ Ordered(stab, PopFront(stab, scores))
  BY <1>2, PopFrontWorks
<1>4. /\ scores' = PopFront(stab, scores) /\ stab' = stab /\ score_inc' = score_inc
      /\ max_var' = max_var /\ UNCHANGED search /\ Head(scores) \in Assigned
      /\ stable' = stable /\ pc' = pc /\ analyzed' = analyzed
  BY DEF PopAssigned
<1>5. TrailOK' /\ Added' = Added /\ Assigned' = Assigned
  BY <1>1, <1>4, TrailStays
<1>6. HeapOK'
  BY <1>1, <1>2, <1>3, <1>4, <1>5 DEF HeapOK
<1>7. NoneMissing' /\ StepsOK'
  BY <1>1, <1>3, <1>4, <1>5 DEF NoneMissing, StepsOK
<1> QED
  BY <1>5, <1>6, <1>7 DEF HeapInvariant

\* A variable is assigned, with or without a new level.
LEMMA AssignKeeps ==
  ASSUME ScoresAssumption, HeapInvariant, NEW v \in Added,
         trail' = Append(trail, v),
         control' = control \/ control' = Append(control, [decision |-> v, trail |-> Len(trail)]),
         UNCHANGED <<max_var, stable, heap, analyzed>>,
         pc' = pc \/ (pc' = "search" /\ analyzed = {})
  PROVE  HeapInvariant'
<1>1. /\ HeapOK /\ TrailOK /\ NoneMissing /\ StepsOK
  BY DEF HeapInvariant
<1>2. HeapOK' /\ Added' = Added /\ scores' = scores
  BY <1>1, HeapStays DEF heap
<1>3. v \in Var /\ trail \in Seq(Var) /\ Len(trail) \in Nat
  BY <1>1, Numbers DEF TrailOK
<1>4. Append(trail, v) \in Seq(Var) /\ ToSet(Append(trail, v)) = ToSet(trail) \cup {v}
  BY <1>3, AppendParts
<1>5. Assigned' = Assigned \cup {v} /\ trail' \in Seq(Var)
  BY <1>4 DEF Assigned
<1>6. Len(trail') = Len(trail) + 1
  BY <1>3
<1>7. TrailOK'
  <2>1. CASE control' = control
    <3>1. \A n \in DOMAIN control : control[n].trail <= Len(trail')
      BY <1>1, <1>6, ControlParts
    <3> QED
      BY <1>1, <1>2, <1>5, <2>1, <3>1 DEF TrailOK
  <2>2. CASE control' = Append(control, [decision |-> v, trail |-> Len(trail)])
    <3> DEFINE c == [decision |-> v, trail |-> Len(trail)]
    <3> DEFINE n == Len(control) + 1
    <3>1. c \in Frame /\ c.decision = v /\ c.trail = Len(trail)
      BY <1>3 DEF Frame
    <3> HIDE DEF c
    <3>2. control \in Seq(Frame) /\ Len(control) \in Nat /\ DOMAIN control = 1 .. Len(control)
      BY <1>1, ControlParts
    <3>3. /\ control' \in Seq(Frame) /\ DOMAIN control' = 1 .. n /\ control'[n] = c
          /\ \A k \in DOMAIN control : control'[k] = control[k]
      BY <2>2, <3>1, <3>2 DEF c
    <3>4. \A k \in DOMAIN control' : k = n \/ k \in DOMAIN control
      BY <3>2, <3>3
    <3>5. /\ \A k \in DOMAIN control : control[k].decision \in Added /\ control[k].trail <= Len(trail)
          /\ \A k \in DOMAIN control : control[k].trail \in Nat
          /\ \A k, m \in DOMAIN control : k <= m => control[k].trail <= control[m].trail
      BY <1>1, ControlParts
    <3>6. \A k \in DOMAIN control' : control'[k].decision \in Added' /\ control'[k].trail <= Len(trail')
      BY <1>2, <1>3, <1>6, <3>1, <3>3, <3>4, <3>5
    <3>7. ASSUME NEW k \in DOMAIN control', NEW m \in DOMAIN control', k <= m
          PROVE  control'[k].trail <= control'[m].trail
      <4>1. CASE m = n
        BY <1>3, <3>1, <3>3, <3>4, <3>5, <4>1
      <4>2. CASE m # n
        <5>1. m \in DOMAIN control /\ k \in DOMAIN control
          BY <3>2, <3>3, <3>4, <3>7, <4>2
        <5> QED
          BY <3>3, <3>5, <3>7, <5>1
      <4> QED
        BY <4>1, <4>2
    <3> QED
      BY <1>1, <1>2, <1>5, <3>3, <3>6, <3>7 DEF TrailOK, Frame
  <2> QED
    BY <2>1, <2>2
<1>8. NoneMissing'
  BY <1>1, <1>2, <1>5 DEF NoneMissing
<1>9. StepsOK'
  BY <1>1, <1>5 DEF StepsOK
<1> QED
  BY <1>2, <1>7, <1>8, <1>9 DEF HeapInvariant

\* In a state of the invariant front() is of a heap that is not empty when a
\* variable is unassigned, and as good as any of these.
LEMMA BestIsFront ==
  ASSUME ScoresAssumption, HeapInvariant, NEW v \in Added \ Assigned
  PROVE  scores # <<>> /\ Head(scores) \in Added /\ stab[v] <= stab[Head(scores)]
<1>1. /\ stab \in Stab /\ scores \in Heap /\ Ordered(stab, scores) /\ v \in ToSet(scores)
      /\ ToSet(scores) \subseteq Added
  BY Numbers DEF HeapInvariant, HeapOK, NoneMissing
<1> QED
  BY <1>1, FrontIsBest

\* backtrack: the variables unassigned are on the heap again.
LEMMA BacktrackKeeps ==
  ASSUME ScoresAssumption, HeapInvariant, NEW k \in 0 .. Level, k < Level, Backtrack(k),
         UNCHANGED <<max_var, stable, stab, score_inc, analyzed>>, analyzed = {}, pc' = "search"
  PROVE  HeapInvariant' /\ \A n \in DOMAIN control' : n \in 1 .. k /\ control'[n] = control[n]
<1> DEFINE n == control[k + 1].trail
<1> DEFINE undone == SubSeq(trail, n + 1, Len(trail))
<1>1. /\ HeapOK /\ TrailOK /\ NoneMissing /\ StepsOK
  BY DEF HeapInvariant
<1>2. /\ Len(control) \in Nat /\ DOMAIN control = 1 .. Len(control) /\ k \in Nat /\ k < Len(control)
      /\ k + 1 \in DOMAIN control
  BY <1>1, ControlParts DEF Level
<1>3. trail \in Seq(Var) /\ Len(trail) \in Nat /\ n \in 0 .. Len(trail)
  BY <1>1, <1>2, ControlParts
<1> HIDE DEF n
<1>4. /\ SubSeq(trail, 1, n) \in Seq(Var) /\ Len(SubSeq(trail, 1, n)) = n /\ undone \in Seq(Var)
      /\ ToSet(SubSeq(trail, 1, n)) \cup ToSet(undone) = ToSet(trail)
  BY <1>3, SplitAt
<1> HIDE DEF undone
<1>5. /\ trail' = SubSeq(trail, 1, n) /\ control' = SubSeq(control, 1, k)
      /\ scores' = PushAll(stab, scores, undone)
  BY DEF Backtrack, Unassign, n, undone
<1>6. /\ stab \in Stab /\ scores \in Heap /\ Distinct(scores) /\ Ordered(stab, scores)
      /\ ToSet(scores) \subseteq Added
  BY <1>1, Numbers DEF HeapOK
<1>7. /\ scores' \in Heap /\ ToSet(scores') = ToSet(scores) \cup ToSet(undone) /\ Distinct(scores')
      /\ Ordered(stab, scores')
  BY <1>4, <1>5, <1>6, PushAllWorks
<1>8. Added' = Added /\ Assigned' \cup ToSet(undone) = Assigned /\ Assigned \subseteq Added
  BY <1>1, <1>4, <1>5 DEF Added, Assigned, TrailOK
<1>9. HeapOK'
  BY <1>1, <1>6, <1>7, <1>8 DEF HeapOK
<1>10. NoneMissing' /\ StepsOK'
  BY <1>1, <1>7, <1>8 DEF NoneMissing, StepsOK
<1>11. /\ control' \in Seq(Frame) /\ DOMAIN control' = 1 .. k
       /\ \A m \in 1 .. k : control'[m] = control[m]
  <2>1. control \in Seq(Frame)
    BY <1>1, ControlParts
  <2> QED
    BY <1>2, <1>5, <2>1
<1>12. TrailOK'
  <2>1. \A m \in 1 .. k : m \in DOMAIN control /\ m <= k + 1
    BY <1>2
  <2>2. \A m \in 1 .. k : control[m].trail <= n
    BY <1>1, <1>2, <2>1 DEF TrailOK, n
  <2>3. \A m \in DOMAIN control' : control'[m].decision \in Added' /\ control'[m].trail <= Len(trail')
    BY <1>1, <1>4, <1>5, <1>8, <1>11, <2>1, <2>2 DEF TrailOK
  <2>4. \A m, o \in DOMAIN control' : m <= o => control'[m].trail <= control'[o].trail
    BY <1>1, <1>11, <2>1 DEF TrailOK
  <2> QED
    BY <1>4, <1>5, <1>8, <1>11, <2>3, <2>4 DEF TrailOK, Frame
<1> QED
  BY <1>9, <1>10, <1>11, <1>12 DEF HeapInvariant
\* A restart keeps the levels whose decisions are as good as the best variable
\* that is not assigned.
LEMMA RestartKeeps ==
  ASSUME ScoresAssumption, HeapInvariant, Restart
  PROVE  HeapInvariant' /\ ReusedBest
<1>1. PICK k \in 0 .. Level :
        /\ Reusable(k, Head(scores))
        /\ IF k < Level THEN Backtrack(k) ELSE UNCHANGED <<search, scores>>
  BY DEF Restart
<1>2. /\ HeapOK /\ TrailOK /\ NoneMissing /\ StepsOK
  BY DEF HeapInvariant
<1>3. /\ UNCHANGED <<max_var, stable, stab, score_inc, analyzed>> /\ pc' = "search"
      /\ analyzed = {}
  BY <1>2 DEF Restart, StepsOK
<1>4. /\ HeapInvariant'
      /\ \A n \in DOMAIN control' : n \in 1 .. k /\ n \in DOMAIN control /\ control'[n] = control[n]
  <2>1. CASE k < Level
    <3>1. HeapInvariant' /\ \A n \in DOMAIN control' : n \in 1 .. k /\ control'[n] = control[n]
      BY <1>1, <1>3, <2>1, BacktrackKeeps
    <3>2. 1 .. k \subseteq DOMAIN control
      BY <1>2, ControlParts DEF Level
    <3> QED
      BY <3>1, <3>2
  <2>2. CASE ~(k < Level)
    <3>1. UNCHANGED <<search, scores>> /\ control' = control
      BY <1>1, <2>2 DEF search
    <3>2. TrailOK' /\ Added' = Added /\ Assigned' = Assigned
      BY <1>2, <1>3, <3>1, TrailStays
    <3>3. HeapOK'
      BY <1>2, <1>3, <3>1, HeapStays DEF heap
    <3>4. NoneMissing' /\ StepsOK'
      BY <1>2, <1>3, <3>1, <3>2 DEF NoneMissing, StepsOK
    <3>5. DOMAIN control = 1 .. k
      <4>1. Len(control) \in Nat /\ DOMAIN control = 1 .. Len(control)
        BY <1>2, ControlParts
      <4>2. k \in 0 .. Len(control) /\ ~(k < Len(control))
        BY <2>2, SMTT(60) DEF Level
      <4>3. k = Len(control)
        BY ONLY <4>1, <4>2, LastOne
      <4> QED
        BY <4>1, <4>3
    <3> QED
      BY <3>1, <3>2, <3>3, <3>4, <3>5 DEF HeapInvariant
  <2> QED
    BY <2>1, <2>2
<1>5. ASSUME NEW n \in DOMAIN control', NEW v \in Added \ Assigned
      PROVE  stab[v] <= stab[control'[n].decision]
  <2> DEFINE best == Head(scores)
  <2> DEFINE d == control[n].decision
  <2>1. n \in 1 .. k /\ n \in DOMAIN control /\ control'[n] = control[n]
    BY <1>4
  <2>2. best \in Added /\ stab[v] <= stab[best]
    BY BestIsFront
  <2>3. d \in Added
    BY <1>2, <2>1, ControlParts
  <2>4. ~Less(stab, d, best)
    BY <1>1, <2>1 DEF Reusable
  <2> HIDE DEF best, d
  <2>5. stab \in Stab /\ Added \subseteq Var /\ \A w \in Added : stab[w] \in Nat
    BY <1>2, Numbers DEF Stab
  <2>6. stab[best] <= stab[d]
    BY <2>2, <2>3, <2>4, <2>5, LessScores
  <2>7. stab[v] <= stab[d]
    BY <2>2, <2>3, <2>5, <2>6
  <2> QED
    BY <2>1, <2>7 DEF d
<1> QED
  BY <1>4, <1>5 DEF ReusedBest

\* The decision is the best of the variables that are not assigned.
LEMMA DecideKeeps ==
  ASSUME ScoresAssumption, HeapInvariant, Decide
  PROVE  HeapInvariant' /\ DecidedBest
<1> DEFINE best == Head(scores)
<1>1. /\ scores # <<>> /\ scores \in Heap /\ ToSet(scores) \subseteq Added
      /\ analyzed = {} /\ TrailOK
  BY DEF Decide, HeapInvariant, HeapOK, StepsOK
<1>2. best \in Added
  <2>1. ToSet(scores) = {best} \cup ToSet(Tail(scores))
    BY <1>1, HeadTail DEF Heap
  <2> QED
    BY <1>1, <2>1
<1>3. \A v \in Added \ Assigned : stab[v] <= stab[best]
  BY BestIsFront
<1> HIDE DEF best
<1>4. /\ trail' = Append(trail, best)
      /\ control' = Append(control, [decision |-> best, trail |-> Len(trail)])
      /\ UNCHANGED <<max_var, stable, heap, analyzed>> /\ pc' = "search"
  BY DEF Decide, Assume, best
<1>5. HeapInvariant'
  BY <1>1, <1>2, <1>4, AssignKeeps
<1>6. Last(control').decision = best
  <2> DEFINE c == [decision |-> best, trail |-> Len(trail)]
  <2>1. c \in Frame /\ c.decision = best
    BY <1>1, <1>2, ControlParts, Numbers DEF Frame, HeapInvariant
  <2> HIDE DEF c
  <2>2. control \in Seq(Frame) /\ control' = Append(control, c)
    BY <1>1, <1>4, ControlParts DEF c
  <2>3. Len(control') = Len(control) + 1 /\ control'[Len(control) + 1] = c
    BY <2>1, <2>2
  <2> QED
    BY <2>1, <2>3 DEF Last
<1> QED
  BY <1>3, <1>5, <1>6 DEF DecidedBest

-----------------------------------------------------------------------------
\* A variable with a higher score rises.
LEMMA BumpedRises ==
  ASSUME NEW s \in Stab, NEW t \in Stab, NEW h \in Heap, Distinct(h), Ordered(s, h),
         NEW i \in DOMAIN h, \A v \in Var : v # h[i] => t[v] = s[v], s[h[i]] <= t[h[i]]
  PROVE  RisesWell(t, h, i)
<1>1. /\ Len(h) \in Nat /\ DOMAIN h = 1 .. Len(h)
      /\ \A k \in DOMAIN h : h[k] \in Var /\ s[h[k]] \in Nat /\ t[h[k]] \in Nat
  BY HeapParts
<1>2. \A k \in DOMAIN h : k # i => t[h[k]] = s[h[k]]
  BY <1>1 DEF Distinct
<1>3. ASSUME NEW j \in 2 .. Len(h), j # i PROVE t[h[j]] <= t[h[j \div 2]]
  <2>1. j \in DOMAIN h /\ j \div 2 \in DOMAIN h
    BY <1>1
  <2>2. t[h[j]] = s[h[j]] /\ s[h[j]] <= s[h[j \div 2]]
    BY <1>2, <1>3, <2>1 DEF Ordered
  <2>3. s[h[j \div 2]] <= t[h[j \div 2]]
    BY <1>1, <1>2, <2>1, SMTT(60)
  <2> QED
    BY <1>1, <2>1, <2>2, <2>3, SMTT(60)
<1>4. ASSUME i > 1, NEW j \in 2 .. Len(h), j \div 2 = i PROVE t[h[j]] <= t[h[i \div 2]]
  <2>1. j \in DOMAIN h /\ j # i /\ i \in 2 .. Len(h) /\ i \div 2 \in DOMAIN h /\ i \div 2 # i
    BY <1>1, <1>4
  <2>2. t[h[j]] = s[h[j]] /\ t[h[i \div 2]] = s[h[i \div 2]]
    BY <1>2, <2>1
  <2>3. s[h[j]] <= s[h[i]] /\ s[h[i]] <= s[h[i \div 2]]
    BY <1>4, <2>1 DEF Ordered
  <2> QED
    BY <1>1, <2>1, <2>2, <2>3
<1> QED
  BY <1>3, <1>4 DEF RisesWell, SkipsWell

\* bump_variable_score, of a variable on the heap or not.
LEMMA BumpVariableScoreKeeps ==
  ASSUME ScoresAssumption, HeapInvariant, NEW v \in Var, BumpVariableScore(v)
  PROVE  HeapInvariant'
<1>1. /\ HeapOK /\ TrailOK /\ NoneMissing /\ StepsOK /\ v \in analyzed
  BY DEF HeapInvariant, BumpVariableScore
<1>2. UNCHANGED <<max_var, stable, search, pc>>
  BY DEF BumpVariableScore
<1>3. TrailOK' /\ Added' = Added /\ Assigned' = Assigned /\ max_var' = max_var
  BY <1>1, <1>2, TrailStays
<1>4. CASE stab[v] + score_inc > Limit
  <2>1. Rescale /\ UNCHANGED <<scores, analyzed>>
    BY <1>4 DEF BumpVariableScore
  <2>2. HeapOK'
    BY <1>1, <1>2, <2>1, RescaleKeeps
  <2>3. NoneMissing' /\ StepsOK'
    BY <1>1, <1>2, <1>3, <2>1 DEF NoneMissing, StepsOK
  <2> QED
    BY <1>3, <2>2, <2>3 DEF HeapInvariant
<1>5. CASE ~(stab[v] + score_inc > Limit)
  <2> DEFINE t == [stab EXCEPT ![v] = stab[v] + score_inc]
  <2>1. /\ stab' = t /\ scores' = (IF v \in ToSet(scores) THEN Update(t, scores, v) ELSE scores)
        /\ analyzed' = analyzed \ {v} /\ score_inc' = score_inc
    BY <1>5 DEF BumpVariableScore, Reorder
  <2>2. /\ stab \in [Var -> 0 .. Limit] /\ score_inc \in 1 .. Limit /\ Limit \in Nat /\ stab \in Stab
        /\ scores \in Heap /\ Distinct(scores) /\ Ordered(stab, scores) /\ ToSet(scores) \subseteq Added
    BY <1>1, Numbers DEF HeapOK
  <2>3. v \in Added
    BY <1>1 DEF StepsOK, TrailOK
  <2>4. /\ t \in [Var -> 0 .. Limit] /\ t[v] = stab[v] + score_inc /\ stab[v] <= t[v]
        /\ \A w \in Var : w # v => t[w] = stab[w]
    BY <1>5, <2>2
  <2> HIDE DEF t
  <2>5. t \in Stab
    BY <2>2, <2>4 DEF Stab
  <2>6. /\ scores' \in Heap /\ Distinct(scores') /\ ToSet(scores') = ToSet(scores)
        /\ Ordered(t, scores')
    <3>1. CASE v \in ToSet(scores)
      <4> DEFINE i == Place(scores, v)
      <4>1. i \in DOMAIN scores /\ scores[i] = v
        BY <2>2, <3>1, PlaceIs
      <4> HIDE DEF i
      <4>2. RisesWell(t, scores, i)
        BY <2>2, <2>4, <2>5, <4>1, BumpedRises
      <4>3. Shuffled(scores, Update(t, scores, v)) /\ Ordered(t, Update(t, scores, v))
        BY <2>2, <2>5, <3>1, <4>2, UpdateWorks DEF i
      <4> QED
        BY <2>1, <2>2, <3>1, <4>3 DEF Shuffled, Heap
    <3>2. CASE v \notin ToSet(scores)
      <4>1. \A k \in DOMAIN scores : scores[k] # v
        BY <3>2 DEF ToSet
      <4>2. /\ Len(scores) \in Nat /\ DOMAIN scores = 1 .. Len(scores)
            /\ \A k \in DOMAIN scores : scores[k] \in Var
        BY <2>2, HeapParts
      <4>3. \A k \in DOMAIN scores : t[scores[k]] = stab[scores[k]]
        BY <2>4, <4>1, <4>2
      <4>4. \A k \in 2 .. Len(scores) : k \in DOMAIN scores /\ k \div 2 \in DOMAIN scores
        BY <4>2
      <4>5. Ordered(t, scores)
        BY <2>2, <4>3, <4>4, SMTT(60) DEF Ordered
      <4> QED
        BY <2>1, <2>2, <3>2, <4>5
    <3> QED
      BY <3>1, <3>2
  <2>7. HeapOK'
    BY <1>1, <1>3, <2>1, <2>2, <2>3, <2>4, <2>6 DEF HeapOK
  <2>8. NoneMissing' /\ StepsOK'
    BY <1>1, <1>2, <1>3, <2>1, <2>6 DEF NoneMissing, StepsOK
  <2> QED
    BY <1>3, <2>7, <2>8 DEF HeapInvariant
<1> QED
  BY <1>4, <1>5

\* bump_variable_score_inc
LEMMA BumpScoreIncKeeps ==
  ASSUME ScoresAssumption, HeapInvariant, BumpScoreInc
  PROVE  HeapInvariant'
<1>1. /\ HeapOK /\ TrailOK /\ NoneMissing /\ StepsOK /\ analyzed = {}
  BY DEF HeapInvariant, BumpScoreInc
<1>2. UNCHANGED <<max_var, stable, scores, search, analyzed>>
  BY DEF BumpScoreInc
<1>3. TrailOK' /\ Added' = Added /\ Assigned' = Assigned
  BY <1>1, <1>2, TrailStays
<1>4. NoneMissing'
  BY <1>1, <1>2, <1>3 DEF NoneMissing
<1>5. pc' \in {pc, "jump"}
  BY DEF BumpScoreInc
<1>6. StepsOK'
  BY <1>1, <1>2, <1>3, <1>5 DEF StepsOK
<1>7. HeapOK'
  <2>1. CASE score_inc * Factor > Limit
    BY <1>1, <1>2, <2>1, RescaleKeeps DEF BumpScoreInc
  <2>2. CASE ~(score_inc * Factor > Limit)
    <3>1. score_inc' = score_inc * Factor /\ UNCHANGED stab
      BY <2>2 DEF BumpScoreInc
    <3>2. Factor \in Nat \ {0} /\ score_inc \in Nat /\ score_inc >= 1 /\ Limit \in Nat
      BY <1>1, Numbers DEF ScoresAssumption
    <3>3. score_inc * Factor \in Nat /\ score_inc * Factor >= 1
      BY <3>2
    <3>4. score_inc' \in 1 .. Limit
      BY <2>2, <3>1, <3>2, <3>3
    <3> QED
      BY <1>1, <1>2, <1>3, <3>1, <3>4 DEF HeapOK
  <2> QED
    BY <2>1, <2>2
<1> QED
  BY <1>3, <1>4, <1>6, <1>7 DEF HeapInvariant
\* shuffle_scores: the new scores are places, and all that was on the heap is.
LEMMA ShuffleScoresKeeps ==
  ASSUME ScoresAssumption, HeapInvariant, ShuffleScores
  PROVE  HeapInvariant'
<1>1. /\ HeapOK /\ TrailOK /\ NoneMissing /\ StepsOK
  BY DEF HeapInvariant
<1>2. /\ UNCHANGED <<max_var, stable, search, pc, analyzed>> /\ score_inc' > 0
  BY DEF ShuffleScores
<1>3. TrailOK' /\ Added' = Added /\ Assigned' = Assigned /\ max_var' = max_var
  BY <1>1, <1>2, TrailStays
<1>4. /\ stab \in [Var -> 0 .. Limit] /\ Limit \in Nat /\ stab \in Stab /\ max_var \in Nat /\ Added \subseteq Var
      /\ scores \in Heap /\ Distinct(scores) /\ ToSet(scores) \subseteq Added
      /\ MaxVar <= Limit /\ max_var <= MaxVar /\ MaxVar \in Nat
      /\ \A v \in Var \ Added : stab[v] = 0
  BY <1>1, Numbers DEF HeapOK
<1>5. PICK shuffle \in {PopAll(stab, scores)} \cup
                    {p \in [Added -> Added] : \A v, w \in Added : p[v] = p[w] => v = w} :
       /\ stab' = [v \in Var |-> IF \E n \in DOMAIN shuffle : shuffle[n] = v
                                 THEN (CHOOSE n \in DOMAIN shuffle : shuffle[n] = v) - 1
                                 ELSE stab[v]]
       /\ scores' = PushAll(stab', <<>>, shuffle)
       /\ score_inc' = Len(shuffle)
  BY DEF ShuffleScores
<1>6. /\ shuffle \in Seq(Added) /\ Distinct(shuffle) /\ ToSet(scores) \subseteq ToSet(shuffle)
      /\ Len(shuffle) \in Nat /\ Len(shuffle) <= max_var
  <2>1. CASE shuffle = PopAll(stab, scores)
    <3>1. shuffle \in Seq(Var) /\ Distinct(shuffle) /\ ToSet(shuffle) = ToSet(scores)
      BY <1>4, <2>1, PopAllWorks
    <3>2. \A n \in DOMAIN shuffle : shuffle[n] \in Added
      BY <1>4, <3>1 DEF ToSet
    <3>3. shuffle \in Seq(1 .. max_var)
      <4>1. Len(shuffle) \in Nat /\ shuffle \in [1 .. Len(shuffle) -> 1 .. max_var]
        BY <3>1, <3>2 DEF Added
      <4> QED
        BY ONLY <4>1, SeqOfFunction
    <3>4. Len(shuffle) \in Nat /\ Len(shuffle) <= max_var
      BY <1>4, <3>1, <3>3, DistinctLength
    <3> QED
      BY <3>1, <3>3, <3>4 DEF Added
  <2>2. CASE shuffle \in {p \in [Added -> Added] : \A v, w \in Added : p[v] = p[w] => v = w}
    <3>1. shuffle \in [1 .. max_var -> 1 .. max_var] /\ Distinct(shuffle)
      BY <2>2 DEF Added, Distinct
    <3>2. shuffle \in Seq(1 .. max_var) /\ Len(shuffle) = max_var
      BY <1>4, <3>1
    <3>3. ToSet(shuffle) = 1 .. max_var
      BY <1>4, <3>1, <3>2, DistinctLength
    <3> QED
      BY <1>4, <3>1, <3>2, <3>3 DEF Added
  <2> QED
    BY <1>5, <2>1, <2>2
<1>7. shuffle \in Seq(Var) /\ ToSet(shuffle) \subseteq Added /\ DOMAIN shuffle = 1 .. Len(shuffle)
  <2>1. DOMAIN shuffle = 1 .. Len(shuffle) /\ \A n \in DOMAIN shuffle : shuffle[n] \in Added
    BY <1>6
  <2>2. shuffle \in Seq(Var)
    BY <1>4, <1>6, SeqMonotonic
  <2> QED
    BY <2>1, <2>2 DEF ToSet
<1>8. \A v \in Var : stab'[v] \in 0 .. Limit /\ (v \notin Added => stab'[v] = 0)
  <2> SUFFICES ASSUME NEW v \in Var
               PROVE  stab'[v] \in 0 .. Limit /\ (v \notin Added => stab'[v] = 0)
    OBVIOUS
  <2>1. CASE \E n \in DOMAIN shuffle : shuffle[n] = v
    <3> DEFINE n == CHOOSE n \in DOMAIN shuffle : shuffle[n] = v
    <3>1. n \in DOMAIN shuffle /\ shuffle[n] = v
      BY <2>1
    <3>2. stab'[v] = n - 1
      BY <1>5, <2>1
    <3> HIDE DEF n
    <3>3. v \in Added
      BY <1>7, <3>1 DEF ToSet
    <3> QED
      BY <1>4, <1>6, <1>7, <3>1, <3>2, <3>3
  <2>2. CASE ~\E n \in DOMAIN shuffle : shuffle[n] = v
    <3>1. stab'[v] = stab[v]
      BY <1>5, <2>2
    <3> QED
      BY <1>4, <3>1
  <2> QED
    BY <2>1, <2>2
<1>9. stab' \in [Var -> 0 .. Limit] /\ stab' \in Stab
  <2>1. DOMAIN stab' = Var /\ stab' = [v \in Var |-> stab'[v]]
    BY <1>5
  <2> QED
    BY <1>4, <1>8, <2>1 DEF Stab
<1>10. /\ scores' \in Heap /\ ToSet(scores') = ToSet(shuffle) /\ Distinct(scores')
       /\ Ordered(stab', scores')
  <2>1. scores' = PushAll(stab', <<>>, shuffle)
    BY <1>5
  <2> QED
    BY <1>7, <1>9, <2>1, PushAllFresh
<1>11. score_inc' \in 1 .. Limit
  BY <1>2, <1>4, <1>5, <1>6
<1>12. HeapOK'
  BY <1>1, <1>3, <1>7, <1>8, <1>9, <1>10, <1>11 DEF HeapOK
<1>13. NoneMissing' /\ StepsOK'
  BY <1>1, <1>2, <1>3, <1>6, <1>10 DEF NoneMissing, StepsOK
<1> QED
  BY <1>3, <1>12, <1>13 DEF HeapInvariant

\* The steps that change neither the heap nor the trail.
LEMMA OtherStepKeeps ==
  ASSUME HeapInvariant, UNCHANGED <<max_var, heap, search>>, StepsOK'
  PROVE  HeapInvariant'
<1>1. /\ HeapOK /\ TrailOK /\ NoneMissing
  BY DEF HeapInvariant
<1>2. TrailOK' /\ HeapOK' /\ Added' = Added /\ Assigned' = Assigned /\ scores' = scores
  BY <1>1, TrailStays, HeapStays DEF heap
<1> QED
  BY <1>1, <1>2 DEF HeapInvariant, NoneMissing

LEMMA StepKeeps ==
  ASSUME ScoresAssumption, HeapInvariant, [Next]_vars
  PROVE  HeapInvariant' /\ DecidedBest /\ ReusedBest
<1> USE ScoresAssumption, HeapInvariant
<1>1. /\ HeapOK /\ TrailOK /\ NoneMissing /\ StepsOK
  BY DEF HeapInvariant
<1>2. CASE InitScores
  <2>1. DecidedBest /\ ReusedBest
    BY <1>2 DEF InitScores, DecidedBest, ReusedBest
  <2> QED
    BY <1>2, <2>1, InitScoresKeeps
<1>3. CASE SwitchMode
  <2>1. UNCHANGED <<max_var, heap, search>> /\ StepsOK' /\ pc' = pc
    <3>1. UNCHANGED <<max_var, heap, search>> /\ stable' \in BOOLEAN /\ pc' = pc /\ analyzed' = analyzed
      BY <1>1, <1>3 DEF SwitchMode, StepsOK
    <3>2. Assigned' = Assigned
      BY <3>1 DEF Assigned, search
    <3> QED
      BY <1>1, <3>1, <3>2 DEF StepsOK
  <2> QED
    BY <1>3, <2>1, OtherStepKeeps DEF DecidedBest, ReusedBest, SwitchMode
<1>4. CASE PopAssigned
  <2>1. DecidedBest /\ ReusedBest
    BY <1>4 DEF PopAssigned, DecidedBest, ReusedBest
  <2> QED
    BY <1>4, <2>1, PopAssignedKeeps
<1>5. CASE Decide
  <2>1. ReusedBest
    BY <1>5 DEF Decide, ReusedBest
  <2> QED
    BY <1>5, <2>1, DecideKeeps
<1>6. CASE Restart
  <2>1. DecidedBest
    BY <1>6 DEF Restart, DecidedBest
  <2> QED
    BY <1>6, <2>1, RestartKeeps
<1>7. ASSUME NEW caller \in {"decide", "restart"}, NextDecision(caller)
      PROVE  HeapInvariant' /\ DecidedBest /\ ReusedBest
  <2>1. /\ UNCHANGED <<max_var, heap, search>> /\ stable' = stable /\ analyzed' = analyzed
        /\ pc = "search" /\ pc' = caller
    BY <1>7 DEF NextDecision
  <2>2. StepsOK'
    <3>1. Assigned' = Assigned
      BY <2>1 DEF Assigned, search
    <3> QED
      BY <1>1, <2>1, <3>1 DEF StepsOK
  <2> QED
    BY <2>1, <2>2, OtherStepKeeps DEF DecidedBest, ReusedBest
<1>8. CASE BumpScoreInc
  <2>1. DecidedBest /\ ReusedBest
    BY <1>8 DEF BumpScoreInc, DecidedBest, ReusedBest
  <2> QED
    BY <1>8, <2>1, BumpScoreIncKeeps
<1>9. CASE BumpQueue
  <2>1. /\ UNCHANGED <<max_var, heap, search>> /\ stable' = stable /\ analyzed' = {}
        /\ pc = "bump" /\ pc' = "jump"
    BY <1>9 DEF BumpQueue
  <2>2. StepsOK'
    BY <1>1, <2>1 DEF StepsOK
  <2> QED
    BY <2>1, <2>2, OtherStepKeeps DEF DecidedBest, ReusedBest
<1>10. CASE ShuffleScores
  <2>1. DecidedBest /\ ReusedBest
    BY <1>10 DEF ShuffleScores, DecidedBest, ReusedBest
  <2> QED
    BY <1>10, <2>1, ShuffleScoresKeeps
<1>11. ASSUME NEW v \in Var, Propagate(v)
       PROVE  HeapInvariant' /\ DecidedBest /\ ReusedBest
  <2>1. /\ v \in Added /\ trail' = Append(trail, v) /\ control' = control /\ pc = "search" /\ pc' = pc
        /\ UNCHANGED <<max_var, stable, heap, analyzed>>
    BY <1>11 DEF Propagate
  <2> QED
    BY <2>1, AssignKeeps DEF DecidedBest, ReusedBest
<1>12. ASSUME NEW v \in Var, DecideOnQueue(v)
       PROVE  HeapInvariant' /\ DecidedBest /\ ReusedBest
  <2>1. /\ v \in Added /\ trail' = Append(trail, v) /\ pc = "search" /\ pc' = pc
        /\ control' = Append(control, [decision |-> v, trail |-> Len(trail)])
        /\ UNCHANGED <<max_var, stable, heap, analyzed>>
    BY <1>12 DEF DecideOnQueue, Assume
  <2> QED
    BY <2>1, AssignKeeps DEF DecidedBest, ReusedBest
<1>13. ASSUME NEW v \in Var, BumpVariableScore(v)
       PROVE  HeapInvariant' /\ DecidedBest /\ ReusedBest
  <2>1. DecidedBest /\ ReusedBest
    BY <1>13 DEF BumpVariableScore, DecidedBest, ReusedBest
  <2> QED
    BY <1>13, <2>1, BumpVariableScoreKeeps
<1>14. ASSUME NEW S \in SUBSET Var, Analyze(S)
       PROVE  HeapInvariant' /\ DecidedBest /\ ReusedBest
  <2>1. /\ UNCHANGED <<max_var, heap, search>> /\ stable' = stable /\ analyzed' = S
        /\ pc = "search" /\ pc' = "bump" /\ Level > 0
        /\ S \subseteq ToSet(SubSeq(trail, control[1].trail + 1, Len(trail)))
    BY <1>14 DEF Analyze
  <2>2. S \subseteq Assigned
    <3>1. trail \in Seq(Var) /\ control[1].trail \in 0 .. Len(trail)
      BY <1>1, <2>1, ControlParts DEF Level
    <3>2. ToSet(SubSeq(trail, control[1].trail + 1, Len(trail))) \subseteq ToSet(trail)
      BY <3>1, SplitAt
    <3> QED
      BY <2>1, <3>2 DEF Assigned
  <2>3. StepsOK'
    <3>1. Assigned' = Assigned
      BY <2>1 DEF Assigned, search
    <3> QED
      BY <1>1, <2>1, <2>2, <3>1 DEF StepsOK
  <2> QED
    BY <2>1, <2>3, OtherStepKeeps DEF DecidedBest, ReusedBest
<1>15. ASSUME NEW k \in 0 .. Level, BackJump(k)
       PROVE  HeapInvariant' /\ DecidedBest /\ ReusedBest
  <2>1. /\ k < Level /\ Backtrack(k) /\ pc = "jump" /\ pc' = "search"
        /\ UNCHANGED <<max_var, stable, stab, score_inc, analyzed>>
    BY <1>15 DEF BackJump
  <2>2. analyzed = {}
    BY <1>1, <2>1 DEF StepsOK
  <2> QED
    BY <2>1, <2>2, BacktrackKeeps DEF DecidedBest, ReusedBest
<1>16. CASE UNCHANGED vars
  <2>1. UNCHANGED <<max_var, heap, search>> /\ stable' = stable /\ pc' = pc /\ analyzed' = analyzed
    BY <1>16 DEF vars
  <2>2. StepsOK'
    <3>1. Assigned' = Assigned
      BY <2>1 DEF Assigned, search
    <3> QED
      BY <1>1, <2>1, <3>1 DEF StepsOK
  <2> QED
    BY <2>1, <2>2, OtherStepKeeps DEF DecidedBest, ReusedBest
<1> QED
  BY <1>2, <1>3, <1>4, <1>5, <1>6, <1>7, <1>8, <1>9, <1>10, <1>11, <1>12, <1>13, <1>14, <1>15, <1>16
     DEF Next

-----------------------------------------------------------------------------
\* The heap stays one, without repetitions and in order, and no variable that
\* could be decided is missing (heap.hpp, decide.cpp), for any number of
\* variables, any limit of the scores and any factor.
THEOREM HeapIsKept ==
  ASSUME ScoresAssumption
  PROVE  Spec => []HeapKept
<1>1. Init => HeapInvariant
  BY InvariantHolds
<1>2. HeapInvariant /\ [Next]_vars => HeapInvariant'
  BY StepKeeps
<1>3. HeapInvariant => HeapKept
  BY InvariantImplies
<1> QED
  BY <1>1, <1>2, <1>3, PTL DEF Spec

\* Every decision of stable mode is an unassigned variable with the best score
\* and a restart keeps only decisions as good as that, whatever was propagated,
\* popped, bumped, rescaled or shuffled before (decide.cpp, restart.cpp).
THEOREM BestIsDecided ==
  ASSUME ScoresAssumption
  PROVE  Spec => [][BestDecided]_vars
<1>1. Init => HeapInvariant
  BY InvariantHolds
<1>2. HeapInvariant /\ [Next]_vars => HeapInvariant'
  BY StepKeeps
<1>3. HeapInvariant /\ HeapInvariant' /\ [Next]_vars => [BestDecided]_vars
  <2>1. HeapInvariant' => HeapKept'
    <3>1. HeapInvariant => HeapKept
      BY InvariantImplies
    <3> QED
      BY <3>1, PTL
  <2> QED
    BY <2>1, StepKeeps DEF BestDecided
<1> QED
  BY <1>1, <1>2, <1>3, PTL DEF Spec
=============================================================================
