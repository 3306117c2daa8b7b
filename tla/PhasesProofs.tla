---------------------------- MODULE PhasesProofs ----------------------------
(***************************************************************************)
(* Deciding with the target phases, or with the best ones, assigns the     *)
(* trail they were copied from again, for every number of variables, every *)
(* formula without the empty clause and every setting of the options.      *)
(***************************************************************************)
EXTENDS Phases, SequenceTheorems, TLAPS

\* Literals and their variables.
LEMMA LitFacts ==
  /\ \A l \in Lit : -l \in Lit /\ Idx(l) \in Var /\ Idx(-l) = Idx(l) /\ l # 0 /\ l \in Int
  /\ \A k, l \in Lit : Idx(k) = Idx(l) <=> k = l \/ k = -l
  /\ \A l \in Lit : Sign(l) \in {-1, 1}
  /\ \A v \in Var : v \in Lit /\ -v \in Lit /\ Idx(v) = v /\ Idx(-v) = v
BY MaxVarAssumption DEF Lit, Var, Idx, Sign

\* The first n elements of a sequence.
LEMMA Prefix ==
  ASSUME NEW S, NEW s \in Seq(S), NEW n \in 0 .. Len(s)
  PROVE  /\ SubSeq(s, 1, n) \in Seq(S) /\ Len(SubSeq(s, 1, n)) = n
         /\ DOMAIN SubSeq(s, 1, n) = 1 .. n
         /\ \A k \in 1 .. n : SubSeq(s, 1, n)[k] = s[k]
         /\ ToSet(SubSeq(s, 1, n)) = {s[k] : k \in 1 .. n}
<1>1. /\ SubSeq(s, 1, n) \in Seq(S) /\ Len(SubSeq(s, 1, n)) = n
      /\ \A k \in 1 .. n : SubSeq(s, 1, n)[k] = s[k]
  BY SubSeqProperties
<1>2. DOMAIN SubSeq(s, 1, n) = 1 .. n
  BY <1>1
<1> QED BY <1>1, <1>2 DEF ToSet

\* A prefix of a prefix, and the prefix of a longer sequence.
LEMMA PrefixOfPrefix ==
  ASSUME NEW S, NEW s \in Seq(S), NEW n \in 0 .. Len(s), NEW m \in 0 .. n
  PROVE  SubSeq(SubSeq(s, 1, n), 1, m) = SubSeq(s, 1, m)
<1>1. m \in 0 .. Len(s) /\ Len(SubSeq(s, 1, n)) = n /\ SubSeq(s, 1, n) \in Seq(S)
  BY Prefix
<1> DEFINE p == SubSeq(s, 1, n)
<1>2. p \in Seq(S) /\ m \in 0 .. Len(p)
  BY <1>1
<1>3. /\ SubSeq(p, 1, m) \in Seq(S) /\ Len(SubSeq(p, 1, m)) = m
      /\ \A k \in 1 .. m : SubSeq(p, 1, m)[k] = p[k]
  BY <1>2, Prefix
<1>4. /\ SubSeq(s, 1, m) \in Seq(S) /\ Len(SubSeq(s, 1, m)) = m
      /\ \A k \in 1 .. m : SubSeq(s, 1, m)[k] = s[k]
  BY <1>1, Prefix
<1>5. \A k \in 1 .. m : k \in 1 .. n /\ p[k] = s[k]
  BY Prefix
<1> HIDE DEF p
<1>6. SubSeq(p, 1, m) = SubSeq(s, 1, m)
  BY <1>3, <1>4, <1>5, SeqEqual
<1> QED BY <1>6 DEF p

LEMMA PrefixOfLonger ==
  ASSUME NEW S, NEW s \in Seq(S), NEW e \in S, NEW n \in 0 .. Len(s)
  PROVE  /\ Append(s, e) \in Seq(S) /\ Len(Append(s, e)) = Len(s) + 1
         /\ \A k \in 1 .. Len(s) : Append(s, e)[k] = s[k]
         /\ Append(s, e)[Len(s) + 1] = e
         /\ SubSeq(Append(s, e), 1, n) = SubSeq(s, 1, n)
<1>1. /\ Append(s, e) \in Seq(S) /\ Len(Append(s, e)) = Len(s) + 1
      /\ \A k \in 1 .. Len(s) : Append(s, e)[k] = s[k]
      /\ Append(s, e)[Len(s) + 1] = e
  BY AppendProperties
<1> DEFINE t == Append(s, e)
<1>2. t \in Seq(S) /\ n \in 0 .. Len(t)
  BY <1>1
<1>3. /\ SubSeq(t, 1, n) \in Seq(S) /\ Len(SubSeq(t, 1, n)) = n
      /\ \A k \in 1 .. n : SubSeq(t, 1, n)[k] = t[k]
  BY <1>2, Prefix
<1>4. /\ SubSeq(s, 1, n) \in Seq(S) /\ Len(SubSeq(s, 1, n)) = n
      /\ \A k \in 1 .. n : SubSeq(s, 1, n)[k] = s[k]
  BY Prefix
<1>5. \A k \in 1 .. n : t[k] = s[k]
  BY <1>1
<1> HIDE DEF t
<1>6. SubSeq(t, 1, n) = SubSeq(s, 1, n)
  BY <1>3, <1>4, <1>5, SeqEqual
<1> QED BY <1>1, <1>6 DEF t

\* The smaller of two numbers.
LEMMA MinOfTwo ==
  ASSUME NEW a \in Nat, NEW b \in Nat
  PROVE  Min({a, b}) \in {a, b} /\ Min({a, b}) <= a /\ Min({a, b}) <= b
<1>1. \E x \in {a, b} : \A y \in {a, b} : x <= y
  OBVIOUS
<1>2. Min({a, b}) \in {a, b} /\ \A y \in {a, b} : Min({a, b}) <= y
  BY <1>1 DEF Min
<1> QED BY <1>2

-----------------------------------------------------------------------------
LEMMA InitialSign == ASSUME opts \in Options PROVE Initial \in {-1, 1}
BY DEF Initial

\* Each kind of rephasing gives every variable a phase.
LEMMA KindsOfSchedule ==
  ASSUME opts \in Options, stable \in BOOLEAN, NEW n \in Nat
  PROVE  Kind(n) \in Kinds
<1>1. /\ n % 8 \in 0 .. 7 /\ n % 12 \in 0 .. 11
  OBVIOUS
<1>2. ASSUME n >= 2 PROVE (n - 2) % 6 \in 0 .. 5 /\ (n - 2) % 4 \in 0 .. 3
  BY <1>2
<1>3. ASSUME n >= 1 PROVE (n - 1) % 6 \in 0 .. 5 /\ (n - 1) % 4 \in 0 .. 3
  BY <1>3
<1>4. In(<<"inverted", "best", "flipping", "best", "random", "best", "original", "best">>, n) \in Kinds
  BY <1>1 DEF In, Kinds
<1>5. In(<<"inverted", "best", "walk", "flipping", "best", "walk",
           "random", "best", "walk", "original", "best", "walk">>, n) \in Kinds
  BY <1>1 DEF In, Kinds
<1>6. n < 2 => In(<<"original", "inverted">>, n) \in Kinds
  BY DEF In, Kinds
<1>7. n >= 2 => /\ In(<<"best", "walk", "original", "best", "walk", "inverted">>, n - 2) \in Kinds
                /\ In(<<"best", "original", "best", "inverted">>, n - 2) \in Kinds
  BY <1>2 DEF In, Kinds
<1>8. n >= 1 => /\ In(<<"random", "best", "walk", "flipping", "best", "walk">>, n - 1) \in Kinds
                /\ In(<<"random", "best", "flipping", "best">>, n - 1) \in Kinds
  BY <1>3 DEF In, Kinds
<1>9. "flipping" \in Kinds
  BY DEF Kinds
<1> DEFINE single == ~opts.stabilize \/ opts.stabilizeonly
<1>10. CASE single /\ ~opts.walk
  BY <1>4, <1>10 DEF Kind
<1>11. CASE single /\ opts.walk
  BY <1>5, <1>11 DEF Kind
<1>12. CASE ~single /\ stable
  BY <1>6, <1>7, <1>12 DEF Kind
<1>13. CASE ~single /\ ~stable
  <2>1. n = 0 \/ n >= 1
    OBVIOUS
  <2> QED BY <1>8, <1>9, <1>13, <2>1 DEF Kind
<1> QED BY <1>10, <1>11, <1>12, <1>13

LEMMA RephasedTypes ==
  ASSUME opts \in Options, NEW kind \in Kinds, saved \in [Var -> {-1, 1}],
         NEW b \in [Var -> {-1, 0, 1}]
  PROVE  Rephased(kind, b) \subseteq [Var -> {-1, 1}]
<1>1. AllVars(Initial) \in [Var -> {-1, 1}] /\ AllVars(-Initial) \in [Var -> {-1, 1}]
  BY InitialSign DEF AllVars
<1>2. \A v \in Var : saved[v] \in {-1, 1} /\ -saved[v] \in {-1, 1} /\ b[v] \in {-1, 0, 1}
  OBVIOUS
<1>3. [v \in Var |-> -saved[v]] \in [Var -> {-1, 1}]
  BY <1>2
<1>4. [v \in Var |-> IF b[v] # 0 THEN b[v] ELSE saved[v]] \in [Var -> {-1, 1}]
  BY <1>2
<1> QED BY <1>1, <1>3, <1>4 DEF Rephased, Kinds

-----------------------------------------------------------------------------
\* The search over a trail t with levels c, saved phases s and u for
\* no_conflict_until: the invariants but TargetReplays, over values.
RootOf(t, c) == IF Len(c) > 0 THEN c[1] ELSE Len(t)
RootSet(t, c) == {t[n] : n \in 1 .. RootOf(t, c)}
FreeTrail(F, t) == \A C \in F : ~(Negated(C) \subseteq ToSet(t))

Typed(t, c, s, u) ==
  t \in Seq(Lit) /\ c \in Seq(Nat) /\ s \in [Var -> {-1, 1}] /\ u \in Nat

Ordered(t, c, u) ==
  /\ \A m, n \in 1 .. Len(t) : Idx(t[m]) = Idx(t[n]) => m = n
  /\ \A n \in 1 .. Len(c) : c[n] <= Len(t)
  /\ \A m, n \in 1 .. Len(c) : m <= n => c[m] <= c[n]
  /\ u <= Len(t)

SavedOn(t, c, s) == \A n \in RootOf(t, c) + 1 .. Len(t) : s[Idx(t[n])] = Sign(t[n])

FreeBelow(F, t, c, u) ==
  /\ \A n \in 1 .. Len(c) : FreeTrail(F, SubSeq(t, 1, c[n]))
  /\ FreeTrail(F, SubSeq(t, 1, u))

Searching(F, t, c, s, u) ==
  Typed(t, c, s, u) /\ Ordered(t, c, u) /\ SavedOn(t, c, s) /\ FreeBelow(F, t, c, u)

LEMMA RootInTrail ==
  ASSUME NEW t, NEW c, NEW s, NEW u, Typed(t, c, s, u), Ordered(t, c, u)
  PROVE  RootOf(t, c) \in 0 .. Len(t)
<1>1. t \in Seq(Lit) /\ Len(t) \in Nat /\ c \in Seq(Nat) /\ Len(c) \in Nat
  BY DEF Typed
<1>2. CASE Len(c) > 0
  <2>1. 1 \in 1 .. Len(c) /\ c[1] \in Nat
    BY <1>1, <1>2
  <2>2. c[1] <= Len(t)
    BY <2>1 DEF Ordered
  <2> QED BY <1>1, <1>2, <2>1, <2>2 DEF RootOf
<1>3. CASE ~(Len(c) > 0)
  BY <1>1, <1>3 DEF RootOf
<1> QED BY <1>2, <1>3

\* Backtracking to a level keeps the search, and the literals of the root level.
LEMMA CutKeeps ==
  ASSUME NEW F, NEW t, NEW c, NEW s, NEW u, Searching(F, t, c, s, u), NEW k \in 0 .. Len(c) - 1
  PROVE  LET p == SubSeq(t, 1, c[k + 1])
             d == SubSeq(c, 1, k)
         IN /\ Searching(F, p, d, s, Min({u, c[k + 1]}))
            /\ RootSet(p, d) = RootSet(t, c)
            /\ c[k + 1] \in 0 .. Len(t) /\ FreeTrail(F, p)
<1> DEFINE h == c[k + 1]
           p == SubSeq(t, 1, h)
           d == SubSeq(c, 1, k)
           w == Min({u, h})
<1>1. t \in Seq(Lit) /\ Len(t) \in Nat /\ c \in Seq(Nat) /\ Len(c) \in Nat /\ k \in Nat /\ u \in Nat
      /\ k + 1 \in 1 .. Len(c)
  BY DEF Searching, Typed
<1>2. h \in 0 .. Len(t) /\ h \in Nat
  <2>1. h \in Nat /\ h <= Len(t)
    BY <1>1 DEF Searching, Ordered
  <2> QED BY <1>1, <2>1
<1>3. /\ p \in Seq(Lit) /\ Len(p) = h
      /\ \A n \in 1 .. h : p[n] = t[n]
  BY <1>1, <1>2, Prefix, SMTT(60)
<1>4. k \in 0 .. Len(c)
  BY <1>1
<1>5. /\ d \in Seq(Nat) /\ Len(d) = k
      /\ \A n \in 1 .. k : d[n] = c[n]
  BY <1>1, <1>4, Prefix
<1>6. w \in Nat /\ w <= h /\ w \in {u, h}
  BY <1>1, <1>2, MinOfTwo
<1>7. \A n \in 1 .. k : c[n] <= h /\ c[n] \in Nat
  <2> SUFFICES ASSUME NEW n \in 1 .. k PROVE c[n] <= h /\ c[n] \in Nat
    OBVIOUS
  <2>1. n \in 1 .. Len(c) /\ n <= k + 1
    BY <1>1
  <2> QED BY <1>1, <2>1 DEF Searching, Ordered
<1>8. FreeTrail(F, p)
  BY <1>1 DEF Searching, FreeBelow
<1>9. RootOf(p, d) = RootOf(t, c)
  <2>1. CASE k = 0
    BY <1>1, <1>3, <1>5, <2>1 DEF RootOf
  <2>2. CASE k # 0
    <3>1. 1 \in 1 .. k
      BY <1>1, <2>2
    <3> QED BY <1>1, <1>5, <2>2, <3>1 DEF RootOf
  <2> QED BY <2>1, <2>2
<1>10. RootOf(t, c) \in 0 .. h
  <2>1. 1 \in 1 .. Len(c) /\ 1 <= k + 1 /\ c[1] \in Nat
    BY <1>1
  <2>2. c[1] <= h
    BY <1>1, <2>1 DEF Searching, Ordered
  <2> QED BY <1>1, <1>2, <2>1, <2>2 DEF RootOf
<1> HIDE DEF h, p, d, w
<1>11. Typed(p, d, s, w)
  BY <1>3, <1>5, <1>6 DEF Searching, Typed
<1>12. Ordered(p, d, w)
  <2>1. ASSUME NEW m \in 1 .. Len(p), NEW n \in 1 .. Len(p), Idx(p[m]) = Idx(p[n]) PROVE m = n
    <3>1. m \in 1 .. Len(t) /\ n \in 1 .. Len(t) /\ p[m] = t[m] /\ p[n] = t[n]
      BY <1>1, <1>2, <1>3, SMTT(60)
    <3> QED BY <2>1, <3>1 DEF Searching, Ordered
  <2>2. \A n \in 1 .. Len(d) : d[n] <= Len(p)
    BY <1>3, <1>5, <1>7
  <2>3. ASSUME NEW m \in 1 .. Len(d), NEW n \in 1 .. Len(d), m <= n PROVE d[m] <= d[n]
    <3>1. m \in 1 .. Len(c) /\ n \in 1 .. Len(c) /\ d[m] = c[m] /\ d[n] = c[n]
      BY <1>1, <1>5, SMTT(60)
    <3> QED BY <2>3, <3>1 DEF Searching, Ordered
  <2>4. w <= Len(p)
    BY <1>3, <1>6
  <2> QED BY <2>1, <2>2, <2>3, <2>4 DEF Ordered
<1>13. SavedOn(p, d, s)
  <2> SUFFICES ASSUME NEW n \in RootOf(p, d) + 1 .. Len(p) PROVE s[Idx(p[n])] = Sign(p[n])
    BY DEF SavedOn
  <2>1. n \in RootOf(t, c) + 1 .. Len(t) /\ n \in 1 .. h
    BY <1>1, <1>2, <1>3, <1>9, <1>10
  <2> QED BY <1>3, <2>1 DEF Searching, SavedOn
<1>14. FreeBelow(F, p, d, w)
  <2>1. ASSUME NEW n \in 1 .. Len(d) PROVE FreeTrail(F, SubSeq(p, 1, d[n]))
    <3>1. d[n] = c[n] /\ c[n] \in 0 .. h /\ n \in 1 .. Len(c)
      BY <1>1, <1>2, <1>5, <1>7, SMTT(60)
    <3>2. SubSeq(p, 1, d[n]) = SubSeq(t, 1, c[n])
      BY <1>1, <1>2, <3>1, PrefixOfPrefix DEF p
    <3> QED BY <3>1, <3>2 DEF Searching, FreeBelow
  <2>2. FreeTrail(F, SubSeq(p, 1, w))
    <3>1. w \in 0 .. h
      BY <1>2, <1>6
    <3>2. SubSeq(p, 1, w) = SubSeq(t, 1, w)
      BY <1>1, <1>2, <3>1, PrefixOfPrefix DEF p
    <3> QED BY <1>6, <1>8, <3>2 DEF Searching, FreeBelow, p
  <2> QED BY <2>1, <2>2 DEF FreeBelow
<1>15. RootSet(p, d) = RootSet(t, c)
  BY <1>2, <1>3, <1>9, <1>10 DEF RootSet
<1> QED BY <1>2, <1>8, <1>11, <1>12, <1>13, <1>14, <1>15 DEF Searching, h, p, d, w

\* A new literal on the trail, also behind a new level if no clause is falsified.
LEMMA ExtendKeeps ==
  ASSUME NEW F, NEW t, NEW c, NEW s, NEW u, Searching(F, t, c, s, u),
         NEW l \in Lit, \A n \in 1 .. Len(t) : Idx(t[n]) # Idx(l),
         NEW d, d = c \/ (d = Append(c, Len(t)) /\ FreeTrail(F, t))
  PROVE  LET r == [s EXCEPT ![Idx(l)] = Sign(l)]
         IN /\ Searching(F, Append(t, l), d, r, u)
            /\ RootSet(t, c) \subseteq RootSet(Append(t, l), d)
<1> DEFINE a == Append(t, l)
           r == [s EXCEPT ![Idx(l)] = Sign(l)]
<1>1. /\ t \in Seq(Lit) /\ Len(t) \in Nat /\ c \in Seq(Nat) /\ Len(c) \in Nat /\ u \in Nat
      /\ s \in [Var -> {-1, 1}] /\ u <= Len(t)
  BY DEF Searching, Typed, Ordered
<1>2. /\ a \in Seq(Lit) /\ Len(a) = Len(t) + 1
      /\ \A n \in 1 .. Len(t) : a[n] = t[n]
      /\ a[Len(t) + 1] = l
  BY <1>1, AppendProperties
<1>3. \A n \in 0 .. Len(t) : SubSeq(a, 1, n) = SubSeq(t, 1, n)
  BY <1>1, PrefixOfLonger
<1>4. Idx(l) \in Var /\ Sign(l) \in {-1, 1}
  BY LitFacts
<1>5. r \in [Var -> {-1, 1}] /\ r[Idx(l)] = Sign(l) /\ \A v \in Var : v # Idx(l) => r[v] = s[v]
  BY <1>1, <1>4
<1>6. \A n \in 1 .. Len(t) : t[n] \in Lit /\ Idx(t[n]) \in Var
  <2>1. \A n \in 1 .. Len(t) : t[n] \in Lit
    BY <1>1
  <2> QED BY <2>1, LitFacts, SMTT(60)
<1>7. /\ d \in Seq(Nat) /\ Len(d) \in Nat /\ Len(c) <= Len(d)
      /\ \A n \in 1 .. Len(c) : d[n] = c[n]
      /\ \A n \in 1 .. Len(d) : n \notin 1 .. Len(c) => d[n] = Len(t) /\ FreeTrail(F, t) /\ n = Len(c) + 1
  <2>1. CASE d = c
    BY <1>1, <2>1
  <2>2. CASE d = Append(c, Len(t)) /\ FreeTrail(F, t)
    <3>1. /\ d \in Seq(Nat) /\ Len(d) = Len(c) + 1 /\ d[Len(c) + 1] = Len(t)
          /\ \A n \in 1 .. Len(c) : d[n] = c[n]
      BY <1>1, <2>2, AppendProperties
    <3> QED BY <1>1, <2>2, <3>1
  <2> QED BY <2>1, <2>2
<1>8. RootOf(t, c) \in 0 .. Len(t)
  BY RootInTrail DEF Searching
<1>9. RootOf(a, d) \in {RootOf(t, c), Len(a)} /\ RootOf(t, c) <= RootOf(a, d)
  <2>1. CASE Len(c) > 0
    <3>1. Len(d) > 0 /\ d[1] = c[1]
      BY <1>1, <1>7, <2>1
    <3> QED BY <1>1, <1>8, <2>1, <3>1 DEF RootOf
  <2>2. CASE Len(c) = 0 /\ Len(d) > 0
    <3>1. 1 \in 1 .. Len(d) /\ 1 \notin 1 .. Len(c)
      BY <1>1, <1>7, <2>2
    <3>2. d[1] = Len(t)
      BY <1>7, <3>1
    <3> QED BY <1>1, <2>2, <3>2 DEF RootOf
  <2>3. CASE Len(d) = 0
    <3>1. Len(c) = 0
      BY <1>1, <1>7, <2>3
    <3> QED BY <1>1, <1>2, <2>3, <3>1 DEF RootOf
  <2> QED BY <1>1, <1>7, <2>1, <2>2, <2>3
<1> HIDE DEF a, r
<1>10. Typed(a, d, r, u)
  BY <1>1, <1>2, <1>5, <1>7 DEF Typed
<1>11. Ordered(a, d, u)
  <2>1. ASSUME NEW m \in 1 .. Len(a), NEW n \in 1 .. Len(a), Idx(a[m]) = Idx(a[n]) PROVE m = n
    <3>1. /\ m \in 1 .. Len(t) \/ m = Len(t) + 1
          /\ n \in 1 .. Len(t) \/ n = Len(t) + 1
      BY <1>1, <1>2
    <3>2. CASE m \in 1 .. Len(t) /\ n \in 1 .. Len(t)
      <4>1. a[m] = t[m] /\ a[n] = t[n]
        BY <1>2, <3>2
      <4> QED BY <2>1, <3>2, <4>1 DEF Searching, Ordered
    <3>3. CASE m = Len(t) + 1 /\ n \in 1 .. Len(t)
      BY <1>2, <2>1, <3>3
    <3>4. CASE m \in 1 .. Len(t) /\ n = Len(t) + 1
      BY <1>2, <2>1, <3>4
    <3> QED BY <3>1, <3>2, <3>3, <3>4
  <2>2. ASSUME NEW n \in 1 .. Len(d) PROVE d[n] <= Len(t) /\ d[n] \in Nat
    <3>1. CASE n \in 1 .. Len(c)
      BY <1>1, <1>7, <3>1, SMTT(60) DEF Searching, Ordered
    <3>2. CASE n \notin 1 .. Len(c)
      BY <1>1, <1>7, <3>2
    <3> QED BY <3>1, <3>2
  <2>3. ASSUME NEW m \in 1 .. Len(d), NEW n \in 1 .. Len(d), m <= n PROVE d[m] <= d[n]
    <3>1. CASE n \in 1 .. Len(c)
      <4>1. m \in 1 .. Len(c)
        BY <1>1, <1>7, <2>3, <3>1
      <4>2. d[m] = c[m] /\ d[n] = c[n]
        BY <1>7, <3>1, <4>1
      <4> QED BY <2>3, <3>1, <4>1, <4>2 DEF Searching, Ordered
    <3>2. CASE n \notin 1 .. Len(c)
      BY <1>1, <1>7, <2>2, <3>2
    <3> QED BY <3>1, <3>2
  <2>4. \A n \in 1 .. Len(d) : d[n] <= Len(a)
    BY <1>1, <1>2, <2>2
  <2> QED BY <1>1, <1>2, <2>1, <2>3, <2>4 DEF Ordered
<1>12. SavedOn(a, d, r)
  <2> SUFFICES ASSUME NEW n \in RootOf(a, d) + 1 .. Len(a) PROVE r[Idx(a[n])] = Sign(a[n])
    BY DEF SavedOn
  <2>1. CASE n = Len(a)
    BY <1>2, <1>5, <2>1
  <2>2. CASE n # Len(a)
    <3>1. n \in RootOf(t, c) + 1 .. Len(t) /\ n \in 1 .. Len(t)
      BY <1>1, <1>2, <1>8, <1>9, <2>2
    <3>2. s[Idx(t[n])] = Sign(t[n])
      BY <3>1 DEF Searching, SavedOn
    <3> QED BY <1>2, <1>5, <1>6, <3>1, <3>2
  <2> QED BY <2>1, <2>2
<1>13. FreeBelow(F, a, d, u)
  <2>1. ASSUME NEW n \in 1 .. Len(d) PROVE FreeTrail(F, SubSeq(a, 1, d[n]))
    <3>1. CASE n \in 1 .. Len(c)
      <4>1. d[n] = c[n] /\ c[n] \in 0 .. Len(t)
        BY <1>1, <1>7, <3>1, SMTT(60) DEF Searching, Ordered
      <4> QED BY <1>3, <3>1, <4>1 DEF Searching, FreeBelow
    <3>2. CASE n \notin 1 .. Len(c)
      <4>1. SubSeq(a, 1, d[n]) = SubSeq(t, 1, Len(t)) /\ FreeTrail(F, t)
        BY <1>1, <1>3, <1>7, <3>2
      <4>2. SubSeq(t, 1, Len(t)) = t
        BY <1>1
      <4> QED BY <4>1, <4>2
    <3> QED BY <3>1, <3>2
  <2>2. FreeTrail(F, SubSeq(a, 1, u))
    <3>1. u \in 0 .. Len(t)
      BY <1>1
    <3>2. SubSeq(a, 1, u) = SubSeq(t, 1, u)
      BY <1>3, <3>1
    <3> QED BY <3>2 DEF Searching, FreeBelow
  <2> QED BY <2>1, <2>2 DEF FreeBelow
<1>14. RootSet(t, c) \subseteq RootSet(a, d)
  <2> SUFFICES ASSUME NEW n \in 1 .. RootOf(t, c) PROVE t[n] \in RootSet(a, d)
    BY DEF RootSet
  <2>1. n \in 1 .. RootOf(a, d) /\ a[n] = t[n]
    BY <1>1, <1>2, <1>8, <1>9
  <2> QED BY <2>1 DEF RootSet
<1> QED BY <1>10, <1>11, <1>12, <1>13, <1>14 DEF Searching, a, r

\* A new height up to which the trail has no conflict.
LEMMA UntilKeeps ==
  ASSUME NEW F, NEW t, NEW c, NEW s, NEW u, Searching(F, t, c, s, u),
         NEW w \in 0 .. Len(t), (\E n \in 1 .. Len(c) : w = c[n]) \/ (w = Len(t) /\ FreeTrail(F, t))
  PROVE  Searching(F, t, c, s, w)
<1>1. t \in Seq(Lit) /\ Len(t) \in Nat
  BY SMTT(60) DEF Searching, Typed
<1>2. FreeTrail(F, SubSeq(t, 1, w))
  <2>1. SubSeq(t, 1, Len(t)) = t
    BY <1>1
  <2> QED BY <2>1 DEF Searching, FreeBelow
<1> QED BY <1>1, <1>2 DEF Searching, Typed, Ordered, SavedOn, FreeBelow

\* On the root level the saved phases may change.
LEMMA RootKeeps ==
  ASSUME NEW F, NEW t, NEW s, NEW u, Searching(F, t, <<>>, s, u), FreeTrail(F, t),
         NEW r \in [Var -> {-1, 1}]
  PROVE  Searching(F, t, <<>>, r, Len(t))
<1>1. t \in Seq(Lit) /\ Len(t) \in Nat /\ Len(<<>>) = 0
  BY DEF Searching, Typed
<1>2. SubSeq(t, 1, Len(t)) = t
  BY <1>1
<1>3. SavedOn(t, <<>>, r)
  BY <1>1 DEF SavedOn, RootOf
<1>4. Typed(t, <<>>, r, Len(t))
  BY <1>1 DEF Searching, Typed
<1>5. Ordered(t, <<>>, Len(t))
  BY <1>1 DEF Searching, Ordered
<1>6. FreeBelow(F, t, <<>>, Len(t))
  <2>1. 1 .. Len(<<>>) = {}
    BY <1>1
  <2>2. FreeTrail(F, SubSeq(t, 1, Len(t)))
    BY <1>2
  <2> QED BY <2>1, <2>2 DEF FreeBelow
<1> QED BY <1>3, <1>4, <1>5, <1>6 DEF Searching

-----------------------------------------------------------------------------
\* What the target and best phases are copied from, over values: the copy of
\* height n has the phases p and comes from the trail f.
Copied(F, p, n, f, root) ==
  /\ p \in [Var -> {-1, 0, 1}] /\ n \in Nat /\ f \in Seq(Lit)
  /\ \A l \in ToSet(f) \ root : p[Idx(l)] = Sign(l)
  /\ FreeTrail(F, f) /\ n \in {0, Len(f)}

LEMMA CopiedGrows ==
  ASSUME NEW F, NEW p, NEW n, NEW f, NEW root, Copied(F, p, n, f, root),
         NEW more, root \subseteq more
  PROVE  Copied(F, p, n, f, more)
BY DEF Copied

LEMMA ZeroCopied ==
  ASSUME NEW F, NEW p, NEW n, NEW f, NEW root, Copied(F, p, n, f, root)
  PROVE  Copied(F, p, 0, f, root)
BY DEF Copied

\* The part of the trail without conflict, with the saved phases.
LEMMA SearchCopied ==
  ASSUME NEW F, NEW t, NEW c, NEW s, NEW u, Searching(F, t, c, s, u)
  PROVE  Copied(F, s, u, SubSeq(t, 1, u), RootSet(t, c))
<1>1. t \in Seq(Lit) /\ Len(t) \in Nat /\ u \in 0 .. Len(t) /\ u \in Nat
  BY DEF Searching, Typed, Ordered
<1>2. /\ SubSeq(t, 1, u) \in Seq(Lit) /\ Len(SubSeq(t, 1, u)) = u
      /\ ToSet(SubSeq(t, 1, u)) = {t[k] : k \in 1 .. u}
  BY <1>1, Prefix
<1>3. s \in [Var -> {-1, 0, 1}]
  BY DEF Searching, Typed
<1>4. RootOf(t, c) \in 0 .. Len(t)
  BY RootInTrail DEF Searching
<1>5. ASSUME NEW l \in ToSet(SubSeq(t, 1, u)) \ RootSet(t, c) PROVE s[Idx(l)] = Sign(l)
  <2>1. PICK k \in 1 .. u : l = t[k]
    BY <1>2
  <2>2. k \notin 1 .. RootOf(t, c)
    BY <2>1 DEF RootSet
  <2>3. k \in RootOf(t, c) + 1 .. Len(t)
    BY <1>1, <1>4, <2>2
  <2> QED BY <2>1, <2>3 DEF Searching, SavedOn
<1> QED BY <1>1, <1>2, <1>3, <1>5 DEF Copied, Searching, FreeBelow

LEMMA NothingCopied ==
  ASSUME NEW F, NEW root, \A C \in F : C # {}
  PROVE  Copied(F, AllVars(0), 0, <<>>, root)
<1>1. ToSet(<<>>) = {} /\ <<>> \in Seq(Lit) /\ Len(<<>>) = 0
  BY DEF ToSet
<1>2. \A C \in F : Negated(C) # {}
  BY DEF Negated
<1> QED BY <1>1, <1>2 DEF Copied, FreeTrail, AllVars

-----------------------------------------------------------------------------
\* The invariant in terms of these.
OtherTypes ==
  /\ formula \in Inputs /\ opts \in Options /\ conflict \in BOOLEAN
  /\ forced \in [Var -> {-1, 0, 1}] /\ {conflicts, lastRephase, limStabilize} \subseteq Nat
  /\ stable \in BOOLEAN /\ count \in [BOOLEAN -> Nat] /\ rephased \in Kinds \cup {"none"}

Kept ==
  /\ OtherTypes /\ TargetCleared
  /\ Searching(formula, trail, control, saved, no_conflict_until)
  /\ Copied(formula, target, target_assigned, targetTrail, RootLits)
  /\ Copied(formula, best, best_assigned, bestTrail, RootLits)

LEMMA KeptIsInv == Kept <=> PhasesInv
<1>1. TypeOK <=> /\ OtherTypes /\ Typed(trail, control, saved, no_conflict_until)
                 /\ {target, best} \subseteq [Var -> {-1, 0, 1}]
                 /\ {target_assigned, best_assigned} \subseteq Nat
                 /\ targetTrail \in Seq(Lit) /\ bestTrail \in Seq(Lit)
  BY DEF TypeOK, OtherTypes, Typed
<1>2. ASSUME Typed(trail, control, saved, no_conflict_until)
      PROVE  /\ TrailOrdered <=> Ordered(trail, control, no_conflict_until)
             /\ PhasesSaved <=> SavedOn(trail, control, saved)
             /\ PrefixesFree <=> FreeBelow(formula, trail, control, no_conflict_until)
  <2>1. /\ DOMAIN trail = 1 .. Len(trail) /\ DOMAIN control = 1 .. Len(control)
        /\ RootSize = RootOf(trail, control)
    BY <1>2 DEF Typed, RootSize, RootOf, Level
  <2>2. TrailOrdered <=> Ordered(trail, control, no_conflict_until)
    BY <2>1 DEF TrailOrdered, Ordered
  <2>3. PhasesSaved <=> SavedOn(trail, control, saved)
    BY <2>1 DEF PhasesSaved, SavedOn
  <2>4. ToSet(control) = {control[n] : n \in 1 .. Len(control)}
    BY <2>1 DEF ToSet
  <2>5. PrefixesFree <=> FreeBelow(formula, trail, control, no_conflict_until)
    BY <2>4 DEF PrefixesFree, FreeBelow, ConflictFreeTrail, FreeTrail
  <2> QED BY <2>2, <2>3, <2>5
<1>3. Copied(formula, target, target_assigned, targetTrail, RootLits)
        <=> /\ TargetTrailKept /\ target \in [Var -> {-1, 0, 1}]
            /\ target_assigned \in Nat /\ targetTrail \in Seq(Lit)
  BY DEF Copied, TargetTrailKept, Replays, ConflictFreeTrail, FreeTrail
<1>4. Copied(formula, best, best_assigned, bestTrail, RootLits)
        <=> /\ BestTrailKept /\ best \in [Var -> {-1, 0, 1}]
            /\ best_assigned \in Nat /\ bestTrail \in Seq(Lit)
  BY DEF Copied, BestTrailKept, Replays, ConflictFreeTrail, FreeTrail
<1> QED BY <1>1, <1>2, <1>3, <1>4 DEF Kept, PhasesInv, TargetReplays, Searching

LEMMA StartKept == Init => Kept
<1> SUFFICES ASSUME Init PROVE Kept
  OBVIOUS
<1>1. formula \in Inputs /\ opts \in Options /\ \A C \in formula : C # {}
  <2>1. formula \in Inputs /\ opts \in Options
    BY DEF Init
  <2> QED BY <2>1, PhasesAssumption
<1>2. /\ opts.stabilize \in BOOLEAN /\ opts.stabilizeonly \in BOOLEAN
      /\ Initial \in {-1, 1}
  BY <1>1, PhasesAssumption, InitialSign
<1>3. OtherTypes
  <2>1. stable \in BOOLEAN
    BY <1>2 DEF Init
  <2>2. forced \in [Var -> {-1, 0, 1}] /\ count \in [BOOLEAN -> Nat] /\ conflict \in BOOLEAN
    BY DEF Init, AllVars
  <2>3. {conflicts, lastRephase, limStabilize} \subseteq Nat /\ rephased \in Kinds \cup {"none"}
    BY DEF Init
  <2> QED BY <1>1, <2>1, <2>2, <2>3 DEF OtherTypes
<1>4. Searching(formula, <<>>, <<>>, saved, 0)
  <2>1. /\ saved \in [Var -> {-1, 1}] /\ <<>> \in Seq(Lit) /\ <<>> \in Seq(Nat)
        /\ Len(<<>>) = 0
    BY <1>2 DEF Init, AllVars
  <2>2. Copied(formula, AllVars(0), 0, <<>>, {})
    BY <1>1, NothingCopied
  <2>3. SubSeq(<<>>, 1, 0) = <<>> /\ 1 .. Len(<<>>) = {}
    BY <2>1
  <2>4. FreeBelow(formula, <<>>, <<>>, 0)
    BY <2>2, <2>3 DEF Copied, FreeBelow
  <2>5. RootOf(<<>>, <<>>) = 0
    BY <2>1 DEF RootOf
  <2>6. SavedOn(<<>>, <<>>, saved)
    BY <2>1, <2>5 DEF SavedOn
  <2>7. Ordered(<<>>, <<>>, 0)
    BY <2>1, <2>3 DEF Ordered
  <2> QED BY <2>1, <2>4, <2>6, <2>7 DEF Searching, Typed
<1>5. Copied(formula, AllVars(0), 0, <<>>, RootLits)
  BY <1>1, NothingCopied
<1> QED BY <1>3, <1>4, <1>5 DEF Kept, Init, TargetCleared

-----------------------------------------------------------------------------
\* What holds in both states of a step.
LEMMA Roots ==
  RootLits = RootSet(trail, control) /\ RootLits' = RootSet(trail', control')
BY DEF RootLits, RootSet, RootSize, RootOf, Level

\* A step that copies nothing keeps the invariant if it keeps the search.
LEMMA NothingCopiedKept ==
  ASSUME Kept, OtherTypes', UNCHANGED <<formula, copies>>, RootLits \subseteq RootLits',
         rephased' = rephased,
         Searching(formula', trail', control', saved', no_conflict_until')
  PROVE  Kept'
<1>1. UNCHANGED <<formula, target, best, target_assigned, best_assigned, targetTrail, bestTrail>>
  BY DEF copies
<1>2. TargetCleared'
  BY <1>1 DEF Kept, TargetCleared, AllVars
<1>3. Copied(formula, target, target_assigned, targetTrail, RootLits')
  BY CopiedGrows DEF Kept
<1>4. Copied(formula, best, best_assigned, bestTrail, RootLits')
  BY CopiedGrows DEF Kept
<1> QED BY <1>1, <1>2, <1>3, <1>4 DEF Kept

\* An unassigned variable is not on the trail.
LEMMA NotOnTrail ==
  ASSUME Kept, NEW l \in Lit, Idx(l) \in Unassigned
  PROVE  \A n \in 1 .. Len(trail) : Idx(trail[n]) # Idx(l)
<1>0. SUFFICES ASSUME NEW n \in 1 .. Len(trail), Idx(trail[n]) = Idx(l) PROVE FALSE
  OBVIOUS
<1>1. trail \in Seq(Lit) /\ trail[n] \in Lit /\ trail[n] \in True
  BY DEF Kept, Searching, Typed, True, ToSet
<1>2. Idx(l) \in Var /\ Idx(Idx(l)) = Idx(l) /\ Idx(l) \in Lit
  BY LitFacts
<1>3. trail[n] = Idx(l) \/ trail[n] = -Idx(l)
  <2>1. \A k, m \in Lit : Idx(k) = Idx(m) => k = m \/ k = -m
    BY LitFacts
  <2> HIDE DEF Idx
  <2> QED
    BY ONLY <1>0, <1>1, <1>2, <2>1
<1> QED BY <1>1, <1>3 DEF Unassigned

\* A trail without falsified clauses.
LEMMA NoneFalsified == ASSUME Falsified = {} PROVE FreeTrail(formula, trail)
BY DEF Falsified, FreeTrail, True

LEMMA PropagateKept == ASSUME Kept, NEW l \in Lit, Propagate(l) PROVE Kept'
<1>1. /\ trail' = Append(trail, l) /\ saved' = [saved EXCEPT ![Idx(l)] = Sign(l)]
      /\ UNCHANGED <<formula, opts, control, conflict, forced, no_conflict_until, copies, conflicts,
                     stable, limStabilize, rephased, lastRephase, count>>
      /\ Idx(l) \in Unassigned
  BY DEF Propagate, Assign, schedules, Units
<1>2. OtherTypes'
  BY <1>1 DEF Kept, OtherTypes
<1>3. /\ Searching(formula, Append(trail, l), control, [saved EXCEPT ![Idx(l)] = Sign(l)],
                   no_conflict_until)
      /\ RootSet(trail, control) \subseteq RootSet(Append(trail, l), control)
  BY <1>1, NotOnTrail, ExtendKeeps DEF Kept
<1> QED BY <1>1, <1>2, <1>3, Roots, NothingCopiedKept

LEMMA DecidedPhase ==
  ASSUME Kept, NEW v \in Var, NEW useTarget \in BOOLEAN
  PROVE  DecidePhase(v, useTarget) \in {-1, 1}
<1>1. /\ forced[v] \in {-1, 0, 1} /\ saved[v] \in {-1, 1} /\ target[v] \in {-1, 0, 1}
      /\ Initial \in {-1, 1}
  BY InitialSign DEF Kept, OtherTypes, Searching, Typed, Copied
<1> QED BY <1>1 DEF DecidePhase

LEMMA DecideKept == ASSUME Kept, NEW v \in Var, Decide(v) PROVE Kept'
<1> DEFINE p == DecidePhase(v, UseTarget)
           l == v * p
<1>1. p \in {-1, 1}
  <2>1. UseTarget \in BOOLEAN
    BY DEF UseTarget
  <2> QED BY <2>1, DecidedPhase
<1> HIDE DEF p
<1>2. l \in Lit /\ Idx(l) = v
  <2>1. v \in Int
    BY MaxVarAssumption DEF Var
  <2>2. l = v \/ l = -v
    BY <1>1, <2>1
  <2> QED BY <2>2, LitFacts
<1>3. /\ trail' = Append(trail, l) /\ saved' = [saved EXCEPT ![Idx(l)] = Sign(l)]
      /\ control' = Append(control, Len(trail))
      /\ UNCHANGED <<formula, opts, conflict, forced, no_conflict_until, copies, conflicts,
                     stable, limStabilize, rephased, lastRephase, count>>
      /\ v \in Unassigned /\ Falsified = {}
  BY DEF Decide, Assign, schedules, Idle, p
<1> HIDE DEF l
<1>4. OtherTypes'
  BY <1>3 DEF Kept, OtherTypes
<1>5. \A n \in 1 .. Len(trail) : Idx(trail[n]) # Idx(l)
  BY <1>2, <1>3, NotOnTrail
<1>6. /\ Searching(formula, Append(trail, l), control', [saved EXCEPT ![Idx(l)] = Sign(l)],
                   no_conflict_until)
      /\ RootSet(trail, control) \subseteq RootSet(Append(trail, l), control')
  BY <1>2, <1>3, <1>5, NoneFalsified, ExtendKeeps DEF Kept
<1> QED BY <1>3, <1>4, <1>6, Roots, NothingCopiedKept

LEMMA ConflictKept == ASSUME Kept, Conflict PROVE Kept'
<1>1. /\ conflict' = TRUE /\ conflicts' = conflicts + 1 /\ Level > 0
      /\ no_conflict_until' = control[Level]
      /\ UNCHANGED <<formula, opts, trail, control, saved, forced, copies,
                     stable, limStabilize, rephased, lastRephase, count>>
  BY DEF Conflict, Until, schedules
<1>2. OtherTypes'
  BY <1>1 DEF Kept, OtherTypes
<1>3. Level \in 1 .. Len(control) /\ control[Level] \in 0 .. Len(trail)
  <2>1. control \in Seq(Nat) /\ Level \in 1 .. Len(control) /\ trail \in Seq(Lit)
    BY <1>1 DEF Kept, Searching, Typed, Level
  <2>2. control[Level] \in Nat /\ control[Level] <= Len(trail) /\ Len(trail) \in Nat
    BY <2>1 DEF Kept, Searching, Ordered
  <2> QED BY <2>1, <2>2
<1>4. Searching(formula, trail, control, saved, control[Level])
  BY <1>3, UntilKeeps DEF Kept
<1> QED BY <1>1, <1>2, <1>4, Roots, NothingCopiedKept

LEMMA NoConflictKept == ASSUME Kept, NoConflict PROVE Kept'
<1>1. /\ Falsified = {} /\ no_conflict_until' = Len(trail)
      /\ UNCHANGED <<formula, opts, trail, control, conflict, saved, forced, copies, conflicts,
                     stable, limStabilize, rephased, lastRephase, count>>
  BY DEF NoConflict, schedules, search
<1>2. OtherTypes'
  BY <1>1 DEF Kept, OtherTypes
<1>3. Len(trail) \in 0 .. Len(trail)
  <2>1. trail \in Seq(Lit)
    BY DEF Kept, Searching, Typed
  <2> QED BY <2>1
<1>4. Searching(formula, trail, control, saved, Len(trail))
  BY <1>1, <1>3, NoneFalsified, UntilKeeps DEF Kept
<1> QED BY <1>1, <1>2, <1>4, Roots, NothingCopiedKept

\* Steps that leave the search alone.
LEMMA OtherStepsKept ==
  ASSUME Kept, OtherTypes',
         UNCHANGED <<formula, trail, control, saved, no_conflict_until, copies, rephased>>
  PROVE  Kept'
BY Roots, NothingCopiedKept DEF Kept

LEMMA StabilizingKept == ASSUME Kept, Stabilizing PROVE Kept'
<1>1. /\ stable' = ~stable /\ limStabilize' = conflicts + 1
      /\ UNCHANGED <<formula, opts, trail, control, conflict, saved, forced, no_conflict_until,
                     copies, conflicts, rephased, lastRephase, count>>
  BY DEF Stabilizing, search
<1>2. stable' \in BOOLEAN
  BY <1>1
<1>3. OtherTypes'
  BY <1>1, <1>2 DEF Kept, OtherTypes
<1> QED BY <1>1, <1>3, OtherStepsKept

LEMMA PhaseKept == ASSUME Kept, NEW l \in Forceable, Phase(l) \/ Unphase(l) PROVE Kept'
<1>1. /\ forced' = [forced EXCEPT ![Idx(l)] = Sign(l)] \/ forced' = [forced EXCEPT ![Idx(l)] = 0]
      /\ UNCHANGED <<formula, opts, trail, control, conflict, saved, no_conflict_until,
                     copies, conflicts, stable, limStabilize, rephased, lastRephase, count>>
  BY DEF Phase, Unphase, search, schedules
<1>2. l \in Lit /\ Idx(l) \in Var /\ Sign(l) \in {-1, 1}
  BY PhasesAssumption, LitFacts
<1>3. forced' \in [Var -> {-1, 0, 1}]
  BY <1>1, <1>2 DEF Kept, OtherTypes
<1>4. OtherTypes'
  BY <1>1, <1>3 DEF Kept, OtherTypes
<1> QED BY <1>1, <1>4, OtherStepsKept

-----------------------------------------------------------------------------
\* update_target_and_best: what was copied last, or the largest trail without
\* conflict of the search that is left now.
LEMMA CopiesOfBacktrack ==
  ASSUME Kept
  PROVE  /\ Copied(formula, TargetCopied.phases, TargetCopied.assigned, TargetCopied.from, RootLits)
         /\ Copied(formula, BestCopied.phases, BestCopied.assigned, BestCopied.from, RootLits)
<1>1. Copied(formula, saved, no_conflict_until, ConflictFree, RootLits)
  BY SearchCopied, Roots DEF Kept, ConflictFree
<1>2. Copied(formula, target, OldTarget, targetTrail, RootLits)
  BY ZeroCopied DEF Kept, OldTarget
<1>3. Copied(formula, best, OldBest, bestTrail, RootLits)
  BY ZeroCopied DEF Kept, OldBest
<1> QED BY <1>1, <1>2, <1>3 DEF TargetCopied, BestCopied

LEMMA BacktrackKept ==
  ASSUME Kept, OtherTypes', formula' = formula, RootLits \subseteq RootLits',
         NEW k \in 0 .. Level - 1, Backtrack(k),
         Searching(formula', trail', control', saved', no_conflict_until')
  PROVE  Kept'
<1>1. /\ target' = TargetCopied.phases /\ target_assigned' = TargetCopied.assigned
      /\ targetTrail' = TargetCopied.from
      /\ best' = BestCopied.phases /\ best_assigned' = BestCopied.assigned
      /\ bestTrail' = BestCopied.from
      /\ rephased' = IF Reset THEN "none" ELSE rephased
  BY DEF Backtrack, SetTarget, SetBest
<1>2. Copied(formula, target', target_assigned', targetTrail', RootLits')
  BY <1>1, CopiesOfBacktrack, CopiedGrows
<1>3. Copied(formula, best', best_assigned', bestTrail', RootLits')
  BY <1>1, CopiesOfBacktrack, CopiedGrows
<1>4. TargetCleared'
  <2> SUFFICES ASSUME target_assigned' = 0, rephased' # "none" PROVE target' = AllVars(0)
    BY DEF TargetCleared, AllVars
  <2>1. ~Reset /\ rephased # "none" /\ OldTarget = target_assigned
    BY <1>1 DEF OldTarget
  <2>2. CASE Larger(OldTarget)
    <3>1. no_conflict_until = 0 /\ target_assigned \in Nat
      BY <1>1, <2>2 DEF TargetCopied, Kept, Copied
    <3> QED BY <2>1, <2>2, <3>1 DEF Larger
  <2>3. CASE ~Larger(OldTarget)
    <3>1. target' = target /\ target_assigned = 0
      BY <1>1, <2>1, <2>3 DEF TargetCopied
    <3> QED BY <2>1, <3>1 DEF Kept, TargetCleared
  <2> QED BY <2>2, <2>3
<1> QED BY <1>2, <1>3, <1>4 DEF Kept

LEMMA LevelFacts ==
  ASSUME Kept
  PROVE  Level = Len(control) /\ Level \in Nat /\ trail \in Seq(Lit) /\ control \in Seq(Nat)
BY DEF Kept, Searching, Typed, Level

LEMMA RestartKept == ASSUME Kept, NEW k \in 0 .. Level - 1, Restart(k) PROVE Kept'
<1>1. /\ Backtrack(k) /\ trail' = SubSeq(trail, 1, control[k + 1])
      /\ control' = SubSeq(control, 1, k)
      /\ no_conflict_until' = Min({no_conflict_until, control[k + 1]})
      /\ UNCHANGED <<formula, opts, conflict, saved, forced, conflicts, stable, limStabilize,
                     lastRephase, count>>
      /\ rephased' \in {"none", rephased}
  BY DEF Restart, Backtrack, Below
<1>2. OtherTypes'
  BY <1>1 DEF Kept, OtherTypes
<1>3. k \in 0 .. Len(control) - 1
  BY LevelFacts
<1>4. /\ Searching(formula, SubSeq(trail, 1, control[k + 1]), SubSeq(control, 1, k), saved,
                   Min({no_conflict_until, control[k + 1]}))
      /\ RootSet(SubSeq(trail, 1, control[k + 1]), SubSeq(control, 1, k)) = RootSet(trail, control)
  BY <1>3, CutKeeps DEF Kept
<1> QED BY <1>1, <1>2, <1>4, Roots, BacktrackKept

LEMMA AnalyzeKept == ASSUME Kept, NEW k \in 0 .. Level - 1, NEW l \in Lit, Analyze(k, l) PROVE Kept'
<1> DEFINE p == SubSeq(trail, 1, control[k + 1])
           d == SubSeq(control, 1, k)
           u == Min({no_conflict_until, control[k + 1]})
<1>1. /\ Backtrack(k) /\ trail' = Append(p, l)
      /\ saved' = [saved EXCEPT ![Idx(l)] = Sign(l)]
      /\ control' = d /\ no_conflict_until' = u /\ conflict' = FALSE
      /\ UNCHANGED <<formula, opts, forced, conflicts, stable, limStabilize, lastRephase, count>>
      /\ rephased' \in {"none", rephased} /\ l \in Driven(k)
  BY DEF Analyze, Backtrack, Below, Assign
<1>2. OtherTypes'
  BY <1>1 DEF Kept, OtherTypes
<1>3. k \in 0 .. Len(control) - 1
  BY LevelFacts
<1>4. /\ Searching(formula, p, d, saved, u) /\ RootSet(p, d) = RootSet(trail, control)
      /\ control[k + 1] \in 0 .. Len(trail)
  BY <1>3, CutKeeps DEF Kept
<1>5. /\ Len(p) = control[k + 1] /\ Len(p) \in 0 .. Len(trail)
      /\ \A n \in 1 .. Len(p) : p[n] = trail[n]
  BY <1>4, LevelFacts, Prefix, SMTT(60)
<1> HIDE DEF p, d, u
<1>6. \A n \in 1 .. Len(p) : Idx(p[n]) # Idx(l)
  <2>1. PICK m \in Len(p) + 1 .. Len(trail) : l = -trail[m]
    BY <1>1, <1>5 DEF Driven, Negated
  <2>2. Len(trail) \in Nat /\ m \in 1 .. Len(trail) /\ trail[m] \in Lit
    BY <1>5, LevelFacts, SMTT(60)
  <2>3. Idx(l) = Idx(trail[m])
    BY <2>1, <2>2, LitFacts
  <2> SUFFICES ASSUME NEW n \in 1 .. Len(p), Idx(p[n]) = Idx(l) PROVE FALSE
    OBVIOUS
  <2>4. n \in 1 .. Len(trail) /\ n # m /\ Idx(trail[n]) = Idx(trail[m])
    <3>1. n <= Len(p) /\ m > Len(p) /\ n \in 1 .. Len(trail)
      BY <1>5, <2>2
    <3>2. p[n] = trail[n]
      BY <1>5
    <3> QED BY <2>3, <3>1, <3>2
  <2> QED BY <2>2, <2>4 DEF Kept, Searching, Ordered
<1>7. /\ Searching(formula, Append(p, l), d, [saved EXCEPT ![Idx(l)] = Sign(l)], u)
      /\ RootSet(p, d) \subseteq RootSet(Append(p, l), d)
  BY <1>4, <1>6, ExtendKeeps
<1> QED BY <1>1, <1>2, <1>4, <1>7, Roots, BacktrackKept

LEMMA RephaseKept == ASSUME Kept, Rephase PROVE Kept'
<1>1. PICK b \in {IF Level > 0 THEN BestCopied
                  ELSE [phases |-> best, assigned |-> best_assigned, from |-> bestTrail]} :
        SetBest(b) /\ SetTarget(NoTarget) /\ saved' \in Rephased(Kind(count[stable]), b.phases)
  BY DEF Rephase
<1>2. /\ best' = b.phases /\ best_assigned' = b.assigned /\ bestTrail' = b.from
      /\ target' = AllVars(0) /\ target_assigned' = 0 /\ targetTrail' = <<>>
  BY <1>1 DEF SetBest, SetTarget, NoTarget
<1>3. /\ Falsified = {} /\ trail' = IF Level > 0 THEN Below(0) ELSE trail
      /\ control' = <<>> /\ no_conflict_until' = Len(trail')
      /\ rephased' = Kind(count[stable]) /\ lastRephase' = conflicts
      /\ count' = [count EXCEPT ![stable] = @ + 1]
      /\ UNCHANGED <<formula, opts, conflict, forced, conflicts, stable, limStabilize>>
  BY DEF Rephase, Idle
<1>4. /\ opts \in Options /\ stable \in BOOLEAN /\ count \in [BOOLEAN -> Nat]
      /\ count[stable] \in Nat /\ saved \in [Var -> {-1, 1}]
  BY DEF Kept, OtherTypes, Searching, Typed
<1>5. Kind(count[stable]) \in Kinds
  BY <1>4, KindsOfSchedule
<1>6. Copied(formula, b.phases, b.assigned, b.from, RootLits)
  BY CopiesOfBacktrack DEF Kept
<1>7. saved' \in [Var -> {-1, 1}]
  <2>1. b.phases \in [Var -> {-1, 0, 1}]
    BY <1>6 DEF Copied
  <2> QED BY <1>1, <1>4, <1>5, <2>1, RephasedTypes
<1>8. OtherTypes'
  BY <1>3, <1>4, <1>5 DEF Kept, OtherTypes
<1>9. /\ Searching(formula, trail', <<>>, saved', Len(trail'))
      /\ RootSet(trail', <<>>) = RootSet(trail, control)
  <2>1. CASE Level > 0
    <3>1. trail' = SubSeq(trail, 1, control[0 + 1]) /\ 0 \in 0 .. Len(control) - 1
      BY <1>3, <2>1, LevelFacts DEF Below
    <3>2. SubSeq(control, 1, 0) = <<>>
      BY LevelFacts
    <3>3. /\ Searching(formula, SubSeq(trail, 1, control[0 + 1]), SubSeq(control, 1, 0), saved,
                       Min({no_conflict_until, control[0 + 1]}))
          /\ RootSet(SubSeq(trail, 1, control[0 + 1]), SubSeq(control, 1, 0)) = RootSet(trail, control)
          /\ FreeTrail(formula, SubSeq(trail, 1, control[0 + 1]))
      BY <3>1, CutKeeps DEF Kept
    <3>4. /\ Searching(formula, trail', <<>>, saved, Min({no_conflict_until, control[0 + 1]}))
          /\ RootSet(trail', <<>>) = RootSet(trail, control) /\ FreeTrail(formula, trail')
      BY <3>1, <3>2, <3>3
    <3> QED BY <1>7, <3>4, RootKeeps
  <2>2. CASE ~(Level > 0)
    <3>1. trail' = trail /\ control = <<>>
      BY <1>3, <2>2, LevelFacts, EmptySeq
    <3>2. Searching(formula, trail, <<>>, saved, no_conflict_until)
      BY <3>1 DEF Kept
    <3> QED BY <1>3, <1>7, <3>1, <3>2, NoneFalsified, RootKeeps
  <2> QED BY <2>1, <2>2
<1>10. RootLits' = RootLits
  BY <1>3, <1>9, Roots
<1>11. Copied(formula, target', target_assigned', targetTrail', RootLits')
  <2>1. \A C \in formula : C # {}
    BY PhasesAssumption DEF Kept, OtherTypes
  <2> QED BY <1>2, <2>1, NothingCopied
<1>12. TargetCleared'
  BY <1>2 DEF TargetCleared, AllVars
<1> QED BY <1>2, <1>3, <1>6, <1>8, <1>9, <1>10, <1>11, <1>12 DEF Kept

LEMMA StepKept == Kept /\ [Next]_vars => Kept'
<1> SUFFICES ASSUME Kept, [Next]_vars PROVE Kept'
  OBVIOUS
<1>1. ASSUME NEW l \in Lit, Propagate(l) PROVE Kept'
  BY <1>1, PropagateKept
<1>2. CASE Conflict
  BY <1>2, ConflictKept
<1>3. CASE NoConflict
  BY <1>3, NoConflictKept
<1>4. ASSUME NEW v \in Var, Decide(v) PROVE Kept'
  BY <1>4, DecideKept
<1>5. ASSUME NEW k \in 0 .. Level - 1, Restart(k) PROVE Kept'
  BY <1>5, RestartKept
<1>6. ASSUME NEW k \in 0 .. Level - 1, NEW l \in Lit, Analyze(k, l) PROVE Kept'
  BY <1>6, AnalyzeKept
<1>7. CASE Stabilizing
  BY <1>7, StabilizingKept
<1>8. CASE Rephase
  BY <1>8, RephaseKept
<1>9. ASSUME NEW l \in Forceable, Phase(l) \/ Unphase(l) PROVE Kept'
  BY <1>9, PhaseKept
<1>10. CASE UNCHANGED vars
  <2>1. UNCHANGED <<formula, opts, trail, control, conflict, saved, forced, no_conflict_until,
                    copies, conflicts, stable, limStabilize, rephased, lastRephase, count>>
    BY <1>10 DEF vars, search, schedules
  <2>2. OtherTypes'
    BY <2>1 DEF Kept, OtherTypes
  <2> QED BY <2>1, <2>2, OtherStepsKept
<1> QED BY <1>1, <1>2, <1>3, <1>4, <1>5, <1>6, <1>7, <1>8, <1>9, <1>10 DEF Next

\* Types and the invariants of the trail, with what target and best phases promise.
THEOREM PhasesInvariant == Spec => []PhasesInv
<1>1. Spec => []Kept
  BY StartKept, StepKept, PTL DEF Spec
<1> QED BY <1>1, KeptIsInv, PTL

\* Deciding with the target phases, or the best ones, assigns the largest trail
\* without conflict again, whatever rephasing and restarts did meanwhile
\* (backtrack.cpp, rephase.cpp).
THEOREM TargetIsReplayed == Spec => []TargetReplays
<1>1. PhasesInv => TargetReplays
  BY DEF PhasesInv
<1> QED BY <1>1, PhasesInvariant, PTL
=============================================================================
