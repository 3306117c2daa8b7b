----------------------------- MODULE Recursion -----------------------------
(***************************************************************************)
(* Induction over the natural numbers, and what a recursive function is,   *)
(* stated with sets and functions in place of operators, so that the       *)
(* lemmas can be used for any module.  All follows from the fact that a    *)
(* set of natural numbers has a least element.                             *)
(***************************************************************************)
EXTENDS Integers, WellFoundedInduction, TLAPS

\* A set of natural numbers that is not empty has a least element.
LEMMA LeastOf ==
  ASSUME NEW T \in SUBSET Nat, T # {}
  PROVE  \E x \in T : \A y \in T : x <= y
<1> DEFINE R == {ss \in Nat \X Nat : ss[1] < ss[2]}
<1>1. IsWellFoundedOn(R, Nat)
  BY NatLessThanWellFounded DEF OpToRel
<1>2. \A x \in T, y \in T : y < x => <<y, x>> \in R
  OBVIOUS
<1> HIDE DEF R
<1>3. PICK x \in T : \A y \in T : ~(<<y, x>> \in R)
  BY <1>1, WFMin
<1>4. \A y \in T : ~(y < x)
  BY <1>2, <1>3
<1>5. \A y \in T : x <= y
  BY <1>4
<1> QED
  BY <1>5

\* Induction: a set of natural numbers with 0 and the successor of each of its
\* elements has all of them.
LEMMA InductionOn ==
  ASSUME NEW T \in SUBSET Nat, 0 \in T, \A n \in T : n + 1 \in T
  PROVE  T = Nat
<1> SUFFICES ASSUME T # Nat PROVE FALSE
  OBVIOUS
<1> DEFINE U == Nat \ T
<1>1. U # {} /\ U \in SUBSET Nat
  OBVIOUS
<1>2. PICK x \in U : \A y \in U : x <= y
  BY <1>1, LeastOf
<1>3. x - 1 \in T /\ x \in Nat
  BY <1>2
<1>4. (x - 1) + 1 \in T
  BY <1>3
<1> QED
  BY <1>2, <1>3, <1>4

\* What holds of an argument if it holds of all those of lower rank holds of all.
LEMMA RankInduction ==
  ASSUME NEW D, NEW rank \in [D -> Nat], NEW Good \in SUBSET D,
         \A d \in D : (\A e \in D : rank[e] < rank[d] => e \in Good) => d \in Good
  PROVE  Good = D
<1> DEFINE Bad == D \ Good
<1> DEFINE T == {rank[d] : d \in Bad}
<1> SUFFICES ASSUME Bad # {} PROVE FALSE
  OBVIOUS
<1>1. T \in SUBSET Nat /\ T # {}
  OBVIOUS
<1>2. PICK d \in Bad : \A e \in Bad : rank[d] <= rank[e]
  <2> HIDE DEF T
  <2>1. PICK x \in T : \A y \in T : x <= y
    BY <1>1, LeastOf
  <2> QED
    BY <2>1 DEF T
<1>3. \A e \in D : rank[e] < rank[d] => e \in Good
  BY <1>2
<1> QED
  BY <1>2, <1>3

\* A function on the arguments of a rank below n that stops with a value or goes
\* on with the next argument.
Below(D, rank, n) == {d \in D : rank[d] < n}
Recursive(f, B, step, stop, val) ==
  \A d \in B : f[d] = IF d \in stop THEN val[d] ELSE f[step[d]]

\* Two such functions agree where both are defined.
LEMMA RecursionUnique ==
  ASSUME NEW D, NEW rank \in [D -> Nat], NEW step \in [D -> D], NEW stop, NEW val,
         \A d \in D \ stop : rank[step[d]] < rank[d],
         NEW n \in Nat, NEW m \in Nat, n <= m, NEW f, NEW g,
         Recursive(f, Below(D, rank, n), step, stop, val),
         Recursive(g, Below(D, rank, m), step, stop, val)
  PROVE  \A d \in Below(D, rank, n) : f[d] = g[d]
<1> DEFINE Good == {d \in D : rank[d] < n => f[d] = g[d]}
<1>1. ASSUME NEW d \in D, \A e \in D : rank[e] < rank[d] => e \in Good, rank[d] < n
      PROVE  f[d] = g[d]
  <2>1. d \in Below(D, rank, n) /\ d \in Below(D, rank, m)
    BY <1>1 DEF Below
  <2>2. CASE d \in stop
    BY <2>1, <2>2 DEF Recursive
  <2>3. CASE d \notin stop
    <3>1. step[d] \in D /\ rank[step[d]] < rank[d]
      BY <2>3
    <3>2. rank[step[d]] < n
      BY <1>1, <3>1
    <3>3. f[step[d]] = g[step[d]]
      BY <1>1, <3>1, <3>2
    <3> QED
      BY <2>1, <2>3, <3>3 DEF Recursive
  <2> QED
    BY <2>2, <2>3
<1>2. \A d \in D : (\A e \in D : rank[e] < rank[d] => e \in Good) => d \in Good
  BY <1>1
<1>3. Good = D
  <2>1. Good \in SUBSET D
    OBVIOUS
  <2> HIDE DEF Good
  <2> QED
    BY <1>2, <2>1, RankInduction
<1> QED
  BY <1>3 DEF Below

\* A function that is computed by a loop exists: each turn lowers the rank.
LEMMA TailRecursion ==
  ASSUME NEW D, NEW S, NEW rank \in [D -> Nat], NEW step \in [D -> D], NEW stop,
         NEW val \in [D -> S],
         \A d \in D \ stop : rank[step[d]] < rank[d]
  PROVE  \E f \in [D -> S] : Recursive(f, D, step, stop, val)
<1> DEFINE B(n) == Below(D, rank, n)
<1> DEFINE Good(g, n) == g \in [B(n) -> S] /\ Recursive(g, B(n), step, stop, val)
<1> DEFINE T == {n \in Nat : \E g \in [B(n) -> S] : Good(g, n)}
<1>1. 0 \in T
  <2>1. B(0) = {}
    BY DEF Below
  <2>2. [d \in {} |-> 0] \in [B(0) -> S]
    BY <2>1
  <2>3. Recursive([d \in {} |-> 0], B(0), step, stop, val)
    BY <2>1 DEF Recursive
  <2> HIDE DEF B
  <2> QED
    BY <2>2, <2>3
<1>2. ASSUME NEW n \in T PROVE n + 1 \in T
  <2>1. n \in Nat /\ \E g \in [B(n) -> S] : Good(g, n)
    OBVIOUS
  <2>2. PICK g \in [B(n) -> S] : Recursive(g, B(n), step, stop, val)
    BY <2>1
  <2> DEFINE h == [d \in B(n + 1) |-> IF d \in stop THEN val[d] ELSE g[step[d]]]
  <2>3. \A d \in B(n + 1) \ stop : step[d] \in B(n)
    <3> SUFFICES ASSUME NEW d \in B(n + 1), d \notin stop PROVE step[d] \in B(n)
      OBVIOUS
    <3>1. d \in D /\ rank[d] < n + 1
      BY DEF Below
    <3>2. step[d] \in D /\ rank[step[d]] < rank[d]
      BY <3>1
    <3>3. rank[step[d]] \in Nat /\ rank[d] \in Nat
      BY <3>1, <3>2
    <3> QED
      BY <2>1, <3>1, <3>2, <3>3 DEF Below
  <2>4. B(n + 1) \subseteq D /\ \A d \in B(n) : d \in B(n + 1)
    BY <2>1 DEF Below
  <2>5. h \in [B(n + 1) -> S]
    <3> HIDE DEF B
    <3> QED
      BY <2>2, <2>3, <2>4
  <2>6. Recursive(h, B(n + 1), step, stop, val)
    <3> SUFFICES ASSUME NEW d \in B(n + 1)
                 PROVE  h[d] = IF d \in stop THEN val[d] ELSE h[step[d]]
      BY DEF Recursive
    <3> HIDE DEF B
    <3>1. d \notin stop => step[d] \in B(n) /\ step[d] \in B(n + 1)
      BY <2>3, <2>4
    <3>2. d \notin stop => h[step[d]] = g[step[d]]
      BY <2>2, <2>4, <3>1 DEF Recursive
    <3> QED
      BY <3>2
  <2> HIDE DEF h, B
  <2> QED
    BY <2>1, <2>5, <2>6
<1>3. T = Nat
  <2> HIDE DEF T
  <2>1. T \in SUBSET Nat
    BY DEF T
  <2> QED
    BY <1>1, <1>2, <2>1, InductionOn
<1> DEFINE G(n) == CHOOSE g : g \in [B(n) -> S] /\ Recursive(g, B(n), step, stop, val)
<1>4. ASSUME NEW n \in Nat PROVE G(n) \in [B(n) -> S] /\ Recursive(G(n), B(n), step, stop, val)
  <2> HIDE DEF B
  <2>1. \E g : g \in [B(n) -> S] /\ Recursive(g, B(n), step, stop, val)
    BY <1>3
  <2> QED
    BY <2>1
<1> HIDE DEF G, T
<1> DEFINE f == [d \in D |-> G(rank[d] + 1)[d]]
<1>5. \A d \in D : d \in B(rank[d] + 1) /\ rank[d] + 1 \in Nat
  BY DEF Below
<1>6. f \in [D -> S]
  <2> HIDE DEF B
  <2> QED
    BY <1>4, <1>5
<1>7. ASSUME NEW d \in D PROVE f[d] = IF d \in stop THEN val[d] ELSE f[step[d]]
  <2>1. G(rank[d] + 1)[d] = IF d \in stop THEN val[d] ELSE G(rank[d] + 1)[step[d]]
    <3> HIDE DEF B
    <3> QED
      BY <1>4, <1>5 DEF Recursive
  <2>2. ASSUME d \notin stop PROVE G(rank[d] + 1)[step[d]] = G(rank[step[d]] + 1)[step[d]]
    <3> DEFINE n == rank[step[d]] + 1
    <3> DEFINE m == rank[d] + 1
    <3>1. step[d] \in D /\ rank[step[d]] < rank[d]
      BY <2>2
    <3>2. n \in Nat /\ m \in Nat /\ n <= m
      BY <3>1
    <3>3. Recursive(G(n), B(n), step, stop, val) /\ Recursive(G(m), B(m), step, stop, val)
      BY <1>4, <3>2
    <3>4. step[d] \in B(n)
      BY <1>5, <3>1
    <3> HIDE DEF n, m
    <3>5. \A e \in Below(D, rank, n) : G(n)[e] = G(m)[e]
      BY <3>2, <3>3, RecursionUnique
    <3> QED
      BY <3>4, <3>5 DEF n, m
  <2> QED
    BY <2>1, <2>2
<1> HIDE DEF f
<1> QED
  BY <1>6, <1>7 DEF Recursive

\* A value that is computed by a loop over 1 .. n exists, with those before it: each
\* turn leads from X to X.
Folded(f, a, step, n) ==
  f[0] = a /\ \A k \in 1 .. n : f[k] = step[<<k, f[k - 1]>>]

LEMMA FoldExists ==
  ASSUME NEW X, NEW a \in X, NEW n \in Nat, NEW step \in [(1 .. n) \X X -> X]
  PROVE  \E f \in [0 .. n -> X] : Folded(f, a, step, n)
<1> DEFINE T == {m \in Nat : m <= n => \E f \in [0 .. m -> X] : Folded(f, a, step, m)}
<1>1. 0 \in T
  <2>1. [k \in 0 .. 0 |-> a] \in [0 .. 0 -> X]
    OBVIOUS
  <2>2. Folded([k \in 0 .. 0 |-> a], a, step, 0)
    BY DEF Folded
  <2> QED
    BY <2>1, <2>2
<1>2. ASSUME NEW m \in T, m + 1 <= n PROVE \E f \in [0 .. m + 1 -> X] : Folded(f, a, step, m + 1)
  <2>1. m \in Nat /\ m <= n
    BY <1>2
  <2>2. PICK g \in [0 .. m -> X] : Folded(g, a, step, m)
    BY <2>1
  <2> HIDE DEF T
  <2> DEFINE f == [k \in 0 .. m + 1 |-> IF k = m + 1 THEN step[<<m + 1, g[m]>>] ELSE g[k]]
  <2>3. step[<<m + 1, g[m]>>] \in X
    <3>1. m \in 0 .. m /\ m + 1 \in 1 .. n
      BY <1>2, <2>1
    <3>2. <<m + 1, g[m]>> \in (1 .. n) \X X
      BY <2>2, <3>1
    <3> QED
      BY <3>2
  <2>4. \A k \in 0 .. m + 1 : k # m + 1 => k \in 0 .. m
    BY <2>1
  <2>5. f \in [0 .. m + 1 -> X]
    BY <2>2, <2>3, <2>4
  <2>6. \A k \in 0 .. m : k \in 0 .. m + 1 /\ k # m + 1
    BY <2>1
  <2>7. \A k \in 0 .. m : f[k] = g[k]
    BY <2>6
  <2>8. m + 1 \in 0 .. m + 1
    BY <2>1
  <2>9. f[m + 1] = step[<<m + 1, g[m]>>]
    BY <2>8
  <2> HIDE DEF f
  <2>10. f[0] = a
    <3>1. 0 \in 0 .. m
      BY <2>1
    <3> QED
      BY <2>2, <2>7, <3>1 DEF Folded
  <2>11. ASSUME NEW k \in 1 .. m + 1 PROVE f[k] = step[<<k, f[k - 1]>>]
    <3>1. CASE k = m + 1
      <4>1. k - 1 = m /\ m \in 0 .. m
        BY <2>1, <3>1
      <4> QED
        BY <2>7, <2>9, <3>1, <4>1
    <3>2. CASE k # m + 1
      <4>1. k \in 1 .. m /\ k \in 0 .. m /\ k - 1 \in 0 .. m
        BY <2>1, <3>2
      <4> QED
        BY <2>2, <2>7, <4>1 DEF Folded
    <3> QED
      BY <3>1, <3>2
  <2> QED
    BY <2>5, <2>10, <2>11 DEF Folded
<1>3. T = Nat
  <2>1. T \in SUBSET Nat
    OBVIOUS
  <2>2. \A m \in T : m + 1 \in T
    BY <1>2
  <2> HIDE DEF T
  <2> QED
    BY <1>1, <2>1, <2>2, InductionOn
<1>4. n \in T
  BY <1>3
<1> QED
  BY <1>4
=============================================================================
