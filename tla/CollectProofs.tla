---------------------------- MODULE CollectProofs ----------------------------
(***************************************************************************)
(* No pointer dangles in Collect, for any formula, store and number of     *)
(* collections.                                                            *)
(***************************************************************************)
EXTENDS Collect, Recursion, FiniteSetTheorems, SequenceTheorems

-----------------------------------------------------------------------------
\* What Filtered keeps: the positions of the elements in T, in their order.
Positions(s, T) == {n \in DOMAIN s : s[n] \in T}
UpTo(P, n) == {m \in P : m <= n}

\* Each rank below the size of a finite set of numbers is the rank of one of them.
LEMMA RankOnto ==
  ASSUME NEW P \in SUBSET Nat, IsFiniteSet(P)
  PROVE  /\ Cardinality(P) \in Nat
         /\ \A n \in P : Cardinality(UpTo(P, n)) \in 1 .. Cardinality(P)
         /\ \A m, n \in P : m < n => Cardinality(UpTo(P, m)) < Cardinality(UpTo(P, n))
         /\ \A k \in 1 .. Cardinality(P) : \E n \in P : Cardinality(UpTo(P, n)) = k
<1> DEFINE rank == [n \in P |-> Cardinality(UpTo(P, n))]
<1>1. Cardinality(P) \in Nat
  BY FS_CardinalityType
<1>2. ASSUME NEW n \in P
      PROVE  /\ IsFiniteSet(UpTo(P, n)) /\ Cardinality(UpTo(P, n)) \in Nat
             /\ Cardinality(UpTo(P, n)) \in 1 .. Cardinality(P)
  <2>1. UpTo(P, n) \in SUBSET P /\ n \in UpTo(P, n)
    BY DEF UpTo
  <2>2. IsFiniteSet(UpTo(P, n)) /\ Cardinality(UpTo(P, n)) <= Cardinality(P)
    BY <2>1, FS_Subset
  <2>3. Cardinality(UpTo(P, n)) \in Nat
    BY <2>2, FS_CardinalityType
  <2>4. Cardinality(UpTo(P, n)) # 0
    BY <2>1, <2>2, FS_EmptySet
  <2> QED
    BY <1>1, <2>2, <2>3, <2>4
<1>3. ASSUME NEW m \in P, NEW n \in P, m < n
      PROVE  Cardinality(UpTo(P, m)) < Cardinality(UpTo(P, n))
  <2>1. m \in Nat /\ n \in Nat
    OBVIOUS
  <2>2. UpTo(P, m) \in SUBSET UpTo(P, n) /\ n \in UpTo(P, n) /\ n \notin UpTo(P, m)
    <3>1. ASSUME NEW x \in P, x <= m PROVE x <= n
      <4>1. x \in Nat
        OBVIOUS
      <4> QED
        BY <1>3, <2>1, <3>1, <4>1
    <3>2. n <= n /\ ~(n <= m)
      BY <1>3, <2>1
    <3> QED
      BY <3>1, <3>2 DEF UpTo
  <2>3. UpTo(P, m) # UpTo(P, n)
    BY <2>2
  <2>4. /\ Cardinality(UpTo(P, m)) <= Cardinality(UpTo(P, n))
        /\ Cardinality(UpTo(P, m)) # Cardinality(UpTo(P, n))
    BY <1>2, <2>2, <2>3, FS_Subset
  <2> QED
    BY <1>2, <2>4
<1>4. rank \in [P -> 1 .. Cardinality(P)]
  BY <1>2
<1>5. \A m, n \in P : rank[m] = rank[n] => m = n
  <2> SUFFICES ASSUME NEW m \in P, NEW n \in P, m # n PROVE rank[m] # rank[n]
    OBVIOUS
  <2>1. m \in Nat /\ n \in Nat /\ (m < n \/ n < m)
    OBVIOUS
  <2>2. Cardinality(UpTo(P, m)) # Cardinality(UpTo(P, n))
    BY <1>2, <1>3, <2>1
  <2> QED
    BY <2>2
<1> HIDE DEF rank
<1>6. rank \in Injection(P, 1 .. Cardinality(P))
  BY <1>4, <1>5 DEF Injection, IsInjective
<1>7. IsFiniteSet(1 .. Cardinality(P)) /\ Cardinality(1 .. Cardinality(P)) = Cardinality(P)
  BY <1>1, FS_Interval
<1>8. rank \in Surjection(P, 1 .. Cardinality(P))
  BY <1>6, <1>7, FS_Injection
<1>9. \A k \in 1 .. Cardinality(P) : \E n \in P : rank[n] = k
  BY <1>8 DEF Surjection
<1> QED
  BY <1>1, <1>2, <1>3, <1>9 DEF rank

\* Filtered keeps what is in T, in its order (position p[k] for the k-th).
LEMMA FilteredIs ==
  ASSUME NEW X, NEW s \in Seq(X), NEW T
  PROVE  /\ Filtered(s, T) \in Seq(X)
         /\ Len(Filtered(s, T)) = Cardinality(Positions(s, T))
         /\ Len(Filtered(s, T)) <= Len(s)
         /\ ToSet(Filtered(s, T)) = ToSet(s) \cap T
         /\ \E p \in [DOMAIN Filtered(s, T) -> DOMAIN s] :
              /\ \A k \in DOMAIN Filtered(s, T) : Filtered(s, T)[k] = s[p[k]]
              /\ \A j, k \in DOMAIN Filtered(s, T) : j < k => p[j] < p[k]
<1> DEFINE P == Positions(s, T)
<1> DEFINE f == Filtered(s, T)
<1> DEFINE p == [k \in 1 .. Cardinality(P) |-> Position(s, T, k)]
<1>1. DOMAIN s = 1 .. Len(s) /\ Len(s) \in Nat /\ s \in [1 .. Len(s) -> X]
  BY LenProperties
<1>2. P \in SUBSET (1 .. Len(s)) /\ P \in SUBSET Nat
  BY <1>1 DEF Positions
<1>3. IsFiniteSet(P) /\ Cardinality(P) <= Len(s)
  <2>1. IsFiniteSet(1 .. Len(s)) /\ Cardinality(1 .. Len(s)) = Len(s)
    BY <1>1, FS_Interval, SMTT(60)
  <2> QED
    BY <1>2, <2>1, FS_Subset
<1>4. /\ Cardinality(P) \in Nat
      /\ \A n \in P : Cardinality(UpTo(P, n)) \in 1 .. Cardinality(P)
      /\ \A m, n \in P : m < n => Cardinality(UpTo(P, m)) < Cardinality(UpTo(P, n))
      /\ \A k \in 1 .. Cardinality(P) : \E n \in P : Cardinality(UpTo(P, n)) = k
  <2> HIDE DEF P
  <2> QED
    BY <1>2, <1>3, RankOnto
<1>5. \A n \in DOMAIN s : {m \in 1 .. n : s[m] \in T} = UpTo(P, n)
  BY <1>1 DEF UpTo, Positions
<1>6. ASSUME NEW k \in 1 .. Cardinality(P)
      PROVE  Position(s, T, k) \in P /\ Cardinality(UpTo(P, Position(s, T, k))) = k
  <2>1. PICK n \in P : Cardinality(UpTo(P, n)) = k
    BY <1>4
  <2>2. n \in DOMAIN s /\ s[n] \in T
    BY DEF Positions
  <2>3. Cardinality({m \in 1 .. n : s[m] \in T}) = k
    BY <1>5, <2>1, <2>2
  <2>4. /\ Position(s, T, k) \in DOMAIN s /\ s[Position(s, T, k)] \in T
        /\ Cardinality({m \in 1 .. Position(s, T, k) : s[m] \in T}) = k
    <3> HIDE DEF P
    <3> QED
      BY <2>2, <2>3 DEF Position
  <2> QED
    BY <1>5, <2>4 DEF Positions
<1>7. /\ f = [k \in 1 .. Cardinality(P) |-> s[p[k]]]
      /\ DOMAIN f = 1 .. Cardinality(P) /\ \A k \in DOMAIN f : f[k] = s[p[k]]
  BY DEF Filtered, Positions
<1>8. p \in [1 .. Cardinality(P) -> P] /\ p \in [DOMAIN f -> DOMAIN s]
  <2>1. \A k \in 1 .. Cardinality(P) : p[k] \in P
    BY <1>6
  <2> QED
    BY <1>1, <1>2, <1>7, <2>1
<1>9. \A k \in 1 .. Cardinality(P) : Cardinality(UpTo(P, p[k])) = k
  BY <1>6
<1> HIDE DEF p, f
<1>10. f \in Seq(X) /\ Len(f) = Cardinality(P)
  <2>1. \A k \in 1 .. Cardinality(P) : s[p[k]] \in X
    BY <1>1, <1>2, <1>8
  <2>2. f \in [1 .. Cardinality(P) -> X]
    BY <1>7, <2>1
  <2> HIDE DEF P
  <2> QED
    BY <1>4, <2>2
<1>11. ASSUME NEW j \in DOMAIN f, NEW k \in DOMAIN f, j < k PROVE p[j] < p[k]
  <2>1. p[j] \in P /\ p[k] \in P /\ p[j] \in Nat /\ p[k] \in Nat
    BY <1>2, <1>7, <1>8
  <2>2. Cardinality(UpTo(P, p[j])) = j /\ Cardinality(UpTo(P, p[k])) = k
    BY <1>7, <1>9
  <2>3. j \in Nat /\ k \in Nat
    BY <1>4, <1>7
  <2>4. p[k] # p[j]
    BY <1>11, <2>2, <2>3
  <2>5. ~(p[k] < p[j])
    BY <1>4, <1>11, <2>1, <2>2, <2>3
  <2> QED
    BY <2>1, <2>4, <2>5
<1>12. ToSet(f) \subseteq ToSet(s) \cap T
  <2> SUFFICES ASSUME NEW k \in DOMAIN f PROVE f[k] \in ToSet(s) \cap T
    BY DEF ToSet
  <2>1. p[k] \in P
    BY <1>7, <1>8
  <2>2. p[k] \in DOMAIN s /\ s[p[k]] \in T
    BY <2>1 DEF Positions
  <2> QED
    BY <1>7, <2>2 DEF ToSet
<1>13. ToSet(s) \cap T \subseteq ToSet(f)
  <2> SUFFICES ASSUME NEW n \in DOMAIN s, s[n] \in T PROVE s[n] \in ToSet(f)
    BY DEF ToSet
  <2>1. n \in P
    BY DEF Positions
  <2> DEFINE k == Cardinality(UpTo(P, n))
  <2>2. k \in 1 .. Cardinality(P) /\ k \in Nat
    BY <1>4, <2>1
  <2>3. p[k] \in P /\ Cardinality(UpTo(P, p[k])) = k
    BY <1>8, <1>9, <2>2
  <2>4. ~(n < p[k]) /\ ~(p[k] < n)
    BY <1>4, <2>1, <2>2, <2>3
  <2>5. p[k] = n
    BY <1>2, <2>1, <2>3, <2>4
  <2>6. k \in DOMAIN f /\ f[k] = s[n]
    BY <1>7, <2>2, <2>5
  <2> QED
    BY <2>6 DEF ToSet
<1> QED
  BY <1>3, <1>4, <1>7, <1>8, <1>10, <1>11, <1>12, <1>13 DEF f

\* What is kept of a sequence without repetitions has none.
LEMMA FilteredInjective ==
  ASSUME NEW X, NEW s \in Seq(X), IsInjective(s), NEW T
  PROVE  IsInjective(Filtered(s, T))
<1> DEFINE f == Filtered(s, T)
<1>1. PICK p \in [DOMAIN f -> DOMAIN s] :
        /\ \A k \in DOMAIN f : f[k] = s[p[k]]
        /\ \A j, k \in DOMAIN f : j < k => p[j] < p[k]
  BY FilteredIs
<1>2. f \in Seq(X) /\ DOMAIN f = 1 .. Len(f) /\ Len(f) \in Nat /\ DOMAIN s \in SUBSET Nat
  BY FilteredIs, LenProperties
<1> HIDE DEF f
<1>3. ASSUME NEW j \in DOMAIN f, NEW k \in DOMAIN f, f[j] = f[k] PROVE j = k
  <2>1. p[j] = p[k]
    BY <1>1, <1>3 DEF IsInjective
  <2>2. ~(j < k) /\ ~(k < j)
    BY <1>1, <1>2, <2>1
  <2> QED
    BY <1>2, <2>2
<1> QED
  BY <1>3 DEF IsInjective, f


-----------------------------------------------------------------------------
\* The invariant.  K is the store: the clauses of the list.
K == ToSet(clauses)

ListHolds == IsInjective(clauses) /\ Len(clauses) <= MaxClauses

NoneTwice(t) == \A m, n \in DOMAIN t : Idx(t[m]) = Idx(t[n]) => m = n
TrailHolds ==
  /\ NoneTwice(trail)
  /\ \A j \in DOMAIN control : control[j] <= Len(trail)
  /\ \A i, j \in DOMAIN control : i <= j => control[i] <= control[j]

StoreIs(m, C) == \A c \in Addr : IF c \in C THEN Len(m[c].lits) >= 2 ELSE m[c] = Free
Into(ws, C) == \A n \in DOMAIN ws : ws[n].clause \in C
AllInto(w, C) == \A l \in Lit : Into(w[l], C)

\* Search, and the steps of a reduction that move nothing
AtRest ==
  pc \in {"search", "protect", "mark", "copy", "unprotect"} =>
    /\ StoreIs(mem, K) /\ AllInto(watches, K) /\ Protected \subseteq K
    /\ \A c \in Addr : mem[c].copy = 0
    /\ \A c \in Addr : mem[c].reason <=> c \in Protected /\ pc \notin {"search", "protect"}

\* The copies of a clause that is moved
CopyOf(c) ==
  /\ Moved(c) \in Addr \ K /\ mem[Moved(c)].copy = 0
  /\ Len(mem[Moved(c)].lits) >= 2 /\ ~Collects(Moved(c))
  /\ mem[Moved(c)].reason = mem[c].reason

\* From the copies to the deletion of what they are copies of
NewStore == {Moved(c) : c \in Staying}
Relocating ==
  pc \in {"watches", "reasons", "delete"} =>
    /\ \A c \in Addr : c \in K \/ c \in NewStore \/ mem[c] = Free
    /\ \A c \in K : Len(mem[c].lits) >= 2
    /\ \A c \in Staying : mem[c].copy = 0 \/ CopyOf(c)
    /\ \A c, d \in Staying : Moved(c) = Moved(d) => c = d
    /\ AllInto(watches, IF pc = "watches" THEN K ELSE NewStore)
    /\ Protected \subseteq (IF pc = "delete" THEN NewStore ELSE Staying)
    /\ \A c \in Staying : mem[c].reason <=> (IF pc = "delete" THEN Moved(c) ELSE c) \in Protected

ConflictHolds == IF pc = "search" THEN conflict \in K \cup {0} ELSE conflict = 0

IInv == TypeOK /\ ListHolds /\ TrailHolds /\ ConflictHolds /\ AtRest /\ Relocating

WatchRecord == [clause : Addr, blit : Lit, size : Nat]

-----------------------------------------------------------------------------
\* The loop over the watches of a literal.  What each turn keeps: all it writes
\* points into the store, and the trail only grows.
Loop ==
  [kept : Seq(WatchRecord), mem : [Addr -> ClauseRecord], watches : [Lit -> Seq(WatchRecord)],
   trail : Seq(Lit), reason : [Var -> Addr \cup {0}], conflict : Addr \cup {0}, stop : BOOLEAN]

SameFlags(m) == \A c \in Addr : m[c].copy = mem[c].copy /\ m[c].reason = mem[c].reason
Extends(t) == Len(trail) <= Len(t) /\ \A n \in DOMAIN trail : t[n] = trail[n]
ReasonsInto(t, r) ==
  /\ \A v \in Var : r[v] = reason[v] \/ r[v] \in K
  /\ \A n \in DOMAIN t : n > Len(trail) => r[Idx(t[n])] \in K

Sound ==
  {st \in Loop : /\ Into(st.kept, K) /\ AllInto(st.watches, K)
                 /\ StoreIs(st.mem, K) /\ SameFlags(st.mem)
                 /\ NoneTwice(st.trail) /\ Extends(st.trail)
                 /\ ReasonsInto(st.trail, st.reason)
                 /\ st.conflict \in K \cup {0}}

LEMMA LitFacts ==
  /\ Lit \subseteq Int /\ \A l \in Lit : -l \in Lit /\ Idx(l) \in Var /\ l \in {Idx(l), -Idx(l)}
  /\ Var \subseteq Lit /\ Var \subseteq Nat /\ 0 \notin Lit
<1>1. MaxVar \in Nat
  BY CollectAssumption
<1> QED
  BY <1>1 DEF Lit, Var, Idx

LEMMA AppendInto ==
  ASSUME NEW C, NEW ws \in Seq(WatchRecord), Into(ws, C), NEW w \in WatchRecord, w.clause \in C
  PROVE  Append(ws, w) \in Seq(WatchRecord) /\ Into(Append(ws, w), C)
<1>1. /\ Append(ws, w) \in Seq(WatchRecord)
      /\ Len(Append(ws, w)) = Len(ws) + 1 /\ Len(ws) \in Nat
      /\ \A i \in 1 .. Len(ws) : Append(ws, w)[i] = ws[i]
      /\ Append(ws, w)[Len(ws) + 1] = w
  BY AppendProperties, LenProperties
<1>2. DOMAIN Append(ws, w) = 1 .. Len(ws) + 1 /\ DOMAIN ws = 1 .. Len(ws)
  BY <1>1, LenProperties
<1>3. \A n \in 1 .. Len(ws) + 1 : n \in 1 .. Len(ws) \/ n = Len(ws) + 1
  BY <1>1
<1> QED
  BY <1>1, <1>2, <1>3 DEF Into

LEMMA KeptSound ==
  ASSUME NEW st \in Sound, NEW w \in WatchRecord, w.clause \in K
  PROVE  Kept(st, w) \in Sound
<1>1. st \in Loop
  BY DEF Sound
<1>2. Append(st.kept, w) \in Seq(WatchRecord) /\ Into(Append(st.kept, w), K)
  BY AppendInto DEF Sound, Loop
<1>3. Kept(st, w) \in Loop
  BY <1>1, <1>2 DEF Kept, Loop
<1>4. /\ Kept(st, w).kept = Append(st.kept, w) /\ Kept(st, w).mem = st.mem
      /\ Kept(st, w).watches = st.watches /\ Kept(st, w).trail = st.trail
      /\ Kept(st, w).reason = st.reason /\ Kept(st, w).conflict = st.conflict
  BY <1>1 DEF Kept, Loop
<1> QED
  BY <1>2, <1>3, <1>4 DEF Sound

LEMMA StoppedSound ==
  ASSUME NEW st \in Sound
  PROVE  Stopped(st) \in Sound
<1>1. st \in Loop
  BY DEF Sound
<1>2. Stopped(st) \in Loop
  BY <1>1 DEF Stopped, Loop
<1>3. /\ Stopped(st).kept = st.kept /\ Stopped(st).mem = st.mem
      /\ Stopped(st).watches = st.watches /\ Stopped(st).trail = st.trail
      /\ Stopped(st).reason = st.reason /\ Stopped(st).conflict = st.conflict
  BY <1>1 DEF Stopped, Loop
<1> QED
  BY <1>2, <1>3 DEF Sound

LEMMA ConflictSound ==
  ASSUME NEW st \in Sound, NEW c \in K, c \in Addr
  PROVE  [st EXCEPT !.conflict = c] \in Sound
<1> DEFINE st2 == [st EXCEPT !.conflict = c]
<1>1. st \in Loop
  BY DEF Sound
<1>2. st2 \in Loop
  BY <1>1 DEF Loop
<1>3. /\ st2.kept = st.kept /\ st2.mem = st.mem /\ st2.watches = st.watches
      /\ st2.trail = st.trail /\ st2.reason = st.reason /\ st2.conflict = c
  BY <1>1 DEF Loop
<1> HIDE DEF st2
<1>4. st2 \in Sound
  BY <1>2, <1>3 DEF Sound
<1> QED
  BY <1>4 DEF st2

LEMMA IdxSame ==
  ASSUME NEW k \in Lit, NEW l \in Lit, Idx(k) = Idx(l)
  PROVE  k = l \/ k = -l
BY LitFacts

\* Appending an unassigned literal assigns no variable twice.
LEMMA AppendNoneTwice ==
  ASSUME NEW t \in Seq(Lit), NEW l \in Lit, NoneTwice(t), ~Contains(t, l), ~Contains(t, -l)
  PROVE  /\ Append(t, l) \in Seq(Lit) /\ NoneTwice(Append(t, l))
         /\ Len(Append(t, l)) = Len(t) + 1 /\ Append(t, l)[Len(t) + 1] = l
         /\ \A n \in 1 .. Len(t) : Append(t, l)[n] = t[n] /\ Idx(t[n]) # Idx(l)
<1>1. /\ Append(t, l) \in Seq(Lit) /\ Len(Append(t, l)) = Len(t) + 1 /\ Len(t) \in Nat
      /\ \A n \in 1 .. Len(t) : Append(t, l)[n] = t[n]
      /\ Append(t, l)[Len(t) + 1] = l
  BY AppendProperties, LenProperties
<1>2. DOMAIN t = 1 .. Len(t) /\ DOMAIN Append(t, l) = 1 .. Len(t) + 1
  BY <1>1, LenProperties
<1>3. \A n \in 1 .. Len(t) : t[n] \in Lit /\ t[n] # l /\ t[n] # -l
  BY ElementOfSeq DEF Contains
<1>4. \A n \in 1 .. Len(t) : Idx(t[n]) # Idx(l)
  BY <1>3, IdxSame
<1>5. \A n \in 1 .. Len(t) + 1 : n \in 1 .. Len(t) \/ n = Len(t) + 1
  BY <1>1
<1>6. NoneTwice(Append(t, l))
  <2> SUFFICES ASSUME NEW m \in 1 .. Len(t) + 1, NEW n \in 1 .. Len(t) + 1,
                      Idx(Append(t, l)[m]) = Idx(Append(t, l)[n])
               PROVE  m = n
    BY <1>2 DEF NoneTwice
  <2>1. CASE m \in 1 .. Len(t) /\ n \in 1 .. Len(t)
    BY <1>1, <1>2, <2>1 DEF NoneTwice
  <2>2. CASE m = Len(t) + 1 \/ n = Len(t) + 1
    BY <1>1, <1>4, <1>5, <2>2
  <2> QED
    BY <1>5, <2>1, <2>2
<1> QED
  BY <1>1, <1>4, <1>6

LEMMA AssignedSound ==
  ASSUME trail \in Seq(Lit), NEW st \in Sound, NEW l \in Lit, Value(st, l) = 0, NEW c \in K, c \in Addr
  PROVE  Assigned(st, l, c) \in Sound
<1> DEFINE st2 == Assigned(st, l, c)
<1>1. st \in Loop /\ st.trail \in Seq(Lit) /\ st.reason \in [Var -> Addr \cup {0}] /\ Idx(l) \in Var
  BY LitFacts DEF Sound, Loop
<1>2. ~Contains(st.trail, l) /\ ~Contains(st.trail, -l)
  BY DEF Value
<1>3. /\ Append(st.trail, l) \in Seq(Lit) /\ NoneTwice(Append(st.trail, l))
      /\ Len(Append(st.trail, l)) = Len(st.trail) + 1 /\ Append(st.trail, l)[Len(st.trail) + 1] = l
      /\ \A n \in 1 .. Len(st.trail) :
           Append(st.trail, l)[n] = st.trail[n] /\ Idx(st.trail[n]) # Idx(l)
  BY <1>1, <1>2, AppendNoneTwice DEF Sound
<1> DEFINE r == [st.reason EXCEPT ![Idx(l)] = c]
<1>4. r \in [Var -> Addr \cup {0}] /\ \A v \in Var : r[v] = IF v = Idx(l) THEN c ELSE st.reason[v]
  BY <1>1
<1>5. /\ st2 \in Loop
      /\ st2.kept = st.kept /\ st2.mem = st.mem /\ st2.watches = st.watches
      /\ st2.trail = Append(st.trail, l) /\ st2.reason = r /\ st2.conflict = st.conflict
  BY <1>1, <1>3, <1>4 DEF Assigned, Loop
<1> HIDE DEF st2, r
<1>6. /\ DOMAIN st.trail = 1 .. Len(st.trail) /\ DOMAIN trail = 1 .. Len(trail)
      /\ DOMAIN Append(st.trail, l) = 1 .. Len(st.trail) + 1
      /\ Len(st.trail) \in Nat /\ Len(trail) \in Nat
      /\ \A n \in 1 .. Len(st.trail) : st.trail[n] \in Lit
  BY <1>1, <1>3, LenProperties, ElementOfSeq
<1>7. Extends(st.trail) /\ ReasonsInto(st.trail, st.reason)
  BY DEF Sound
<1>8. Extends(Append(st.trail, l))
  <2>1. \A n \in 1 .. Len(trail) : n \in 1 .. Len(st.trail)
    BY <1>6, <1>7 DEF Extends
  <2> QED
    BY <1>3, <1>6, <1>7, <2>1 DEF Extends
<1>9. ReasonsInto(Append(st.trail, l), r)
  <2>1. \A v \in Var : r[v] = reason[v] \/ r[v] \in K
    BY <1>4, <1>7 DEF ReasonsInto
  <2>2. ASSUME NEW n \in 1 .. Len(st.trail) + 1, n > Len(trail)
        PROVE  r[Idx(Append(st.trail, l)[n])] \in K
    <3>1. CASE n = Len(st.trail) + 1
      BY <1>1, <1>3, <1>4, <3>1
    <3>2. CASE n # Len(st.trail) + 1
      <4>1. n \in 1 .. Len(st.trail)
        BY <1>6, <3>2
      <4>2. st.trail[n] \in Lit /\ Idx(st.trail[n]) \in Var
        BY <1>6, <4>1, LitFacts
      <4>3. st.reason[Idx(st.trail[n])] \in K
        BY <1>6, <1>7, <2>2, <4>1 DEF ReasonsInto
      <4> QED
        BY <1>3, <1>4, <4>1, <4>2, <4>3
    <3> QED
      BY <3>1, <3>2
  <2> QED
    BY <1>6, <2>1, <2>2 DEF ReasonsInto
<1> QED
  BY <1>3, <1>5, <1>8, <1>9 DEF Sound, st2

LEMMA RewatchedSound ==
  ASSUME NEW st \in Sound, NEW w \in WatchRecord, w.clause \in K, NEW lit \in Lit, NEW other \in Lit,
         NEW k \in 3 .. Len(st.mem[w.clause].lits)
  PROVE  Rewatched(st, w, st.mem[w.clause].lits, k, lit, other) \in Sound
<1> DEFINE c == w.clause
<1> DEFINE lits == st.mem[c].lits
<1> DEFINE next == [n \in DOMAIN lits |-> IF n = 1 THEN other ELSE IF n = 2 THEN lits[k]
                                          ELSE IF n = k THEN lit ELSE lits[n]]
<1> DEFINE st2 == Rewatched(st, w, lits, k, lit, other)
<1>1. st \in Loop /\ c \in Addr /\ st.mem \in [Addr -> ClauseRecord]
      /\ st.mem[c] \in ClauseRecord /\ lits \in Seq(Lit)
  BY DEF Sound, Loop, WatchRecord, ClauseRecord
<1>2. DOMAIN lits = 1 .. Len(lits) /\ Len(lits) \in Nat /\ \A n \in 1 .. Len(lits) : lits[n] \in Lit
  BY <1>1, LenProperties, ElementOfSeq
<1>3. lits[k] \in Lit
  BY <1>2
<1>4. next \in Seq(Lit) /\ Len(next) = Len(lits)
  <2>1. next \in [1 .. Len(lits) -> Lit]
    BY <1>2, <1>3
  <2> HIDE DEF next, lits
  <2> QED
    BY <1>2, <2>1
<1> DEFINE r == [st.mem[c] EXCEPT !.lits = next]
<1>5. /\ r \in ClauseRecord /\ r.lits = next /\ r.copy = st.mem[c].copy /\ r.reason = st.mem[c].reason
  <2> HIDE DEF next, lits
  <2> QED
    BY <1>1, <1>4 DEF ClauseRecord
<1> DEFINE m == [st.mem EXCEPT ![c] = r]
<1>6. m \in [Addr -> ClauseRecord] /\ \A d \in Addr : m[d] = IF d = c THEN r ELSE st.mem[d]
  <2> HIDE DEF r
  <2> QED
    BY <1>1, <1>5
<1> DEFINE v == [w EXCEPT !.blit = lit]
<1>7. v \in WatchRecord /\ v.clause \in K
  BY DEF WatchRecord
<1> DEFINE ws == [st.watches EXCEPT ![lits[k]] = Append(st.watches[lits[k]], v)]
<1>8. st.watches \in [Lit -> Seq(WatchRecord)] /\ AllInto(st.watches, K)
  BY DEF Sound, Loop
<1>9. Append(st.watches[lits[k]], v) \in Seq(WatchRecord) /\ Into(Append(st.watches[lits[k]], v), K)
  <2> HIDE DEF lits, v
  <2> QED
    BY <1>3, <1>7, <1>8, AppendInto DEF AllInto
<1>10. ws \in [Lit -> Seq(WatchRecord)] /\ AllInto(ws, K)
  <2> HIDE DEF lits, v
  <2>1. ws \in [Lit -> Seq(WatchRecord)]
    BY <1>3, <1>8, <1>9
  <2>2. \A l \in Lit : ws[l] = IF l = lits[k] THEN Append(st.watches[lits[k]], v) ELSE st.watches[l]
    BY <1>3, <1>8
  <2> HIDE DEF ws
  <2> QED
    BY <1>8, <1>9, <2>1, <2>2 DEF AllInto
<1>11. st2 = [[st EXCEPT !.mem = m] EXCEPT !.watches = ws]
  BY DEF Rewatched
<1> HIDE DEF m, ws, st2, r, v, next, lits
<1>12. /\ st2 \in Loop
       /\ st2.kept = st.kept /\ st2.mem = m /\ st2.watches = ws
       /\ st2.trail = st.trail /\ st2.reason = st.reason /\ st2.conflict = st.conflict
  BY <1>1, <1>6, <1>10, <1>11 DEF Loop
<1>13. StoreIs(m, K) /\ SameFlags(m)
  <2>1. StoreIs(st.mem, K) /\ SameFlags(st.mem) /\ Len(lits) >= 2
    BY <1>1 DEF Sound, StoreIs, lits
  <2>2. ASSUME NEW d \in Addr
        PROVE  /\ IF d \in K THEN Len(m[d].lits) >= 2 ELSE m[d] = Free
               /\ m[d].copy = mem[d].copy /\ m[d].reason = mem[d].reason
    BY <1>4, <1>5, <1>6, <2>1 DEF StoreIs, SameFlags
  <2> QED
    BY <2>2 DEF StoreIs, SameFlags
<1> QED
  BY <1>10, <1>12, <1>13 DEF Sound, st2, lits

LEMMA VisitLongSound ==
  ASSUME trail \in Seq(Lit), NEW st \in Sound, NEW lit \in Lit, NEW w \in WatchRecord, w.clause \in K
  PROVE  VisitLong(st, lit, w) \in Sound
<1> DEFINE lits == st.mem[w.clause].lits
<1> DEFINE other == IF lits[1] = lit THEN lits[2] ELSE lits[1]
<1> DEFINE rest == {k \in 3 .. Len(lits) : Value(st, lits[k]) >= 0}
<1>1. w.clause \in Addr /\ lits \in Seq(Lit) /\ Len(lits) >= 2 /\ st \in Loop
  BY DEF Sound, Loop, WatchRecord, ClauseRecord, StoreIs
<1>2. Len(lits) \in Nat /\ \A k \in 1 .. Len(lits) : lits[k] \in Lit
  <2> HIDE DEF lits
  <2> QED
    BY <1>1, LenProperties, ElementOfSeq
<1>3. other \in Lit
  BY <1>1, <1>2
<1>4. rest # {} => Min(rest) \in 3 .. Len(lits) /\ Min(rest) \in rest
  <2> SUFFICES ASSUME rest # {} PROVE Min(rest) \in rest
    OBVIOUS
  <2>1. rest \in SUBSET Nat
    BY <1>2
  <2> HIDE DEF rest
  <2>2. \E x \in rest : \A y \in rest : x <= y
    BY <2>1, LeastOf
  <2> QED
    BY <2>2 DEF Min
<1>5. \A l : Value(st, l) \in {1, -1, 0}
  BY DEF Value
<1>6. [w EXCEPT !.blit = other] \in WatchRecord /\ [w EXCEPT !.blit = other].clause \in K
  <2> HIDE DEF other
  <2> QED
    BY <1>3 DEF WatchRecord
<1>7. ASSUME NEW l \in Lit
      PROVE [w EXCEPT !.blit = l] \in WatchRecord /\ [w EXCEPT !.blit = l].clause \in K
  BY DEF WatchRecord
<1>8. VisitLong(st, lit, w) =
        CASE Value(st, other) > 0 -> Kept(st, [w EXCEPT !.blit = other])
          [] Value(st, other) <= 0 /\ rest # {} ->
               IF Value(st, lits[Min(rest)]) > 0 THEN Kept(st, [w EXCEPT !.blit = lits[Min(rest)]])
               ELSE Rewatched(st, w, lits, Min(rest), lit, other)
          [] Value(st, other) = 0 /\ rest = {} -> Assigned(Kept(st, w), other, w.clause)
          [] Value(st, other) < 0 /\ rest = {} -> Stopped([Kept(st, w) EXCEPT !.conflict = w.clause])
  BY DEF VisitLong
<1>9. Kept(st, w) \in Sound
  BY KeptSound
<1>10. Value(Kept(st, w), other) = Value(st, other)
  BY <1>1 DEF Value, Kept, Loop
<1> HIDE DEF rest, other
<1>11. CASE Value(st, other) > 0
  <2>1. VisitLong(st, lit, w) = Kept(st, [w EXCEPT !.blit = other])
    BY <1>5, <1>8, <1>11
  <2>2. Kept(st, [w EXCEPT !.blit = other]) \in Sound
    BY <1>6, KeptSound
  <2> QED
    BY <2>1, <2>2
<1>12. CASE Value(st, other) <= 0 /\ rest # {}
  <2>1. VisitLong(st, lit, w) =
          IF Value(st, lits[Min(rest)]) > 0 THEN Kept(st, [w EXCEPT !.blit = lits[Min(rest)]])
          ELSE Rewatched(st, w, lits, Min(rest), lit, other)
    BY <1>5, <1>8, <1>12
  <2>2. lits[Min(rest)] \in Lit
    BY <1>2, <1>4, <1>12
  <2>3. Kept(st, [w EXCEPT !.blit = lits[Min(rest)]]) \in Sound
    BY <1>7, <2>2, KeptSound
  <2>4. Rewatched(st, w, lits, Min(rest), lit, other) \in Sound
    BY <1>3, <1>4, <1>12, RewatchedSound
  <2> QED
    BY <2>1, <2>3, <2>4
<1>13. CASE Value(st, other) = 0 /\ rest = {}
  <2>1. VisitLong(st, lit, w) = Assigned(Kept(st, w), other, w.clause)
    BY <1>5, <1>8, <1>13
  <2> QED
    BY <1>1, <1>3, <1>9, <1>10, <1>13, <2>1, AssignedSound
<1>14. CASE Value(st, other) < 0 /\ rest = {}
  <2>1. VisitLong(st, lit, w) = Stopped([Kept(st, w) EXCEPT !.conflict = w.clause])
    BY <1>5, <1>8, <1>14
  <2> QED
    BY <1>1, <1>9, <2>1, ConflictSound, StoppedSound
<1> QED
  BY <1>5, <1>11, <1>12, <1>13, <1>14

LEMMA VisitSound ==
  ASSUME trail \in Seq(Lit), NEW st \in Sound, NEW lit \in Lit, NEW w \in WatchRecord, w.clause \in K
  PROVE  Visit(lit, st, w) \in Sound
<1>1. st \in Loop /\ w.blit \in Lit /\ w.clause \in Addr
  BY DEF Sound, WatchRecord
<1>2. Kept(st, w) \in Sound
  BY KeptSound
<1>3. Value(Kept(st, w), w.blit) = Value(st, w.blit) /\ Value(st, w.blit) \in {1, -1, 0}
  BY <1>1 DEF Value, Kept, Loop
<1>4. ASSUME ~(Value(st, w.blit) > 0) PROVE VisitBinary(st, w) \in Sound
  <2>1. CASE Value(st, w.blit) < 0
    BY <1>1, <1>2, <2>1, ConflictSound DEF VisitBinary
  <2>2. CASE ~(Value(st, w.blit) < 0)
    <3>1. VisitBinary(st, w) = Assigned(Kept(st, w), w.blit, w.clause)
      BY <2>2 DEF VisitBinary
    <3>2. Value(Kept(st, w), w.blit) = 0
      BY <1>3, <1>4, <2>2
    <3> QED
      BY <1>1, <1>2, <3>1, <3>2, AssignedSound
  <2> QED
    BY <2>1, <2>2
<1>5. VisitLong(st, lit, w) \in Sound /\ Stopped(Kept(st, w)) \in Sound
  BY <1>2, VisitLongSound, StoppedSound
<1> QED
  BY <1>2, <1>4, <1>5 DEF Visit

Start == [kept |-> <<>>, mem |-> mem, watches |-> watches, trail |-> trail,
          reason |-> reason, conflict |-> 0, stop |-> FALSE]

\* Each turn visits the next watch.
LEMMA VisitsAre ==
  ASSUME TypeOK, AtRest, TrailHolds, pc = "search", NEW lit \in Lit
  PROVE  /\ Visits(lit)[0] = Start
         /\ \A n \in 1 .. Len(watches[lit]) :
              Visits(lit)[n] = Visit(lit, Visits(lit)[n - 1], watches[lit][n])
         /\ \A n \in 0 .. Len(watches[lit]) : Visits(lit)[n] \in Sound
<1> DEFINE ws == watches[lit]
<1> DEFINE N == Len(ws)
<1> DEFINE step == [d \in (1 .. N) \X Sound |-> Visit(lit, d[2], ws[d[1]])]
<1>1. /\ ws \in Seq(WatchRecord) /\ N \in Nat /\ trail \in Seq(Lit)
      /\ DOMAIN ws = 1 .. N /\ \A n \in 1 .. N : ws[n] \in WatchRecord
  BY LenProperties, ElementOfSeq DEF TypeOK, WatchRecord
<1>2. \A n \in 1 .. N : ws[n].clause \in K
  BY <1>1 DEF AtRest, AllInto, Into
<1>3. Start \in Sound
  <2>1. Start \in Loop
    <3>1. <<>> \in Seq(WatchRecord) /\ FALSE \in BOOLEAN /\ 0 \in Addr \cup {0}
      OBVIOUS
    <3>2. /\ mem \in [Addr -> ClauseRecord] /\ watches \in [Lit -> Seq(WatchRecord)]
          /\ trail \in Seq(Lit) /\ reason \in [Var -> Addr \cup {0}]
      BY DEF TypeOK, WatchRecord
    <3> QED
      BY <3>1, <3>2 DEF Start, Loop
  <2>2. /\ Start.kept = <<>> /\ Start.mem = mem /\ Start.watches = watches
        /\ Start.trail = trail /\ Start.reason = reason /\ Start.conflict = 0
    BY DEF Start
  <2>3. Into(<<>>, K)
    BY DEF Into
  <2>4. SameFlags(mem) /\ NoneTwice(trail) /\ AllInto(watches, K) /\ StoreIs(mem, K)
    BY DEF SameFlags, TrailHolds, AtRest
  <2>5. Extends(trail) /\ ReasonsInto(trail, reason)
    <3>1. Len(trail) \in Nat /\ DOMAIN trail = 1 .. Len(trail)
      BY <1>1, LenProperties
    <3> QED
      BY <3>1 DEF Extends, ReasonsInto
  <2> QED
    BY <2>1, <2>2, <2>3, <2>4, <2>5 DEF Sound
<1>4. step \in [(1 .. N) \X Sound -> Sound]
  <2>1. \A n \in 1 .. N, st \in Sound : Visit(lit, st, ws[n]) \in Sound
    BY <1>1, <1>2, VisitSound
  <2> HIDE DEF N, ws
  <2> QED
    BY <2>1
<1> DEFINE Turn(f) == [n \in 0 .. N |-> IF n = 0 THEN Start ELSE Visit(lit, f[n - 1], ws[n])]
<1>5. PICK f \in [0 .. N -> Sound] : Folded(f, Start, step, N)
  <2> HIDE DEF step, N
  <2> QED
    BY <1>1, <1>3, <1>4, FoldExists
<1>6. f = Turn(f)
  <2>1. ASSUME NEW n \in 0 .. N PROVE f[n] = IF n = 0 THEN Start ELSE Visit(lit, f[n - 1], ws[n])
    <3>1. CASE n = 0
      BY <1>5, <3>1 DEF Folded
    <3>2. CASE n # 0
      <4>1. n \in 1 .. N /\ n - 1 \in 0 .. N
        BY <1>1, <3>2
      <4>2. f[n] = step[<<n, f[n - 1]>>] /\ f[n - 1] \in Sound
        <5> HIDE DEF step, N
        <5> QED
          BY <1>5, <4>1 DEF Folded
      <4>3. step[<<n, f[n - 1]>>] = Visit(lit, f[n - 1], ws[n])
        <5> HIDE DEF N, ws
        <5> QED
          BY <4>1, <4>2
      <4> QED
        BY <3>2, <4>2, <4>3
    <3> QED
      BY <3>1, <3>2
  <2> HIDE DEF N, step, ws
  <2> QED
    BY <1>5, <2>1
<1>7. Visits(lit) = CHOOSE g : g = Turn(g)
  BY DEF Visits, Start
<1>8. Visits(lit) = Turn(Visits(lit))
  <2> HIDE DEF Turn
  <2> QED
    BY <1>6, <1>7
<1> DEFINE T == {n \in Nat : n <= N => Visits(lit)[n] \in Sound}
<1>9. 0 \in T
  <2>1. 0 \in 0 .. N
    BY <1>1
  <2> QED
    BY <1>3, <1>8, <2>1
<1>10. ASSUME NEW n \in T PROVE n + 1 \in T
  <2> SUFFICES ASSUME n + 1 <= N PROVE Visits(lit)[n + 1] \in Sound
    BY <1>10
  <2>1. n \in Nat /\ n + 1 \in 1 .. N /\ n + 1 \in 0 .. N /\ n + 1 # 0 /\ (n + 1) - 1 = n
    BY <1>1
  <2>2. Visits(lit)[n] \in Sound
    BY <1>1, <2>1
  <2>3. Visits(lit)[n + 1] = Visit(lit, Visits(lit)[n], ws[n + 1])
    BY <1>8, <2>1
  <2> HIDE DEF T, N, ws
  <2> QED
    BY <1>1, <1>2, <2>1, <2>2, <2>3, VisitSound
<1>11. T = Nat
  <2>1. T \in SUBSET Nat
    OBVIOUS
  <2> HIDE DEF T
  <2> QED
    BY <1>9, <1>10, <2>1, InductionOn
<1>12. \A n \in 0 .. N : Visits(lit)[n] \in Sound
  BY <1>1, <1>11
<1>13. Visits(lit)[0] = Start /\ \A n \in 1 .. N : Visits(lit)[n] = Visit(lit, Visits(lit)[n - 1], ws[n])
  <2>1. \A n \in 1 .. N : n \in 0 .. N /\ n # 0
    BY <1>1
  <2>2. 0 \in 0 .. N
    BY <1>1
  <2> QED
    BY <1>8, <2>1, <2>2, SMTT(60)
<1> QED
  BY <1>12, <1>13

LEMMA VisitsSound ==
  ASSUME TypeOK, AtRest, TrailHolds, pc = "search", NEW lit \in Lit
  PROVE  Visits(lit)[Len(watches[lit])] \in Sound
<1>1. Len(watches[lit]) \in Nat
  BY LenProperties DEF TypeOK
<1> QED
  BY <1>1, VisitsAre

-----------------------------------------------------------------------------
\* The protected reasons, by their places on the trail
Prot(t, c, r) ==
  {r[Idx(l)] : l \in ToSet(t) \ (IF Len(c) = 0 THEN ToSet(t) ELSE ToSet(SubSeq(t, 1, c[1])))} \ {0}
UpperReasons(t, c, r, C) ==
  \A n \in DOMAIN t : (Len(c) > 0 /\ n > c[1]) => r[Idx(t[n])] \in C \cup {0}

LEMMA ProtectedIsProt == Protected = Prot(trail, control, reason)
  BY DEF Protected, Prot, RootLits, Level

LEMMA ProtectedIsProtNext == Protected' = Prot(trail', control', reason')
  BY DEF Protected, Prot, RootLits, Level

LEMMA ProtIs ==
  ASSUME NEW t \in Seq(Lit), NoneTwice(t), NEW c \in Seq(Nat), Len(c) > 0 => c[1] <= Len(t),
         NEW r, NEW C
  PROVE  Prot(t, c, r) \subseteq C <=> UpperReasons(t, c, r, C)
<1> DEFINE root == IF Len(c) = 0 THEN ToSet(t) ELSE ToSet(SubSeq(t, 1, c[1]))
<1>1. DOMAIN t = 1 .. Len(t) /\ Len(t) \in Nat /\ Len(c) \in Nat
      /\ \A n \in 1 .. Len(t) : t[n] \in Lit
  BY LenProperties, ElementOfSeq
<1>2. ASSUME NEW n \in DOMAIN t PROVE t[n] \in ToSet(t) \ root <=> Len(c) > 0 /\ n > c[1]
  <2>1. CASE Len(c) = 0
    BY <2>1 DEF ToSet
  <2>2. CASE Len(c) > 0
    <3>1. c[1] \in Nat
      BY <1>1, <2>2, ElementOfSeq
    <3>2. \A i \in 1 .. c[1] : t[i] \in Lit
      BY <1>1, <2>2, <3>1
    <3>3. /\ DOMAIN SubSeq(t, 1, c[1]) = 1 .. c[1]
          /\ \A i \in 1 .. c[1] : SubSeq(t, 1, c[1])[i] = t[i]
      <4>1. /\ SubSeq(t, 1, c[1]) \in Seq(Lit)
            /\ Len(SubSeq(t, 1, c[1])) = IF 1 <= c[1] THEN c[1] - 1 + 1 ELSE 0
            /\ \A i \in 1 .. c[1] - 1 + 1 : SubSeq(t, 1, c[1])[i] = t[1 + i - 1]
        BY <3>1, <3>2, SubSeqProperties
      <4>2. DOMAIN SubSeq(t, 1, c[1]) = 1 .. Len(SubSeq(t, 1, c[1]))
        BY <4>1, LenProperties, SMTT(60)
      <4> QED
        BY <3>1, <4>1, <4>2, SMTT(60)
    <3>4. root = {t[i] : i \in 1 .. c[1]}
      <4>1. root = ToSet(SubSeq(t, 1, c[1]))
        BY <1>1, <2>2
      <4> HIDE DEF root
      <4>2. root = {SubSeq(t, 1, c[1])[i] : i \in 1 .. c[1]}
        BY ONLY <3>3, <4>1 DEF ToSet
      <4> QED
        BY <3>3, <4>2
    <3>5. t[n] \in root <=> n <= c[1]
      <4>1. ASSUME n <= c[1] PROVE t[n] \in root
        <5>1. n \in 1 .. c[1]
          BY <1>1, <3>1, <4>1
        <5> QED
          BY <3>4, <5>1
      <4>2. ASSUME t[n] \in root PROVE n <= c[1]
        <5>1. PICK i \in 1 .. c[1] : t[n] = t[i]
          BY <3>4, <4>2
        <5>2. i \in DOMAIN t
          BY <1>1, <2>2, <3>1
        <5>3. n = i
          BY <5>1, <5>2 DEF NoneTwice
        <5> QED
          BY <3>1, <5>3
      <4> QED
        BY <4>1, <4>2
    <3> QED
      BY <1>1, <2>2, <3>1, <3>5, SMTT(60) DEF ToSet
  <2> QED
    BY <1>1, <2>1, <2>2
<1> HIDE DEF root
<1>3. Prot(t, c, r) = {r[Idx(l)] : l \in ToSet(t) \ root} \ {0}
  BY DEF Prot, root
<1>4. ASSUME Prot(t, c, r) \subseteq C PROVE UpperReasons(t, c, r, C)
  BY <1>2, <1>3, <1>4 DEF UpperReasons
<1>5. ASSUME UpperReasons(t, c, r, C), NEW l \in ToSet(t) \ root PROVE r[Idx(l)] \in C \cup {0}
  <2>1. PICK n \in DOMAIN t : l = t[n]
    BY DEF ToSet
  <2> QED
    BY <1>2, <1>5, <2>1 DEF UpperReasons
<1> QED
  BY <1>3, <1>4, <1>5

-----------------------------------------------------------------------------
\* Each step keeps the invariant.
LEMMA StoreFacts ==
  ASSUME TypeOK
  PROVE  /\ K \subseteq Addr /\ 0 \notin Addr /\ 0 \notin K /\ Free.copy = 0 /\ Free.reason = FALSE
         /\ Free.garbage = FALSE /\ Free.lits = <<>> /\ Free \in ClauseRecord
         /\ Len(trail) \in Nat /\ DOMAIN trail = 1 .. Len(trail)
         /\ \A n \in 1 .. Len(trail) : trail[n] \in Lit
         /\ Level = Len(control) /\ Level \in Nat /\ DOMAIN control = 1 .. Level
         /\ \A j \in 1 .. Level : control[j] \in Nat
         /\ \A c \in Addr : mem[c] \in ClauseRecord
<1>1. clauses \in Seq(Addr) /\ trail \in Seq(Lit) /\ control \in Seq(Nat)
  BY DEF TypeOK
<1>2. K \subseteq Addr
  BY <1>1, LenProperties, ElementOfSeq DEF K, ToSet
<1>3. 0 \notin Addr
  BY CollectAssumption DEF Addr
<1>4. Free \in ClauseRecord
  <2>1. <<>> \in Seq(Lit) /\ FALSE \in BOOLEAN /\ 0 \in Nat /\ 0 \in Addr \cup {0}
    OBVIOUS
  <2> QED
    BY <2>1 DEF Free, Stored, ClauseRecord
<1>5. Free.copy = 0 /\ Free.reason = FALSE /\ Free.garbage = FALSE /\ Free.lits = <<>>
  BY DEF Free, Stored
<1> QED
  BY <1>1, <1>2, <1>3, <1>4, <1>5, LenProperties, ElementOfSeq, SMTT(60) DEF TypeOK, Level

\* During search the root level comes first, the others in their order.
LEMMA ControlFacts ==
  ASSUME TypeOK, TrailHolds
  PROVE  Len(control) > 0 => control[1] <= Len(trail)
BY StoreFacts DEF TrailHolds

LEMMA ProtectedInto ==
  ASSUME TypeOK, TrailHolds, NEW C
  PROVE  Protected \subseteq C <=> UpperReasons(trail, control, reason, C)
BY ProtIs, ProtectedIsProt, ControlFacts DEF TypeOK, TrailHolds

LEMMA ProtectedIntoNext ==
  ASSUME trail' \in Seq(Lit), control' \in Seq(Nat), TrailHolds', NEW C
  PROVE  Protected' \subseteq C <=> UpperReasons(trail', control', reason', C)
<1>1. Len(control') \in Nat /\ DOMAIN control' = 1 .. Len(control')
  BY LenProperties
<1>2. NoneTwice(trail') /\ \A j \in DOMAIN control' : control'[j] <= Len(trail')
  BY DEF TrailHolds, NoneTwice
<1>3. Len(control') > 0 => control'[1] <= Len(trail')
  BY <1>1, <1>2
<1> QED
  BY <1>2, <1>3, ProtIs, ProtectedIsProtNext

LEMMA PropagateLiteralKeeps ==
  ASSUME IInv, PropagateLiteral
  PROVE  IInv'
<1>1. TypeOK /\ TrailHolds /\ AtRest /\ ListHolds /\ pc = "search" /\ pc' = "search"
      /\ propagated < Len(trail) /\ propagated' = propagated + 1
      /\ UNCHANGED <<clauses, control, collected, collections>>
  BY DEF IInv, PropagateLiteral
<1> DEFINE lit == -trail[propagated + 1]
<1>2. lit \in Lit /\ propagated + 1 \in 1 .. Len(trail) /\ propagated \in Nat
  <2>1. propagated \in Nat /\ Len(trail) \in Nat
    BY <1>1, StoreFacts DEF TypeOK
  <2>2. propagated + 1 \in 1 .. Len(trail)
    BY <1>1, <2>1
  <2>3. trail[propagated + 1] \in Lit
    BY <1>1, <2>2, StoreFacts
  <2> QED
    BY <2>1, <2>2, <2>3, LitFacts
<1> DEFINE st == Visits(lit)[Len(watches[lit])]
<1>3. /\ mem' = st.mem /\ trail' = st.trail /\ reason' = st.reason /\ conflict' = st.conflict
      /\ watches' = [st.watches EXCEPT ![lit] = st.kept]
  BY DEF PropagateLiteral
<1>4. st \in Sound
  <2> HIDE DEF lit
  <2> QED
    BY <1>1, <1>2, VisitsSound
<1> HIDE DEF st, lit
<1>5. /\ st \in Loop /\ Into(st.kept, K) /\ AllInto(st.watches, K)
      /\ StoreIs(st.mem, K) /\ SameFlags(st.mem)
      /\ NoneTwice(st.trail) /\ Extends(st.trail)
      /\ ReasonsInto(st.trail, st.reason) /\ st.conflict \in K \cup {0}
  BY <1>4 DEF Sound
<1>6. /\ st.kept \in Seq(WatchRecord) /\ mem' \in [Addr -> ClauseRecord]
      /\ st.watches \in [Lit -> Seq(WatchRecord)] /\ trail' \in Seq(Lit)
      /\ reason' \in [Var -> Addr \cup {0}] /\ conflict' \in Addr \cup {0}
  BY <1>3, <1>5 DEF Loop
<1>7. watches' \in [Lit -> Seq(WatchRecord)] /\ AllInto(watches', K)
  <2>1. watches' \in [Lit -> Seq(WatchRecord)]
    BY <1>2, <1>3, <1>6
  <2>2. \A l \in Lit : watches'[l] = IF l = lit THEN st.kept ELSE st.watches[l]
    BY <1>2, <1>3, <1>6
  <2> QED
    BY <1>5, <2>1, <2>2 DEF AllInto
<1>8. Len(trail') \in Nat /\ DOMAIN trail' = 1 .. Len(trail') /\ Len(trail) <= Len(trail')
  BY <1>3, <1>5, <1>6, LenProperties DEF Extends
<1>9. TypeOK'
  <2>1. propagated' \in 0 .. Len(trail')
    BY <1>1, <1>2, <1>8, StoreFacts
  <2> QED
    BY <1>1, <1>6, <1>7, <2>1 DEF TypeOK, WatchRecord
<1>10. K' = K /\ ListHolds'
  BY <1>1 DEF K, ListHolds
<1>11. TrailHolds'
  <2>1. NoneTwice(trail)'
    BY <1>3, <1>5 DEF NoneTwice
  <2>2. \A j \in DOMAIN control : control[j] <= Len(trail')
    BY <1>1, <1>8, StoreFacts DEF TrailHolds
  <2> QED
    BY <1>1, <2>1, <2>2 DEF TrailHolds
<1>12. Protected' \subseteq K
  <2>1. UpperReasons(trail, control, reason, K)
    BY <1>1, ProtectedInto DEF AtRest
  <2>2. ASSUME NEW n \in DOMAIN trail', Len(control) > 0, n > control[1]
        PROVE  reason'[Idx(trail'[n])] \in K \cup {0}
    <3>1. CASE n > Len(trail)
      BY <1>3, <1>5, <3>1 DEF ReasonsInto
    <3>2. CASE ~(n > Len(trail))
      <4>1. n \in DOMAIN trail
        BY <1>1, <1>8, <3>2, StoreFacts
      <4>2. trail'[n] = trail[n] /\ Idx(trail[n]) \in Var
        BY <1>1, <1>3, <1>5, <4>1, StoreFacts, LitFacts DEF Extends
      <4>3. reason[Idx(trail[n])] \in K \cup {0}
        BY <2>1, <2>2, <4>1 DEF UpperReasons
      <4> QED
        BY <1>3, <1>5, <4>2, <4>3 DEF ReasonsInto
    <3> QED
      BY <3>1, <3>2
  <2>3. UpperReasons(trail', control', reason', K)
    BY <1>1, <2>2 DEF UpperReasons
  <2>4. control' \in Seq(Nat)
    BY <1>1 DEF TypeOK
  <2> QED
    BY <1>6, <1>11, <2>3, <2>4, ProtectedIntoNext
<1>13. AtRest'
  <2>1. StoreIs(mem', K) /\ \A c \in Addr : mem'[c].copy = 0 /\ mem'[c].reason = FALSE
    <3>1. \A c \in Addr : mem[c].copy = 0 /\ mem[c].reason = FALSE
      BY <1>1, StoreFacts DEF AtRest, ClauseRecord
    <3> QED
      BY <1>3, <1>5, <3>1 DEF SameFlags
  <2>2. StoreIs(mem, K)' /\ AllInto(watches, K)'
    BY <1>7, <1>10, <2>1 DEF StoreIs, AllInto, Into
  <2> QED
    BY <1>1, <1>10, <1>12, <2>1, <2>2 DEF AtRest
<1>14. ConflictHolds' /\ Relocating'
  BY <1>1, <1>3, <1>5, <1>10 DEF ConflictHolds, Relocating
<1> QED
  BY <1>9, <1>10, <1>11, <1>13, <1>14 DEF IInv

LEMMA PrefixIs ==
  ASSUME NEW X, NEW s \in Seq(X), NEW m \in 0 .. Len(s)
  PROVE  /\ SubSeq(s, 1, m) \in Seq(X) /\ Len(SubSeq(s, 1, m)) = m
         /\ \A i \in 1 .. m : SubSeq(s, 1, m)[i] = s[i]
<1>1. Len(s) \in Nat /\ m \in Int /\ m >= 0
  BY LenProperties
<1>2. \A i \in 1 .. m : s[i] \in X
  <2>1. \A i \in 1 .. m : i \in 1 .. Len(s)
    BY <1>1
  <2> QED
    BY <2>1, ElementOfSeq
<1>3. /\ SubSeq(s, 1, m) \in Seq(X) /\ Len(SubSeq(s, 1, m)) = IF 1 <= m THEN m - 1 + 1 ELSE 0
      /\ \A i \in 1 .. m - 1 + 1 : SubSeq(s, 1, m)[i] = s[1 + i - 1]
  BY <1>1, <1>2, SubSeqProperties
<1>4. \A i \in 1 .. m : i \in 1 .. m - 1 + 1 /\ 1 + i - 1 = i
  BY <1>1
<1> QED
  BY <1>1, <1>3, <1>4

LEMMA DecideKeeps ==
  ASSUME IInv, NEW l \in Lit, Decide(l)
  PROVE  IInv'
<1>1. /\ TypeOK /\ TrailHolds /\ AtRest /\ ListHolds /\ pc = "search" /\ pc' = "search" /\ conflict = 0
      /\ ~Contains(trail, l) /\ ~Contains(trail, -l) /\ propagated = Len(trail)
      /\ control' = Append(control, Len(trail)) /\ trail' = Append(trail, l)
      /\ reason' = [reason EXCEPT ![Idx(l)] = 0]
      /\ mem' = mem /\ clauses' = clauses /\ watches' = watches
      /\ UNCHANGED <<propagated, conflict, collected, collections>>
  BY DEF IInv, Decide, Quiet, store
<1>2. /\ Level = Len(control) /\ Level \in Nat /\ DOMAIN control = 1 .. Level
      /\ Len(trail) \in Nat /\ DOMAIN trail = 1 .. Len(trail)
      /\ \A n \in 1 .. Len(trail) : trail[n] \in Lit /\ Idx(trail[n]) \in Var
      /\ \A j \in 1 .. Level : control[j] \in Nat
  BY <1>1, StoreFacts, LitFacts
<1>3. /\ trail' \in Seq(Lit) /\ NoneTwice(trail') /\ Len(trail') = Len(trail) + 1 /\ trail'[Len(trail) + 1] = l
      /\ \A n \in 1 .. Len(trail) : trail'[n] = trail[n] /\ Idx(trail[n]) # Idx(l)
  <2>1. trail \in Seq(Lit) /\ NoneTwice(trail)
    BY <1>1 DEF TypeOK, TrailHolds
  <2> QED
    BY <1>1, <2>1, AppendNoneTwice, SMTT(60)
<1>4. /\ control' \in Seq(Nat) /\ Len(control') = Level + 1 /\ control'[Level + 1] = Len(trail)
      /\ \A j \in 1 .. Level : control'[j] = control[j]
  <2>1. control \in Seq(Nat)
    BY <1>1 DEF TypeOK
  <2> QED
    BY <1>1, <1>2, <2>1, AppendProperties
<1>5. DOMAIN control' = 1 .. Level + 1 /\ DOMAIN trail' = 1 .. Len(trail) + 1
  BY <1>2, <1>3, <1>4, LenProperties
<1>6. Idx(l) \in Var /\ reason' \in [Var -> Addr \cup {0}]
      /\ \A v \in Var : reason'[v] = IF v = Idx(l) THEN 0 ELSE reason[v]
  BY <1>1, LitFacts DEF TypeOK
<1>7. \A j \in 1 .. Level + 1 : j \in 1 .. Level \/ j = Level + 1
  BY <1>2
<1>8. TrailHolds'
  <2>1. \A j \in 1 .. Level : control[j] <= Len(trail)
    BY <1>1, <1>2 DEF TrailHolds
  <2>2. \A j \in 1 .. Level + 1 : control'[j] <= Len(trail)
    BY <1>2, <1>4, <1>7, <2>1, SMTT(60)
  <2>3. \A j \in 1 .. Level + 1 : control'[j] <= Len(trail')
    BY <1>2, <1>3, <1>4, <1>7, <2>2
  <2>4. ASSUME NEW i \in 1 .. Level + 1, NEW j \in 1 .. Level + 1, i <= j
        PROVE  control'[i] <= control'[j]
    <3>1. CASE j = Level + 1
      BY <1>4, <2>2, <3>1
    <3>2. CASE j # Level + 1
      <4>1. i \in 1 .. Level /\ j \in 1 .. Level
        BY <1>2, <2>4, <3>2
      <4> QED
        BY <1>1, <1>2, <1>4, <2>4, <4>1 DEF TrailHolds
    <3> QED
      BY <3>1, <3>2
  <2> QED
    BY <1>3, <1>5, <2>3, <2>4 DEF TrailHolds, NoneTwice
<1>9. Protected' \subseteq K
  <2>1. UpperReasons(trail, control, reason, K)
    BY <1>1, ProtectedInto DEF AtRest
  <2>2. ASSUME NEW n \in 1 .. Len(trail) + 1, n > control'[1]
        PROVE  reason'[Idx(trail'[n])] \in K \cup {0}
    <3>1. CASE n = Len(trail) + 1
      BY <1>3, <1>6, <3>1
    <3>2. CASE n # Len(trail) + 1
      <4>1. n \in 1 .. Len(trail)
        BY <1>2, <3>2
      <4>2. Level > 0
        BY <1>2, <1>4, <2>2, <4>1
      <4>3. control'[1] = control[1]
        BY <1>2, <1>4, <4>2
      <4>4. reason[Idx(trail[n])] \in K \cup {0}
        BY <1>2, <2>1, <2>2, <4>1, <4>2, <4>3 DEF UpperReasons
      <4> QED
        BY <1>2, <1>3, <1>6, <4>1, <4>4
    <3> QED
      BY <3>1, <3>2
  <2>3. UpperReasons(trail', control', reason', K)
    BY <1>5, <2>2 DEF UpperReasons
  <2> QED
    BY <1>3, <1>4, <1>8, <2>3, ProtectedIntoNext
<1>10. K' = K /\ ListHolds'
  BY <1>1 DEF K, ListHolds
<1>11. TypeOK'
  <2>1. propagated' \in 0 .. Len(trail')
    BY <1>1, <1>2, <1>3
  <2> QED
    BY <1>1, <1>3, <1>4, <1>6, <2>1 DEF TypeOK
<1>12. AtRest'
  <2>1. \A c \in Addr : mem[c].copy = 0 /\ mem[c].reason = FALSE
    BY <1>1, StoreFacts, SMTT(60) DEF AtRest, ClauseRecord
  <2>2. StoreIs(mem, K)' /\ AllInto(watches, K)'
    BY <1>1, <1>10 DEF AtRest, StoreIs, AllInto, Into
  <2> QED
    BY <1>1, <1>9, <1>10, <2>1, <2>2 DEF AtRest
<1>13. ConflictHolds' /\ Relocating'
  BY <1>1, <1>10 DEF IInv, ConflictHolds, Relocating
<1> QED
  BY <1>8, <1>10, <1>11, <1>12, <1>13 DEF IInv

\* Jumping below the level of a driving literal keeps the trail; what is protected
\* afterwards is what was, and the reason of the driving literal (backtrack).
Drives(driving, k) ==
  \/ driving = <<>>
  \/ \E l \in Lit : driving = <<l>> /\ \A n \in 1 .. control[k + 1] : Idx(trail[n]) # Idx(l)

LEMMA JumpKeeps ==
  ASSUME TypeOK, TrailHolds, NEW k \in 0 .. Level - 1, NEW driving, Drives(driving, k),
         NEW r \in Addr \cup {0}, Jump(k, driving, r),
         NEW C, r \in C \cup {0}, Protected \subseteq C
  PROVE  /\ control' \in Seq(Nat) /\ trail' \in Seq(Lit) /\ reason' \in [Var -> Addr \cup {0}]
         /\ propagated' \in 0 .. Len(trail') /\ TrailHolds' /\ Protected' \subseteq C
<1> DEFINE b == control[k + 1]
<1> DEFINE prefix == SubSeq(trail, 1, b)
<1> DEFINE dvars == {Idx(l) : l \in ToSet(driving)}
<1>1. /\ Level = Len(control) /\ Level \in Nat /\ DOMAIN control = 1 .. Level
      /\ Len(trail) \in Nat /\ DOMAIN trail = 1 .. Len(trail)
      /\ \A n \in 1 .. Len(trail) : trail[n] \in Lit /\ Idx(trail[n]) \in Var
      /\ \A j \in 1 .. Level : control[j] \in Nat
      /\ control \in Seq(Nat) /\ trail \in Seq(Lit)
  BY StoreFacts, LitFacts DEF TypeOK
<1>2. k + 1 \in 1 .. Level /\ k \in Nat /\ b \in Nat /\ b <= Len(trail)
  <2>1. k + 1 \in 1 .. Level /\ k \in Nat
    BY <1>1
  <2> QED
    BY <1>1, <2>1, SMTT(60) DEF TrailHolds
<1>3. prefix \in Seq(Lit) /\ Len(prefix) = b /\ \A n \in 1 .. b : prefix[n] = trail[n]
  <2>1. b \in 0 .. Len(trail)
    BY <1>1, <1>2
  <2> QED
    BY <1>1, <2>1, PrefixIs
<1>4. /\ control' \in Seq(Nat) /\ Len(control') = k
      /\ \A j \in 1 .. k : control'[j] = control[j]
  <2>1. control' = SubSeq(control, 1, k) /\ k \in 0 .. Len(control)
    BY <1>1, <1>2 DEF Jump
  <2> QED
    BY <1>1, <2>1, PrefixIs, SMTT(60)
<1>5. DOMAIN control' = 1 .. k
  BY <1>4, LenProperties
<1>6. driving \in Seq(Lit) /\ Len(driving) \in {0, 1}
      /\ \A m \in 1 .. Len(driving) : m = 1 /\ \A n \in 1 .. b : Idx(trail[n]) # Idx(driving[1])
  <2>1. CASE driving = <<>>
    BY <2>1
  <2>2. CASE \E l \in Lit : driving = <<l>> /\ \A n \in 1 .. b : Idx(trail[n]) # Idx(l)
    <3>1. PICK l \in Lit : driving = <<l>> /\ \A n \in 1 .. b : Idx(trail[n]) # Idx(l)
      BY <2>2
    <3>2. driving \in Seq(Lit) /\ Len(driving) = 1 /\ driving[1] = l
      BY ONLY <3>1
    <3>3. \A m \in 1 .. Len(driving) : m = 1
      BY <3>2
    <3> QED
      BY <3>1, <3>2, <3>3
  <2> QED
    BY <2>1, <2>2 DEF Drives
<1>7. /\ trail' \in Seq(Lit) /\ Len(trail') = b + Len(driving)
      /\ \A n \in 1 .. b : trail'[n] = trail[n]
      /\ \A n \in b + 1 .. b + Len(driving) : n = b + 1 /\ Len(driving) = 1 /\ trail'[n] = driving[1]
  <2>1. trail' = prefix \o driving
    BY DEF Jump
  <2> HIDE DEF prefix
  <2>2. /\ prefix \o driving \in Seq(Lit) /\ Len(prefix \o driving) = b + Len(driving)
        /\ \A i \in 1 .. b + Len(driving) :
             (prefix \o driving)[i] = IF i <= b THEN prefix[i] ELSE driving[i - b]
    <3>1. /\ prefix \o driving \in Seq(Lit) /\ Len(prefix \o driving) = Len(prefix) + Len(driving)
          /\ \A i \in 1 .. Len(prefix) + Len(driving) :
               (prefix \o driving)[i] = IF i <= Len(prefix) THEN prefix[i] ELSE driving[i - Len(prefix)]
      BY ONLY <1>3, <1>6, ConcatProperties, SMTT(60)
    <3> QED
      BY <1>3, <3>1
  <2>3. \A n \in 1 .. b : n \in 1 .. b + Len(driving) /\ n <= b
    BY <1>2, <1>6
  <2>4. \A n \in b + 1 .. b + Len(driving) :
          n \in 1 .. b + Len(driving) /\ ~(n <= b) /\ n = b + 1 /\ n - b = 1 /\ Len(driving) = 1
    BY <1>2, <1>6, SMTT(60)
  <2> QED
    BY <1>3, <2>1, <2>2, <2>3, <2>4, SMTT(60)
<1> HIDE DEF prefix
<1>8. DOMAIN trail' = 1 .. b + Len(driving)
  BY <1>7, LenProperties
<1>9. \A n \in 1 .. b + Len(driving) : n \in 1 .. b \/ n \in b + 1 .. b + Len(driving)
  BY <1>2, <1>6
<1>10. NoneTwice(trail')
  <2> SUFFICES ASSUME NEW m \in 1 .. b + Len(driving), NEW n \in 1 .. b + Len(driving),
                      Idx(trail'[m]) = Idx(trail'[n])
               PROVE  m = n
    BY <1>8 DEF NoneTwice
  <2>1. CASE m \in 1 .. b /\ n \in 1 .. b
    <3>1. m \in DOMAIN trail /\ n \in DOMAIN trail
      BY <1>1, <1>2, <2>1, SMTT(60)
    <3> QED
      BY <1>7, <2>1, <3>1 DEF TrailHolds, NoneTwice
  <2>2. CASE m \in b + 1 .. b + Len(driving) /\ n \in b + 1 .. b + Len(driving)
    BY <1>7, <2>2
  <2>3. CASE m \in 1 .. b /\ n \in b + 1 .. b + Len(driving)
    BY <1>6, <1>7, <2>3, SMTT(60)
  <2>4. CASE n \in 1 .. b /\ m \in b + 1 .. b + Len(driving)
    BY <1>6, <1>7, <2>4, SMTT(60)
  <2> QED
    BY <1>9, <2>1, <2>2, <2>3, <2>4
<1>11. TrailHolds'
  <2>1. \A i, j \in 1 .. k : i <= j => control'[i] <= control'[j]
    <3>1. \A i \in 1 .. k : i \in DOMAIN control
      BY <1>1, <1>2
    <3> QED
      BY <1>4, <3>1 DEF TrailHolds
  <2>2. ASSUME NEW j \in 1 .. k PROVE control'[j] <= Len(trail')
    <3>1. j \in DOMAIN control /\ k + 1 \in DOMAIN control /\ j <= k + 1
      BY <1>1, <1>2
    <3>2. control[j] <= b
      BY <3>1 DEF TrailHolds
    <3>3. control[j] \in Nat
      BY <1>1, <3>1
    <3> QED
      BY <1>2, <1>4, <1>6, <1>7, <3>2, <3>3, SMTT(60)
  <2> QED
    BY <1>5, <1>10, <2>1, <2>2 DEF TrailHolds, NoneTwice
<1>12. reason' = [v \in Var |-> IF v \in dvars THEN r
                                ELSE IF \E n \in 1 .. b : Idx(trail[n]) = v THEN reason[v] ELSE 0]
  BY DEF Jump
<1>13. reason' \in [Var -> Addr \cup {0}]
  BY <1>12 DEF TypeOK
<1>14. propagated' \in 0 .. Len(trail')
  BY <1>2, <1>6, <1>7 DEF Jump
<1>15. UpperReasons(trail', control', reason', C)
  <2>1. UpperReasons(trail, control, reason, C)
    BY ProtectedInto
  <2> SUFFICES ASSUME NEW n \in 1 .. b + Len(driving), k > 0, n > control'[1]
               PROVE  reason'[Idx(trail'[n])] \in C \cup {0}
    BY <1>4, <1>8 DEF UpperReasons
  <2>2. control'[1] = control[1] /\ Len(control) > 0
    BY <1>1, <1>2, <1>4, SMTT(60)
  <2>3. CASE n \in b + 1 .. b + Len(driving)
    <3>1. Len(driving) = 1 /\ trail'[n] = driving[1]
      BY <1>7, <2>3
    <3>2. DOMAIN driving = 1 .. Len(driving)
      BY <1>6, LenProperties
    <3>3. trail'[n] \in ToSet(driving) /\ Idx(trail'[n]) \in Var
      <4>1. 1 \in DOMAIN driving
        BY <3>1, <3>2
      <4>2. driving[1] \in Lit
        BY <1>6, <3>1
      <4> QED
        BY <3>1, <4>1, <4>2, LitFacts DEF ToSet
    <3> QED
      BY <1>12, <3>3
  <2>4. CASE n \in 1 .. b
    <3>1. n \in DOMAIN trail /\ trail'[n] = trail[n] /\ Idx(trail[n]) \in Var
      BY <1>1, <1>2, <1>7, <2>4, SMTT(60)
    <3>2. reason[Idx(trail[n])] \in C \cup {0}
      BY <2>1, <2>2, <3>1 DEF UpperReasons
    <3> HIDE DEF dvars
    <3> QED
      BY <1>12, <2>4, <3>1, <3>2
  <2> QED
    BY <1>9, <2>3, <2>4
<1>16. Protected' \subseteq C
  BY <1>4, <1>7, <1>11, <1>15, ProtectedIntoNext
<1> QED
  BY <1>4, <1>7, <1>11, <1>13, <1>14, <1>16

LEMMA RestartKeeps ==
  ASSUME IInv, Restart
  PROVE  IInv'
<1>1. /\ TypeOK /\ TrailHolds /\ AtRest /\ ListHolds /\ pc = "search" /\ pc' = "search" /\ conflict = 0
      /\ Jump(0, <<>>, 0) /\ 0 \in 0 .. Level - 1
      /\ mem' = mem /\ clauses' = clauses /\ watches' = watches
      /\ UNCHANGED <<conflict, collected, collections>>
  BY StoreFacts DEF IInv, Restart, Quiet, store
<1>2. Drives(<<>>, 0)
  BY DEF Drives
<1>3. /\ control' \in Seq(Nat) /\ trail' \in Seq(Lit) /\ reason' \in [Var -> Addr \cup {0}]
      /\ propagated' \in 0 .. Len(trail') /\ TrailHolds' /\ Protected' \subseteq K
  BY <1>1, <1>2, JumpKeeps DEF AtRest
<1>4. K' = K /\ ListHolds'
  BY <1>1 DEF K, ListHolds
<1>5. TypeOK'
  BY <1>1, <1>3 DEF TypeOK
<1>6. AtRest'
  <2>1. \A c \in Addr : mem[c].copy = 0 /\ mem[c].reason = FALSE
    BY <1>1, StoreFacts DEF AtRest, ClauseRecord
  <2>2. StoreIs(mem, K)' /\ AllInto(watches, K)'
    BY <1>1, <1>4 DEF AtRest, StoreIs, AllInto, Into
  <2> QED
    BY <1>1, <1>3, <1>4, <2>1, <2>2 DEF AtRest
<1> QED
  BY <1>1, <1>3, <1>4, <1>5, <1>6 DEF IInv, ConflictHolds, Relocating

LEMMA IdxNeg ==
  ASSUME NEW l \in Lit
  PROVE  Idx(-l) = Idx(l)
<1>1. l \in Int
  BY LitFacts
<1> QED
  BY ONLY <1>1 DEF Idx

LEMMA MarkedIs ==
  ASSUME NEW m \in [Addr -> ClauseRecord], NEW C
  PROVE  /\ Marked(m, C) \in [Addr -> ClauseRecord]
         /\ \A c \in Addr : /\ Marked(m, C)[c].lits = m[c].lits /\ Marked(m, C)[c].copy = m[c].copy
                            /\ Marked(m, C)[c].reason = m[c].reason
                            /\ c \in C => Marked(m, C)[c].garbage
                            /\ c \notin C => Marked(m, C)[c] = m[c]
<1>1. ASSUME NEW c \in Addr
      PROVE  LET r == [[m[c] EXCEPT !.garbage = TRUE] EXCEPT !.used = 0]
             IN /\ r \in ClauseRecord /\ r.lits = m[c].lits /\ r.copy = m[c].copy
                /\ r.reason = m[c].reason /\ r.garbage
  <2>1. m[c] \in ClauseRecord /\ TRUE \in BOOLEAN /\ 0 \in Nat
    OBVIOUS
  <2> QED
    BY <2>1 DEF ClauseRecord
<1>2. \A c \in Addr : Marked(m, C)[c] = IF c \in C THEN [[m[c] EXCEPT !.garbage = TRUE] EXCEPT !.used = 0]
                                        ELSE m[c]
  BY DEF Marked
<1>3. \A c \in Addr : Marked(m, C)[c] \in ClauseRecord
  BY <1>1, <1>2
<1>4. Marked(m, C) \in [Addr -> ClauseRecord]
  BY <1>3 DEF Marked
<1> QED
  BY <1>1, <1>2, <1>4

\* A store after marking is the store.
LEMMA MarkedStore ==
  ASSUME NEW m \in [Addr -> ClauseRecord], NEW C \in SUBSET Addr, NEW D \in SUBSET C, StoreIs(m, C)
  PROVE  StoreIs(Marked(m, D), C)
BY MarkedIs DEF StoreIs

LEMMA RangeFinite ==
  ASSUME NEW X, NEW s \in Seq(X)
  PROVE  /\ IsFiniteSet(ToSet(s)) /\ Cardinality(ToSet(s)) \in Nat
         /\ IsInjective(s) => Cardinality(ToSet(s)) = Len(s)
<1>1. DOMAIN s = 1 .. Len(s) /\ Len(s) \in Nat /\ s \in [1 .. Len(s) -> X]
  BY LenProperties
<1>2. s \in Surjection(1 .. Len(s), ToSet(s))
  BY <1>1 DEF Surjection, ToSet
<1>3. IsFiniteSet(1 .. Len(s)) /\ Cardinality(1 .. Len(s)) = Len(s)
  <2>1. PICK N : N = Len(s)
    OBVIOUS
  <2>2. N \in Nat
    BY <1>1, <2>1
  <2>3. IsFiniteSet(1 .. N) /\ Cardinality(1 .. N) = N
    BY ONLY <2>2, FS_Interval
  <2> QED
    BY ONLY <2>1, <2>3
<1>4. IsFiniteSet(ToSet(s)) /\ (Cardinality(ToSet(s)) = Cardinality(1 .. Len(s)) <=> s \in Injection(1 .. Len(s), ToSet(s)))
  BY <1>2, <1>3, FS_Surjection
<1>5. IsInjective(s) => s \in Injection(1 .. Len(s), ToSet(s))
  BY <1>1, <1>2 DEF Injection, Surjection
<1>6. Cardinality(ToSet(s)) \in Nat
  BY <1>4, FS_CardinalityType
<1> QED
  BY <1>3, <1>4, <1>5, <1>6

\* There are as many free addresses as the store leaves (2 * MaxClauses <= MaxAddr).
LEMMA FreeAddrIs ==
  ASSUME TypeOK, ListHolds, StoreIs(mem, K)
  PROVE  /\ FreeAddr \in Seq(Addr) /\ ToSet(FreeAddr) = Addr \ K
         /\ IsInjective(FreeAddr) /\ Len(FreeAddr) \in Nat
         /\ Len(clauses) \in Nat /\ MaxClauses <= Len(FreeAddr) /\ Len(clauses) <= Len(FreeAddr)
<1> DEFINE id == [c \in Addr |-> c]
<1> DEFINE F == {c \in Addr : mem[c] = Free}
<1>1. MaxAddr \in Nat /\ MaxClauses \in Nat /\ 2 * MaxClauses <= MaxAddr
  BY CollectAssumption
<1>2. id \in Seq(Addr) /\ Len(id) = MaxAddr /\ DOMAIN id = Addr /\ ToSet(id) = Addr /\ IsInjective(id)
  <2>1. id \in [1 .. MaxAddr -> Addr]
    BY DEF Addr
  <2>2. id \in Seq(Addr) /\ Len(id) = MaxAddr
    <3> HIDE DEF id
    <3> QED
      BY <1>1, <2>1
  <2>3. DOMAIN id = Addr /\ IsInjective(id) /\ ToSet(id) = Addr
    BY DEF IsInjective, ToSet
  <2> QED
    BY <2>2, <2>3
<1>3. F = Addr \ K
  <2>1. Len(<<>>) = 0
    OBVIOUS
  <2>2. ASSUME NEW c \in Addr PROVE mem[c] = Free <=> c \notin K
    <3>1. CASE c \in K
      BY <2>1, <3>1, StoreFacts DEF StoreIs
    <3>2. CASE c \notin K
      BY <3>2 DEF StoreIs
    <3> QED
      BY <3>1, <3>2
  <2> QED
    BY <2>2
<1>4. Positions(id, F) = Addr \ K
  BY <1>3 DEF Positions
<1>5. FreeAddr = Filtered(id, F)
  BY DEF FreeAddr
<1> HIDE DEF id, F
<1>6. FreeAddr \in Seq(Addr) /\ Len(FreeAddr) = Cardinality(Addr \ K) /\ ToSet(FreeAddr) = Addr \ K
      /\ IsInjective(FreeAddr)
  <2>1. /\ Filtered(id, F) \in Seq(Addr) /\ Len(Filtered(id, F)) = Cardinality(Positions(id, F))
        /\ ToSet(Filtered(id, F)) = ToSet(id) \cap F
    BY ONLY <1>2, FilteredIs
  <2>2. IsInjective(Filtered(id, F))
    BY ONLY <1>2, FilteredInjective
  <2> QED
    BY <1>2, <1>3, <1>4, <1>5, <2>1, <2>2
<1>7. clauses \in Seq(Addr) /\ Len(clauses) \in Nat /\ K \subseteq Addr /\ IsInjective(clauses)
      /\ Len(clauses) <= MaxClauses
  BY StoreFacts, LenProperties DEF TypeOK, ListHolds
<1>8. IsFiniteSet(K) /\ Cardinality(K) = Len(clauses)
  BY <1>7, RangeFinite DEF K
<1>9. IsFiniteSet(Addr) /\ Cardinality(Addr) = MaxAddr
  BY <1>1, FS_Interval DEF Addr
<1>10. Cardinality(Addr \ K) = MaxAddr - Len(clauses)
  <2>1. Addr \cap K = K
    BY <1>7
  <2> QED
    <3>1. Cardinality(Addr \ K) = Cardinality(Addr) - Cardinality(Addr \cap K)
      BY ONLY <1>9, FS_Difference
    <3> QED
      BY <1>8, <1>9, <2>1, <3>1
<1>11. MaxClauses <= MaxAddr - Len(clauses) /\ Len(clauses) <= MaxAddr - Len(clauses)
       /\ MaxAddr - Len(clauses) \in Nat
  BY <1>1, <1>7
<1> QED
  BY <1>6, <1>7, <1>10, <1>11

-----------------------------------------------------------------------------
\* Levels rise along the trail.
LEMMA LevelFacts ==
  ASSUME TypeOK, TrailHolds, NEW n \in DOMAIN trail, NEW l \in {trail[n], -trail[n]}
  PROVE  /\ IndexOf(Idx(l)) = n /\ l \in Lit
         /\ LevelOf(l) \in 0 .. Level
         /\ LevelOf(l) = Level => \A j \in 1 .. Level : control[j] < n
         /\ LevelOf(l) > 0 => Level > 0 /\ control[1] < n
         /\ \A m \in DOMAIN trail : \A k \in {trail[m], -trail[m]} : m <= n => LevelOf(k) <= LevelOf(l)
<1> DEFINE Lower(m) == {j \in DOMAIN control : control[j] < m}
<1>1. /\ Len(trail) \in Nat /\ DOMAIN trail = 1 .. Len(trail) /\ DOMAIN control = 1 .. Level /\ Level \in Nat
      /\ \A m \in 1 .. Len(trail) : trail[m] \in Lit
      /\ \A j \in 1 .. Level : control[j] \in Nat
  BY StoreFacts
<1>2. ASSUME NEW m \in DOMAIN trail, NEW k \in {trail[m], -trail[m]}
      PROVE  IndexOf(Idx(k)) = m /\ k \in Lit
  <2>1. trail[m] \in Lit /\ k \in Lit /\ Idx(k) = Idx(trail[m]) /\ trail[m] \in {Idx(k), -Idx(k)}
    <3>1. trail[m] \in Lit /\ trail[m] \in {Idx(trail[m]), -Idx(trail[m])}
      BY <1>1, LitFacts
    <3>2. k \in Lit /\ Idx(k) = Idx(trail[m])
      BY <3>1, LitFacts, IdxNeg
    <3> QED
      BY <3>1, <3>2
  <2>2. \A i \in DOMAIN trail : trail[i] \in {Idx(k), -Idx(k)} => i = m
    <3> SUFFICES ASSUME NEW i \in DOMAIN trail, trail[i] \in {Idx(k), -Idx(k)} PROVE i = m
      OBVIOUS
    <3>1. trail[i] \in Lit
      BY <1>1
    <3>2. Idx(trail[i]) = Idx(trail[m])
      BY <2>1, <3>1, LitFacts, IdxNeg DEF Idx
    <3> QED
      BY <3>2 DEF TrailHolds, NoneTwice
  <2> QED
    BY <2>1, <2>2 DEF IndexOf
<1>3. IsFiniteSet(1 .. Level) /\ Cardinality(1 .. Level) = Level
  BY <1>1, FS_Interval
<1>4. ASSUME NEW m \in DOMAIN trail
      PROVE  /\ Lower(m) \in SUBSET (1 .. Level) /\ IsFiniteSet(Lower(m))
             /\ Cardinality(Lower(m)) \in Nat /\ Cardinality(Lower(m)) <= Level
  <2>1. Lower(m) \in SUBSET (1 .. Level)
    BY <1>1
  <2> HIDE DEF Lower
  <2>2. IsFiniteSet(Lower(m)) /\ Cardinality(Lower(m)) <= Level
    BY <1>3, <2>1, FS_Subset, ZenonT(60)
  <2> QED
    BY <2>1, <2>2, FS_CardinalityType
<1>5. \A m \in DOMAIN trail : \A k \in {trail[m], -trail[m]} : LevelOf(k) = Cardinality(Lower(m))
  BY <1>2 DEF LevelOf
<1>6. LevelOf(l) \in 0 .. Level
  <2> HIDE DEF Lower
  <2> QED
    BY <1>1, <1>4, <1>5
<1>7. ASSUME LevelOf(l) = Level, NEW j \in 1 .. Level PROVE control[j] < n
  <2>1. Lower(n) = 1 .. Level
    <3> HIDE DEF Lower
    <3>1. Cardinality(Lower(n)) = Level
      BY <1>5, <1>7
    <3> QED
      BY <1>3, <1>4, <3>1, FS_Subset
  <2> QED
    BY <2>1
<1>8. ASSUME LevelOf(l) > 0 PROVE Level > 0 /\ control[1] < n
  <2>1. Lower(n) # {}
    <3> HIDE DEF Lower
    <3>1. Cardinality(Lower(n)) # 0
      BY <1>4, <1>5, <1>8
    <3> QED
      BY <1>4, <3>1, FS_EmptySet
  <2>2. PICK j \in 1 .. Level : control[j] < n
    BY <1>1, <2>1
  <2>3. 1 \in 1 .. Level /\ 1 <= j /\ j \in DOMAIN control /\ 1 \in DOMAIN control
    BY <1>1, <2>2
  <2>4. control[1] <= control[j]
    BY ONLY TrailHolds, <2>3 DEF TrailHolds
  <2>5. control[1] \in Nat /\ control[j] \in Nat /\ n \in Nat
    <3>1. \A k \in 1 .. Level : control[k] \in Nat
      BY <1>1
    <3>2. n \in Nat
      BY <1>1
    <3> QED
      BY ONLY <2>2, <2>3, <3>1, <3>2
  <2> QED
    <3>1. Level \in Nat
      BY <1>1
    <3>2. Level > 0
      BY ONLY <2>3, <3>1
    <3>3. control[1] < n
      BY ONLY <2>2, <2>4, <2>5
    <3> QED
      BY ONLY <3>2, <3>3
<1>9. ASSUME NEW m \in DOMAIN trail, NEW k \in {trail[m], -trail[m]}, m <= n
      PROVE  LevelOf(k) <= LevelOf(l)
  <2>1. Lower(m) \in SUBSET Lower(n)
    <3>1. ASSUME NEW j \in 1 .. Level, control[j] < m PROVE control[j] < n
      <4>1. m \in Nat /\ n \in Nat /\ control[j] \in Nat
        BY <1>1
      <4> QED
        BY <1>9, <3>1, <4>1
    <3> QED
      BY <1>1, <3>1
  <2> HIDE DEF Lower
  <2>2. Cardinality(Lower(m)) <= Cardinality(Lower(n))
    BY <1>4, <2>1, FS_Subset
  <2> QED
    BY <1>5, <2>2
<1> QED
  BY <1>2, <1>6, <1>7, <1>8, <1>9

\* What is learned: literals false on the trail, above the root level, one of them
\* on the conflict level (the guard of Analyze)
Learnable(S) ==
  /\ S # {} /\ Level > 0
  /\ \A l \in S : \E n \in DOMAIN trail : l = -trail[n]
  /\ \A l \in S : LevelOf(l) > 0
  /\ Cardinality({l \in S : LevelOf(l) = Level}) = 1

LEMMA AnalyzeLearnable ==
  ASSUME TypeOK, NEW S \in SUBSET {-l : l \in ToSet(trail)}, Analyze(S)
  PROVE  Learnable(S)
<1>1. \A l \in S : \E n \in DOMAIN trail : l = -trail[n]
  BY DEF ToSet
<1> QED
  BY <1>1 DEF Analyze, Learnable

LEMMA UnitDrives ==
  ASSUME TypeOK, TrailHolds, NEW S, Learnable(S), NEW l \in S
  PROVE  Drives(<<l>>, 0)
<1>1. PICK n \in DOMAIN trail : l = -trail[n]
  BY DEF Learnable
<1>2. l \in Lit /\ Level > 0 /\ control[1] < n
  BY <1>1, LevelFacts DEF Learnable
<1>3. 0 + 1 = 1
  OBVIOUS
<1>4. ASSUME NEW m \in 1 .. control[1] PROVE Idx(trail[m]) # Idx(l)
  <2>1. /\ n \in 1 .. Len(trail) /\ Len(trail) \in Nat /\ trail[n] \in Lit /\ DOMAIN trail = 1 .. Len(trail)
        /\ control[1] \in Nat
    BY <1>2, StoreFacts
  <2>2. m \in DOMAIN trail /\ m # n
    BY <1>2, <2>1
  <2>3. Idx(l) = Idx(trail[n])
    BY <1>1, <2>1, IdxNeg
  <2> QED
    BY <2>2, <2>3 DEF TrailHolds, NoneTwice
<1> QED
  BY <1>2, <1>3, <1>4 DEF Drives

LEMMA LearnUnitKeeps ==
  ASSUME IInv, pc = "search", NEW S, Learnable(S), NEW l \in S, LearnUnit(l), conflict' = 0,
         UNCHANGED <<collected, collections, pc>>
  PROVE  IInv'
<1>1. /\ TypeOK /\ TrailHolds /\ AtRest /\ ListHolds /\ pc' = "search"
      /\ Jump(0, <<l>>, 0) /\ mem' = mem /\ clauses' = clauses /\ watches' = watches
  BY DEF IInv, LearnUnit, store
<1>4. Drives(<<l>>, 0)
  BY <1>1, UnitDrives
<1>5. 0 \in 0 .. Level - 1
  BY <1>1, StoreFacts DEF Learnable
<1>6. /\ control' \in Seq(Nat) /\ trail' \in Seq(Lit) /\ reason' \in [Var -> Addr \cup {0}]
      /\ propagated' \in 0 .. Len(trail') /\ TrailHolds' /\ Protected' \subseteq K
  BY <1>1, <1>4, <1>5, JumpKeeps DEF AtRest
<1>7. K' = K /\ ListHolds'
  BY <1>1 DEF K, ListHolds
<1>8. TypeOK'
  BY <1>1, <1>6 DEF TypeOK
<1>9. AtRest'
  <2>1. \A c \in Addr : mem[c].copy = 0 /\ mem[c].reason = FALSE
    BY <1>1, StoreFacts DEF AtRest, ClauseRecord
  <2>2. StoreIs(mem, K)' /\ AllInto(watches, K)'
    BY <1>1, <1>7 DEF AtRest, StoreIs, AllInto, Into
  <2> QED
    BY <1>1, <1>6, <1>7, <2>1, <2>2 DEF AtRest
<1> QED
  BY <1>1, <1>6, <1>7, <1>8, <1>9 DEF IInv, ConflictHolds, Relocating

\* The sorted clause has its literals, those with the highest levels in front.
LEMMA SortedIs ==
  ASSUME TypeOK, TrailHolds, NEW S, Learnable(S), Cardinality(S) # 1
  PROVE  /\ Sorted(S) \in Seq(Lit) /\ Len(Sorted(S)) >= 2 /\ ToSet(Sorted(S)) = S
         /\ IsInjective(Sorted(S))
         /\ \A j, k \in DOMAIN Sorted(S), m, n \in DOMAIN trail :
              (j <= k /\ Sorted(S)[j] = -trail[m] /\ Sorted(S)[k] = -trail[n]) => n <= m
         /\ LevelOf(Sorted(S)[2]) \in 0 .. Level - 1
         /\ Drives(<<Sorted(S)[1]>>, LevelOf(Sorted(S)[2]))
<1> DEFINE R == [n \in DOMAIN trail |-> -trail[Len(trail) + 1 - n]]
<1> DEFINE L == Len(trail)
<1> DEFINE lits == Sorted(S)
<1>1. /\ L \in Nat /\ DOMAIN trail = 1 .. L /\ Level \in Nat /\ DOMAIN control = 1 .. Level
      /\ \A n \in 1 .. L : trail[n] \in Lit /\ -trail[n] \in Lit
  BY StoreFacts, LitFacts
<1>2. \A n \in 1 .. L : L + 1 - n \in 1 .. L /\ L + 1 - (L + 1 - n) = n
  BY <1>1
<1>3. R \in Seq(Lit) /\ DOMAIN R = 1 .. L
  <2>1. R \in [1 .. L -> Lit]
    BY <1>1, <1>2
  <2> HIDE DEF R, L
  <2> QED
    BY <1>1, <2>1
<1>4. S \subseteq ToSet(R)
  <2> SUFFICES ASSUME NEW l \in S PROVE l \in ToSet(R)
    OBVIOUS
  <2>1. PICK n \in 1 .. L : l = -trail[n]
    BY <1>1 DEF Learnable
  <2>2. L + 1 - n \in 1 .. L /\ R[L + 1 - n] = l
    BY <1>1, <1>2, <2>1
  <2> HIDE DEF R, L
  <2> QED
    BY <1>3, <2>2 DEF ToSet
<1>5. lits = Filtered(R, S)
  BY DEF Sorted
<1> HIDE DEF lits
<1>6. /\ lits \in Seq(Lit) /\ ToSet(lits) = S
      /\ \E p \in [DOMAIN lits -> DOMAIN R] :
           /\ \A k \in DOMAIN lits : lits[k] = R[p[k]]
           /\ \A j, k \in DOMAIN lits : j < k => p[j] < p[k]
  <2> HIDE DEF R
  <2>1. /\ Filtered(R, S) \in Seq(Lit) /\ ToSet(Filtered(R, S)) = ToSet(R) \cap S
        /\ \E p \in [DOMAIN Filtered(R, S) -> DOMAIN R] :
             /\ \A k \in DOMAIN Filtered(R, S) : Filtered(R, S)[k] = R[p[k]]
             /\ \A j, k \in DOMAIN Filtered(R, S) : j < k => p[j] < p[k]
    BY ONLY <1>3, FilteredIs
  <2> QED
    BY <1>4, <1>5, <2>1
<1>7. PICK p \in [DOMAIN lits -> 1 .. L] :
           /\ \A k \in DOMAIN lits : lits[k] = R[p[k]]
           /\ \A j, k \in DOMAIN lits : j < k => p[j] < p[k]
  BY <1>3, <1>6
<1>8. DOMAIN lits = 1 .. Len(lits) /\ Len(lits) \in Nat
  BY <1>6, LenProperties
<1> DEFINE at(k) == L + 1 - p[k]
<1>9. ASSUME NEW k \in DOMAIN lits PROVE at(k) \in DOMAIN trail /\ lits[k] = -trail[at(k)]
  <2>1. p[k] \in 1 .. L
    OBVIOUS
  <2> QED
    BY <1>1, <1>2, <1>7, <2>1
<1>10. ASSUME NEW j \in DOMAIN lits, NEW k \in DOMAIN lits, j <= k PROVE at(k) <= at(j)
  <2>1. p[j] \in 1 .. L /\ p[k] \in 1 .. L /\ j \in Nat /\ k \in Nat
    BY <1>8
  <2>2. j < k \/ j = k
    BY <1>10, <2>1
  <2>3. p[j] <= p[k]
    BY <1>7, <2>1, <2>2
  <2> QED
    BY <1>1, <2>1, <2>3
<1>11. ASSUME NEW j \in DOMAIN lits, NEW k \in DOMAIN lits, j < k PROVE at(k) < at(j)
  <2>1. p[j] \in 1 .. L /\ p[k] \in 1 .. L
    OBVIOUS
  <2>2. p[j] < p[k]
    BY <1>7, <1>11
  <2> QED
    BY <1>1, <2>1, <2>2
<1> HIDE DEF at, R
<1>12. Len(lits) >= 2
  <2>1. PICK a \in S : TRUE
    BY DEF Learnable
  <2>2. S # {a}
    BY FS_Singleton
  <2>3. PICK b \in S : b # a
    BY <2>1, <2>2
  <2>4. \E j, k \in DOMAIN lits : j # k
    BY <1>6, <2>1, <2>3 DEF ToSet
  <2> QED
    BY <1>8, <2>4
<1>13. 1 \in DOMAIN lits /\ 2 \in DOMAIN lits
  BY <1>8, <1>12
<1>14. \A k \in DOMAIN lits : LevelOf(lits[k]) \in 0 .. Level
  BY <1>9, LevelFacts
<1>15. \A j, k \in DOMAIN lits : j <= k => LevelOf(lits[k]) <= LevelOf(lits[j])
  BY <1>9, <1>10, LevelFacts
<1>16. PICK x : {l \in S : LevelOf(l) = Level} = {x}
  <2>1. IsFiniteSet(S)
    BY <1>6, RangeFinite
  <2>2. IsFiniteSet({l \in S : LevelOf(l) = Level})
    BY <2>1, FS_Subset
  <2> QED
    BY <2>2, FS_Singleton DEF Learnable
<1>17. LevelOf(lits[1]) = Level
  <2>1. PICK k \in DOMAIN lits : lits[k] = x
    BY <1>6, <1>16 DEF ToSet
  <2>2. LevelOf(lits[k]) = Level /\ 1 <= k
    BY <1>8, <1>16, <2>1
  <2> QED
    BY <1>1, <1>13, <1>14, <1>15, <2>2
<1>18. lits[1] # lits[2]
  <2>1. at(2) < at(1) /\ at(1) \in 1 .. L /\ at(2) \in 1 .. L
    BY <1>1, <1>9, <1>11, <1>13
  <2>2. Idx(lits[1]) = Idx(trail[at(1)]) /\ Idx(lits[2]) = Idx(trail[at(2)])
    BY <1>1, <1>9, <1>13, IdxNeg
  <2> QED
    BY <1>1, <2>1, <2>2 DEF TrailHolds, NoneTwice
<1>19. LevelOf(lits[2]) # Level
  <2>1. lits[1] \in S /\ lits[2] \in S
    BY <1>6, <1>13 DEF ToSet
  <2> QED
    BY <1>16, <1>17, <1>18, <2>1
<1>20. LevelOf(lits[2]) \in 0 .. Level - 1
  BY <1>1, <1>13, <1>14, <1>19
<1>21. Drives(<<lits[1]>>, LevelOf(lits[2]))
  <2>1. LevelOf(lits[2]) + 1 \in 1 .. Level
    BY <1>1, <1>20
  <2>2. control[LevelOf(lits[2]) + 1] < at(1)
    BY <1>9, <1>13, <1>17, <2>1, LevelFacts, SMTT(60)
  <2>3. lits[1] \in Lit /\ at(1) \in 1 .. L /\ Idx(lits[1]) = Idx(trail[at(1)])
    BY <1>1, <1>9, <1>13, IdxNeg
  <2>4. control[LevelOf(lits[2]) + 1] \in Nat
    BY <2>1, StoreFacts
  <2>5. ASSUME NEW m \in 1 .. control[LevelOf(lits[2]) + 1] PROVE Idx(trail[m]) # Idx(lits[1])
    <3>1. m \in DOMAIN trail /\ m # at(1)
      BY <1>1, <2>2, <2>3, <2>4
    <3> QED
      BY <1>1, <2>3, <3>1 DEF TrailHolds, NoneTwice
  <2> QED
    BY <2>3, <2>5 DEF Drives
<1>22. ASSUME NEW k \in DOMAIN lits, NEW n \in DOMAIN trail, lits[k] = -trail[n] PROVE n = at(k)
  <2>1. Idx(trail[n]) = Idx(trail[at(k)])
    BY <1>1, <1>9, <1>22, IdxNeg
  <2> QED
    BY <1>9, <2>1 DEF TrailHolds, NoneTwice
<1>23. \A j, k \in DOMAIN lits, m, n \in DOMAIN trail :
         (j <= k /\ lits[j] = -trail[m] /\ lits[k] = -trail[n]) => n <= m
  BY <1>10, <1>22
<1>24. ASSUME NEW j \in DOMAIN lits, NEW k \in DOMAIN lits, lits[j] = lits[k] PROVE j = k
  <2>1. at(j) = at(k) /\ at(j) \in 1 .. L /\ j \in Nat /\ k \in Nat
    BY <1>1, <1>8, <1>9, <1>22, <1>24
  <2>2. ~(j < k) /\ ~(k < j)
    BY <1>1, <1>11, <2>1
  <2> QED
    BY <2>1, <2>2
<1>25. IsInjective(lits)
  BY <1>24 DEF IsInjective
<1> QED
  BY <1>6, <1>12, <1>20, <1>21, <1>23, <1>25 DEF lits

LEMMA WatchedInto ==
  ASSUME NEW w \in [Lit -> Seq(WatchRecord)], NEW C, NEW D, AllInto(w, C), C \subseteq D,
         NEW c \in Addr, c \in D, NEW lits \in Seq(Lit), Len(lits) >= 2
  PROVE  Watched(w, c, lits) \in [Lit -> Seq(WatchRecord)] /\ AllInto(Watched(w, c, lits), D)
<1>1. lits[1] \in Lit /\ lits[2] \in Lit /\ Len(lits) \in Nat
  BY LenProperties, ElementOfSeq
<1>2. ASSUME NEW l \in Lit PROVE Watch(c, lits, l) \in WatchRecord /\ Watch(c, lits, l).clause = c
  BY <1>1 DEF Watch, WatchRecord
<1>3. \A l \in Lit : w[l] \in Seq(WatchRecord) /\ Into(w[l], D)
  BY DEF AllInto, Into
<1>4. ASSUME NEW l \in Lit
      PROVE  Append(w[l], Watch(c, lits, l)) \in Seq(WatchRecord) /\ Into(Append(w[l], Watch(c, lits, l)), D)
  BY <1>2, <1>3, AppendInto
<1>5. \A l \in Lit : Watched(w, c, lits)[l] \in Seq(WatchRecord) /\ Into(Watched(w, c, lits)[l], D)
  BY <1>3, <1>4 DEF Watched
<1>6. Watched(w, c, lits) \in [Lit -> Seq(WatchRecord)]
  BY <1>5 DEF Watched
<1> QED
  BY <1>5, <1>6 DEF AllInto

LEMMA AppendList ==
  ASSUME NEW s \in Seq(Addr), IsInjective(s), NEW c \in Addr, c \notin ToSet(s)
  PROVE  /\ Append(s, c) \in Seq(Addr) /\ IsInjective(Append(s, c))
         /\ ToSet(Append(s, c)) = ToSet(s) \cup {c} /\ Len(Append(s, c)) = Len(s) + 1
<1>1. /\ Append(s, c) \in Seq(Addr) /\ Len(Append(s, c)) = Len(s) + 1 /\ Len(s) \in Nat
      /\ \A i \in 1 .. Len(s) : Append(s, c)[i] = s[i]
      /\ Append(s, c)[Len(s) + 1] = c
  BY AppendProperties, LenProperties
<1>2. DOMAIN Append(s, c) = 1 .. Len(s) + 1 /\ DOMAIN s = 1 .. Len(s)
  BY <1>1, LenProperties
<1>3. \A i \in 1 .. Len(s) + 1 : i \in 1 .. Len(s) \/ i = Len(s) + 1
  BY <1>1
<1>4. \A i \in 1 .. Len(s) : i \in 1 .. Len(s) + 1 /\ s[i] # c
  BY <1>1, <1>2 DEF ToSet
<1>5. IsInjective(Append(s, c))
  BY <1>1, <1>2, <1>3, <1>4 DEF IsInjective
<1>6. ToSet(Append(s, c)) \subseteq ToSet(s) \cup {c}
  BY <1>1, <1>2, <1>3 DEF ToSet
<1>7. ToSet(s) \cup {c} \subseteq ToSet(Append(s, c))
  <2>1. Len(s) + 1 \in DOMAIN Append(s, c)
    BY <1>1, <1>2
  <2> QED
    BY <1>1, <1>2, <1>4, <2>1 DEF ToSet
<1> QED
  BY <1>1, <1>5, <1>6, <1>7

LEMMA LearnClauseKeeps ==
  ASSUME IInv, pc = "search", NEW S, Learnable(S), Cardinality(S) # 1, LearnClause(S), conflict' = 0,
         UNCHANGED <<collected, collections, pc>>
  PROVE  IInv'
<1> DEFINE lits == Sorted(S)
<1> DEFINE c == Head(FreeAddr)
<1> DEFINE glue == Cardinality({LevelOf(l) : l \in S}) - 1
<1> DEFINE used == IF glue <= Tier2 THEN 2 ELSE 1
<1> DEFINE new == Stored(lits, TRUE, glue, used)
<1> DEFINE marked == Marked(mem, Subsumed(S))
<1>1. /\ TypeOK /\ TrailHolds /\ AtRest /\ ListHolds /\ pc' = "search"
      /\ StoreIs(mem, K) /\ AllInto(watches, K) /\ Protected \subseteq K
  BY DEF IInv, AtRest
<1>2. /\ Len(clauses) < MaxClauses /\ Jump(LevelOf(lits[2]), <<lits[1]>>, c)
      /\ clauses' = Append(clauses, c) /\ watches' = Watched(watches, c, lits)
      /\ mem' = [marked EXCEPT ![c] = new]
  BY DEF LearnClause
<1>3. /\ lits \in Seq(Lit) /\ Len(lits) >= 2 /\ ToSet(lits) = S
      /\ LevelOf(lits[2]) \in 0 .. Level - 1 /\ Drives(<<lits[1]>>, LevelOf(lits[2]))
  BY <1>1, SortedIs
<1>4. glue \in Nat
  <2>1. \A l \in S : LevelOf(l) \in 0 .. Level
    BY <1>1, LevelFacts DEF Learnable
  <2>2. {LevelOf(l) : l \in S} \in SUBSET (0 .. Level)
    BY <2>1
  <2>3. Level \in Int /\ 0 \in Int
    BY <1>1, StoreFacts
  <2>4. IsFiniteSet(0 .. Level)
    BY ONLY <2>3, FS_Interval
  <2> DEFINE levels == {LevelOf(l) : l \in S}
  <2>5. IsFiniteSet(levels)
    BY <2>2, <2>4, FS_Subset
  <2>6. LevelOf(lits[1]) \in levels
    <3>1. 1 \in DOMAIN lits
      BY <1>3, LenProperties
    <3> QED
      BY <1>3, <3>1 DEF ToSet
  <2> HIDE DEF levels
  <2>7. Cardinality(levels) \in Nat /\ Cardinality(levels) # 0
    BY <2>5, <2>6, FS_CardinalityType, FS_EmptySet
  <2> QED
    BY <2>7 DEF levels
<1> HIDE DEF lits, glue
<1>5. c \in Addr /\ c \notin K
  <2>1. /\ FreeAddr \in Seq(Addr) /\ ToSet(FreeAddr) = Addr \ K /\ Len(FreeAddr) \in Nat
        /\ MaxClauses <= Len(FreeAddr) /\ Len(clauses) \in Nat
    BY <1>1, FreeAddrIs
  <2>2. Len(FreeAddr) >= 1
    BY <1>2, <2>1, CollectAssumption
  <2>3. FreeAddr # <<>> /\ DOMAIN FreeAddr = 1 .. Len(FreeAddr)
    BY <2>1, <2>2, LenProperties, EmptySeq
  <2>4. Head(FreeAddr) = FreeAddr[1]
    BY <2>1, <2>3
  <2>5. 1 \in DOMAIN FreeAddr
    BY <2>1, <2>2, <2>3
  <2> QED
    BY <2>1, <2>4, <2>5 DEF ToSet
<1> HIDE DEF c
<1>6. new \in ClauseRecord /\ new.lits = lits /\ new.copy = 0 /\ new.reason = FALSE
  <2>1. used \in Nat /\ 0 \in Addr \cup {0} /\ TRUE \in BOOLEAN /\ FALSE \in BOOLEAN
    OBVIOUS
  <2> HIDE DEF used
  <2> QED
    BY <1>3, <1>4, <2>1 DEF Stored, ClauseRecord
<1>7. /\ marked \in [Addr -> ClauseRecord]
      /\ \A d \in Addr : /\ marked[d].lits = mem[d].lits /\ marked[d].copy = mem[d].copy
                         /\ marked[d].reason = mem[d].reason
      /\ StoreIs(marked, K)
  <2>1. Subsumed(S) \in SUBSET K
    BY DEF Subsumed, K
  <2>2. mem \in [Addr -> ClauseRecord] /\ K \in SUBSET Addr
    BY <1>1, StoreFacts DEF TypeOK
  <2> QED
    BY <1>1, <2>1, <2>2, MarkedIs, MarkedStore
<1> HIDE DEF new, marked
<1>8. mem' \in [Addr -> ClauseRecord] /\ \A d \in Addr : mem'[d] = IF d = c THEN new ELSE marked[d]
  BY <1>2, <1>5, <1>6, <1>7
<1>9. /\ clauses' \in Seq(Addr) /\ IsInjective(clauses') /\ K' = K \cup {c} /\ Len(clauses') <= MaxClauses
  <2>1. clauses \in Seq(Addr) /\ IsInjective(clauses) /\ c \notin ToSet(clauses)
    BY <1>1, <1>5 DEF TypeOK, ListHolds, K
  <2>2. /\ Append(clauses, c) \in Seq(Addr) /\ IsInjective(Append(clauses, c))
        /\ ToSet(Append(clauses, c)) = ToSet(clauses) \cup {c} /\ Len(Append(clauses, c)) = Len(clauses) + 1
    BY <1>5, <2>1, AppendList
  <2>3. Len(clauses) \in Nat /\ MaxClauses \in Nat
    BY <2>1, LenProperties, CollectAssumption
  <2>4. Len(clauses) + 1 <= MaxClauses
    BY <1>2, <2>3
  <2> QED
    BY <1>2, <2>2, <2>4 DEF K
<1>10. watches' \in [Lit -> Seq(WatchRecord)] /\ AllInto(watches', K \cup {c})
  <2>1. watches \in [Lit -> Seq(WatchRecord)]
    BY <1>1 DEF TypeOK, WatchRecord
  <2>2. K \subseteq K \cup {c} /\ c \in K \cup {c}
    OBVIOUS
  <2>3. /\ Watched(watches, c, lits) \in [Lit -> Seq(WatchRecord)]
        /\ AllInto(Watched(watches, c, lits), K \cup {c})
    BY ONLY <1>1, <1>3, <1>5, <2>1, <2>2, WatchedInto
  <2> QED
    BY ONLY <1>2, <2>3
<1>11. /\ control' \in Seq(Nat) /\ trail' \in Seq(Lit) /\ reason' \in [Var -> Addr \cup {0}]
       /\ propagated' \in 0 .. Len(trail') /\ TrailHolds' /\ Protected' \subseteq K \cup {c}
  BY <1>1, <1>2, <1>3, <1>5, JumpKeeps
<1>12. TypeOK'
  BY <1>1, <1>8, <1>9, <1>10, <1>11 DEF TypeOK, WatchRecord
<1>13. ListHolds'
  BY <1>9 DEF ListHolds
<1>14. AtRest'
  <2>1. \A d \in Addr : mem[d].copy = 0 /\ mem[d].reason = FALSE
    BY <1>1, StoreFacts DEF AtRest, ClauseRecord
  <2>2. \A d \in Addr : mem'[d].copy = 0 /\ mem'[d].reason = FALSE
    BY <1>6, <1>7, <1>8, <2>1
  <2>3. \A d \in Addr : IF d \in K \cup {c} THEN Len(mem'[d].lits) >= 2 ELSE mem'[d] = Free
    BY <1>3, <1>6, <1>7, <1>8 DEF StoreIs
  <2>4. StoreIs(mem, K)' /\ AllInto(watches, K)'
    BY <1>9, <1>10, <2>3 DEF StoreIs, AllInto, Into
  <2> QED
    BY <1>1, <1>9, <1>11, <2>2, <2>4 DEF AtRest
<1> QED
  BY <1>1, <1>11, <1>12, <1>13, <1>14 DEF IInv, ConflictHolds, Relocating

LEMMA AnalyzeKeeps ==
  ASSUME IInv, NEW S \in SUBSET {-l : l \in ToSet(trail)}, Analyze(S)
  PROVE  IInv'
<1>1. Learnable(S) /\ pc = "search" /\ conflict' = 0 /\ UNCHANGED <<collected, collections, pc>>
  BY AnalyzeLearnable DEF IInv, Analyze
<1>2. CASE Cardinality(S) = 1
  <2>1. LearnUnit(CHOOSE l \in S : TRUE)
    BY <1>2 DEF Analyze
  <2>2. (CHOOSE l \in S : TRUE) \in S
    BY <1>1 DEF Learnable
  <2> QED
    BY <1>1, <2>1, <2>2, LearnUnitKeeps
<1>3. CASE Cardinality(S) # 1
  <2>1. LearnClause(S)
    BY <1>3 DEF Analyze
  <2> QED
    BY <1>1, <1>3, <2>1, LearnClauseKeeps
<1> QED
  BY <1>2, <1>3

-----------------------------------------------------------------------------
\* During a reduction the trail stays, and with it what is protected.
Stays == UNCHANGED <<trail, control, propagated, conflict>>

LEMMA TrailStays ==
  ASSUME TypeOK, TrailHolds, Stays
  PROVE  /\ trail' \in Seq(Lit) /\ control' \in Seq(Nat) /\ propagated' \in 0 .. Len(trail')
         /\ conflict' \in Addr \cup {0} /\ TrailHolds'
BY DEF Stays, TypeOK, TrailHolds, NoneTwice

LEMMA ProtectedStays ==
  ASSUME Stays, reason' = reason
  PROVE  Protected' = Protected
BY DEF Stays, Protected, RootLits, Level

\* What a clause is after its false literals were removed (shrink_clause)
LEMMA ShrunkenIs ==
  ASSUME NEW r \in ClauseRecord, Len(Unfixed(r.lits)) >= 2
  PROVE  /\ Shrunken(r) \in ClauseRecord /\ Len(Shrunken(r).lits) >= 2
         /\ Shrunken(r).copy = r.copy /\ Shrunken(r).reason = r.reason
         /\ Shrunken(r).lits = Unfixed(r.lits) /\ Shrunken(r).garbage = r.garbage
<1> DEFINE lits == Unfixed(r.lits)
<1> DEFINE glue == IF r.redundant /\ r.glue > Len(lits) - 1 /\ r.glue > Tier1
                   THEN Len(lits) - 1 ELSE r.glue
<1> DEFINE used == IF r.redundant /\ r.glue > Tier2 /\ Len(lits) - 1 \in Tier1 + 1 .. Tier2
                   THEN 2 ELSE r.used
<1>1. r.lits \in Seq(Lit) /\ r.glue \in Nat /\ r.used \in Nat
  BY DEF ClauseRecord
<1>2. lits \in Seq(Lit)
  BY <1>1, FilteredIs DEF Unfixed
<1>3. Shrunken(r) = [[[r EXCEPT !.lits = lits] EXCEPT !.glue = glue] EXCEPT !.used = used]
  BY DEF Shrunken
<1> HIDE DEF lits
<1>4. Len(lits) \in Nat /\ Len(lits) >= 2
  BY <1>2, LenProperties DEF lits
<1>5. glue \in Nat /\ used \in Nat
  BY <1>1, <1>4
<1> HIDE DEF glue, used
<1> QED
  BY <1>2, <1>3, <1>4, <1>5 DEF ClauseRecord, lits

LEMMA ReduceKeeps ==
  ASSUME IInv, Reduce
  PROVE  IInv'
<1>1. /\ TypeOK /\ TrailHolds /\ AtRest /\ ListHolds /\ pc = "search" /\ pc' = "protect" /\ conflict = 0
      /\ collected' = FixedCount /\ collections' = collections
      /\ clauses' = clauses /\ watches' = watches /\ Stays /\ reason' = reason
  BY DEF IInv, Reduce, Quiet, search, Stays
<1>2. mem \in [Addr -> ClauseRecord] /\ K \subseteq Addr /\ StoreIs(mem, K)
  BY <1>1, StoreFacts DEF TypeOK, AtRest
<1>3. FixedCount \in Nat
  <2>1. trail \in Seq(Lit) /\ Level \in Nat /\ Len(trail) \in Nat
    BY <1>1, StoreFacts DEF TypeOK
  <2>2. CASE Level = 0
    BY <2>1, <2>2, RangeFinite DEF FixedCount, RootLits
  <2>3. CASE Level # 0
    <3>1. control[1] \in 0 .. Len(trail)
      BY <1>1, <2>1, <2>3, StoreFacts DEF TrailHolds
    <3>2. SubSeq(trail, 1, control[1]) \in Seq(Lit)
      BY <2>1, <3>1, PrefixIs
    <3>3. Cardinality(ToSet(SubSeq(trail, 1, control[1]))) \in Nat
      BY ONLY <3>2, RangeFinite
    <3> QED
      BY <2>3, <3>3 DEF FixedCount, RootLits
  <2> QED
    BY <2>2, <2>3
<1>4. /\ mem' \in [Addr -> ClauseRecord]
      /\ \A c \in Addr : mem'[c].copy = mem[c].copy /\ mem'[c].reason = mem[c].reason
      /\ \A c \in Addr : IF c \in K THEN Len(mem'[c].lits) >= 2 ELSE mem'[c] = Free
  <2>1. CASE mem' = mem
    BY <1>2, <2>1 DEF StoreIs
  <2>2. CASE mem' = [c \in Addr |-> IF c \in Shrinking THEN Shrunken(mem[c]) ELSE Marked(mem, Satisfied)[c]]
    <3>1. Satisfied \in SUBSET K /\ Shrinking \in SUBSET K
      BY DEF Satisfied, Shrinking, K
    <3>2. /\ Marked(mem, Satisfied) \in [Addr -> ClauseRecord] /\ StoreIs(Marked(mem, Satisfied), K)
          /\ \A c \in Addr : /\ Marked(mem, Satisfied)[c].copy = mem[c].copy
                             /\ Marked(mem, Satisfied)[c].reason = mem[c].reason
      BY <1>2, <3>1, MarkedIs, MarkedStore
    <3>3. ASSUME NEW c \in Shrinking
          PROVE  /\ Shrunken(mem[c]) \in ClauseRecord /\ Len(Shrunken(mem[c]).lits) >= 2
                 /\ Shrunken(mem[c]).copy = mem[c].copy /\ Shrunken(mem[c]).reason = mem[c].reason
      <4>1. mem[c] \in ClauseRecord /\ Len(Unfixed(mem[c].lits)) >= 2
        BY <1>2, <3>1 DEF Shrinking
      <4> QED
        BY ONLY <4>1, ShrunkenIs
    <3>4. \A c \in Addr : mem'[c] = IF c \in Shrinking THEN Shrunken(mem[c]) ELSE Marked(mem, Satisfied)[c]
      BY <2>2
    <3>5. mem' \in [Addr -> ClauseRecord]
      BY <2>2, <3>2, <3>3
    <3> QED
      BY <3>1, <3>2, <3>3, <3>4, <3>5 DEF StoreIs
  <2> QED
    BY <2>1, <2>2 DEF Reduce
<1>5. K' = K /\ ListHolds' /\ Protected' = Protected
  BY <1>1, ProtectedStays DEF K, ListHolds
<1>6. TypeOK' /\ TrailHolds'
  BY <1>1, <1>3, <1>4, TrailStays DEF TypeOK
<1>7. AtRest'
  <2>1. \A c \in Addr : mem'[c].copy = 0 /\ mem'[c].reason = FALSE
    BY <1>1, <1>2, <1>4, StoreFacts, SMTT(60) DEF AtRest, ClauseRecord
  <2>2. StoreIs(mem, K)' /\ AllInto(watches, K)'
    BY <1>1, <1>4, <1>5 DEF AtRest, StoreIs, AllInto, Into
  <2>3. Protected' \subseteq K'
    BY <1>1, <1>5 DEF AtRest
  <2> QED
    BY <1>1, <2>1, <2>2, <2>3 DEF AtRest
<1>8. ConflictHolds' /\ Relocating'
  BY <1>1 DEF ConflictHolds, Relocating, Stays
<1> QED
  BY <1>5, <1>6, <1>7, <1>8 DEF IInv

\* protect_reasons and unprotect_reasons set and clear the flag, nothing else.
LEMMA FlagIs ==
  ASSUME NEW m \in [Addr -> ClauseRecord], NEW b \in BOOLEAN
  PROVE  LET n == [c \in Addr |-> IF c \in Protected THEN [m[c] EXCEPT !.reason = b] ELSE m[c]]
         IN /\ n \in [Addr -> ClauseRecord]
            /\ \A c \in Addr : /\ n[c].lits = m[c].lits /\ n[c].copy = m[c].copy
                               /\ n[c].reason = IF c \in Protected THEN b ELSE m[c].reason
                               /\ n[c].garbage = m[c].garbage
                               /\ c \notin Protected => n[c] = m[c]
<1>1. ASSUME NEW c \in Addr
      PROVE  LET r == [m[c] EXCEPT !.reason = b]
             IN /\ r \in ClauseRecord /\ r.lits = m[c].lits /\ r.copy = m[c].copy
                /\ r.reason = b /\ r.garbage = m[c].garbage
  <2>1. m[c] \in ClauseRecord
    OBVIOUS
  <2> QED
    BY <2>1 DEF ClauseRecord
<1> QED
  BY <1>1

LEMMA ProtectReasonsKeeps ==
  ASSUME IInv, ProtectReasons
  PROVE  IInv'
<1>1. /\ TypeOK /\ TrailHolds /\ AtRest /\ ListHolds /\ pc = "protect" /\ pc' = "mark" /\ conflict = 0
      /\ UNCHANGED <<collected, collections>>
      /\ clauses' = clauses /\ watches' = watches /\ Stays /\ reason' = reason
  BY DEF IInv, ProtectReasons, ConflictHolds, search, Stays
<1>2. mem \in [Addr -> ClauseRecord] /\ K \subseteq Addr /\ StoreIs(mem, K) /\ Protected \subseteq K
  BY <1>1, StoreFacts DEF TypeOK, AtRest
<1>3. mem' = [c \in Addr |-> IF c \in Protected THEN [mem[c] EXCEPT !.reason = TRUE] ELSE mem[c]]
  BY DEF ProtectReasons
<1>4. /\ mem' \in [Addr -> ClauseRecord]
      /\ \A c \in Addr : /\ mem'[c].lits = mem[c].lits /\ mem'[c].copy = mem[c].copy
                         /\ mem'[c].reason = IF c \in Protected THEN TRUE ELSE mem[c].reason
                         /\ c \notin Protected => mem'[c] = mem[c]
  <2>1. TRUE \in BOOLEAN
    OBVIOUS
  <2> QED
    BY <1>2, <1>3, <2>1, FlagIs
<1>5. K' = K /\ ListHolds' /\ Protected' = Protected
  BY <1>1, ProtectedStays DEF K, ListHolds
<1>6. TypeOK' /\ TrailHolds'
  BY <1>1, <1>4, TrailStays DEF TypeOK
<1>7. AtRest'
  <2>1. \A c \in Addr : mem'[c].copy = 0 /\ (mem'[c].reason <=> c \in Protected)
    BY <1>1, <1>4 DEF AtRest
  <2>2. \A c \in Addr : IF c \in K THEN Len(mem'[c].lits) >= 2 ELSE mem'[c] = Free
    BY <1>2, <1>4 DEF StoreIs
  <2>3. StoreIs(mem, K)' /\ AllInto(watches, K)'
    BY <1>1, <1>5, <2>2 DEF AtRest, StoreIs, AllInto, Into
  <2> QED
    BY <1>1, <1>2, <1>5, <2>1, <2>3 DEF AtRest
<1>8. ConflictHolds' /\ Relocating'
  BY <1>1 DEF ConflictHolds, Relocating, Stays
<1> QED
  BY <1>5, <1>6, <1>7, <1>8 DEF IInv

LEMMA UnprotectReasonsKeeps ==
  ASSUME IInv, UnprotectReasons
  PROVE  IInv'
<1>1. /\ TypeOK /\ TrailHolds /\ AtRest /\ ListHolds /\ pc = "unprotect" /\ pc' = "search" /\ conflict = 0
      /\ UNCHANGED <<collected, collections>>
      /\ clauses' = clauses /\ watches' = watches /\ Stays /\ reason' = reason
  BY DEF IInv, UnprotectReasons, ConflictHolds, search, Stays
<1>2. mem \in [Addr -> ClauseRecord] /\ K \subseteq Addr /\ StoreIs(mem, K) /\ Protected \subseteq K
  BY <1>1, StoreFacts DEF TypeOK, AtRest
<1>3. mem' = [c \in Addr |-> IF c \in Protected THEN [mem[c] EXCEPT !.reason = FALSE] ELSE mem[c]]
  BY DEF UnprotectReasons
<1>4. /\ mem' \in [Addr -> ClauseRecord]
      /\ \A c \in Addr : /\ mem'[c].lits = mem[c].lits /\ mem'[c].copy = mem[c].copy
                         /\ mem'[c].reason = IF c \in Protected THEN FALSE ELSE mem[c].reason
                         /\ c \notin Protected => mem'[c] = mem[c]
  <2>1. FALSE \in BOOLEAN
    OBVIOUS
  <2> QED
    BY <1>2, <1>3, <2>1, FlagIs
<1>5. K' = K /\ ListHolds' /\ Protected' = Protected
  BY <1>1, ProtectedStays DEF K, ListHolds
<1>6. TypeOK' /\ TrailHolds'
  BY <1>1, <1>4, TrailStays DEF TypeOK
<1>7. AtRest'
  <2>1. \A c \in Addr : mem'[c].copy = 0 /\ ~mem'[c].reason
    BY <1>1, <1>4 DEF AtRest
  <2>2. \A c \in Addr : IF c \in K THEN Len(mem'[c].lits) >= 2 ELSE mem'[c] = Free
    BY <1>2, <1>4 DEF StoreIs
  <2>3. StoreIs(mem, K)' /\ AllInto(watches, K)'
    BY <1>1, <1>5, <2>2 DEF AtRest, StoreIs, AllInto, Into
  <2> QED
    BY <1>1, <1>2, <1>5, <2>1, <2>3 DEF AtRest
<1>8. ConflictHolds' /\ Relocating'
  BY <1>1 DEF ConflictHolds, Relocating, Stays
<1> QED
  BY <1>5, <1>6, <1>7, <1>8 DEF IInv

LEMMA AgedIs ==
  ASSUME NEW m \in [Addr -> ClauseRecord]
  PROVE  /\ Aged(m) \in [Addr -> ClauseRecord]
         /\ \A c \in Addr : /\ Aged(m)[c].lits = m[c].lits /\ Aged(m)[c].copy = m[c].copy
                            /\ Aged(m)[c].reason = m[c].reason /\ Aged(m)[c].garbage = m[c].garbage
                            /\ c \notin K => Aged(m)[c] = m[c]
<1>1. ASSUME NEW c \in Addr, m[c].used > 0
      PROVE  LET r == [m[c] EXCEPT !.used = m[c].used - 1]
             IN /\ r \in ClauseRecord /\ r.lits = m[c].lits /\ r.copy = m[c].copy
                /\ r.reason = m[c].reason /\ r.garbage = m[c].garbage
  <2>1. m[c] \in ClauseRecord /\ m[c].used \in Nat
    BY DEF ClauseRecord
  <2>2. m[c].used - 1 \in Nat
    BY <1>1, <2>1
  <2> QED
    BY <2>1, <2>2 DEF ClauseRecord
<1>2. /\ DOMAIN Aged(m) = Addr /\ Aged(m) = [c \in Addr |-> Aged(m)[c]]
      /\ \A c \in Addr : Aged(m)[c] = IF c \in Reducible /\ m[c].used > 0
                                      THEN [m[c] EXCEPT !.used = m[c].used - 1] ELSE m[c]
  BY DEF Aged
<1>3. \A c \in Addr : Aged(m)[c] \in ClauseRecord
  BY <1>1, <1>2
<1>4. \A c \in Addr : c \notin K => c \notin Reducible
  BY DEF Reducible, K
<1>5. Aged(m) \in [Addr -> ClauseRecord]
  BY ONLY <1>2, <1>3
<1> QED
  BY <1>1, <1>2, <1>4, <1>5, ZenonT(60)

LEMMA MarkUselessKeeps ==
  ASSUME IInv, MarkUseless
  PROVE  IInv'
<1>1. /\ TypeOK /\ TrailHolds /\ AtRest /\ ListHolds /\ pc = "mark" /\ pc' = "copy" /\ conflict = 0
      /\ UNCHANGED <<collected, collections>>
      /\ clauses' = clauses /\ watches' = watches /\ Stays /\ reason' = reason
  BY DEF IInv, MarkUseless, ConflictHolds, search, Stays
<1>2. mem \in [Addr -> ClauseRecord] /\ K \subseteq Addr /\ StoreIs(mem, K) /\ Protected \subseteq K
  BY <1>1, StoreFacts DEF TypeOK, AtRest
<1>3. PICK C \in {Unused, Useless} : mem' = Marked(Aged(mem), C)
  BY DEF MarkUseless
<1>4. C \in SUBSET K
  BY <1>3 DEF Unused, Useless, Reducible, K
<1>5. /\ Aged(mem) \in [Addr -> ClauseRecord]
      /\ \A c \in Addr : /\ Aged(mem)[c].lits = mem[c].lits /\ Aged(mem)[c].copy = mem[c].copy
                         /\ Aged(mem)[c].reason = mem[c].reason
                         /\ c \notin K => Aged(mem)[c] = mem[c]
  BY ONLY <1>2, AgedIs
<1>6. /\ mem' \in [Addr -> ClauseRecord]
      /\ \A c \in Addr : /\ mem'[c].lits = Aged(mem)[c].lits /\ mem'[c].copy = Aged(mem)[c].copy
                         /\ mem'[c].reason = Aged(mem)[c].reason
                         /\ c \notin C => mem'[c] = Aged(mem)[c]
  <2>1. /\ Marked(Aged(mem), C) \in [Addr -> ClauseRecord]
        /\ \A c \in Addr : /\ Marked(Aged(mem), C)[c].lits = Aged(mem)[c].lits
                           /\ Marked(Aged(mem), C)[c].copy = Aged(mem)[c].copy
                           /\ Marked(Aged(mem), C)[c].reason = Aged(mem)[c].reason
                           /\ c \notin C => Marked(Aged(mem), C)[c] = Aged(mem)[c]
    BY ONLY <1>5, MarkedIs
  <2> QED
    BY ONLY <1>3, <2>1
<1>7. K' = K /\ ListHolds' /\ Protected' = Protected
  BY <1>1, ProtectedStays DEF K, ListHolds
<1>8. TypeOK' /\ TrailHolds'
  BY <1>1, <1>6, TrailStays DEF TypeOK
<1>9. AtRest'
  <2>1. \A c \in Addr : mem'[c].copy = 0 /\ (mem'[c].reason <=> c \in Protected)
    BY <1>1, <1>5, <1>6 DEF AtRest
  <2>2. \A c \in Addr : IF c \in K THEN Len(mem'[c].lits) >= 2 ELSE mem'[c] = Free
    BY <1>2, <1>4, <1>5, <1>6 DEF StoreIs
  <2>3. StoreIs(mem, K)' /\ AllInto(watches, K)'
    BY <1>1, <1>7, <2>2 DEF AtRest, StoreIs, AllInto, Into
  <2> QED
    BY <1>1, <1>2, <1>7, <2>1, <2>3 DEF AtRest
<1>10. ConflictHolds' /\ Relocating'
  BY <1>1 DEF ConflictHolds, Relocating, Stays
<1> QED
  BY <1>7, <1>8, <1>9, <1>10 DEF IInv

LEMMA PlaceIs ==
  ASSUME NEW s, IsInjective(s), NEW n \in DOMAIN s
  PROVE  PlaceIn(s, s[n]) = n
BY DEF PlaceIn, IsInjective

LEMMA StayingIs ==
  ASSUME TypeOK, ListHolds
  PROVE  LET kept == Filtered(clauses, Staying)
         IN /\ kept \in Seq(Addr) /\ IsInjective(kept) /\ ToSet(kept) = Staying
            /\ DOMAIN kept = 1 .. Len(kept) /\ Len(kept) \in Nat
            /\ Len(kept) <= Len(clauses) /\ Len(kept) <= MaxClauses
            /\ Staying \subseteq K
<1> DEFINE kept == Filtered(clauses, Staying)
<1>1. clauses \in Seq(Addr) /\ IsInjective(clauses) /\ Len(clauses) <= MaxClauses
  BY DEF TypeOK, ListHolds
<1>2. kept \in Seq(Addr) /\ Len(kept) <= Len(clauses) /\ ToSet(kept) = ToSet(clauses) \cap Staying
  BY ONLY <1>1, FilteredIs
<1>3. IsInjective(kept)
  BY ONLY <1>1, FilteredInjective
<1>4. Staying \subseteq K
  BY DEF Staying, K
<1>5. Len(kept) \in Nat /\ DOMAIN kept = 1 .. Len(kept) /\ Len(clauses) \in Nat /\ MaxClauses \in Nat
  BY <1>1, <1>2, LenProperties, CollectAssumption
<1> HIDE DEF kept
<1>6. Len(kept) <= MaxClauses
  BY <1>1, <1>2, <1>5
<1> QED
  BY <1>2, <1>3, <1>4, <1>5, <1>6 DEF kept, K

LEMMA CopyFieldIs ==
  ASSUME NEW r \in ClauseRecord, NEW a \in Addr
  PROVE  LET q == [r EXCEPT !.copy = a]
         IN /\ q \in ClauseRecord /\ q.lits = r.lits /\ q.reason = r.reason
            /\ q.garbage = r.garbage /\ q.copy = a
BY DEF ClauseRecord

\* What a move writes: the new address of what stays, and the copies there.
LEMMA MovedMemIs ==
  ASSUME mem \in [Addr -> ClauseRecord],
         NEW s \in Seq(Addr), IsInjective(s), NEW to \in Seq(Addr), IsInjective(to),
         ToSet(s) \cap ToSet(to) = {}, DOMAIN s \subseteq DOMAIN to
  PROVE  /\ MovedMem(s, to) \in [Addr -> ClauseRecord]
         /\ \A n \in DOMAIN s :
              /\ s[n] \in Addr /\ to[n] \in Addr
              /\ MovedMem(s, to)[s[n]] = [mem[s[n]] EXCEPT !.copy = to[n]]
              /\ MovedMem(s, to)[to[n]] = mem[s[n]]
         /\ \A c \in Addr : \/ c \in ToSet(s)
                            \/ \E n \in DOMAIN s : to[n] = c
                            \/ MovedMem(s, to)[c] = mem[c]
<1> DEFINE m == MovedMem(s, to)
<1>1. \A n \in DOMAIN s : s[n] \in Addr /\ to[n] \in Addr /\ PlaceIn(s, s[n]) = n /\ PlaceIn(to, to[n]) = n
  <2>1. DOMAIN s = 1 .. Len(s) /\ DOMAIN to = 1 .. Len(to)
    BY LenProperties
  <2> QED
    BY <2>1, PlaceIs, ElementOfSeq
<1>2. \A n \in DOMAIN s : s[n] \in ToSet(s) /\ to[n] \notin ToSet(s)
  BY DEF ToSet
<1>3. \A c \in Addr : m[c] = IF c \in ToSet(s) THEN [mem[c] EXCEPT !.copy = to[PlaceIn(s, c)]]
                             ELSE IF \E n \in DOMAIN s : to[n] = c THEN mem[s[PlaceIn(to, c)]]
                             ELSE mem[c]
  BY DEF MovedMem
<1>4. m = [c \in Addr |-> m[c]]
  BY DEF MovedMem
<1> HIDE DEF m
<1>5. ASSUME NEW n \in DOMAIN s
      PROVE  m[s[n]] = [mem[s[n]] EXCEPT !.copy = to[n]] /\ m[to[n]] = mem[s[n]]
  BY <1>1, <1>2, <1>3
<1>6. ASSUME NEW c \in Addr PROVE m[c] \in ClauseRecord
  <2>1. CASE c \in ToSet(s)
    <3>1. PICK n \in DOMAIN s : c = s[n]
      BY <2>1 DEF ToSet
    <3>2. m[c] = [mem[c] EXCEPT !.copy = to[n]] /\ mem[c] \in ClauseRecord /\ to[n] \in Addr
      BY <1>1, <1>5, <3>1
    <3> QED
      BY <3>2, CopyFieldIs
  <2>2. CASE \E n \in DOMAIN s : to[n] = c
    BY <1>1, <1>5, <2>2
  <2>3. CASE c \notin ToSet(s) /\ ~\E n \in DOMAIN s : to[n] = c
    BY <1>3, <2>3
  <2> QED
    BY <2>1, <2>2, <2>3
<1>7. m \in [Addr -> ClauseRecord]
  BY ONLY <1>4, <1>6
<1> QED
  BY <1>1, <1>3, <1>5, <1>7 DEF m

\* The clause list after the first collection, which moves nothing
LEMMA NothingMoved ==
  ASSUME TypeOK, ListHolds, AtRest, pc = "copy"
  PROVE  /\ \A c \in Addr : Moved(c) = c /\ mem[c].copy = 0
         /\ NewStore = Staying /\ Protected \subseteq Staying
         /\ \A c \in Addr : mem[c].reason <=> c \in Protected
<1>1. \A c \in Addr : Moved(c) = c /\ mem[c].copy = 0
  BY DEF AtRest, Moved
<1>2. Staying \subseteq Addr /\ Protected \subseteq K /\ K \subseteq Addr
  BY StoreFacts, StayingIs DEF AtRest
<1>3. NewStore = Staying
  BY <1>1, <1>2 DEF NewStore
<1>4. \A c \in Addr : mem[c].reason <=> c \in Protected
  BY DEF AtRest
<1>5. Protected \subseteq Staying
  BY <1>2, <1>4 DEF Staying, Collects, K
<1> QED
  BY <1>1, <1>3, <1>4, <1>5

\* What stays keeps its flags and literals, and has a copy at a free address.
LEMMA CopiesMade ==
  ASSUME TypeOK, ListHolds, AtRest, pc = "copy", clauses' = clauses,
         NEW s, s = Filtered(clauses, Staying), NEW to, to = FreeAddr, mem' = MovedMem(s, to)
  PROVE  /\ mem' \in [Addr -> ClauseRecord] /\ IsInjective(to) /\ DOMAIN s \subseteq DOMAIN to
         /\ \A n \in DOMAIN s :
              /\ s[n] \in Staying /\ s[n] \in Addr /\ to[n] \in Addr \ K
              /\ mem'[s[n]].lits = mem[s[n]].lits /\ mem'[s[n]].reason = mem[s[n]].reason
              /\ mem'[s[n]].garbage = mem[s[n]].garbage /\ mem'[s[n]].copy = to[n]
              /\ mem'[to[n]] = mem[s[n]] /\ \A c : c = s[n] => Moved(c)' = to[n]
         /\ \A c \in K : /\ mem'[c].lits = mem[c].lits /\ mem'[c].reason = mem[c].reason
                         /\ mem'[c].garbage = mem[c].garbage
         /\ \A c \in Addr : c \in K \/ (\E n \in DOMAIN s : to[n] = c) \/ mem'[c] = mem[c]
         /\ Staying' = Staying
         /\ \A c \in Staying : \E n \in DOMAIN s : c = s[n]
<1>1. mem \in [Addr -> ClauseRecord] /\ K \subseteq Addr /\ StoreIs(mem, K) /\ 0 \notin Addr /\ Staying \subseteq K
  BY StoreFacts, StayingIs DEF TypeOK, AtRest
<1>2. /\ s \in Seq(Addr) /\ IsInjective(s) /\ ToSet(s) = Staying /\ DOMAIN s = 1 .. Len(s)
      /\ Len(s) \in Nat /\ Len(s) <= MaxClauses
  BY StayingIs
<1>3. /\ to \in Seq(Addr) /\ IsInjective(to) /\ ToSet(to) = Addr \ K /\ Len(to) \in Nat
      /\ MaxClauses <= Len(to)
  BY <1>1, FreeAddrIs
<1>4. DOMAIN to = 1 .. Len(to) /\ MaxClauses \in Nat
  BY <1>3, LenProperties, CollectAssumption
<1>5. DOMAIN s \subseteq DOMAIN to
  BY <1>2, <1>3, <1>4
<1>6. ToSet(s) \cap ToSet(to) = {}
  BY <1>1, <1>2, <1>3
<1>7. /\ mem' \in [Addr -> ClauseRecord]
      /\ \A n \in DOMAIN s :
           /\ s[n] \in Addr /\ to[n] \in Addr
           /\ mem'[s[n]] = [mem[s[n]] EXCEPT !.copy = to[n]]
           /\ mem'[to[n]] = mem[s[n]]
      /\ \A c \in Addr : \/ c \in ToSet(s)
                         \/ \E n \in DOMAIN s : to[n] = c
                         \/ mem'[c] = mem[c]
  <2>1. /\ MovedMem(s, to) \in [Addr -> ClauseRecord]
        /\ \A n \in DOMAIN s :
             /\ s[n] \in Addr /\ to[n] \in Addr
             /\ MovedMem(s, to)[s[n]] = [mem[s[n]] EXCEPT !.copy = to[n]]
             /\ MovedMem(s, to)[to[n]] = mem[s[n]]
        /\ \A c \in Addr : \/ c \in ToSet(s)
                           \/ \E n \in DOMAIN s : to[n] = c
                           \/ MovedMem(s, to)[c] = mem[c]
    <3>1. /\ mem \in [Addr -> ClauseRecord] /\ s \in Seq(Addr) /\ IsInjective(s)
          /\ to \in Seq(Addr) /\ IsInjective(to)
      BY <1>1, <1>2, <1>3
    <3> QED
      BY ONLY <3>1, <1>5, <1>6, MovedMemIs, SMTT(60)
  <2> QED
    BY <2>1
<1>8. ASSUME NEW n \in DOMAIN s
      PROVE  /\ s[n] \in Staying /\ s[n] \in Addr /\ to[n] \in Addr \ K
             /\ mem'[s[n]].lits = mem[s[n]].lits /\ mem'[s[n]].reason = mem[s[n]].reason
             /\ mem'[s[n]].garbage = mem[s[n]].garbage /\ mem'[s[n]].copy = to[n]
             /\ mem'[to[n]] = mem[s[n]] /\ \A c : c = s[n] => Moved(c)' = to[n]
  <2>1. s[n] \in Addr /\ to[n] \in Addr /\ mem[s[n]] \in ClauseRecord
    BY <1>1, <1>7
  <2>2. mem'[s[n]] = [mem[s[n]] EXCEPT !.copy = to[n]] /\ mem'[to[n]] = mem[s[n]]
    BY <1>7
  <2>3. /\ mem'[s[n]].lits = mem[s[n]].lits /\ mem'[s[n]].reason = mem[s[n]].reason
        /\ mem'[s[n]].garbage = mem[s[n]].garbage /\ mem'[s[n]].copy = to[n]
    BY ONLY <2>1, <2>2, CopyFieldIs
  <2>4. s[n] \in ToSet(s) /\ to[n] \in ToSet(to)
    BY <1>5 DEF ToSet
  <2>5. to[n] # 0
    BY <1>1, <2>1
  <2>6. ASSUME NEW c, c = s[n] PROVE Moved(c)' = to[n]
    BY <2>3, <2>5, <2>6 DEF Moved
  <2> QED
    BY <1>2, <1>3, <2>1, <2>2, <2>3, <2>4, <2>6
<1>9. ASSUME NEW c \in K
      PROVE  /\ mem'[c].lits = mem[c].lits /\ mem'[c].reason = mem[c].reason
             /\ mem'[c].garbage = mem[c].garbage
  <2>1. CASE c \in ToSet(s)
    BY <1>8, <2>1 DEF ToSet
  <2>2. CASE c \notin ToSet(s)
    BY <1>1, <1>7, <1>8, <2>2
  <2> QED
    BY <2>1, <2>2
<1>10. Staying' = Staying
  BY <1>9 DEF Staying, Collects, K
<1>11. \A c \in Staying : \E n \in DOMAIN s : c = s[n]
  BY <1>2 DEF ToSet
<1>12. ASSUME NEW c \in Addr, c \notin K, mem'[c] # mem[c] PROVE \E n \in DOMAIN s : to[n] = c
  BY <1>1, <1>2, <1>7, <1>12
<1> QED
  BY <1>3, <1>5, <1>7, <1>8, <1>9, <1>10, <1>11, <1>12

LEMMA CopyClausesKeeps ==
  ASSUME IInv, CopyClauses
  PROVE  IInv'
<1>1. /\ TypeOK /\ TrailHolds /\ AtRest /\ ListHolds /\ pc = "copy" /\ pc' = "watches" /\ conflict = 0
      /\ collected' = collected /\ collections' = collections + 1
      /\ clauses' = clauses /\ watches' = watches /\ Stays /\ reason' = reason
      /\ mem' = IF collections = 0 THEN mem ELSE MovedMem(Filtered(clauses, Staying), FreeAddr)
  BY DEF IInv, CopyClauses, ConflictHolds, search, Stays
<1>2. /\ mem \in [Addr -> ClauseRecord] /\ K \subseteq Addr /\ StoreIs(mem, K) /\ AllInto(watches, K)
      /\ 0 \notin Addr
  BY <1>1, StoreFacts DEF TypeOK, AtRest
<1>3. /\ \A c \in Addr : Moved(c) = c /\ mem[c].copy = 0
      /\ NewStore = Staying /\ Protected \subseteq Staying
      /\ \A c \in Addr : mem[c].reason <=> c \in Protected
  BY <1>1, NothingMoved
<1>4. Staying \subseteq K
  BY <1>1, StayingIs
<1>5. collections' \in Nat
  BY <1>1 DEF TypeOK
<1>6. K' = K /\ ListHolds' /\ Protected' = Protected
  BY <1>1, ProtectedStays DEF K, ListHolds
<1>7. AllInto(watches, K)'
  BY <1>1, <1>2, <1>6 DEF AllInto, Into
<1>8. CASE collections = 0
  <2>1. mem' = mem
    BY <1>1, <1>8
  <2>2. TypeOK' /\ TrailHolds'
    BY <1>1, <1>5, <2>1, TrailStays DEF TypeOK
  <2>3. Staying' = Staying /\ NewStore' = NewStore
    BY <1>1, <2>1 DEF Staying, NewStore, Moved, Collects
  <2>4. \A c \in Addr : Moved(c)' = c
    BY <1>3, <2>1 DEF Moved
  <2>5. Relocating'
    <3>1. \A c \in Addr : c \in K \/ mem'[c] = Free
      BY <1>2, <2>1 DEF StoreIs
    <3>2. \A c \in K : Len(mem'[c].lits) >= 2
      BY <1>2, <2>1 DEF StoreIs
    <3>3. \A c \in Staying : mem'[c].copy = 0 /\ Moved(c)' = c /\ (mem'[c].reason <=> c \in Protected)
      BY <1>2, <1>3, <1>4, <2>1, <2>4
    <3> QED
      BY <1>1, <1>3, <1>6, <1>7, <2>3, <3>1, <3>2, <3>3 DEF Relocating
  <2> QED
    BY <1>1, <1>6, <2>2, <2>5 DEF IInv, AtRest, ConflictHolds, Stays
<1>9. CASE collections # 0
  <2>1. PICK s : s = Filtered(clauses, Staying)
    OBVIOUS
  <2>2. PICK to : to = FreeAddr
    OBVIOUS
  <2>3. mem' = MovedMem(s, to)
    BY <1>1, <1>9, <2>1, <2>2
  <2>4. /\ mem' \in [Addr -> ClauseRecord] /\ IsInjective(to) /\ DOMAIN s \subseteq DOMAIN to
        /\ \A c \in Addr : c \in K \/ (\E n \in DOMAIN s : to[n] = c) \/ mem'[c] = mem[c]
        /\ Staying' = Staying
    BY <1>1, <2>1, <2>2, <2>3, CopiesMade
  <2>5. \A n \in DOMAIN s :
          /\ s[n] \in Staying /\ s[n] \in Addr /\ to[n] \in Addr \ K
          /\ mem'[s[n]].lits = mem[s[n]].lits /\ mem'[s[n]].reason = mem[s[n]].reason
          /\ mem'[s[n]].garbage = mem[s[n]].garbage /\ mem'[s[n]].copy = to[n]
          /\ mem'[to[n]] = mem[s[n]] /\ \A c : c = s[n] => Moved(c)' = to[n]
    BY <1>1, <2>1, <2>2, <2>3, CopiesMade
  <2>6. /\ \A c \in K : /\ mem'[c].lits = mem[c].lits /\ mem'[c].reason = mem[c].reason
                        /\ mem'[c].garbage = mem[c].garbage
        /\ \A c \in Staying : \E n \in DOMAIN s : c = s[n]
    BY <1>1, <2>1, <2>2, <2>3, CopiesMade
  <2>7. TypeOK' /\ TrailHolds'
    BY <1>1, <1>5, <2>4, TrailStays DEF TypeOK
  <2>8. Relocating'
    <3>1. ASSUME NEW c \in Addr, c \notin K PROVE c \in NewStore' \/ mem'[c] = Free
      <4>1. CASE \E n \in DOMAIN s : to[n] = c
        <5>1. PICK n \in DOMAIN s : to[n] = c
          BY <4>1
        <5>2. \E d \in Staying : d = s[n]
          BY <2>5
        <5> QED
          BY <2>5, <2>4, <5>1, <5>2 DEF NewStore
      <4>2. CASE ~\E n \in DOMAIN s : to[n] = c
        BY <1>2, <2>4, <3>1, <4>2 DEF StoreIs
      <4> QED
        BY <4>1, <4>2
    <3>2. \A c \in K : Len(mem'[c].lits) >= 2
      BY <1>2, <2>6 DEF StoreIs
    <3>3. ASSUME NEW c \in Staying
          PROVE CopyOf(c)' /\ (mem'[c].reason <=> c \in Protected)
      <4>1. PICK n \in DOMAIN s : c = s[n]
        BY <2>6
      <4>2. c \in K /\ c \in Addr /\ ~Collects(c) /\ mem[c].copy = 0
        BY <1>2, <1>3, <1>4 DEF Staying
      <4>3. Len(mem[c].lits) >= 2
        BY <1>2, <4>2 DEF StoreIs
      <4>4. Moved(c)' = to[n] /\ to[n] \in Addr \ K /\ mem'[to[n]] = mem[c] /\ mem'[c].reason = mem[c].reason
        BY <2>5, <4>1
      <4>5. CopyOf(c)'
        BY <1>6, <4>2, <4>3, <4>4 DEF CopyOf, Collects
      <4> QED
        BY <1>3, <4>2, <4>4, <4>5
    <3>4. ASSUME NEW c \in Staying, NEW d \in Staying, Moved(c)' = Moved(d)' PROVE c = d
      <4>1. PICK m \in DOMAIN s : c = s[m]
        BY <2>6
      <4>2. PICK n \in DOMAIN s : d = s[n]
        BY <2>6
      <4>3. to[m] = to[n]
        BY <2>5, <3>4, <4>1, <4>2
      <4>4. m = n
        BY <2>4, <4>3 DEF IsInjective
      <4> QED
        BY <4>1, <4>2, <4>4
    <3> QED
      BY <1>1, <1>3, <1>6, <1>7, <2>4, <3>1, <3>2, <3>3, <3>4 DEF Relocating
  <2> QED
    BY <1>1, <1>6, <2>7, <2>8 DEF IInv, AtRest, ConflictHolds, Stays
<1> QED
  BY <1>8, <1>9

\* What is known of a clause that stays, wherever it is
LEMMA NewStoreIs ==
  ASSUME IInv, pc \in {"watches", "reasons", "delete"}
  PROVE  /\ NewStore \subseteq Addr
         /\ \A c \in NewStore : Len(mem[c].lits) >= 2 /\ mem[c].lits \in Seq(Lit)
         /\ \A c \in NewStore : mem[c].copy = 0 /\ ~Collects(c)
         /\ \A c \in Staying : Moved(c) \in NewStore /\ mem[Moved(c)].reason = mem[c].reason
<1>1. /\ Relocating /\ TypeOK /\ ListHolds /\ K \subseteq Addr /\ mem \in [Addr -> ClauseRecord]
      /\ Staying \subseteq K
  BY StoreFacts, StayingIs DEF IInv, TypeOK
<1>2. ASSUME NEW c \in Staying
      PROVE  /\ Moved(c) \in NewStore /\ Moved(c) \in Addr
             /\ Len(mem[Moved(c)].lits) >= 2 /\ mem[Moved(c)].lits \in Seq(Lit)
             /\ mem[Moved(c)].copy = 0 /\ ~Collects(Moved(c)) /\ mem[Moved(c)].reason = mem[c].reason
  <2>1. c \in K /\ c \in Addr /\ Len(mem[c].lits) >= 2 /\ ~Collects(c)
    BY <1>1 DEF Relocating, Staying
  <2>2. Moved(c) \in Addr /\ Len(mem[Moved(c)].lits) >= 2 /\ ~Collects(Moved(c))
        /\ mem[Moved(c)].copy = 0 /\ mem[Moved(c)].reason = mem[c].reason
    <3>1. CASE mem[c].copy = 0
      BY <2>1, <3>1 DEF Moved
    <3>2. CASE CopyOf(c)
      BY <3>2 DEF CopyOf
    <3> QED
      BY <1>1, <3>1, <3>2 DEF Relocating
  <2>3. mem[Moved(c)].lits \in Seq(Lit)
    BY <1>1, <2>2 DEF ClauseRecord
  <2> QED
    BY <2>2, <2>3 DEF NewStore
<1> QED
  BY <1>2 DEF NewStore

LEMMA StoreUnchanged ==
  ASSUME mem' = mem, clauses' = clauses
  PROVE  /\ K' = K /\ Staying' = Staying /\ NewStore' = NewStore
         /\ \A c : Moved(c)' = Moved(c) /\ CopyOf(c)' = CopyOf(c)
<1>1. K' = K
  BY DEF K
<1>2. Staying' = Staying
  BY DEF Staying, Collects
<1>3. \A c : Moved(c)' = Moved(c)
  BY DEF Moved
<1>4. NewStore' = NewStore
  BY <1>2, <1>3 DEF NewStore
<1>5. \A c : CopyOf(c)' = CopyOf(c)
  BY <1>1, <1>3 DEF CopyOf, Collects
<1> QED
  BY <1>1, <1>2, <1>3, <1>4, <1>5

LEMMA FlushedInto ==
  ASSUME IInv, pc = "watches", NEW l \in Lit
  PROVE  LET old == Filtered(watches[l], {w \in ToSet(watches[l]) : ~Collects(w.clause)})
             ws == [n \in DOMAIN old |-> Flushed(old[n], l)]
         IN ws \in Seq(WatchRecord) /\ Into(ws, NewStore)
<1> DEFINE stay == {w \in ToSet(watches[l]) : ~Collects(w.clause)}
<1> DEFINE old == Filtered(watches[l], stay)
<1> DEFINE ws == [n \in DOMAIN old |-> Flushed(old[n], l)]
<1>1. TypeOK /\ Relocating /\ watches[l] \in Seq(WatchRecord) /\ Into(watches[l], K)
  BY DEF IInv, TypeOK, WatchRecord, Relocating, AllInto
<1>2. old \in Seq(WatchRecord) /\ ToSet(old) = ToSet(watches[l]) \cap stay
  BY ONLY <1>1, FilteredIs
<1>3. ASSUME NEW n \in DOMAIN old
      PROVE  Flushed(old[n], l) \in WatchRecord /\ Flushed(old[n], l).clause \in NewStore
  <2>1. old[n] \in ToSet(watches[l]) /\ ~Collects(old[n].clause)
    <3>1. old[n] \in ToSet(old)
      <4> HIDE DEF old
      <4> QED
        BY DEF ToSet
    <3> QED
      BY <1>2, <3>1
  <2> DEFINE c == old[n].clause
  <2>2. c \in Staying
    <3>1. \A w \in ToSet(watches[l]) : w.clause \in K
      BY <1>1 DEF Into, ToSet
    <3> QED
      BY <2>1, <3>1 DEF Staying, K
  <2> HIDE DEF c, old
  <2>3. Moved(c) \in NewStore /\ Moved(c) \in Addr /\ mem[Moved(c)].lits \in Seq(Lit)
        /\ Len(mem[Moved(c)].lits) >= 2
    BY <2>2, NewStoreIs
  <2>4. Flushed(old[n], l) = Watch(Moved(c), mem[Moved(c)].lits, l)
    BY DEF Flushed, c
  <2>5. ASSUME NEW a \in Addr, NEW lits \in Seq(Lit), Len(lits) >= 2
        PROVE  Watch(a, lits, l) \in WatchRecord /\ Watch(a, lits, l).clause = a
    <3>1. lits[1] \in Lit /\ lits[2] \in Lit /\ Len(lits) \in Nat
      BY <2>5, LenProperties, ElementOfSeq
    <3> QED
      BY <3>1 DEF Watch, WatchRecord
  <2> QED
    BY <2>3, <2>4, <2>5
<1>4. DOMAIN old = 1 .. Len(old) /\ Len(old) \in Nat
  BY <1>2, LenProperties
<1> HIDE DEF old
<1>5. ws \in [1 .. Len(old) -> WatchRecord] /\ DOMAIN ws = DOMAIN old
      /\ \A n \in DOMAIN ws : ws[n].clause \in NewStore
  BY <1>3, <1>4
<1> HIDE DEF ws
<1>6. ws \in Seq(WatchRecord) /\ Into(ws, NewStore)
  BY <1>4, <1>5 DEF Into
<1> QED
  BY <1>6 DEF ws, old

LEMMA BinaryFirst ==
  ASSUME NEW ws \in Seq(WatchRecord), NEW C, Into(ws, C), NEW S, NEW T
  PROVE  /\ Filtered(ws, S) \o Filtered(ws, T) \in Seq(WatchRecord)
         /\ Into(Filtered(ws, S) \o Filtered(ws, T), C)
<1> DEFINE a == Filtered(ws, S)
<1> DEFINE b == Filtered(ws, T)
<1>1. a \in Seq(WatchRecord) /\ ToSet(a) = ToSet(ws) \cap S
  BY ONLY FilteredIs
<1>2. b \in Seq(WatchRecord) /\ ToSet(b) = ToSet(ws) \cap T
  BY ONLY FilteredIs
<1> HIDE DEF a, b
<1>3. DOMAIN a = 1 .. Len(a) /\ DOMAIN b = 1 .. Len(b) /\ Len(a) \in Nat /\ Len(b) \in Nat
  BY <1>1, <1>2, LenProperties
<1>4. \A w \in ToSet(ws) : w.clause \in C
  BY DEF Into, ToSet
<1>5. Into(a, C) /\ Into(b, C)
  BY <1>1, <1>2, <1>4 DEF Into, ToSet
<1>6. /\ a \o b \in Seq(WatchRecord) /\ Len(a \o b) = Len(a) + Len(b)
      /\ \A i \in 1 .. Len(a) + Len(b) : (a \o b)[i] = IF i <= Len(a) THEN a[i] ELSE b[i - Len(a)]
  BY ONLY <1>1, <1>2, ConcatProperties
<1>7. DOMAIN (a \o b) = 1 .. Len(a) + Len(b)
  BY <1>6, LenProperties
<1>8. ASSUME NEW i \in 1 .. Len(a) + Len(b) PROVE (a \o b)[i].clause \in C
  <2>1. CASE i <= Len(a)
    BY <1>3, <1>5, <1>6, <2>1, SMTT(60) DEF Into
  <2>2. CASE ~(i <= Len(a))
    <3>1. i - Len(a) \in 1 .. Len(b)
      BY <1>3, <2>2
    <3> QED
      BY <1>3, <1>5, <1>6, <2>2, <3>1 DEF Into
  <2> QED
    BY <2>1, <2>2
<1> QED
  BY <1>6, <1>7, <1>8 DEF Into, a, b

LEMMA FlushWatchesKeeps ==
  ASSUME IInv, FlushWatches
  PROVE  IInv'
<1>1. /\ TypeOK /\ TrailHolds /\ ListHolds /\ Relocating /\ pc = "watches" /\ pc' = "reasons" /\ conflict = 0
      /\ collected' = collected /\ collections' = collections
      /\ clauses' = clauses /\ mem' = mem /\ Stays /\ reason' = reason
  BY DEF IInv, FlushWatches, ConflictHolds, search, Stays
<1> DEFINE Old(l) == Filtered(watches[l], {w \in ToSet(watches[l]) : ~Collects(w.clause)})
<1> DEFINE New(l) == [n \in DOMAIN Old(l) |-> Flushed(Old(l)[n], l)]
<1> DEFINE Binary(l) == {w \in ToSet(New(l)) : w.size = 2}
<1>2. watches' = [l \in Lit |-> Filtered(New(l), Binary(l)) \o Filtered(New(l), ToSet(New(l)) \ Binary(l))]
  BY DEF FlushWatches
<1>3. ASSUME NEW l \in Lit
      PROVE  watches'[l] \in Seq(WatchRecord) /\ Into(watches'[l], NewStore)
  <2>1. New(l) \in Seq(WatchRecord) /\ Into(New(l), NewStore)
    BY <1>1, FlushedInto
  <2>2. watches'[l] = Filtered(New(l), Binary(l)) \o Filtered(New(l), ToSet(New(l)) \ Binary(l))
    BY <1>2
  <2> HIDE DEF New, Binary
  <2>3. LET ws == Filtered(New(l), Binary(l)) \o Filtered(New(l), ToSet(New(l)) \ Binary(l))
        IN ws \in Seq(WatchRecord) /\ Into(ws, NewStore)
    BY ONLY <2>1, BinaryFirst
  <2> QED
    BY <2>2, <2>3
<1>4. watches' \in [Lit -> Seq(WatchRecord)]
  <2> HIDE DEF New, Binary
  <2>1. watches' = [l \in Lit |-> watches'[l]]
    BY <1>2
  <2> QED
    BY ONLY <1>3, <2>1
<1>5. /\ K' = K /\ Staying' = Staying /\ NewStore' = NewStore /\ Protected' = Protected
      /\ \A c : Moved(c)' = Moved(c) /\ CopyOf(c)' = CopyOf(c)
  BY <1>1, StoreUnchanged, ProtectedStays
<1>6. TypeOK' /\ TrailHolds'
  BY <1>1, <1>4, TrailStays DEF TypeOK, WatchRecord
<1>7. AllInto(watches, NewStore)'
  BY <1>3, <1>5 DEF AllInto, Into
<1>8. Relocating'
  BY <1>1, <1>5, <1>7 DEF Relocating
<1> QED
  BY <1>1, <1>5, <1>6, <1>8, SMTT(60) DEF IInv, AtRest, ConflictHolds, ListHolds, Stays

\* The literals above the root level
UpperVars == {Idx(l) : l \in ToSet(trail) \ RootLits}

LEMMA UpdateReasonsKeeps ==
  ASSUME IInv, UpdateReasons
  PROVE  IInv'
<1>1. /\ TypeOK /\ TrailHolds /\ ListHolds /\ Relocating /\ pc = "reasons" /\ pc' = "delete" /\ conflict = 0
      /\ collected' = collected /\ collections' = collections
      /\ clauses' = clauses /\ mem' = mem /\ watches' = watches /\ Stays
      /\ reason' = [v \in Var |-> IF \E l \in ToSet(trail) \ RootLits : Idx(l) = v /\ reason[v] # 0
                                  THEN Moved(reason[v]) ELSE reason[v]]
  BY DEF IInv, UpdateReasons, ConflictHolds, store, Stays
<1>2. /\ K' = K /\ Staying' = Staying /\ NewStore' = NewStore
      /\ \A c : Moved(c)' = Moved(c) /\ CopyOf(c)' = CopyOf(c)
  BY <1>1, StoreUnchanged
<1>3. /\ NewStore \subseteq Addr /\ 0 \notin Addr /\ Protected \subseteq Staying
      /\ \A c \in Staying : Moved(c) \in NewStore
  BY <1>1, NewStoreIs, StoreFacts DEF Relocating
<1>4. UpperVars \subseteq Var /\ Protected = {reason[v] : v \in UpperVars} \ {0}
  <2>1. \A l \in ToSet(trail) : Idx(l) \in Var
    BY <1>1, StoreFacts, LitFacts DEF ToSet
  <2> QED
    BY <2>1 DEF UpperVars, Protected
<1>5. Protected' = {reason'[v] : v \in UpperVars} \ {0}
  <2>1. RootLits' = RootLits /\ trail' = trail
    BY <1>1 DEF Stays, RootLits, Level
  <2> QED
    BY <2>1 DEF UpperVars, Protected
<1>6. \A v \in Var : reason'[v] = IF v \in UpperVars /\ reason[v] # 0 THEN Moved(reason[v]) ELSE reason[v]
  BY <1>1 DEF UpperVars
<1>7. \A v \in UpperVars : reason[v] # 0 => reason[v] \in Protected
  BY <1>4
<1>8. Protected' = {Moved(c) : c \in Protected}
  <2>1. ASSUME NEW v \in UpperVars, reason'[v] # 0
        PROVE  \E c \in Protected : reason'[v] = Moved(c)
    BY <1>4, <1>6, <1>7, <2>1
  <2>2. ASSUME NEW c \in Protected PROVE Moved(c) # 0 /\ \E v \in UpperVars : reason'[v] = Moved(c)
    <3>1. PICK v \in UpperVars : c = reason[v] /\ c # 0
      BY <1>4
    <3> QED
      BY <1>3, <1>4, <1>6, <3>1
  <2> QED
    BY <1>5, <2>1, <2>2
<1>9. reason' \in [Var -> Addr \cup {0}]
  <2>1. ASSUME NEW v \in Var PROVE reason'[v] \in Addr \cup {0}
    <3>1. reason[v] \in Addr \cup {0}
      BY <1>1 DEF TypeOK
    <3> QED
      BY <1>3, <1>6, <1>7, <3>1
  <2> QED
    BY <1>1, <2>1
<1>10. TypeOK' /\ TrailHolds'
  BY <1>1, <1>9, TrailStays DEF TypeOK
<1>11. AllInto(watches, NewStore)'
  BY <1>1, <1>2 DEF Relocating, AllInto, Into
<1>12. Protected' \subseteq NewStore
  BY <1>3, <1>8
<1>13. ASSUME NEW c \in Staying PROVE mem[c].reason <=> Moved(c) \in Protected'
  <2>1. mem[c].reason <=> c \in Protected
    BY <1>1 DEF Relocating
  <2>2. ASSUME NEW d \in Protected, Moved(c) = Moved(d) PROVE c = d
    BY <1>1, <1>3, <2>2 DEF Relocating
  <2> QED
    BY <1>8, <2>1, <2>2
<1>14. Relocating'
  BY <1>1, <1>2, <1>11, <1>12, <1>13 DEF Relocating
<1> QED
  BY <1>1, <1>2, <1>10, <1>14 DEF IInv, AtRest, ConflictHolds, ListHolds, Stays

\* What the deletion leaves: the clauses that stay, where they are now.
LEMMA GarbageDeleted ==
  ASSUME IInv, DeleteGarbage
  PROVE  /\ ListHolds' /\ clauses' \in Seq(Addr) /\ K' = NewStore
         /\ \A c \in NewStore : mem'[c] = mem[c]
         /\ \A c \in Addr : c \notin NewStore => mem'[c] = Free
<1> DEFINE kept == Filtered(clauses, Staying)
<1>1. /\ TypeOK /\ ListHolds /\ Relocating /\ pc = "delete"
      /\ mem' = [c \in Addr |-> IF mem[c].copy # 0 \/ Collects(c) THEN Free ELSE mem[c]]
      /\ clauses' = [n \in DOMAIN kept |-> Moved(kept[n])]
  BY DEF IInv, DeleteGarbage
<1>2. /\ NewStore \subseteq Addr
      /\ \A c \in NewStore : Len(mem[c].lits) >= 2 /\ mem[c].copy = 0 /\ ~Collects(c)
      /\ \A c \in Staying : Moved(c) \in NewStore /\ mem[Moved(c)].reason = mem[c].reason
  BY <1>1, NewStoreIs
<1>3. K \subseteq Addr
  BY <1>1, StoreFacts
<1>4. /\ kept \in Seq(Addr) /\ IsInjective(kept) /\ ToSet(kept) = Staying
      /\ DOMAIN kept = 1 .. Len(kept) /\ Len(kept) \in Nat /\ Len(kept) <= MaxClauses
  BY <1>1, StayingIs
<1> HIDE DEF kept
<1>5. \A n \in DOMAIN kept : kept[n] \in Staying
  BY <1>4 DEF ToSet
<1>6. clauses' \in Seq(Addr) /\ Len(clauses') = Len(kept) /\ DOMAIN clauses' = DOMAIN kept
  <2>1. clauses' \in [1 .. Len(kept) -> Addr]
    BY <1>1, <1>2, <1>4, <1>5
  <2> QED
    BY <1>4, <2>1
<1>7. K' = NewStore
  <2>1. \A c \in Staying : \E n \in DOMAIN kept : kept[n] = c
    BY <1>4 DEF ToSet
  <2>2. K' = {clauses'[n] : n \in DOMAIN clauses'}
    BY DEF K, ToSet
  <2>3. \A n \in DOMAIN kept : clauses'[n] = Moved(kept[n])
    BY <1>1
  <2> QED
    BY <1>5, <1>6, <2>1, <2>2, <2>3 DEF NewStore
<1>8. ListHolds'
  <2>1. ASSUME NEW m \in DOMAIN kept, NEW n \in DOMAIN kept, clauses'[m] = clauses'[n] PROVE m = n
    <3>1. Moved(kept[m]) = Moved(kept[n]) /\ kept[m] \in Staying /\ kept[n] \in Staying
      BY <1>1, <1>5, <2>1
    <3>2. kept[m] = kept[n]
      BY <1>1, <3>1 DEF Relocating
    <3> QED
      BY <1>4, <3>2 DEF IsInjective
  <2>2. IsInjective(clauses')
    BY <1>6, <2>1 DEF IsInjective
  <2> QED
    BY <1>4, <1>6, <2>2 DEF ListHolds
<1>9. \A c \in Addr : mem'[c] = IF mem[c].copy # 0 \/ Collects(c) THEN Free ELSE mem[c]
  BY <1>1
<1>10. \A c \in NewStore : mem'[c] = mem[c]
  BY <1>2, <1>9
<1>11. ASSUME NEW c \in Addr, c \notin NewStore PROVE mem'[c] = Free
  <2>1. CASE c \in Staying
    <3>1. Moved(c) # c
      BY <1>2, <1>11, <2>1
    <3>2. mem[c].copy # 0
      BY <3>1 DEF Moved
    <3> QED
      BY <1>9, <3>2
  <2>2. CASE c \in K /\ c \notin Staying
    BY <1>9, <2>2 DEF Staying, K
  <2>3. CASE c \notin K
    BY <1>1, <1>9, <1>11, <2>3 DEF Relocating
  <2> QED
    BY <2>1, <2>2, <2>3
<1> QED
  BY <1>6, <1>7, <1>8, <1>10, <1>11

LEMMA DeleteGarbageKeeps ==
  ASSUME IInv, DeleteGarbage
  PROVE  IInv'
<1>1. /\ TypeOK /\ TrailHolds /\ Relocating /\ pc = "delete" /\ pc' = "unprotect" /\ conflict = 0
      /\ collected' = collected /\ collections' = collections
      /\ watches' = watches /\ Stays /\ reason' = reason
      /\ mem' = [c \in Addr |-> IF mem[c].copy # 0 \/ Collects(c) THEN Free ELSE mem[c]]
  BY DEF IInv, DeleteGarbage, ConflictHolds, search, Stays
<1>2. /\ NewStore \subseteq Addr
      /\ \A c \in NewStore : Len(mem[c].lits) >= 2 /\ mem[c].copy = 0 /\ ~Collects(c)
      /\ \A c \in Staying : Moved(c) \in NewStore /\ mem[Moved(c)].reason = mem[c].reason
  BY <1>1, NewStoreIs
<1>3. /\ Free \in ClauseRecord /\ Free.copy = 0 /\ Free.reason = FALSE
      /\ mem \in [Addr -> ClauseRecord]
  BY <1>1, StoreFacts DEF TypeOK
<1>4. /\ ListHolds' /\ clauses' \in Seq(Addr) /\ K' = NewStore
      /\ \A c \in NewStore : mem'[c] = mem[c]
      /\ \A c \in Addr : c \notin NewStore => mem'[c] = Free
  BY GarbageDeleted
<1>5. mem' \in [Addr -> ClauseRecord]
  BY <1>1, <1>3
<1>6. Protected' = Protected /\ Protected \subseteq NewStore
  BY <1>1, ProtectedStays DEF Relocating
<1>7. ASSUME NEW c \in Addr PROVE mem'[c].copy = 0 /\ (mem'[c].reason <=> c \in Protected)
  <2>1. CASE c \in NewStore
    <3>1. PICK d \in Staying : c = Moved(d)
      BY <2>1 DEF NewStore
    <3>2. mem[d].reason <=> c \in Protected
      BY <1>1, <3>1 DEF Relocating
    <3> QED
      BY <1>2, <1>4, <2>1, <3>1, <3>2
  <2>2. CASE c \notin NewStore
    BY <1>3, <1>4, <1>6, <2>2
  <2> QED
    BY <2>1, <2>2
<1>8. TypeOK' /\ TrailHolds'
  BY <1>1, <1>4, <1>5, TrailStays DEF TypeOK
<1>9. AtRest'
  <2>1. \A c \in Addr : IF c \in NewStore THEN Len(mem'[c].lits) >= 2 ELSE mem'[c] = Free
    BY <1>2, <1>4
  <2>2. StoreIs(mem, K)'
    BY <1>4, <2>1 DEF StoreIs
  <2>3. AllInto(watches, NewStore)
    BY <1>1 DEF Relocating
  <2>4. AllInto(watches, K)'
    BY <1>1, <1>4, <2>3 DEF AllInto, Into
  <2> QED
    BY <1>1, <1>4, <1>6, <1>7, <2>2, <2>4 DEF AtRest
<1> QED
  BY <1>1, <1>4, <1>8, <1>9 DEF IInv, Relocating, ConflictHolds, Stays

-----------------------------------------------------------------------------
LEMMA FormulaIs ==
  /\ Formula \in Seq(Seq(Lit)) /\ Len(Formula) \in Nat /\ DOMAIN Formula = 1 .. Len(Formula)
  /\ DOMAIN Formula \subseteq Addr /\ Len(Formula) <= MaxClauses
  /\ \A n \in DOMAIN Formula : /\ Formula[n] \in Seq(Lit) /\ Len(Formula[n]) >= 2
                               /\ Formula[n][1] \in Lit /\ Formula[n][2] \in Lit
<1>1. /\ MaxVar \in Nat /\ MaxAddr \in Nat /\ MaxClauses \in Nat
      /\ Formula \in Seq(Seq(-MaxVar .. MaxVar \ {0}))
      /\ \A n \in DOMAIN Formula : Len(Formula[n]) >= 2
      /\ Len(Formula) <= MaxClauses /\ 2 * MaxClauses <= MaxAddr
  BY CollectAssumption
<1>2. -MaxVar .. MaxVar \ {0} = Lit
  <2>1. ASSUME NEW l \in -MaxVar .. MaxVar \ {0} PROVE l \in Lit
    <3>1. l \in Int /\ -MaxVar <= l /\ l <= MaxVar /\ l # 0
      BY <1>1
    <3>2. CASE l > 0
      <4>1. l \in Var
        BY <1>1, <3>1, <3>2 DEF Var
      <4> QED
        BY <4>1 DEF Lit
    <3>3. CASE ~(l > 0)
      <4>1. -l \in Var /\ l = -(-l)
        BY <1>1, <3>1, <3>3 DEF Var
      <4> QED
        BY <4>1 DEF Lit
    <3> QED
      BY <3>2, <3>3
  <2>2. ASSUME NEW l \in Lit PROVE l \in -MaxVar .. MaxVar \ {0}
    <3>1. l \in Var \/ \E v \in Var : l = -v
      BY DEF Lit
    <3> QED
      BY <1>1, <3>1 DEF Var
  <2> QED
    BY <2>1, <2>2
<1>3. Formula \in Seq(Seq(Lit))
  BY ONLY <1>1, <1>2
<1>4. Len(Formula) \in Nat /\ DOMAIN Formula = 1 .. Len(Formula)
      /\ \A n \in 1 .. Len(Formula) : Formula[n] \in Seq(Lit)
  BY ONLY <1>3, LenProperties, ElementOfSeq
<1>5. DOMAIN Formula \subseteq Addr
  BY <1>1, <1>4 DEF Addr
<1>6. ASSUME NEW n \in DOMAIN Formula PROVE Formula[n][1] \in Lit /\ Formula[n][2] \in Lit
  <2>1. Formula[n] \in Seq(Lit) /\ Len(Formula[n]) >= 2
    BY <1>1, <1>4
  <2>2. Len(Formula[n]) \in Nat /\ \A i \in 1 .. Len(Formula[n]) : Formula[n][i] \in Lit
    BY ONLY <2>1, LenProperties, ElementOfSeq
  <2> QED
    BY <2>1, <2>2
<1> QED
  BY <1>1, <1>3, <1>4, <1>5, <1>6

\* The watches of the formula (init_watches and connect_watches)
LEMMA FirstWatches ==
  ASSUME Init, NEW l \in Lit
  PROVE  watches[l] \in Seq(WatchRecord) /\ Into(watches[l], DOMAIN Formula)
<1> DEFINE T == {c \in DOMAIN Formula : l \in {Formula[c][1], Formula[c][2]}}
<1> DEFINE cs == Filtered(clauses, T)
<1>1. clauses = [c \in DOMAIN Formula |-> c] /\ watches[l] = [n \in DOMAIN cs |-> Watch(cs[n], Formula[cs[n]], l)]
  BY DEF Init
<1>2. clauses \in Seq(Addr) /\ ToSet(clauses) = DOMAIN Formula
  <2>1. clauses \in [1 .. Len(Formula) -> Addr]
    BY <1>1, FormulaIs
  <2>2. Len(Formula) \in Nat
    BY FormulaIs
  <2>3. clauses \in Seq(Addr)
    BY ONLY <2>1, <2>2
  <2> QED
    BY <1>1, <2>3, ZenonT(60) DEF ToSet
<1>3. cs \in Seq(Addr) /\ ToSet(cs) = ToSet(clauses) \cap T
  BY ONLY <1>2, FilteredIs
<1> HIDE DEF cs
<1>4. DOMAIN cs = 1 .. Len(cs) /\ Len(cs) \in Nat /\ \A n \in DOMAIN cs : cs[n] \in DOMAIN Formula
  <2>1. \A n \in DOMAIN cs : cs[n] \in ToSet(cs)
    BY DEF ToSet
  <2> QED
    BY <1>2, <1>3, <2>1, LenProperties
<1>5. ASSUME NEW c \in DOMAIN Formula
      PROVE  Watch(c, Formula[c], l) \in WatchRecord /\ Watch(c, Formula[c], l).clause = c
  <2>1. c \in Addr /\ Formula[c][1] \in Lit /\ Formula[c][2] \in Lit /\ Len(Formula[c]) \in Nat
    BY FormulaIs, LenProperties
  <2> QED
    BY <2>1 DEF Watch, WatchRecord
<1>6. watches[l] \in [1 .. Len(cs) -> WatchRecord]
  BY <1>1, <1>4, <1>5
<1>7. watches[l] \in Seq(WatchRecord)
  BY <1>4, <1>6
<1> QED
  BY <1>1, <1>4, <1>5, <1>7 DEF Into

LEMMA InitHolds ==
  ASSUME Init
  PROVE  IInv
<1>1. /\ mem = [c \in Addr |-> IF c \in DOMAIN Formula THEN Stored(Formula[c], FALSE, 0, 0) ELSE Free]
      /\ clauses = [c \in DOMAIN Formula |-> c]
      /\ trail = <<>> /\ control = <<>> /\ propagated = 0
      /\ reason = [v \in Var |-> 0] /\ conflict = 0
      /\ collected = 0 /\ collections = 0 /\ pc = "search"
      /\ watches = [l \in Lit |-> watches[l]]
  BY DEF Init
<1>2. clauses \in Seq(Addr) /\ Len(clauses) = Len(Formula) /\ K = DOMAIN Formula
  <2>1. clauses \in [1 .. Len(Formula) -> Addr]
    BY <1>1, FormulaIs
  <2>2. Len(Formula) \in Nat
    BY FormulaIs
  <2>3. clauses \in Seq(Addr) /\ Len(clauses) = Len(Formula)
    BY ONLY <2>1, <2>2
  <2> QED
    BY <1>1, <2>3 DEF ToSet, K
<1>3. ListHolds
  BY <1>1, <1>2, FormulaIs DEF ListHolds, IsInjective
<1>4. <<>> \in Seq(Lit) /\ <<>> \in Seq(Nat) /\ Len(<<>>) = 0 /\ 0 \in Nat /\ FALSE \in BOOLEAN
      /\ <<>> \in Seq(Lit)
  OBVIOUS
<1>5. ASSUME NEW lits \in Seq(Lit)
      PROVE  LET r == Stored(lits, FALSE, 0, 0)
             IN r \in ClauseRecord /\ r.lits = lits /\ r.copy = 0 /\ r.reason = FALSE
  BY <1>4 DEF Stored, ClauseRecord
<1>6. /\ mem \in [Addr -> ClauseRecord] /\ StoreIs(mem, K)
      /\ \A c \in Addr : mem[c].copy = 0 /\ mem[c].reason = FALSE
  <2>1. Free \in ClauseRecord /\ Free.copy = 0 /\ Free.reason = FALSE
    BY <1>4, <1>5 DEF Free
  <2>2. \A c \in DOMAIN Formula : Formula[c] \in Seq(Lit) /\ Len(Formula[c]) >= 2
    BY FormulaIs
  <2>3. \A c \in Addr : mem[c] = IF c \in DOMAIN Formula THEN Stored(Formula[c], FALSE, 0, 0) ELSE Free
    BY <1>1
  <2>4. mem \in [Addr -> ClauseRecord]
    BY <1>1, <1>5, <2>1, <2>2
  <2>5. ASSUME NEW c \in Addr
        PROVE  /\ IF c \in DOMAIN Formula THEN Len(mem[c].lits) >= 2 ELSE mem[c] = Free
               /\ mem[c].copy = 0 /\ mem[c].reason = FALSE
    <3>1. CASE c \in DOMAIN Formula
      <4>1. mem[c] = Stored(Formula[c], FALSE, 0, 0) /\ Formula[c] \in Seq(Lit) /\ Len(Formula[c]) >= 2
        BY <2>2, <2>3, <3>1
      <4>2. mem[c].lits = Formula[c] /\ mem[c].copy = 0 /\ mem[c].reason = FALSE
        BY ONLY <1>5, <4>1
      <4> QED
        BY ONLY <3>1, <4>1, <4>2
    <3>2. CASE c \notin DOMAIN Formula
      <4>1. mem[c] = Free
        BY <2>3, <3>2
      <4> QED
        BY ONLY <2>1, <3>2, <4>1
    <3> QED
      BY <3>1, <3>2
  <2> QED
    BY ONLY <1>2, <2>4, <2>5 DEF StoreIs
<1>7. watches \in [Lit -> Seq(WatchRecord)] /\ AllInto(watches, K)
  <2>1. \A l \in Lit : watches[l] \in Seq(WatchRecord) /\ Into(watches[l], DOMAIN Formula)
    BY FirstWatches
  <2> QED
    BY <1>1, <1>2, <2>1 DEF AllInto
<1>8. TypeOK
  <2>1. propagated \in 0 .. Len(trail) /\ reason \in [Var -> Addr \cup {0}]
    BY <1>1, <1>4
  <2> QED
    BY <1>1, <1>2, <1>4, <1>6, <1>7, <2>1 DEF TypeOK, WatchRecord
<1>9. TrailHolds
  BY <1>1 DEF TrailHolds, NoneTwice
<1>10. Protected = {}
  BY <1>1 DEF Protected, RootLits, Level, ToSet
<1> QED
  BY <1>1, <1>3, <1>6, <1>7, <1>8, <1>9, <1>10 DEF IInv, AtRest, Relocating, ConflictHolds

LEMMA StutterHolds ==
  ASSUME IInv, UNCHANGED vars
  PROVE  IInv'
<1>1. /\ mem' = mem /\ clauses' = clauses /\ watches' = watches /\ reason' = reason
      /\ collected' = collected /\ collections' = collections /\ pc' = pc /\ Stays
      /\ TypeOK /\ TrailHolds /\ ListHolds /\ AtRest /\ Relocating /\ ConflictHolds
  BY DEF IInv, vars, store, search, Stays
<1>2. /\ K' = K /\ Staying' = Staying /\ NewStore' = NewStore /\ Protected' = Protected
      /\ \A c : Moved(c)' = Moved(c) /\ CopyOf(c)' = CopyOf(c)
  BY <1>1, StoreUnchanged, ProtectedStays
<1>3. TypeOK' /\ TrailHolds' /\ ListHolds' /\ ConflictHolds'
  BY <1>1, <1>2, TrailStays DEF TypeOK, ListHolds, ConflictHolds, Stays
<1>4. AtRest'
  <2>1. pc \in {"search", "protect", "mark", "copy", "unprotect"} => StoreIs(mem, K)' /\ AllInto(watches, K)'
    BY <1>1, <1>2 DEF AtRest, StoreIs, AllInto, Into
  <2> QED
    BY <1>1, <1>2, <2>1 DEF AtRest
<1>5. Relocating'
  <2>1. pc \in {"watches", "reasons", "delete"} =>
          AllInto(watches, IF pc = "watches" THEN K ELSE NewStore)'
    BY <1>1, <1>2 DEF Relocating, AllInto, Into
  <2> QED
    BY <1>1, <1>2, <2>1 DEF Relocating
<1> QED
  BY <1>3, <1>4, <1>5 DEF IInv

\* The invariant is inductive: one step for each action.
LEMMA StepHolds ==
  ASSUME IInv, [Next]_vars
  PROVE  IInv'
<1>1. CASE PropagateLiteral
  BY <1>1, PropagateLiteralKeeps
<1>2. CASE Restart
  BY <1>2, RestartKeeps
<1>3. CASE Reduce
  BY <1>3, ReduceKeeps
<1>4. CASE \E l \in Lit : Decide(l)
  BY <1>4, DecideKeeps
<1>5. CASE \E S \in SUBSET {-l : l \in ToSet(trail)} : Analyze(S)
  BY <1>5, AnalyzeKeeps
<1>6. CASE ProtectReasons
  BY <1>6, ProtectReasonsKeeps
<1>7. CASE MarkUseless
  BY <1>7, MarkUselessKeeps
<1>8. CASE CopyClauses
  BY <1>8, CopyClausesKeeps
<1>9. CASE FlushWatches
  BY <1>9, FlushWatchesKeeps
<1>10. CASE UpdateReasons
  BY <1>10, UpdateReasonsKeeps
<1>11. CASE DeleteGarbage
  BY <1>11, DeleteGarbageKeeps
<1>12. CASE UnprotectReasons
  BY <1>12, UnprotectReasonsKeeps
<1>13. CASE UNCHANGED vars
  BY <1>13, StutterHolds
<1> QED
  BY <1>1, <1>2, <1>3, <1>4, <1>5, <1>6, <1>7, <1>8, <1>9, <1>10, <1>11, <1>12, <1>13 DEF Next

LEMMA InvariantPointers ==
  ASSUME IInv
  PROVE  PointersHold
<1>1. TypeOK /\ ListHolds /\ AtRest /\ ConflictHolds
  BY DEF IInv
<1>2. SUFFICES ASSUME pc = "search" PROVE
        /\ ToSet(clauses) = {c \in Addr : mem[c] # Free} /\ IsInjective(clauses)
        /\ \A l \in Lit : \A w \in ToSet(watches[l]) : w.clause \in ToSet(clauses)
        /\ Protected \cup ({conflict} \ {0}) \subseteq ToSet(clauses)
        /\ \A c \in Addr : mem[c].copy = 0 /\ ~mem[c].reason
  BY <1>1 DEF PointersHold, NoDanglingPointer
<1>3. /\ StoreIs(mem, K) /\ AllInto(watches, K) /\ Protected \subseteq K /\ conflict \in K \cup {0}
      /\ \A c \in Addr : mem[c].copy = 0 /\ ~mem[c].reason
  BY <1>1, <1>2 DEF AtRest, ConflictHolds
<1>4. K = {c \in Addr : mem[c] # Free}
  <2>1. Len(Free.lits) = 0 /\ K \subseteq Addr
    BY <1>1, StoreFacts
  <2>2. \A c \in K : mem[c] # Free
    BY <1>3, <2>1 DEF StoreIs
  <2>3. \A c \in Addr : c \notin K => mem[c] = Free
    BY <1>3 DEF StoreIs
  <2> QED
    BY <2>1, <2>2, <2>3
<1>5. \A l \in Lit : \A w \in ToSet(watches[l]) : w.clause \in K
  BY <1>3 DEF AllInto, Into, ToSet
<1>6. IsInjective(clauses)
  BY <1>1 DEF ListHolds
<1> QED
  BY <1>3, <1>4, <1>5, <1>6 DEF K

\* Whatever is reduced and moved, between two collections the clause list holds each
\* clause in memory once, and every watch, the conflict and every reason above the
\* root level points to one of them (collect.cpp, reduce.cpp).
THEOREM PointersAreKept == Spec => []PointersHold
<1>1. Init => IInv
  BY InitHolds
<1>2. IInv /\ [Next]_vars => IInv'
  BY StepHolds
<1>3. IInv => PointersHold
  BY InvariantPointers
<1> QED
  BY <1>1, <1>2, <1>3, PTL DEF Spec
=============================================================================
